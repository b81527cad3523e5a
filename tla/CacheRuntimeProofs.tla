-------------------------- MODULE CacheRuntimeProofs --------------------------
(* The safety of the compute path of CacheRuntime, proved for every set of *)
(* processes, calls and writers and every setting of the options.          *)
EXTENDS CacheRuntime, TLAPS

-----------------------------------------------------------------------------
(* The inductive invariant, part by part *)

(* Nothing began in the future, and no life is remembered that has not     *)
(* begun.                                                                  *)
Ages ==
  /\ \A p \in Procs : flight[p].started <= now /\ flight[p].life <= lives
  /\ store # NoEntry => /\ store.started <= now
                        /\ store.life \in 1..lives
  /\ \A c \in Calls : caller[c].entry # NoEntry =>
                         caller[c].entry.life \in 1..lives

(* What was observed of a record is not newer than the record, for as long *)
(* as it lives; when it is the record's revision, the record was written   *)
(* by a computation that began before the observer's.                      *)
Observations ==
  /\ \A c \in Calls :
       (store # NoEntry /\ caller[c].entry # NoEntry
        /\ store.life = caller[c].entry.life)
       => caller[c].entry.rev <= store.rev
  /\ \A p \in Procs :
       (store # NoEntry /\ store.life = flight[p].life)
       => /\ flight[p].obs <= store.rev
          /\ flight[p].obs = store.rev => store.started <= flight[p].started

(* A flight believes to hold the lock only while it is past acquiring it,  *)
(* and it does hold it until its ttl has passed.                           *)
LockOwned ==
  \A p \in Procs :
    flight[p].locked =>
      /\ flight[p].pc \notin {"none", "lock", "poll"}
      /\ \/ now >= flight[p].started + LockTtl
         \/ /\ lock.holder = p
            /\ lock.expires >= flight[p].started + LockTtl

(* Until a storage call fails, an unexpired lock has an owner that has not *)
(* released it, and nobody ends without having released.                   *)
LockHeld ==
  faults = 0 =>
    /\ (lock.holder # NoProc /\ now < lock.expires)
       => flight[lock.holder].locked
    /\ \A p \in Procs : flight[p].pc = "end" => ~flight[p].locked

Invalidating == {"delete", "tomb", "done"}

(* A flight that began after an invalidation was begun has read the change *)
(* the invalidation is for; a flight that passed the tombstone check began *)
(* after every invalidation it has seen.                                   *)
ReadAfter ==
  /\ \A w \in Writers : writer[w].wrote <= version
  /\ \A p \in Procs, w \in Writers :
       (/\ flight[p].pc \in {"running", "check", "write"}
        /\ writer[w].pc \in Invalidating
        /\ writer[w].at < flight[p].started)
       => flight[p].value >= writer[w].wrote
  /\ ~Versioned =>
       \A p \in Procs : flight[p].pc \notin {"tags", "release", "end"} =>
         \A w \in flight[p].seen :
           writer[w].pc = "done" /\ writer[w].at < flight[p].started

(* Under fail-open nothing of a flight or of a call is a storage failure.  *)
Hidden ==
  (~FailClosed /\ ~LockThrows) =>
    /\ \A p \in Procs : flight[p].origin # "storage"
    /\ \A c \in Calls : caller[c].origin # "storage"

IInv ==
  StateOK /\ Ages /\ Observations /\ LockOwned /\ LockHeld /\ ReadAfter /\ Hidden

(* What a write knows of the record it is to replace, and of invalidations,*)
(* for as long as it is under way.                                         *)
WriteFits(f) ==
  /\ f.started <= now /\ f.life <= lives
  /\ (store # NoEntry /\ store.life = f.life)
     => /\ f.obs <= store.rev
        /\ f.obs = store.rev => store.started <= f.started
  /\ ~Versioned => \A w \in f.seen : /\ writer[w].pc = "done"
                                     /\ f.value >= writer[w].wrote

(* The part about the writes that no flight waits for any more.            *)
LateKept == late \subseteq Flight /\ \A f \in late : WriteFits(f)

-----------------------------------------------------------------------------
(* Types *)

(* A read returns an entry of the storage, or none.                        *)
LEMMA StoredType ==
  ASSUME StateOK
  PROVE  /\ Stored \in Entry \union {NoEntry}
         /\ Stored # NoEntry => Stored = store /\ store \in Entry
BY DEF Stored, StateOK

(* What writeEntry builds is an entry.                                     *)
LEMMA NewEntryType ==
  ASSUME StateOK, NEW f \in Flight PROVE NewEntry(f) \in Entry
<1>1. /\ Ttl \in Nat /\ StaleTtl \in Nat /\ ErrorTtl \in Nat
      /\ f.obs \in Nat /\ f.kind \in {"value", "error"} /\ f.value \in Nat
      /\ f.created \in Nat /\ f.started \in Nat
  BY RuntimeAssumption DEF Flight
<1>2. (IF Stored = NoEntry THEN lives + 1 ELSE Stored.life) \in Nat
  BY StoredType DEF StateOK, Entry
<1> QED  BY <1>1, <1>2 DEF NewEntry, Entry

(* The record of a process without a flight.                               *)
LEMMA NoFlightType == NoFlight \in Flight
BY DEF NoFlight, Flight, FlightPcs

(* A flight begins well typed.                                             *)
LEMMA FlightStarts ==
  ASSUME NEW pc \in FlightPcs, NEW n \in Nat, NEW m \in Nat, NEW t \in Nat,
         NEW b \in BOOLEAN
  PROVE  [NoFlight EXCEPT !.pc = pc, !.obs = n, !.life = m, !.started = t,
                          !.keepAlive = b] \in Flight
BY DEF NoFlight, Flight, FlightPcs

-----------------------------------------------------------------------------
(* What a step of one flight keeps *)

(* Only the flight of p moves.                                             *)
Moves(p) == /\ flight' = [flight EXCEPT ![p] = flight'[p]]
            /\ flight'[p] \in Flight

(* It is still the computation that began then, having observed that.      *)
SameStart(p) == /\ flight'[p].started = flight[p].started
                /\ flight'[p].obs = flight[p].obs
                /\ flight'[p].life = flight[p].life

SameLock(p) == /\ flight'[p].locked = flight[p].locked
               /\ UNCHANGED lock

(* What it has read and seen stays as it was; its source is not started.   *)
SameRead(p) ==
  /\ flight'[p].pc \in {"running", "check", "write"} =>
       /\ flight[p].pc \in {"running", "check", "write"}
       /\ flight'[p].value = flight[p].value
  /\ flight'[p].pc \notin {"tags", "release", "end"} =>
       /\ flight[p].pc \notin {"tags", "release", "end"}
       /\ flight'[p].seen = flight[p].seen

(* No failure, or one more.                                                *)
Counted == faults' = faults \/ Fault

(* A step of a flight that touches no record keeps what is known of them.  *)
LEMMA RecordsKept ==
  ASSUME IInv, NEW p \in Procs, Moves(p), SameStart(p),
         UNCHANGED <<now, store, lives, caller>>
  PROVE  Ages' /\ Observations'
<1>1. \A q \in Procs : /\ flight'[q].started = flight[q].started
                       /\ flight'[q].obs = flight[q].obs
                       /\ flight'[q].life = flight[q].life
  BY DEF Moves, SameStart, IInv, StateOK
<1> QED  BY <1>1 DEF IInv, Ages, Observations

(* A step of a flight that touches no lock keeps what is known of it.      *)
LEMMA LockKept ==
  ASSUME IInv, NEW p \in Procs, Moves(p), SameStart(p), SameLock(p), Counted,
         UNCHANGED now,
         flight[p].locked => flight'[p].pc \notin {"none", "lock", "poll"},
         (flight'[p].pc = "end" /\ flight[p].locked) => faults' # 0
  PROVE  LockOwned' /\ LockHeld'
<1>1. \A q \in Procs : q # p => flight'[q] = flight[q]
  BY DEF Moves, IInv, StateOK
<1>2. faults' = 0 => faults = 0
  BY DEF Counted, Fault, IInv, StateOK
<1>3. LockOwned'
  BY <1>1 DEF IInv, LockOwned, SameStart, SameLock
<1>4. LockHeld'
  <2> SUFFICES ASSUME faults' = 0 PROVE LockHeld'  BY DEF LockHeld
  <2>1. LockHeld /\ lock \in Lock  BY DEF IInv, StateOK
  <2> QED  BY <1>1, <1>2, <2>1 DEF LockHeld, SameLock, Lock
<1> QED  BY <1>3, <1>4

(* A step of a flight that reads nothing keeps what is known of its reads. *)
LEMMA ReadKept ==
  ASSUME IInv, NEW p \in Procs, Moves(p), SameStart(p), SameRead(p),
         UNCHANGED <<version, writer>>
  PROVE  ReadAfter'
<1>1. \A q \in Procs : q # p => flight'[q] = flight[q]
  BY DEF Moves, IInv, StateOK
<1>2. ReadAfter  BY DEF IInv
<1> QED  BY <1>1, <1>2 DEF ReadAfter, SameStart, SameRead

(* All of it together, for the steps of a flight with no effect but on     *)
(* itself.                                                                 *)
LEMMA QuietFlight ==
  ASSUME IInv, NEW p \in Procs, Moves(p), SameStart(p), SameLock(p),
         SameRead(p), Counted,
         UNCHANGED <<now, version, store, lives, tomb, caller, writer>>,
         flight[p].locked => flight'[p].pc \notin {"none", "lock", "poll"},
         (flight'[p].pc = "end" /\ flight[p].locked) => faults' # 0,
         (~FailClosed /\ ~LockThrows) => flight'[p].origin # "storage"
  PROVE  IInv'
<1>1. StateOK'
  BY DEF Moves, SameLock, Counted, Fault, IInv, StateOK
<1>2. Hidden'
  <2>1. \A q \in Procs : q # p => flight'[q] = flight[q]
    BY DEF Moves, IInv, StateOK
  <2> QED  BY <2>1 DEF IInv, Hidden
<1> QED  BY <1>1, <1>2, RecordsKept, LockKept, ReadKept DEF IInv

(* The flight goes to its next step and changes nothing else.              *)
LEMMA GotoMoves ==
  ASSUME StateOK, NEW p \in Procs, NEW pc \in FlightPcs, Goto(p, pc)
  PROVE  /\ Moves(p) /\ SameStart(p) /\ flight'[p].pc = pc
         /\ flight'[p].locked = flight[p].locked
         /\ flight'[p].value = flight[p].value
         /\ flight'[p].seen = flight[p].seen
         /\ flight'[p].origin = flight[p].origin
<1>1. flight[p] \in Flight  BY DEF StateOK
<1>2. flight' = [flight EXCEPT ![p] = [flight[p] EXCEPT !.pc = pc]]
  BY DEF Goto
<1>3. flight'[p] = [flight[p] EXCEPT !.pc = pc]
  BY <1>2 DEF StateOK
<1>4. flight'[p] \in Flight
  BY <1>1, <1>3 DEF Flight
<1>5. Moves(p)
  BY <1>2, <1>3, <1>4 DEF Moves
<1>6. flight'[p].locked = flight[p].locked
  BY <1>1, <1>3 DEF Flight
<1> QED  BY <1>1, <1>3, <1>5, <1>6 DEF SameStart, Flight

(* The flight settles with an outcome that is not its source's.            *)
LEMMA SettleMoves ==
  ASSUME StateOK, NEW p \in Procs, NEW pc \in FlightPcs,
         NEW k \in {"value", "error"}, NEW v \in Nat,
         NEW g \in {"source", "peer", "storage"}, Settle(p, pc, k, v, g)
  PROVE  /\ Moves(p) /\ SameStart(p) /\ flight'[p].pc = pc
         /\ flight'[p].locked = flight[p].locked
         /\ flight'[p].seen = flight[p].seen
         /\ flight'[p].origin = g
<1>1. flight[p] \in Flight  BY DEF StateOK
<1>2. flight' = [flight EXCEPT ![p] = [flight[p] EXCEPT !.pc = pc,
                   !.outcome = k, !.value = v, !.origin = g]]
  BY DEF Settle
<1>3. flight'[p] = [flight[p] EXCEPT !.pc = pc, !.outcome = k, !.value = v,
                                     !.origin = g]
  BY <1>2 DEF StateOK
<1>4. flight'[p] \in Flight
  BY <1>1, <1>3 DEF Flight
<1>5. Moves(p)
  BY <1>2, <1>3, <1>4 DEF Moves
<1>6. flight'[p].locked = flight[p].locked
  BY <1>1, <1>3 DEF Flight
<1> QED  BY <1>1, <1>3, <1>5, <1>6 DEF SameStart, Flight

(* The head of writeEntry: a kind, a time, and what comes next.            *)
LEMMA BeginWriteMoves ==
  ASSUME StateOK, NEW p \in Procs, NEW k \in {"value", "error"},
         BeginWrite(p, k)
  PROVE  /\ Moves(p) /\ SameStart(p) /\ flight'[p].pc \in {"check", "write"}
         /\ flight'[p].locked = flight[p].locked
         /\ flight'[p].value = flight[p].value
         /\ flight'[p].seen = flight[p].seen
         /\ flight'[p].origin = flight[p].origin
<1> DEFINE pc == IF Strict THEN "check" ELSE "write"
<1>1. flight[p] \in Flight /\ now \in Nat /\ pc \in {"check", "write"}
  BY DEF StateOK
<1>2. flight' = [flight EXCEPT ![p] = [flight[p] EXCEPT !.kind = k,
                   !.outcome = k, !.created = now, !.pc = pc]]
  BY DEF BeginWrite
<1> HIDE DEF pc
<1>3. flight'[p] = [flight[p] EXCEPT !.kind = k, !.outcome = k,
                                     !.created = now, !.pc = pc]
  BY <1>2 DEF StateOK
<1>4. flight'[p] \in Flight
  BY <1>1, <1>3 DEF Flight, FlightPcs
<1>5. Moves(p)
  BY <1>2, <1>3, <1>4 DEF Moves
<1>6. flight'[p].locked = flight[p].locked
  BY <1>1, <1>3 DEF Flight
<1> QED  BY <1>1, <1>3, <1>5, <1>6 DEF SameStart, Flight

-----------------------------------------------------------------------------
(* The steps of a flight *)

(* The double check ends without release only when its read fails.         *)
LEMMA RecheckInv == ASSUME IInv, NEW p \in Procs, Recheck(p) PROVE IInv'
<1> USE DEF FlightPcs
<1>1. /\ StateOK /\ flight[p].pc = "recheck" /\ faults \in Nat
      /\ flight[p].origin = "storage" => FailClosed \/ LockThrows
      /\ UNCHANGED <<now, version, store, lives, tomb, lock, caller, writer>>
  BY DEF IInv, StateOK, Recheck, Hidden
<1>2. \/ /\ Settle(p, "release", Stored.kind, Stored.value, "peer")
         /\ Stored \in Entry /\ faults' = faults
      \/ Goto(p, "source") /\ (faults' = faults \/ Fault)
      \/ FailClosed /\ Fault /\ Settle(p, "end", "error", 0, "storage")
  BY <1>1, StoredType DEF Recheck, HasFresh
<1>3. CASE /\ Settle(p, "release", Stored.kind, Stored.value, "peer")
           /\ Stored \in Entry /\ faults' = faults
  <2>1. Stored.kind \in {"value", "error"} /\ Stored.value \in Nat
    BY <1>3 DEF Entry
  <2>2. /\ Moves(p) /\ SameStart(p) /\ flight'[p].pc = "release"
        /\ flight'[p].locked = flight[p].locked
        /\ flight'[p].origin = "peer"
    BY <1>1, <1>3, <2>1, SettleMoves
  <2> QED
    BY <1>1, <1>3, <2>2, QuietFlight DEF SameLock, SameRead, Counted
<1>4. CASE Goto(p, "source") /\ (faults' = faults \/ Fault)
  <2>1. /\ Moves(p) /\ SameStart(p) /\ flight'[p].pc = "source"
        /\ flight'[p].locked = flight[p].locked
        /\ flight'[p].seen = flight[p].seen
        /\ flight'[p].origin = flight[p].origin
    BY <1>1, <1>4, GotoMoves
  <2> QED
    BY <1>1, <1>4, <2>1, QuietFlight DEF SameLock, SameRead, Counted
<1>5. CASE FailClosed /\ Fault /\ Settle(p, "end", "error", 0, "storage")
  <2>1. /\ Moves(p) /\ SameStart(p) /\ flight'[p].pc = "end"
        /\ flight'[p].locked = flight[p].locked
    BY <1>1, <1>5, SettleMoves
  <2> QED
    BY <1>1, <1>5, <2>1, QuietFlight DEF SameLock, SameRead, Counted, Fault
<1> QED  BY <1>2, <1>3, <1>4, <1>5

(* A peer's entry, the lock once more, or the end of patience.             *)
LEMMA PollInv == ASSUME IInv, NEW p \in Procs, Poll(p) PROVE IInv'
<1> USE DEF FlightPcs
<1>1. /\ StateOK /\ flight[p].pc = "poll" /\ ~flight[p].locked
      /\ flight[p].origin = "storage" => FailClosed \/ LockThrows
      /\ UNCHANGED <<now, version, store, lives, tomb, lock, caller, writer>>
      /\ Counted
  BY DEF IInv, StateOK, Poll, Hidden, LockOwned, Counted
<1>2. \/ /\ Settle(p, "end", Stored.kind, Stored.value, "peer")
         /\ Stored \in Entry
      \/ PollAgain(p)
      \/ FailClosed /\ Settle(p, "end", "error", 0, "storage")
  BY <1>1, StoredType DEF Poll, HasFresh
<1>3. CASE /\ Settle(p, "end", Stored.kind, Stored.value, "peer")
           /\ Stored \in Entry
  <2>1. Stored.kind \in {"value", "error"} /\ Stored.value \in Nat
    BY <1>3 DEF Entry
  <2>2. /\ Moves(p) /\ SameStart(p) /\ flight'[p].pc = "end"
        /\ flight'[p].locked = flight[p].locked
        /\ flight'[p].origin = "peer"
    BY <1>1, <1>3, <2>1, SettleMoves
  <2> QED
    BY <1>1, <2>2, QuietFlight DEF SameLock, SameRead
<1>4. CASE FailClosed /\ Settle(p, "end", "error", 0, "storage")
  <2>1. /\ Moves(p) /\ SameStart(p) /\ flight'[p].pc = "end"
        /\ flight'[p].locked = flight[p].locked
    BY <1>1, <1>4, SettleMoves
  <2> QED
    BY <1>1, <1>4, <2>1, QuietFlight DEF SameLock, SameRead
<1>5. CASE LockThrows /\ Settle(p, "end", "error", 0, "storage")
  <2>1. /\ Moves(p) /\ SameStart(p) /\ flight'[p].pc = "end"
        /\ flight'[p].locked = flight[p].locked
    BY <1>1, <1>5, SettleMoves
  <2> QED
    BY <1>1, <1>5, <2>1, QuietFlight DEF SameLock, SameRead
<1>6. CASE Goto(p, "source")
  <2>1. /\ Moves(p) /\ SameStart(p) /\ flight'[p].pc = "source"
        /\ flight'[p].locked = flight[p].locked
        /\ flight'[p].seen = flight[p].seen
        /\ flight'[p].origin = flight[p].origin
    BY <1>1, <1>6, GotoMoves
  <2> QED
    BY <1>1, <2>1, QuietFlight DEF SameLock, SameRead
<1>7. CASE flight' = [flight EXCEPT ![p].pc = "lock", ![p].polls = @ + 1]
  <2>1. flight[p] \in Flight  BY <1>1 DEF StateOK
  <2>2. flight' = [flight EXCEPT ![p] = [flight[p] EXCEPT !.pc = "lock",
                                             !.polls = flight[p].polls + 1]]
    BY <1>1, <1>7 DEF StateOK
  <2>record. flight'[p] = [flight[p] EXCEPT !.pc = "lock",
                                          !.polls = flight[p].polls + 1]
    BY <1>1, <2>2 DEF StateOK
  <2>type. flight'[p] \in Flight
    <3> DEFINE n == flight[p].polls + 1
    <3>1. n \in Nat /\ "lock" \in FlightPcs  BY <2>1 DEF Flight
    <3>2. flight'[p] = [flight[p] EXCEPT !.pc = "lock", !.polls = n]
      BY <2>record
    <3> HIDE DEF n
    <3> QED  BY <2>1, <3>1, <3>2 DEF Flight
  <2>3. Moves(p)
    BY <2>2, <2>record, <2>type DEF Moves
  <2>4. flight'[p].locked = flight[p].locked
    BY <2>1, <2>record DEF Flight
  <2>5. /\ SameStart(p) /\ flight'[p].pc = "lock"
        /\ flight'[p].seen = flight[p].seen
        /\ flight'[p].origin = flight[p].origin
    BY <2>1, <2>record DEF Flight, SameStart
  <2> QED
    BY <1>1, <2>3, <2>4, <2>5, QuietFlight DEF SameLock, SameRead
<1> QED
  BY <1>2, <1>3, <1>4, <1>5, <1>6, <1>7 DEF PollAgain

(* The source settled: its result is written or handed on.                 *)
LEMMA FinishSourceInv == ASSUME IInv, NEW p \in Procs, FinishSource(p) PROVE IInv'
<1> USE DEF FlightPcs
<1>1. /\ StateOK /\ flight[p].pc = "running" /\ flight[p].value \in Nat
      /\ flight[p].origin = "storage" => FailClosed \/ LockThrows
      /\ UNCHANGED <<now, version, store, lives, tomb, lock, caller, writer>>
      /\ Counted
  BY DEF IInv, StateOK, FinishSource, Hidden, Counted, Flight
<1>2. CASE \E k \in {"value", "error"} : BeginWrite(p, k)
  <2>1. /\ Moves(p) /\ SameStart(p) /\ flight'[p].pc \in {"check", "write"}
        /\ flight'[p].locked = flight[p].locked
        /\ flight'[p].value = flight[p].value
        /\ flight'[p].seen = flight[p].seen
        /\ flight'[p].origin = flight[p].origin
    BY <1>1, <1>2, BeginWriteMoves
  <2> QED
    BY <1>1, <2>1, QuietFlight DEF SameLock, SameRead
<1>3. CASE \E k \in {"value", "error"}, v \in Nat :
             Settle(p, "release", k, v, "source")
  <2>1. /\ Moves(p) /\ SameStart(p) /\ flight'[p].pc = "release"
        /\ flight'[p].locked = flight[p].locked
        /\ flight'[p].origin = "source"
    BY <1>1, <1>3, SettleMoves
  <2> QED
    BY <1>1, <2>1, QuietFlight DEF SameLock, SameRead
<1> QED  BY <1>1, <1>2, <1>3 DEF FinishSource

(* addTags is awaited and changes nothing.                                 *)
LEMMA AddTagsInv == ASSUME IInv, NEW p \in Procs, AddTags(p) PROVE IInv'
<1> USE DEF FlightPcs
<1>1. /\ StateOK /\ flight[p].pc = "tags" /\ Goto(p, "release")
      /\ flight[p].origin = "storage" => FailClosed \/ LockThrows
      /\ UNCHANGED <<now, version, store, lives, tomb, lock, caller, writer>>
      /\ Counted
  BY DEF IInv, AddTags, Hidden, Counted
<1>2. /\ Moves(p) /\ SameStart(p) /\ flight'[p].pc = "release"
      /\ flight'[p].locked = flight[p].locked
      /\ flight'[p].origin = flight[p].origin
  BY <1>1, GotoMoves
<1> QED  BY <1>1, <1>2, QuietFlight DEF SameLock, SameRead

(* The source reads the truth after the flight began: whatever was changed *)
(* and was being invalidated by then is in what it reads.                  *)
LEMMA StartSourceInv == ASSUME IInv, NEW p \in Procs, StartSource(p) PROVE IInv'
<1> USE DEF FlightPcs
<1>1. /\ StateOK /\ flight[p].pc = "source" /\ flight[p] \in Flight
      /\ flight[p].origin = "storage" => FailClosed \/ LockThrows
      /\ UNCHANGED <<now, version, store, lives, tomb, lock, caller, writer>>
      /\ Counted /\ version \in Nat
  BY DEF IInv, StartSource, Hidden, Counted, StateOK
<1>2. flight' = [flight EXCEPT ![p] = [flight[p] EXCEPT !.pc = "running",
                                           !.value = version]]
  BY <1>1 DEF StateOK, StartSource
<1>record. flight'[p] = [flight[p] EXCEPT !.pc = "running", !.value = version]
  BY <1>1, <1>2 DEF StateOK
<1>type. flight'[p] \in Flight
  BY <1>1, <1>record DEF Flight
<1>3. Moves(p)
  BY <1>2, <1>record, <1>type DEF Moves
<1>4. flight'[p].locked = flight[p].locked
  BY <1>1, <1>record DEF Flight
<1>5. /\ SameStart(p) /\ flight'[p].pc = "running"
      /\ flight'[p].value = version
      /\ flight'[p].seen = flight[p].seen
      /\ flight'[p].origin = flight[p].origin
  BY <1>1, <1>record DEF Flight, SameStart
<1>6. \A q \in Procs : q # p => flight'[q] = flight[q]
  BY <1>1, <1>2 DEF StateOK
<1>7. ReadAfter'
  BY <1>1, <1>5, <1>6 DEF IInv, ReadAfter, SameStart
<1>8. Hidden'
  BY <1>1, <1>5, <1>6 DEF IInv, Hidden
<1>9. StateOK'
  BY <1>1, <1>3 DEF StateOK, Moves, Counted, Fault
<1> QED
  BY <1>1, <1>3, <1>4, <1>5, <1>7, <1>8, <1>9, RecordsKept, LockKept
     DEF IInv, SameLock

(* A flight that passes the check began after what it has seen.            *)
LEMMA CheckTombstoneInv ==
  ASSUME IInv, NEW p \in Procs, CheckTombstone(p) PROVE IInv'
<1> USE DEF FlightPcs
<1> DEFINE Over == {w \in Done : tomb >= writer[w].at}
           pc == IF Refused(flight[p]) THEN "release" ELSE "write"
<1>1. /\ StateOK /\ flight[p].pc = "check" /\ flight[p] \in Flight
      /\ flight[p].origin = "storage" => FailClosed \/ LockThrows
      /\ UNCHANGED <<now, version, store, lives, tomb, lock, caller, writer>>
      /\ Counted /\ Over \in SUBSET Writers /\ pc \in {"release", "write"}
  BY DEF IInv, CheckTombstone, Hidden, Counted, StateOK, Done
<1>2. CASE Goto(p, "write")
  <2>1. /\ Moves(p) /\ SameStart(p) /\ flight'[p].pc = "write"
        /\ flight'[p].locked = flight[p].locked
        /\ flight'[p].value = flight[p].value
        /\ flight'[p].seen = flight[p].seen
        /\ flight'[p].origin = flight[p].origin
    BY <1>1, <1>2, GotoMoves
  <2> QED
    BY <1>1, <2>1, QuietFlight DEF SameLock, SameRead
<1>3. CASE flight' = [flight EXCEPT ![p].pc = pc, ![p].seen = Over]
  <2>1. (pc = "write" /\ ~Versioned) =>
          \A w \in Over : writer[w].pc = "done" /\ writer[w].at < flight[p].started
    BY <1>1 DEF Refused, Tombstone, Done, StateOK, Writer, Flight
  <2> HIDE DEF pc, Over
  <2>2. flight' = [flight EXCEPT ![p] = [flight[p] EXCEPT !.pc = pc,
                                                             !.seen = Over]]
    BY <1>1, <1>3 DEF StateOK
  <2>record. flight'[p] = [flight[p] EXCEPT !.pc = pc, !.seen = Over]
    BY <1>1, <2>2 DEF StateOK
  <2>type. flight'[p] \in Flight
    BY <1>1, <2>record DEF Flight
  <2>3. Moves(p)
    BY <2>2, <2>record, <2>type DEF Moves
  <2>4. flight'[p].locked = flight[p].locked
    BY <1>1, <2>record DEF Flight
  <2>5. /\ SameStart(p) /\ flight'[p].pc = pc
        /\ flight'[p].value = flight[p].value
        /\ flight'[p].seen = Over
        /\ flight'[p].origin = flight[p].origin
    BY <1>1, <2>record DEF Flight, SameStart
  <2>6. \A q \in Procs : q # p => flight'[q] = flight[q]
    BY <1>1, <2>2 DEF StateOK
  <2>7. ReadAfter'
    BY <1>1, <2>1, <2>5, <2>6 DEF IInv, ReadAfter, SameStart
  <2>8. Hidden'
    BY <1>1, <2>5, <2>6 DEF IInv, Hidden
  <2>9. StateOK'
    BY <1>1, <2>3 DEF StateOK, Moves, Counted, Fault
  <2> QED
    BY <1>1, <2>3, <2>4, <2>5, <2>7, <2>8, <2>9, RecordsKept, LockKept
       DEF IInv, SameLock
<1> QED  BY <1>2, <1>3 DEF CheckTombstone

(* The storage gives a lock away only when it is free, and a holder that   *)
(* finds it taken has outlasted its ttl.                                   *)
LEMMA TakenLock ==
  ASSUME IInv, NEW p \in Procs, LockIsFree, TakeLock(p), ~flight[p].locked,
         NEW q \in Procs, flight[q].locked
  PROVE  now >= flight[q].started + LockTtl
<1>1. /\ q \in Procs /\ q # NoProc /\ LockTtl \in Nat
      /\ now \in Nat /\ flight[q].started \in Nat /\ lock.expires \in Nat
  BY RuntimeAssumption DEF IInv, StateOK, Flight, Lock
<1> QED  BY <1>1 DEF LockIsFree, IInv, LockOwned

(* The lock is taken, found taken, or given up on.                         *)
LEMMA AcquireInv == ASSUME IInv, NEW p \in Procs, Acquire(p) PROVE IInv'
<1> USE DEF FlightPcs
<1>1. /\ StateOK /\ flight[p].pc = "lock" /\ flight[p] \in Flight
      /\ ~flight[p].locked
      /\ flight[p].origin = "storage" => FailClosed \/ LockThrows
      /\ UNCHANGED <<now, version, store, lives, tomb, caller, writer>>
      /\ Counted
  BY DEF IInv, Acquire, Hidden, Counted, StateOK, LockOwned
<1>2. /\ NoProc \notin Procs /\ LockTtl \in Nat \ {0} /\ now \in Nat
      /\ flight[p].started \in Nat /\ flight[p].started <= now
  BY <1>1, RuntimeAssumption DEF IInv, StateOK, Ages, Flight
<1>3. ASSUME LockIsFree, TakeLock(p), Moves(p), SameStart(p), faults' # 0 \/ flight'[p].locked,
             flight'[p].pc \in {"recheck", "source"},
             flight'[p].seen = flight[p].seen,
             flight'[p].origin = flight[p].origin
      PROVE  IInv'
  <2>1. /\ lock' = [holder |-> p, expires |-> now + LockTtl] /\ lock' \in Lock
    BY <1>2, <1>3 DEF TakeLock, Lock
  <2>2. \A q \in Procs : q # p => flight'[q] = flight[q]
    BY <1>1, <1>3 DEF Moves, StateOK
  <2>3. StateOK'
    BY <1>1, <1>3, <2>1 DEF StateOK, Moves, Counted, Fault
  <2>4. \A q \in Procs \ {p} : flight[q].locked =>
          now >= flight[q].started + LockTtl
    BY <1>1, <1>3, TakenLock
  <2>5. LockOwned'
    BY <1>1, <1>2, <1>3, <2>1, <2>2, <2>4 DEF IInv, LockOwned, SameStart
  <2>6. LockHeld'
    <3> SUFFICES ASSUME faults' = 0 PROVE LockHeld'  BY DEF LockHeld
    <3>1. faults = 0  BY <1>1 DEF Counted, Fault, StateOK
    <3>2. \A q \in Procs : flight'[q].pc = "end" => ~flight'[q].locked
      BY <1>3, <2>2, <3>1 DEF IInv, LockHeld
    <3> QED  BY <1>3, <2>1, <3>2 DEF LockHeld
  <2>7. ReadAfter'
    BY <1>1, <1>3, ReadKept DEF SameRead
  <2>8. Hidden'
    BY <1>1, <1>3, <2>2 DEF IInv, Hidden
  <2> QED
    BY <1>1, <1>3, <2>3, <2>5, <2>6, <2>7, <2>8, RecordsKept DEF IInv
<1>4. CASE /\ LockIsFree /\ TakeLock(p)
           /\ flight' = [flight EXCEPT ![p].pc = "recheck", ![p].locked = TRUE]
  <2>1. flight' = [flight EXCEPT ![p] = [flight[p] EXCEPT !.pc = "recheck",
                                                          !.locked = TRUE]]
    BY <1>1, <1>4 DEF StateOK
  <2>2. flight'[p] = [flight[p] EXCEPT !.pc = "recheck", !.locked = TRUE]
    BY <1>1, <2>1 DEF StateOK
  <2>3. flight'[p] \in Flight /\ flight'[p].locked
    BY <1>1, <2>2 DEF Flight
  <2>4. Moves(p)
    BY <2>1, <2>2, <2>3 DEF Moves
  <2>5. /\ SameStart(p) /\ flight'[p].pc = "recheck"
        /\ flight'[p].seen = flight[p].seen
        /\ flight'[p].origin = flight[p].origin
    BY <1>1, <2>2 DEF Flight, SameStart
  <2> QED  BY <1>3, <1>4, <2>3, <2>4, <2>5
<1>5. CASE Goto(p, "poll") /\ UNCHANGED lock
  <2>1. /\ Moves(p) /\ SameStart(p) /\ flight'[p].pc = "poll"
        /\ flight'[p].locked = flight[p].locked
        /\ flight'[p].seen = flight[p].seen
        /\ flight'[p].origin = flight[p].origin
    BY <1>1, <1>5, GotoMoves
  <2> QED
    BY <1>1, <1>5, <2>1, QuietFlight DEF SameLock, SameRead
<1>6. CASE Goto(p, "source") /\ Fault
           /\ (UNCHANGED lock \/ (LockIsFree /\ TakeLock(p)))
  <2>1. /\ Moves(p) /\ SameStart(p) /\ flight'[p].pc = "source"
        /\ flight'[p].locked = flight[p].locked
        /\ flight'[p].seen = flight[p].seen
        /\ flight'[p].origin = flight[p].origin
    BY <1>1, <1>6, GotoMoves
  <2>2. faults' # 0  BY <1>1, <1>6 DEF Fault, StateOK
  <2>3. CASE UNCHANGED lock
    BY <1>1, <2>1, <2>3, QuietFlight DEF SameLock, SameRead
  <2>4. CASE LockIsFree /\ TakeLock(p)
    BY <1>3, <2>1, <2>2, <2>4
  <2> QED  BY <1>6, <2>3, <2>4
<1>7. \/ LockIsFree /\ TakeLock(p)
         /\ flight' = [flight EXCEPT ![p].pc = "recheck", ![p].locked = TRUE]
      \/ Goto(p, "poll") /\ UNCHANGED lock
      \/ /\ Goto(p, "source") /\ Fault
         /\ (UNCHANGED lock \/ (LockIsFree /\ TakeLock(p)))
  <2>1. UNCHANGED <<lock, faults>> => UNCHANGED lock  OBVIOUS
  <2> QED  BY <2>1, ZenonT(30) DEF Acquire
<1> QED  BY <1>4, <1>5, <1>6, <1>7

(* A lock is freed only when it is still the flight's own.                 *)
LEMMA ReleaseFlightInv == ASSUME IInv, NEW p \in Procs, Release(p) PROVE IInv'
<1> USE DEF FlightPcs
<1>1. /\ StateOK /\ flight[p].pc = "release" /\ flight[p] \in Flight
      /\ flight[p].origin = "storage" => FailClosed \/ LockThrows
      /\ UNCHANGED <<now, version, store, lives, tomb, caller, writer>>
      /\ Counted /\ NoProc \notin Procs
  BY RuntimeAssumption DEF IInv, Release, Hidden, Counted, StateOK
<1>2. flight' = [flight EXCEPT ![p] = [flight[p] EXCEPT !.pc = "end",
                                                        !.locked = FALSE]]
  BY <1>1 DEF StateOK, Release
<1>3. flight'[p] = [flight[p] EXCEPT !.pc = "end", !.locked = FALSE]
  BY <1>1, <1>2 DEF StateOK
<1>4. flight'[p] \in Flight /\ ~flight'[p].locked
  BY <1>1, <1>3 DEF Flight
<1>5. Moves(p)
  BY <1>2, <1>3, <1>4 DEF Moves
<1>6. /\ SameStart(p) /\ flight'[p].pc = "end"
      /\ flight'[p].origin = flight[p].origin
  BY <1>1, <1>3 DEF Flight, SameStart
<1>7. \A q \in Procs : q # p => flight'[q] = flight[q]
  BY <1>1, <1>2 DEF StateOK
<1>8. /\ lock' \in Lock
      /\ lock.holder # p => lock' = lock
      /\ lock' = lock \/ lock' = FreeLock
      /\ (flight[p].locked /\ lock.holder = p /\ lock' = lock) => faults' # 0
  BY <1>1 DEF Release, Unlocked, FreeLock, Lock, StateOK, Fault
<1>9. StateOK'
  BY <1>1, <1>5, <1>8 DEF StateOK, Moves, Counted, Fault
<1>10. LockOwned'
  BY <1>1, <1>4, <1>7, <1>8 DEF IInv, LockOwned
<1>11. LockHeld'
  <2> SUFFICES ASSUME faults' = 0 PROVE LockHeld'  BY DEF LockHeld
  <2>1. faults = 0  BY <1>1 DEF Counted, Fault, StateOK
  <2>2. \A q \in Procs : flight'[q].pc = "end" => ~flight'[q].locked
    BY <1>4, <1>7, <2>1 DEF IInv, LockHeld
  <2>3. ASSUME lock'.holder # NoProc, now' < lock'.expires
        PROVE  flight'[lock'.holder].locked
    <3>1. lock' = lock  BY <1>8, <2>3 DEF FreeLock
    <3>2. flight[lock.holder].locked /\ lock.holder \in Procs
      BY <1>1, <2>1, <2>3, <3>1 DEF IInv, LockHeld, StateOK, Lock
    <3>3. lock.holder # p  BY <1>8, <3>1, <3>2
    <3> QED  BY <1>7, <3>1, <3>2, <3>3
  <2> QED  BY <2>2, <2>3 DEF LockHeld
<1>12. ReadAfter'
  BY <1>1, <1>5, <1>6, ReadKept DEF SameRead
<1>13. Hidden'
  BY <1>1, <1>6, <1>7 DEF IInv, Hidden
<1> QED
  BY <1>1, <1>5, <1>6, <1>9, <1>10, <1>11, <1>12, <1>13, RecordsKept DEF IInv

-----------------------------------------------------------------------------
(* The write *)

(* A failed write is handed on, or tried again as an error entry.          *)
LEMMA WriteThrowsMoves ==
  ASSUME StateOK, NEW p \in Procs, flight[p].pc = "write", WriteThrows(p)
  PROVE  /\ Moves(p) /\ SameStart(p)
         /\ flight'[p].pc \in {"check", "write", "release"}
         /\ flight'[p].locked = flight[p].locked
         /\ flight'[p].value = flight[p].value
         /\ flight'[p].seen = flight[p].seen
<1> DEFINE pc == IF Strict THEN "check" ELSE "write"
           g == IF flight[p].kind = "value" THEN "storage" ELSE flight[p].origin
<1>1. /\ flight[p] \in Flight /\ now \in Nat /\ pc \in {"check", "write"}
      /\ g \in {"source", "peer", "storage"}
  BY DEF StateOK, Flight
<1>2. \/ flight' = [flight EXCEPT ![p] =
                      [flight[p] EXCEPT !.kind = "error", !.outcome = "error",
                         !.origin = "storage", !.created = now, !.pc = pc]]
      \/ flight' = [flight EXCEPT ![p] =
                      [flight[p] EXCEPT !.pc = "release", !.outcome = "error",
                                        !.origin = g]]
  BY <1>1 DEF WriteThrows, StateOK
<1> HIDE DEF pc, g
<1>3. CASE flight' = [flight EXCEPT ![p] =
                      [flight[p] EXCEPT !.kind = "error", !.outcome = "error",
                         !.origin = "storage", !.created = now, !.pc = pc]]
  <2>1. flight'[p] = [flight[p] EXCEPT !.kind = "error", !.outcome = "error",
                         !.origin = "storage", !.created = now, !.pc = pc]
    BY <1>3 DEF StateOK
  <2>2. flight'[p] \in Flight
    BY <1>1, <2>1 DEF Flight, FlightPcs
  <2>3. Moves(p)
    BY <1>3, <2>1, <2>2 DEF Moves
  <2>4. flight'[p].locked = flight[p].locked
    BY <1>1, <2>1 DEF Flight
  <2> QED  BY <1>1, <2>1, <2>3, <2>4 DEF Flight, SameStart
<1>4. CASE flight' = [flight EXCEPT ![p] =
                      [flight[p] EXCEPT !.pc = "release", !.outcome = "error",
                                        !.origin = g]]
  <2>1. flight'[p] = [flight[p] EXCEPT !.pc = "release", !.outcome = "error",
                                        !.origin = g]
    BY <1>4 DEF StateOK
  <2>2. flight'[p] \in Flight
    BY <1>1, <2>1 DEF Flight, FlightPcs
  <2>3. Moves(p)
    BY <1>4, <2>1, <2>2 DEF Moves
  <2>4. flight'[p].locked = flight[p].locked
    BY <1>1, <2>1 DEF Flight
  <2> QED  BY <1>1, <2>1, <2>3, <2>4 DEF Flight, SameStart
<1> QED  BY <1>2, <1>3, <1>4

(* What the flight does after its write, whatever the write did.           *)
LEMMA WriteMoves ==
  ASSUME IInv, NEW p \in Procs, Write(p)
  PROVE  /\ Moves(p) /\ SameStart(p) /\ SameRead(p) /\ Counted
         /\ flight[p].pc = "write"
         /\ flight'[p].pc \in {"check", "write", "tags", "release"}
         /\ flight'[p].locked = flight[p].locked
         /\ (~FailClosed /\ ~LockThrows) => flight'[p].origin # "storage"
         /\ UNCHANGED <<now, version, tomb, lock, caller, writer>>
         /\ \/ UNCHANGED <<store, lives>>
            \/ Matches(flight[p]) /\ Put(flight[p])
<1> USE DEF FlightPcs
<1>1. /\ StateOK /\ flight[p].pc = "write"
      /\ flight[p].origin = "storage" => FailClosed \/ LockThrows
      /\ UNCHANGED <<now, version, tomb, lock, caller, writer>>
      /\ Counted
      /\ \/ UNCHANGED <<store, lives>>
         \/ Matches(flight[p]) /\ Put(flight[p])
  BY DEF IInv, Write, Hidden, Counted
<1>2. \/ Goto(p, "tags") \/ Goto(p, "release")
      \/ FailClosed /\ WriteThrows(p)
  BY DEF Write
<1>3. CASE \E pc \in {"tags", "release"} : Goto(p, pc)
  BY <1>1, <1>3, GotoMoves DEF SameRead
<1>4. CASE FailClosed /\ WriteThrows(p)
  BY <1>1, <1>4, WriteThrowsMoves DEF SameRead
<1> QED  BY <1>2, <1>3, <1>4

(* The record written is the newest of its life, or begins a life.         *)
LEMMA PutKept ==
  ASSUME IInv, NEW f \in Flight, f.started <= now, Matches(f), Put(f),
         \A q \in Procs : /\ flight'[q].started = flight[q].started
                          /\ flight'[q].obs = flight[q].obs
                          /\ flight'[q].life = flight[q].life,
         UNCHANGED <<now, caller>>
  PROVE  Ages' /\ Observations' /\ store' \in Entry /\ lives' \in Nat
<1>1. /\ f.obs \in Nat /\ lives \in Nat /\ lives' \in {lives, lives + 1}
      /\ Stored = NoEntry => lives' = lives + 1
      /\ Stored # NoEntry => lives' = lives /\ store \in Entry /\ Stored = store
      /\ \A q \in Procs : flight[q] \in Flight
      /\ \A c \in Calls : caller[c] \in Caller
  BY StoredType DEF Put, IInv, StateOK, Flight
<1>2. store' \in Entry
  BY <1>1, NewEntryType DEF Put, IInv
<1>3. /\ store'.rev = f.obs + 1
      /\ store'.started = f.started
      /\ store'.life = IF Stored = NoEntry THEN lives + 1 ELSE store.life
  BY <1>1 DEF Put, NewEntry
<1>4. Stored # NoEntry => store.rev = f.obs
  BY <1>1 DEF Matches, Revision
<1>5. \A q \in Procs : /\ flight'[q].started = flight[q].started
                       /\ flight'[q].obs = flight[q].obs
                       /\ flight'[q].life = flight[q].life
                       /\ flight[q].started \in Nat /\ flight[q].obs \in Nat
                       /\ flight[q].life \in Nat
  BY <1>1 DEF Flight
<1>6. store'.life \in 1..lives'
  BY <1>1, <1>3 DEF IInv, Ages
<1>7. Ages'
  BY <1>1, <1>2, <1>3, <1>5, <1>6 DEF IInv, Ages
<1>8. \A c \in Calls : caller[c].entry # NoEntry =>
        caller[c].entry \in Entry /\ caller[c].entry.rev \in Nat
  BY <1>1 DEF Caller, Entry
<1>9. ASSUME NEW c \in Calls, caller[c].entry # NoEntry,
             store'.life = caller[c].entry.life
      PROVE  caller[c].entry.rev <= store'.rev
  <2>1. caller[c].entry.life \in 1..lives  BY <1>9 DEF IInv, Ages
  <2>2. Stored # NoEntry  BY <1>1, <1>3, <1>9, <2>1
  <2>3. store # NoEntry /\ store.life = caller[c].entry.life
    BY <1>1, <1>3, <1>9, <2>2
  <2>4. caller[c].entry.rev <= store.rev
    BY <1>9, <2>3 DEF IInv, Observations
  <2> QED  BY <1>1, <1>3, <1>4, <1>5, <1>8, <1>9, <2>2, <2>4
<1>10. ASSUME NEW q \in Procs, store'.life = flight[q].life
       PROVE  flight[q].obs < store'.rev
  <2>1. flight[q].life <= lives  BY DEF IInv, Ages
  <2>2. Stored # NoEntry  BY <1>1, <1>3, <1>5, <1>10, <2>1
  <2>3. store # NoEntry /\ store.life = flight[q].life
    BY <1>1, <1>3, <1>10, <2>2
  <2>4. flight[q].obs <= store.rev
    BY <2>3 DEF IInv, Observations
  <2> QED  BY <1>1, <1>3, <1>4, <1>5, <2>2, <2>4
<1>11. Observations'
  BY <1>2, <1>5, <1>9, <1>10 DEF Observations, Entry
<1> QED  BY <1>1, <1>2, <1>7, <1>11

(* compare-and-set writes a newer record, or the flight goes on without.   *)
LEMMA WriteInv == ASSUME IInv, NEW p \in Procs, Write(p) PROVE IInv'
<1>1. /\ Moves(p) /\ SameStart(p) /\ SameRead(p) /\ SameLock(p) /\ Counted
      /\ flight'[p].pc \in {"check", "write", "tags", "release"}
      /\ (~FailClosed /\ ~LockThrows) => flight'[p].origin # "storage"
      /\ UNCHANGED <<now, version, tomb, caller, writer>>
      /\ \/ UNCHANGED <<store, lives>>
         \/ Matches(flight[p]) /\ Put(flight[p])
  BY WriteMoves DEF SameLock
<1>2. /\ Ages' /\ Observations' /\ store' \in Entry \union {NoEntry}
      /\ lives' \in Nat
  <2>1. CASE UNCHANGED <<store, lives>>
    BY <1>1, <2>1, RecordsKept DEF IInv, StateOK
  <2>2. CASE Matches(flight[p]) /\ Put(flight[p])
    <3>1. flight[p] \in Flight /\ flight[p].started <= now
      BY DEF IInv, StateOK, Ages
    <3>2. \A q \in Procs : /\ flight'[q].started = flight[q].started
                           /\ flight'[q].obs = flight[q].obs
                           /\ flight'[q].life = flight[q].life
      BY <1>1 DEF Moves, SameStart, IInv, StateOK
    <3> QED  BY <1>1, <2>2, <3>1, <3>2, PutKept
  <2> QED  BY <1>1, <2>1, <2>2
<1>3. StateOK'
  BY <1>1, <1>2 DEF StateOK, IInv, Moves, SameLock, Counted, Fault
<1>4. Hidden'
  <2>1. \A q \in Procs : q # p => flight'[q] = flight[q]
    BY <1>1 DEF Moves, IInv, StateOK
  <2> QED  BY <1>1, <2>1 DEF IInv, Hidden
<1> QED  BY <1>1, <1>2, <1>3, <1>4, LockKept, ReadKept DEF IInv

(* A write lands that nobody waits for any more.                           *)
LEMMA LandWriteInv ==
  ASSUME IInv, NEW f \in Flight, f.started <= now, LandWrite(f)
  PROVE  IInv'
<1>1. /\ UNCHANGED <<now, version, tomb, lock, caller, flight, writer, faults>>
      /\ \/ UNCHANGED <<store, lives>>
         \/ Matches(f) /\ Put(f)
  BY DEF LandWrite
<1>2. /\ Ages' /\ Observations' /\ store' \in Entry \union {NoEntry}
      /\ lives' \in Nat
  <2>1. CASE UNCHANGED <<store, lives>>
    BY <1>1, <2>1 DEF IInv, StateOK, Ages, Observations
  <2>2. CASE Matches(f) /\ Put(f)
    BY <1>1, <2>2, PutKept
  <2> QED  BY <1>1, <2>1, <2>2
<1>3. StateOK'
  BY <1>1, <1>2 DEF IInv, StateOK
<1>4. LockOwned' /\ LockHeld' /\ ReadAfter' /\ Hidden'
  BY <1>1 DEF IInv, LockOwned, LockHeld, ReadAfter, Hidden
<1> QED  BY <1>2, <1>3, <1>4 DEF IInv

-----------------------------------------------------------------------------
(* Ends and crashes *)

(* A step after which no call remembers an entry it did not remember.      *)
Forgets == \A c \in Calls : caller'[c].entry \in {caller[c].entry, NoEntry}

(* A process without a flight knows and holds nothing.                     *)
LEMMA NoFlightInv ==
  ASSUME IInv, NEW p \in Procs, flight' = [flight EXCEPT ![p] = NoFlight],
         UNCHANGED <<now, version, store, lives, tomb, lock, writer>>,
         Counted, caller' \in [Calls -> Caller], Forgets,
         flight[p].locked => faults' # 0,
         (~FailClosed /\ ~LockThrows) =>
           \A c \in Calls : caller'[c].origin # "storage"
  PROVE  IInv'
<1>1. /\ flight'[p] = NoFlight /\ NoFlight \in Flight
      /\ \A q \in Procs : q # p => flight'[q] = flight[q]
      /\ now \in Nat /\ lives \in Nat
  BY NoFlightType DEF IInv, StateOK
<1>2. /\ NoFlight.pc = "none" /\ NoFlight.started = 0 /\ NoFlight.life = 0
      /\ ~NoFlight.locked /\ NoFlight.seen = {} /\ NoFlight.origin = "source"
  BY DEF NoFlight
<1>3. StateOK'
  BY <1>1 DEF IInv, StateOK, Counted, Fault
<1>4. Ages'
  BY <1>1, <1>2 DEF IInv, Ages, Forgets
<1>5. Observations'
  <2>1. store # NoEntry => store.life # 0  BY <1>1 DEF IInv, Ages
  <2> QED  BY <1>1, <1>2, <2>1 DEF IInv, Observations, Forgets
<1>6. LockOwned'
  BY <1>1, <1>2 DEF IInv, LockOwned
<1>7. LockHeld'
  <2> SUFFICES ASSUME faults' = 0 PROVE LockHeld'  BY DEF LockHeld
  <2>1. faults = 0  BY DEF Counted, Fault, IInv, StateOK
  <2> QED
    BY <1>1, <1>2, <2>1 DEF IInv, LockHeld, StateOK, Lock
<1>8. ReadAfter'
  BY <1>1, <1>2 DEF IInv, ReadAfter
<1>9. Hidden'
  BY <1>1, <1>2 DEF IInv, Hidden
<1> QED  BY <1>3, <1>4, <1>5, <1>6, <1>7, <1>8, <1>9 DEF IInv

(* The flight settles and its callers are answered.                        *)
LEMMA EndInv == ASSUME IInv, NEW p \in Procs, End(p) PROVE IInv'
<1>1. /\ StateOK /\ flight[p] \in Flight /\ flight[p].pc = "end"
      /\ flight' = [flight EXCEPT ![p] = NoFlight]
      /\ UNCHANGED <<now, version, store, lives, tomb, lock, writer>>
      /\ Counted
  BY DEF IInv, StateOK, End, Counted
<1>2. ASSUME NEW c \in Calls
      PROVE  /\ caller'[c] \in Caller
             /\ caller'[c].entry \in {caller[c].entry, NoEntry}
             /\ caller'[c].origin \in {caller[c].origin, "fallback", flight[p].origin}
  <2> DEFINE f == flight[p]
  <2>1. caller[c] \in Caller  BY <1>1 DEF StateOK
  <2>2. /\ f.outcome \in {"none", "value", "error"} /\ f.value \in Nat
        /\ f.origin \in {"source", "peer", "storage"}
    BY <1>1 DEF Flight
  <2>3. CASE c \notin Waiting(p)
    BY <1>1, <2>1, <2>3 DEF End
  <2>4. CASE c \in Waiting(p) /\ f.outcome = "error" /\ caller[c].entry # NoEntry
    <3>1. caller'[c] = [caller[c] EXCEPT !.pc = "done", !.kind = "value",
                          !.value = caller[c].entry.value,
                          !.origin = "fallback", !.entry = NoEntry]
      BY <2>4 DEF End
    <3>2. caller[c].entry.value \in Nat
      BY <2>1, <2>4 DEF Caller, Entry
    <3> QED  BY <2>1, <3>1, <3>2 DEF Caller
  <2>5. CASE c \in Waiting(p) /\ ~(f.outcome = "error" /\ caller[c].entry # NoEntry)
    <3> DEFINE v == IF f.outcome = "error" THEN 0 ELSE f.value
    <3>1. caller'[c] = [caller[c] EXCEPT !.pc = "done", !.kind = f.outcome,
                          !.value = v, !.origin = f.origin, !.entry = NoEntry]
      BY <2>5 DEF End
    <3>2. v \in Nat  BY <2>2
    <3> HIDE DEF v
    <3> QED  BY <2>1, <2>2, <3>1, <3>2 DEF Caller
  <2> QED  BY <2>3, <2>4, <2>5
<1>3. caller' \in [Calls -> Caller]
  BY <1>2 DEF End
<1>4. flight[p].locked => faults' # 0
  BY <1>1 DEF End, IInv, LockHeld
<1>5. (~FailClosed /\ ~LockThrows) => \A c \in Calls : caller'[c].origin # "storage"
  BY <1>2 DEF IInv, Hidden
<1> QED  BY <1>1, <1>2, <1>3, <1>4, <1>5, NoFlightInv DEF Forgets

(* A process dies: its lock stays, its calls are gone.                     *)
LEMMA CrashInv == ASSUME IInv, NEW p \in Procs, Crash(p) PROVE IInv'
<1>1. /\ StateOK /\ faults' # 0 /\ Counted
      /\ flight' = [flight EXCEPT ![p] = NoFlight]
      /\ UNCHANGED <<now, version, store, lives, tomb, lock, writer>>
  <2>1. /\ Fault /\ flight' = [flight EXCEPT ![p] = NoFlight]
        /\ UNCHANGED <<now, version, store, lives, tomb, lock, writer>>
    BY DEF Crash
  <2> QED  BY <2>1 DEF IInv, StateOK, Counted, Fault
<1>2. ASSUME NEW c \in Calls
      PROVE  /\ caller'[c] \in Caller
             /\ caller'[c].entry \in {caller[c].entry, NoEntry}
             /\ caller'[c].origin = caller[c].origin
  <2>1. caller[c] \in Caller  BY <1>1 DEF StateOK
  <2>2. \/ caller'[c] = [caller[c] EXCEPT !.pc = "gone", !.entry = NoEntry]
        \/ caller'[c] = caller[c]
    BY DEF Crash
  <2> QED  BY <2>1, <2>2 DEF Caller
<1>3. caller' \in [Calls -> Caller]
  BY <1>2 DEF Crash
<1>4. (~FailClosed /\ ~LockThrows) => \A c \in Calls : caller'[c].origin # "storage"
  BY <1>2 DEF IInv, Hidden
<1> QED  BY <1>1, <1>2, <1>3, <1>4, NoFlightInv DEF Forgets

-----------------------------------------------------------------------------
(* The steps of a call *)

(* Steps that move calls only, which remember nothing new.                 *)
LEMMA QuietCall ==
  ASSUME IInv, UNCHANGED <<now, version, store, lives, tomb, lock, flight, writer>>,
         Counted, caller' \in [Calls -> Caller], Forgets,
         (~FailClosed /\ ~LockThrows) =>
           \A c \in Calls : caller'[c].origin # "storage"
  PROVE  IInv'
<1>1. faults' = 0 => faults = 0
  BY DEF Counted, Fault, IInv, StateOK
<1>2. StateOK'
  BY DEF IInv, StateOK, Counted, Fault
<1>3. Ages' /\ Observations'
  BY DEF IInv, Ages, Observations, Forgets
<1>4. LockOwned' /\ ReadAfter'
  BY DEF IInv, LockOwned, ReadAfter
<1>5. LockHeld'
  BY <1>1 DEF IInv, LockHeld
<1>6. Hidden'
  BY DEF IInv, Hidden
<1> QED  BY <1>2, <1>3, <1>4, <1>5, <1>6 DEF IInv

(* A finished call, and one that goes on.                                  *)
LEMMA FinishMoves ==
  ASSUME StateOK, NEW c \in Calls, NEW k \in {"value", "error"}, NEW v \in Nat,
         NEW g \in {"none", "hit", "stale", "storage"}, Finish(c, k, v, g)
  PROVE  /\ caller' \in [Calls -> Caller] /\ Forgets
         /\ caller'[c].origin = g
         /\ \A d \in Calls \ {c} : caller'[d] = caller[d]
<1>1. caller[c] \in Caller  BY DEF StateOK
<1>2. caller' = [caller EXCEPT ![c] = [caller[c] EXCEPT !.pc = "done",
                   !.kind = k, !.value = v, !.origin = g, !.entry = NoEntry]]
  BY DEF Finish, StateOK
<1>3. caller'[c] = [caller[c] EXCEPT !.pc = "done", !.kind = k, !.value = v,
                                     !.origin = g, !.entry = NoEntry]
  BY <1>2 DEF StateOK
<1>4. /\ caller'[c] \in Caller /\ caller'[c].entry = NoEntry
      /\ caller'[c].origin = g
  BY <1>1, <1>3 DEF Caller
<1>5. \A d \in Calls \ {c} : caller'[d] = caller[d]
  BY <1>2 DEF StateOK
<1>6. caller' \in [Calls -> Caller]
  BY <1>2, <1>3, <1>4 DEF StateOK
<1> QED  BY <1>4, <1>5, <1>6 DEF Forgets

(* A call is made.                                                         *)
LEMMA CallInv == ASSUME IInv, NEW c \in Calls, Call(c) PROVE IInv'
<1>1. /\ StateOK /\ Counted
      /\ UNCHANGED <<now, version, store, lives, tomb, lock, flight, writer>>
  BY DEF IInv, Call, Counted
<1>2. PICK op \in Ops, pc \in {"delete", "read"} :
        caller' = [caller EXCEPT ![c] = [caller[c] EXCEPT !.op = op, !.pc = pc]]
  BY <1>1 DEF Call, StateOK
<1>3. caller[c] \in Caller  BY <1>1 DEF StateOK
<1>4. caller'[c] = [caller[c] EXCEPT !.op = op, !.pc = pc]
  BY <1>1, <1>2 DEF StateOK
<1>5. /\ caller'[c] \in Caller /\ caller'[c].entry = caller[c].entry
      /\ caller'[c].origin = caller[c].origin
  BY <1>3, <1>4 DEF Caller
<1>6. \A d \in Calls \ {c} : caller'[d] = caller[d]
  BY <1>1, <1>2 DEF StateOK
<1>7. caller' \in [Calls -> Caller]
  BY <1>1, <1>2, <1>4, <1>5 DEF StateOK
<1> QED
  BY <1>1, <1>5, <1>6, <1>7, QuietCall DEF Forgets, IInv, Hidden

(* A read tells the call of the record as it is now.                       *)
LEMMA ReadInv == ASSUME IInv, NEW c \in Calls, Read(c) PROVE IInv'
<1>1. /\ StateOK /\ Counted
      /\ UNCHANGED <<now, version, store, lives, tomb, lock, flight, writer>>
  BY DEF IInv, Read, Counted
<1>2. CASE Finish(c, "error", 0, "storage") /\ FailClosed
  <2>1. /\ caller' \in [Calls -> Caller] /\ Forgets
    BY <1>1, <1>2, FinishMoves
  <2> QED  BY <1>1, <1>2, <2>1, QuietCall
<1>3. ASSUME NEW e \in {Stored, caller[c].entry},
             caller' = [caller EXCEPT ![c] = [caller[c] EXCEPT !.pc = "decide",
                                                               !.entry = e]]
      PROVE  IInv'
  <2>1. caller[c] \in Caller /\ e \in Entry \union {NoEntry}
    BY <1>1, StoredType DEF StateOK, Caller
  <2>2. caller'[c] = [caller[c] EXCEPT !.pc = "decide", !.entry = e]
    BY <1>1, <1>3 DEF StateOK
  <2>3. /\ caller'[c] \in Caller /\ caller'[c].entry = e
        /\ caller'[c].origin = caller[c].origin
    BY <2>1, <2>2 DEF Caller
  <2>4. \A d \in Calls \ {c} : caller'[d] = caller[d]
    BY <1>1, <1>3 DEF StateOK
  <2>5. caller' \in [Calls -> Caller]
    BY <1>1, <1>3, <2>2, <2>3 DEF StateOK
  <2>6. e # NoEntry => e = store \/ e = caller[c].entry
    BY <1>1, StoredType
  <2>7. store # NoEntry => store \in Entry /\ store.rev \in Nat
    BY <1>1 DEF StateOK, Entry
  <2>8. Ages'
    BY <1>1, <2>3, <2>4, <2>6 DEF IInv, Ages
  <2>9. Observations'
    BY <1>1, <2>3, <2>4, <2>6, <2>7 DEF IInv, Observations
  <2>10. StateOK'
    BY <1>1, <2>5 DEF StateOK, Counted, Fault
  <2>11. LockOwned' /\ ReadAfter'
    BY <1>1 DEF IInv, LockOwned, ReadAfter
  <2>12. LockHeld'
    BY <1>1 DEF IInv, LockHeld, Counted, Fault, StateOK
  <2>13. Hidden'
    BY <1>1, <2>3, <2>4 DEF IInv, Hidden
  <2> QED  BY <2>8, <2>9, <2>10, <2>11, <2>12, <2>13 DEF IInv
<1>4. CASE caller' = [caller EXCEPT ![c].pc = "decide"]
  <2>1. [caller[c] EXCEPT !.pc = "decide"]
          = [caller[c] EXCEPT !.pc = "decide", !.entry = caller[c].entry]
    BY <1>1 DEF StateOK, Caller
  <2>2. caller' = [caller EXCEPT ![c] = [caller[c] EXCEPT !.pc = "decide",
                                           !.entry = caller[c].entry]]
    BY <1>4, <2>1
  <2> QED  BY <1>3, <2>2
<1>5. CASE caller' = [caller EXCEPT ![c].pc = "decide", ![c].entry = Stored]
  <2>1. caller' = [caller EXCEPT ![c] = [caller[c] EXCEPT !.pc = "decide",
                                                          !.entry = Stored]]
    BY <1>1, <1>5 DEF StateOK
  <2> QED  BY <1>3, <2>1
<1> QED  BY <1>2, <1>4, <1>5 DEF Read

(* refresh joins the flight of the process, or begins one that remembers   *)
(* what the call has read.                                                 *)
LEMMA RefreshMoves ==
  ASSUME IInv, NEW p \in Procs, NEW e \in Entry \union {NoEntry},
         NEW b \in BOOLEAN, Refresh(p, e, b)
  PROVE  /\ Moves(p)
         /\ \/ /\ flight[p].pc # "none" /\ SameStart(p)
               /\ flight'[p].pc = flight[p].pc
               /\ flight'[p].locked = flight[p].locked
               /\ flight'[p].value = flight[p].value
               /\ flight'[p].seen = flight[p].seen
               /\ flight'[p].origin = flight[p].origin
            \/ /\ flight[p].pc = "none" /\ flight'[p].pc \in {"lock", "source"}
               /\ flight'[p].obs = Revision(e) /\ flight'[p].started = now
               /\ flight'[p].life = IF e = NoEntry THEN 0 ELSE e.life
               /\ ~flight'[p].locked /\ flight'[p].seen = {}
               /\ flight'[p].origin = "source"
<1>1. StateOK /\ flight[p] \in Flight /\ now \in Nat
  BY DEF IInv, StateOK
<1>2. CASE flight[p].pc # "none"
  <2> DEFINE k == flight[p].keepAlive \/ b
  <2>1. flight' = [flight EXCEPT ![p] = [flight[p] EXCEPT !.keepAlive = k]]
    BY <1>1, <1>2 DEF Refresh, StateOK
  <2>2. k \in BOOLEAN  BY <1>1 DEF Flight
  <2> HIDE DEF k
  <2>3. flight'[p] = [flight[p] EXCEPT !.keepAlive = k]
    BY <1>1, <2>1 DEF StateOK
  <2>4. flight'[p] \in Flight
    BY <1>1, <2>2, <2>3 DEF Flight
  <2>5. Moves(p)
    BY <2>1, <2>3, <2>4 DEF Moves
  <2>6. flight'[p].locked = flight[p].locked
    BY <1>1, <2>3 DEF Flight
  <2> QED  BY <1>1, <1>2, <2>3, <2>5, <2>6 DEF Flight, SameStart
<1>3. CASE flight[p].pc = "none"
  <2> DEFINE pc == IF UseLock THEN "lock" ELSE "source"
             o == Revision(e)
             l == IF e = NoEntry THEN 0 ELSE e.life
  <2>1. flight' = [flight EXCEPT ![p] =
                     [NoFlight EXCEPT !.pc = pc, !.obs = o, !.life = l,
                                      !.started = now, !.keepAlive = b]]
    BY <1>1, <1>3 DEF Refresh, StateOK
  <2>2. pc \in {"lock", "source"} /\ o \in Nat /\ l \in Nat /\ o = Revision(e)
        /\ l = IF e = NoEntry THEN 0 ELSE e.life
    BY DEF Revision, Entry
  <2> HIDE DEF pc, o, l
  <2>3. flight'[p] = [NoFlight EXCEPT !.pc = pc, !.obs = o, !.life = l,
                                      !.started = now, !.keepAlive = b]
    BY <1>1, <2>1 DEF StateOK
  <2>4. flight'[p] \in Flight
    <3>1. pc \in FlightPcs  BY <2>2 DEF FlightPcs
    <3>2. [NoFlight EXCEPT !.pc = pc, !.obs = o, !.life = l, !.started = now,
                           !.keepAlive = b] \in Flight
      BY <1>1, <2>2, <3>1, FlightStarts
    <3> QED  BY <2>3, <3>2
  <2>5. Moves(p)
    BY <2>1, <2>3, <2>4 DEF Moves
  <2>6. ~flight'[p].locked
    BY <2>3 DEF NoFlight
  <2>7. /\ flight'[p].pc = pc /\ flight'[p].obs = o /\ flight'[p].life = l
        /\ flight'[p].started = now /\ flight'[p].seen = {}
        /\ flight'[p].origin = "source"
    BY <2>3 DEF NoFlight
  <2> QED  BY <1>3, <2>2, <2>5, <2>6, <2>7
<1> QED  BY <1>2, <1>3

(* A flight begins with what its first call has read.                      *)
LEMMA RefreshInv ==
  ASSUME IInv, NEW c \in Calls, NEW b \in BOOLEAN,
         Refresh(ProcOf[c], caller[c].entry, b),
         UNCHANGED <<now, version, store, lives, tomb, lock, writer, faults>>,
         caller' \in [Calls -> Caller], Forgets,
         (~FailClosed /\ ~LockThrows) =>
           \A d \in Calls : caller'[d].origin # "storage"
  PROVE  IInv'
<1> DEFINE p == ProcOf[c]
           e == caller[c].entry
<1>1. /\ StateOK /\ p \in Procs /\ e \in Entry \union {NoEntry} /\ now \in Nat
      /\ lives \in Nat
      /\ store # NoEntry => store.life \in 1..lives /\ store.rev \in Nat \ {0}
                            /\ store.started <= now
      /\ e # NoEntry => e.life \in 1..lives /\ e.rev \in Nat
      /\ (store # NoEntry /\ e # NoEntry /\ store.life = e.life)
           => e.rev <= store.rev
  BY RuntimeAssumption DEF IInv, StateOK, Caller, Ages, Observations, Entry
<1>2. Refresh(p, e, b)  OBVIOUS
<1> HIDE DEF p, e
<1>3. Moves(p) /\ flight'[p] \in Flight
  BY <1>1, <1>2, RefreshMoves DEF Moves
<1>4. \A q \in Procs : q # p => flight'[q] = flight[q]
  BY <1>1, <1>3 DEF Moves, StateOK
<1>5. StateOK'
  BY <1>1, <1>3 DEF StateOK, Moves
<1>6. CASE /\ flight[p].pc # "none" /\ SameStart(p)
           /\ flight'[p].pc = flight[p].pc
           /\ flight'[p].locked = flight[p].locked
           /\ flight'[p].value = flight[p].value
           /\ flight'[p].seen = flight[p].seen
           /\ flight'[p].origin = flight[p].origin
  <2>1. Ages'
    BY <1>1, <1>4, <1>6 DEF IInv, Ages, Forgets, SameStart
  <2>2. Observations'
    BY <1>1, <1>4, <1>6 DEF IInv, Observations, Forgets, SameStart
  <2>3. LockOwned' /\ LockHeld'
    <3>1. flight[p].locked => flight'[p].pc \notin {"none", "lock", "poll"}
      BY <1>1, <1>6 DEF IInv, LockOwned
    <3>2. (flight'[p].pc = "end" /\ flight[p].locked) => faults' # 0
      BY <1>1, <1>6 DEF IInv, LockHeld
    <3> QED  BY <1>1, <1>3, <1>6, <3>1, <3>2, LockKept DEF SameLock, Counted
  <2>4. ReadAfter'
    BY <1>1, <1>3, <1>6, ReadKept DEF SameRead
  <2>5. Hidden'
    BY <1>1, <1>4, <1>6 DEF IInv, Hidden
  <2> QED  BY <1>5, <2>1, <2>2, <2>3, <2>4, <2>5 DEF IInv
<1>7. CASE /\ flight[p].pc = "none" /\ flight'[p].pc \in {"lock", "source"}
           /\ flight'[p].obs = Revision(e) /\ flight'[p].started = now
           /\ flight'[p].life = IF e = NoEntry THEN 0 ELSE e.life
           /\ ~flight'[p].locked /\ flight'[p].seen = {}
           /\ flight'[p].origin = "source"
  <2>1. Ages'
    BY <1>1, <1>4, <1>7 DEF IInv, Ages, Forgets
  <2>2. Observations'
    BY <1>1, <1>4, <1>7 DEF IInv, Observations, Forgets, Revision
  <2>3. LockOwned'
    BY <1>4, <1>7 DEF IInv, LockOwned
  <2>4. ~flight[p].locked
    BY <1>1, <1>7 DEF IInv, LockOwned
  <2>5. LockHeld'
    BY <1>1, <1>4, <1>7, <2>4 DEF IInv, LockHeld, StateOK, Lock
  <2>6. ReadAfter'
    BY <1>4, <1>7 DEF IInv, ReadAfter
  <2>7. Hidden'
    BY <1>4, <1>7 DEF IInv, Hidden
  <2> QED  BY <1>5, <2>1, <2>2, <2>3, <2>5, <2>6, <2>7 DEF IInv
<1> QED  BY <1>1, <1>2, <1>6, <1>7, RefreshMoves

(* A call answers from the entry it read, refreshes, or waits.             *)
LEMMA DecideInv == ASSUME IInv, NEW c \in Calls, Decide(c) PROVE IInv'
<1> DEFINE e == caller[c].entry
           f == IF e = NoEntry THEN "expired" ELSE Freshness(e, now)
<1>1. /\ StateOK /\ caller[c] \in Caller /\ e \in Entry \union {NoEntry}
      /\ UNCHANGED <<now, version, store, lives, tomb, lock, writer, faults>>
      /\ e # NoEntry => e.kind \in {"value", "error"} /\ e.value \in Nat
  BY DEF IInv, StateOK, Decide, Caller, Entry
<1>2. ASSUME NEW g \in {"hit", "stale"}, e # NoEntry,
             Finish(c, e.kind, e.value, g)
      PROVE  /\ caller' \in [Calls -> Caller] /\ Forgets
             /\ (~FailClosed /\ ~LockThrows) =>
                  \A d \in Calls : caller'[d].origin # "storage"
  <2>1. /\ caller' \in [Calls -> Caller] /\ Forgets /\ caller'[c].origin = g
        /\ \A d \in Calls \ {c} : caller'[d] = caller[d]
    BY <1>1, <1>2, FinishMoves
  <2> QED  BY <2>1 DEF IInv, Hidden
<1>3. ASSUME NEW x \in {e, NoEntry}, Wait(c, x)
      PROVE  /\ caller' \in [Calls -> Caller] /\ Forgets
             /\ (~FailClosed /\ ~LockThrows) =>
                  \A d \in Calls : caller'[d].origin # "storage"
  <2>1. caller' = [caller EXCEPT ![c] = [caller[c] EXCEPT !.pc = "wait",
                                                          !.entry = x]]
    BY <1>1, <1>3 DEF Wait, StateOK
  <2>2. caller'[c] = [caller[c] EXCEPT !.pc = "wait", !.entry = x]
    BY <1>1, <2>1 DEF StateOK
  <2>3. /\ caller'[c] \in Caller /\ caller'[c].entry = x
        /\ caller'[c].origin = caller[c].origin
    BY <1>1, <2>2 DEF Caller
  <2>4. \A d \in Calls \ {c} : caller'[d] = caller[d]
    BY <1>1, <2>1 DEF StateOK
  <2>5. caller' \in [Calls -> Caller]
    BY <1>1, <2>1, <2>2, <2>3 DEF StateOK
  <2> QED  BY <2>3, <2>4, <2>5 DEF Forgets, IInv, Hidden
<1>4. \/ /\ e # NoEntry /\ Finish(c, e.kind, e.value, "hit") /\ UNCHANGED flight
      \/ /\ e # NoEntry /\ Finish(c, e.kind, e.value, "stale")
         /\ Refresh(ProcOf[c], e, TRUE)
      \/ /\ \E x \in {e, NoEntry} : Wait(c, x)
         /\ Refresh(ProcOf[c], e, FALSE)
  BY <1>1 DEF Decide
<1>5. CASE e # NoEntry /\ Finish(c, e.kind, e.value, "hit") /\ UNCHANGED flight
  BY <1>1, <1>2, <1>5, QuietCall DEF Counted
<1>6. CASE /\ e # NoEntry /\ Finish(c, e.kind, e.value, "stale")
           /\ Refresh(ProcOf[c], e, TRUE)
  BY <1>1, <1>2, <1>6, RefreshInv
<1>7. CASE /\ \E x \in {e, NoEntry} : Wait(c, x)
           /\ Refresh(ProcOf[c], e, FALSE)
  BY <1>1, <1>3, <1>7, RefreshInv
<1> QED  BY <1>4, <1>5, <1>6, <1>7

(* An entry is deleted; the answer remembers nothing of it.                *)
LEMMA DeleteInv == ASSUME IInv, NEW c \in Calls, Delete(c) PROVE IInv'
<1>1. /\ StateOK /\ Counted /\ store' \in {store, NoEntry}
      /\ UNCHANGED <<now, version, lives, tomb, lock, flight, writer>>
      /\ Finish(c, "value", 0, "none")
  BY DEF IInv, Delete, Counted
<1>2. /\ caller' \in [Calls -> Caller] /\ Forgets /\ caller'[c].origin = "none"
      /\ \A d \in Calls \ {c} : caller'[d] = caller[d]
  BY <1>1, FinishMoves
<1>3. faults' = 0 => faults = 0
  BY <1>1 DEF Counted, Fault, StateOK
<1>4. StateOK'
  BY <1>1, <1>2 DEF StateOK, Counted, Fault
<1>5. Ages' /\ Observations'
  BY <1>1, <1>2 DEF IInv, Ages, Observations, Forgets
<1>6. LockOwned' /\ ReadAfter'
  BY <1>1 DEF IInv, LockOwned, ReadAfter
<1>7. LockHeld'
  BY <1>1, <1>3 DEF IInv, LockHeld
<1>8. Hidden'
  BY <1>1, <1>2 DEF IInv, Hidden
<1> QED  BY <1>4, <1>5, <1>6, <1>7, <1>8 DEF IInv

(* A call is cancelled; its flight may be aborted and goes on.             *)
LEMMA CancelInv == ASSUME IInv, NEW c \in Calls, Cancel(c) PROVE IInv'
<1> DEFINE p == ProcOf[c]
           a == \/ flight[p].aborted
                \/ Waiting(p) = {c} /\ ~flight[p].keepAlive
<1>1. /\ StateOK /\ p \in Procs /\ flight[p] \in Flight /\ caller[c] \in Caller
      /\ UNCHANGED <<now, version, store, lives, tomb, lock, writer, faults>>
      /\ a \in BOOLEAN /\ Counted
  BY RuntimeAssumption DEF IInv, StateOK, Cancel, Flight, Counted
<1>2. /\ flight' = [flight EXCEPT ![p] = [flight[p] EXCEPT !.aborted = a]]
      /\ caller' = [caller EXCEPT ![c] = [caller[c] EXCEPT !.pc = "gone",
                                                           !.entry = NoEntry]]
  BY <1>1 DEF Cancel, StateOK
<1> HIDE DEF p, a
<1>3. flight'[p] = [flight[p] EXCEPT !.aborted = a]
  BY <1>1, <1>2 DEF StateOK
<1>4. flight'[p] \in Flight
  BY <1>1, <1>3 DEF Flight
<1>5. Moves(p)
  BY <1>2, <1>3, <1>4 DEF Moves
<1>6. flight'[p].locked = flight[p].locked
  BY <1>1, <1>3 DEF Flight
<1>7. /\ SameStart(p) /\ flight'[p].pc = flight[p].pc
      /\ flight'[p].value = flight[p].value
      /\ flight'[p].seen = flight[p].seen
      /\ flight'[p].origin = flight[p].origin
  BY <1>1, <1>3 DEF Flight, SameStart
<1>8. \A q \in Procs : q # p => flight'[q] = flight[q]
  BY <1>1, <1>2 DEF StateOK
<1>9. caller'[c] = [caller[c] EXCEPT !.pc = "gone", !.entry = NoEntry]
  BY <1>1, <1>2 DEF StateOK
<1>10. /\ caller'[c] \in Caller /\ caller'[c].entry = NoEntry
       /\ caller'[c].origin = caller[c].origin
  BY <1>1, <1>9 DEF Caller
<1>11. \A d \in Calls \ {c} : caller'[d] = caller[d]
  BY <1>1, <1>2 DEF StateOK
<1>12. caller' \in [Calls -> Caller] /\ Forgets
  BY <1>1, <1>2, <1>9, <1>10, <1>11 DEF StateOK, Forgets
<1>13. StateOK'
  BY <1>1, <1>5, <1>12 DEF StateOK, Moves
<1>14. Ages'
  BY <1>1, <1>7, <1>8, <1>12 DEF IInv, Ages, Forgets, SameStart
<1>15. Observations'
  BY <1>1, <1>7, <1>8, <1>12 DEF IInv, Observations, Forgets, SameStart
<1>16. LockOwned' /\ LockHeld'
  <2>1. flight[p].locked => flight'[p].pc \notin {"none", "lock", "poll"}
    BY <1>1, <1>7 DEF IInv, LockOwned
  <2>2. (flight'[p].pc = "end" /\ flight[p].locked) => faults' # 0
    BY <1>1, <1>7 DEF IInv, LockHeld
  <2> QED  BY <1>1, <1>5, <1>6, <1>7, <2>1, <2>2, LockKept DEF SameLock
<1>17. ReadAfter'
  BY <1>1, <1>5, <1>7, ReadKept DEF SameRead
<1>18. Hidden'
  BY <1>1, <1>7, <1>8, <1>10, <1>11 DEF IInv, Hidden
<1> QED
  BY <1>13, <1>14, <1>15, <1>16, <1>17, <1>18 DEF IInv

-----------------------------------------------------------------------------
(* The steps of a writer, and of the clock *)

(* A change makes everything read before it old, but invalidates nothing   *)
(* yet; an invalidation begins now, after every flight under way.          *)
LEMMA WriterInv == ASSUME IInv, NEW w \in Writers, WriterStep(w) PROVE IInv'
<1>1. /\ StateOK /\ writer[w] \in Writer /\ version \in Nat /\ now \in Nat
      /\ UNCHANGED <<now, lives, lock, caller, flight, faults>>
  BY DEF IInv, StateOK, WriterStep, Mutate, BeginInvalidate, InvalidateTag,
     WriteTombstone
<1>2. store' \in {store, NoEntry} /\ version' \in Nat
  BY <1>1 DEF StateOK, WriterStep, Mutate, BeginInvalidate, InvalidateTag,
     WriteTombstone
<1>3. writer' \in [Writers -> Writer] /\ tomb' \in Nat \union {-1}
  BY <1>1 DEF StateOK, WriterStep, Mutate, BeginInvalidate, InvalidateTag,
     WriteTombstone, Writer
<1>4. StateOK'
  BY <1>1, <1>2, <1>3 DEF StateOK
<1>5. Ages' /\ Observations'
  BY <1>1, <1>2 DEF IInv, Ages, Observations
<1>6. LockOwned' /\ LockHeld' /\ Hidden'
  BY <1>1 DEF IInv, LockOwned, LockHeld, Hidden
<1>7. ReadAfter'
  <2>1. \A p \in Procs : /\ flight[p].started <= now
                         /\ flight[p].started \in Nat /\ flight[p].value \in Nat
                         /\ flight[p].seen \subseteq Writers
    BY <1>1 DEF IInv, Ages, StateOK, Flight
  <2>2. \A x \in Writers : writer[x].wrote \in Nat /\ writer[x].at \in Nat
    BY <1>1 DEF StateOK, Writer
  <2>3. CASE Mutate(w)
    BY <1>1, <2>1, <2>2, <2>3 DEF Mutate, IInv, ReadAfter, Invalidating, StateOK, Writer
  <2>4. CASE BeginInvalidate(w)
    <3>1. /\ writer[w].pc = "begin" /\ version' = version
          /\ writer'[w].at = now /\ writer'[w].wrote = writer[w].wrote
          /\ \A x \in Writers \ {w} : writer'[x] = writer[x]
      BY <1>1, <2>4 DEF BeginInvalidate, StateOK, Writer
    <3> QED  BY <1>1, <2>1, <3>1 DEF IInv, ReadAfter, Invalidating
  <2>5. CASE InvalidateTag(w) \/ WriteTombstone(w)
    <3>1. /\ writer[w].pc \in {"delete", "tomb"} /\ version' = version
          /\ writer'[w].pc \in {"tomb", "done"}
          /\ \A x \in Writers : /\ writer'[x].wrote = writer[x].wrote
                                /\ writer'[x].at = writer[x].at
          /\ \A x \in Writers \ {w} : writer'[x] = writer[x]
      BY <1>1, <2>5 DEF InvalidateTag, WriteTombstone, StateOK, Writer
    <3> QED  BY <1>1, <2>1, <3>1 DEF IInv, ReadAfter, Invalidating
  <2> QED  BY <2>3, <2>4, <2>5 DEF WriterStep
<1> QED  BY <1>4, <1>5, <1>6, <1>7 DEF IInv

(* Time passes: deadlines, once reached, stay so.                          *)
LEMMA TickInv == ASSUME IInv, Tick PROVE IInv'
<1>1. /\ StateOK /\ now \in Nat /\ now' = now + 1
      /\ UNCHANGED <<version, store, lives, tomb, lock, caller, flight, writer, faults>>
      /\ \A p \in Procs : flight[p].started \in Nat
      /\ LockTtl \in Nat /\ lock.expires \in Nat
      /\ store # NoEntry => store.started \in Nat
  BY RuntimeAssumption DEF IInv, StateOK, Tick, Flight, Lock, Entry
<1>2. StateOK' /\ Observations' /\ ReadAfter' /\ Hidden'
  BY <1>1 DEF IInv, StateOK, Observations, ReadAfter, Hidden
<1>3. Ages'
  BY <1>1 DEF IInv, Ages
<1>4. LockOwned'
  BY <1>1 DEF IInv, LockOwned
<1>5. LockHeld'
  BY <1>1 DEF IInv, LockHeld
<1> QED  BY <1>2, <1>3, <1>4, <1>5 DEF IInv

-----------------------------------------------------------------------------
(* Before any call the invariant holds.                                    *)
LEMMA InitInv == Init => IInv
<1> SUFFICES ASSUME Init PROVE IInv  OBVIOUS
<1>1. StateOK
  BY NoFlightType DEF Init, StateOK, FreeLock, Lock, Caller, Writer, Ops
<1>2. Ages /\ Observations
  BY DEF Init, Ages, Observations, NoFlight
<1>3. LockOwned /\ LockHeld
  BY DEF Init, LockOwned, LockHeld, NoFlight, FreeLock
<1>4. ReadAfter
  BY DEF Init, ReadAfter, NoFlight, Invalidating
<1>5. Hidden
  BY DEF Init, Hidden, NoFlight
<1> QED  BY <1>1, <1>2, <1>3, <1>4, <1>5 DEF IInv

(* Every step keeps it, one lemma for each action.                         *)
LEMMA NextInv == IInv /\ LateKept /\ [Next]_vars => IInv'
<1> SUFFICES ASSUME IInv, LateKept, [Next]_vars PROVE IInv'  OBVIOUS
<1>1. ASSUME NEW c \in Calls, Call(c) \/ CallerStep(c) \/ Cancel(c) PROVE IInv'
  BY <1>1, CallInv, ReadInv, DecideInv, DeleteInv, CancelInv DEF CallerStep
<1>2. ASSUME NEW p \in Procs, GuardedStep(p) \/ UnguardedStep(p) \/ Crash(p)
      PROVE  IInv'
  BY <1>2, AcquireInv, RecheckInv, PollInv, StartSourceInv, FinishSourceInv,
     WriteInv, EndInv, CheckTombstoneInv, AddTagsInv, ReleaseFlightInv, CrashInv
     DEF GuardedStep, UnguardedStep
<1>3. CASE UNCHANGED vars
  BY <1>3 DEF vars, IInv, StateOK, Ages, Observations, LockOwned, LockHeld,
     ReadAfter, Hidden
<1>4. ASSUME NEW f \in late, LandWrite(f) PROVE IInv'
  BY <1>4, LandWriteInv DEF LateKept, WriteFits
<1> QED
  BY <1>1, <1>2, <1>3, <1>4, WriterInv, TickInv DEF Next

-----------------------------------------------------------------------------
(* Writes under way *)

(* What is about to be written fits, whoever still waits for it.           *)
LEMMA WritingFits ==
  ASSUME IInv, LateKept, NEW f \in Writing
  PROVE  f \in Flight /\ WriteFits(f)
<1>1. CASE f \in late
  BY <1>1 DEF LateKept
<1>2. ASSUME NEW p \in Procs, flight[p].pc = "write", f = flight[p]
      PROVE  f \in Flight /\ WriteFits(f)
  <2>1. f \in Flight /\ f.seen \subseteq Writers
    BY <1>2 DEF IInv, StateOK, Flight
  <2>2. ~Versioned => \A w \in f.seen : /\ writer[w].pc = "done"
                                        /\ f.value >= writer[w].wrote
    BY <1>2, <2>1 DEF IInv, ReadAfter, Invalidating
  <2>3. f.started <= now /\ f.life <= lives
    BY <1>2 DEF IInv, Ages
  <2>4. (store # NoEntry /\ store.life = f.life)
         => /\ f.obs <= store.rev
            /\ f.obs = store.rev => store.started <= f.started
    BY <1>2 DEF IInv, Observations
  <2> QED  BY <2>1, <2>2, <2>3, <2>4 DEF WriteFits
<1> QED  BY <1>1, <1>2 DEF Writing

(* What a step may do to the records and to the writes under way.          *)
Proceeds ==
  /\ now' >= now /\ lives' >= lives /\ now' \in Nat /\ lives' \in Nat
  /\ \A w \in Writers : writer[w].pc = "done" => writer'[w] = writer[w]
  /\ late' \subseteq Writing
  /\ \/ store' \in {store, NoEntry}
     \/ \E g \in Writing : Matches(g) /\ Put(g)

LEMMA StepProceeds ==
  ASSUME IInv, LateKept, [Next]_vars
  PROVE  Proceeds
<1>1. IInv'
  BY NextInv
<1>2. /\ now \in Nat /\ lives \in Nat /\ now' \in Nat /\ lives' \in Nat
      /\ writer \in [Writers -> Writer]
  BY <1>1 DEF IInv, StateOK
<1>3. late \subseteq Writing
  BY DEF Writing
<1>4. ASSUME UNCHANGED <<now, lives, writer, late>>, store' \in {store, NoEntry}
      PROVE  Proceeds
  BY <1>2, <1>3, <1>4 DEF Proceeds
<1>5. ASSUME NEW g \in Writing, UNCHANGED <<now, writer>>, late' \subseteq Writing,
             \/ UNCHANGED <<store, lives>>
             \/ Matches(g) /\ Put(g)
      PROVE  Proceeds
  <2>1. lives' >= lives
    BY <1>2, <1>5 DEF Put
  <2> QED  BY <1>2, <1>5, <2>1 DEF Proceeds
<1>6. ASSUME NEW c \in Calls, Call(c) \/ CallerStep(c) \/ Cancel(c)
      PROVE  Proceeds
  <2>1. UNCHANGED <<now, lives, writer, late>> /\ store' \in {store, NoEntry}
    BY <1>6 DEF Call, CallerStep, Read, Decide, Delete, Cancel
  <2> QED  BY <1>4, <2>1
<1>7. ASSUME NEW p \in Procs, Write(p)
      PROVE  Proceeds
  <2>1. flight[p] \in Writing
    BY <1>7 DEF Write, Writing
  <2>2. /\ UNCHANGED <<now, writer>> /\ late' \subseteq Writing
        /\ \/ UNCHANGED <<store, lives>>
           \/ Matches(flight[p]) /\ Put(flight[p])
    BY <1>3, <1>7, <2>1 DEF Write
  <2> QED  BY <1>5, <2>1, <2>2
<1>8. ASSUME NEW p \in Procs, Crash(p)
      PROVE  Proceeds
  <2>1. flight[p].pc = "write" => flight[p] \in Writing
    BY DEF Writing
  <2>2. late' \subseteq Writing /\ UNCHANGED <<now, lives, store, writer>>
    BY <1>3, <1>8, <2>1 DEF Crash
  <2> QED  BY <1>2, <2>2 DEF Proceeds
<1>9. ASSUME NEW p \in Procs, GuardedStep(p) \/ UnguardedStep(p), ~Write(p)
      PROVE  Proceeds
  <2>1. UNCHANGED <<now, lives, writer, late, store>>
    BY <1>9 DEF GuardedStep, UnguardedStep, Acquire, Recheck, Poll, StartSource,
       FinishSource, End, CheckTombstone, AddTags, Release
  <2> QED  BY <1>4, <2>1
<1>10. ASSUME NEW f \in late, LandWrite(f)
       PROVE  Proceeds
  <2>1. f \in Writing
    BY <1>3, <1>10
  <2> QED  BY <1>3, <1>5, <1>10, <2>1 DEF LandWrite
<1>11. ASSUME NEW w \in Writers, WriterStep(w)
       PROVE  Proceeds
  <2>1. /\ UNCHANGED <<now, lives, late>> /\ store' \in {store, NoEntry}
        /\ writer[w].pc # "done"
        /\ \A x \in Writers \ {w} : writer'[x] = writer[x]
    BY <1>2, <1>11 DEF WriterStep, Mutate, BeginInvalidate, InvalidateTag,
       WriteTombstone
  <2> QED  BY <1>2, <1>3, <2>1 DEF Proceeds
<1>12. CASE Tick
  BY <1>2, <1>3, <1>12 DEF Tick, Proceeds
<1>13. CASE UNCHANGED vars
  BY <1>4, <1>13 DEF vars
<1> QED
  BY <1>6, <1>7, <1>8, <1>9, <1>10, <1>11, <1>12, <1>13 DEF Next

(* Whatever is done meanwhile, a write under way keeps fitting: a record   *)
(* that replaces the one it observed has another revision.                 *)
LEMMA FitsKept ==
  ASSUME IInv, LateKept, Proceeds, NEW f \in Flight, WriteFits(f)
  PROVE  WriteFits(f)'
<1>1. /\ f.started \in Nat /\ f.life \in Nat /\ f.obs \in Nat
      /\ f.seen \subseteq Writers /\ now \in Nat /\ lives \in Nat
  BY DEF Flight, IInv, StateOK
<1>2. f.started <= now' /\ f.life <= lives'
  BY <1>1 DEF WriteFits, Proceeds
<1>3. ~Versioned => \A w \in f.seen : /\ writer'[w].pc = "done"
                                      /\ f.value >= writer'[w].wrote
  BY <1>1 DEF WriteFits, Proceeds
<1>4. (store' # NoEntry /\ store'.life = f.life)
       => /\ f.obs <= store'.rev
          /\ f.obs = store'.rev => store'.started <= f.started
  <2>1. CASE store' \in {store, NoEntry}
    BY <2>1 DEF WriteFits
  <2>2. ASSUME NEW g \in Writing, Matches(g), Put(g), store'.life = f.life
        PROVE  f.obs < store'.rev
    <3>1. g \in Flight /\ g.obs \in Nat
      BY WritingFits DEF Flight
    <3>2. /\ store'.rev = g.obs + 1
          /\ store'.life = IF Stored = NoEntry THEN lives + 1 ELSE Stored.life
      BY <2>2 DEF Put, NewEntry
    <3>3. Stored # NoEntry
      BY <1>1, <2>2, <3>2 DEF WriteFits
    <3>4. Stored = store /\ store # NoEntry /\ store.rev = g.obs
      BY <2>2, <3>3 DEF Matches, Revision, Stored
    <3>5. f.obs <= store.rev
      BY <2>2, <3>2, <3>3, <3>4 DEF WriteFits
    <3> QED  BY <1>1, <3>1, <3>2, <3>4, <3>5
  <2>3. ASSUME NEW g \in Writing, Matches(g), Put(g), store'.life = f.life
        PROVE  f.obs <= store'.rev /\ f.obs # store'.rev
    <3>1. g \in Flight /\ store'.rev = g.obs + 1 /\ g.obs \in Nat
      BY <2>3, WritingFits DEF Put, NewEntry, Flight
    <3> QED  BY <1>1, <2>2, <2>3, <3>1
  <2> QED  BY <2>1, <2>3 DEF Proceeds
<1> QED  BY <1>2, <1>3, <1>4 DEF WriteFits

LEMMA LateStep == IInv /\ LateKept /\ [Next]_vars => LateKept'
<1> SUFFICES ASSUME IInv, LateKept, [Next]_vars,
                    NEW f \in late'
             PROVE  f \in Flight /\ WriteFits(f)'
  BY DEF LateKept
<1>1. Proceeds
  BY StepProceeds
<1>2. f \in Flight /\ WriteFits(f)
  BY <1>1, WritingFits DEF Proceeds
<1> QED  BY <1>1, <1>2, FitsKept

-----------------------------------------------------------------------------
(* Every reachable state satisfies the inductive invariant.                *)
THEOREM Invariance == Spec => [](IInv /\ LateKept)
<1>1. Init => IInv /\ LateKept
  BY InitInv DEF Init, LateKept
<1>2. IInv /\ LateKept /\ [Next]_vars => IInv' /\ LateKept'
  BY NextInv, LateStep
<1> QED  BY <1>1, <1>2, PTL DEF Spec

(* Entries, flights, calls, lock, writers and the writes under way keep    *)
(* their types.                                                            *)
THEOREM TypeCorrect == Spec => []TypeOK
<1>1. IInv /\ LateKept => TypeOK  BY DEF IInv, LateKept, TypeOK
<1> QED  BY <1>1, Invariance, PTL

(* Strict invalidation: what is to be written, even by a request that was  *)
(* given up, was read after every invalidation that the tombstone check    *)
(* could see, for a function without a version (with one, the tombstone is *)
(* not found).                                                             *)
THEOREM StrictCorrect ==
  ASSUME ~Versioned PROVE Spec => []StrictRefusesStale
<1>1. IInv /\ LateKept => StrictRefusesStale
  BY WritingFits DEF StrictRefusesStale, WriteFits
<1> QED  BY <1>1, Invariance, PTL

(* A flight that believes to hold the lock shares it with nobody until the *)
(* lock's ttl has passed since the flight began.                           *)
THEOREM LockCorrect == Spec => []OnlyOverstayersShare
<1>1. IInv /\ LateKept => OnlyOverstayersShare
  BY DEF IInv, LockOwned, OnlyOverstayersShare
<1> QED  BY <1>1, Invariance, PTL

(* Until a storage call fails, every unexpired lock has an owner that is   *)
(* still going to release it.                                              *)
THEOREM ReleaseCorrect == Spec => []LockReleased
<1>1. IInv /\ LateKept => LockReleased
  BY DEF IInv, LockHeld, LockReleased
<1> QED  BY <1>1, Invariance, PTL

(* Under fail-open no call sees a failure of the storage.                  *)
THEOREM FailOpenCorrect == Spec => []FailOpenHidesStorage
<1>1. IInv /\ LateKept => FailOpenHidesStorage
  BY DEF IInv, Hidden, FailOpenHidesStorage
<1> QED  BY <1>1, Invariance, PTL

(* While a record lives, a computation replaces only what one that began   *)
(* no later has written, at whatever time its write lands.                 *)
THEOREM OrderCorrect == Spec => NewerKeptWithinLife
<1>1. ASSUME IInv, LateKept, [Next]_vars, NEW f \in Writing,
             store' # store, store' = NewEntry(f),
             Stored # NoEntry, Stored.life = f.life
      PROVE  store'.started >= store.started
  <2>1. StateOK /\ store \in Entry /\ Stored = store /\ f \in Flight
    BY <1>1, StoredType, WritingFits DEF IInv, StateOK
  <2>2. store' # NoEntry
    BY <1>1, <2>1, NewEntryType, NoEntryAssumption
  <2>3. PICK g \in Writing : Matches(g) /\ Put(g)
    BY <1>1, <2>2, StepProceeds DEF Proceeds
  <2>4. f.obs \in Nat /\ g.obs \in Nat /\ f.started \in Nat
    BY <1>1, <2>1, <2>3, WritingFits DEF Flight
  <2>5. f.obs + 1 = g.obs + 1 /\ store'.started = f.started
    BY <1>1, <2>3 DEF Put, NewEntry
  <2>6. f.obs = store.rev
    BY <1>1, <2>1, <2>3, <2>4, <2>5 DEF Matches, Revision
  <2>7. store.started <= f.started
    BY <1>1, <2>1, <2>6, WritingFits, NoEntryAssumption DEF WriteFits
  <2>8. store.started \in Nat
    BY <2>1 DEF Entry
  <2> QED  BY <2>4, <2>5, <2>7, <2>8
<1>2. IInv /\ LateKept /\ [Next]_vars =>
        [\A f \in Writing :
           (/\ store' # store /\ store' = NewEntry(f)
            /\ Stored # NoEntry /\ Stored.life = f.life)
           => store'.started >= store.started]_vars
  BY <1>1
<1> QED  BY <1>2, Invariance, PTL DEF Spec, NewerKeptWithinLife
=============================================================================
