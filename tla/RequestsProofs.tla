--------------------------- MODULE RequestsProofs ---------------------------
(* What Requests guarantees, proved for every set of contexts, functions   *)
(* and calls: types, the isolation of users and tenants, the memo of a     *)
(* request, and what a call after a revalidation sees.                     *)
EXTENDS Requests, SequenceTheorems, TLAPS

-----------------------------------------------------------------------------
(* Keys and what a call is planned to be *)

(* Two pairs of a user and a tenant stand for one list of parts only if    *)
(* they are equal, or confused.                                            *)
LEMMA PartsTold ==
  ASSUME NEW u, NEW t, NEW v, NEW s,
         Part(u) \o Part(t) = Part(v) \o Part(s)
  PROVE  (u = v /\ t = s) \/ Confused(u, t, v, s)
<1> DEFINE Ids == {u, t, v, s}
<1>1. \A a, b \in Ids :
        /\ Len(Part(a) \o Part(b)) =
             (IF a = None THEN 0 ELSE 1) + (IF b = None THEN 0 ELSE 1)
        /\ a # None => (Part(a) \o Part(b))[1] = a
        /\ a # None /\ b # None => (Part(a) \o Part(b))[2] = b
        /\ a = None /\ b # None => (Part(a) \o Part(b))[1] = b
  <2> SUFFICES ASSUME NEW a \in Ids, NEW b \in Ids
               PROVE  /\ Len(Part(a) \o Part(b)) =
                           (IF a = None THEN 0 ELSE 1) + (IF b = None THEN 0 ELSE 1)
                      /\ a # None => (Part(a) \o Part(b))[1] = a
                      /\ a # None /\ b # None => (Part(a) \o Part(b))[2] = b
                      /\ a = None /\ b # None => (Part(a) \o Part(b))[1] = b
    OBVIOUS
  <2>1. \A x \in Ids : Part(x) \in Seq(Ids)
    <3> HIDE DEF Ids
    <3>1. <<>> \in Seq(Ids) /\ \A x \in Ids : <<x>> \in Seq(Ids)
      OBVIOUS
    <3> QED  BY <3>1 DEF Part
  <2>2. \A x \in Ids : /\ Len(Part(x)) = IF x = None THEN 0 ELSE 1
                       /\ x # None => Part(x)[1] = x
    <3> TAKE x \in Ids
    <3>1. CASE x = None
      BY <3>1 DEF Part
    <3>2. CASE x # None
      <4>1. Part(x) = <<x>>
        BY <3>2 DEF Part
      <4>2. Len(<<x>>) = 1 /\ <<x>>[1] = x
        OBVIOUS
      <4> QED  BY <3>2, <4>1, <4>2
    <3> QED  BY <3>1, <3>2
  <2> HIDE DEF Ids
  <2> QED  BY <2>1, <2>2, ConcatProperties
<1> DEFINE pair == Part(u) \o Part(t)
<1>2. pair = Part(v) \o Part(s)
  OBVIOUS
<1> HIDE DEF pair
<1>3. /\ Len(pair) = (IF u = None THEN 0 ELSE 1) + (IF t = None THEN 0 ELSE 1)
      /\ Len(pair) = (IF v = None THEN 0 ELSE 1) + (IF s = None THEN 0 ELSE 1)
      /\ u # None => pair[1] = u
      /\ v # None => pair[1] = v
      /\ u # None /\ t # None => pair[2] = t
      /\ v # None /\ s # None => pair[2] = s
      /\ u = None /\ t # None => pair[1] = t
      /\ v = None /\ s # None => pair[1] = s
  BY <1>1, <1>2 DEF pair
<1> QED  BY <1>3 DEF Confused

LEMMA KeyTyped ==
  ASSUME NEW f \in Functions, NEW seen \in Context
  PROVE  KeyOf(f, seen) \in Keys
<1> DEFINE pair == [user |-> seen.user, tenant |-> seen.tenant]
<1>1. pair \in Seens
  BY DEF Seens, Context
<1>2. KeyOf(f, seen) = KeyOf(f, pair)
  BY DEF KeyOf, ScopeParts
<1> QED  BY <1>1, <1>2 DEF Keys

(* The evictions of a key in a request that are in one of the states pcs.  *)
Evictions(cache, key, pcs) ==
  {r \in Calls : /\ call[r].op # "call" /\ call[r].pc \in pcs
                 /\ cache # None /\ call[r].cache = cache /\ call[r].key = key}

Started(c, op, f, seen, pc, from, next) ==
  /\ next \in Call
  /\ next.pc = pc /\ next.op = op /\ next.fn = f
  /\ next.user = seen.user /\ next.tenant = seen.tenant
  /\ next.cache = seen.cache /\ next.key = KeyOf(f, seen)
  /\ next.from = from /\ next.value = call[c].value
  /\ next.after = Evictions(seen.cache, KeyOf(f, seen), {"done", "failed"})
  /\ next.during = Evictions(seen.cache, KeyOf(f, seen), {"read", "wait", "delete"})

LEMMA PlannedIs ==
  ASSUME TypeOK, NEW c \in Calls, NEW f \in Functions, NEW seen \in Context,
         NEW op \in {"call", "revalidate", "invalidate"},
         NEW pc \in {"memo", "read", "delete"}, NEW from \in Calls
  PROVE  Started(c, op, f, seen, pc, from, Planned(c, op, f, seen, pc, from))
<1>1. KeyOf(f, seen) \in Keys
  BY KeyTyped
<1>2. call[c] \in Call
  BY DEF TypeOK
<1> QED  BY <1>1, <1>2 DEF Started, Planned, Evictions, Call, Context

LEMMA SeenTyped ==
  ASSUME TypeOK, NEW x \in Contexts \union {None}, NEW later \in BOOLEAN,
         x # None => context[x] # None
  PROVE  Seen(x, later) \in Context
BY RequestsAssumption DEF TypeOK, Seen, NoContext, Context

-----------------------------------------------------------------------------
(* Types *)

(* c was answered by the promise of another call of its request.           *)
Follows(c, a) ==
  /\ a \in Calls /\ a # c
  /\ call[c].op = "call" /\ call[a].op = "call" /\ call[a].from = a
  /\ call[c].key = call[a].key /\ call[c].cache = call[a].cache
  /\ call[c].cache # None /\ call[a].pc # "idle"
  /\ call[c].pc = "memo" => call[a].pc \in {"read", "wait"}
  /\ call[c].pc = "done" => call[a].pc = "done" /\ call[c].value = call[a].value

(* What a call of each state is. *)
CallOK(c) ==
  LET own == call[c]
  IN  /\ own.pc \notin {"idle", "failed"} =>
           /\ own.fn \in Functions /\ ~ Throws(own.fn, own) /\ own.from \in Calls
           /\ own.key = KeyOf(own.fn, own) /\ own.key \in Keys
      /\ own.pc = "idle" => own.op = "call" /\ own.from = None
      /\ own.pc \in {"read", "wait"} => own.from = c /\ own.op # "invalidate"
      /\ own.pc = "delete" => own.from = c /\ own.op = "invalidate"
      /\ own.pc = "memo" => own.from \notin {None, c}
      /\ own.from # None /\ own.from # c => Follows(c, own.from)

CallsOK == \A c \in Calls : CallOK(c)

(* Before the source answers, a computation has no value; then it has one. *)
FlightsOK ==
  \A k \in Keys : flight[k] # None /\ flight[k].pc = "write" =>
    flight[k].value \in Values

(* The memo of a request holds promises of its own calls that did not fail.*)
MemoOK ==
  \A m \in Caches, k \in Keys : memo[m][k] # None =>
    Runs(memo[m][k], m, k) /\ call[memo[m][k]].pc \in {"read", "wait", "done"}

TypeInv == TypeOK /\ CallsOK /\ FlightsOK /\ MemoOK

(* A step at which the promises of S settle. *)
Settles(S, pc, value) ==
  /\ pc \in {"done", "failed"} /\ value \in Values \union {None}
  /\ \A c \in S : call[c].pc \in {"read", "wait", "delete"}
  /\ S \subseteq Calls
  /\ call' = Answered(S, pc, value)

Settled(S, c) == c \in S \/ (call[c].pc = "memo" /\ call[c].from \in S)

LEMMA SettlesKeeps ==
  ASSUME TypeInv, NEW S, NEW pc, NEW value, Settles(S, pc, value)
  PROVE  /\ call' \in [Calls -> Call] /\ CallsOK'
         /\ \A c \in Calls :
              IF Settled(S, c)
              THEN call'[c] = [call[c] EXCEPT !.pc = pc, !.value = value]
              ELSE call'[c] = call[c]
<1> USE DEF TypeInv, Settles
<1>1. call' \in [Calls -> Call]
  <2>1. \A c \in Calls : /\ call[c] \in Call
                         /\ [call[c] EXCEPT !.pc = pc, !.value = value] \in Call
    <3> TAKE c \in Calls
    <3>1. call[c] \in Call
      BY DEF TypeOK
    <3> QED  BY <3>1 DEF Call
  <2> QED  BY <2>1 DEF Answered
<1>2. \A c \in Calls :
        IF Settled(S, c)
        THEN call'[c] = [call[c] EXCEPT !.pc = pc, !.value = value]
        ELSE call'[c] = call[c]
  BY DEF Answered, Settled
<1>3. \A c \in Calls :
        /\ call'[c].op = call[c].op /\ call'[c].fn = call[c].fn
        /\ call'[c].user = call[c].user /\ call'[c].tenant = call[c].tenant
        /\ call'[c].cache = call[c].cache /\ call'[c].key = call[c].key
        /\ call'[c].from = call[c].from
        /\ call'[c].after = call[c].after /\ call'[c].during = call[c].during
        /\ Settled(S, c) => call'[c].pc = pc /\ call'[c].value = value
        /\ ~ Settled(S, c) => call'[c].pc = call[c].pc
                              /\ call'[c].value = call[c].value
  <2> TAKE c \in Calls
  <2>1. call[c] \in Call
    BY DEF TypeOK
  <2>2. CASE Settled(S, c)
    BY <1>2, <2>1, <2>2 DEF Call
  <2>3. CASE ~ Settled(S, c)
    BY <1>2, <2>3
  <2> QED  BY <2>2, <2>3
<1>4. SUFFICES ASSUME NEW c \in Calls
               PROVE  CallOK(c)'
  BY <1>1, <1>2 DEF CallsOK
<1>5. CallOK(c) /\ call[c] \in Call
  BY DEF CallsOK, TypeOK
<1>6. /\ Throws(call[c].fn, call[c])' <=> Throws(call[c].fn, call[c])
      /\ KeyOf(call[c].fn, call[c])' = KeyOf(call[c].fn, call[c])
  BY <1>3 DEF Throws, KeyOf, ScopeParts
<1>7. call[c].from # None /\ call[c].from # c => Follows(c, call[c].from)'
  <2>1. SUFFICES ASSUME call[c].from # None, call[c].from # c
                 PROVE  Follows(c, call[c].from)'
    OBVIOUS
  <2>2. Follows(c, call[c].from)
    BY <1>5, <2>1 DEF CallOK
  <2> PICK a : a = call[c].from
    OBVIOUS
  <2>3. a \in Calls /\ CallOK(a) /\ call[a].from = a
    BY <2>2 DEF CallsOK, Follows
  <2>4. call[a].pc # "memo"
    BY <2>3 DEF CallOK
  <2>5. Settled(S, a) <=> a \in S
    BY <2>4 DEF Settled
  <2>6. c \notin S
    <3>1. call[c].pc \in {"read", "wait", "delete"} => call[c].from = c
      BY <1>5 DEF CallOK
    <3> QED  BY <2>1, <3>1
  <2>7. Settled(S, c) <=> call[c].pc = "memo" /\ a \in S
    BY <2>6 DEF Settled
  <2>8. a \in S => call[a].pc \in {"read", "wait", "delete"}
    OBVIOUS
  <2>9. call'[c].from = a
    BY <1>3
  <2>10. Follows(c, a)'
    BY <1>3, <2>2, <2>3, <2>5, <2>7, <2>8 DEF Follows
  <2> QED  BY <2>9, <2>10
<1>8. call'[c].pc \notin {"idle", "memo"} \/ call'[c].pc = call[c].pc
  BY <1>3
<1>9. Settled(S, c) => call[c].pc \notin {"idle", "failed"}
  BY <1>5 DEF Settled
<1>10. call'[c].from = call[c].from
  BY <1>3
<1> QED  BY <1>3, <1>5, <1>6, <1>7, <1>9, <1>10 DEF CallOK

(* The four ways in which a call begins. *)
Memoized(f, seen) == FunctionOf[f].memo /\ seen.cache # None

Begins(c, f, seen, op, from, next) ==
  LET key == KeyOf(f, seen)
  IN  /\ next \in Call /\ ~ Throws(f, seen)
      /\ next.op = op /\ next.fn = f
      /\ next.user = seen.user /\ next.tenant = seen.tenant
      /\ next.cache = seen.cache /\ next.key = key /\ next.from = from
      /\ next.after = Evictions(seen.cache, key, {"done", "failed"})
      /\ next.during = Evictions(seen.cache, key, {"read", "wait", "delete"})
      /\ call' = [call EXCEPT ![c] = next]
      /\ \/ /\ op = "call" /\ from # c /\ from # None /\ Memoized(f, seen)
            /\ from = memo[seen.cache][key] /\ memo' = memo
            /\ next.pc = IF call[from].pc = "done" THEN "done" ELSE "memo"
            /\ next.value = call[from].value
         \/ /\ op = "call" /\ from = c /\ next.pc = "read"
            /\ IF Memoized(f, seen)
               THEN /\ memo[seen.cache][key] = None
                    /\ memo' = [memo EXCEPT ![seen.cache][key] = c]
               ELSE memo' = memo
         \/ /\ op = "revalidate" /\ from = c /\ next.pc = "read"
            /\ memo' = Evict(seen.cache, key)
         \/ /\ op = "invalidate" /\ from = c /\ next.pc = "delete"
            /\ memo' = Evict(seen.cache, key)

LEMMA UseBegins ==
  ASSUME TypeInv, NEW c \in Calls, NEW f \in Functions,
         NEW x \in Contexts \union {None}, NEW later \in BOOLEAN,
         Use(c, f, x, later)
  PROVE  \/ /\ call' = [call EXCEPT ![c].pc = "failed", ![c].fn = f]
            /\ memo' = memo
         \/ \E next : \E seen \in Context, from \in Calls,
                          op \in {"call", "revalidate", "invalidate"} :
              Begins(c, f, seen, op, from, next)
<1>1. TypeOK /\ call[c].pc = "idle"
  BY DEF TypeInv, Use
<1>2. PICK seen \in Context : seen = Seen(x, later)
  BY <1>1, SeenTyped DEF Use
<1> DEFINE key == KeyOf(f, seen)
<1>3. key \in Keys
  BY <1>2, KeyTyped
<1>4. CASE Refuse(c, f, seen)
  BY <1>4 DEF Refuse
<1>5. CASE Execute(c, f, seen)
  <2> DEFINE known == IF Memoized(f, seen) THEN memo[seen.cache][key] ELSE None
  <2>1. CASE known = None
    <3> DEFINE next == Planned(c, "call", f, seen, "read", c)
    <3>1. Started(c, "call", f, seen, "read", c, next)
      BY <1>1, <1>2, PlannedIs
    <3>2. /\ ~ Throws(f, seen) /\ call' = [call EXCEPT ![c] = next]
          /\ memo' = IF Memoized(f, seen)
                     THEN [memo EXCEPT ![seen.cache][key] = c] ELSE memo
      BY <1>5, <2>1 DEF Execute, Memoized
    <3> HIDE DEF next
    <3>3. Begins(c, f, seen, "call", c, next)
      BY <2>1, <3>1, <3>2 DEF Begins, Started
    <3> QED  BY <1>2, <3>3
  <2>2. CASE known # None
    <3>1. Memoized(f, seen) /\ seen.cache \in Caches
      BY <1>2, <2>2 DEF Memoized, Context
    <3>2. /\ known \in Calls /\ known # c /\ known = memo[seen.cache][key]
          /\ call[known] \in Call
      BY <1>1, <1>3, <2>2, <3>1 DEF TypeInv, TypeOK, MemoOK
    <3> DEFINE plan == Planned(c, "call", f, seen, "memo", known)
               next == [plan EXCEPT
                          !.pc = IF call[known].pc = "done" THEN "done" ELSE "memo",
                          !.value = call[known].value]
    <3>3. Started(c, "call", f, seen, "memo", known, plan)
      BY <1>1, <1>2, <3>2, PlannedIs
    <3>4. /\ ~ Throws(f, seen) /\ call' = [call EXCEPT ![c] = next]
          /\ memo' = memo
      BY <1>5, <2>2 DEF Execute, Memoized
    <3> HIDE DEF plan, known
    <3>5. Begins(c, f, seen, "call", known, next)
      <4>1. /\ next \in Call /\ next.op = plan.op /\ next.fn = plan.fn
            /\ next.user = plan.user /\ next.tenant = plan.tenant
            /\ next.cache = plan.cache /\ next.key = plan.key
            /\ next.from = plan.from /\ next.after = plan.after
            /\ next.during = plan.during /\ next.value = call[known].value
            /\ next.pc = IF call[known].pc = "done" THEN "done" ELSE "memo"
        <5>1. plan \in Call
          BY <3>3 DEF Started
        <5>2. PICK pc \in {"done", "memo"} :
                pc = IF call[known].pc = "done" THEN "done" ELSE "memo"
          OBVIOUS
        <5>3. PICK value \in Values \union {None} : value = call[known].value
          BY <3>2 DEF Call
        <5>4. next = [plan EXCEPT !.pc = pc, !.value = value]
          BY <5>2, <5>3
        <5> HIDE DEF next
        <5>5. next \in Call
          BY <5>1, <5>4 DEF Call
        <5>6. next.pc = pc /\ next.value = value
          BY <5>1, <5>4 DEF Call
        <5>7. /\ next.op = plan.op /\ next.fn = plan.fn
              /\ next.user = plan.user /\ next.tenant = plan.tenant
              /\ next.cache = plan.cache /\ next.key = plan.key
              /\ next.from = plan.from /\ next.after = plan.after
              /\ next.during = plan.during
          BY <5>1, <5>4 DEF Call
        <5> QED  BY <5>2, <5>3, <5>5, <5>6, <5>7
      <4> HIDE DEF next
      <4> QED  BY <2>2, <3>1, <3>2, <3>3, <3>4, <4>1 DEF Begins, Started
    <3> QED  BY <1>2, <3>2, <3>5
  <2> QED  BY <2>1, <2>2
<1>6. CASE Revalidate(c, f, seen)
  <2> DEFINE next == Planned(c, "revalidate", f, seen, "read", c)
  <2>1. Started(c, "revalidate", f, seen, "read", c, next)
    BY <1>1, <1>2, PlannedIs
  <2>2. /\ ~ Throws(f, seen) /\ call' = [call EXCEPT ![c] = next]
        /\ memo' = Evict(seen.cache, key)
    BY <1>6 DEF Revalidate
  <2> HIDE DEF next
  <2>3. Begins(c, f, seen, "revalidate", c, next)
    BY <2>1, <2>2 DEF Begins, Started
  <2> QED  BY <1>2, <2>3
<1>7. CASE Invalidate(c, f, seen)
  <2> DEFINE next == Planned(c, "invalidate", f, seen, "delete", c)
  <2>1. Started(c, "invalidate", f, seen, "delete", c, next)
    BY <1>1, <1>2, PlannedIs
  <2>2. /\ ~ Throws(f, seen) /\ call' = [call EXCEPT ![c] = next]
        /\ memo' = Evict(seen.cache, key)
    BY <1>7 DEF Invalidate
  <2> HIDE DEF next
  <2>3. Begins(c, f, seen, "invalidate", c, next)
    BY <2>1, <2>2 DEF Begins, Started
  <2> QED  BY <1>2, <2>3
<1> QED  BY <1>2, <1>4, <1>5, <1>6, <1>7 DEF Use

(* A call that begins disturbs no other one. *)
LEMMA OthersKept ==
  ASSUME TypeInv, NEW c \in Calls, call[c].pc = "idle", NEW next \in Call,
         call' = [call EXCEPT ![c] = next]
  PROVE  /\ call' \in [Calls -> Call] /\ call'[c] = next
         /\ \A d \in Calls \ {c} : call'[d] = call[d] /\ CallOK(d)'
         /\ \A k \in Keys : flight[k] # None =>
              /\ call'[flight[k].leader].pc = "wait"
              /\ call'[flight[k].leader].key = k
<1> USE DEF TypeInv
<1>1. call' \in [Calls -> Call] /\ call'[c] = next
  BY DEF TypeOK
<1>2. \A d \in Calls \ {c} : call'[d] = call[d]
  BY DEF TypeOK
<1>3. ASSUME NEW d \in Calls \ {c}
      PROVE  CallOK(d)'
  <2>1. CallOK(d)
    BY DEF CallsOK
  <2>2. call'[d] = call[d]
    BY <1>2
  <2>3. Throws(call[d].fn, call[d])' <=> Throws(call[d].fn, call[d])
    BY <2>2 DEF Throws, ScopeParts
  <2>4. KeyOf(call[d].fn, call[d])' = KeyOf(call[d].fn, call[d])
    BY <2>2 DEF KeyOf, ScopeParts
  <2>5. PICK a : a = call[d].from
    OBVIOUS
  <2>6. Follows(d, a) => Follows(d, a)'
    <3>1. Follows(d, a) => a \in Calls /\ a # c
      BY DEF Follows
    <3>2. Follows(d, a) => call'[a] = call[a]
      BY <1>2, <3>1
    <3> QED  BY <2>2, <3>2 DEF Follows
  <2>7. Follows(d, call[d].from) => Follows(d, call[d].from)'
    BY <2>2, <2>5, <2>6
  <2> QED  BY <2>1, <2>2, <2>3, <2>4, <2>7 DEF CallOK
<1>4. ASSUME NEW k \in Keys, flight[k] # None
      PROVE  /\ call'[flight[k].leader].pc = "wait"
             /\ call'[flight[k].leader].key = k
  <2>1. /\ flight[k] \in Flight
        /\ call[flight[k].leader].pc = "wait" /\ call[flight[k].leader].key = k
    BY <1>4 DEF TypeOK
  <2>2. flight[k].leader \in Calls \ {c}
    BY <2>1 DEF Flight
  <2> QED  BY <1>2, <2>1, <2>2
<1> QED  BY <1>1, <1>2, <1>3, <1>4

LEMMA UseKeeps ==
  ASSUME TypeInv, NEW c \in Calls, NEW f \in Functions,
         NEW x \in Contexts \union {None}, NEW later \in BOOLEAN,
         Use(c, f, x, later)
  PROVE  TypeInv'
<1> USE DEF TypeInv
<1>1. TypeOK /\ call[c].pc = "idle" /\ call[c] \in Call /\ CallOK(c)
  BY DEF Use, TypeOK, CallsOK
<1>2. UNCHANGED <<asyncStore, context, flight, entries, source>>
  BY DEF Use
<1>3. \A m \in Caches, k \in Keys : memo[m][k] # None =>
        memo[m][k] \in Calls \ {c}
  BY <1>1 DEF TypeOK, MemoOK
<1>4. CASE /\ call' = [call EXCEPT ![c].pc = "failed", ![c].fn = f]
           /\ memo' = memo
  <2> DEFINE next == [call[c] EXCEPT !.pc = "failed", !.fn = f]
  <2>1. next \in Call /\ next.pc = "failed" /\ next.from = None /\ next.op = "call"
    BY <1>1 DEF Call, CallOK
  <2>2. call' = [call EXCEPT ![c] = next]
    BY <1>1, <1>4 DEF TypeOK
  <2> HIDE DEF next
  <2>3. /\ call' \in [Calls -> Call] /\ call'[c] = next
        /\ \A d \in Calls \ {c} : call'[d] = call[d] /\ CallOK(d)'
        /\ \A k \in Keys : flight[k] # None =>
              /\ call'[flight[k].leader].pc = "wait"
              /\ call'[flight[k].leader].key = k
    BY <1>1, <2>1, <2>2, OthersKept
  <2>4. CallOK(c)'
    BY <2>1, <2>3 DEF CallOK
  <2>5. TypeOK'
    BY <1>1, <1>2, <1>4, <2>3 DEF TypeOK
  <2>6. CallsOK' /\ FlightsOK'
    BY <1>2, <2>3, <2>4 DEF CallsOK, FlightsOK
  <2>7. MemoOK'
    BY <1>3, <1>4, <2>3 DEF MemoOK, Runs
  <2> QED  BY <2>5, <2>6, <2>7
<1>5. ASSUME NEW seen \in Context, NEW op \in {"call", "revalidate", "invalidate"},
             NEW from \in Calls, NEW next, Begins(c, f, seen, op, from, next)
      PROVE  TypeInv'
  <2> DEFINE key == KeyOf(f, seen)
  <2>1. /\ key \in Keys /\ next \in Call
        /\ call' = [call EXCEPT ![c] = next]
    BY <1>5, KeyTyped DEF Begins
  <2>2. /\ call' \in [Calls -> Call] /\ call'[c] = next
        /\ \A d \in Calls \ {c} : call'[d] = call[d] /\ CallOK(d)'
        /\ \A k \in Keys : flight[k] # None =>
              /\ call'[flight[k].leader].pc = "wait"
              /\ call'[flight[k].leader].key = k
    BY <1>1, <2>1, OthersKept
  <2>3. /\ Throws(next.fn, next) <=> Throws(f, seen)
        /\ KeyOf(next.fn, next) = key
    BY <1>5 DEF Begins, Throws, KeyOf, ScopeParts
  <2>4. from # c => Follows(c, from)'
    <3>1. SUFFICES ASSUME from # c
                   PROVE  Follows(c, from)'
      OBVIOUS
    <3>2. /\ from # None /\ seen.cache \in Caches /\ from = memo[seen.cache][key]
          /\ next.pc = IF call[from].pc = "done" THEN "done" ELSE "memo"
          /\ next.value = call[from].value /\ next.op = "call"
      BY <1>5, <3>1 DEF Begins, Memoized, Context
    <3>3. Runs(from, seen.cache, key) /\ call[from].pc \in {"read", "wait", "done"}
      BY <2>1, <3>2 DEF MemoOK
    <3>4. call'[from] = call[from]
      BY <2>2, <3>1
    <3>5. seen.cache # None /\ next.key = key /\ next.cache = seen.cache
      BY <1>5, <3>2, RequestsAssumption DEF Begins, Caches
    <3> QED  BY <2>2, <3>1, <3>2, <3>3, <3>4, <3>5 DEF Follows, Runs
  <2>5. CallOK(c)'
    <3>1. /\ next.fn = f /\ next.key = key /\ next.from = from /\ next.op = op
          /\ ~ Throws(f, seen)
          /\ \/ from # c /\ next.pc \in {"memo", "done"}
             \/ from = c /\ next.pc = "read" /\ op # "invalidate"
             \/ from = c /\ next.pc = "delete" /\ op = "invalidate"
      BY <1>5 DEF Begins
    <3>2. call'[c] = next
      BY <2>2
    <3>3. ~ Throws(call[c].fn, call[c])' /\ KeyOf(call[c].fn, call[c])' = key
      BY <2>3, <3>1, <3>2 DEF Throws, KeyOf, ScopeParts
    <3>4. call'[c].from # c => Follows(c, call[c].from)'
      BY <2>4, <3>1, <3>2
    <3> HIDE DEF key
    <3>5. from # None
      BY RequestsAssumption
    <3> QED  BY <2>1, <3>1, <3>2, <3>3, <3>4, <3>5 DEF CallOK
  <2>6. /\ memo' \in [Caches -> [Keys -> Calls \union {None}]]
        /\ \A m \in Caches, k \in Keys :
             \/ memo'[m][k] \in {memo[m][k], None}
             \/ /\ memo'[m][k] = c /\ m = seen.cache /\ k = key
                /\ op = "call" /\ from = c /\ Memoized(f, seen) /\ next.pc = "read"
    BY <1>1, <1>5, <2>1 DEF Begins, Evict, TypeOK, Context, Memoized
  <2>7. TypeOK'
    BY <1>1, <1>2, <2>2, <2>6 DEF TypeOK
  <2>8. CallsOK' /\ FlightsOK'
    BY <1>2, <2>2, <2>5 DEF CallsOK, FlightsOK
  <2>9. MemoOK'
    <3> SUFFICES ASSUME NEW m \in Caches, NEW k \in Keys, memo'[m][k] # None
                 PROVE  /\ Runs(memo[m][k], m, k)'
                        /\ call'[memo'[m][k]].pc \in {"read", "wait", "done"}
      BY DEF MemoOK
    <3>1. CASE memo'[m][k] = memo[m][k]
      BY <1>3, <2>2, <3>1 DEF MemoOK, Runs
    <3>2. CASE memo'[m][k] # memo[m][k]
      <4>1. /\ memo'[m][k] = c /\ m = seen.cache /\ k = key
            /\ op = "call" /\ from = c /\ Memoized(f, seen) /\ next.pc = "read"
        BY <2>6, <3>2
      <4>2. /\ next.op = op /\ next.cache = seen.cache /\ next.key = key
            /\ next.from = from /\ next.fn = f
        BY <1>5 DEF Begins
      <4> QED  BY <2>2, <4>1, <4>2 DEF Runs, Memoized
    <3> QED  BY <3>1, <3>2
  <2> QED  BY <2>7, <2>8, <2>9
<1> QED  BY <1>4, <1>5, UseBegins

LEMMA SettlesMemo ==
  ASSUME TypeInv, NEW S, NEW pc, NEW value, Settles(S, pc, value),
         memo' = IF pc = "failed" THEN Dropped(S) ELSE memo
  PROVE  MemoOK' /\ memo' \in [Caches -> [Keys -> Calls \union {None}]]
<1> USE DEF TypeInv
<1>1. \A m \in Caches, k \in Keys :
        IF pc = "failed" /\ memo[m][k] \in S
        THEN memo'[m][k] = None ELSE memo'[m][k] = memo[m][k]
  BY DEF Dropped
<1>2. memo' \in [Caches -> [Keys -> Calls \union {None}]]
  BY DEF TypeOK, Dropped
<1>3. \A c \in Calls :
        IF Settled(S, c)
        THEN call'[c] = [call[c] EXCEPT !.pc = pc, !.value = value]
        ELSE call'[c] = call[c]
  BY SettlesKeeps
<1>4. SUFFICES ASSUME NEW m \in Caches, NEW k \in Keys, memo'[m][k] # None
               PROVE  /\ Runs(memo[m][k], m, k)'
                      /\ call'[memo'[m][k]].pc \in {"read", "wait", "done"}
  BY <1>2 DEF MemoOK
<1>5. PICK a \in Calls : a = memo[m][k] /\ a = memo'[m][k]
  BY <1>1, <1>2, <1>4
<1>6. Runs(a, m, k) /\ call[a].pc \in {"read", "wait", "done"} /\ call[a] \in Call
  <2>1. Runs(memo[m][k], m, k) /\ call[memo[m][k]].pc \in {"read", "wait", "done"}
    BY <1>4, <1>5 DEF MemoOK
  <2>2. call[a] \in Call
    BY DEF TypeOK
  <2> QED  BY <1>5, <2>1, <2>2
<1>7. Settled(S, a) => pc = "done"
  <2>1. Settled(S, a) <=> a \in S
    BY <1>6 DEF Settled
  <2>2. a \in S => pc # "failed"
    BY <1>1, <1>4, <1>5
  <2> QED  BY <2>1, <2>2 DEF Settles
<1>8. /\ call'[a].op = call[a].op /\ call'[a].cache = call[a].cache
      /\ call'[a].key = call[a].key /\ call'[a].from = call[a].from
      /\ call'[a].fn = call[a].fn
      /\ call'[a].pc \in {"read", "wait", "done"}
  <2>1. CASE Settled(S, a)
    BY <1>3, <1>6, <1>7, <2>1 DEF Call
  <2>2. CASE ~ Settled(S, a)
    BY <1>3, <1>6, <2>2
  <2> QED  BY <2>1, <2>2
<1> QED  BY <1>5, <1>6, <1>8 DEF Runs

(* The leader of a computation waits for it. *)
LEMMA LeadersWait ==
  ASSUME TypeInv, NEW k \in Keys, flight[k] # None
  PROVE  /\ flight[k] \in Flight /\ flight[k].leader \in Calls
         /\ call[flight[k].leader].pc = "wait" /\ call[flight[k].leader].key = k
BY DEF TypeInv, TypeOK, Flight

(* One call is answered, without a computation. *)
LEMMA AnswerKeeps ==
  ASSUME TypeInv, NEW c \in Calls, call[c].pc \in {"read", "delete"},
         NEW value \in Values \union {None},
         call' = Answered({c}, "done", value),
         entries' \in [Keys -> Values \union {None}],
         UNCHANGED <<asyncStore, context, memo, flight, source>>
  PROVE  TypeInv' /\ Settles({c}, "done", value)
<1> USE DEF TypeInv
<1>1. Settles({c}, "done", value)
  BY DEF Settles
<1>2. call' \in [Calls -> Call] /\ CallsOK'
  BY <1>1, SettlesKeeps
<1>3. MemoOK'
  BY <1>1, SettlesMemo
<1>4. \A k \in Keys : flight[k] # None => call'[flight[k].leader] = call[flight[k].leader]
  <2> SUFFICES ASSUME NEW k \in Keys, flight[k] # None
               PROVE  call'[flight[k].leader] = call[flight[k].leader]
    OBVIOUS
  <2>1. ~ Settled({c}, flight[k].leader)
    BY LeadersWait DEF Settled
  <2> QED  BY <1>1, <2>1, LeadersWait, SettlesKeeps
<1>5. TypeOK'
  BY <1>2, <1>4 DEF TypeOK
<1>6. FlightsOK'
  BY DEF FlightsOK
<1> QED  BY <1>1, <1>2, <1>3, <1>5, <1>6

LEMMA ReadKeeps ==
  ASSUME TypeInv, NEW c \in Calls, Read(c)
  PROVE  TypeInv'
<1> USE DEF TypeInv
<1> DEFINE key == call[c].key
<1>1. /\ call[c].pc = "read" /\ call[c] \in Call /\ CallOK(c) /\ key \in Keys
      /\ UNCHANGED <<asyncStore, context, memo, entries, source>>
  BY DEF Read, TypeOK, CallsOK, CallOK
<1>2. CASE call' = Answered({c}, "done", entries[key]) /\ UNCHANGED flight
  <2>1. /\ entries[key] \in Values \union {None}
        /\ entries' \in [Keys -> Values \union {None}]
    BY <1>1 DEF TypeOK
  <2> QED  BY <1>1, <1>2, <2>1, AnswerKeeps
<1>3. CASE /\ call' = [call EXCEPT ![c].pc = "wait"]
           /\ flight' = IF flight[key] # None THEN flight
                        ELSE [flight EXCEPT ![key] =
                                [pc |-> "source", leader |-> c,
                                 observed |-> entries[key], value |-> None]]
  <2>1. call' \in [Calls -> Call]
    BY <1>3 DEF TypeOK, Call
  <2>2. \A d \in Calls :
          /\ call'[d].pc = IF d = c THEN "wait" ELSE call[d].pc
          /\ call'[d].op = call[d].op /\ call'[d].fn = call[d].fn
          /\ call'[d].user = call[d].user /\ call'[d].tenant = call[d].tenant
          /\ call'[d].cache = call[d].cache /\ call'[d].key = call[d].key
          /\ call'[d].from = call[d].from /\ call'[d].value = call[d].value
    <3> TAKE d \in Calls
    <3>1. call[d] \in Call
      BY DEF TypeOK
    <3> QED  BY <1>3, <3>1 DEF TypeOK, Call
  <2>3. CallsOK'
    <3> SUFFICES ASSUME NEW d \in Calls
                 PROVE  CallOK(d)'
      BY DEF CallsOK
    <3>1. CallOK(d)
      BY DEF CallsOK
    <3>2. /\ Throws(call[d].fn, call[d])' <=> Throws(call[d].fn, call[d])
          /\ KeyOf(call[d].fn, call[d])' = KeyOf(call[d].fn, call[d])
      BY <2>2 DEF Throws, KeyOf, ScopeParts
    <3>3. Follows(d, call[d].from) => Follows(d, call[d].from)'
      <4>1. PICK a : a = call[d].from
        OBVIOUS
      <4>2. ASSUME Follows(d, a)
            PROVE  Follows(d, a)'
        <5>1. d # c
          BY <1>1, <4>1, <4>2 DEF CallOK, Follows
        <5> QED  BY <1>1, <2>2, <4>2, <5>1 DEF Follows
      <4>3. call'[d].from = a
        BY <2>2, <4>1
      <4> QED  BY <4>1, <4>2, <4>3
    <3> QED  BY <1>1, <2>2, <3>1, <3>2, <3>3 DEF CallOK
  <2>4. MemoOK'
    BY <1>1, <2>2 DEF MemoOK, Runs, TypeOK
  <2>5. flight' \in [Keys -> Flight \union {None}]
    BY <1>1, <1>3 DEF TypeOK, Flight
  <2>6. \A k \in Keys : flight'[k] # None =>
          /\ call'[flight'[k].leader].pc = "wait" /\ call'[flight'[k].leader].key = k
    <3> SUFFICES ASSUME NEW k \in Keys, flight'[k] # None
                 PROVE  /\ call'[flight'[k].leader].pc = "wait"
                        /\ call'[flight'[k].leader].key = k
      OBVIOUS
    <3>1. CASE flight'[k] = flight[k]
      BY <2>2, <3>1, LeadersWait
    <3>2. CASE flight'[k] # flight[k]
      <4>1. k = key /\ flight'[k].leader = c
        BY <1>1, <1>3, <3>2 DEF TypeOK
      <4> QED  BY <1>1, <2>2, <4>1
    <3> QED  BY <3>1, <3>2
  <2>7. TypeOK'
    BY <1>1, <2>1, <2>5, <2>6 DEF TypeOK
  <2>8. FlightsOK'
    <3>1. \A k \in Keys : flight'[k] # flight[k] => flight'[k].pc = "source"
      BY <1>1, <1>3 DEF TypeOK
    <3> QED  BY <3>1 DEF FlightsOK
  <2> QED  BY <2>3, <2>4, <2>7, <2>8
<1> QED  BY <1>2, <1>3 DEF Read

(* The computation of a key ends: everyone who waits for it is answered. *)
LEMMA EndKeeps ==
  ASSUME TypeInv, NEW k \in Keys, flight[k] # None,
         NEW pc \in {"done", "failed"}, NEW value \in Values \union {None},
         call' = Answered(Waiting(k), pc, value),
         memo' = IF pc = "failed" THEN Dropped(Waiting(k)) ELSE memo,
         flight' = [flight EXCEPT ![k] = None],
         entries' \in [Keys -> Values \union {None}],
         UNCHANGED <<asyncStore, context, source>>
  PROVE  TypeInv' /\ Settles(Waiting(k), pc, value)
<1> USE DEF TypeInv
<1>1. Settles(Waiting(k), pc, value)
  BY DEF Settles, Waiting
<1>2. call' \in [Calls -> Call] /\ CallsOK'
  BY <1>1, SettlesKeeps
<1>3. MemoOK' /\ memo' \in [Caches -> [Keys -> Calls \union {None}]]
  BY <1>1, SettlesMemo
<1>4. /\ flight' \in [Keys -> Flight \union {None}] /\ flight'[k] = None
      /\ \A j \in Keys \ {k} : flight'[j] = flight[j]
  BY DEF TypeOK
<1>5. ASSUME NEW j \in Keys, flight'[j] # None
      PROVE  /\ call'[flight'[j].leader].pc = "wait"
             /\ call'[flight'[j].leader].key = j
  <2>1. j # k /\ flight'[j] = flight[j]
    BY <1>4, <1>5
  <2>2. ~ Settled(Waiting(k), flight[j].leader)
    BY <1>5, <2>1, LeadersWait DEF Settled, Waiting
  <2> QED  BY <1>1, <1>5, <2>1, <2>2, LeadersWait, SettlesKeeps
<1>6. TypeOK'
  BY <1>2, <1>3, <1>4, <1>5 DEF TypeOK
<1>7. FlightsOK'
  BY <1>4 DEF FlightsOK
<1> QED  BY <1>1, <1>2, <1>3, <1>6, <1>7

LEMMA ReadSourceKeeps ==
  ASSUME TypeInv, NEW k \in Keys, ReadSource(k)
  PROVE  /\ TypeInv'
         /\ \E c \in Calls :
              /\ call[c].pc = "wait" /\ call[c].key = k
              /\ flight'[k] = [flight[k] EXCEPT !.pc = "write",
                   !.value = [fn |-> call[c].fn, user |-> call[c].user,
                              tenant |-> call[c].tenant, at |-> source]]
<1> USE DEF TypeInv
<1> DEFINE leader == call[flight[k].leader]
           value == [fn |-> leader.fn, user |-> leader.user,
                     tenant |-> leader.tenant, at |-> source]
<1>1. /\ flight[k] # None
      /\ flight' = [flight EXCEPT ![k].pc = "write", ![k].value = value]
      /\ UNCHANGED <<asyncStore, context, memo, call, entries, source>>
  BY DEF ReadSource
<1>2. /\ flight[k] \in Flight /\ flight[k].leader \in Calls
      /\ leader.pc = "wait" /\ leader.key = k /\ leader \in Call
  BY <1>1, LeadersWait DEF TypeOK
<1>3. value \in Values
  <2>1. leader.fn \in Functions
    BY <1>2 DEF CallsOK, CallOK
  <2>2. source \in 0 .. MaxSource
    BY DEF TypeOK
  <2> QED  BY <1>2, <2>1, <2>2 DEF Values, Call
<1> HIDE DEF value, leader
<1>4. /\ flight' \in [Keys -> Flight \union {None}]
      /\ flight'[k] = [flight[k] EXCEPT !.pc = "write", !.value = value]
      /\ \A j \in Keys \ {k} : flight'[j] = flight[j]
  <2>1. [flight[k] EXCEPT !.pc = "write", !.value = value] \in Flight
    BY <1>2, <1>3 DEF Flight
  <2> QED  BY <1>1, <2>1 DEF TypeOK
<1>5. /\ flight'[k].leader = flight[k].leader /\ flight'[k].value = value
      /\ flight'[k].pc = "write"
  BY <1>2, <1>4 DEF Flight
<1>6. TypeOK'
  BY <1>1, <1>2, <1>4, <1>5 DEF TypeOK, leader
<1>7. CallsOK' /\ MemoOK'
  BY <1>1 DEF CallsOK, CallOK, Throws, KeyOf, ScopeParts, Follows, MemoOK, Runs
<1>8. FlightsOK'
  BY <1>3, <1>4, <1>5 DEF FlightsOK
<1> QED  BY <1>2, <1>4, <1>6, <1>7, <1>8 DEF value, leader

LEMMA FlightEnds ==
  ASSUME TypeInv, NEW k \in Keys, EndFlight(k) \/ FailFlight(k)
  PROVE  TypeInv'
<1> USE DEF TypeInv
<1>1. CASE EndFlight(k)
  <2>1. /\ flight[k] # None /\ flight[k].value \in Values
        /\ entries' \in [Keys -> Values \union {None}]
    <3>1. flight[k] # None /\ flight[k].value \in Values
      BY <1>1 DEF EndFlight, FlightsOK
    <3> QED  BY <1>1, <3>1 DEF EndFlight, TypeOK
  <2>2. /\ call' = Answered(Waiting(k), "done", flight[k].value)
        /\ flight' = [flight EXCEPT ![k] = None]
        /\ UNCHANGED <<asyncStore, context, memo, source>>
    BY <1>1 DEF EndFlight
  <2> QED  BY <2>1, <2>2, EndKeeps
<1>2. CASE FailFlight(k)
  <2>1. /\ flight[k] # None /\ entries' \in [Keys -> Values \union {None}]
        /\ call' = Answered(Waiting(k), "failed", None)
        /\ memo' = Dropped(Waiting(k))
        /\ flight' = [flight EXCEPT ![k] = None]
        /\ UNCHANGED <<asyncStore, context, source>>
    BY <1>2 DEF FailFlight, TypeOK
  <2> QED  BY <2>1, EndKeeps
<1> QED  BY <1>1, <1>2

LEMMA DeleteKeeps ==
  ASSUME TypeInv, NEW c \in Calls, Delete(c)
  PROVE  TypeInv'
<1>1. entries' \in [Keys -> Values \union {None}]
  BY DEF Delete, TypeInv, TypeOK
<1> QED  BY <1>1, AnswerKeeps DEF Delete

LEMMA ContextKeeps ==
  ASSUME TypeInv, NEW x \in Contexts, NEW later \in BOOLEAN,
         WithCacheContext(x, later)
  PROVE  TypeInv'
<1> USE DEF TypeInv
<1>1. PICK outer \in Context : outer = Seen(InitOf[x].outer, later)
  BY SeenTyped, RequestsAssumption DEF WithCacheContext
<1>2. Merged(x, outer) \in Context
  BY RequestsAssumption
     DEF Merged, Inner, Context, Users, Tenants, Caches, TypeOK
<1>3. UNCHANGED <<asyncStore, memo, call, flight, entries, source>>
  BY DEF WithCacheContext
<1>4. TypeOK'
  BY <1>1, <1>2, <1>3 DEF WithCacheContext, TypeOK
<1>5. CallsOK' /\ MemoOK' /\ FlightsOK'
  BY <1>3 DEF CallsOK, CallOK, Throws, KeyOf, ScopeParts, Follows, MemoOK, Runs,
              FlightsOK
<1> QED  BY <1>4, <1>5

LEMMA SourceKeeps ==
  ASSUME TypeInv, UNCHANGED <<context, memo, call, flight, entries>>,
         asyncStore' \in BOOLEAN, source' \in 0 .. MaxSource
  PROVE  TypeInv'
BY DEF TypeInv, TypeOK, CallsOK, CallOK, Throws, KeyOf, ScopeParts, Follows,
       MemoOK, Runs, FlightsOK

LEMMA TypeNext ==
  ASSUME TypeInv, [Next]_vars
  PROVE  TypeInv'
<1>1. CASE LoadAsyncStore
  BY <1>1, SourceKeeps DEF LoadAsyncStore, TypeInv, TypeOK
<1>2. CASE Mutate
  <2>1. source' \in 0 .. MaxSource
    BY <1>2, RequestsAssumption DEF Mutate, TypeInv, TypeOK
  <2> QED  BY <1>2, <2>1, SourceKeeps DEF Mutate, TypeInv, TypeOK
<1>3. ASSUME NEW x \in Contexts, NEW later \in BOOLEAN, WithCacheContext(x, later)
      PROVE  TypeInv'
  BY <1>3, ContextKeeps
<1>4. ASSUME NEW c \in Calls, NEW f \in Functions,
             NEW x \in Contexts \union {None}, NEW later \in BOOLEAN,
             Use(c, f, x, later)
      PROVE  TypeInv'
  BY <1>4, UseKeeps
<1>5. ASSUME NEW c \in Calls, Read(c) \/ Delete(c)
      PROVE  TypeInv'
  BY <1>5, ReadKeeps, DeleteKeeps
<1>6. ASSUME NEW k \in Keys, ReadSource(k) \/ EndFlight(k) \/ FailFlight(k)
      PROVE  TypeInv'
  BY <1>6, ReadSourceKeeps, FlightEnds
<1>7. CASE UNCHANGED vars
  BY <1>7, SourceKeeps DEF vars, TypeInv, TypeOK
<1> QED  BY <1>1, <1>2, <1>3, <1>4, <1>5, <1>6, <1>7 DEF Next

LEMMA TypeInit == Init => TypeInv
<1> SUFFICES ASSUME Init
             PROVE  TypeInv
  OBVIOUS
<1>1. TypeOK
  BY RequestsAssumption DEF Init, TypeOK, Call
<1>2. CallsOK /\ MemoOK /\ FlightsOK
  BY DEF Init, CallsOK, CallOK, MemoOK, FlightsOK
<1> QED  BY <1>1, <1>2 DEF TypeInv

(* Calls, computations, entries and the memo of every request keep their   *)
(* types, and the leader of every computation waits for it: for every set  *)
(* of contexts, functions and calls.                                       *)
THEOREM TypeCorrect == Spec => []TypeOK
<1>1. Init => TypeInv
  BY TypeInit
<1>2. TypeInv /\ [Next]_vars => TypeInv'
  BY TypeNext
<1>3. TypeInv => TypeOK
  BY DEF TypeInv
<1> QED  BY <1>1, <1>2, <1>3, PTL DEF Spec

-----------------------------------------------------------------------------
(* Isolation *)

(* A value was computed for a call of this key. *)
Belongs(v, k) == v # None => KeyOf(v.fn, v) = k

ValuesOK ==
  /\ \A k \in Keys : /\ Belongs(entries[k], k)
                     /\ flight[k] # None => Belongs(flight[k].value, k)
  /\ \A c \in Calls : call[c].pc = "done" => Belongs(call[c].value, call[c].key)

(* Who settles takes a value of its own key. *)
LEMMA SettlesBelongs ==
  ASSUME TypeInv, ValuesOK, NEW S, NEW pc, NEW value, Settles(S, pc, value),
         \A c \in S : Belongs(value, call[c].key)
  PROVE  \A c \in Calls : call'[c].pc = "done" => Belongs(call'[c].value, call'[c].key)
<1> SUFFICES ASSUME NEW c \in Calls, call'[c].pc = "done"
             PROVE  Belongs(call'[c].value, call'[c].key)
  OBVIOUS
<1>1. /\ call[c] \in Call /\ CallOK(c)
      /\ IF Settled(S, c)
         THEN call'[c] = [call[c] EXCEPT !.pc = pc, !.value = value]
         ELSE call'[c] = call[c]
  BY SettlesKeeps DEF TypeInv, TypeOK, CallsOK
<1>2. CASE ~ Settled(S, c)
  BY <1>1, <1>2 DEF ValuesOK
<1>3. CASE Settled(S, c)
  <2>1. call'[c].value = value /\ call'[c].key = call[c].key
    BY <1>1, <1>3 DEF Call
  <2>2. CASE c \in S
    BY <2>1, <2>2
  <2>3. CASE c \notin S
    <3>1. call[c].pc = "memo" /\ call[c].from \in S
      BY <1>3, <2>3 DEF Settled
    <3>2. call[call[c].from].key = call[c].key
      <4>1. S \subseteq Calls /\ None \notin Calls
        BY RequestsAssumption DEF Settles
      <4>2. Follows(c, call[c].from)
        BY <1>1, <3>1, <4>1 DEF CallOK
      <4> QED  BY <4>2 DEF Follows
    <3> QED  BY <2>1, <3>1, <3>2
  <2> QED  BY <2>2, <2>3
<1> QED  BY <1>2, <1>3

LEMMA UseBelongs ==
  ASSUME TypeInv, ValuesOK, NEW c \in Calls, NEW f \in Functions,
         NEW x \in Contexts \union {None}, NEW later \in BOOLEAN,
         Use(c, f, x, later)
  PROVE  ValuesOK'
<1>1. UNCHANGED <<flight, entries>> /\ call[c].pc = "idle" /\ call[c] \in Call
  BY DEF Use, TypeInv, TypeOK
<1>2. CASE call' = [call EXCEPT ![c].pc = "failed", ![c].fn = f]
  <2>1. /\ call'[c].pc = "failed"
        /\ \A d \in Calls \ {c} : call'[d] = call[d]
    BY <1>1, <1>2 DEF TypeInv, TypeOK, Call
  <2> QED  BY <1>1, <2>1 DEF ValuesOK, Belongs, KeyOf, ScopeParts
<1>3. ASSUME NEW seen \in Context, NEW op \in {"call", "revalidate", "invalidate"},
             NEW from \in Calls, NEW next, Begins(c, f, seen, op, from, next)
      PROVE  ValuesOK'
  <2>1. /\ call'[c] = next /\ \A d \in Calls \ {c} : call'[d] = call[d]
    BY <1>1, <1>3 DEF Begins, TypeInv, TypeOK
  <2>2. next.pc = "done" => Belongs(next.value, next.key)
    <3>1. SUFFICES ASSUME next.pc = "done"
                   PROVE  Belongs(next.value, next.key)
      OBVIOUS
    <3>2. /\ seen.cache \in Caches /\ KeyOf(f, seen) \in Keys
          /\ from = memo[seen.cache][KeyOf(f, seen)] /\ from # None
          /\ next.key = KeyOf(f, seen) /\ next.value = call[from].value
          /\ call[from].pc = "done"
      BY <1>3, <3>1, KeyTyped DEF Begins, Memoized, Context
    <3>3. call[from].key = KeyOf(f, seen)
      BY <3>2 DEF TypeInv, MemoOK, Runs
    <3> QED  BY <3>2, <3>3 DEF ValuesOK
  <2> QED  BY <1>1, <2>1, <2>2 DEF ValuesOK, Belongs, KeyOf, ScopeParts
<1> QED  BY <1>2, <1>3, UseBegins

LEMMA ValuesNext ==
  ASSUME TypeInv, ValuesOK, [Next]_vars
  PROVE  ValuesOK'
<1> USE DEF TypeInv
<1>1. CASE UNCHANGED <<call, flight, entries>>
  BY <1>1 DEF ValuesOK, Belongs, KeyOf, ScopeParts
<1>2. ASSUME NEW c \in Calls, NEW f \in Functions,
             NEW x \in Contexts \union {None}, NEW later \in BOOLEAN,
             Use(c, f, x, later)
      PROVE  ValuesOK'
  BY <1>2, UseBelongs
<1>3. ASSUME NEW c \in Calls, Read(c)
      PROVE  ValuesOK'
  <2>1. call[c].pc = "read" /\ call[c].key \in Keys /\ UNCHANGED entries
    BY <1>3 DEF Read, CallsOK, CallOK
  <2>2. CASE call' = Answered({c}, "done", entries[call[c].key]) /\ UNCHANGED flight
    <3>1. Settles({c}, "done", entries[call[c].key])
      BY <2>1, <2>2 DEF Settles, TypeOK
    <3>2. Belongs(entries[call[c].key], call[c].key)
      BY <2>1 DEF ValuesOK
    <3>3. \A d \in Calls : call'[d].pc = "done" => Belongs(call'[d].value, call'[d].key)
      BY <3>1, <3>2, SettlesBelongs
    <3> QED  BY <2>1, <2>2, <3>3 DEF ValuesOK, Belongs, KeyOf, ScopeParts
  <2>3. CASE /\ call' = [call EXCEPT ![c].pc = "wait"]
             /\ flight' = IF flight[call[c].key] # None THEN flight
                          ELSE [flight EXCEPT ![call[c].key] =
                                  [pc |-> "source", leader |-> c,
                                   observed |-> entries[call[c].key], value |-> None]]
    <3>1. \A d \in Calls : call'[d].pc = "done" => call'[d] = call[d]
      <4> TAKE d \in Calls
      <4>1. call[d] \in Call
        BY DEF TypeOK
      <4> QED  BY <2>3, <4>1 DEF TypeOK, Call
    <3>2. \A k \in Keys : flight'[k] = flight[k] \/ flight'[k].value = None
      BY <2>1, <2>3 DEF TypeOK
    <3> QED  BY <2>1, <3>1, <3>2 DEF ValuesOK, Belongs, KeyOf, ScopeParts
  <2> QED  BY <1>3, <2>2, <2>3 DEF Read
<1>4. ASSUME NEW k \in Keys, ReadSource(k)
      PROVE  ValuesOK'
  <2>1. PICK c \in Calls :
          /\ call[c].pc = "wait" /\ call[c].key = k
          /\ flight'[k] = [flight[k] EXCEPT !.pc = "write",
               !.value = [fn |-> call[c].fn, user |-> call[c].user,
                          tenant |-> call[c].tenant, at |-> source]]
    BY <1>4, ReadSourceKeeps
  <2> DEFINE value == [fn |-> call[c].fn, user |-> call[c].user,
                       tenant |-> call[c].tenant, at |-> source]
  <2>2. flight'[k].value = value
    <3>1. flight[k] \in Flight
      BY <1>4 DEF ReadSource, TypeOK
    <3> QED  BY <2>1, <3>1 DEF Flight
  <2>3. KeyOf(value.fn, value) = k
    BY <2>1 DEF CallsOK, CallOK, KeyOf, ScopeParts
  <2>4. \A j \in Keys \ {k} : flight'[j] = flight[j]
    BY <1>4 DEF ReadSource, TypeOK
  <2>5. UNCHANGED <<call, entries>>
    BY <1>4 DEF ReadSource
  <2> HIDE DEF value
  <2>6. Belongs(flight'[k].value, k)
    BY <2>2, <2>3 DEF Belongs
  <2> QED  BY <2>4, <2>5, <2>6 DEF ValuesOK, Belongs, KeyOf, ScopeParts
<1>5. ASSUME NEW k \in Keys, EndFlight(k)
      PROVE  ValuesOK'
  <2>1. /\ flight[k] # None /\ flight[k].value \in Values
        /\ Belongs(flight[k].value, k)
    BY <1>5 DEF EndFlight, FlightsOK, ValuesOK
  <2>2. Settles(Waiting(k), "done", flight[k].value)
    BY <1>5, <2>1 DEF EndFlight, Settles, Waiting
  <2>3. \A c \in Calls : call'[c].pc = "done" => Belongs(call'[c].value, call'[c].key)
    BY <2>1, <2>2, SettlesBelongs DEF Waiting
  <2>4. \A j \in Keys : /\ flight'[j] \in {flight[j], None}
                        /\ entries'[j] \in {entries[j], flight[j].value}
                        /\ entries'[j] = entries[j] \/ j = k
    BY <1>5 DEF EndFlight, TypeOK
  <2> QED  BY <2>1, <2>3, <2>4 DEF ValuesOK, Belongs, KeyOf, ScopeParts
<1>6. ASSUME NEW k \in Keys, FailFlight(k)
      PROVE  ValuesOK'
  <2>1. Settles(Waiting(k), "failed", None)
    BY <1>6 DEF FailFlight, Settles, Waiting
  <2>2. \A c \in Calls : call'[c].pc = "done" => Belongs(call'[c].value, call'[c].key)
    BY <2>1, SettlesBelongs DEF Belongs
  <2>3. \A j \in Keys : flight'[j] \in {flight[j], None} /\ entries'[j] = entries[j]
    BY <1>6 DEF FailFlight, TypeOK
  <2> QED  BY <2>2, <2>3 DEF ValuesOK, Belongs, KeyOf, ScopeParts
<1>7. ASSUME NEW c \in Calls, Delete(c)
      PROVE  ValuesOK'
  <2>1. Settles({c}, "done", None)
    BY <1>7 DEF Delete, Settles
  <2>2. \A d \in Calls : call'[d].pc = "done" => Belongs(call'[d].value, call'[d].key)
    BY <2>1, SettlesBelongs DEF Belongs
  <2>3. \A j \in Keys : flight'[j] = flight[j] /\ entries'[j] \in {entries[j], None}
    BY <1>7 DEF Delete, TypeOK
  <2> QED  BY <2>2, <2>3 DEF ValuesOK, Belongs, KeyOf, ScopeParts
<1>8. CASE LoadAsyncStore \/ Mutate \/ UNCHANGED vars
  BY <1>1, <1>8 DEF LoadAsyncStore, Mutate, vars
<1>9. ASSUME NEW x \in Contexts, NEW later \in BOOLEAN, WithCacheContext(x, later)
      PROVE  ValuesOK'
  BY <1>1, <1>9 DEF WithCacheContext
<1> QED  BY <1>2, <1>3, <1>4, <1>5, <1>6, <1>7, <1>8, <1>9 DEF Next

(* A value under the key of a call was computed by its function, for its   *)
(* user and tenant unless the function has a scope of its own.             *)
LEMMA KeysIsolate ==
  ASSUME TypeInv, ValuesOK
  PROVE  ServedOwnData
<1> SUFFICES ASSUME NEW c \in Calls, call[c].pc = "done", call[c].value # None
             PROVE  LET own == call[c]
                        value == own.value
                    IN  /\ value.fn = own.fn
                        /\ FunctionOf[own.fn].scope = <<>> =>
                             /\ \/ value.user = own.user /\ value.tenant = own.tenant
                                \/ Confused(own.user, own.tenant,
                                            value.user, value.tenant)
                             /\ FunctionOf[own.fn].private =>
                                  own.user # None \/ own.tenant # None
  BY DEF ServedOwnData
<1> DEFINE own == call[c]
           value == own.value
<1>1. /\ own.key = KeyOf(own.fn, own) /\ ~ Throws(own.fn, own)
      /\ KeyOf(value.fn, value) = own.key
  BY DEF TypeInv, CallsOK, CallOK, ValuesOK, Belongs
<1>2. value.fn = own.fn
  BY <1>1 DEF KeyOf
<1>3. ScopeParts(value.fn, value) = ScopeParts(own.fn, own)
  BY <1>1 DEF KeyOf
<1>4. ASSUME FunctionOf[own.fn].scope = <<>>
      PROVE  Part(own.user) \o Part(own.tenant) = Part(value.user) \o Part(value.tenant)
  BY <1>2, <1>3, <1>4 DEF ScopeParts
<1>5. ASSUME FunctionOf[own.fn].scope = <<>>, FunctionOf[own.fn].private
      PROVE  own.user # None \/ own.tenant # None
  BY <1>1, <1>5 DEF Throws, ScopeParts, Part
<1> HIDE DEF own, value
<1>6. FunctionOf[own.fn].scope = <<>> =>
        \/ value.user = own.user /\ value.tenant = own.tenant
        \/ Confused(own.user, own.tenant, value.user, value.tenant)
  BY <1>4, PartsTold
<1> QED  BY <1>2, <1>5, <1>6 DEF own, value

(* Whatever was memoized, joined or cached by whom, in whichever context:  *)
(* a call is served what its own function computed, and, unless that has a *)
(* scope of its own, for its own user and tenant, up to the one collision  *)
(* of runtime.ts:893.  This holds of every set of contexts and functions.  *)
THEOREM UsersIsolated == Spec => []ServedOwnData
<1> DEFINE IInv == TypeInv /\ ValuesOK
<1>1. Init => IInv
  <2>1. Init => ValuesOK
    BY DEF Init, ValuesOK, Belongs
  <2> QED  BY <2>1, TypeInit
<1>2. IInv /\ [Next]_vars => IInv'
  BY TypeNext, ValuesNext
<1>3. IInv => ServedOwnData
  BY KeysIsolate
<1> QED  BY <1>1, <1>2, <1>3, PTL DEF Spec

-----------------------------------------------------------------------------
(* The memo of a request *)

(* e evicts the key k of the request m. *)
Evicts(e, m, k) ==
  /\ call[e].op # "call" /\ call[e].pc # "idle"
  /\ call[e].cache = m /\ call[e].key = k

(* What is memoized began after, or among, every eviction; a call that     *)
(* began after every eviction so far is memoized.                          *)
EvictionsKnown ==
  /\ \A c \in Calls : Evicted(c) \subseteq Calls
                      /\ \A e \in Evicted(c) : call[e].pc # "idle"
  /\ \A m \in Caches, k \in Keys : memo[m][k] # None =>
       \A e \in Calls : Evicts(e, m, k) => e \in Evicted(memo[m][k])
  /\ \A m \in Caches, k \in Keys, c \in Calls :
       /\ Runs(c, m, k) /\ call[c].pc # "failed"
       /\ \A e \in Calls : Evicts(e, m, k) => e \in Evicted(c)
       => memo[m][k] = c

(* What a step does to the calls that have begun, other than Use. *)
GoesOn ==
  /\ \A c \in Calls :
       /\ call'[c].op = call[c].op /\ call'[c].fn = call[c].fn
       /\ call'[c].user = call[c].user /\ call'[c].tenant = call[c].tenant
       /\ call'[c].cache = call[c].cache /\ call'[c].key = call[c].key
       /\ call'[c].from = call[c].from
       /\ call'[c].after = call[c].after /\ call'[c].during = call[c].during
       /\ call'[c].pc = "idle" <=> call[c].pc = "idle"
       /\ call'[c].pc # "failed" => call[c].pc # "failed"
       /\ call[c].pc \in {"done", "failed"} => call'[c] = call[c]
  /\ \A m \in Caches, k \in Keys :
       \/ memo'[m][k] = memo[m][k]
       \/ memo'[m][k] = None /\ call'[memo[m][k]].pc = "failed"

LEMMA GoesOnKeeps ==
  ASSUME TypeInv, EvictionsKnown, GoesOn
  PROVE  EvictionsKnown'
<1>1. \A c \in Calls : Evicted(c)' = Evicted(c)
  BY DEF GoesOn, Evicted
<1>2. \A m, k : \A e \in Calls : Evicts(e, m, k)' <=> Evicts(e, m, k)
  BY DEF GoesOn, Evicts
<1>3. \A m, k : \A c \in Calls : Runs(c, m, k)' <=> Runs(c, m, k)
  BY DEF GoesOn, Runs
<1>4. \A c \in Calls : /\ Evicted(c)' \subseteq Calls
                       /\ \A e \in Evicted(c)' : call'[e].pc # "idle"
  BY <1>1 DEF EvictionsKnown, GoesOn
<1>5. ASSUME NEW m \in Caches, NEW k \in Keys, memo'[m][k] # None,
             NEW e \in Calls, Evicts(e, m, k)'
      PROVE  e \in Evicted(memo[m][k])'
  <2>1. memo'[m][k] = memo[m][k] /\ memo[m][k] \in Calls
    BY <1>5 DEF GoesOn, TypeInv, TypeOK
  <2>2. e \in Evicted(memo[m][k])
    BY <1>2, <1>5, <2>1 DEF EvictionsKnown
  <2>3. PICK a \in Calls : a = memo[m][k]
    BY <2>1
  <2>4. e \in Evicted(a)'
    BY <1>1, <2>2, <2>3
  <2> QED  BY <2>1, <2>3, <2>4
<1>6. ASSUME NEW m \in Caches, NEW k \in Keys, NEW c \in Calls,
             Runs(c, m, k)', call'[c].pc # "failed",
             \A e \in Calls : Evicts(e, m, k)' => e \in Evicted(c)'
      PROVE  memo'[m][k] = c
  <2>1. memo[m][k] = c
    BY <1>1, <1>2, <1>3, <1>6 DEF EvictionsKnown, GoesOn
  <2> QED  BY <1>6, <2>1 DEF GoesOn
<1> QED  BY <1>4, <1>5, <1>6 DEF EvictionsKnown

LEMMA SettlesGoesOn ==
  ASSUME TypeInv, NEW S, NEW pc, NEW value, Settles(S, pc, value),
         memo' = IF pc = "failed" THEN Dropped(S) ELSE memo
  PROVE  GoesOn
<1>1. ASSUME NEW c \in Calls
      PROVE  /\ call[c] \in Call
             /\ IF Settled(S, c)
                THEN call'[c] = [call[c] EXCEPT !.pc = pc, !.value = value]
                ELSE call'[c] = call[c]
  BY SettlesKeeps DEF TypeInv, TypeOK
<1>2. ASSUME NEW c \in Calls
      PROVE  /\ call'[c].op = call[c].op /\ call'[c].fn = call[c].fn
             /\ call'[c].user = call[c].user /\ call'[c].tenant = call[c].tenant
             /\ call'[c].cache = call[c].cache /\ call'[c].key = call[c].key
             /\ call'[c].from = call[c].from
             /\ call'[c].after = call[c].after /\ call'[c].during = call[c].during
             /\ call'[c].pc = "idle" <=> call[c].pc = "idle"
             /\ call'[c].pc # "failed" => call[c].pc # "failed"
             /\ call[c].pc \in {"done", "failed"} => call'[c] = call[c]
             /\ c \in S => call'[c].pc = pc
  <2>1. Settled(S, c) => call[c].pc \in {"read", "wait", "delete", "memo"}
    BY DEF Settled, Settles
  <2>2. pc \in {"done", "failed"}
    BY DEF Settles
  <2>3. CASE Settled(S, c)
    BY <1>1, <2>1, <2>2, <2>3 DEF Call
  <2>4. CASE ~ Settled(S, c)
    BY <1>1, <2>4 DEF Settled
  <2> QED  BY <2>3, <2>4
<1>3. ASSUME NEW m \in Caches, NEW k \in Keys, memo'[m][k] # memo[m][k]
      PROVE  memo'[m][k] = None /\ call'[memo[m][k]].pc = "failed"
  <2>1. pc = "failed" /\ memo[m][k] \in S /\ memo'[m][k] = None
    BY <1>3 DEF Dropped
  <2> QED  BY <1>2, <2>1 DEF Settles
<1> QED  BY <1>2, <1>3 DEF GoesOn

LEMMA ReadGoesOn ==
  ASSUME TypeInv, NEW c \in Calls, Read(c)
  PROVE  GoesOn
<1> USE DEF TypeInv
<1>1. call[c].pc = "read" /\ call[c].key \in Keys /\ UNCHANGED memo
  BY DEF Read, CallsOK, CallOK
<1>2. CASE call' = Answered({c}, "done", entries[call[c].key])
  <2>1. Settles({c}, "done", entries[call[c].key])
    BY <1>1, <1>2 DEF Settles, TypeOK
  <2> QED  BY <1>1, <2>1, SettlesGoesOn
<1>3. CASE call' = [call EXCEPT ![c].pc = "wait"]
  <2>1. ASSUME NEW d \in Calls
        PROVE  /\ call'[d].op = call[d].op /\ call'[d].fn = call[d].fn
               /\ call'[d].user = call[d].user /\ call'[d].tenant = call[d].tenant
               /\ call'[d].cache = call[d].cache /\ call'[d].key = call[d].key
               /\ call'[d].from = call[d].from
               /\ call'[d].after = call[d].after
               /\ call'[d].during = call[d].during
               /\ call'[d].pc = "idle" <=> call[d].pc = "idle"
               /\ call'[d].pc # "failed" => call[d].pc # "failed"
               /\ call[d].pc \in {"done", "failed"} => call'[d] = call[d]
    <3>1. call[d] \in Call
      BY DEF TypeOK
    <3>2. CASE d = c
      BY <1>1, <1>3, <3>1, <3>2 DEF TypeOK, Call
    <3>3. CASE d # c
      BY <1>3, <3>3 DEF TypeOK
    <3> QED  BY <3>2, <3>3
  <2> QED  BY <1>1, <2>1 DEF GoesOn
<1> QED  BY <1>2, <1>3 DEF Read

(* Every step but Use lets calls go on. *)
LEMMA NextGoesOn ==
  ASSUME TypeInv, [Next]_vars,
         ~ \E c \in Calls, f \in Functions, x \in Contexts \union {None},
              later \in BOOLEAN : Use(c, f, x, later)
  PROVE  GoesOn
<1> USE DEF TypeInv
<1>1. CASE UNCHANGED <<call, memo>>
  BY <1>1 DEF GoesOn
<1>2. ASSUME NEW c \in Calls, Read(c)
      PROVE  GoesOn
  BY <1>2, ReadGoesOn
<1>3. ASSUME NEW k \in Keys, EndFlight(k)
      PROVE  GoesOn
  <2>1. Settles(Waiting(k), "done", flight[k].value) /\ UNCHANGED memo
    BY <1>3 DEF EndFlight, Settles, Waiting, FlightsOK
  <2> QED  BY <2>1, SettlesGoesOn
<1>4. ASSUME NEW k \in Keys, FailFlight(k)
      PROVE  GoesOn
  <2>1. Settles(Waiting(k), "failed", None) /\ memo' = Dropped(Waiting(k))
    BY <1>4 DEF FailFlight, Settles, Waiting
  <2> QED  BY <2>1, SettlesGoesOn
<1>5. ASSUME NEW c \in Calls, Delete(c)
      PROVE  GoesOn
  <2>1. Settles({c}, "done", None) /\ UNCHANGED memo
    BY <1>5 DEF Delete, Settles
  <2> QED  BY <2>1, SettlesGoesOn
<1> QED  BY <1>1, <1>2, <1>3, <1>4, <1>5
         DEF Next, LoadAsyncStore, Mutate, WithCacheContext, ReadSource, vars

(* A call that begins takes the place of nobody's promise in the memo, and *)
(* an eviction takes away only what it can be told from later.             *)
LEMMA UseEvicts ==
  ASSUME TypeInv, EvictionsKnown, NEW c \in Calls, NEW f \in Functions,
         NEW x \in Contexts \union {None}, NEW later \in BOOLEAN,
         Use(c, f, x, later)
  PROVE  EvictionsKnown'
<1> USE DEF TypeInv
<1>1. /\ call[c].pc = "idle" /\ call[c] \in Call /\ CallOK(c) /\ call[c].from = None
      /\ \A m \in Caches, k \in Keys : memo[m][k] # c
      /\ \A m, k : ~ Evicts(c, m, k)
      /\ \A d \in Calls : c \notin Evicted(d)
  <2>1. /\ call[c].pc = "idle" /\ call[c] \in Call /\ CallOK(c)
    BY DEF Use, TypeOK, CallsOK
  <2>2. call[c].from = None
    BY <2>1 DEF CallOK
  <2>3. \A m \in Caches, k \in Keys : memo[m][k] # c
    <3>1. ASSUME NEW m \in Caches, NEW k \in Keys, memo[m][k] = c
          PROVE  FALSE
      <4>1. c # None
        BY RequestsAssumption
      <4> QED  BY <2>1, <3>1, <4>1 DEF MemoOK
    <3> QED  BY <3>1
  <2>4. \A m, k : ~ Evicts(c, m, k)
    BY <2>1 DEF Evicts
  <2>5. \A d \in Calls : c \notin Evicted(d)
    BY <2>1 DEF EvictionsKnown
  <2> QED  BY <2>1, <2>2, <2>3, <2>4, <2>5
<1>2. None \notin Calls /\ None \notin Caches
  BY RequestsAssumption DEF Caches
<1>3. CASE /\ call' = [call EXCEPT ![c].pc = "failed", ![c].fn = f]
           /\ memo' = memo
  <2>1. /\ call'[c].pc = "failed" /\ call'[c].op = "call" /\ call'[c].from = None
        /\ call'[c].after = call[c].after /\ call'[c].during = call[c].during
        /\ \A d \in Calls \ {c} : call'[d] = call[d]
    BY <1>1, <1>3 DEF TypeOK, Call, CallOK
  <2>2. \A d \in Calls : Evicted(d)' = Evicted(d)
    BY <2>1 DEF Evicted
  <2>3. \A m, k : \A e \in Calls : Evicts(e, m, k)' <=> Evicts(e, m, k)
    BY <1>1, <2>1 DEF Evicts
  <2>4. \A m, k : \A d \in Calls : Runs(d, m, k)' => d # c /\ Runs(d, m, k)
    BY <1>2, <2>1 DEF Runs
  <2>5. \A d \in Calls : /\ Evicted(d)' \subseteq Calls
                         /\ \A e \in Evicted(d)' : call'[e].pc # "idle"
    BY <2>1, <2>2 DEF EvictionsKnown
  <2>6. ASSUME NEW m \in Caches, NEW k \in Keys, memo'[m][k] # None,
               NEW e \in Calls, Evicts(e, m, k)'
        PROVE  e \in Evicted(memo[m][k])'
    <3>1. PICK a \in Calls : a = memo[m][k] /\ a = memo'[m][k]
      BY <1>3, <2>6 DEF TypeOK
    <3>2. e \in Evicted(a)
      BY <2>3, <2>6, <3>1 DEF EvictionsKnown
    <3>3. e \in Evicted(a)'
      BY <2>2, <3>2
    <3> QED  BY <3>1, <3>3
  <2>7. ASSUME NEW m \in Caches, NEW k \in Keys, NEW d \in Calls,
               Runs(d, m, k)', call'[d].pc # "failed",
               \A e \in Calls : Evicts(e, m, k)' => e \in Evicted(d)'
        PROVE  memo'[m][k] = d
    BY <1>3, <2>1, <2>2, <2>3, <2>4, <2>7 DEF EvictionsKnown
  <2> QED  BY <2>5, <2>6, <2>7 DEF EvictionsKnown
<1>4. ASSUME NEW seen \in Context, NEW op \in {"call", "revalidate", "invalidate"},
             NEW from \in Calls, NEW next, Begins(c, f, seen, op, from, next)
      PROVE  EvictionsKnown'
  <2> DEFINE key == KeyOf(f, seen)
  <2>1. /\ key \in Keys /\ next \in Call
        /\ call'[c] = next /\ \A d \in Calls \ {c} : call'[d] = call[d]
        /\ next.op = op /\ next.fn = f /\ next.cache = seen.cache /\ next.key = key
        /\ next.from = from /\ next.pc # "idle"
        /\ next.after = Evictions(seen.cache, key, {"done", "failed"})
        /\ next.during = Evictions(seen.cache, key, {"read", "wait", "delete"})
    BY <1>4, KeyTyped DEF Begins, TypeOK
  <2>2. \A d \in Calls \ {c} : Evicted(d)' = Evicted(d)
    BY <2>1 DEF Evicted
  <2>3. \A m, k : \A e \in Calls \ {c} : Evicts(e, m, k)' <=> Evicts(e, m, k)
    BY <2>1 DEF Evicts
  <2>4. \A m, k : \A d \in Calls \ {c} : Runs(d, m, k)' <=> Runs(d, m, k)
    BY <2>1 DEF Runs
  <2>5. Evicted(c)' \subseteq {e \in Calls : call[e].pc # "idle"}
    BY <2>1 DEF Evicted, Evictions
  <2>6. seen.cache # None =>
          \A e \in Calls : Evicts(e, seen.cache, key) => e \in Evicted(c)'
    <3>1. SUFFICES ASSUME seen.cache # None, NEW e \in Calls,
                          Evicts(e, seen.cache, key)
                   PROVE  e \in Evicted(c)'
      OBVIOUS
    <3>2. call[e].pc # "memo"
      <4>1. call[e].pc = "memo" => Follows(e, call[e].from)
        BY DEF CallsOK, CallOK
      <4> QED  BY <3>1, <4>1 DEF Evicts, Follows
    <3>3. call[e].pc \in {"read", "wait", "delete", "done", "failed"}
      BY <3>1, <3>2 DEF Evicts, TypeOK, Call
    <3>4. e \in next.after \/ e \in next.during
      BY <2>1, <3>1, <3>3 DEF Evicts, Evictions
    <3> QED  BY <2>1, <3>4 DEF Evicted
  <2>7. \A d \in Calls : /\ Evicted(d)' \subseteq Calls
                         /\ \A e \in Evicted(d)' : call'[e].pc # "idle"
    <3> TAKE d \in Calls
    <3>1. Evicted(d)' \subseteq {e \in Calls : call[e].pc # "idle"}
      BY <2>2, <2>5 DEF EvictionsKnown
    <3> QED  BY <1>1, <2>1, <3>1
  <2>8. Evicts(c, seen.cache, key)' <=> op # "call"
    BY <2>1 DEF Evicts
  <2>9. \A m, k : Evicts(c, m, k)' => m = seen.cache /\ k = key
    BY <2>1 DEF Evicts
  <2>10. /\ op = "call" /\ from = c =>
              IF Memoized(f, seen)
              THEN /\ seen.cache \in Caches /\ memo[seen.cache][key] = None
                   /\ memo' = [memo EXCEPT ![seen.cache][key] = c]
              ELSE memo' = memo
         /\ op = "call" /\ from # c => memo' = memo
         /\ op # "call" => memo' = Evict(seen.cache, key)
    BY <1>4 DEF Begins, Memoized, Context
  <2> HIDE DEF key
  <2>11. ASSUME NEW m \in Caches, NEW k \in Keys, memo'[m][k] # None,
                NEW e \in Calls, Evicts(e, m, k)'
         PROVE  e \in Evicted(memo[m][k])'
    <3>1. CASE memo'[m][k] = c
      <4>1. op = "call" /\ m = seen.cache /\ k = key
        BY <1>1, <1>2, <2>10, <3>1 DEF Evict, TypeOK
      <4>2. e # c
        BY <2>8, <2>11, <4>1
      <4>3. e \in Evicted(c)'
        BY <1>2, <2>3, <2>6, <2>11, <4>1, <4>2
      <4> QED  BY <3>1, <4>3
    <3>2. CASE memo'[m][k] # c
      <4>1. memo'[m][k] = memo[m][k]
        BY <2>1, <2>10, <2>11, <3>2 DEF Evict, TypeOK
      <4>2. PICK a \in Calls \ {c} : a = memo[m][k] /\ a = memo'[m][k]
        BY <2>11, <3>2, <4>1 DEF TypeOK
      <4>3. e # c
        <5>1. SUFFICES ASSUME e = c
                       PROVE  FALSE
          OBVIOUS
        <5>2. op # "call" /\ m = seen.cache /\ k = key
          BY <2>8, <2>9, <2>11, <5>1
        <5> QED  BY <1>2, <2>10, <2>11, <5>2 DEF Evict, TypeOK
      <4>4. e \in Evicted(a)
        BY <2>3, <2>11, <4>2, <4>3 DEF EvictionsKnown
      <4>5. e \in Evicted(a)'
        BY <2>2, <4>2, <4>4
      <4> QED  BY <4>2, <4>5
    <3> QED  BY <3>1, <3>2
  <2>12. ASSUME NEW m \in Caches, NEW k \in Keys, NEW d \in Calls,
                Runs(d, m, k)', call'[d].pc # "failed",
                \A e \in Calls : Evicts(e, m, k)' => e \in Evicted(d)'
         PROVE  memo'[m][k] = d
    <3>1. CASE d = c
      <4>1. /\ op = "call" /\ seen.cache = m /\ key = k /\ from = c
            /\ Memoized(f, seen)
        BY <1>2, <2>1, <2>12, <3>1 DEF Runs, Memoized
      <4> QED  BY <2>10, <3>1, <4>1 DEF TypeOK
    <3>2. CASE d # c
      <4>1. \A e \in Calls : Evicts(e, m, k) => e \in Evicted(d)
        BY <1>1, <2>2, <2>3, <2>12, <3>2
      <4>2. memo[m][k] = d
        BY <2>1, <2>4, <2>12, <3>2, <4>1 DEF EvictionsKnown
      <4>3. op # "call" => ~ (m = seen.cache /\ k = key)
        <5>1. SUFFICES ASSUME op # "call", m = seen.cache, k = key
                       PROVE  FALSE
          OBVIOUS
        <5>2. c \in Evicted(d)
          BY <2>2, <2>8, <2>12, <3>2, <5>1
        <5> QED  BY <1>1, <5>2
      <4>4. memo'[m][k] = memo[m][k]
        BY <1>2, <2>10, <4>2, <4>3 DEF Evict, TypeOK
      <4> QED  BY <4>2, <4>4
    <3> QED  BY <3>1, <3>2
  <2> QED  BY <2>7, <2>11, <2>12 DEF EvictionsKnown
<1> QED  BY <1>3, <1>4, UseBegins

LEMMA EvictionsNext ==
  ASSUME TypeInv, EvictionsKnown, [Next]_vars
  PROVE  EvictionsKnown'
<1>1. CASE \E c \in Calls, f \in Functions, x \in Contexts \union {None},
              later \in BOOLEAN : Use(c, f, x, later)
  BY <1>1, UseEvicts
<1>2. CASE ~ \E c \in Calls, f \in Functions, x \in Contexts \union {None},
                later \in BOOLEAN : Use(c, f, x, later)
  BY <1>2, NextGoesOn, GoesOnKeeps
<1> QED  BY <1>1, <1>2

LEMMA EvictionsInit == Init => EvictionsKnown
<1> SUFFICES ASSUME Init
             PROVE  EvictionsKnown
  OBVIOUS
<1>1. \A c \in Calls : call[c].from = None /\ call[c].pc = "idle" /\ Evicted(c) = {}
  BY DEF Init, Evicted
<1>2. \A m \in Caches, k \in Keys : memo[m][k] = None
  BY DEF Init
<1>3. None \notin Calls
  BY RequestsAssumption
<1> QED  BY <1>1, <1>2, <1>3 DEF EvictionsKnown, Runs

(* A request resolves a key once and keeps its promise until an eviction   *)
(* of the key; what failed never stays and takes no other promise with it: *)
(* for every number of calls, functions and nested contexts.               *)
THEOREM MemoCorrect == Spec => []MemoExact
<1> DEFINE IInv == TypeInv /\ EvictionsKnown
<1>1. Init => IInv
  BY TypeInit, EvictionsInit
<1>2. IInv /\ [Next]_vars => IInv'
  BY TypeNext, EvictionsNext
<1>3. IInv => MemoExact
  BY DEF TypeInv, MemoOK, EvictionsKnown, Evicts, MemoExact
<1> QED  BY <1>1, <1>2, <1>3, PTL DEF Spec

-----------------------------------------------------------------------------
(* What a call after a revalidation sees *)

Answers(k) ==
  {c \in Calls : /\ call[c].pc = "done" /\ call[c].op # "invalidate"
                 /\ call[c].key = k}

(* Whatever a key was answered with is no newer than its entry, than what  *)
(* a computation has read for it, and than the source.                     *)
AnswersOld ==
  \A k \in Keys : \A c \in Answers(k) :
    /\ call[c].value \in Values /\ call[c].value.at <= source
    /\ entries[k] # None => call[c].value.at <= entries[k].at
    /\ flight[k] # None /\ flight[k].pc = "write" =>
         call[c].value.at <= flight[k].value.at

(* Nothing but the computation writes its entry: it meets what it observed *)
(* or, after a deletion, nothing.                                          *)
EntriesOld ==
  \A k \in Keys :
    /\ entries[k] # None => entries[k].at <= source
    /\ flight[k] # None => entries[k] \in {None, flight[k].observed}
    /\ flight[k] # None /\ flight[k].pc = "write" =>
         /\ flight[k].value.at <= source
         /\ entries[k] # None => entries[k].at <= flight[k].value.at

(* A call that computed or read its answer after a revalidation had        *)
(* resolved has one that is no older; one that was answered by another     *)
(* call knows no eviction that call did not know.                          *)
AfterOK ==
  \A c \in Calls :
    /\ \A r \in call[c].after : /\ r \in Calls /\ call[r].key = call[c].key
                                /\ call[r].pc \in {"done", "failed"}
    /\ call[c].from = c /\ call[c].op = "call" /\ call[c].pc = "done" =>
         \A r \in call[c].after :
           call[r].op = "revalidate" /\ call[r].pc = "done" =>
             call[r].value.at <= call[c].value.at
    /\ call[c].from \notin {None, c} => call[c].after \subseteq Evicted(call[c].from)

LEMMA AfterKept ==
  ASSUME TypeInv, AfterOK, GoesOn,
         \A c \in Calls : \A r \in Answers(call[c].key) :
           call[c].from = c /\ call'[c].pc = "done" /\ call[c].pc # "done" =>
             call[r].value.at <= call'[c].value.at
  PROVE  AfterOK'
<1> SUFFICES ASSUME NEW c \in Calls
             PROVE  /\ \A r \in call'[c].after : /\ r \in Calls
                         /\ call'[r].key = call'[c].key
                         /\ call'[r].pc \in {"done", "failed"}
                    /\ call'[c].from = c /\ call'[c].op = "call"
                         /\ call'[c].pc = "done" =>
                         \A r \in call'[c].after :
                           call'[r].op = "revalidate" /\ call'[r].pc = "done" =>
                             call'[r].value.at <= call'[c].value.at
                    /\ call'[c].from \notin {None, c} =>
                         call'[c].after \subseteq Evicted(call[c].from)'
  BY DEF AfterOK
<1>1. /\ call'[c].after = call[c].after /\ call'[c].key = call[c].key
      /\ call'[c].from = call[c].from /\ call'[c].op = call[c].op
      /\ call[c].pc = "done" => call'[c] = call[c]
  BY DEF GoesOn
<1>2. \A r \in call[c].after : /\ r \in Calls /\ call[r].key = call[c].key
                               /\ call[r].pc \in {"done", "failed"}
                               /\ call'[r] = call[r]
  BY DEF AfterOK, GoesOn
<1>3. ASSUME call[c].from = c, call[c].op = "call", call'[c].pc = "done",
             NEW r \in call[c].after, call[r].op = "revalidate", call[r].pc = "done"
      PROVE  call[r].value.at <= call'[c].value.at
  <2>1. CASE call[c].pc = "done"
    BY <1>1, <1>3, <2>1 DEF AfterOK
  <2>2. CASE call[c].pc # "done"
    <3>1. r \in Answers(call[c].key)
      BY <1>2, <1>3 DEF Answers
    <3> QED  BY <1>3, <2>2, <3>1
  <2> QED  BY <2>1, <2>2
<1>4. ASSUME call[c].from \notin {None, c}
      PROVE  call[c].after \subseteq Evicted(call[c].from)'
  <2>1. PICK a \in Calls : a = call[c].from
    BY <1>4 DEF TypeInv, TypeOK, Call
  <2>2. Evicted(a)' = Evicted(a) /\ call'[c].from = a
    BY <1>1, <2>1 DEF GoesOn, Evicted
  <2> QED  BY <1>4, <2>1, <2>2 DEF AfterOK
<1> QED  BY <1>1, <1>2, <1>3, <1>4

FreshInv == AnswersOld /\ EntriesOld /\ AfterOK

(* A value that settles some calls of a key, and is no older than what the *)
(* key was answered with before.                                           *)
LEMMA SettlesFresh ==
  ASSUME TypeInv, FreshInv, NEW k \in Keys, NEW S, NEW value \in Values,
         Settles(S, "done", value), UNCHANGED memo,
         \A c \in S : call[c].key = k /\ call[c].op # "invalidate",
         \A c \in Answers(k) : call[c].value.at <= value.at
  PROVE  /\ AfterOK'
         /\ \A j \in Keys : \A c \in Answers(j)' :
              \/ c \in Answers(j) /\ call'[c].value = call[c].value
              \/ j = k /\ call'[c].value = value
<1>1. GoesOn
  BY SettlesGoesOn
<1>2. ASSUME NEW c \in Calls
      PROVE  /\ call[c] \in Call /\ CallOK(c)
             /\ IF Settled(S, c)
                THEN call'[c] = [call[c] EXCEPT !.pc = "done", !.value = value]
                ELSE call'[c] = call[c]
  BY SettlesKeeps DEF TypeInv, TypeOK, CallsOK
<1>3. \A c \in Calls : Settled(S, c) => /\ call[c].key = k
                                        /\ call'[c].value = value
  <2> SUFFICES ASSUME NEW c \in Calls, Settled(S, c)
               PROVE  call[c].key = k /\ call'[c].value = value
    OBVIOUS
  <2>1. call'[c].value = value
    BY <1>2 DEF Call
  <2>2. c \notin S => Follows(c, call[c].from) /\ call[c].from \in S
    BY <1>2 DEF Settled, CallOK
  <2>3. call[c].key = k
    BY <2>2 DEF Follows
  <2> QED  BY <2>1, <2>3
<1>4. \A c \in Calls : ~ Settled(S, c) => call'[c] = call[c]
  BY <1>2
<1>5. \A c \in Calls : \A r \in Answers(call[c].key) :
        call[c].from = c /\ call'[c].pc = "done" /\ call[c].pc # "done" =>
          call[r].value.at <= call'[c].value.at
  <2> SUFFICES ASSUME NEW c \in Calls, NEW r \in Answers(call[c].key),
                      call'[c].pc = "done", call[c].pc # "done"
               PROVE  call[r].value.at <= call'[c].value.at
    OBVIOUS
  <2>1. Settled(S, c)
    BY <1>4
  <2> QED  BY <1>3, <2>1
<1>6. AfterOK'
  BY <1>1, <1>5, AfterKept DEF FreshInv
<1>7. ASSUME NEW j \in Keys, NEW c \in Answers(j)'
      PROVE  \/ c \in Answers(j) /\ call'[c].value = call[c].value
             \/ j = k /\ call'[c].value = value
  <2>1. c \in Calls /\ call'[c].pc = "done" /\ call'[c].op # "invalidate"
        /\ call'[c].key = j /\ call[c].key = j /\ call[c].op = call'[c].op
    BY <1>1, <1>7 DEF Answers, GoesOn
  <2> QED  BY <1>3, <1>4, <2>1 DEF Answers
<1> QED  BY <1>6, <1>7

LEMMA UseFresh ==
  ASSUME TypeInv, EvictionsKnown, FreshInv, NEW c \in Calls, NEW f \in Functions,
         NEW x \in Contexts \union {None}, NEW later \in BOOLEAN,
         Use(c, f, x, later)
  PROVE  FreshInv'
<1> USE DEF TypeInv, FreshInv
<1>1. /\ UNCHANGED <<flight, entries, source>> /\ call[c].pc = "idle"
      /\ call[c] \in Call /\ call[c].from = None
  BY DEF Use, TypeOK, CallsOK, CallOK
<1>2. EntriesOld'
  BY <1>1 DEF EntriesOld
<1>3. CASE call' = [call EXCEPT ![c].pc = "failed", ![c].fn = f]
  <2>1. /\ call'[c].pc = "failed" /\ call'[c].from = None
        /\ call'[c].after = call[c].after /\ call'[c].key = call[c].key
        /\ \A d \in Calls \ {c} : call'[d] = call[d]
    BY <1>1, <1>3 DEF TypeOK, Call
  <2>2. AnswersOld'
    BY <1>1, <2>1 DEF AnswersOld, Answers
  <2>3. AfterOK'
    <3>1. ASSUME NEW d \in Calls
          PROVE  /\ call'[d].from = call[d].from /\ call'[d].after = call[d].after
                 /\ call'[d].key = call[d].key
                 /\ call'[d].pc = "done" => call'[d] = call[d]
                 /\ Evicted(d)' = Evicted(d)
      <4>1. call'[d].during = call[d].during
        BY <1>1, <1>3 DEF TypeOK, Call
      <4> QED  BY <1>1, <2>1, <4>1 DEF Evicted
    <3>2. \A d \in Calls : \A r \in call[d].after : r # c /\ r \in Calls
      BY <1>1 DEF AfterOK
    <3>3. \A d \in Calls : call[d].from \notin {None, d} =>
            call[d].after \subseteq Evicted(call[d].from)'
      <4> SUFFICES ASSUME NEW d \in Calls, call[d].from \notin {None, d}
                   PROVE  call[d].after \subseteq Evicted(call[d].from)'
        OBVIOUS
      <4>1. PICK a \in Calls : a = call[d].from
        BY DEF TypeOK, Call
      <4>2. call'[d].from = a /\ Evicted(a)' = Evicted(a)
        BY <3>1, <4>1
      <4> QED  BY <4>1, <4>2 DEF AfterOK
    <3> QED  BY <2>1, <3>1, <3>2, <3>3 DEF AfterOK
  <2> QED  BY <1>2, <2>2, <2>3
<1>4. ASSUME NEW seen \in Context, NEW op \in {"call", "revalidate", "invalidate"},
             NEW from \in Calls, NEW next, Begins(c, f, seen, op, from, next)
      PROVE  FreshInv'
  <2> DEFINE key == KeyOf(f, seen)
  <2>1. /\ key \in Keys /\ next \in Call
        /\ call'[c] = next /\ \A d \in Calls \ {c} : call'[d] = call[d]
        /\ next.op = op /\ next.cache = seen.cache /\ next.key = key
        /\ next.from = from
        /\ next.after = Evictions(seen.cache, key, {"done", "failed"})
        /\ from = c => next.pc # "done"
    BY <1>4, KeyTyped DEF Begins, TypeOK
  <2>2. from # c =>
          /\ seen.cache \in Caches /\ from = memo[seen.cache][key] /\ from # None
          /\ next.value = call[from].value
          /\ next.pc = "done" => call[from].pc = "done"
          /\ call[from].op = "call" /\ call[from].key = key
    <3>1. from # c =>
            /\ seen.cache \in Caches /\ from = memo[seen.cache][key] /\ from # None
            /\ next.value = call[from].value
            /\ next.pc = "done" => call[from].pc = "done"
      BY <1>4 DEF Begins, Memoized, Context
    <3> QED  BY <2>1, <3>1 DEF MemoOK, Runs
  <2> HIDE DEF key
  <2>3. AnswersOld'
    <3> SUFFICES ASSUME NEW k \in Keys, NEW d \in Answers(k)'
                 PROVE  /\ call'[d].value \in Values /\ call'[d].value.at <= source
                        /\ entries[k] # None => call'[d].value.at <= entries[k].at
                        /\ flight[k] # None /\ flight[k].pc = "write" =>
                             call'[d].value.at <= flight[k].value.at
      BY <1>1 DEF AnswersOld
    <3>1. PICK a \in Answers(k) : call'[d].value = call[a].value
      <4>1. CASE d = c
        <5>1. from # c /\ next.pc = "done" /\ key = k
          BY <2>1, <4>1 DEF Answers
        <5>2. from \in Answers(k)
          BY <2>2, <5>1 DEF Answers
        <5> QED  BY <2>1, <2>2, <4>1, <5>1, <5>2
      <4>2. CASE d # c
        <5>1. d \in Calls \ {c}
          BY <4>2 DEF Answers
        <5> QED  BY <2>1, <5>1 DEF Answers
      <4> QED  BY <4>1, <4>2
    <3> QED  BY <3>1 DEF AnswersOld
  <2>4. AfterOK'
    <3> SUFFICES ASSUME NEW d \in Calls
                 PROVE  /\ \A r \in call'[d].after : /\ r \in Calls
                             /\ call'[r].key = call'[d].key
                             /\ call'[r].pc \in {"done", "failed"}
                        /\ call'[d].from = d /\ call'[d].op = "call"
                             /\ call'[d].pc = "done" =>
                             \A r \in call'[d].after :
                               call'[r].op = "revalidate" /\ call'[r].pc = "done" =>
                                 call'[r].value.at <= call'[d].value.at
                        /\ call'[d].from \notin {None, d} =>
                             call'[d].after \subseteq Evicted(call[d].from)'
      BY DEF AfterOK
    <3>1. CASE d # c
      <4>1. call'[d] = call[d]
        BY <2>1, <3>1
      <4>2. \A r \in call[d].after : /\ r \in Calls /\ call'[r] = call[r]
                                     /\ call[r].key = call[d].key
                                     /\ call[r].pc \in {"done", "failed"}
        BY <1>1, <2>1 DEF AfterOK
      <4>3. call[d].from \notin {None, d} =>
              call[d].after \subseteq Evicted(call[d].from)'
        <5>1. SUFFICES ASSUME call[d].from \notin {None, d}
                       PROVE  call[d].after \subseteq Evicted(call[d].from)'
          OBVIOUS
        <5>2. PICK a \in Calls : a = call[d].from
          BY <5>1 DEF TypeOK, Call
        <5>3. a # c
          <6>1. Follows(d, a)
            BY <5>1, <5>2 DEF CallsOK, CallOK
          <6> QED  BY <1>1, <6>1 DEF Follows
        <5>4. Evicted(a)' = Evicted(a) /\ call'[d].from = a
          BY <2>1, <4>1, <5>2, <5>3 DEF Evicted
        <5> QED  BY <5>1, <5>2, <5>4 DEF AfterOK
      <4> QED  BY <4>1, <4>2, <4>3 DEF AfterOK
    <3>2. CASE d = c
      <4>1. \A r \in next.after : /\ r \in Calls \ {c} /\ call'[r] = call[r]
                                  /\ call[r].key = key
                                  /\ call[r].pc \in {"done", "failed"}
                                  /\ Evicts(r, seen.cache, key)
        BY <1>1, <2>1 DEF Evictions, Evicts
      <4>2. from # c => next.after \subseteq Evicted(from)'
        <5>1. SUFFICES ASSUME from # c, NEW r \in next.after
                       PROVE  r \in Evicted(from)'
          OBVIOUS
        <5>2. r \in Evicted(from)
          BY <2>1, <2>2, <4>1, <5>1 DEF EvictionsKnown
        <5> QED  BY <2>1, <5>1, <5>2 DEF Evicted
      <4>3. call'[d].from = from
        BY <2>1, <3>2
      <4>4. call'[d].from # d => call'[d].after \subseteq Evicted(call[d].from)'
        BY <2>1, <3>2, <4>2, <4>3
      <4> QED  BY <2>1, <3>2, <4>1, <4>4
    <3> QED  BY <3>1, <3>2
  <2> QED  BY <1>2, <2>3, <2>4
<1> QED  BY <1>3, <1>4, UseBegins

LEMMA ReadFresh ==
  ASSUME TypeInv, FreshInv, NEW c \in Calls, Read(c)
  PROVE  FreshInv'
<1> USE DEF TypeInv, FreshInv
<1> DEFINE key == call[c].key
<1>1. /\ call[c].pc = "read" /\ key \in Keys /\ call[c] \in Call
      /\ call[c].from = c /\ call[c].op # "invalidate"
      /\ UNCHANGED <<memo, entries, source>>
  BY DEF Read, CallsOK, CallOK, TypeOK
<1>2. CASE /\ entries[key] # None
           /\ call' = Answered({c}, "done", entries[key]) /\ UNCHANGED flight
  <2> DEFINE value == entries[key]
  <2>1. value \in Values /\ Settles({c}, "done", value)
    BY <1>1, <1>2 DEF Settles, TypeOK
  <2>2. \A d \in Answers(key) : call[d].value.at <= value.at
    BY <1>1, <1>2 DEF AnswersOld
  <2> HIDE DEF key, value
  <2>3. /\ AfterOK'
        /\ \A j \in Keys : \A d \in Answers(j)' :
             \/ d \in Answers(j) /\ call'[d].value = call[d].value
             \/ j = key /\ call'[d].value = value
    BY <1>1, <2>1, <2>2, SettlesFresh DEF key
  <2>4. EntriesOld'
    BY <1>1, <1>2 DEF EntriesOld
  <2>5. /\ value.at <= source
        /\ flight[key] # None /\ flight[key].pc = "write" =>
             value.at <= flight[key].value.at
        /\ value.at \in Int
    <3>1. value.at \in Int
      BY <2>1, RequestsAssumption DEF Values
    <3> QED  BY <1>1, <1>2, <3>1 DEF EntriesOld, value, key
  <2>6. AnswersOld'
    <3> SUFFICES ASSUME NEW j \in Keys, NEW d \in Answers(j)'
                 PROVE  /\ call'[d].value \in Values /\ call'[d].value.at <= source
                        /\ entries[j] # None => call'[d].value.at <= entries[j].at
                        /\ flight[j] # None /\ flight[j].pc = "write" =>
                             call'[d].value.at <= flight[j].value.at
      BY <1>1, <1>2 DEF AnswersOld
    <3>1. CASE d \in Answers(j) /\ call'[d].value = call[d].value
      BY <3>1 DEF AnswersOld
    <3>2. CASE j = key /\ call'[d].value = value
      BY <2>1, <2>5, <3>2 DEF value, key
    <3> QED  BY <2>3, <3>1, <3>2
  <2> QED  BY <2>3, <2>4, <2>6
<1>3. CASE /\ call' = [call EXCEPT ![c].pc = "wait"]
           /\ flight' = IF flight[key] # None THEN flight
                        ELSE [flight EXCEPT ![key] =
                                [pc |-> "source", leader |-> c,
                                 observed |-> entries[key], value |-> None]]
  <2>1. /\ call'[c].pc = "wait"
        /\ \A d \in Calls \ {c} : call'[d] = call[d]
    BY <1>1, <1>3 DEF TypeOK, Call
  <2>2. \A k \in Keys :
          \/ flight'[k] = flight[k]
          \/ flight'[k].pc = "source" /\ flight'[k].observed = entries[k]
    BY <1>1, <1>3 DEF TypeOK
  <2>3. EntriesOld'
    BY <1>1, <2>2 DEF EntriesOld
  <2>4. AnswersOld'
    <3>1. \A k \in Keys : \A d \in Answers(k)' : d \in Answers(k) /\ call'[d] = call[d]
      BY <2>1 DEF Answers
    <3> QED  BY <1>1, <2>2, <3>1 DEF AnswersOld
  <2>5. AfterOK'
    <3>1. GoesOn
      BY ReadGoesOn
    <3>2. \A d \in Calls : call'[d].pc = "done" => call[d].pc = "done"
      BY <2>1
    <3> QED  BY <3>1, <3>2, AfterKept
  <2> QED  BY <2>3, <2>4, <2>5
<1> QED  BY <1>2, <1>3 DEF Read

LEMMA ReadSourceFresh ==
  ASSUME TypeInv, FreshInv, NEW k \in Keys, ReadSource(k)
  PROVE  FreshInv'
<1> USE DEF TypeInv, FreshInv
<1>1. /\ flight[k] # None /\ flight[k] \in Flight
      /\ UNCHANGED <<memo, call, entries, source>>
      /\ source \in Int
  BY RequestsAssumption DEF ReadSource, TypeOK
<1>2. PICK value : value.at = source
                   /\ flight'[k] = [flight[k] EXCEPT !.pc = "write", !.value = value]
  <2>1. PICK c \in Calls :
          flight'[k] = [flight[k] EXCEPT !.pc = "write",
            !.value = [fn |-> call[c].fn, user |-> call[c].user,
                       tenant |-> call[c].tenant, at |-> source]]
    BY ReadSourceKeeps
  <2> QED  BY <2>1
<1>3. flight'[k].observed = flight[k].observed /\ flight'[k].value = value
  BY <1>1, <1>2 DEF Flight
<1>4. \A j \in Keys \ {k} : flight'[j] = flight[j]
  BY DEF ReadSource, TypeOK
<1>5. EntriesOld'
  <2> SUFFICES ASSUME NEW j \in Keys
               PROVE  /\ entries[j] # None => entries[j].at <= source
                      /\ flight'[j] # None => entries[j] \in {None, flight'[j].observed}
                      /\ flight'[j] # None /\ flight'[j].pc = "write" =>
                           /\ flight'[j].value.at <= source
                           /\ entries[j] # None => entries[j].at <= flight'[j].value.at
    BY <1>1 DEF EntriesOld
  <2>1. CASE j = k
    <3>1. /\ entries[k] # None => entries[k].at <= source
          /\ entries[k] \in {None, flight[k].observed}
      BY <1>1 DEF EntriesOld
    <3>2. flight'[k].value.at = source /\ source <= source
      BY <1>1, <1>2, <1>3
    <3> QED  BY <1>3, <2>1, <3>1, <3>2
  <2>2. CASE j # k
    BY <1>4, <2>2 DEF EntriesOld
  <2> QED  BY <2>1, <2>2
<1>6. AnswersOld'
  BY <1>1, <1>2, <1>3, <1>4 DEF AnswersOld, Answers
<1>7. AfterOK'
  BY <1>1 DEF AfterOK, Evicted
<1> QED  BY <1>5, <1>6, <1>7

LEMMA EndFresh ==
  ASSUME TypeInv, FreshInv, NEW k \in Keys, EndFlight(k)
  PROVE  FreshInv'
<1> USE DEF TypeInv, FreshInv
<1> DEFINE value == flight[k].value
<1>1. /\ flight[k] # None /\ flight[k].pc = "write" /\ value \in Values
      /\ UNCHANGED <<memo, source>>
  BY DEF EndFlight, FlightsOK
<1>2. Settles(Waiting(k), "done", value)
  BY <1>1 DEF EndFlight, Settles, Waiting
<1>3. \A c \in Answers(k) : call[c].value.at <= value.at
  BY <1>1 DEF AnswersOld
<1>4. \A c \in Waiting(k) : call[c].key = k /\ call[c].op # "invalidate"
  BY DEF Waiting, CallsOK, CallOK
<1>5. /\ \A j \in Keys \ {k} : flight'[j] = flight[j] /\ entries'[j] = entries[j]
      /\ flight'[k] = None /\ entries'[k] \in {value, None}
  <2>1. entries[k] \in {None, flight[k].observed}
    BY <1>1 DEF EntriesOld
  <2> QED  BY <2>1 DEF EndFlight, TypeOK
<1>6. value.at <= source /\ value.at \in Int
  <2>1. value.at \in Int
    BY <1>1, RequestsAssumption DEF Values
  <2> QED  BY <1>1, <2>1 DEF EntriesOld
<1> HIDE DEF value
<1>7. /\ AfterOK'
      /\ \A j \in Keys : \A c \in Answers(j)' :
           \/ c \in Answers(j) /\ call'[c].value = call[c].value
           \/ j = k /\ call'[c].value = value
  BY <1>1, <1>2, <1>3, <1>4, SettlesFresh
<1>8. EntriesOld'
  BY <1>1, <1>5, <1>6 DEF EntriesOld
<1>9. AnswersOld'
  <2> SUFFICES ASSUME NEW j \in Keys, NEW c \in Answers(j)'
               PROVE  /\ call'[c].value \in Values /\ call'[c].value.at <= source
                      /\ entries'[j] # None => call'[c].value.at <= entries'[j].at
                      /\ flight'[j] # None /\ flight'[j].pc = "write" =>
                           call'[c].value.at <= flight'[j].value.at
    BY <1>1 DEF AnswersOld
  <2>1. CASE c \in Answers(j) /\ call'[c].value = call[c].value
    <3>1. CASE j = k
      BY <1>3, <1>5, <2>1, <3>1 DEF AnswersOld
    <3>2. CASE j # k
      BY <1>5, <2>1, <3>2 DEF AnswersOld
    <3> QED  BY <3>1, <3>2
  <2>2. CASE j = k /\ call'[c].value = value
    BY <1>1, <1>5, <1>6, <2>2
  <2> QED  BY <1>7, <2>1, <2>2
<1> QED  BY <1>7, <1>8, <1>9

LEMMA FreshNext ==
  ASSUME TypeInv, EvictionsKnown, FreshInv, [Next]_vars
  PROVE  FreshInv'
<1> USE DEF TypeInv, FreshInv
<1>1. CASE UNCHANGED <<call, flight, entries, source>>
  BY <1>1 DEF AnswersOld, EntriesOld, AfterOK, Answers, Evicted
<1>2. CASE Mutate
  <2>1. /\ UNCHANGED <<call, flight, entries>> /\ source \in Int
        /\ source' = source + 1
    BY <1>2, RequestsAssumption DEF Mutate, TypeOK
  <2>2. AfterOK'
    BY <2>1 DEF AfterOK, Evicted
  <2>3. \A v \in Values : v.at <= source => v.at <= source'
    BY <2>1, RequestsAssumption DEF Values
  <2>4. AnswersOld'
    BY <2>1, <2>3 DEF AnswersOld, Answers
  <2>5. EntriesOld'
    <3>1. \A k \in Keys : /\ entries[k] # None => entries[k] \in Values
                          /\ flight[k] # None /\ flight[k].pc = "write" =>
                               flight[k].value \in Values
      BY DEF TypeOK, FlightsOK
    <3> QED  BY <2>1, <2>3, <3>1 DEF EntriesOld
  <2> QED  BY <2>2, <2>4, <2>5
<1>3. ASSUME NEW c \in Calls, NEW f \in Functions,
             NEW x \in Contexts \union {None}, NEW later \in BOOLEAN,
             Use(c, f, x, later)
      PROVE  FreshInv'
  BY <1>3, UseFresh
<1>4. ASSUME NEW c \in Calls, Read(c)
      PROVE  FreshInv'
  BY <1>4, ReadFresh
<1>5. ASSUME NEW k \in Keys, ReadSource(k) \/ EndFlight(k)
      PROVE  FreshInv'
  BY <1>5, ReadSourceFresh, EndFresh
<1>6. ASSUME NEW k \in Keys, FailFlight(k)
      PROVE  FreshInv'
  <2>1. /\ Settles(Waiting(k), "failed", None)
        /\ memo' = IF "failed" = "failed" THEN Dropped(Waiting(k)) ELSE memo
        /\ UNCHANGED <<entries, source>>
        /\ \A j \in Keys : flight'[j] \in {flight[j], None}
    BY <1>6 DEF FailFlight, Settles, Waiting, TypeOK
  <2>2. GoesOn
    BY <2>1, SettlesGoesOn
  <2>3. \A c \in Calls : call'[c].pc = "done" => call[c].pc = "done" /\ call'[c] = call[c]
    <3> SUFFICES ASSUME NEW c \in Calls, call'[c].pc = "done"
                 PROVE  call[c].pc = "done" /\ call'[c] = call[c]
      OBVIOUS
    <3>1. /\ call[c] \in Call
          /\ IF Settled(Waiting(k), c)
             THEN call'[c] = [call[c] EXCEPT !.pc = "failed", !.value = None]
             ELSE call'[c] = call[c]
      BY <2>1, SettlesKeeps DEF TypeOK
    <3>2. ~ Settled(Waiting(k), c)
      BY <3>1 DEF Call
    <3> QED  BY <3>1, <3>2
  <2>4. AfterOK'
    BY <2>2, <2>3, AfterKept
  <2>5. \A j \in Keys : \A c \in Answers(j)' : c \in Answers(j) /\ call'[c] = call[c]
    BY <2>3 DEF Answers
  <2>6. AnswersOld' /\ EntriesOld'
    BY <2>1, <2>5 DEF AnswersOld, EntriesOld
  <2> QED  BY <2>4, <2>6
<1>7. ASSUME NEW c \in Calls, Delete(c)
      PROVE  FreshInv'
  <2>1. /\ Settles({c}, "done", None) /\ call[c].op = "invalidate"
        /\ UNCHANGED <<memo, flight, source>>
        /\ \A j \in Keys : entries'[j] \in {entries[j], None}
    BY <1>7 DEF Delete, Settles, CallsOK, CallOK, TypeOK
  <2>2. GoesOn
    BY <2>1, SettlesGoesOn
  <2>3. \A d \in Calls \ {c} : call'[d] = call[d]
    <3> SUFFICES ASSUME NEW d \in Calls \ {c}
                 PROVE  call'[d] = call[d]
      OBVIOUS
    <3>1. ~ Settled({c}, d)
      <4>1. call[d].pc = "memo" => call[d].from # None /\ Follows(d, call[d].from)
        BY DEF CallsOK, CallOK
      <4> QED  BY <2>1, <4>1 DEF Settled, Follows
    <3> QED  BY <2>1, <3>1, SettlesKeeps
  <2>4. call'[c].op = "invalidate"
    BY <2>1, <2>2 DEF GoesOn
  <2>5. \A j \in Keys : \A d \in Answers(j)' : d \in Answers(j) /\ call'[d] = call[d]
    BY <2>3, <2>4 DEF Answers
  <2>6. AnswersOld' /\ EntriesOld'
    BY <2>1, <2>5 DEF AnswersOld, EntriesOld
  <2>7. AfterOK'
    <3> SUFFICES ASSUME NEW d \in Calls
                 PROVE  /\ \A r \in call'[d].after : /\ r \in Calls
                             /\ call'[r].key = call'[d].key
                             /\ call'[r].pc \in {"done", "failed"}
                        /\ call'[d].from = d /\ call'[d].op = "call"
                             /\ call'[d].pc = "done" =>
                             \A r \in call'[d].after :
                               call'[r].op = "revalidate" /\ call'[r].pc = "done" =>
                                 call'[r].value.at <= call'[d].value.at
                        /\ call'[d].from \notin {None, d} =>
                             call'[d].after \subseteq Evicted(call[d].from)'
      BY DEF AfterOK
    <3>1. /\ call'[d].after = call[d].after /\ call'[d].key = call[d].key
          /\ call'[d].from = call[d].from /\ call'[d].op = call[d].op
          /\ call'[d].op = "call" => call'[d] = call[d]
      BY <2>2, <2>3, <2>4 DEF GoesOn
    <3>2. \A r \in call[d].after : /\ r \in Calls /\ call'[r] = call[r]
                                   /\ call[r].key = call[d].key
                                   /\ call[r].pc \in {"done", "failed"}
      BY <2>2 DEF AfterOK, GoesOn
    <3>3. call[d].from \notin {None, d} =>
            call[d].after \subseteq Evicted(call[d].from)'
      <4>1. SUFFICES ASSUME call[d].from \notin {None, d}
                     PROVE  call[d].after \subseteq Evicted(call[d].from)'
        OBVIOUS
      <4>2. PICK a \in Calls : a = call[d].from
        BY <4>1 DEF TypeOK, Call
      <4>3. Evicted(a)' = Evicted(a) /\ call'[d].from = a
        BY <2>2, <3>1, <4>2 DEF GoesOn, Evicted
      <4> QED  BY <4>1, <4>2, <4>3 DEF AfterOK
    <3> QED  BY <3>1, <3>2, <3>3 DEF AfterOK
  <2> QED  BY <2>6, <2>7
<1>8. CASE LoadAsyncStore \/ UNCHANGED vars
  BY <1>1, <1>8 DEF LoadAsyncStore, vars
<1>9. ASSUME NEW x \in Contexts, NEW later \in BOOLEAN, WithCacheContext(x, later)
      PROVE  FreshInv'
  BY <1>1, <1>9 DEF WithCacheContext
<1> QED  BY <1>2, <1>3, <1>4, <1>5, <1>6, <1>7, <1>8, <1>9 DEF Next

LEMMA FreshInit == Init => FreshInv
<1> SUFFICES ASSUME Init
             PROVE  FreshInv
  OBVIOUS
<1>1. \A c \in Calls : /\ call[c].pc = "idle" /\ call[c].from = None
                       /\ call[c].after = {}
  BY DEF Init
<1>2. \A k \in Keys : entries[k] = None /\ flight[k] = None /\ Answers(k) = {}
  BY <1>1 DEF Init, Answers
<1>3. None \notin Calls
  BY RequestsAssumption
<1> QED  BY <1>1, <1>2, <1>3 DEF FreshInv, AnswersOld, EntriesOld, AfterOK

(* A call that began after a revalidation of its key in its request had    *)
(* resolved is answered by a promise that knows of that revalidation, with *)
(* a value that is no older, unless the promise began while it was under   *)
(* way: for every number of calls, contexts and changes of the source.     *)
THEOREM RevalidationsSeen == Spec => []RevalidateSeen
<1> DEFINE IInv == TypeInv /\ EvictionsKnown /\ FreshInv
<1>1. Init => IInv
  BY TypeInit, EvictionsInit, FreshInit
<1>2. IInv /\ [Next]_vars => IInv'
  BY TypeNext, EvictionsNext, FreshNext
<1>3. IInv => RevalidateSeen
  <2> SUFFICES ASSUME IInv, NEW c \in Calls, NEW r \in call[c].after,
                      call[c].op = "call", call[c].pc = "done",
                      call[r].op = "revalidate", call[r].pc = "done"
               PROVE  \/ r \in call[call[c].from].during
                      \/ /\ r \in call[call[c].from].after
                         /\ call[c].value.at >= call[r].value.at
    BY DEF RevalidateSeen
  <2>1. /\ r \in Calls /\ call[r].key = call[c].key /\ CallOK(c) /\ CallOK(r)
        /\ call[c].from \in Calls /\ call[c].from # None
    <3>1. r \in Calls /\ call[r].key = call[c].key
      BY DEF FreshInv, AfterOK
    <3>2. CallOK(c) /\ CallOK(r)
      BY <3>1 DEF TypeInv, CallsOK
    <3> QED  BY <3>1, <3>2, RequestsAssumption DEF CallOK
  <2>2. call[c].key \in Keys /\ r \in Answers(call[c].key)
    BY <2>1 DEF CallOK, Answers
  <2>3. call[r].value.at \in Int /\ call[c].value.at \in Int
    <3>1. c \in Answers(call[c].key)
      BY <2>1 DEF Answers
    <3>2. call[r].value \in Values /\ call[c].value \in Values
      BY <2>2, <3>1 DEF FreshInv, AnswersOld
    <3> QED  BY <3>2, RequestsAssumption DEF Values
  <2>4. CASE call[c].from = c
    <3>1. call[r].value.at <= call[c].value.at
      BY <2>4 DEF FreshInv, AfterOK
    <3> QED  BY <2>3, <2>4, <3>1
  <2>5. CASE call[c].from # c
    <3> DEFINE a == call[c].from
    <3>1. Follows(c, a) /\ r \in Evicted(a)
      BY <2>1, <2>5 DEF CallOK, FreshInv, AfterOK
    <3>2. CASE r \in call[a].during
      BY <3>2
    <3>3. CASE r \in call[a].after
      <4>1. /\ call[a].from = a /\ call[a].op = "call" /\ call[a].pc = "done"
            /\ call[a].value = call[c].value
        BY <3>1 DEF Follows
      <4>2. call[r].value.at <= call[a].value.at
        BY <2>1, <3>3, <4>1 DEF FreshInv, AfterOK
      <4> QED  BY <2>3, <3>3, <4>1, <4>2
    <3> QED  BY <3>1, <3>2, <3>3 DEF Evicted
  <2> QED  BY <2>4, <2>5
<1> QED  BY <1>1, <1>2, <1>3, PTL DEF Spec
=============================================================================
