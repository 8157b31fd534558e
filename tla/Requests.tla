------------------------------ MODULE Requests ------------------------------
(***************************************************************************)
(* Requests of one server process: the transaction the handler opens for   *)
(* each, the answer it keeps under the request's idempotency key, and the  *)
(* pool of connections they share (src/core/http/handler.ts,               *)
(* src/core/db/http-repo.ts, src/core/db/client.ts).                       *)
(*                                                                         *)
(* A client that got no answer may send the request again under its key,   *)
(* while the first one still runs or a day later.                          *)
(*                                                                         *)
(* A handler waits for two things while it holds its connection: rows and  *)
(* advisory locks that other transactions hold, and a second connection.   *)
(* A login, a recovery and the setup run a transaction of their own in it, *)
(* and whoever reads the models reads them through the pool: the start of  *)
(* an AI job of a note does so while it holds the note's row.              *)
(***************************************************************************)
EXTENDS Integers, Sequences, FiniteSets

CONSTANTS
  Slot,   \* requests that run at the same time
  Key,    \* idempotency keys, each with its user
  Body,   \* what a request asks for, up to its hash
  None,
  Pool,   \* DB_POOL_MAX
  Lock,   \* rows and advisory locks that handlers take
  Plan,   \* what handlers wait for, in order
  Keyed   \* the plans of handlers that take an idempotency key

Step == Lock \cup {"nest", "unnest"}

ASSUME PoolAssumption == Pool \in Nat /\ Pool >= 2
ASSUME BodyAssumption == Body # {}
ASSUME SlotAssumption == IsFiniteSet(Slot)

\* A handler that locks in an inner transaction locks nowhere else, one thing in each.
ASSUME PlanAssumption ==
  /\ Keyed \subseteq Plan /\ Plan \subseteq Seq(Step) /\ {"nest", "unnest"} \cap Lock = {}
  /\ \A p \in Plan :
       \/ \A i \in DOMAIN p : p[i] = "nest" => i < Len(p) /\ p[i + 1] = "unnest"
       \/ \A i \in DOMAIN p : p[i] \in Lock =>
            1 < i /\ i < Len(p) /\ p[i - 1] = "nest" /\ p[i + 1] = "unnest"

VARIABLES
  call,    \* the requests
  stored,  \* idempotency_keys: the answer kept under each key
  effects, \* history: what was done under a key since its last answer expired
  told     \* history: what clients were told is done, since then

vars == <<call, stored, effects, told>>

Stage == {"idle", "arrived", "begun", "working"}

\* `todo` is what is left of the plan, `nested` whether a second connection is held, and the
\* locks are those of the handler's transaction and of the inner one.
Call == [at: Stage, key: Key \cup {None}, body: Body, todo: Seq(Step), nested: BOOLEAN,
         outer: SUBSET Lock, inner: SUBSET Lock]

Row == [body: Body, fresh: BOOLEAN]

ASSUME NullAssumption == None \notin Key /\ None \notin Row

TypeOK ==
  /\ call \in [Slot -> Call]
  /\ stored \in [Key -> Row \cup {None}]
  /\ effects \in [Key -> Seq(Body)]
  /\ told \in [Key -> SUBSET Body]

NoCall == [at |-> "idle", key |-> None, body |-> CHOOSE b \in Body : TRUE, todo |-> <<>>,
           nested |-> FALSE, outer |-> {}, inner |-> {}]

Init ==
  /\ call = [s \in Slot |-> NoCall]
  /\ stored = [k \in Key |-> None]
  /\ effects = [k \in Key |-> <<>>]
  /\ told = [k \in Key |-> {}]

-----------------------------------------------------------------------------
(* What handlers of this program wait for: a bulk request its rows, in the *)
(* order of its input, and                                                 *)

\* login takes 7233, setup the workspace's row; a recovery does one after the other.
LoginPlan(lock) == <<"nest", lock, "unnest">>

\* startNoteAi: the models, the note, the models again, and 7234 to enqueue.  The reads of the
\* models that follow one another count as one.
GeneratePlan(note, queue) == <<"nest", "unnest", note, "nest", "unnest", queue>>

-----------------------------------------------------------------------------
At(s, stage) == call[s].at = stage

GoTo(s, stage) == call' = [call EXCEPT ![s].at = stage]

\* The handler's transaction is open.
Open == {s \in Slot : call[s].at \notin {"idle", "arrived"}}

\* Connections held: a request inside a second transaction or read holds two.
Held == Cardinality(Open) + Cardinality({s \in Slot : call[s].nested})

\* Past lockRequest: the advisory lock of its key is held until the transaction ends.
Admitted == {s \in Slot : At(s, "working")}

\* Mutant of Locked: a request takes its key as soon as its transaction is open.
LockedByOpen(k) == \E s \in Open : call[s].key = k

Locked(k) == \E s \in Admitted : call[s].key = k

Holds(s) == call[s].outer \cup call[s].inner

Wants(s, step) == At(s, "working") /\ call[s].todo # <<>> /\ Head(call[s].todo) = step

Taken(s, lock) == \E t \in Slot \ {s} : lock \in Holds(t)

\* One lock has one holder, so that t waits for no other than u.
WaitsOn(t, u) == t # u /\ \E lock \in Lock : Wants(t, lock) /\ lock \in Holds(u)

\* The request is in a ring of requests, or one of several, that wait for locks of each other.
Deadlocked(s) ==
  \E ring \in SUBSET Slot :
    /\ s \in ring
    /\ \A t \in ring : (\E u \in ring : WaitsOn(t, u)) /\ (\E u \in ring : WaitsOn(u, t))

\* The answer of the last 24 hours.
Fresh(k) == stored[k] # None /\ stored[k].fresh

\* The transaction ends, the answer leaves and its client sees it or not.
End(s) == call' = [call EXCEPT ![s] = NoCall]

-----------------------------------------------------------------------------
\* A first request or a repeated one.  A careless client may use one key for two bodies.  None is
\* no key, or one that no other request has: what it asks for is then of no account.
Send(s, plan, k, b) ==
  /\ At(s, "idle")
  /\ IF k = None THEN b = NoCall.body ELSE plan \in Keyed
  /\ call' = [call EXCEPT ![s] = [NoCall EXCEPT !.at = "arrived", !.key = k, !.body = b,
                                               !.todo = plan]]
  /\ UNCHANGED <<stored, effects, told>>

\* db().transaction: waits for a connection.
Connect(s) ==
  /\ At(s, "arrived")
  /\ Held < Pool
  /\ GoTo(s, "begun")
  /\ UNCHANGED <<stored, effects, told>>

\* Mutant of LockRequest: the stored answer is looked up before the lock.
LookUpOnly(s) ==
  LET k == call[s].key IN
  /\ At(s, "begun")
  /\ IF k # None /\ Fresh(k)
     THEN /\ End(s)
          /\ told' = IF stored[k].body = call[s].body THEN [told EXCEPT ![k] = @ \cup {call[s].body}]
                     ELSE told
     ELSE GoTo(s, "working") /\ UNCHANGED told
  /\ UNCHANGED <<stored, effects>>

\* Mutant of LockRequest: whatever is kept under the key is the answer.
ReplayAnything(s) ==
  LET k == call[s].key IN
  /\ At(s, "begun")
  /\ k # None => ~ Locked(k)
  /\ IF k # None /\ Fresh(k)
     THEN End(s) /\ told' = [told EXCEPT ![k] = @ \cup {call[s].body}]
     ELSE GoTo(s, "working") /\ UNCHANGED told
  /\ UNCHANGED <<stored, effects>>

\* lockRequest waits for the key; replayRequest then answers with what is kept, or refuses another
\* body (conflict, duplicate).
LockRequest(s) ==
  LET k == call[s].key IN
  /\ At(s, "begun")
  /\ k # None => ~ Locked(k)
  /\ IF k # None /\ Fresh(k)
     THEN /\ End(s)
          /\ told' = IF stored[k].body = call[s].body THEN [told EXCEPT ![k] = @ \cup {call[s].body}]
                     ELSE told
     ELSE GoTo(s, "working") /\ UNCHANGED told
  /\ UNCHANGED <<stored, effects>>

\* The route's handler, one wait at a time.  A lock is kept until its transaction ends.
Take(s, lock) ==
  /\ Wants(s, lock)
  /\ ~ Taken(s, lock)
  /\ call' = [call EXCEPT ![s].todo = Tail(@),
                          ![s].outer = IF call[s].nested THEN @ ELSE @ \cup {lock},
                          ![s].inner = IF call[s].nested THEN @ \cup {lock} ELSE @]
  /\ UNCHANGED <<stored, effects, told>>

\* db(), inside the handler's transaction.
Nest(s) ==
  /\ Wants(s, "nest")
  /\ Held < Pool
  /\ call' = [call EXCEPT ![s].todo = Tail(@), ![s].nested = TRUE]
  /\ UNCHANGED <<stored, effects, told>>

\* The inner transaction commits, or the read is done.
Unnest(s) ==
  /\ Wants(s, "unnest")
  /\ call' = [call EXCEPT ![s].todo = Tail(@), ![s].nested = FALSE, ![s].inner = {}]
  /\ UNCHANGED <<stored, effects, told>>

\* storeRequest and the commit, together with the work itself; then the answer.
Commit(s) ==
  LET k == call[s].key  b == call[s].body IN
  /\ At(s, "working") /\ call[s].todo = <<>>
  /\ End(s)
  /\ IF k = None THEN UNCHANGED <<stored, effects, told>>
     ELSE /\ stored' = [stored EXCEPT ![k] = [body |-> b, fresh |-> TRUE]]
          /\ effects' = [effects EXCEPT ![k] = Append(@, b)]
          /\ told' = [told EXCEPT ![k] = @ \cup {b}]

\* The handler throws, or what it returns fails its schema: rolled back, answered with an error.
\* What a handler does before it waits is not apart from the wait, so it may throw there as well.
Fail(s) ==
  /\ At(s, "working")
  /\ End(s)
  /\ UNCHANGED <<stored, effects, told>>

\* PostgreSQL ends a transaction of a ring.  Of connections it knows nothing, and of keys
\* there is no ring: whoever waits for one holds nothing.
BreakDeadlock(s) ==
  /\ Deadlocked(s)
  /\ End(s)
  /\ UNCHANGED <<stored, effects, told>>

-----------------------------------------------------------------------------
\* Twenty-four hours after the answer was kept.
Expire(k) ==
  /\ Fresh(k)
  /\ stored' = [stored EXCEPT ![k].fresh = FALSE]
  /\ effects' = [effects EXCEPT ![k] = <<>>]
  /\ told' = [told EXCEPT ![k] = {}]
  /\ UNCHANGED call

\* prune, of the scheduled cleanup.
Prune ==
  /\ \E k \in Key : stored[k] # None /\ ~ stored[k].fresh
  /\ stored' = [k \in Key |-> IF Fresh(k) THEN stored[k] ELSE None]
  /\ UNCHANGED <<call, effects, told>>

\* The process dies: every transaction that did not commit is rolled back.
Crash ==
  /\ \E s \in Slot : ~ At(s, "idle")
  /\ call' = [s \in Slot |-> NoCall]
  /\ UNCHANGED <<stored, effects, told>>

Serve(s) ==
  \/ Connect(s) \/ LockRequest(s) \/ Nest(s) \/ Unnest(s) \/ Commit(s) \/ BreakDeadlock(s)
  \/ \E lock \in Lock : Take(s, lock)

Client(s) == \E plan \in Plan, k \in Key \cup {None}, b \in Body : Send(s, plan, k, b)

Next ==
  \/ \E s \in Slot : Client(s) \/ Serve(s) \/ Fail(s)
  \/ \E k \in Key : Expire(k)
  \/ Prune \/ Crash

\* The pool and PostgreSQL's locks serve who waits in turn, so that a request that could go on again
\* and again does.  No handler has to throw.
Fairness == \A s \in Slot : SF_vars(Serve(s))

Spec == Init /\ [][Next]_vars /\ Fairness

-----------------------------------------------------------------------------
(* Properties                                                              *)

\* What is asked under one key is done at most once in the time its answer is kept, however often
\* the request is repeated, also while the first one runs or after a crash.
EffectOncePerKey == \A k \in Key : Len(effects[k]) <= 1

\* A client is told that its request is done only if what it asked, and nothing else, was done under
\* its key: never on the strength of another body's answer.
AnswersAreTrue == \A k \in Key : \A b \in told[k] : effects[k] = <<b>>

WaitsForKey(s) == At(s, "begun") /\ call[s].key # None /\ Locked(call[s].key)

WaitsForLock(s) == ~ Deadlocked(s) /\ \E lock \in Lock : Wants(s, lock) /\ Taken(s, lock)

\* No connection is left, and whoever holds one waits: for a second one, or for a key or a lock of
\* another that waits.  PostgreSQL sees no deadlock, and no wait for a connection has a timeout.
Jammed ==
  /\ Held >= Pool
  /\ \A s \in Open : Wants(s, "nest") \/ WaitsForKey(s) \/ WaitsForLock(s)

\* Every request ends, unless requests that nest, with those that wait for what they hold, take up
\* all connections: no other combination of requests, locks, keys and repetitions stops the server.
EveryRequestEnds == \A s \in Slot : ~ At(s, "idle") ~> At(s, "idle") \/ Jammed
=============================================================================
