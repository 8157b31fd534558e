--------------------------- MODULE RequestsProofs ---------------------------
(***************************************************************************)
(* What the handler and its idempotency keys promise, for any number of    *)
(* requests, keys, bodies, locks and connections, and for handlers that    *)
(* wait for whatever they like.                                            *)
(*                                                                         *)
(* That an effect happens once is not inductive: it rests on the lock of a *)
(* key having one holder, and on no answer being kept while it is held.    *)
(***************************************************************************)
EXTENDS Requests, TLAPS, FiniteSetTheorems, WellFoundedInduction

\* The advisory lock of a key has at most one holder.
KeyHeldOnce ==
  \A s, t \in Admitted : call[s].key \in Key /\ call[s].key = call[t].key => s = t

\* Whoever passed the replay of its key found no answer, and none appears until it ends.
HeldKeyUnanswered == \A s \in Admitted : call[s].key \in Key => ~ Fresh(call[s].key)

\* The answer kept is that of the one effect, and clients were told nothing else.
HistoryIsKept ==
  \A k \in Key :
    /\ Fresh(k) => effects[k] = <<stored[k].body>> /\ told[k] \subseteq {stored[k].body}
    /\ ~ Fresh(k) => effects[k] = <<>> /\ told[k] = {}

\* Only a request at work holds locks or a second connection.
Bare(c) == c.outer = {} /\ c.inner = {} /\ ~ c.nested

HoldersWork == \A s \in Slot \ Admitted : Bare(call[s])

IInv == TypeOK /\ KeyHeldOnce /\ HeldKeyUnanswered /\ HistoryIsKept /\ HoldersWork

LEMMA NoCallType ==
  NoCall \in Call /\ NoCall.at = "idle" /\ Bare(NoCall)
<1>1. NoCall.body \in Body /\ <<>> \in Seq(Step)
  BY BodyAssumption DEF NoCall
<1> QED
  BY <1>1 DEF NoCall, Call, Stage, Bare

LEMMA InitInv == Init => IInv
<1> SUFFICES ASSUME Init PROVE IInv
  OBVIOUS
<1>1. TypeOK
  BY NoCallType DEF Init, TypeOK
<1>2. Admitted = {} /\ HoldersWork
  BY NoCallType DEF Init, Admitted, At, HoldersWork
<1>3. HistoryIsKept
  BY DEF Init, HistoryIsKept, Fresh
<1> QED
  BY <1>1, <1>2, <1>3 DEF IInv, KeyHeldOnce, HeldKeyUnanswered

\* A call that ends, or moves without passing the lock of its key, admits nobody.
LEMMA NobodyAdmitted ==
  ASSUME IInv, NEW s \in Slot, NEW c \in Call,
         call' = [call EXCEPT ![s] = c],
         c.at = "working" => s \in Admitted /\ c.key = call[s].key,
         c.at # "working" => Bare(c)
  PROVE  /\ call' \in [Slot -> Call]
         /\ Admitted' \subseteq Admitted
         /\ \A t \in Admitted' : call'[t].key = call[t].key
         /\ KeyHeldOnce' /\ HoldersWork'
<1>1. call' \in [Slot -> Call] /\ call'[s] = c /\ \A t \in Slot \ {s} : call'[t] = call[t]
  BY DEF IInv, TypeOK
<1>2. \A t \in Admitted' : t \in Admitted /\ call'[t].key = call[t].key
  BY <1>1 DEF Admitted, At
<1>3. KeyHeldOnce'
  BY <1>2 DEF IInv, KeyHeldOnce
<1>4. HoldersWork'
  BY <1>1 DEF IInv, HoldersWork, Admitted, At
<1> QED
  BY <1>1, <1>2, <1>3, <1>4

\* Then, when the table and the history stay, so does the invariant.
LEMMA QuietStep ==
  ASSUME IInv, NEW s \in Slot, NEW c \in Call,
         call' = [call EXCEPT ![s] = c],
         c.at = "working" => s \in Admitted /\ c.key = call[s].key,
         c.at # "working" => Bare(c),
         UNCHANGED <<stored, effects, told>>
  PROVE  IInv'
<1>1. call' \in [Slot -> Call] /\ Admitted' \subseteq Admitted /\ KeyHeldOnce' /\ HoldersWork'
      /\ \A t \in Admitted' : call'[t].key = call[t].key
  BY NobodyAdmitted
<1>2. TypeOK'
  BY <1>1 DEF IInv, TypeOK
<1>3. HeldKeyUnanswered'
  BY <1>1 DEF IInv, HeldKeyUnanswered, Fresh
<1>4. HistoryIsKept'
  BY DEF IInv, HistoryIsKept, Fresh
<1> QED
  BY <1>1, <1>2, <1>3, <1>4 DEF IInv

\* GoTo keeps a call's key and locks.
LEMMA GoToType ==
  ASSUME IInv, NEW s \in Slot, NEW stage \in Stage, GoTo(s, stage)
  PROVE  \E c \in Call : /\ call' = [call EXCEPT ![s] = c]
                         /\ c.at = stage /\ c.key = call[s].key
                         /\ Bare(call[s]) => Bare(c)
<1> DEFINE c == [call[s] EXCEPT !.at = stage]
<1>1. /\ c \in Call /\ c.at = stage /\ c.key = call[s].key
      /\ Bare(call[s]) => Bare(c)
  <2>1. call[s] \in Call
    BY DEF IInv, TypeOK
  <2>2. c \in Call /\ c.at = stage /\ c.key = call[s].key
    BY <2>1 DEF Call
  <2>3. c.outer = call[s].outer /\ c.inner = call[s].inner /\ c.nested = call[s].nested
    BY <2>1 DEF Call
  <2> QED
    BY <2>2, <2>3 DEF Bare
<1>2. call' = [call EXCEPT ![s] = c]
  BY DEF GoTo
<1> QED
  BY <1>1, <1>2

\* Who is not at work holds nothing.
LEMMA IdleHoldsNothing ==
  ASSUME IInv, NEW s \in Slot, call[s].at # "working"
  PROVE  Bare(call[s])
BY DEF IInv, HoldersWork, Admitted, At

LEMMA ReplayStep ==
  ASSUME IInv, NEW s \in Slot, LockRequest(s)
  PROVE  IInv'
<1> DEFINE k == call[s].key
<1> USE DEF At
<1>a. call[s] \in Call /\ call[s].at = "begun" /\ k \in Key \cup {None}
  BY DEF IInv, TypeOK, Call, LockRequest
<1>1. CASE k # None /\ Fresh(k)
  <2>1. call' = [call EXCEPT ![s] = NoCall] /\ UNCHANGED <<stored, effects>>
    BY <1>1 DEF LockRequest, End
  <2>2. k \in Key
    BY <1>1, <1>a
  <2>3. told' = IF stored[k].body = call[s].body THEN [told EXCEPT ![k] = @ \cup {call[s].body}]
                ELSE told
    BY <1>1 DEF LockRequest
  <2>4. call' \in [Slot -> Call] /\ Admitted' \subseteq Admitted /\ KeyHeldOnce' /\ HoldersWork'
        /\ \A t \in Admitted' : call'[t].key = call[t].key
    BY <2>1, NoCallType, NobodyAdmitted
  <2>5. call[s].body \in Body
    BY <1>a DEF Call
  <2>6. told' \in [Key -> SUBSET Body]
    BY <2>2, <2>3, <2>5 DEF IInv, TypeOK
  <2>7. TypeOK'
    BY <2>1, <2>4, <2>6 DEF IInv, TypeOK
  <2>8. HeldKeyUnanswered'
    BY <2>1, <2>4 DEF IInv, HeldKeyUnanswered, Fresh
  <2>9. HistoryIsKept'
    <3>1. ASSUME NEW j \in Key, Fresh(j)'
          PROVE  effects'[j] = <<stored'[j].body>> /\ told'[j] \subseteq {stored'[j].body}
      <4>1. Fresh(j) /\ effects[j] = <<stored[j].body>> /\ told[j] \subseteq {stored[j].body}
        BY <3>1, <2>1 DEF Fresh, IInv, HistoryIsKept
      <4>2. CASE j = k
        BY <4>1, <4>2, <2>1, <2>3 DEF IInv, TypeOK
      <4>3. CASE j # k
        BY <4>1, <4>3, <2>1, <2>3 DEF IInv, TypeOK
      <4> QED
        BY <4>2, <4>3
    <3>2. ASSUME NEW j \in Key, ~ Fresh(j)'
          PROVE  effects'[j] = <<>> /\ told'[j] = {}
      <4>1. ~ Fresh(j) /\ effects[j] = <<>> /\ told[j] = {} /\ j # k
        BY <3>2, <2>1, <1>1 DEF Fresh, IInv, HistoryIsKept
      <4> QED
        BY <4>1, <2>1, <2>3 DEF IInv, TypeOK
    <3> QED
      BY <3>1, <3>2 DEF HistoryIsKept
  <2> QED
    BY <2>4, <2>7, <2>8, <2>9 DEF IInv
<1>2. CASE ~ (k # None /\ Fresh(k))
  <2>1. GoTo(s, "working") /\ UNCHANGED <<stored, effects, told>>
    BY <1>2 DEF LockRequest
  <2>2. PICK c \in Call : call' = [call EXCEPT ![s] = c] /\ c.at = "working" /\ c.key = k
    BY <2>1, GoToType DEF Stage
  <2>3. call' \in [Slot -> Call] /\ call'[s] = c /\ \A t \in Slot \ {s} : call'[t] = call[t]
    BY <2>2 DEF IInv, TypeOK
  <2>4. Admitted' = Admitted \cup {s} /\ HoldersWork'
    BY <2>2, <2>3 DEF Admitted, IInv, HoldersWork, At
  <2>5. ASSUME k \in Key PROVE \A t \in Admitted : call[t].key # k
    BY <2>5, NullAssumption DEF LockRequest, Locked
  <2>6. KeyHeldOnce'
    <3> SUFFICES ASSUME NEW t \in Admitted', NEW u \in Admitted',
                        call'[t].key \in Key, call'[t].key = call'[u].key
                 PROVE  t = u
      BY DEF KeyHeldOnce
    <3>1. CASE t = s \/ u = s
      BY <3>1, <2>2, <2>3, <2>4, <2>5 DEF Admitted
    <3>2. CASE t # s /\ u # s
      BY <3>2, <2>3, <2>4 DEF IInv, KeyHeldOnce, Admitted
    <3> QED
      BY <3>1, <3>2
  <2>7. HeldKeyUnanswered'
    <3> SUFFICES ASSUME NEW t \in Admitted', call'[t].key \in Key
                 PROVE  ~ Fresh(call[t].key)'
      BY DEF HeldKeyUnanswered
    <3>1. CASE t = s
      BY <3>1, <2>1, <2>2, <2>3, <1>2, NullAssumption DEF Fresh
    <3>2. CASE t # s
      BY <3>2, <2>1, <2>3, <2>4 DEF IInv, HeldKeyUnanswered, Fresh, Admitted
    <3> QED
      BY <3>1, <3>2
  <2>8. TypeOK'
    BY <2>1, <2>3 DEF IInv, TypeOK
  <2>9. HistoryIsKept'
    BY <2>1 DEF IInv, HistoryIsKept, Fresh
  <2> QED
    BY <2>4, <2>6, <2>7, <2>8, <2>9 DEF IInv
<1> QED
  BY <1>1, <1>2

LEMMA CommitStep ==
  ASSUME IInv, NEW s \in Slot, Commit(s)
  PROVE  IInv'
<1> DEFINE k == call[s].key  b == call[s].body
<1> USE DEF At
<1>a. call[s] \in Call /\ call[s].at = "working" /\ k \in Key \cup {None} /\ b \in Body
  BY DEF IInv, TypeOK, Call, Commit
<1>b. s \in Admitted /\ call' = [call EXCEPT ![s] = NoCall]
  BY <1>a DEF Admitted, Commit, End
<1>1. CASE k = None
  <2>1. UNCHANGED <<stored, effects, told>>
    BY <1>1 DEF Commit
  <2> QED
    BY <1>b, <2>1, NoCallType, QuietStep
<1>2. CASE k # None
  <2>1. k \in Key
    BY <1>2, <1>a
  <2>2. /\ stored' = [stored EXCEPT ![k] = [body |-> b, fresh |-> TRUE]]
        /\ effects' = [effects EXCEPT ![k] = Append(@, b)]
        /\ told' = [told EXCEPT ![k] = @ \cup {b}]
    BY <1>2 DEF Commit
  <2>3. call' \in [Slot -> Call] /\ Admitted' \subseteq Admitted /\ KeyHeldOnce' /\ HoldersWork'
        /\ \A t \in Admitted' : call'[t].key = call[t].key
    BY <1>b, NoCallType, NobodyAdmitted
  <2>4. effects[k] = <<>> /\ told[k] = {}
    BY <2>1, <1>b DEF IInv, HeldKeyUnanswered, HistoryIsKept
  <2>5. [body |-> b, fresh |-> TRUE] \in Row
    BY <1>a DEF Row
  <2>6. effects' = [effects EXCEPT ![k] = <<b>>] /\ told' = [told EXCEPT ![k] = {b}]
    BY <2>1, <2>2, <2>4 DEF IInv, TypeOK
  <2>7. TypeOK'
    BY <2>1, <2>2, <2>3, <2>5, <2>6, <1>a DEF IInv, TypeOK
  <2>8. \A j \in Key \ {k} : /\ stored'[j] = stored[j] /\ effects'[j] = effects[j]
                             /\ told'[j] = told[j]
    BY <2>2 DEF IInv, TypeOK
  <2>9. stored'[k] = [body |-> b, fresh |-> TRUE] /\ effects'[k] = <<b>> /\ told'[k] = {b}
    BY <2>1, <2>2, <2>6 DEF IInv, TypeOK
  <2>10. HeldKeyUnanswered'
    <3> SUFFICES ASSUME NEW t \in Admitted', call'[t].key \in Key
                 PROVE  ~ Fresh(call[t].key)'
      BY DEF HeldKeyUnanswered
    <3>1. t # s
      BY <1>b, NoCallType DEF IInv, TypeOK, Admitted
    <3>2. t \in Admitted /\ call'[t].key = call[t].key /\ call[t].key # k
      BY <3>1, <2>3, <1>b, <2>1 DEF IInv, KeyHeldOnce
    <3> QED
      BY <3>2, <2>8 DEF IInv, HeldKeyUnanswered, Fresh
  <2>11. HistoryIsKept'
    <3> SUFFICES ASSUME NEW j \in Key
                 PROVE  /\ Fresh(j)' => effects'[j] = <<stored'[j].body>>
                                        /\ told'[j] \subseteq {stored'[j].body}
                        /\ ~ Fresh(j)' => effects'[j] = <<>> /\ told'[j] = {}
      BY DEF HistoryIsKept
    <3>1. CASE j = k
      <4>1. Fresh(j)' /\ stored'[j].body = b
        <5>1. stored'[j] # None
          BY <3>1, <2>5, <2>9, NullAssumption
        <5>2. stored'[j].fresh /\ stored'[j].body = b
          BY <3>1, <2>9
        <5> QED
          BY <5>1, <5>2 DEF Fresh
      <4> QED
        BY <4>1, <3>1, <2>9
    <3>2. CASE j # k
      BY <3>2, <2>8 DEF IInv, HistoryIsKept, Fresh
    <3> QED
      BY <3>1, <3>2
  <2> QED
    BY <2>3, <2>7, <2>10, <2>11 DEF IInv
<1> QED
  BY <1>1, <1>2

LEMMA ExpireStep ==
  ASSUME IInv, NEW k \in Key, Expire(k)
  PROVE  IInv'
<1>1. call' = call /\ Admitted' = Admitted
  BY DEF Expire, Admitted, At
<1>2. /\ stored' = [stored EXCEPT ![k].fresh = FALSE]
      /\ effects' = [effects EXCEPT ![k] = <<>>] /\ told' = [told EXCEPT ![k] = {}]
  BY DEF Expire
<1>3. stored[k] \in Row
  BY DEF Expire, Fresh, IInv, TypeOK
<1>4. TypeOK'
  <2>1. [stored[k] EXCEPT !.fresh = FALSE] \in Row
    BY <1>3 DEF Row
  <2> QED
    BY <1>1, <1>2, <2>1 DEF IInv, TypeOK
<1>5. \A j \in Key \ {k} : /\ stored'[j] = stored[j] /\ effects'[j] = effects[j]
                           /\ told'[j] = told[j]
  BY <1>2 DEF IInv, TypeOK
<1>6. ~ Fresh(k)' /\ effects'[k] = <<>> /\ told'[k] = {}
  BY <1>2, <1>3 DEF IInv, TypeOK, Fresh, Row
<1>7. HeldKeyUnanswered'
  BY <1>1, <1>5, <1>6 DEF IInv, HeldKeyUnanswered, Fresh
<1>8. HistoryIsKept'
  BY <1>5, <1>6 DEF IInv, HistoryIsKept, Fresh
<1>9. KeyHeldOnce' /\ HoldersWork'
  BY <1>1 DEF IInv, KeyHeldOnce, HoldersWork
<1> QED
  BY <1>4, <1>7, <1>8, <1>9 DEF IInv

LEMMA PruneStep ==
  ASSUME IInv, Prune
  PROVE  IInv'
<1>1. call' = call /\ Admitted' = Admitted /\ UNCHANGED <<effects, told>>
  BY DEF Prune, Admitted, At
<1>2. stored' = [k \in Key |-> IF Fresh(k) THEN stored[k] ELSE None]
  BY DEF Prune
<1>3. \A k \in Key : (Fresh(k)' <=> Fresh(k)) /\ (Fresh(k) => stored'[k] = stored[k])
  BY <1>2 DEF Fresh
<1>4. TypeOK'
  BY <1>1, <1>2 DEF IInv, TypeOK
<1>5. HeldKeyUnanswered' /\ KeyHeldOnce' /\ HoldersWork'
  BY <1>1, <1>3 DEF IInv, HeldKeyUnanswered, KeyHeldOnce, HoldersWork
<1>6. HistoryIsKept'
  BY <1>1, <1>3 DEF IInv, HistoryIsKept
<1> QED
  BY <1>4, <1>5, <1>6 DEF IInv

LEMMA CrashStep ==
  ASSUME IInv, Crash
  PROVE  IInv'
<1>1. call' = [s \in Slot |-> NoCall] /\ UNCHANGED <<stored, effects, told>>
  BY DEF Crash
<1>2. Admitted' = {} /\ HoldersWork'
  BY <1>1, NoCallType DEF Admitted, At, HoldersWork
<1>3. TypeOK'
  BY <1>1, NoCallType DEF IInv, TypeOK
<1>4. HistoryIsKept'
  BY <1>1 DEF IInv, HistoryIsKept, Fresh
<1> QED
  BY <1>2, <1>3, <1>4 DEF IInv, KeyHeldOnce, HeldKeyUnanswered

LEMMA SendStep ==
  ASSUME IInv, NEW s \in Slot, NEW plan \in Plan, NEW k \in Key \cup {None}, NEW b \in Body,
         Send(s, plan, k, b)
  PROVE  IInv'
<1> DEFINE c == [NoCall EXCEPT !.at = "arrived", !.key = k, !.body = b, !.todo = plan]
<1>1. plan \in Seq(Step)
  BY PlanAssumption
<1>2. c \in Call /\ c.at = "arrived" /\ Bare(c)
  BY <1>1, NoCallType DEF Call, Stage, Bare
<1>3. call' = [call EXCEPT ![s] = c] /\ UNCHANGED <<stored, effects, told>>
  BY DEF Send
<1> QED
  BY <1>2, <1>3, QuietStep

\* Take, Nest and Unnest: a call at work goes on with its key.
LEMMA WorkStep ==
  ASSUME IInv, NEW s \in Slot, NEW nested \in BOOLEAN, NEW outer \in SUBSET Lock,
         NEW inner \in SUBSET Lock, At(s, "working"), call[s].todo # <<>>,
         call' = [call EXCEPT ![s] = [call[s] EXCEPT !.todo = Tail(call[s].todo), !.nested = nested,
                                                     !.outer = outer, !.inner = inner]],
         UNCHANGED <<stored, effects, told>>
  PROVE  IInv'
<1> DEFINE c == [call[s] EXCEPT !.todo = Tail(call[s].todo), !.nested = nested,
                                !.outer = outer, !.inner = inner]
<1>1. call[s] \in Call /\ Tail(call[s].todo) \in Seq(Step)
  BY DEF IInv, TypeOK, Call
<1>2. c \in Call /\ c.at = "working" /\ c.key = call[s].key
  BY <1>1 DEF Call, At
<1>3. call' = [call EXCEPT ![s] = c] /\ s \in Admitted
  BY DEF Admitted
<1> HIDE DEF c
<1> QED
  BY <1>2, <1>3, QuietStep

LEMMA TakeStep ==
  ASSUME IInv, NEW s \in Slot, NEW lock \in Lock, Take(s, lock)
  PROVE  IInv'
<1> DEFINE outer == IF call[s].nested THEN call[s].outer ELSE call[s].outer \cup {lock}
           inner == IF call[s].nested THEN call[s].inner \cup {lock} ELSE call[s].inner
<1>1. call[s] \in Call
  BY DEF IInv, TypeOK
<1>2. outer \in SUBSET Lock /\ inner \in SUBSET Lock /\ call[s].nested \in BOOLEAN
  BY <1>1 DEF Call
<1>3. call' = [call EXCEPT ![s] = [call[s] EXCEPT !.todo = Tail(call[s].todo),
                              !.nested = call[s].nested, !.outer = outer, !.inner = inner]]
  BY <1>1 DEF Take, IInv, TypeOK, Call
<1>4. At(s, "working") /\ call[s].todo # <<>> /\ UNCHANGED <<stored, effects, told>>
  BY DEF Take, Wants
<1> HIDE DEF outer, inner
<1> QED
  BY <1>2, <1>3, <1>4, WorkStep

LEMMA NestStep ==
  ASSUME IInv, NEW s \in Slot, Nest(s) \/ Unnest(s)
  PROVE  IInv'
<1>1. call[s] \in Call /\ call[s].outer \in SUBSET Lock /\ call[s].inner \in SUBSET Lock
  BY DEF IInv, TypeOK, Call
<1>2. At(s, "working") /\ call[s].todo # <<>> /\ UNCHANGED <<stored, effects, told>>
  BY DEF Nest, Unnest, Wants
<1>3. CASE Nest(s)
  <2>1. call' = [call EXCEPT ![s] = [call[s] EXCEPT !.todo = Tail(call[s].todo),
                  !.nested = TRUE, !.outer = call[s].outer, !.inner = call[s].inner]]
    BY <1>1, <1>3 DEF Nest, IInv, TypeOK, Call
  <2> QED
    BY <1>1, <1>2, <2>1, WorkStep
<1>4. CASE Unnest(s)
  <2>1. call' = [call EXCEPT ![s] = [call[s] EXCEPT !.todo = Tail(call[s].todo),
                  !.nested = FALSE, !.outer = call[s].outer, !.inner = {}]]
    BY <1>1, <1>4 DEF Unnest, IInv, TypeOK, Call
  <2> QED
    BY <1>1, <1>2, <2>1, WorkStep
<1> QED
  BY <1>3, <1>4

LEMMA EndStep ==
  ASSUME IInv, NEW s \in Slot, End(s), UNCHANGED <<stored, effects, told>>
  PROVE  IInv'
BY NoCallType, QuietStep DEF End

LEMMA ServeStep ==
  ASSUME IInv, NEW s \in Slot, Serve(s)
  PROVE  IInv'
<1>1. CASE Connect(s)
  <2>1. GoTo(s, "begun") /\ call[s].at # "working" /\ UNCHANGED <<stored, effects, told>>
    BY <1>1 DEF Connect, At
  <2>2. PICK c \in Call : /\ call' = [call EXCEPT ![s] = c]
                          /\ c.at = "begun" /\ c.key = call[s].key
                          /\ Bare(call[s]) => Bare(c)
    BY <2>1, GoToType DEF Stage
  <2> QED
    BY <2>1, <2>2, IdleHoldsNothing, QuietStep
<1>2. CASE LockRequest(s)
  BY <1>2, ReplayStep
<1>3. ASSUME NEW lock \in Lock, Take(s, lock) PROVE IInv'
  BY <1>3, TakeStep
<1>4. CASE Nest(s) \/ Unnest(s)
  BY <1>4, NestStep
<1>5. CASE Commit(s)
  BY <1>5, CommitStep
<1>6. CASE BreakDeadlock(s)
  BY <1>6, EndStep DEF BreakDeadlock
<1> QED
  BY <1>1, <1>2, <1>3, <1>4, <1>5, <1>6 DEF Serve

LEMMA NextInv == IInv /\ [Next]_vars => IInv'
<1> SUFFICES ASSUME IInv, [Next]_vars PROVE IInv'
  OBVIOUS
<1>1. ASSUME NEW s \in Slot, Client(s) PROVE IInv'
  BY <1>1, SendStep DEF Client
<1>2. ASSUME NEW s \in Slot, Serve(s) PROVE IInv'
  BY <1>2, ServeStep
<1>7. ASSUME NEW s \in Slot, Fail(s) PROVE IInv'
  BY <1>7, EndStep DEF Fail
<1>3. ASSUME NEW k \in Key, Expire(k) PROVE IInv'
  BY <1>3, ExpireStep
<1>4. CASE Prune
  BY <1>4, PruneStep
<1>5. CASE Crash
  BY <1>5, CrashStep
<1>6. CASE UNCHANGED vars
  BY <1>6 DEF vars, IInv, TypeOK, KeyHeldOnce, HeldKeyUnanswered, HistoryIsKept, HoldersWork, Fresh,
              Admitted, At
<1> QED
  BY <1>1, <1>2, <1>3, <1>4, <1>5, <1>6, <1>7 DEF Next

LEMMA InvariantHolds == Spec => []IInv
BY InitInv, NextInv, PTL DEF Spec

\* Requests, answers and histories keep their types, for any number of them.
THEOREM RequestsTyped == Spec => []TypeOK
<1>1. IInv => TypeOK
  BY DEF IInv
<1> QED
  BY <1>1, InvariantHolds, PTL

\* Whatever clients repeat, at the same time or after a crash, what is asked under one key is done
\* at most once while its answer is kept.
THEOREM KeyedEffectOnce == Spec => []EffectOncePerKey
<1>1. IInv => EffectOncePerKey
  <2> SUFFICES ASSUME IInv, NEW k \in Key PROVE Len(effects[k]) <= 1
    BY DEF EffectOncePerKey
  <2>1. CASE Fresh(k)
    <3>1. effects[k] = <<stored[k].body>>
      BY <2>1 DEF IInv, HistoryIsKept
    <3> QED
      BY <3>1
  <2>2. CASE ~ Fresh(k)
    <3>1. effects[k] = <<>>
      BY <2>2 DEF IInv, HistoryIsKept
    <3> QED
      BY <3>1
  <2> QED
    BY <2>1, <2>2
<1> QED
  BY <1>1, InvariantHolds, PTL

\* No client is told that its request is done on the strength of another request's answer.
THEOREM AnswersStayTrue == Spec => []AnswersAreTrue
<1>1. IInv => AnswersAreTrue
  BY DEF IInv, HistoryIsKept, AnswersAreTrue
<1> QED
  BY <1>1, InvariantHolds, PTL

-----------------------------------------------------------------------------
(* Who can go on                                                           *)

\* A request can go on when it waits for nothing, neither a connection nor a key nor a lock, or when
\* it is in a ring of locks, where PostgreSQL may end it.
MayGo(s) ==
  \/ At(s, "arrived") /\ Held < Pool
  \/ At(s, "begun") /\ ~ WaitsForKey(s)
  \/ At(s, "working") /\ call[s].todo = <<>>
  \/ Wants(s, "nest") /\ Held < Pool
  \/ Wants(s, "unnest")
  \/ \E lock \in Lock : Wants(s, lock) /\ ~ Taken(s, lock)
  \/ Deadlocked(s)

Replayed(s) == At(s, "begun") /\ call[s].key # None /\ Fresh(call[s].key)

Commits(s) == At(s, "working") /\ call[s].todo = <<>>

\* The call with the lock that its plan comes to.
Locking(c) == [c EXCEPT !.todo = Tail(@),
                        !.outer = IF c.nested THEN @ ELSE @ \cup {Head(c.todo)},
                        !.inner = IF c.nested THEN @ \cup {Head(c.todo)} ELSE @]

\* The call it goes on with.
After(s) ==
  LET c == call[s] IN
  IF Replayed(s) \/ Commits(s) \/ Deadlocked(s) THEN NoCall
  ELSE CASE c.at = "arrived" -> [c EXCEPT !.at = "begun"]
         [] c.at = "begun" -> [c EXCEPT !.at = "working"]
         [] Wants(s, "nest") -> [c EXCEPT !.todo = Tail(@), !.nested = TRUE]
         [] Wants(s, "unnest") -> [c EXCEPT !.todo = Tail(@), !.nested = FALSE, !.inner = {}]
         [] OTHER -> Locking(c)

\* The values it goes on with: every primed variable is given one, so that such a step exists.
GoesOn(s) ==
  LET k == call[s].key  b == call[s].body
      commits == Commits(s) /\ k # None
  IN /\ call' = [call EXCEPT ![s] = After(s)]
     /\ stored' = IF commits THEN [stored EXCEPT ![k] = [body |-> b, fresh |-> TRUE]] ELSE stored
     /\ effects' = IF commits THEN [effects EXCEPT ![k] = Append(@, b)] ELSE effects
     /\ told' = IF commits \/ (Replayed(s) /\ stored[k].body = b) THEN [told EXCEPT ![k] = @ \cup {b}]
                ELSE told

LEMMA DeadlockedWants ==
  ASSUME NEW s \in Slot, Deadlocked(s)
  PROVE  At(s, "working") /\ call[s].todo # <<>> /\ \E lock \in Lock : Wants(s, lock)
BY DEF Deadlocked, WaitsOn, Wants

\* MayGo is exactly the guard of Serve.
LEMMA WhoMayGo ==
  ASSUME IInv, NEW s \in Slot
  PROVE  /\ Serve(s) => MayGo(s)
         /\ MayGo(s) /\ GoesOn(s) => Serve(s)
<1>a. call \in [Slot -> Call] /\ call[s] \in Call
  BY DEF IInv, TypeOK
<1>b. "nest" \notin Lock /\ "unnest" \notin Lock
  BY PlanAssumption
<1>1. Serve(s) => MayGo(s)
  BY DEF Serve, MayGo, Connect, LockRequest, Take, Nest, Unnest, Commit, BreakDeadlock, WaitsForKey, At
<1> SUFFICES ASSUME GoesOn(s), MayGo(s) PROVE Serve(s)
  BY <1>1
<1>2. CASE Deadlocked(s)
  <2>1. After(s) = NoCall /\ ~ Commits(s) /\ ~ Replayed(s)
    BY <1>2, DeadlockedWants DEF After, Commits, Replayed, At
  <2>2. BreakDeadlock(s)
    BY <1>2, <2>1 DEF GoesOn, BreakDeadlock, End
  <2> QED
    BY <2>2 DEF Serve
<1>3. CASE ~ Deadlocked(s) /\ At(s, "arrived") /\ Held < Pool
  <2>1. call[s].at = "arrived" /\ ~ Commits(s) /\ ~ Replayed(s)
        /\ ~ Wants(s, "nest") /\ ~ Wants(s, "unnest")
    BY <1>3 DEF Commits, Replayed, Wants, At
  <2>a. After(s) = [call[s] EXCEPT !.at = "begun"]
    BY <1>3, <2>1 DEF After
  <2>2. GoTo(s, "begun") /\ UNCHANGED <<stored, effects, told>>
    BY <2>1, <2>a DEF GoesOn, GoTo
  <2> QED
    BY <1>3, <2>2 DEF Serve, Connect
<1>4. CASE ~ Deadlocked(s) /\ At(s, "begun") /\ ~ WaitsForKey(s)
  <2>1. ~ Commits(s) /\ (call[s].key # None => ~ Locked(call[s].key))
    BY <1>4 DEF Commits, WaitsForKey, At
  <2>2. CASE Replayed(s)
    <3>1. After(s) = NoCall
      BY <2>2 DEF After
    <3>2. LockRequest(s)
      BY <1>4, <2>1, <2>2, <3>1 DEF GoesOn, Replayed, LockRequest, End
    <3> QED
      BY <3>2 DEF Serve
  <2>3. CASE ~ Replayed(s)
    <3>a. call[s].at = "begun" /\ ~ Wants(s, "nest") /\ ~ Wants(s, "unnest")
      BY <1>4 DEF Wants, At
    <3>1. After(s) = [call[s] EXCEPT !.at = "working"]
      BY <1>4, <2>1, <2>3, <3>a DEF After
    <3>2. GoTo(s, "working") /\ UNCHANGED <<stored, effects, told>>
      BY <2>1, <2>3, <3>1 DEF GoesOn, GoTo
    <3>3. ~ (call[s].key # None /\ Fresh(call[s].key))
      BY <1>4, <2>3 DEF Replayed
    <3>4. LockRequest(s)
      BY <1>4, <2>1, <3>2, <3>3 DEF LockRequest
    <3> QED
      BY <3>4 DEF Serve
  <2> QED
    BY <2>2, <2>3
<1>5. CASE ~ Deadlocked(s) /\ Commits(s)
  <2>1. After(s) = NoCall /\ ~ Replayed(s)
    BY <1>5 DEF After, Commits, Replayed, At
  <2>2. Commit(s)
    BY <1>5, <2>1 DEF GoesOn, Commits, Commit, End
  <2> QED
    BY <2>2 DEF Serve
<1>6. CASE ~ Deadlocked(s) /\ Wants(s, "nest") /\ Held < Pool
  <2>1. ~ Commits(s) /\ ~ Replayed(s) /\ call[s].at = "working"
    BY <1>6 DEF Commits, Replayed, Wants, At
  <2>2. After(s) = [call[s] EXCEPT !.todo = Tail(call[s].todo), !.nested = TRUE]
    BY <1>6, <2>1 DEF After, Wants
  <2>3. Nest(s)
    BY <1>a, <1>6, <2>1, <2>2 DEF GoesOn, Nest
  <2> QED
    BY <2>3 DEF Serve
<1>7. CASE ~ Deadlocked(s) /\ Wants(s, "unnest")
  <2>1. ~ Commits(s) /\ ~ Replayed(s) /\ call[s].at = "working" /\ ~ Wants(s, "nest")
    BY <1>7 DEF Commits, Replayed, Wants, At
  <2>2. After(s) = [call[s] EXCEPT !.todo = Tail(call[s].todo), !.nested = FALSE, !.inner = {}]
    BY <1>7, <2>1 DEF After
  <2>3. Unnest(s)
    BY <1>a, <1>7, <2>1, <2>2 DEF GoesOn, Unnest
  <2> QED
    BY <2>3 DEF Serve
<1>8. ASSUME ~ Deadlocked(s), NEW lock \in Lock, Wants(s, lock), ~ Taken(s, lock) PROVE Serve(s)
  <2>1. ~ Commits(s) /\ ~ Replayed(s) /\ call[s].at = "working" /\ Head(call[s].todo) = lock
        /\ ~ Wants(s, "nest") /\ ~ Wants(s, "unnest")
    BY <1>b, <1>8 DEF Commits, Replayed, Wants, At
  <2>2. After(s) = [call[s] EXCEPT !.todo = Tail(call[s].todo),
                      !.outer = IF call[s].nested THEN @ ELSE @ \cup {lock},
                      !.inner = IF call[s].nested THEN @ \cup {lock} ELSE @]
    <3>1. After(s) = Locking(call[s])
      BY <1>8, <2>1 DEF After
    <3> QED
      BY <2>1, <3>1 DEF Locking
  <2>3. Take(s, lock)
    BY <1>a, <1>8, <2>1, <2>2 DEF GoesOn, Take
  <2> QED
    BY <2>3 DEF Serve
<1> QED
  BY <1>2, <1>3, <1>4, <1>5, <1>6, <1>7, <1>8 DEF MayGo, Commits

LEMMA HeldIsCounted == Held \in Nat
<1>1. IsFiniteSet(Open) /\ IsFiniteSet({s \in Slot : call[s].nested})
  BY SlotAssumption, FS_Subset DEF Open
<1> QED
  BY <1>1, FS_CardinalityType DEF Held

\* What a request at work that cannot go on waits for.
LEMMA WhatItWaitsFor ==
  ASSUME IInv, NEW s \in Slot, At(s, "working"), ~ MayGo(s)
  PROVE  Wants(s, "nest") \/ \E lock \in Lock : Wants(s, lock) /\ Taken(s, lock)
<1>1. call[s].todo \in Seq(Step) /\ call[s].todo # <<>>
  BY DEF IInv, TypeOK, Call, MayGo
<1>2. Head(call[s].todo) \in Lock \cup {"nest", "unnest"}
  BY <1>1 DEF Step
<1> QED
  BY <1>1, <1>2 DEF Wants, MayGo

\* Where each of a set of requests waits for one of it, there is a ring: a smallest such set is one,
\* as it would stay such a set without a request that nobody in it waits for.
LEMMA KnotHasRing ==
  ASSUME NEW knot \in SUBSET Slot, knot # {}, \A t \in knot : \E u \in knot : WaitsOn(t, u)
  PROVE  \E s \in Slot : Deadlocked(s)
<1> DEFINE IsKnot(ts) == ts # {} /\ \A t \in ts : \E u \in ts : WaitsOn(t, u)
           Knots == {ts \in SUBSET Slot : IsKnot(ts)}
<1>1. Knots \subseteq FiniteSubsetsOf(Slot) /\ knot \in Knots
  BY SlotAssumption, FS_Subset DEF FiniteSubsetsOf
<1>2. PICK ring \in Knots : \A ts \in Knots : <<ts, ring>> \notin StrictSubsetOrdering(Slot)
  <2> HIDE DEF Knots
  <2> QED
    BY <1>1, FS_StrictSubsetOrderingWellFounded, WFMin
<1>3. ASSUME NEW u \in ring, \A t \in ring : ~ WaitsOn(t, u) PROVE FALSE
  <2>1. IsKnot(ring \ {u})
    BY <1>2, <1>3 DEF WaitsOn
  <2>2. ring \ {u} \in Knots /\ ring \ {u} # ring /\ ring \ {u} \subseteq ring
    BY <1>2, <2>1
  <2> QED
    BY <1>2, <2>2 DEF StrictSubsetOrdering
<1>4. PICK s \in ring : TRUE
  BY <1>2
<1>5. s \in Slot /\ ring \in SUBSET Slot /\ Deadlocked(s)
  BY <1>2, <1>3, <1>4 DEF Deadlocked
<1> QED
  BY <1>5

\* If no request can go on, whoever waits for a lock waits for one that wants a connection, perhaps
\* through others: else there were a ring among the requests at work.
LEMMA SomeoneNests ==
  ASSUME IInv, \A s \in Slot : ~ MayGo(s), NEW s \in Open
  PROVE  \E t \in Slot : Wants(t, "nest")
<1> SUFFICES ASSUME \A t \in Slot : ~ Wants(t, "nest") PROVE FALSE
  OBVIOUS
<1>1. \A t \in Admitted : \E u \in Admitted : WaitsOn(t, u)
  <2> SUFFICES ASSUME NEW t \in Admitted PROVE \E u \in Admitted : WaitsOn(t, u)
    OBVIOUS
  <2>1. PICK lock \in Lock : Wants(t, lock) /\ Taken(t, lock)
    BY WhatItWaitsFor DEF Admitted
  <2>2. PICK u \in Slot \ {t} : lock \in Holds(u)
    BY <2>1 DEF Taken
  <2>3. u \in Admitted
    BY <2>2 DEF IInv, HoldersWork, Holds, Bare
  <2> QED
    BY <2>1, <2>2, <2>3 DEF WaitsOn
<1>2. Admitted \in SUBSET Slot /\ \A t \in Slot : ~ Deadlocked(t)
  BY DEF Admitted, MayGo
<1>3. Admitted = {}
  BY <1>1, <1>2, KnotHasRing
<1>4. At(s, "begun") /\ ~ WaitsForKey(s)
  <2>1. call[s].at \in Stage /\ s \in Slot
    BY DEF IInv, TypeOK, Call, Open
  <2> QED
    BY <2>1, <1>3 DEF Open, Admitted, At, Stage, WaitsForKey, Locked
<1> QED
  BY <1>4 DEF MayGo, Open

\* While a request is under way, none can go on if and only if the pool is jammed, and then one of
\* them wants a second connection: no other knot of connections, keys and locks exists, for any
\* number of requests, any size of the pool and whatever the handlers wait for.
THEOREM OnlyTheJamBlocks ==
  Spec => []((\E s \in Slot : ~ At(s, "idle")) =>
               /\ Jammed <=> \A s \in Slot : ~ MayGo(s)
               /\ Jammed => \E s \in Slot : Wants(s, "nest"))
<1> DEFINE Blocked == \A s \in Slot : ~ MayGo(s)
<1>1. IInv => ((\E s \in Slot : ~ At(s, "idle")) =>
                 (Jammed <=> Blocked) /\ (Jammed => \E s \in Slot : Wants(s, "nest")))
  <2> SUFFICES ASSUME IInv, NEW r \in Slot, ~ At(r, "idle")
               PROVE  (Jammed <=> Blocked) /\ (Jammed => \E s \in Slot : Wants(s, "nest"))
    OBVIOUS
  <2>1. Held < Pool <=> ~ (Held >= Pool)
    BY HeldIsCounted, PoolAssumption
  <2>2. \A s \in Slot : call[s].at \in Stage
    BY DEF IInv, TypeOK, Call
  <2>3. ASSUME Blocked PROVE \E s \in Slot : Wants(s, "nest")
    <3>1. CASE Open # {}
      BY <2>3, <3>1, SomeoneNests
    <3>2. CASE Open = {}
      <4>1. At(r, "arrived") /\ Held = 0
        <5>1. \A s \in Slot : ~ call[s].nested
          BY <3>2 DEF IInv, HoldersWork, Admitted, At, Open, Bare
        <5> QED
          <6>1. {s \in Slot : call[s].nested} = {}
            BY <5>1
          <6>2. Held = 0
            BY <3>2, <6>1, FS_EmptySet DEF Held
          <6>3. At(r, "arrived")
            BY <2>2, <3>2 DEF Open, At, Stage
          <6> QED
            BY <6>2, <6>3
      <4> QED
        BY <2>3, <4>1, PoolAssumption DEF MayGo
    <3> QED
      BY <3>1, <3>2
  <2>4. ASSUME Blocked PROVE Jammed
    <3>1. Held >= Pool
      BY <2>1, <2>3, <2>4 DEF MayGo
    <3>2. ASSUME NEW s \in Open PROVE Wants(s, "nest") \/ WaitsForKey(s) \/ WaitsForLock(s)
      <4>1. s \in Slot /\ ~ MayGo(s) /\ ~ Deadlocked(s)
        BY <2>4 DEF Open, MayGo
      <4>2. At(s, "begun") \/ At(s, "working")
        BY <2>2, <4>1 DEF Open, At, Stage
      <4>3. CASE At(s, "begun")
        BY <4>1, <4>3 DEF MayGo
      <4>4. CASE At(s, "working")
        BY <4>1, <4>4, WhatItWaitsFor DEF WaitsForLock
      <4> QED
        BY <4>2, <4>3, <4>4
    <3> QED
      BY <3>1, <3>2 DEF Jammed
  <2>5. ASSUME Jammed, NEW s \in Slot PROVE ~ MayGo(s)
    <3>1. ~ (Held < Pool)
      BY <2>1, <2>5 DEF Jammed
    <3>2. CASE s \notin Open
      <4>1. call[s].at \in {"idle", "arrived"}
        BY <3>2 DEF Open
      <4> QED
        BY <3>1, <4>1, DeadlockedWants DEF MayGo, Wants, At
    <3>3. CASE s \in Open
      <4>1. Wants(s, "nest") \/ WaitsForKey(s) \/ WaitsForLock(s)
        BY <2>5, <3>3 DEF Jammed
      <4>2. "nest" \notin Lock /\ "unnest" \notin Lock
        BY PlanAssumption
      <4>3. CASE Wants(s, "nest")
        <5>1. ~ Deadlocked(s)
          BY <4>2, <4>3, DeadlockedWants DEF Wants
        <5> QED
          BY <3>1, <4>2, <4>3, <5>1 DEF MayGo, Wants, At
      <4>4. CASE WaitsForKey(s)
        BY <4>4, DeadlockedWants DEF MayGo, WaitsForKey, Wants, At
      <4>5. CASE WaitsForLock(s)
        BY <4>2, <4>5 DEF MayGo, WaitsForLock, Wants, At
      <4> QED
        BY <4>1, <4>3, <4>4, <4>5
    <3> QED
      BY <3>2, <3>3
  <2> QED
    BY <2>3, <2>4, <2>5
<1> QED
  BY <1>1, InvariantHolds, PTL
=============================================================================
