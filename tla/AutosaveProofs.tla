--------------------------- MODULE AutosaveProofs ---------------------------
(***************************************************************************)
(* What auto-save promises for all texts, any number of edits, failures    *)
(* and other writers.                                                      *)
(***************************************************************************)
EXTENDS Autosave, TLAPS, SequenceTheorems, WellFoundedInduction

\* The request that is running keeps its key and its revision, those of the queue; so does what
\* failed. Between requests nothing is pending, and the dialog asks about what failed.
QueueFits ==
  /\ q.key # None => q.key \in DOMAIN stored
  /\ q.running # None =>
       /\ q.failed = NoPatch /\ q.current # None
       /\ q.running.key = q.key /\ q.running.revision = q.current.revision
       /\ q.running.patch # NoPatch
  /\ q.key # None <=> q.running # None \/ q.failed # NoPatch
  /\ q.failed # NoPatch => q.current # None
  /\ q.running = None /\ q.failed = NoPatch => q.pending = NoPatch
  /\ panel = "asked" => q.failed # NoPatch

\* Nobody knows a later revision than the server's.
RevisionsFit ==
  /\ item.revision <= row.revision
  /\ q.current # None => q.current.revision <= row.revision
  /\ \A r \in net : r.revision <= row.revision
  /\ \A k \in DOMAIN stored : stored[k] # None => stored[k].row.revision <= row.revision
  /\ \A i \in DOMAIN waiting : waiting[i].entity.revision <= item.revision
  /\ \A f \in Field : history.outside[f] <= row.revision

\* A key that was answered was answered for what was written, one revision after its base, which
\* nobody else wrote.
AnswersFit ==
  /\ \A k \in DOMAIN stored : stored[k] # None =>
       /\ stored[k].row.revision = stored[k].digest[1] + 1
       /\ \A f \in Field : history.outside[f] # stored[k].row.revision
  /\ Answered(q.key) =>
       /\ \A r \in net : ~ Writes(r)
       /\ \A f \in Field : stored[q.key].digest[2][f] # None
            => history.written[f] = stored[q.key].digest[2][f]
  /\ reply # <<>> =>
       /\ q.running # None
       /\ Head(reply) # None =>
            /\ Answered(q.key)
            /\ stored[q.key].digest = Digest(q.running)
            /\ stored[q.key].row = Head(reply)

\* The text that the queue holds of a field.
TextOf(p, f) == IF p[f] = None THEN None ELSE p[f].text
Held(k, f) ==
  IF k.pending[f] # None THEN k.pending[f].text
  ELSE IF k.running # None /\ k.running.patch[f] # None THEN k.running.patch[f].text
  ELSE TextOf(k.failed, f)

NothingLive(f) == \A r \in net : Writes(r) => r.patch[f] = None

AskedIsHeld ==
  \A f \in Field :
    /\ history.asked[f] # None =>
         IF Held(q, f) # None THEN Held(q, f) = history.asked[f]
         ELSE history.written[f] = history.asked[f] /\ NothingLive(f)
    /\ history.asked[f] = None /\ panel # "left" =>
         Held(q, f) = None /\ \A r \in net : r.patch[f] = None

Seen(edit, f, revision) ==
  edit # None => edit.late \/ history.outside[f] <= edit.base \/ revision < history.outside[f]

EditsAreSeen ==
  \A f \in Field :
    /\ \A r \in net : Seen(r.patch[f], f, r.revision)
    /\ q.current # None =>
         /\ history.outside[f] <= item.revision \/ q.current.revision < history.outside[f]
         /\ Seen(q.pending[f], f, q.current.revision)
         /\ Seen(q.failed[f], f, q.current.revision)
         /\ q.running # None => Seen(q.running.patch[f], f, q.current.revision)

LastIsSent ==
  field.last = IF field.sent = <<>> THEN item.content ELSE Last(field.sent)

LastIsAsked ==
  panel # "left" /\ field.sent # <<>> =>
    field.last = IF waiting = <<>> THEN history.asked["content"] ELSE Last(waiting).text

\* What was written last is still there, or another text is that the page has not seen.
Rests ==
  \/ history.ours /\ row.content = field.last
  \/ ~ history.ours /\ row.content # item.content /\ ~ Own(row.content)

LastRests ==
  ~ history.echoed /\ field.sent # <<>> =>
    /\ Answered(q.key) /\ stored[q.key].digest[2]["content"] = field.last => Rests
    /\ panel # "left" /\ waiting = <<>> /\ Held(q, "content") = None => Rests

At(k) == IF k = 0 THEN item.content ELSE field.sent[k]

Saves == Len(field.sent) - Len(waiting)

InOrder(a, b, c) ==
  /\ a <= b /\ b <= c
  /\ history.ours => row.content = At(a)
  /\ \A r \in net : Writes(r) /\ r.patch["content"] # None =>
       \E d \in a .. b : At(d) = r.patch["content"].text
  /\ q.running # None /\ q.running.patch["content"] # None => At(b) = q.running.patch["content"].text
  /\ q.failed["content"] # None => At(b) = q.failed["content"].text
  /\ q.pending["content"] # None => At(c) = q.pending["content"].text

CommitsInOrder ==
  panel # "left" /\ ~ history.disturbed =>
    /\ Saves \in Nat
    /\ \A j \in DOMAIN waiting : field.sent[Saves + j] = waiting[j].text
    /\ \E a, b, c \in 0 .. Saves : InOrder(a, b, c)

IInv ==
  /\ TypeOK /\ QueueFits /\ RevisionsFit /\ AnswersFit /\ AskedIsHeld /\ EditsAreSeen
  /\ LastIsSent /\ LastIsAsked /\ LastRests /\ CommitsInOrder

-----------------------------------------------------------------------------
(* Patches                                                                 *)

LEMMA PatchTypes ==
  /\ NoPatch \in Patch
  /\ \A f \in Field, e \in Edit : /\ PatchOf(f, e) \in Patch /\ PatchOf(f, e)[f] = e
                                  /\ \A g \in Field \ {f} : PatchOf(f, e)[g] = None
  /\ \A p, later \in Patch : Over(p, later) \in Patch
  /\ \A p \in Patch, n \in Nat : Rebased(p, n) \in Patch
BY DEF NoPatch, PatchOf, Over, Rebased, Patch, Edit

LEMMA NoPatchIsEmpty ==
  /\ \A p \in Patch : p = NoPatch <=> \A f \in Field : p[f] = None
  /\ \A f \in Field : NoPatch[f] = None
BY DEF NoPatch, Patch

LEMMA EditIsSome == \A e \in Edit : e # None /\ e.text \in Texts /\ e.text # None /\ e.base \in Nat
BY NoneAssumption DEF Edit

LEMMA OverFields ==
  ASSUME NEW p \in Patch, NEW later \in Patch
  PROVE  /\ \A f \in Field : Over(p, later)[f] = IF later[f] = None THEN p[f] ELSE later[f]
         /\ Over(p, later) = NoPatch <=> p = NoPatch /\ later = NoPatch
         /\ p = NoPatch => Over(p, later) = later
<1>1. \A f \in Field : Over(p, later)[f] = IF later[f] = None THEN p[f] ELSE later[f]
  BY DEF Over
<1>2. Over(p, later) = NoPatch <=> p = NoPatch /\ later = NoPatch
  BY <1>1, PatchTypes, NoPatchIsEmpty
<1>3. ASSUME p = NoPatch PROVE Over(p, later) = later
  <2>1. \A f \in Field : Over(p, later)[f] = later[f]
    BY <1>1, <1>3, NoPatchIsEmpty
  <2> QED
    BY <2>1, PatchTypes DEF Patch
<1> QED
  BY <1>1, <1>2, <1>3

LEMMA RebasedFields ==
  ASSUME NEW p \in Patch, NEW n \in Nat
  PROVE  /\ \A f \in Field : /\ Rebased(p, n)[f] = None <=> p[f] = None
                             /\ p[f] # None => /\ Rebased(p, n)[f].text = p[f].text
                                               /\ Rebased(p, n)[f].base = n
         /\ Rebased(p, n) = NoPatch <=> p = NoPatch
<1>1. ASSUME NEW f \in Field, p[f] # None
      PROVE  /\ Rebased(p, n)[f] # None /\ Rebased(p, n)[f].text = p[f].text
             /\ Rebased(p, n)[f].base = n
  <2>1. PICK e \in Edit : e = p[f]
    BY <1>1 DEF Patch
  <2>2. Rebased(p, n)[f] = [e EXCEPT !.base = n]
    BY <1>1, <2>1 DEF Rebased
  <2>3. [e EXCEPT !.base = n] \in Edit /\ [e EXCEPT !.base = n].text = e.text
        /\ [e EXCEPT !.base = n].base = n
    BY DEF Edit
  <2> QED
    BY <2>1, <2>2, <2>3, EditIsSome
<1>2. \A f \in Field : p[f] = None => Rebased(p, n)[f] = None
  BY DEF Rebased
<1>3. Rebased(p, n) = NoPatch <=> p = NoPatch
  BY <1>1, <1>2, PatchTypes, NoPatchIsEmpty
<1> QED
  BY <1>1, <1>2, <1>3

\* What is written is a record.
LEMMA PatchedRecord ==
  ASSUME TypeOK, NEW r \in Request
  PROVE  /\ Patched(r) \in Record
         /\ Patched(r).revision = row.revision + 1
         /\ \A f \in Field : Patched(r)[f] = IF r.patch[f] = None THEN row[f] ELSE r.patch[f].text
         /\ Patched(r).content = IF r.patch["content"] = None THEN row.content
                                 ELSE r.patch["content"].text
<1>1. row \in Record /\ r.patch \in Patch
  BY DEF TypeOK, Request
<1>2. \A f \in Field : r.patch[f] # None => r.patch[f].text \in Texts
  BY <1>1, EditIsSome DEF Patch
<1>3. row.revision + 1 \in Nat /\ row["content"] \in Texts /\ row["title"] \in Texts
  BY <1>1 DEF Record
<1>4. DOMAIN Patched(r) = {"revision", "content", "title"}
  BY DEF Patched, Field
<1>5. /\ Patched(r)["revision"] = row.revision + 1
      /\ Patched(r)["content"] = IF r.patch["content"] = None THEN row["content"]
                                 ELSE r.patch["content"].text
      /\ Patched(r)["title"] = IF r.patch["title"] = None THEN row["title"]
                               ELSE r.patch["title"].text
  BY DEF Patched, Field
<1>6. Patched(r) = [revision |-> Patched(r)["revision"], content |-> Patched(r)["content"],
                    title |-> Patched(r)["title"]]
  BY <1>4 DEF Patched, Field
<1>7. Patched(r) \in Record
  BY <1>2, <1>3, <1>5, <1>6 DEF Record, Field
<1> QED
  BY <1>5, <1>7 DEF Field

LEMMA DigestOf ==
  ASSUME NEW r \in Request
  PROVE  /\ Digest(r) \in Nat \X [Field -> Texts \cup {None}]
         /\ Digest(r)[1] = r.revision
         /\ \A f \in Field : Digest(r)[2][f] = TextOf(r.patch, f)
<1>1. \A f \in Field : TextOf(r.patch, f) \in Texts \cup {None}
  BY EditIsSome DEF Request, Patch, TextOf
<1>2. Digest(r) = <<r.revision, [f \in Field |-> TextOf(r.patch, f)]>>
  BY DEF Digest, TextOf
<1> QED
  BY <1>1, <1>2 DEF Request

-----------------------------------------------------------------------------
(* What the steps do                                                       *)

Queued == <<stored, net, q>>

\* A request for the patch p starts, on the record current, under a key that is kept or new.
NewRequest(p, current, key) ==
  [key |-> IF key = None THEN Len(stored) + 1 ELSE key, revision |-> current.revision, patch |-> p]

Starts(p, current, key) ==
  /\ q' \in SaveQueue
  /\ q'.pending = NoPatch /\ q'.failed = NoPatch /\ q'.current = current
  /\ q'.running = NewRequest(p, current, key) /\ q'.key = NewRequest(p, current, key).key
  /\ net' = net \cup {NewRequest(p, current, key)}
  /\ stored' = IF key = None THEN Append(stored, None) ELSE stored

\* A request may start: the patch says something, and a key that is kept is a key of the server.
MayStart(p, current, key) ==
  /\ p \in Patch /\ p # NoPatch /\ current \in Record
  /\ key # None => key \in DOMAIN stored

\* What the queue holds of a patch stays where it is.
Holds(pending) ==
  /\ q' \in SaveQueue
  /\ q'.pending = pending /\ q'.failed = q.failed /\ q'.current = q.current
  /\ q'.running = q.running /\ q'.key = q.key
  /\ UNCHANGED <<net, stored>>

\* The running request becomes what failed.
Fails ==
  /\ q.running # None
  /\ q' \in SaveQueue
  /\ q'.pending = q.pending /\ q'.failed = q.running.patch /\ q'.current = q.current
  /\ q'.running = None /\ q'.key = q.key
  /\ UNCHANGED <<net, stored>>

\* It was the last one.
Ends(current) ==
  /\ q' \in SaveQueue
  /\ q'.pending = NoPatch /\ q'.failed = NoPatch /\ q'.current = current
  /\ q'.running = None /\ q'.key = None
  /\ UNCHANGED <<net, stored>>

\* The reader who left stays away, and the dialog asks about what failed.
PanelFits ==
  /\ panel' \in {"open", "settling", "asked", "left"}
  /\ panel' = "asked" => q'.failed # NoPatch
  /\ panel' # "left" => panel # "left"

Counted == edits' \in Nat /\ errors' \in Nat /\ others' \in Nat

LEMMA RequestIsNew ==
  ASSUME TypeOK, NEW p, NEW current, NEW key, MayStart(p, current, key)
  PROVE  LET r == NewRequest(p, current, key) IN
         /\ r \in Request /\ r.patch = p /\ r.revision = current.revision
         /\ key # None => r.key = key
         /\ key = None => r.key = Len(stored) + 1 /\ r.key \notin DOMAIN stored
BY NoneAssumption DEF TypeOK, MayStart, NewRequest, Request, Record

LEMMA DrainStarts ==
  ASSUME TypeOK, QueueFits, NEW k \in SaveQueue, Queue(Drained(k)),
         k.running = None, k.failed = NoPatch, MayStart(k.pending, k.current, k.key),
         q.running = None \/ k.key = None
  PROVE  Starts(k.pending, k.current, k.key)
<1> DEFINE r == NewRequest(k.pending, k.current, k.key)
<1>1. r \in Request /\ r # None
      /\ (k.key # None => r.key = k.key)
      /\ (k.key = None => r.key = Len(stored) + 1 /\ r.key \notin DOMAIN stored)
  BY RequestIsNew, NoneAssumption
<1>2. Drained(k) = [k EXCEPT !.pending = NoPatch, !.key = r.key, !.running = r]
  BY DEF Drained, NewRequest, MayStart
<1>3. r.key \in Nat
  BY <1>1 DEF Request
<1> HIDE DEF r
<1>4. /\ Drained(k) \in SaveQueue
      /\ Drained(k).pending = NoPatch /\ Drained(k).failed = NoPatch
      /\ Drained(k).current = k.current /\ Drained(k).running = r /\ Drained(k).key = r.key
  BY <1>1, <1>2, <1>3, PatchTypes DEF SaveQueue
<1>5. r # q.running
  BY <1>1 DEF QueueFits
<1>6. net' = net \cup {r}
      /\ stored' = IF r.key > Len(stored) THEN Append(stored, None) ELSE stored
  BY <1>1, <1>4, <1>5 DEF Queue
<1>7. r.key > Len(stored) <=> k.key = None
  BY <1>1, <1>3 DEF TypeOK, MayStart
<1> QED
  BY <1>4, <1>6, <1>7 DEF Starts, Queue, r

LEMMA DrainHolds ==
  ASSUME TypeOK, NEW k \in SaveQueue, Queue(Drained(k)),
         k.running # None \/ k.failed # NoPatch \/ k.pending = NoPatch,
         k.running \in {None, q.running}
  PROVE  q' = k /\ UNCHANGED <<net, stored>>
BY DEF Drained, Queue

\* save: a request starts on the newer of two records, or the patch waits on top of what is there.
LEMMA SaveShape ==
  ASSUME IInv, NEW e \in Record, NEW f \in Field, NEW edit \in Edit,
         Queue(Saved(q, e, PatchOf(f, edit)))
  PROVE  \/ /\ q.running = None /\ q.failed = NoPatch /\ q.pending = NoPatch /\ q.key = None
            /\ \E current \in Record :
                 /\ MayStart(PatchOf(f, edit), current, None)
                 /\ Starts(PatchOf(f, edit), current, None)
                 /\ current = e \/ (current = q.current /\ e.revision <= current.revision)
         \/ /\ q.running # None \/ q.failed # NoPatch
            /\ Holds(Over(q.pending, PatchOf(f, edit)))
<1> DEFINE p == PatchOf(f, edit)
           k == [Based(q, e) EXCEPT !.pending = Over(@, p)]
<1>1. p \in Patch /\ p # NoPatch /\ q \in SaveQueue /\ q.pending \in Patch
  <2>1. p \in Patch /\ p[f] # None /\ NoPatch[f] = None
    BY PatchTypes, NoPatchIsEmpty, EditIsSome
  <2>2. q \in SaveQueue /\ q.pending \in Patch
    BY DEF IInv, TypeOK, SaveQueue
  <2> QED
    BY <2>1, <2>2
<1>2. Queue(Drained(k))
  BY DEF Saved
<1>3. CASE q.running = None /\ q.failed = NoPatch
  <2> DEFINE current == IF q.current = None \/ e.revision > q.current.revision THEN e ELSE q.current
  <2>1. q.pending = NoPatch /\ q.key = None
    BY <1>3 DEF IInv, QueueFits
  <2>2. current \in Record /\ (current = e \/ (current = q.current /\ e.revision <= current.revision))
    BY <1>1 DEF SaveQueue, Record
  <2>3. Based(q, e) \in SaveQueue /\ Based(q, e) = [q EXCEPT !.current = current]
    BY <1>1, <1>3 DEF Based, SaveQueue
  <2>4. Over(q.pending, p) = p
    BY <1>1, <2>1, OverFields
  <2> HIDE DEF current, p
  <2>5. /\ k \in SaveQueue /\ k.running = None /\ k.failed = NoPatch /\ k.pending = p
        /\ k.current = current /\ k.key = None
    BY <1>1, <1>3, <2>1, <2>2, <2>3, <2>4 DEF SaveQueue
  <2>6. MayStart(p, current, None)
    BY <1>1, <2>2 DEF MayStart
  <2> HIDE DEF k
  <2>7. Starts(p, current, None)
    BY <1>2, <1>3, <2>5, <2>6, DrainStarts DEF IInv
  <2> QED
    BY <1>3, <2>1, <2>2, <2>6, <2>7 DEF p
<1>4. CASE q.running # None \/ q.failed # NoPatch
  <2>1. Based(q, e) = q
    BY <1>4 DEF Based
  <2>2. Over(q.pending, p) \in Patch
    BY <1>1, PatchTypes
  <2> HIDE DEF p
  <2>3. /\ k \in SaveQueue /\ k.running = q.running /\ k.failed = q.failed
        /\ k.pending = Over(q.pending, p) /\ k.current = q.current /\ k.key = q.key
    BY <1>1, <2>1, <2>2 DEF SaveQueue
  <2> HIDE DEF k
  <2>4. q' = k /\ UNCHANGED <<net, stored>>
    BY <1>2, <1>4, <2>3, DrainHolds DEF IInv
  <2> QED
    BY <1>4, <2>3, <2>4 DEF Holds, p
<1> QED
  BY <1>3, <1>4

\* Retry and the retry after a conflict.
LEMMA RetryShape ==
  ASSUME IInv, NEW k \in SaveQueue, Queue(Retried(k)), k.running = None, q.running = None,
         k.failed # NoPatch, k.current # None, k.key # None => k.key \in DOMAIN stored
  PROVE  /\ MayStart(Over(k.failed, k.pending), k.current, k.key)
         /\ Starts(Over(k.failed, k.pending), k.current, k.key)
<1> DEFINE p == Over(k.failed, k.pending)
           j == [k EXCEPT !.pending = p, !.failed = NoPatch]
<1>1. p \in Patch /\ p # NoPatch
  BY PatchTypes, OverFields DEF SaveQueue
<1>2. Queue(Drained(j))
  BY DEF Retried
<1> HIDE DEF p
<1>3. /\ j \in SaveQueue /\ j.running = None /\ j.failed = NoPatch /\ j.pending = p
      /\ j.current = k.current /\ j.key = k.key
  BY <1>1, PatchTypes DEF SaveQueue
<1>4. MayStart(p, k.current, k.key)
  BY <1>1 DEF MayStart, SaveQueue
<1> HIDE DEF j
<1>5. Starts(p, k.current, k.key)
  BY <1>2, <1>3, <1>4, DrainStarts DEF IInv
<1> QED
  BY <1>4, <1>5 DEF p

\* The answer of the running request.
LEMMA ReceiveShape ==
  ASSUME IInv, Receive
  PROVE  /\ q.running # None /\ reply' = <<>> /\ PanelFits
         /\ \/ Head(reply) = None /\ Fails
            \/ /\ Head(reply) \in Record
               /\ \/ q.pending = NoPatch /\ Ends(Head(reply))
                  \/ MayStart(q.pending, Head(reply), None) /\ Starts(q.pending, Head(reply), None)
<1>1. /\ q \in SaveQueue /\ q.running # None /\ reply # <<>> /\ reply' = <<>>
      /\ Head(reply) \in Record \cup {None} /\ panel \in {"open", "settling", "asked", "left"}
  BY DEF Receive, IInv, TypeOK, AnswersFit
<1>2. q.running.patch \in Patch /\ q.running.patch # NoPatch /\ q.pending \in Patch
  BY <1>1 DEF SaveQueue, Request, IInv, QueueFits
<1> DEFINE ended == IF Head(reply) = None
                    THEN [q EXCEPT !.running = None, !.failed = q.running.patch, !.conflict = TRUE]
                    ELSE [q EXCEPT !.running = None, !.failed = NoPatch, !.current = Head(reply),
                                   !.key = None, !.conflict = FALSE]
<1>3. Queue(Drained(ended)) /\ panel' = Guarded(Drained(ended)) /\ q' = Drained(ended)
  BY DEF Receive, Queue
<1>4. PanelFits
  <2>1. Idle(q') \/ q'.failed # NoPatch \/ q'.running # None
    BY <1>3 DEF Drained, Idle
  <2>2. panel # "asked"
    BY <1>1 DEF IInv, QueueFits
  <2> QED
    BY <1>1, <1>3, <2>1, <2>2 DEF Guarded, PanelFits
<1>5. CASE Head(reply) = None
  <2>1. /\ ended \in SaveQueue /\ ended.pending = q.pending /\ ended.failed = q.running.patch
        /\ ended.current = q.current /\ ended.running = None /\ ended.key = q.key
    BY <1>1, <1>2, <1>5 DEF SaveQueue
  <2> HIDE DEF ended
  <2>2. q' = ended /\ UNCHANGED <<net, stored>>
    BY <1>2, <1>3, <2>1, DrainHolds DEF IInv
  <2> QED
    BY <1>1, <1>4, <1>5, <2>1, <2>2 DEF Fails
<1>6. CASE Head(reply) # None
  <2>1. /\ ended \in SaveQueue /\ ended.pending = q.pending /\ ended.failed = NoPatch
        /\ ended.current = Head(reply) /\ ended.running = None /\ ended.key = None
    BY <1>1, <1>2, <1>6, PatchTypes DEF SaveQueue
  <2> HIDE DEF ended
  <2>2. CASE q.pending = NoPatch
    <3>1. q' = ended /\ UNCHANGED <<net, stored>>
      BY <1>3, <2>1, <2>2, DrainHolds DEF IInv
    <3> QED
      BY <1>1, <1>4, <1>6, <2>1, <2>2, <3>1 DEF Ends
  <2>3. CASE q.pending # NoPatch
    <3>1. MayStart(q.pending, Head(reply), None)
      BY <1>1, <1>2, <1>6, <2>3 DEF MayStart
    <3>2. Starts(q.pending, Head(reply), None)
      BY <1>3, <2>1, <3>1, DrainStarts DEF IInv
    <3> QED
      BY <1>1, <1>4, <1>6, <3>1, <3>2
  <2> QED
    BY <2>2, <2>3
<1> QED
  BY <1>5, <1>6

\* Nothing happens but at the keyboard, on the network or in the dialog.
Calm ==
  /\ UNCHANGED <<row, stored, reply, q, item, waiting, history>>
  /\ field'.sent = field.sent /\ field'.last = field.last /\ field'.draft \in Texts
  /\ field' \in [draft: Texts, sent: Seq(Texts), last: Texts]
  /\ net' \subseteq net /\ PanelFits /\ Counted

Commits ==
  /\ Committed
  /\ UNCHANGED <<row, stored, net, reply, q, item>>
  /\ PanelFits /\ Counted

\* An edit of the field f made on the record e is saved.
AsksFor(e, f, edit) ==
  /\ history' = [history EXCEPT !.asked[f] = edit.text]
  /\ UNCHANGED <<row, reply, item, field, panel>> /\ Counted
  /\ edit.base = e.revision /\ e.revision <= item.revision
  /\ edit.late \/ e.revision = item.revision
  /\ \/ f = "title" /\ UNCHANGED waiting /\ panel # "left"
     \/ /\ f = "content" /\ waiting # <<>> /\ waiting' = Tail(waiting)
        /\ edit.text = Head(waiting).text
  /\ \/ /\ q.running = None /\ q.failed = NoPatch /\ q.pending = NoPatch /\ q.key = None
        /\ \E current \in Record :
             /\ MayStart(PatchOf(f, edit), current, None)
             /\ Starts(PatchOf(f, edit), current, None)
             /\ current = e \/ (current = q.current /\ e.revision <= current.revision)
     \/ /\ q.running # None \/ q.failed # NoPatch
        /\ Holds(Over(q.pending, PatchOf(f, edit)))

Asks == \E e \in Record, f \in Field, edit \in Edit : AsksFor(e, f, edit)

Retries ==
  /\ q.running = None /\ q.failed # NoPatch /\ q.current # None /\ panel # "left"
  /\ UNCHANGED <<row, reply, waiting>> /\ PanelFits /\ Counted
  /\ \/ /\ MayStart(Over(q.failed, q.pending), q.current, q.key)
        /\ Starts(Over(q.failed, q.pending), q.current, q.key)
        /\ UNCHANGED <<item, field, history>>
     \/ \E latest \in {row, item} :
          LET p == Over(Rebased(q.failed, latest.revision), Rebased(q.pending, latest.revision)) IN
          /\ MayStart(p, latest, None) /\ Starts(p, latest, None)
          /\ Show(latest)

Refetches ==
  /\ panel # "left" /\ Show(row)
  /\ UNCHANGED <<row, stored, net, reply, q, waiting, panel>> /\ Counted

Loses ==
  /\ Fails /\ PanelFits /\ reply' = <<>>
  /\ UNCHANGED <<row, item, field, waiting, history>> /\ Counted

Succeeds ==
  /\ q.running # None /\ reply # <<>> /\ Head(reply) \in Record /\ reply' = <<>> /\ PanelFits
  /\ UNCHANGED <<row, item, field, waiting, history>> /\ Counted
  /\ \/ q.pending = NoPatch /\ Ends(Head(reply))
     \/ MayStart(q.pending, Head(reply), None) /\ Starts(q.pending, Head(reply), None)

Discards ==
  /\ Discard /\ q' \in SaveQueue /\ q.running = None /\ Counted
  /\ q'.pending = NoPatch /\ q'.failed = NoPatch /\ q'.key = None
  /\ q'.running = None /\ q'.current = q.current

LEMMA Typed ==
  ASSUME IInv
  PROVE  /\ row \in Record /\ item \in Record /\ q \in SaveQueue
         /\ field \in [draft: Texts, sent: Seq(Texts), last: Texts]
         /\ panel \in {"open", "settling", "asked", "left"}
         /\ edits \in Nat /\ errors \in Nat /\ others \in Nat
         /\ edits + 1 \in Nat /\ errors + 1 \in Nat /\ others + 1 \in Nat
BY DEF IInv, TypeOK

LEMMA AsksKind ==
  ASSUME IInv, SaveWaiting \/ \E text \in Text : SaveTitle(text)
  PROVE  Asks
<1>1. ASSUME NEW text \in Text, SaveTitle(text) PROVE Asks
  <2> DEFINE edit == [text |-> text, base |-> item.revision, late |-> FALSE]
  <2>1. item \in Record /\ item.revision \in Nat
    BY Typed DEF Record
  <2>2. edit \in Edit /\ edit.text = text /\ edit.base = item.revision /\ "title" \in Field
    BY <2>1 DEF Edit, Texts, Field
  <2>3. /\ Queue(Saved(q, item, PatchOf("title", edit)))
        /\ history' = [history EXCEPT !.asked["title"] = edit.text]
        /\ UNCHANGED <<row, reply, item, field, panel>> /\ Counted
        /\ UNCHANGED waiting /\ panel # "left"
    BY <1>1, Typed DEF SaveTitle, Ask, Counted, Present
  <2> HIDE DEF edit
  <2>4. AsksFor(item, "title", edit)
    BY <2>1, <2>2, <2>3, SaveShape DEF AsksFor
  <2> QED
    BY <2>1, <2>2, <2>4 DEF Asks
<1>2. ASSUME SaveWaiting PROVE Asks
  <2>0. waiting \in Seq([text: Texts, entity: Record]) /\ waiting # <<>>
    BY <1>2 DEF SaveWaiting, IInv, TypeOK
  <2>1. PICK c \in [text: Texts, entity: Record] :
          /\ c = Head(waiting) /\ 1 \in DOMAIN waiting /\ waiting[1] = c
    <3>1. Head(waiting) \in [text: Texts, entity: Record]
      BY <2>0, HeadTailProperties
    <3>2. 1 \in DOMAIN waiting /\ Head(waiting) = waiting[1]
      BY <2>0
    <3> QED
      BY <3>1, <3>2
  <2> DEFINE e == c.entity
             edit == [text |-> c.text, base |-> e.revision, late |-> item.revision > e.revision]
  <2>2. /\ e \in Record /\ e.revision \in Nat /\ item.revision \in Nat /\ "content" \in Field
        /\ e.revision <= item.revision
    <3>1. waiting[1].entity.revision <= item.revision
      BY <2>1 DEF IInv, RevisionsFit
    <3>2. e.revision <= item.revision
      BY <2>1, <3>1
    <3>3. e \in Record /\ item \in Record
      BY <2>1, Typed
    <3> HIDE DEF e
    <3> QED
      BY <3>2, <3>3 DEF Record, Field
  <2>3. /\ edit \in Edit /\ edit.text = c.text /\ edit.base = e.revision
        /\ edit.late \/ e.revision = item.revision
    <3>1. c.text \in Texts
      BY <2>1
    <3>2. \A b \in BOOLEAN, n \in Nat : [text |-> c.text, base |-> n, late |-> b] \in Edit
      BY <3>1 DEF Edit
    <3> HIDE DEF e
    <3>3. (item.revision > e.revision) \in BOOLEAN
      BY <2>2
    <3>4. edit \in Edit /\ edit.text = c.text /\ edit.base = e.revision
          /\ edit.late = (item.revision > e.revision)
      BY <2>2, <3>2, <3>3, Zenon
    <3>5. item.revision > e.revision \/ e.revision = item.revision
      BY <2>2
    <3> HIDE DEF edit
    <3> QED
      BY <3>4, <3>5, Zenon
  <2>4. /\ Queue(Saved(q, e, PatchOf("content", edit)))
        /\ history' = [history EXCEPT !.asked["content"] = edit.text]
        /\ UNCHANGED <<row, reply, item, field, panel>> /\ Counted
        /\ waiting' = Tail(waiting)
    <3>1. Queue(Saved(q, e, PatchOf("content", edit)))
      BY <1>2, <2>1 DEF SaveWaiting
    <3>2. Ask("content", edit.text)
      BY <1>2, <2>1 DEF SaveWaiting
    <3>3. /\ UNCHANGED <<row, reply, item, field, panel, edits, errors, others>>
          /\ waiting' = Tail(waiting)
      BY <1>2 DEF SaveWaiting
    <3> QED
      BY <3>1, <3>2, <3>3, Typed, Zenon DEF Ask, Counted
  <2> HIDE DEF e, edit
  <2>5. AsksFor(e, "content", edit)
    BY <2>1, <2>2, <2>3, <2>4, SaveShape DEF AsksFor
  <2> QED
    BY <2>2, <2>3, <2>5 DEF Asks
<1> QED
  BY <1>1, <1>2

LEMMA RetriesKind ==
  ASSUME IInv, Retry \/ Reapply
  PROVE  Retries
<1>1. /\ q.failed # NoPatch /\ panel # "left" /\ q.running = None /\ q.current # None
      /\ q \in SaveQueue /\ (q.key # None => q.key \in DOMAIN stored)
  BY Typed DEF Retry, Reapply, IInv, QueueFits
<1>2. CASE Retry
  <2>1. /\ MayStart(Over(q.failed, q.pending), q.current, q.key)
        /\ Starts(Over(q.failed, q.pending), q.current, q.key)
    BY <1>1, <1>2, RetryShape DEF Retry
  <2>2. PanelFits
    BY <1>1, <1>2, <2>1, Typed DEF Retry, PanelFits
  <2> QED
    BY <1>1, <1>2, <2>1, <2>2, Typed DEF Retry, Retries, Counted
<1>3. CASE Reapply
  <2>1. PICK latest \in {row, item} :
          /\ errors' = IF latest = row THEN errors ELSE errors + 1
          /\ Show(latest)
          /\ Queue(Retried([q EXCEPT !.current = latest, !.key = None,
                                     !.failed = Rebased(@, latest.revision),
                                     !.pending = Rebased(@, latest.revision)]))
    BY <1>3 DEF Reapply
  <2> DEFINE n == latest.revision
             k == [q EXCEPT !.current = latest, !.key = None, !.failed = Rebased(q.failed, n),
                            !.pending = Rebased(q.pending, n)]
  <2>2. latest \in Record /\ latest # None /\ n \in Nat
    BY Typed, NoneAssumption DEF Record
  <2>3. /\ Rebased(q.failed, n) \in Patch /\ Rebased(q.pending, n) \in Patch
        /\ Rebased(q.failed, n) # NoPatch
    BY <1>1, <2>2, PatchTypes, RebasedFields DEF SaveQueue
  <2> HIDE DEF n
  <2>4. /\ k \in SaveQueue /\ k.current = latest /\ k.key = None /\ k.running = None
        /\ k.failed = Rebased(q.failed, n) /\ k.pending = Rebased(q.pending, n)
    BY <1>1, <2>2, <2>3 DEF SaveQueue
  <2>5. Queue(Retried(k))
    BY <2>1 DEF n
  <2> HIDE DEF k
  <2>6. /\ MayStart(Over(k.failed, k.pending), latest, None)
        /\ Starts(Over(k.failed, k.pending), latest, None)
    BY <1>1, <2>2, <2>3, <2>4, <2>5, RetryShape
  <2>7. PanelFits
    BY <1>1, <1>3, <2>6, Typed DEF Reapply, PanelFits
  <2>8. Counted
    BY <1>3, <2>1, Typed DEF Reapply, Counted
  <2> QED
    BY <1>1, <1>3, <2>1, <2>4, <2>6, <2>7, <2>8 DEF Reapply, Retries, n
<1> QED
  BY <1>2, <1>3

\* The panel where nothing of the queue changes.
LEMMA PanelRests ==
  ASSUME IInv, UNCHANGED q, panel' = panel \/ (panel = "asked" /\ panel' = "open")
  PROVE  PanelFits
BY Typed DEF PanelFits, IInv, QueueFits

LEMMA LeaveKind ==
  ASSUME IInv, Leave
  PROVE  Calm \/ Commits
<1>1. PanelFits
  BY Typed DEF Leave, PanelFits, Idle, IInv, QueueFits
<1>2. Counted
  BY Typed DEF Leave, Counted
<1>3. CASE Moved
  BY <1>1, <1>2, <1>3 DEF Leave, Commits
<1>4. CASE ~ Moved
  BY <1>1, <1>2, <1>4, Typed DEF Leave, Calm
<1> QED
  BY <1>3, <1>4

LEMMA CalmKind ==
  ASSUME IInv, \/ UNCHANGED vars
               \/ \E text \in Text : Type(text)
               \/ \E r \in net : Drop(r)
               \/ Cancel
  PROVE  Calm
<1>1. CASE UNCHANGED vars
  BY <1>1, PanelRests, Typed DEF vars, Calm, Counted
<1>2. ASSUME NEW text \in Text, Type(text) PROVE Calm
  <2>1. field' = [field EXCEPT !.draft = text] /\ text \in Texts
    BY <1>2 DEF Type, Texts
  <2>2. /\ field'.sent = field.sent /\ field'.last = field.last /\ field'.draft \in Texts
        /\ field' \in [draft: Texts, sent: Seq(Texts), last: Texts]
    BY <2>1, Typed
  <2> QED
    BY <1>2, <2>2, PanelRests, Typed DEF Type, Calm, Counted
<1>3. ASSUME NEW r \in net, Drop(r) PROVE Calm
  BY <1>3, PanelRests, Typed DEF Drop, Calm, Counted
<1>4. CASE Cancel
  BY <1>4, PanelRests, Typed DEF Cancel, Calm, Counted
<1> QED
  BY <1>1, <1>2, <1>3, <1>4

LEMMA LoseKind ==
  ASSUME IInv, Lose
  PROVE  Loses
<1> DEFINE ended == [q EXCEPT !.running = None, !.failed = q.running.patch, !.conflict = FALSE]
<1>1. q \in SaveQueue /\ q.running # None /\ q' = ended /\ panel' = Guarded(ended)
  BY Typed DEF Lose
<1>2. q.running.patch \in Patch /\ q.running.patch # NoPatch /\ panel # "asked"
  BY <1>1 DEF SaveQueue, Request, IInv, QueueFits
<1>3. /\ ended \in SaveQueue /\ ended.pending = q.pending /\ ended.failed = q.running.patch
      /\ ended.current = q.current /\ ended.running = None /\ ended.key = q.key
  BY <1>1, <1>2 DEF SaveQueue
<1> HIDE DEF ended
<1>4. Fails
  BY <1>1, <1>3 DEF Fails, Lose
<1>5. PanelFits
  BY <1>1, <1>2, <1>3, Typed DEF PanelFits, Guarded, Idle
<1> QED
  BY <1>4, <1>5, Typed DEF Lose, Loses, Counted

LEMMA ReceiveKind ==
  ASSUME IInv, Receive
  PROVE  Loses \/ Succeeds
<1>1. reply # <<>> /\ UNCHANGED <<row, item, field, waiting, history>> /\ Counted
  BY Typed DEF Receive, Counted
<1> QED
  BY <1>1, ReceiveShape DEF Loses, Succeeds

LEMMA DiscardKind ==
  ASSUME IInv, Discard
  PROVE  Discards
<1>1. q \in SaveQueue /\ q.running = None
  BY Typed DEF Discard, IInv, QueueFits
<1>2. q' = [q EXCEPT !.failed = NoPatch, !.pending = NoPatch, !.key = None, !.conflict = FALSE]
  BY DEF Discard
<1>3. /\ q' \in SaveQueue /\ q'.pending = NoPatch /\ q'.failed = NoPatch /\ q'.key = None
      /\ q'.running = None /\ q'.current = q.current
  BY <1>1, <1>2, PatchTypes DEF SaveQueue
<1> QED
  BY <1>1, <1>3, Typed DEF Discards, Discard, Counted

\* Every step is of one of these kinds.
LEMMA StepKind ==
  ASSUME IInv, [Next]_vars
  PROVE  \/ Calm \/ Commits \/ Asks \/ Retries \/ Refetches \/ Loses \/ Succeeds \/ Discards
         \/ \E r \in net : Serve(r)
         \/ \E f \in Field, text \in OtherText : OutsideEdit(f, text)
<1>1. CASE CommitDraft
  BY <1>1, PanelRests, Typed DEF CommitDraft, Commits, Counted
<1>2. CASE Refetch
  BY <1>2, Typed DEF Refetch, Refetches, Counted
<1> QED
  BY <1>1, <1>2, CalmKind, AsksKind, RetriesKind, LeaveKind, LoseKind, ReceiveKind, DiscardKind
     DEF Next

-----------------------------------------------------------------------------
(* What the steps leave                                                    *)

History == [asked: [Field -> Texts \cup {None}], written: [Field -> Texts \cup {None}],
            outside: [Field -> Nat], ours: BOOLEAN, disturbed: BOOLEAN, echoed: BOOLEAN]

FieldState == [draft: Texts, sent: Seq(Texts), last: Texts]

\* Keys are handed out, and nothing is answered.
KeysGrow ==
  /\ stored' \in Seq(Stored \cup {None})
  /\ \A k \in DOMAIN stored : k \in DOMAIN stored' /\ stored'[k] = stored[k]
  /\ \A k \in DOMAIN stored' : stored'[k] # None => k \in DOMAIN stored

\* The request r has started for the patch p.
Started(r, p, current, key) ==
  /\ r \in Request /\ r # None /\ r.patch = p /\ r.revision = current.revision
  /\ p \in Patch /\ p # NoPatch /\ current \in Record
  /\ q' \in SaveQueue /\ q'.pending = NoPatch /\ q'.failed = NoPatch /\ q'.current = current
  /\ q'.running = r /\ q'.key = r.key
  /\ net' = net \cup {r}
  /\ KeysGrow /\ r.key \in DOMAIN stored'
  /\ key = None => stored'[r.key] = None
  /\ key # None => r.key = key /\ key \in DOMAIN stored /\ stored'[r.key] = stored[r.key]

\* All but the request lies where it was.
LEMMA StartFacts ==
  ASSUME IInv, NEW p, NEW current, NEW key, MayStart(p, current, key), Starts(p, current, key)
  PROVE  \E r \in Request : Started(r, p, current, key)
<1> DEFINE r == NewRequest(p, current, key)
<1>1. /\ r \in Request /\ r # None /\ r.patch = p /\ r.revision = current.revision
      /\ (key # None => r.key = key)
      /\ (key = None => r.key = Len(stored) + 1 /\ r.key \notin DOMAIN stored)
  BY RequestIsNew, NoneAssumption DEF IInv
<1>2. stored \in Seq(Stored \cup {None}) /\ None \in Stored \cup {None}
  BY DEF IInv, TypeOK
<1>3. CASE key = None
  <2>1. stored' = Append(stored, None)
    BY <1>3 DEF Starts
  <2>2. /\ stored' \in Seq(Stored \cup {None}) /\ Len(stored') = Len(stored) + 1
        /\ \A k \in 1 .. Len(stored) : stored'[k] = stored[k]
        /\ stored'[Len(stored) + 1] = None
    BY <1>2, <2>1, AppendProperties
  <2>3. DOMAIN stored = 1 .. Len(stored) /\ DOMAIN stored' = 1 .. Len(stored) + 1
        /\ Len(stored) \in Nat
    BY <1>2, <2>2
  <2> HIDE DEF r
  <2>4. KeysGrow /\ r.key \in DOMAIN stored' /\ stored'[r.key] = None
    <3>1. \A k \in DOMAIN stored : k \in DOMAIN stored' /\ stored'[k] = stored[k]
      BY <2>2, <2>3
    <3>2. \A k \in DOMAIN stored' : stored'[k] # None => k \in DOMAIN stored
      BY <2>2, <2>3
    <3> QED
      BY <1>1, <1>3, <2>2, <2>3, <3>1, <3>2 DEF KeysGrow
  <2> QED
    BY <1>1, <1>3, <2>4 DEF Started, Starts, MayStart, r
<1>4. CASE key # None
  <2>1. stored' = stored
    BY <1>4 DEF Starts
  <2> HIDE DEF r
  <2> QED
    BY <1>1, <1>2, <1>4, <2>1 DEF Started, Starts, MayStart, KeysGrow, r
<1> QED
  BY <1>3, <1>4

LEMMA Types ==
  ASSUME IInv
  PROVE  /\ history \in History /\ field \in FieldState
         /\ waiting \in Seq([text: Texts, entity: Record])
         /\ stored \in Seq(Stored \cup {None})
         /\ net \subseteq Request /\ \A r \in net : r.key \in DOMAIN stored
         /\ field.sent \in Seq(Texts) /\ field.draft \in Texts /\ field.last \in Texts
         /\ item.content \in Texts /\ row.content \in Texts /\ row.revision \in Nat
         /\ item.revision \in Nat
         /\ "content" \in Field /\ "title" \in Field
         /\ history.asked \in [Field -> Texts \cup {None}]
         /\ history.written \in [Field -> Texts \cup {None}]
         /\ history.outside \in [Field -> Nat]
         /\ q.pending \in Patch /\ q.failed \in Patch
         /\ q.running # None => q.running \in Request /\ q.running.patch \in Patch
         /\ q.current # None => q.current \in Record /\ q.current.revision \in Nat
<1>1. /\ history \in History /\ field \in FieldState /\ q \in SaveQueue
      /\ row \in Record /\ item \in Record
      /\ waiting \in Seq([text: Texts, entity: Record])
      /\ stored \in Seq(Stored \cup {None})
      /\ net \subseteq Request /\ \A r \in net : r.key \in DOMAIN stored
  BY DEF IInv, TypeOK, History, FieldState
<1>2. field.sent \in Seq(Texts) /\ field.draft \in Texts /\ field.last \in Texts
  BY <1>1 DEF FieldState
<1>3. /\ history.asked \in [Field -> Texts \cup {None}]
      /\ history.written \in [Field -> Texts \cup {None}]
      /\ history.outside \in [Field -> Nat]
  BY <1>1 DEF History
<1>4. /\ item.content \in Texts /\ row.content \in Texts /\ row.revision \in Nat
      /\ item.revision \in Nat
  BY <1>1 DEF Record
<1>5. q.pending \in Patch /\ q.failed \in Patch /\ q.running \in Request \cup {None}
      /\ q.current \in Record \cup {None}
  BY <1>1 DEF SaveQueue
<1>6. q.running # None => q.running \in Request /\ q.running.patch \in Patch
  BY <1>5 DEF Request
<1>7. q.current # None => q.current \in Record /\ q.current.revision \in Nat
  BY <1>5 DEF Record
<1> QED
  BY <1>1, <1>2, <1>3, <1>4, <1>5, <1>6, <1>7 DEF Field

\* What no commit, no save and no refetch changes.
SameHistory ==
  /\ history'.written = history.written /\ history'.outside = history.outside
  /\ history'.ours = history.ours

LEMMA CommitsEffect ==
  ASSUME IInv, Commits
  PROVE  /\ history' \in History /\ history'.asked = history.asked /\ SameHistory
         /\ history'.disturbed = history.disturbed
         /\ ~ history'.echoed => ~ history.echoed /\ ~ UnderWay(field.draft)
         /\ field' \in FieldState /\ field'.draft = field.draft /\ field'.last = field.draft
         /\ field'.sent = Append(field.sent, field.draft)
         /\ waiting' = Append(waiting, [text |-> field.draft, entity |-> item])
         /\ waiting' \in Seq([text: Texts, entity: Record])
<1>1. /\ field' = [field EXCEPT !.sent = Append(@, field.draft), !.last = field.draft]
      /\ waiting' = Append(waiting, [text |-> field.draft, entity |-> item])
      /\ history' = [history EXCEPT !.echoed = @ \/ UnderWay(field.draft)]
  BY DEF Commits, Committed
<1>2. PICK b \in BOOLEAN : b = (history.echoed \/ UnderWay(field.draft))
  BY Zenon
<1>3. history' = [history EXCEPT !.echoed = b]
  BY <1>1, <1>2
<1>4. /\ history' \in History /\ history'.asked = history.asked /\ SameHistory
      /\ history'.disturbed = history.disturbed /\ history'.echoed = b
  BY <1>3, Types DEF History, SameHistory
<1>5. ~ history'.echoed => ~ history.echoed /\ ~ UnderWay(field.draft)
  BY <1>2, <1>4, Zenon
<1>6. Append(field.sent, field.draft) \in Seq(Texts)
  BY Types, AppendProperties
<1>7. /\ field' \in FieldState /\ field'.draft = field.draft /\ field'.last = field.draft
      /\ field'.sent = Append(field.sent, field.draft)
  BY <1>1, <1>6, Types DEF FieldState
<1>8. [text |-> field.draft, entity |-> item] \in [text: Texts, entity: Record]
  BY Types, Typed
<1>9. waiting' \in Seq([text: Texts, entity: Record])
  BY <1>1, <1>8, Types, AppendProperties
<1> QED
  BY <1>1, <1>4, <1>5, <1>7, <1>9

LEMMA AskEffect ==
  ASSUME IInv, NEW f \in Field, NEW t \in Texts, history' = [history EXCEPT !.asked[f] = t]
  PROVE  /\ history' \in History /\ SameHistory
         /\ history'.disturbed = history.disturbed /\ history'.echoed = history.echoed
         /\ history'.asked[f] = t
         /\ \A g \in Field \ {f} : history'.asked[g] = history.asked[g]
<1> DEFINE asked == [history.asked EXCEPT ![f] = t]
<1>1. history' = [history EXCEPT !.asked = asked]
  BY Zenon
<1>2. /\ asked \in [Field -> Texts \cup {None}] /\ asked[f] = t
      /\ \A g \in Field \ {f} : asked[g] = history.asked[g]
  BY Types
<1> HIDE DEF asked
<1>3. /\ history' \in History /\ SameHistory /\ history'.asked = asked
      /\ history'.disturbed = history.disturbed /\ history'.echoed = history.echoed
  BY <1>1, <1>2, Types DEF History, SameHistory
<1> QED
  BY <1>2, <1>3

\* The page shows nothing new, a text of the field comes back, or somebody else's comes.
Shown(latest) ==
  /\ item' = latest /\ latest \in Record
  /\ latest.content \in Texts /\ latest.revision \in Nat
  /\ item.revision <= latest.revision /\ latest.revision <= row.revision
  /\ history' \in History /\ history'.asked = history.asked /\ SameHistory
  /\ history'.echoed = history.echoed
  /\ ~ history'.disturbed => ~ history.disturbed /\ ~ Disturbs(latest)
  /\ field' \in FieldState
  /\ \/ latest.content = item.content /\ field' = field
     \/ /\ latest.content # item.content
        /\ \E i \in DOMAIN field.sent :
             /\ field.sent[i] = latest.content
             /\ \A k \in 1 .. i - 1 : field.sent[k] # latest.content
             /\ field'.sent = SubSeq(field.sent, i + 1, Len(field.sent))
             /\ field'.draft = field.draft /\ field'.last = field.last
     \/ /\ latest.content # item.content /\ ~ Own(latest.content)
        /\ field'.sent = <<>> /\ field'.draft = latest.content /\ field'.last = latest.content

LEMMA OwnMeans == ASSUME IInv, NEW text
                  PROVE  Own(text) <=> \E i \in DOMAIN field.sent : field.sent[i] = text
BY DEF Own, Contains

LEMMA LeastNatural ==
  ASSUME NEW N \in SUBSET Nat, N # {}
  PROVE  \E n \in N : \A m \in N : n <= m
<1>1. PICK n \in N : \A m \in N : ~ (<<m, n>> \in OpToRel(<, Nat))
  BY NatLessThanWellFounded, WFMin
<1>2. \A m \in N : ~ (m < n)
  BY <1>1 DEF OpToRel
<1> QED
  BY <1>2

\* The first place of a text among those the field sent.
LEMMA FirstPlace ==
  ASSUME IInv, NEW text, Own(text)
  PROVE  \E i \in DOMAIN field.sent : /\ field.sent[i] = text
                                      /\ \A k \in 1 .. i - 1 : field.sent[k] # text
<1>1. DOMAIN field.sent = 1 .. Len(field.sent) /\ Len(field.sent) \in Nat
  BY Types
<1> DEFINE places == {i \in DOMAIN field.sent : field.sent[i] = text}
<1>2. places # {} /\ places \in SUBSET Nat
  BY <1>1, OwnMeans
<1>3. PICK i \in places : \A k \in places : i <= k
  <2> HIDE DEF places
  <2> QED
    BY <1>2, LeastNatural
<1>4. \A k \in 1 .. i - 1 : field.sent[k] # text
  BY <1>1, <1>3
<1> QED
  BY <1>3, <1>4

LEMMA ShowEffect ==
  ASSUME IInv, NEW latest \in {row, item}, Show(latest)
  PROVE  Shown(latest)
<1>1. /\ item' = latest /\ field' = Settled(latest)
      /\ history' = [history EXCEPT !.disturbed = @ \/ Disturbs(latest)]
  BY DEF Show
<1>2. /\ latest \in Record /\ latest.content \in Texts /\ latest.revision \in Nat
      /\ item.revision <= latest.revision /\ latest.revision <= row.revision
  BY Typed, Types DEF IInv, RevisionsFit
<1>3. PICK b \in BOOLEAN : b = (history.disturbed \/ Disturbs(latest))
  BY Zenon
<1>4. history' = [history EXCEPT !.disturbed = b]
  BY <1>1, <1>3
<1>5. /\ history' \in History /\ history'.asked = history.asked /\ SameHistory
      /\ history'.echoed = history.echoed /\ history'.disturbed = b
  BY <1>4, Types DEF History, SameHistory
<1>6. ~ history'.disturbed => ~ history.disturbed /\ ~ Disturbs(latest)
  BY <1>3, <1>5, Zenon
<1>7. CASE latest.content = item.content
  <2>1. field' = field /\ field' \in FieldState /\ item' = latest
    BY <1>1, <1>7, Types DEF Settled
  <2> QED
    BY <1>2, <1>5, <1>6, <1>7, <2>1 DEF Shown
<1>8. CASE latest.content # item.content /\ ~ Own(latest.content)
  <2>1. field' = [draft |-> latest.content, sent |-> <<>>, last |-> latest.content]
    BY <1>1, <1>8 DEF Settled
  <2>2. /\ field' \in FieldState /\ field'.sent = <<>> /\ field'.draft = latest.content
        /\ field'.last = latest.content
    BY <1>2, <2>1 DEF FieldState
  <2> QED
    BY <1>1, <1>2, <1>5, <1>6, <1>8, <2>2 DEF Shown
<1>9. CASE latest.content # item.content /\ Own(latest.content)
  <2> DEFINE First(i) == /\ field.sent[i] = latest.content
                         /\ \A k \in 1 .. i - 1 : field.sent[k] # latest.content
             i == CHOOSE i \in DOMAIN field.sent : First(i)
  <2>1. \E j \in DOMAIN field.sent : First(j)
    BY <1>9, FirstPlace
  <2>2. i \in DOMAIN field.sent /\ First(i)
    BY <2>1
  <2>3. field' = [field EXCEPT !.sent = SubSeq(@, i + 1, Len(@))]
    BY <1>1, <1>9 DEF Settled
  <2> HIDE DEF i
  <2>4. SubSeq(field.sent, i + 1, Len(field.sent)) \in Seq(Texts)
    BY <2>2, Types, SubSeqProperties
  <2>5. /\ field' \in FieldState /\ field'.sent = SubSeq(field.sent, i + 1, Len(field.sent))
        /\ field'.draft = field.draft /\ field'.last = field.last
    BY <2>3, <2>4, Types DEF FieldState
  <2> QED
    BY <1>1, <1>2, <1>5, <1>6, <1>9, <2>2, <2>5 DEF Shown
<1> QED
  BY <1>7, <1>8, <1>9

\* The server works a request, or only answers it.
Worked(r) ==
  /\ Writes(r)
  /\ row' = Patched(r) /\ row' \in Record /\ row'.revision = row.revision + 1
  /\ row'.content = IF r.patch["content"] = None THEN row.content ELSE r.patch["content"].text
  /\ r.revision = row.revision
  /\ stored' \in Seq(Stored \cup {None}) /\ DOMAIN stored' = DOMAIN stored
  /\ stored[r.key] = None /\ stored'[r.key] # None
  /\ stored'[r.key].digest = Digest(r) /\ stored'[r.key].row = row'
  /\ \A k \in DOMAIN stored \ {r.key} : stored'[k] = stored[k]
  /\ history' \in History /\ history'.asked = history.asked
  /\ history'.outside = history.outside
  /\ history'.disturbed = history.disturbed /\ history'.echoed = history.echoed
  /\ \A f \in Field : history'.written[f] =
       IF r.patch[f] = None THEN history.written[f] ELSE r.patch[f].text
  /\ r.patch["content"] # None => history'.ours
  /\ r.patch["content"] = None => history'.ours = history.ours

LEMMA ServeEffect ==
  ASSUME IInv, NEW r \in net, Serve(r)
  PROVE  /\ r \in Request /\ r # None /\ r.key \in DOMAIN stored /\ r.patch \in Patch
         /\ net' = net \ {r}
         /\ reply' = IF q.running = r THEN <<Answer(r)>> ELSE reply
         /\ Answer(r) \in Record \cup {None}
         /\ UNCHANGED <<q, item, field, waiting, panel, edits, errors, others>>
         /\ Worked(r) \/ (~ Writes(r) /\ UNCHANGED <<row, stored, history>>)
<1>1. /\ r \in Request /\ r # None /\ r.key \in DOMAIN stored /\ r.key # None
      /\ r.patch \in Patch
  <2>1. r \in Request /\ r.key \in DOMAIN stored
    BY Types
  <2> QED
    BY <2>1, NoneAssumption DEF Request
<1>2. /\ net' = net \ {r}
      /\ reply' = IF q.running = r THEN <<Answer(r)>> ELSE reply
      /\ UNCHANGED <<q, item, field, waiting, panel, edits, errors, others>>
  BY DEF Serve
<1>3. stored \in Seq(Stored \cup {None})
  BY Types
<1>4. Patched(r) \in Record /\ stored[r.key] \in Stored \cup {None}
  BY <1>1, <1>3, PatchedRecord DEF IInv
<1>5. Answer(r) \in Record \cup {None}
  <2>1. stored[r.key] # None => stored[r.key].row \in Record
    BY <1>4 DEF Stored
  <2> QED
    BY <1>4, <2>1 DEF Answer, Answered
<1>6. CASE ~ Writes(r)
  BY <1>1, <1>2, <1>5, <1>6 DEF Serve
<1>7. CASE Writes(r)
  <2> DEFINE s == [digest |-> Digest(r), row |-> Patched(r)]
             w == [f \in Field |-> IF r.patch[f] = None THEN history.written[f] ELSE r.patch[f].text]
  <2>1. s \in Stored /\ s # None /\ s.digest = Digest(r) /\ s.row = Patched(r)
    BY <1>1, <1>4, DigestOf, NoneAssumption DEF Stored
  <2>2. row' = Patched(r) /\ stored' = [stored EXCEPT ![r.key] = s]
        /\ stored[r.key] = None /\ r.revision = row.revision
    BY <1>1, <1>7 DEF Serve, Writes, Answered
  <2>3. PICK b \in BOOLEAN : b = (history.ours \/ r.patch["content"] # None)
    BY Zenon
  <2>4. history' = [history EXCEPT !.written = w, !.ours = b]
    BY <1>7, <2>3 DEF Serve
  <2>5. \A f \in Field : r.patch[f] # None => r.patch[f].text \in Texts
    BY <1>1, EditIsSome DEF Patch
  <2>6. w \in [Field -> Texts \cup {None}]
    BY <2>5, Types
  <2>7. \A f \in Field : w[f] = IF r.patch[f] = None THEN history.written[f] ELSE r.patch[f].text
    OBVIOUS
  <2> HIDE DEF w, s
  <2>8. /\ history' \in History /\ history'.asked = history.asked
        /\ history'.outside = history.outside /\ history'.written = w /\ history'.ours = b
        /\ history'.disturbed = history.disturbed /\ history'.echoed = history.echoed
    BY <2>4, <2>6, Types DEF History
  <2>9. /\ stored' \in Seq(Stored \cup {None}) /\ DOMAIN stored' = DOMAIN stored
        /\ stored'[r.key] = s
        /\ \A k \in DOMAIN stored \ {r.key} : stored'[k] = stored[k]
    BY <1>1, <1>3, <2>1, <2>2, ExceptSeq
  <2>10. /\ r.patch["content"] # None => history'.ours
         /\ r.patch["content"] = None => history'.ours = history.ours
    <3>1. b = (history.ours \/ r.patch["content"] # None) /\ history.ours \in BOOLEAN
      BY <2>3, Types DEF History
    <3> QED
      BY <2>8, <3>1
  <2>11. /\ row'.revision = row.revision + 1 /\ row' \in Record
         /\ row'.content = IF r.patch["content"] = None THEN row.content ELSE r.patch["content"].text
    BY <1>1, <2>2, PatchedRecord DEF IInv
  <2>12. Worked(r)
    BY <1>7, <2>1, <2>2, <2>7, <2>8, <2>9, <2>10, <2>11 DEF Worked
  <2> QED
    BY <1>1, <1>2, <1>5, <2>12
<1> QED
  BY <1>6, <1>7

LEMMA OutsideEffect ==
  ASSUME IInv, NEW f \in Field, NEW text \in OtherText, OutsideEdit(f, text)
  PROVE  /\ row' \in Record /\ row'.revision = row.revision + 1
         /\ row'.content = IF f = "content" THEN text ELSE row.content
         /\ text \in Texts
         /\ history' \in History /\ history'.asked = history.asked
         /\ history'.written = history.written
         /\ history'.outside[f] = row.revision + 1
         /\ \A g \in Field \ {f} : history'.outside[g] = history.outside[g]
         /\ history'.ours <=> history.ours /\ f # "content"
         /\ history'.disturbed = history.disturbed
         /\ ~ history'.echoed => ~ history.echoed /\ (f = "content" => ~ Echoes(text))
         /\ others' \in Nat
         /\ UNCHANGED <<stored, net, reply, q, item, field, waiting, panel, edits, errors>>
<1>1. /\ row' = [row EXCEPT !.revision = @ + 1, ![f] = text]
      /\ history' = [history EXCEPT !.outside[f] = row.revision + 1,
                                    !.ours = @ /\ f # "content",
                                    !.echoed = @ \/ (f = "content" /\ Echoes(text))]
      /\ others' \in Nat /\ text \in Texts
      /\ UNCHANGED <<stored, net, reply, q, item, field, waiting, panel, edits, errors>>
  BY Typed DEF OutsideEdit, Texts
<1>2. f = "content" \/ f = "title"
  BY DEF Field
<1>3. /\ row' \in Record /\ row'.revision = row.revision + 1
      /\ row'.content = IF f = "content" THEN text ELSE row.content
  <2>1. CASE f = "content"
    <3>1. row' = [row EXCEPT !.revision = row.revision + 1, !.content = text]
      <4>1. [row EXCEPT !.revision = @ + 1, ![f] = text]
              = [row EXCEPT !.revision = row.revision + 1, !.content = text]
        BY <2>1
      <4> QED
        BY <1>1, <4>1
    <3>2. row' \in Record /\ row'.revision = row.revision + 1 /\ row'.content = text
      <4>1. row \in Record /\ text \in Texts
        BY <1>1, Typed
      <4>2. PICK n \in Nat : n = row.revision + 1
        BY <4>1 DEF Record
      <4> QED
        BY <3>1, <4>1, <4>2 DEF Record
    <3> QED
      BY <2>1, <3>2
  <2>2. CASE f = "title"
    <3>1. row' = [row EXCEPT !.revision = row.revision + 1, !.title = text]
      <4>1. [row EXCEPT !.revision = @ + 1, ![f] = text]
              = [row EXCEPT !.revision = row.revision + 1, !.title = text]
        BY <2>2
      <4> QED
        BY <1>1, <4>1
    <3>2. row' \in Record /\ row'.revision = row.revision + 1 /\ row'.content = row.content
      <4>1. row \in Record /\ text \in Texts
        BY <1>1, Typed
      <4>2. PICK n \in Nat : n = row.revision + 1
        BY <4>1 DEF Record
      <4> QED
        BY <3>1, <4>1, <4>2 DEF Record
    <3> QED
      BY <2>2, <3>2
  <2> QED
    BY <1>2, <2>1, <2>2
<1> DEFINE o == [history.outside EXCEPT ![f] = row.revision + 1]
<1>4. PICK b \in BOOLEAN : b = (history.ours /\ f # "content")
  BY Zenon
<1>5. PICK c \in BOOLEAN : c = (history.echoed \/ (f = "content" /\ Echoes(text)))
  BY Zenon
<1>6. history' = [history EXCEPT !.outside = o, !.ours = b, !.echoed = c]
  BY <1>1, <1>4, <1>5, Zenon
<1>7. /\ o \in [Field -> Nat] /\ o[f] = row.revision + 1
      /\ \A g \in Field \ {f} : o[g] = history.outside[g]
  BY Types
<1> HIDE DEF o
<1>8. /\ history' \in History /\ history'.asked = history.asked
      /\ history'.written = history.written /\ history'.outside = o
      /\ history'.ours = b /\ history'.echoed = c /\ history'.disturbed = history.disturbed
  BY <1>6, <1>7, Types DEF History
<1>9. history'.ours <=> history.ours /\ f # "content"
  BY <1>4, <1>8, Zenon
<1>10. ~ history'.echoed => ~ history.echoed /\ (f = "content" => ~ Echoes(text))
  BY <1>5, <1>8, Zenon
<1> QED
  BY <1>1, <1>3, <1>7, <1>8, <1>9, <1>10

LEMMA DiscardEffect ==
  ASSUME IInv, Discard
  PROVE  /\ history' \in History /\ \A f \in Field : history'.asked[f] = None
         /\ SameHistory /\ history'.disturbed = history.disturbed
         /\ history'.echoed = history.echoed
         /\ panel' = "left"
         /\ UNCHANGED <<row, stored, net, reply, item, field, waiting>>
<1>1. history' = [history EXCEPT !.asked = [f \in Field |-> None]]
  BY DEF Discard
<1>2. /\ history' \in History /\ history'.asked = [f \in Field |-> None]
      /\ SameHistory /\ history'.disturbed = history.disturbed
      /\ history'.echoed = history.echoed
  BY <1>1, Types DEF History, SameHistory
<1> QED
  BY <1>2 DEF Discard

LEMMA InitTyped == ASSUME Init, Blank \in Texts PROVE TypeOK
<1>1. /\ NoPatch \in Patch /\ row \in Record /\ item \in Record
  BY PatchTypes DEF Init, Record
<1>2. q \in SaveQueue
  BY <1>1 DEF Init, SaveQueue
<1>3. history \in [asked: [Field -> Texts \cup {None}], written: [Field -> Texts \cup {None}],
                   outside: [Field -> Nat], ours: BOOLEAN, disturbed: BOOLEAN, echoed: BOOLEAN]
  BY DEF Init
<1>4. /\ stored = <<>> /\ net = {} /\ reply = <<>> /\ waiting = <<>>
      /\ field = [draft |-> Blank, sent |-> <<>>, last |-> Blank]
      /\ panel = "open" /\ edits = 0 /\ errors = 0 /\ others = 0
  BY DEF Init
<1> QED
  BY <1>1, <1>2, <1>3, <1>4 DEF TypeOK

\* Each kind of step keeps the types.
LEMMA TypeStep == ASSUME IInv, [Next]_vars PROVE TypeOK'
<1> USE DEF History, FieldState
<1>1. TypeOK
  BY DEF IInv
<1>2. CASE Calm
  BY <1>1, <1>2 DEF Calm, Counted, PanelFits, TypeOK
<1>3. CASE Commits
  BY <1>1, <1>3, CommitsEffect DEF Commits, Counted, PanelFits, TypeOK
<1>4. CASE Asks
  <2>1. PICK e \in Record, f \in Field, edit \in Edit : AsksFor(e, f, edit)
    BY <1>4 DEF Asks
  <2>2. history' \in History
    BY <2>1, AskEffect, EditIsSome DEF AsksFor
  <2>3. waiting' \in Seq([text: Texts, entity: Record])
    <3>1. waiting \in Seq([text: Texts, entity: Record])
      BY Types
    <3>2. waiting # <<>> => Tail(waiting) \in Seq([text: Texts, entity: Record])
      BY <3>1, HeadTailProperties
    <3> QED
      BY <2>1, <3>1, <3>2 DEF AsksFor
  <2>4. CASE q.running = None /\ q.failed = NoPatch
    <3>1. PICK current \in Record : /\ MayStart(PatchOf(f, edit), current, None)
                                    /\ Starts(PatchOf(f, edit), current, None)
      BY <2>1, <2>4 DEF AsksFor
    <3>2. PICK r \in Request : Started(r, PatchOf(f, edit), current, None)
      BY <3>1, StartFacts
    <3> QED
      BY <1>1, <2>1, <2>2, <2>3, <3>2 DEF AsksFor, Started, KeysGrow, TypeOK, Counted
  <2>5. CASE ~ (q.running = None /\ q.failed = NoPatch)
    <3>1. Holds(Over(q.pending, PatchOf(f, edit)))
      BY <2>1, <2>5 DEF AsksFor
    <3>2. q' \in SaveQueue /\ UNCHANGED <<net, stored>>
      BY <3>1 DEF Holds
    <3>3. UNCHANGED <<row, reply, item, field, panel>> /\ Counted
      BY <2>1 DEF AsksFor
    <3> QED
      BY <1>1, <2>2, <2>3, <3>2, <3>3 DEF TypeOK, Counted
  <2> QED
    BY <2>4, <2>5
<1>5. CASE Retries
  <2>1. CASE Starts(Over(q.failed, q.pending), q.current, q.key) /\ UNCHANGED <<item, field, history>>
             /\ MayStart(Over(q.failed, q.pending), q.current, q.key)
    <3>1. PICK r \in Request : Started(r, Over(q.failed, q.pending), q.current, q.key)
      BY <2>1, StartFacts
    <3> QED
      BY <1>1, <1>5, <2>1, <3>1 DEF Retries, Started, KeysGrow, TypeOK, Counted, PanelFits
  <2>2. CASE \E latest \in {row, item}, p \in Patch :
               MayStart(p, latest, None) /\ Starts(p, latest, None) /\ Show(latest)
    <3>1. PICK latest \in {row, item}, p \in Patch :
               MayStart(p, latest, None) /\ Starts(p, latest, None) /\ Show(latest)
      BY <2>2
    <3>2. PICK r \in Request : Started(r, p, latest, None)
      BY <3>1, StartFacts
    <3>3. Shown(latest)
      BY <3>1, ShowEffect
    <3> QED
      BY <1>1, <1>5, <3>2, <3>3 DEF Retries, Started, KeysGrow, TypeOK, Counted, PanelFits, Shown
  <2> QED
    BY <1>5, <2>1, <2>2 DEF Retries, MayStart
<1>6. CASE Refetches
  <2>1. Shown(row)
    BY <1>6, ShowEffect DEF Refetches
  <2> QED
    BY <1>1, <1>6, <2>1 DEF Refetches, Shown, TypeOK, Counted
<1>7. CASE Loses
  BY <1>1, <1>7 DEF Loses, Fails, PanelFits, TypeOK, Counted
<1>8. CASE Succeeds
  <2>1. CASE Ends(Head(reply))
    BY <1>1, <1>8, <2>1 DEF Succeeds, Ends, PanelFits, TypeOK, Counted
  <2>2. CASE MayStart(q.pending, Head(reply), None) /\ Starts(q.pending, Head(reply), None)
    <3>1. PICK r \in Request : Started(r, q.pending, Head(reply), None)
      BY <2>2, StartFacts
    <3> QED
      BY <1>1, <1>8, <3>1 DEF Succeeds, Started, KeysGrow, PanelFits, TypeOK, Counted
  <2> QED
    BY <1>8, <2>1, <2>2 DEF Succeeds
<1>9. CASE Discards
  BY <1>1, <1>9, DiscardEffect DEF Discards, TypeOK, Counted
<1>10. ASSUME NEW r \in net, Serve(r) PROVE TypeOK'
  <2>1. /\ reply' \in Seq(Record \cup {None}) /\ Len(reply') <= 1
    <3>1. reply \in Seq(Record \cup {None}) /\ Len(reply) <= 1
      BY <1>1 DEF TypeOK
    <3>2. Answer(r) \in Record \cup {None}
          /\ reply' = IF q.running = r THEN <<Answer(r)>> ELSE reply
      BY <1>10, ServeEffect
    <3>3. \A a \in Record \cup {None} : <<a>> \in Seq(Record \cup {None}) /\ Len(<<a>>) <= 1
      OBVIOUS
    <3>4. PICK a \in Record \cup {None} : a = Answer(r)
      BY <3>2
    <3>5. reply' = <<a>> \/ reply' = reply
      BY <3>2, <3>4
    <3> QED
      BY <3>1, <3>3, <3>5, Zenon
  <2>2. stored' \in Seq(Stored \cup {None}) /\ DOMAIN stored' = DOMAIN stored
        /\ row' \in Record /\ history' \in History
    BY <1>10, ServeEffect, Types, Typed DEF Worked
  <2> QED
    BY <1>1, <1>10, <2>1, <2>2, ServeEffect DEF TypeOK
<1>11. ASSUME NEW f \in Field, NEW text \in OtherText, OutsideEdit(f, text) PROVE TypeOK'
  BY <1>1, <1>11, OutsideEffect DEF TypeOK
<1> QED
  BY <1>2, <1>3, <1>4, <1>5, <1>6, <1>7, <1>8, <1>9, <1>10, <1>11, StepKind

-----------------------------------------------------------------------------
(* The steps, with the requests they start                                 *)

\* A save sends the edit at once, or puts it on top of what is pending.
AskSends(e, f, edit, r, current) ==
  /\ AsksFor(e, f, edit) /\ Started(r, PatchOf(f, edit), current, None)
  /\ q.running = None /\ q.failed = NoPatch /\ q.pending = NoPatch /\ q.key = None
  /\ current = e \/ (current = q.current /\ e.revision <= current.revision)

AskWaits(e, f, edit) ==
  /\ AsksFor(e, f, edit) /\ Holds(Over(q.pending, PatchOf(f, edit)))
  /\ q.running # None \/ q.failed # NoPatch

RetryFrame ==
  /\ q.running = None /\ q.failed # NoPatch /\ q.current # None /\ panel # "left"
  /\ UNCHANGED <<row, reply, waiting>> /\ PanelFits

\* What failed goes out again under its key.
Resends(r) ==
  /\ RetryFrame /\ UNCHANGED <<item, field, history>>
  /\ Started(r, Over(q.failed, q.pending), q.current, q.key)

\* What failed is put on the record that the page shows now, under a new key.
Reapplies(latest, r) ==
  /\ RetryFrame /\ Shown(latest)
  /\ Started(r, Over(Rebased(q.failed, latest.revision), Rebased(q.pending, latest.revision)),
             latest, None)

Shows ==
  /\ panel # "left" /\ Shown(row)
  /\ UNCHANGED <<row, stored, net, reply, q, waiting, panel>>

SuccessFrame ==
  /\ q.running # None /\ reply # <<>> /\ Head(reply) \in Record /\ reply' = <<>> /\ PanelFits
  /\ UNCHANGED <<row, item, field, waiting, history>>

Finishes == SuccessFrame /\ q.pending = NoPatch /\ Ends(Head(reply))

SendsNext(r) == SuccessFrame /\ Started(r, q.pending, Head(reply), None)

LEMMA Steps ==
  ASSUME IInv, [Next]_vars
  PROVE  \/ Calm \/ Commits
         \/ \E e \in Record, f \in Field, edit \in Edit, r \in Request, current \in Record :
              AskSends(e, f, edit, r, current)
         \/ \E e \in Record, f \in Field, edit \in Edit : AskWaits(e, f, edit)
         \/ \E r \in Request : Resends(r)
         \/ \E r \in Request, latest \in {row, item} : Reapplies(latest, r)
         \/ Shows \/ Loses \/ Finishes
         \/ \E r \in Request : SendsNext(r)
         \/ Discards
         \/ \E r \in net : Serve(r)
         \/ \E f \in Field, text \in OtherText : OutsideEdit(f, text)
<1>1. CASE Asks
  <2>1. PICK e \in Record, f \in Field, edit \in Edit : AsksFor(e, f, edit)
    BY <1>1 DEF Asks
  <2>2. CASE q.running = None /\ q.failed = NoPatch
    <3>1. PICK current \in Record :
            /\ q.running = None /\ q.failed = NoPatch /\ q.pending = NoPatch /\ q.key = None
            /\ MayStart(PatchOf(f, edit), current, None)
            /\ Starts(PatchOf(f, edit), current, None)
            /\ current = e \/ (current = q.current /\ e.revision <= current.revision)
      BY <2>1, <2>2 DEF AsksFor
    <3>2. PICK r \in Request : Started(r, PatchOf(f, edit), current, None)
      BY <3>1, StartFacts
    <3>3. AskSends(e, f, edit, r, current)
      BY <2>1, <3>1, <3>2 DEF AskSends
    <3> QED
      BY <3>3
  <2>3. CASE ~ (q.running = None /\ q.failed = NoPatch)
    <3>1. AskWaits(e, f, edit)
      BY <2>1, <2>3 DEF AsksFor, AskWaits
    <3> QED
      BY <3>1
  <2> QED
    BY <2>2, <2>3
<1>2. CASE Retries
  <2>1. RetryFrame
    BY <1>2 DEF Retries, RetryFrame
  <2>2. CASE /\ MayStart(Over(q.failed, q.pending), q.current, q.key)
             /\ Starts(Over(q.failed, q.pending), q.current, q.key)
             /\ UNCHANGED <<item, field, history>>
    <3>1. PICK r \in Request : Started(r, Over(q.failed, q.pending), q.current, q.key)
      BY <2>2, StartFacts
    <3> QED
      BY <2>1, <2>2, <3>1 DEF Resends
  <2>3. ASSUME NEW latest \in {row, item}, NEW p,
               p = Over(Rebased(q.failed, latest.revision), Rebased(q.pending, latest.revision)),
               MayStart(p, latest, None), Starts(p, latest, None), Show(latest)
        PROVE  \E r \in Request : Reapplies(latest, r)
    <3>1. PICK r \in Request : Started(r, p, latest, None)
      BY <2>3, StartFacts
    <3> QED
      BY <2>1, <2>3, <3>1, ShowEffect DEF Reapplies
  <2> QED
    BY <1>2, <2>2, <2>3 DEF Retries
<1>3. CASE Refetches
  BY <1>3, ShowEffect DEF Refetches, Shows
<1>4. CASE Succeeds
  <2>1. SuccessFrame
    BY <1>4 DEF Succeeds, SuccessFrame
  <2>2. CASE MayStart(q.pending, Head(reply), None) /\ Starts(q.pending, Head(reply), None)
    <3>1. PICK r \in Request : Started(r, q.pending, Head(reply), None)
      BY <2>2, StartFacts
    <3> QED
      BY <2>1, <3>1 DEF SendsNext
  <2> QED
    BY <1>4, <2>1, <2>2 DEF Succeeds, Finishes
<1> QED
  BY <1>1, <1>2, <1>3, <1>4, StepKind

-----------------------------------------------------------------------------
(* The queue, the revisions and the answers                                *)

LEMMA QueueStep == ASSUME IInv, [Next]_vars PROVE QueueFits'
<1>1. q \in SaveQueue /\ QueueFits
  BY Typed DEF IInv
<1>2. ASSUME NEW r \in Request, NEW p, NEW current, NEW key, Started(r, p, current, key),
             panel' # "asked"
      PROVE  QueueFits'
  BY <1>1, <1>2, NoneAssumption DEF QueueFits, Started, Request
<1>3. CASE Calm
  BY <1>1, <1>3 DEF Calm, PanelFits, QueueFits
<1>4. CASE Commits
  BY <1>1, <1>4 DEF Commits, PanelFits, QueueFits
<1>5. ASSUME NEW e \in Record, NEW f \in Field, NEW edit \in Edit, NEW r \in Request,
             NEW current \in Record, AskSends(e, f, edit, r, current)
      PROVE  QueueFits'
  <2>1. panel' # "asked"
    BY <1>1, <1>5 DEF AskSends, AsksFor, QueueFits
  <2> QED
    BY <1>2, <1>5, <2>1 DEF AskSends
<1>6. ASSUME NEW e \in Record, NEW f \in Field, NEW edit \in Edit, AskWaits(e, f, edit)
      PROVE  QueueFits'
  BY <1>1, <1>6 DEF AskWaits, AsksFor, Holds, QueueFits
<1>7. ASSUME NEW r \in Request, Resends(r) PROVE QueueFits'
  <2>1. panel' # "asked"
    BY <1>7 DEF Resends, RetryFrame, PanelFits, Started
  <2> QED
    BY <1>2, <1>7, <2>1 DEF Resends
<1>8. ASSUME NEW r \in Request, NEW latest \in {row, item}, Reapplies(latest, r) PROVE QueueFits'
  <2>1. panel' # "asked"
    BY <1>8 DEF Reapplies, RetryFrame, PanelFits, Started
  <2> QED
    BY <1>2, <1>8, <2>1 DEF Reapplies
<1>9. CASE Shows
  BY <1>1, <1>9 DEF Shows, QueueFits
<1>10. CASE Loses
  BY <1>1, <1>10 DEF Loses, Fails, PanelFits, QueueFits
<1>11. CASE Finishes
  BY <1>1, <1>11 DEF Finishes, SuccessFrame, Ends, PanelFits, QueueFits
<1>12. ASSUME NEW r \in Request, SendsNext(r) PROVE QueueFits'
  <2>1. panel' # "asked"
    BY <1>12 DEF SendsNext, SuccessFrame, PanelFits, Started
  <2> QED
    BY <1>2, <1>12, <2>1 DEF SendsNext
<1>13. CASE Discards
  BY <1>1, <1>13, DiscardEffect DEF Discards, QueueFits
<1>14. ASSUME NEW r \in net, Serve(r) PROVE QueueFits'
  <2>1. UNCHANGED <<q, panel>> /\ DOMAIN stored' = DOMAIN stored
    BY <1>14, ServeEffect DEF Worked
  <2> QED
    BY <1>1, <2>1 DEF QueueFits
<1>15. ASSUME NEW f \in Field, NEW text \in OtherText, OutsideEdit(f, text) PROVE QueueFits'
  BY <1>1, <1>15, OutsideEffect DEF QueueFits
<1> QED
  BY <1>3, <1>4, <1>5, <1>6, <1>7, <1>8, <1>9, <1>10, <1>11, <1>12, <1>13, <1>14, <1>15, Steps

LEMMA TailPlaces ==
  ASSUME IInv, waiting' = waiting \/ (waiting # <<>> /\ waiting' = Tail(waiting))
  PROVE  \A i \in DOMAIN waiting' : \E j \in DOMAIN waiting : waiting'[i] = waiting[j]
<1>1. waiting \in Seq([text: Texts, entity: Record])
  BY Types
<1>2. CASE waiting # <<>> /\ waiting' = Tail(waiting)
  <2>1. /\ Len(waiting') = Len(waiting) - 1 /\ DOMAIN waiting' = 1 .. Len(waiting')
        /\ \A i \in 1 .. Len(waiting') : waiting'[i] = waiting[i + 1]
    BY <1>1, <1>2, HeadTailProperties
  <2>2. Len(waiting) \in Nat /\ DOMAIN waiting = 1 .. Len(waiting)
    BY <1>1
  <2> QED
    BY <2>1, <2>2
<1> QED
  BY <1>2

LEMMA RevisionStep == ASSUME IInv, [Next]_vars PROVE RevisionsFit'
<1>1. /\ RevisionsFit /\ q \in SaveQueue /\ row.revision \in Nat /\ item.revision \in Nat
      /\ \A r \in net : r.revision \in Nat
      /\ \A k \in DOMAIN stored : stored[k] # None => stored[k].row.revision \in Nat
      /\ \A i \in DOMAIN waiting : waiting[i].entity.revision \in Nat
      /\ \A f \in Field : history.outside[f] \in Nat
      /\ q.current # None => q.current.revision \in Nat
  <2>1. \A r \in net : r.revision \in Nat
    BY Types DEF Request
  <2>2. \A k \in DOMAIN stored : stored[k] # None => stored[k].row.revision \in Nat
    BY Types DEF Stored, Record
  <2>3. \A i \in DOMAIN waiting : waiting[i].entity.revision \in Nat
    <3>1. \A i \in DOMAIN waiting : waiting[i] \in [text: Texts, entity: Record]
      <4>1. waiting \in Seq([text: Texts, entity: Record])
        BY Types
      <4>2. \A S : \A s \in Seq(S) : \A i \in DOMAIN s : s[i] \in S
        OBVIOUS
      <4> QED
        BY <4>1, <4>2, Zenon
    <3>2. \A i \in DOMAIN waiting : waiting[i].entity \in Record
      BY <3>1
    <3> QED
      BY <3>2 DEF Record
  <2> QED
    BY <2>1, <2>2, <2>3, Types, Typed DEF IInv
\* A request starts on a revision that is known.
<1>2. ASSUME NEW r \in Request, NEW p, NEW current, NEW key, Started(r, p, current, key),
             UNCHANGED row, current.revision <= row.revision, SameHistory,
             item'.revision \in Nat, item.revision <= item'.revision, item'.revision <= row.revision,
             waiting' = waiting \/ (waiting # <<>> /\ waiting' = Tail(waiting))
      PROVE  RevisionsFit'
  <2>1. \A s \in net' : s.revision <= row.revision
    BY <1>1, <1>2 DEF Started, RevisionsFit
  <2>2. \A k \in DOMAIN stored' : stored'[k] # None => stored'[k].row.revision <= row.revision
    BY <1>1, <1>2 DEF Started, KeysGrow, RevisionsFit
  <2>3. \A i \in DOMAIN waiting' : waiting'[i].entity.revision <= item'.revision
    <3>1. \A i \in DOMAIN waiting' :
            \E j \in DOMAIN waiting : waiting'[i] = waiting[j]
      BY <1>2, TailPlaces
    <3> QED
      BY <1>1, <1>2, <3>1 DEF RevisionsFit
  <2> QED
    BY <1>1, <1>2, <2>1, <2>2, <2>3 DEF RevisionsFit, Started, SameHistory
<1>3. CASE Calm
  BY <1>1, <1>3 DEF Calm, RevisionsFit
<1>4. CASE Commits
  <2>1. UNCHANGED <<row, stored, net, q, item>> /\ SameHistory
        /\ waiting' = Append(waiting, [text |-> field.draft, entity |-> item])
    BY <1>4, CommitsEffect DEF Commits
  <2>2. \A i \in DOMAIN waiting' : waiting'[i].entity.revision <= item.revision
    <3>1. waiting \in Seq([text: Texts, entity: Record])
          /\ [text |-> field.draft, entity |-> item] \in [text: Texts, entity: Record]
      BY Types, Typed
    <3>2. \A i \in DOMAIN waiting' : \/ i \in DOMAIN waiting /\ waiting'[i] = waiting[i]
                                     \/ waiting'[i] = [text |-> field.draft, entity |-> item]
      BY <2>1, <3>1, AppendProperties
    <3> QED
      BY <1>1, <3>2 DEF RevisionsFit
  <2> QED
    BY <1>1, <2>1, <2>2 DEF RevisionsFit, SameHistory
<1>5. ASSUME NEW e \in Record, NEW f \in Field, NEW edit \in Edit, NEW r \in Request,
             NEW current \in Record, AskSends(e, f, edit, r, current)
      PROVE  RevisionsFit'
  <2>1. /\ UNCHANGED <<row, item>> /\ SameHistory
        /\ waiting' = waiting \/ (waiting # <<>> /\ waiting' = Tail(waiting))
    BY <1>5, AskEffect, EditIsSome DEF AskSends, AsksFor
  <2>2. current.revision <= row.revision
    BY <1>1, <1>5, NoneAssumption DEF AskSends, AsksFor, RevisionsFit, Record
  <2> QED
    BY <1>1, <1>2, <1>5, <2>1, <2>2 DEF AskSends, RevisionsFit
<1>6. ASSUME NEW e \in Record, NEW f \in Field, NEW edit \in Edit, AskWaits(e, f, edit)
      PROVE  RevisionsFit'
  <2>1. /\ UNCHANGED <<row, item, net, stored>> /\ SameHistory /\ q'.current = q.current
        /\ waiting' = waiting \/ (waiting # <<>> /\ waiting' = Tail(waiting))
    BY <1>6, AskEffect, EditIsSome DEF AskWaits, AsksFor, Holds
  <2>2. \A i \in DOMAIN waiting' : \E j \in DOMAIN waiting : waiting'[i] = waiting[j]
    BY <2>1, TailPlaces
  <2> QED
    BY <1>1, <2>1, <2>2 DEF RevisionsFit, SameHistory
<1>7. ASSUME NEW r \in Request, Resends(r) PROVE RevisionsFit'
  BY <1>1, <1>2, <1>7 DEF Resends, RetryFrame, RevisionsFit, SameHistory
<1>8. ASSUME NEW r \in Request, NEW latest \in {row, item}, Reapplies(latest, r)
      PROVE  RevisionsFit'
  BY <1>1, <1>2, <1>8 DEF Reapplies, RetryFrame, Shown
<1>9. CASE Shows
  BY <1>1, <1>9 DEF Shows, Shown, SameHistory, RevisionsFit
<1>10. CASE Loses
  BY <1>1, <1>10 DEF Loses, Fails, RevisionsFit
<1>11. CASE SuccessFrame /\ (Finishes \/ \E r \in Request : SendsNext(r))
  <2>1. Head(reply).revision <= row.revision
    BY <1>1, <1>11, NoneAssumption DEF SuccessFrame, RevisionsFit, IInv, AnswersFit, QueueFits,
                                       Answered
  <2>2. CASE Finishes
    BY <1>1, <2>1, <2>2 DEF Finishes, SuccessFrame, Ends, RevisionsFit
  <2>3. ASSUME NEW r \in Request, SendsNext(r) PROVE RevisionsFit'
    BY <1>1, <1>2, <2>1, <2>3 DEF SendsNext, SuccessFrame, RevisionsFit, SameHistory
  <2> QED
    BY <1>11, <2>2, <2>3
<1>12. CASE Discards
  BY <1>1, <1>12, DiscardEffect DEF Discards, SameHistory, RevisionsFit
<1>13. ASSUME NEW r \in net, Serve(r) PROVE RevisionsFit'
  <2>1. UNCHANGED <<q, item, waiting>> /\ net' = net \ {r}
    BY <1>13, ServeEffect
  <2>2. CASE Worked(r)
    <3>1. row'.revision = row.revision + 1 /\ history'.outside = history.outside
      BY <2>2 DEF Worked
    <3>2. \A k \in DOMAIN stored' : stored'[k] # None => stored'[k].row.revision <= row.revision + 1
      BY <1>1, <2>2 DEF Worked, RevisionsFit
    <3> QED
      BY <1>1, <2>1, <3>1, <3>2 DEF RevisionsFit
  <2>3. CASE UNCHANGED <<row, stored, history>>
    BY <1>1, <2>1, <2>3 DEF RevisionsFit
  <2> QED
    BY <1>13, <2>2, <2>3, ServeEffect
<1>14. ASSUME NEW f \in Field, NEW text \in OtherText, OutsideEdit(f, text) PROVE RevisionsFit'
  <2>1. /\ row'.revision = row.revision + 1 /\ UNCHANGED <<stored, net, q, item, waiting>>
        /\ \A g \in Field : history'.outside[g] \in {history.outside[g], row.revision + 1}
    BY <1>14, OutsideEffect
  <2> QED
    BY <1>1, <2>1 DEF RevisionsFit
<1> QED
  BY <1>3, <1>4, <1>5, <1>6, <1>7, <1>8, <1>9, <1>10, <1>11, <1>12, <1>13, <1>14, Steps
     DEF Finishes, SendsNext

LEMMA StoredStays == ASSUME IInv, UNCHANGED stored PROVE KeysGrow
BY Types DEF KeysGrow

\* A request in the network stays what it is while the record does, and is dead after a write.
LEMMA WritesStays ==
  ASSUME IInv, KeysGrow, UNCHANGED row, NEW r \in net
  PROVE  Writes(r)' <=> Writes(r)
<1>1. r.key \in DOMAIN stored
  BY Types
<1>2. stored'[r.key] = stored[r.key]
  BY <1>1 DEF KeysGrow
<1> QED
  BY <1>2 DEF Writes, Answered

LEMMA WriteKills ==
  ASSUME IInv, row'.revision = row.revision + 1, NEW r \in net
  PROVE  ~ Writes(r)'
<1>1. r.revision \in Nat /\ row.revision \in Nat /\ r.revision <= row.revision
  BY Types DEF Request, IInv, RevisionsFit
<1> QED
  BY <1>1 DEF Writes

\* The queue's key is answered or not as before.
LEMMA KeyStays ==
  ASSUME IInv, KeysGrow, q'.key = q.key
  PROVE  /\ Answered(q.key)' <=> Answered(q.key)
         /\ Answered(q.key) => stored'[q'.key] = stored[q.key]
<1>1. q.key # None => q.key \in DOMAIN stored
  BY DEF IInv, QueueFits
<1> QED
  BY <1>1 DEF Answered, KeysGrow

\* The request that has started writes nothing under a key that was answered.
LEMMA StartedAnswer ==
  ASSUME IInv, NEW r \in Request, NEW p, NEW current, NEW key, Started(r, p, current, key),
         UNCHANGED row, key = None \/ (key # None /\ key = q.key)
  PROVE  /\ Answered(q.key)' => /\ Answered(q.key) /\ key = q.key /\ key # None
                                /\ stored'[q'.key] = stored[q.key]
         /\ Answered(q.key)' => ~ Writes(r)'
         /\ Answered(q.key)' <=> Answered(r.key)'
<1>1. q'.key = r.key
  BY DEF Started
<1>2. Answered(q.key)' => ~ Writes(r)'
  BY <1>1 DEF Writes, Answered
<1>3. CASE key = None
  BY <1>1, <1>2, <1>3 DEF Answered, Started
<1>4. CASE key # None
  BY <1>1, <1>2, <1>4 DEF Answered, Started
<1> QED
  BY <1>3, <1>4

\* What was answered under the queue's key stays as it is while no request writes.
AnswerOfKey ==
  Answered(q.key) =>
    /\ \A r \in net : ~ Writes(r)
    /\ \A f \in Field : stored[q.key].digest[2][f] # None
         => history.written[f] = stored[q.key].digest[2][f]

AnswerOfReply ==
  reply # <<>> =>
    /\ q.running # None
    /\ Head(reply) # None =>
         /\ Answered(q.key)
         /\ stored[q.key].digest = Digest(q.running)
         /\ stored[q.key].row = Head(reply)

AnswersKept ==
  \A k \in DOMAIN stored : stored[k] # None =>
    /\ stored[k].row.revision = stored[k].digest[1] + 1
    /\ \A f \in Field : history.outside[f] # stored[k].row.revision

LEMMA AnswersFitParts == AnswersFit <=> AnswersKept /\ AnswerOfKey /\ AnswerOfReply
BY DEF AnswersFit, AnswersKept, AnswerOfKey, AnswerOfReply

LEMMA AnswerStep == ASSUME IInv, [Next]_vars PROVE AnswersFit'
<1>1. AnswersKept /\ AnswerOfKey /\ AnswerOfReply
  BY AnswersFitParts DEF IInv
<1>2. ASSUME KeysGrow, SameHistory PROVE AnswersKept'
  BY <1>1, <1>2 DEF AnswersKept, KeysGrow, SameHistory
<1>3. ASSUME KeysGrow, SameHistory, UNCHANGED row, q'.key = q.key, net' \subseteq net
      PROVE  AnswerOfKey'
  BY <1>1, <1>3, KeyStays, WritesStays DEF AnswerOfKey, SameHistory
<1>4. ASSUME NEW r \in Request, NEW p, NEW current, NEW key, Started(r, p, current, key),
             UNCHANGED row, SameHistory, key = None \/ (key # None /\ key = q.key)
      PROVE  AnswersKept' /\ AnswerOfKey'
  <2>1. KeysGrow /\ net' = net \cup {r}
    BY <1>4 DEF Started
  <2>2. ASSUME Answered(q.key)' PROVE \A s \in net' : ~ Writes(s)'
    <3>1. Answered(q.key) /\ ~ Writes(r)'
      BY <1>4, <2>2, StartedAnswer
    <3>2. \A s \in net : ~ Writes(s)'
      BY <1>1, <1>4, <2>1, <3>1, WritesStays DEF AnswerOfKey
    <3> QED
      BY <2>1, <3>1, <3>2
  <2>3. ASSUME Answered(q.key)', NEW f \in Field, stored'[q'.key].digest[2][f] # None
        PROVE  history'.written[f] = stored'[q'.key].digest[2][f]
    <3>1. Answered(q.key) /\ stored'[q'.key] = stored[q.key]
      BY <1>4, <2>3, StartedAnswer
    <3> QED
      BY <1>1, <1>4, <2>3, <3>1 DEF AnswerOfKey, SameHistory
  <2> QED
    BY <1>2, <1>4, <2>1, <2>2, <2>3 DEF AnswerOfKey
<1>5. ASSUME KeysGrow, q'.key = q.key, UNCHANGED <<reply>>, q'.running = q.running
      PROVE  AnswerOfReply'
  <2>1. /\ Answered(q.key)' <=> Answered(q.key)
        /\ Answered(q.key) => stored'[q'.key] = stored[q.key]
    BY <1>5, KeyStays
  <2>2. Digest(q.running)' = Digest(q.running)
    BY <1>5 DEF Digest
  <2> QED
    BY <1>1, <1>5, <2>1, <2>2 DEF AnswerOfReply
<1>6. ASSUME reply' = <<>> PROVE AnswerOfReply'
  BY <1>6 DEF AnswerOfReply
<1> DEFINE Goal == AnswersKept' /\ AnswerOfKey' /\ AnswerOfReply'
<1>7. ASSUME Calm PROVE Goal
  <2>1. KeysGrow /\ SameHistory /\ UNCHANGED <<row, reply, q>> /\ net' \subseteq net
    BY <1>7, StoredStays DEF Calm, SameHistory
  <2> QED
    BY <1>2, <1>3, <1>5, <2>1
<1>8. ASSUME Commits PROVE Goal
  <2>1. KeysGrow /\ SameHistory /\ UNCHANGED <<row, reply, q>> /\ net' \subseteq net
    BY <1>8, StoredStays, CommitsEffect DEF Commits
  <2> QED
    BY <1>2, <1>3, <1>5, <2>1
<1>9. ASSUME NEW e \in Record, NEW f \in Field, NEW edit \in Edit, NEW r \in Request,
             NEW current \in Record, AskSends(e, f, edit, r, current)
      PROVE  Goal
  <2>1. SameHistory /\ UNCHANGED <<row, reply>>
    BY <1>9, AskEffect, EditIsSome DEF AskSends, AsksFor
  <2>2. reply = <<>>
    BY <1>1, <1>9 DEF AskSends, AnswerOfReply
  <2> QED
    BY <1>4, <1>6, <1>9, <2>1, <2>2 DEF AskSends
<1>10. ASSUME NEW e \in Record, NEW f \in Field, NEW edit \in Edit, AskWaits(e, f, edit)
       PROVE  Goal
  <2>1. KeysGrow /\ SameHistory /\ UNCHANGED <<row, reply>> /\ net' \subseteq net
        /\ q'.key = q.key /\ q'.running = q.running
    BY <1>10, AskEffect, EditIsSome, StoredStays DEF AskWaits, AsksFor, Holds
  <2> QED
    BY <1>2, <1>3, <1>5, <2>1
<1>11. ASSUME NEW r \in Request, Resends(r) PROVE Goal
  <2>1. SameHistory /\ UNCHANGED <<row, reply>> /\ q.key # None
    BY <1>11 DEF Resends, RetryFrame, SameHistory, IInv, QueueFits
  <2>2. reply = <<>>
    BY <1>1, <1>11 DEF Resends, RetryFrame, AnswerOfReply
  <2> QED
    BY <1>4, <1>6, <1>11, <2>1, <2>2 DEF Resends
<1>12. ASSUME NEW r \in Request, NEW latest \in {row, item}, Reapplies(latest, r)
       PROVE  Goal
  <2>1. SameHistory /\ UNCHANGED <<row, reply>>
    BY <1>12 DEF Reapplies, RetryFrame, Shown
  <2>2. reply = <<>>
    BY <1>1, <1>12 DEF Reapplies, RetryFrame, AnswerOfReply
  <2> QED
    BY <1>4, <1>6, <1>12, <2>1, <2>2 DEF Reapplies
<1>13. ASSUME Shows PROVE Goal
  <2>1. KeysGrow /\ SameHistory /\ UNCHANGED <<row, reply, q>> /\ net' \subseteq net
    BY <1>13, StoredStays DEF Shows, Shown
  <2> QED
    BY <1>2, <1>3, <1>5, <2>1
<1>14. ASSUME Loses PROVE Goal
  <2>1. KeysGrow /\ SameHistory /\ UNCHANGED row /\ reply' = <<>> /\ net' \subseteq net
        /\ q'.key = q.key
    BY <1>14, StoredStays DEF Loses, Fails, SameHistory
  <2> QED
    BY <1>2, <1>3, <1>6, <2>1
<1>15. ASSUME Finishes PROVE Goal
  <2>1. KeysGrow /\ SameHistory /\ reply' = <<>> /\ q'.key = None
    BY <1>15, StoredStays DEF Finishes, SuccessFrame, Ends, SameHistory
  <2> QED
    BY <1>2, <1>6, <2>1 DEF AnswerOfKey, Answered
<1>16. ASSUME NEW r \in Request, SendsNext(r) PROVE Goal
  <2>1. SameHistory /\ UNCHANGED row /\ reply' = <<>>
    BY <1>16 DEF SendsNext, SuccessFrame, SameHistory
  <2> QED
    BY <1>4, <1>6, <1>16, <2>1 DEF SendsNext
<1>17. ASSUME Discards PROVE Goal
  <2>1. KeysGrow /\ SameHistory /\ UNCHANGED reply /\ q'.key = None /\ q.running = None
    BY <1>17, StoredStays, DiscardEffect DEF Discards
  <2>2. reply = <<>>
    BY <1>1, <2>1 DEF AnswerOfReply
  <2> QED
    BY <1>2, <1>6, <2>1, <2>2 DEF AnswerOfKey, Answered
<1>18. ASSUME NEW r \in net, Serve(r) PROVE Goal
  <2>1. /\ r \in Request /\ r.key # None /\ r.key \in DOMAIN stored /\ q' = q /\ net' \subseteq net
        /\ reply' = IF q.running = r THEN <<Answer(r)>> ELSE reply
    BY <1>18, ServeEffect, NoneAssumption DEF Request
  <2>2. ASSUME q.running = r PROVE r.key = q.key
    BY <2>1, <2>2, NoneAssumption DEF IInv, QueueFits
  <2>3. CASE UNCHANGED <<row, stored, history>> /\ ~ Writes(r)
    <3>1. KeysGrow /\ SameHistory
      BY <2>3, StoredStays DEF SameHistory
    <3>2. CASE q.running = r
      <4>1. Answer(r) # None => /\ Answered(r.key) /\ stored[r.key].digest = Digest(r)
                                /\ stored[r.key].row = Answer(r)
        BY <2>3 DEF Answer, Writes
      <4>2. Answered(q.key)' <=> Answered(q.key)
        BY <2>1, <3>1, KeyStays
      <4>3. Head(reply') = Answer(r) /\ Digest(q.running)' = Digest(r)
        BY <2>1, <3>2 DEF Digest
      <4>4. r # None
        BY <1>18, ServeEffect
      <4> QED
        BY <1>2, <1>3, <2>1, <2>2, <2>3, <3>1, <3>2, <4>1, <4>2, <4>3, <4>4 DEF AnswerOfReply
    <3>3. CASE q.running # r
      BY <1>2, <1>3, <1>5, <2>1, <2>3, <3>1, <3>3
    <3> QED
      BY <3>2, <3>3
  <2>4. CASE Worked(r)
    <3>1. AnswersKept'
      <4>1. /\ stored'[r.key].row.revision = row.revision + 1
            /\ stored'[r.key].digest[1] = row.revision
        BY <2>1, <2>4, DigestOf DEF Worked
      <4>2. \A f \in Field : history.outside[f] # row.revision + 1
        BY Types DEF IInv, RevisionsFit
      <4> QED
        BY <1>1, <2>4, <4>1, <4>2 DEF AnswersKept, Worked
    <3>2. \A s \in net' : ~ Writes(s)'
      BY <2>1, <2>4, WriteKills DEF Worked
    <3>3. ~ Answered(q.key)
      BY <1>1, <2>4 DEF AnswerOfKey, Worked
    <3>4. Answered(q.key)' => q.key = r.key
      <4>1. q.key # None => q.key \in DOMAIN stored
        BY DEF IInv, QueueFits
      <4> QED
        BY <2>1, <2>4, <3>3, <4>1 DEF Answered, Worked
    <3>5. ASSUME Answered(q.key)', NEW f \in Field, stored'[q'.key].digest[2][f] # None
          PROVE  history'.written[f] = stored'[q'.key].digest[2][f]
      <4>1. stored'[q'.key].digest[2][f] = TextOf(r.patch, f)
        BY <2>1, <2>4, <3>4, <3>5, DigestOf DEF Worked
      <4> QED
        BY <2>4, <3>5, <4>1 DEF Worked, TextOf
    <3>6. AnswerOfReply'
      <4>1. CASE q.running = r
        <5>1. /\ Answer(r) = Patched(r) /\ r # None
          BY <2>1, <2>4, ServeEffect, <1>18 DEF Answer, Writes, Worked
        <5>2. Head(reply') = Patched(r) /\ Digest(q.running)' = Digest(r)
          BY <2>1, <4>1, <5>1 DEF Digest
        <5> QED
          BY <2>1, <2>2, <2>4, <4>1, <5>1, <5>2 DEF AnswerOfReply, Worked, Answered
      <4>2. CASE q.running # r
        BY <1>1, <2>1, <3>3, <4>2 DEF AnswerOfReply
      <4> QED
        BY <4>1, <4>2
    <3> QED
      BY <3>1, <3>2, <3>5, <3>6 DEF AnswerOfKey
  <2> QED
    BY <1>18, <2>3, <2>4, ServeEffect
<1>19. ASSUME NEW f \in Field, NEW text \in OtherText, OutsideEdit(f, text) PROVE Goal
  <2>1. /\ row'.revision = row.revision + 1 /\ UNCHANGED <<stored, net, reply, q>>
        /\ history'.written = history.written
        /\ \A g \in Field : history'.outside[g] \in {history.outside[g], row.revision + 1}
    BY <1>19, OutsideEffect
  <2>2. KeysGrow
    BY <2>1, StoredStays
  <2>3. AnswersKept'
    <3>1. \A k \in DOMAIN stored : stored[k] # None =>
             stored[k].row.revision <= row.revision /\ stored[k].row.revision \in Nat
      BY Types DEF IInv, RevisionsFit, Stored, Record
    <3> QED
      BY <1>1, <2>1, <3>1, Types DEF AnswersKept
  <2>4. AnswerOfKey'
    <3>1. \A s \in net' : ~ Writes(s)'
      BY <2>1, WriteKills
    <3>2. Answered(q.key)' => Answered(q.key) /\ stored'[q'.key] = stored[q.key]
      BY <2>1, <2>2, KeyStays
    <3> QED
      BY <1>1, <2>1, <3>1, <3>2 DEF AnswerOfKey
  <2>5. AnswerOfReply'
    BY <1>5, <2>1, <2>2
  <2> QED
    BY <2>3, <2>4, <2>5
<1>20. Goal
  <2> HIDE DEF Goal
  <2> QED
    BY <1>7, <1>8, <1>9, <1>10, <1>11, <1>12, <1>13, <1>14, <1>15, <1>16, <1>17, <1>18, <1>19,
       Steps
<1> QED
  BY <1>20 DEF AnswersFit, AnswersKept, AnswerOfKey, AnswerOfReply

-----------------------------------------------------------------------------
(* What is asked is held or written                                        *)

AskedOf(f) ==
  /\ history.asked[f] # None =>
       IF Held(q, f) # None THEN Held(q, f) = history.asked[f]
       ELSE history.written[f] = history.asked[f] /\ NothingLive(f)
  /\ history.asked[f] = None /\ panel # "left" =>
       Held(q, f) = None /\ \A r \in net : r.patch[f] = None

\* The text of a patch is there where the patch is.
LEMMA TextIsSome ==
  ASSUME NEW p \in Patch, NEW f \in Field
  PROVE  /\ TextOf(p, f) = None <=> p[f] = None
         /\ p[f] # None => TextOf(p, f) = p[f].text /\ p[f].text # None /\ p[f].text \in Texts
BY EditIsSome DEF TextOf, Patch

\* The text held after a request has started is that of its patch.
LEMMA HeldStarted ==
  ASSUME NEW r \in Request, NEW p, NEW current, NEW key, Started(r, p, current, key),
         NEW f \in Field
  PROVE  Held(q', f) = TextOf(p, f)
<1>1. /\ q'.pending[f] = None /\ q'.failed[f] = None /\ q'.running # None
      /\ q'.running.patch = p
  BY NoPatchIsEmpty DEF Started
<1> QED
  BY <1>1 DEF Held, TextOf

\* Two patches on top of each other hold the text of the later one, if there is one.
LEMMA TextOver ==
  ASSUME NEW p \in Patch, NEW later \in Patch, NEW f \in Field
  PROVE  TextOf(Over(p, later), f) = IF later[f] = None THEN TextOf(p, f) ELSE TextOf(later, f)
BY OverFields DEF TextOf

LEMMA TextRebased ==
  ASSUME NEW p \in Patch, NEW n \in Nat, NEW f \in Field
  PROVE  TextOf(Rebased(p, n), f) = TextOf(p, f)
BY RebasedFields DEF TextOf

\* Between requests the queue holds what is pending, or else what failed.
LEMMA HeldBetween ==
  ASSUME IInv, q.running = None, NEW f \in Field
  PROVE  Held(q, f) = IF q.pending[f] = None THEN TextOf(q.failed, f) ELSE TextOf(q.pending, f)
BY DEF Held, TextOf

\* A retry and a lost request leave the queue with the texts it held.
LEMMA HeldResends ==
  ASSUME IInv, NEW r \in Request, Resends(r), NEW f \in Field
  PROVE  Held(q', f) = Held(q, f) /\ (Held(q, f) = None => r.patch[f] = None)
<1>1. /\ q.failed \in Patch /\ q.pending \in Patch
      /\ r.patch = Over(q.failed, q.pending) /\ q.running = None
  BY Types DEF Resends, RetryFrame, Started
<1>2. Held(q', f) = TextOf(r.patch, f) /\ Held(q', f) = Held(q, f)
  BY <1>1, HeldStarted, HeldBetween, TextOver DEF Resends
<1>3. r.patch \in Patch
  BY <1>1, PatchTypes
<1> QED
  BY <1>2, <1>3, TextIsSome

LEMMA HeldReapplies ==
  ASSUME IInv, NEW latest, NEW r \in Request, Reapplies(latest, r), NEW f \in Field
  PROVE  Held(q', f) = Held(q, f) /\ (Held(q, f) = None => r.patch[f] = None)
<1> DEFINE n == latest.revision
<1>1. /\ q.failed \in Patch /\ q.pending \in Patch
      /\ r.patch = Over(Rebased(q.failed, n), Rebased(q.pending, n))
      /\ q.running = None /\ n \in Nat
  BY Types DEF Reapplies, RetryFrame, Started, Shown
<1>2. Rebased(q.failed, n) \in Patch /\ Rebased(q.pending, n) \in Patch
  BY <1>1, PatchTypes
<1>3. Held(q', f) = TextOf(r.patch, f)
  BY <1>1, HeldStarted DEF Reapplies
<1>4. Held(q', f) = Held(q, f)
  BY <1>1, <1>2, <1>3, HeldBetween, TextOver, TextRebased, RebasedFields
<1>5. r.patch \in Patch
  BY <1>1, <1>2, PatchTypes
<1> QED
  BY <1>3, <1>4, <1>5, TextIsSome

LEMMA HeldLoses == ASSUME IInv, Loses, NEW f \in Field PROVE Held(q', f) = Held(q, f)
<1>1. /\ q.running # None /\ q'.pending = q.pending /\ q'.failed = q.running.patch
      /\ q'.running = None
  BY DEF Loses, Fails
<1>2. q.failed[f] = None
  BY <1>1, NoPatchIsEmpty DEF IInv, QueueFits
<1> QED
  BY <1>1, <1>2 DEF Held, TextOf

\* A save changes what is held of its field only.
LEMMA HeldAsks ==
  ASSUME IInv, NEW e \in Record, NEW g \in Field, NEW edit \in Edit, NEW f \in Field,
         \/ AskWaits(e, g, edit)
         \/ \E r \in Request, current \in Record : AskSends(e, g, edit, r, current)
  PROVE  /\ f = g => Held(q', f) = edit.text /\ edit.text # None
         /\ f # g => Held(q', f) = Held(q, f)
<1>1. /\ PatchOf(g, edit) \in Patch /\ q.pending \in Patch
      /\ PatchOf(g, edit)[g] = edit /\ edit # None /\ edit.text # None
      /\ f # g => PatchOf(g, edit)[f] = None
  BY PatchTypes, EditIsSome, Types
<1>2. CASE AskWaits(e, g, edit)
  <2>1. /\ q'.pending = Over(q.pending, PatchOf(g, edit)) /\ q'.failed = q.failed
        /\ q'.running = q.running
    BY <1>2 DEF AskWaits, Holds
  <2>2. /\ f = g => q'.pending[f] = edit
        /\ f # g => q'.pending[f] = q.pending[f]
    BY <1>1, <2>1, OverFields
  <2> QED
    BY <1>1, <2>1, <2>2 DEF Held, TextOf
<1>3. ASSUME NEW r \in Request, NEW current \in Record, AskSends(e, g, edit, r, current)
      PROVE  /\ f = g => Held(q', f) = edit.text /\ edit.text # None
             /\ f # g => Held(q', f) = Held(q, f)
  <2>1. Held(q', f) = TextOf(PatchOf(g, edit), f)
    BY <1>3, HeldStarted DEF AskSends
  <2>2. Held(q, f) = None
    BY <1>3, HeldBetween, NoPatchIsEmpty DEF AskSends, TextOf
  <2> QED
    BY <1>1, <2>1, <2>2 DEF TextOf
<1> QED
  BY <1>2, <1>3

\* What starts a request while the queue and its fields are quiet elsewhere.
LEMMA NothingLiveStays ==
  ASSUME IInv, KeysGrow, UNCHANGED row, NEW f \in Field, NothingLive(f),
         \A r \in net' : r \in net \/ r.patch[f] = None
  PROVE  NothingLive(f)'
BY WritesStays DEF NothingLive

LEMMA NothingLiveAfterWrite ==
  ASSUME IInv, row'.revision = row.revision + 1, NEW f \in Field, net' \subseteq net
  PROVE  NothingLive(f)'
BY WriteKills DEF NothingLive

LEMMA AskedStep == ASSUME IInv, [Next]_vars, NEW f \in Field PROVE AskedOf(f)'
<1>1. /\ AskedOf(f) /\ q.pending \in Patch /\ q.failed \in Patch
      /\ q.running # None => q.running.patch \in Patch
  BY Types DEF IInv, AskedIsHeld, AskedOf
\* The queue holds what it held, and sends nothing else of the field.
<1>2. ASSUME KeysGrow, SameHistory, UNCHANGED row, history'.asked = history.asked,
             panel' # "left" => panel # "left", Held(q', f) = Held(q, f),
             \A r \in net' : r \in net \/ (Held(q, f) = None => r.patch[f] = None)
      PROVE  AskedOf(f)'
  <2>1. ASSUME history.asked[f] # None, Held(q, f) = None
        PROVE  history'.written[f] = history'.asked[f] /\ NothingLive(f)'
    <3>1. NothingLive(f)'
      BY <1>1, <1>2, <2>1, NothingLiveStays DEF AskedOf
    <3> QED
      BY <1>1, <1>2, <2>1, <3>1 DEF AskedOf, SameHistory
  <2> QED
    BY <1>1, <1>2, <2>1 DEF AskedOf
<1>3. ASSUME Calm PROVE AskedOf(f)'
  <2>1. /\ KeysGrow /\ SameHistory /\ UNCHANGED <<row, q>> /\ history'.asked = history.asked
        /\ panel' # "left" => panel # "left"
        /\ net' \subseteq net
    BY <1>3, StoredStays DEF Calm, SameHistory, PanelFits
  <2> QED
    BY <1>2, <2>1
<1>4. ASSUME Commits PROVE AskedOf(f)'
  <2>1. /\ KeysGrow /\ SameHistory /\ UNCHANGED <<row, q>> /\ history'.asked = history.asked
        /\ panel' # "left" => panel # "left"
        /\ net' \subseteq net
    BY <1>4, StoredStays, CommitsEffect DEF Commits, PanelFits
  <2> QED
    BY <1>2, <2>1
<1>5. ASSUME NEW e \in Record, NEW g \in Field, NEW edit \in Edit, NEW r \in Request,
             NEW current \in Record, AskSends(e, g, edit, r, current)
      PROVE  AskedOf(f)'
  <2>1. /\ SameHistory /\ UNCHANGED <<row, panel>> /\ KeysGrow /\ net' = net \cup {r}
        /\ history'.asked[g] = edit.text
        /\ f # g => history'.asked[f] = history.asked[f]
        /\ r.patch = PatchOf(g, edit)
    BY <1>5, AskEffect, EditIsSome DEF AskSends, AsksFor, Started
  <2>2. /\ f = g => Held(q', f) = edit.text /\ edit.text # None
        /\ f # g => Held(q', f) = Held(q, f)
    BY <1>5, HeldAsks
  <2>3. CASE f = g
    BY <2>1, <2>2, <2>3 DEF AskedOf
  <2>4. CASE f # g
    <3>1. PatchOf(g, edit)[f] = None
      BY <2>4, PatchTypes
    <3>2. NothingLive(f) => NothingLive(f)'
      BY <2>1, <3>1, NothingLiveStays
    <3> QED
      BY <1>1, <2>1, <2>2, <2>4, <3>1, <3>2 DEF AskedOf, SameHistory
  <2> QED
    BY <2>3, <2>4
<1>6. ASSUME NEW e \in Record, NEW g \in Field, NEW edit \in Edit, AskWaits(e, g, edit)
      PROVE  AskedOf(f)'
  <2>1. /\ SameHistory /\ UNCHANGED <<row, panel, net, stored>> /\ KeysGrow
        /\ history'.asked[g] = edit.text
        /\ f # g => history'.asked[f] = history.asked[f]
    BY <1>6, AskEffect, EditIsSome, StoredStays DEF AskWaits, AsksFor, Holds
  <2>2. /\ f = g => Held(q', f) = edit.text /\ edit.text # None
        /\ f # g => Held(q', f) = Held(q, f)
    BY <1>6, HeldAsks
  <2>3. CASE f = g
    BY <2>1, <2>2, <2>3 DEF AskedOf
  <2>4. CASE f # g
    <3>1. NothingLive(f) => NothingLive(f)'
      BY <2>1, NothingLiveStays
    <3> QED
      BY <1>1, <2>1, <2>2, <2>4, <3>1 DEF AskedOf, SameHistory
  <2> QED
    BY <2>3, <2>4
<1>7. ASSUME NEW r \in Request, Resends(r) PROVE AskedOf(f)'
  <2>1. /\ SameHistory /\ UNCHANGED <<row, history>> /\ panel # "left" /\ KeysGrow
        /\ net' = net \cup {r}
    BY <1>7 DEF Resends, RetryFrame, Started, SameHistory
  <2>2. Held(q', f) = Held(q, f) /\ (Held(q, f) = None => r.patch[f] = None)
    BY <1>7, HeldResends
  <2> QED
    BY <1>2, <2>1, <2>2
<1>8. ASSUME NEW r \in Request, NEW latest \in {row, item}, Reapplies(latest, r)
      PROVE  AskedOf(f)'
  <2>1. /\ SameHistory /\ UNCHANGED row /\ panel # "left" /\ KeysGrow
        /\ history'.asked = history.asked /\ net' = net \cup {r}
    BY <1>8 DEF Reapplies, RetryFrame, Started, Shown
  <2>2. Held(q', f) = Held(q, f) /\ (Held(q, f) = None => r.patch[f] = None)
    BY <1>8, HeldReapplies
  <2> QED
    BY <1>2, <2>1, <2>2
<1>9. ASSUME Shows PROVE AskedOf(f)'
  <2>1. /\ KeysGrow /\ SameHistory /\ UNCHANGED <<row, q, net, panel>>
        /\ history'.asked = history.asked
    BY <1>9, StoredStays DEF Shows, Shown
  <2> QED
    BY <1>2, <2>1
<1>10. ASSUME Loses PROVE AskedOf(f)'
  <2>1. /\ KeysGrow /\ SameHistory /\ UNCHANGED <<row, net, history>>
        /\ panel' # "left" => panel # "left"
    BY <1>10, StoredStays DEF Loses, Fails, SameHistory, PanelFits
  <2>2. Held(q', f) = Held(q, f)
    BY <1>10, HeldLoses
  <2> QED
    BY <1>2, <2>1, <2>2
\* What succeeded is written, and nothing else can write any more.
<1>11. ASSUME SuccessFrame, KeysGrow, Held(q', f) = TextOf(q.pending, f),
              \A r \in net' : r \in net \/ r.patch[f] = q.pending[f]
       PROVE  AskedOf(f)'
  <2>1. /\ UNCHANGED <<row, history>>
        /\ panel' # "left" => panel # "left"
        /\ q.running \in Request /\ q.running # None /\ q.failed[f] = None
    BY <1>11, Types, NoPatchIsEmpty DEF SuccessFrame, PanelFits, IInv, QueueFits
  <2>2. /\ Answered(q.key) /\ stored[q.key].digest[2][f] = TextOf(q.running.patch, f)
        /\ \A r \in net : ~ Writes(r)
        /\ stored[q.key].digest[2][f] # None => history.written[f] = stored[q.key].digest[2][f]
    BY <1>11, <2>1, DigestOf, NoneAssumption DEF SuccessFrame, IInv, AnswersFit
  <2>3. CASE q.pending[f] # None
    <3>1. Held(q, f) = q.pending[f].text /\ q.pending[f].text # None
      BY <1>1, <2>3, TextIsSome DEF Held
    <3>2. Held(q', f) = Held(q, f)
      BY <1>1, <1>11, <2>3, <3>1, TextIsSome
    <3> QED
      BY <1>1, <2>1, <3>1, <3>2 DEF AskedOf
  <2>4. CASE q.pending[f] = None
    <3>1. Held(q', f) = None
      BY <1>11, <2>4 DEF TextOf
    <3>2. Held(q, f) = TextOf(q.running.patch, f)
      BY <2>1, <2>4 DEF Held, TextOf
    <3>3. NothingLive(f)
      BY <2>2 DEF NothingLive
    <3>4. NothingLive(f)'
      BY <1>11, <2>1, <2>4, <3>3, NothingLiveStays
    <3>5. history.asked[f] # None => history.written[f] = history.asked[f]
      BY <1>1, <2>2, <3>2 DEF AskedOf
    <3> QED
      BY <1>1, <1>11, <2>1, <2>4, <3>1, <3>4, <3>5 DEF AskedOf
  <2> QED
    BY <2>3, <2>4
<1>12. ASSUME Finishes PROVE AskedOf(f)'
  <2>1. /\ SuccessFrame /\ KeysGrow /\ net' = net /\ q.pending = NoPatch
        /\ q'.pending[f] = None /\ q'.failed[f] = None /\ q'.running = None
    BY <1>12, StoredStays, NoPatchIsEmpty DEF Finishes, Ends
  <2>2. Held(q', f) = None /\ TextOf(q.pending, f) = None
    BY <2>1, NoPatchIsEmpty DEF Held, TextOf
  <2> QED
    BY <1>11, <2>1, <2>2
<1>13. ASSUME NEW r \in Request, SendsNext(r) PROVE AskedOf(f)'
  <2>1. SuccessFrame /\ KeysGrow /\ net' = net \cup {r} /\ r.patch = q.pending
    BY <1>13 DEF SendsNext, Started
  <2>2. Held(q', f) = TextOf(q.pending, f)
    BY <1>13, HeldStarted DEF SendsNext
  <2> QED
    BY <1>11, <2>1, <2>2
<1>14. ASSUME Discards PROVE AskedOf(f)'
  BY <1>14, DiscardEffect DEF Discards, AskedOf
<1>15. ASSUME NEW r \in net, Serve(r) PROVE AskedOf(f)'
  <2>1. UNCHANGED <<q, panel>> /\ net' \subseteq net
    BY <1>15, ServeEffect
  <2>2. CASE Worked(r)
    <3>1. NothingLive(f) => history'.written[f] = history.written[f]
      BY <2>2 DEF Worked, NothingLive
    <3>2. NothingLive(f)' /\ history'.asked = history.asked
      BY <2>1, <2>2, NothingLiveAfterWrite DEF Worked
    <3> QED
      BY <1>1, <2>1, <3>1, <3>2 DEF AskedOf
  <2>3. CASE UNCHANGED <<row, stored, history>>
    <3>1. KeysGrow /\ SameHistory
      BY <2>3, StoredStays DEF SameHistory
    <3> QED
      BY <1>2, <2>1, <2>3, <3>1
  <2> QED
    BY <1>15, <2>2, <2>3, ServeEffect
<1>16. ASSUME NEW g \in Field, NEW text \in OtherText, OutsideEdit(g, text) PROVE AskedOf(f)'
  <2>1. /\ UNCHANGED <<q, panel, net>> /\ row'.revision = row.revision + 1
        /\ history'.asked = history.asked /\ history'.written = history.written
    BY <1>16, OutsideEffect
  <2>2. NothingLive(f)'
    BY <2>1, NothingLiveAfterWrite
  <2> QED
    BY <1>1, <2>1, <2>2 DEF AskedOf
<1> QED
  BY <1>3, <1>4, <1>5, <1>6, <1>7, <1>8, <1>9, <1>10, <1>12, <1>13, <1>14, <1>15, <1>16, Steps

-----------------------------------------------------------------------------
(* Edits have seen what others wrote                                       *)

SeenOf(f) ==
  /\ \A r \in net : Seen(r.patch[f], f, r.revision)
  /\ q.current # None =>
       /\ history.outside[f] <= item.revision \/ q.current.revision < history.outside[f]
       /\ Seen(q.pending[f], f, q.current.revision)
       /\ Seen(q.failed[f], f, q.current.revision)
       /\ q.running # None => Seen(q.running.patch[f], f, q.current.revision)

\* An edit has seen the same, whatever is put around it.
LEMMA SeenStays ==
  ASSUME SameHistory, NEW edit, NEW f, NEW n, Seen(edit, f, n)
  PROVE  Seen(edit, f, n)'
BY DEF Seen, SameHistory

LEMMA SeenNone == ASSUME NEW f, NEW n PROVE Seen(None, f, n) /\ Seen(None, f, n)'
BY DEF Seen

\* A request that starts with edits that have seen what the record shows.
LEMMA SeenStarted ==
  ASSUME IInv, NEW r \in Request, NEW p, NEW current, NEW key, Started(r, p, current, key),
         SameHistory, NEW f \in Field, SeenOf(f), Seen(p[f], f, current.revision),
         history.outside[f] <= item'.revision \/ current.revision < history.outside[f]
  PROVE  SeenOf(f)'
<1>1. /\ net' = net \cup {r} /\ r.patch = p /\ r.revision = current.revision
      /\ q'.current = current /\ q'.running = r /\ current # None
      /\ q'.pending[f] = None /\ q'.failed[f] = None
  BY NoPatchIsEmpty, NoneAssumption DEF Started
<1>2. Seen(p[f], f, current.revision)'
  BY DEF Seen, SameHistory
<1>3. \A s \in net' : Seen(s.patch[f], f, s.revision)'
  <2>1. ASSUME NEW s \in net PROVE Seen(s.patch[f], f, s.revision)'
    BY <2>1 DEF SeenOf, Seen, SameHistory
  <2> QED
    BY <1>1, <1>2, <2>1
<1>4. Seen(q.pending[f], f, q.current.revision)' /\ Seen(q.failed[f], f, q.current.revision)'
  BY <1>1 DEF Seen
<1>5. Seen(q.running.patch[f], f, q.current.revision)'
  BY <1>1, <1>2
<1>6. history'.outside[f] <= item'.revision \/ q'.current.revision < history'.outside[f]
  BY <1>1 DEF SameHistory
<1> QED
  BY <1>3, <1>4, <1>5, <1>6 DEF SeenOf

LEMMA SeenStep == ASSUME IInv, [Next]_vars, NEW f \in Field PROVE SeenOf(f)'
<1>1. /\ SeenOf(f) /\ history.outside[f] \in Nat /\ item.revision \in Nat /\ row.revision \in Nat
      /\ q.current # None => q.current \in Record /\ q.current.revision \in Nat
      /\ q.pending \in Patch /\ q.failed \in Patch
  BY Types DEF IInv, EditsAreSeen, SeenOf
<1>2. ASSUME SameHistory, UNCHANGED q, net' \subseteq net, item'.revision \in Nat,
             item.revision <= item'.revision
      PROVE  SeenOf(f)'
  BY <1>1, <1>2 DEF SeenOf, Seen, SameHistory
<1>3. ASSUME Calm PROVE SeenOf(f)'
  BY <1>1, <1>2, <1>3 DEF Calm, SameHistory
<1>4. ASSUME Commits PROVE SeenOf(f)'
  BY <1>1, <1>2, <1>4, CommitsEffect DEF Commits
<1>5. ASSUME NEW e \in Record, NEW g \in Field, NEW edit \in Edit, NEW r \in Request,
             NEW current \in Record, AskSends(e, g, edit, r, current)
      PROVE  SeenOf(f)'
  <2>1. /\ SameHistory /\ UNCHANGED item /\ Started(r, PatchOf(g, edit), current, None)
        /\ e.revision \in Nat /\ current.revision \in Nat /\ e.revision <= item.revision
        /\ edit.base = e.revision
        /\ edit.late \/ e.revision = item.revision
        /\ current = e \/ (current = q.current /\ e.revision <= current.revision)
    BY <1>5, AskEffect, EditIsSome DEF AskSends, AsksFor, Record
  <2>2. history.outside[f] <= item.revision \/ current.revision < history.outside[f]
    BY <1>1, <2>1, NoneAssumption DEF SeenOf
  <2>3. Seen(edit, f, current.revision)
    BY <1>1, <2>1, <2>2 DEF Seen
  <2>4. PatchOf(g, edit)[f] \in {edit, None}
    BY PatchTypes
  <2>5. Seen(PatchOf(g, edit)[f], f, current.revision)
    BY <2>3, <2>4, SeenNone
  <2> QED
    BY <1>1, <2>1, <2>2, <2>5, SeenStarted
<1>6. ASSUME NEW e \in Record, NEW g \in Field, NEW edit \in Edit, AskWaits(e, g, edit)
      PROVE  SeenOf(f)'
  <2>1. /\ SameHistory /\ UNCHANGED <<item, net>>
        /\ q'.current = q.current /\ q'.failed = q.failed /\ q'.running = q.running
        /\ q'.pending = Over(q.pending, PatchOf(g, edit))
        /\ e.revision \in Nat /\ edit.base = e.revision
        /\ edit.late \/ e.revision = item.revision
    BY <1>6, AskEffect, EditIsSome DEF AskWaits, AsksFor, Holds, Record
  <2>2. q.current # None => Seen(edit, f, q.current.revision)
    BY <1>1, <2>1 DEF SeenOf, Seen
  <2>3. q'.pending[f] \in {q.pending[f], edit}
    <3>1. PatchOf(g, edit)[f] \in {edit, None} /\ PatchOf(g, edit) \in Patch
      BY PatchTypes
    <3> QED
      BY <1>1, <2>1, <3>1, OverFields
  <2>4. q.current # None => Seen(q'.pending[f], f, q.current.revision)
    BY <1>1, <2>2, <2>3 DEF SeenOf
  <2> QED
    BY <1>1, <2>1, <2>4 DEF SeenOf, Seen, SameHistory
<1>7. ASSUME NEW r \in Request, Resends(r) PROVE SeenOf(f)'
  <2>1. /\ SameHistory /\ UNCHANGED item /\ q.current # None
        /\ Started(r, Over(q.failed, q.pending), q.current, q.key)
    BY <1>7 DEF Resends, RetryFrame, SameHistory
  <2>2. Over(q.failed, q.pending)[f] \in {q.failed[f], q.pending[f]}
    BY <1>1, OverFields
  <2>3. Seen(Over(q.failed, q.pending)[f], f, q.current.revision)
    BY <1>1, <2>1, <2>2 DEF SeenOf
  <2>4. history.outside[f] <= item.revision \/ q.current.revision < history.outside[f]
    BY <1>1, <2>1 DEF SeenOf
  <2> QED
    BY <1>1, <2>1, <2>3, <2>4, SeenStarted
<1>8. ASSUME NEW r \in Request, NEW latest \in {row, item}, Reapplies(latest, r)
      PROVE  SeenOf(f)'
  <2> DEFINE n == latest.revision
             p == Over(Rebased(q.failed, n), Rebased(q.pending, n))
  <2>1. /\ SameHistory /\ item' = latest /\ n \in Nat /\ Started(r, p, latest, None)
    BY <1>8 DEF Reapplies, Shown
  <2>2. p[f] # None => p[f].base = n
    <3>1. Rebased(q.failed, n) \in Patch /\ Rebased(q.pending, n) \in Patch
      BY <1>1, <2>1, PatchTypes
    <3>2. p[f] \in {Rebased(q.failed, n)[f], Rebased(q.pending, n)[f]}
      BY <3>1, OverFields
    <3>3. \A d \in Patch : Rebased(d, n)[f] # None => Rebased(d, n)[f].base = n
      BY <2>1, RebasedFields
    <3> HIDE DEF p
    <3> QED
      BY <1>1, <3>2, <3>3
  <2> HIDE DEF p
  <2>3. history.outside[f] <= n \/ n < history.outside[f]
    BY <1>1, <2>1
  <2>4. Seen(p[f], f, n)
    BY <2>2, <2>3 DEF Seen
  <2> QED
    BY <1>1, <2>1, <2>3, <2>4, SeenStarted
<1>9. ASSUME Shows PROVE SeenOf(f)'
  BY <1>1, <1>2, <1>9 DEF Shows, Shown
<1>10. ASSUME Loses PROVE SeenOf(f)'
  <2>1. /\ SameHistory /\ UNCHANGED <<item, net>> /\ q.running # None
        /\ q'.pending = q.pending /\ q'.failed = q.running.patch /\ q'.current = q.current
        /\ q'.running = None
    BY <1>10 DEF Loses, Fails, SameHistory
  <2> QED
    BY <1>1, <2>1 DEF SeenOf, Seen, SameHistory
\* Nobody else wrote between the base of the request and its answer.
<1>11. ASSUME SuccessFrame
       PROVE  /\ SameHistory /\ UNCHANGED item /\ q.current # None /\ Head(reply) # None
              /\ history.outside[f] <= item.revision \/ Head(reply).revision < history.outside[f]
              /\ Seen(q.pending[f], f, Head(reply).revision)
  <2>1. /\ q.running # None /\ reply # <<>> /\ Head(reply) # None /\ q.running \in Request
        /\ UNCHANGED <<item, history>>
    BY <1>11, Types, NoneAssumption DEF SuccessFrame
  <2>2. /\ Answered(q.key) /\ q.key \in DOMAIN stored
        /\ stored[q.key].digest = Digest(q.running) /\ stored[q.key].row = Head(reply)
        /\ q.current # None /\ q.running.revision = q.current.revision
    BY <2>1, NoneAssumption DEF IInv, AnswersFit, QueueFits, Answered
  <2>3. /\ Head(reply).revision = q.current.revision + 1
        /\ history.outside[f] # q.current.revision + 1
    BY <2>1, <2>2, DigestOf DEF IInv, AnswersFit, Answered
  <2>4. q.current.revision < history.outside[f] => Head(reply).revision < history.outside[f]
    BY <1>1, <2>2, <2>3
  <2>5. history.outside[f] <= item.revision \/ Head(reply).revision < history.outside[f]
    BY <1>1, <2>2, <2>4 DEF SeenOf
  <2>6. Seen(q.pending[f], f, Head(reply).revision)
    BY <1>1, <2>2, <2>4 DEF SeenOf, Seen
  <2> QED
    BY <2>1, <2>2, <2>5, <2>6 DEF SameHistory
<1>12. ASSUME Finishes PROVE SeenOf(f)'
  <2>1. /\ UNCHANGED net /\ q'.pending[f] = None /\ q'.failed[f] = None
        /\ q'.running = None /\ q'.current = Head(reply)
    BY <1>12, NoPatchIsEmpty DEF Finishes, Ends
  <2>2. /\ SameHistory /\ UNCHANGED item
        /\ history.outside[f] <= item.revision \/ Head(reply).revision < history.outside[f]
    BY <1>11, <1>12 DEF Finishes
  <2> QED
    BY <1>1, <2>1, <2>2 DEF SeenOf, Seen, SameHistory
<1>13. ASSUME NEW r \in Request, SendsNext(r) PROVE SeenOf(f)'
  BY <1>1, <1>11, <1>13, SeenStarted DEF SendsNext
<1>14. ASSUME Discards PROVE SeenOf(f)'
  <2>1. /\ SameHistory /\ UNCHANGED <<item, net>> /\ q'.current = q.current
        /\ q'.pending[f] = None /\ q'.failed[f] = None /\ q'.running = None
    BY <1>14, DiscardEffect, NoPatchIsEmpty DEF Discards
  <2> QED
    BY <1>1, <2>1 DEF SeenOf, Seen, SameHistory
<1>15. ASSUME NEW r \in net, Serve(r) PROVE SeenOf(f)'
  <2>1. UNCHANGED <<q, item>> /\ net' \subseteq net /\ history'.outside = history.outside
    BY <1>15, ServeEffect DEF Worked
  <2> QED
    BY <1>1, <2>1 DEF SeenOf, Seen
<1>16. ASSUME NEW g \in Field, NEW text \in OtherText, OutsideEdit(g, text) PROVE SeenOf(f)'
  <2>1. /\ UNCHANGED <<q, item, net>>
        /\ g = f => history'.outside[f] = row.revision + 1
        /\ g # f => history'.outside[f] = history.outside[f]
    BY <1>16, OutsideEffect
  <2>2. /\ \A r \in net : r.revision \in Nat /\ r.revision <= row.revision
        /\ q.current # None => q.current.revision <= row.revision
    BY Types DEF IInv, RevisionsFit, Request
  <2>3. CASE g = f
    BY <1>1, <2>1, <2>2, <2>3 DEF SeenOf, Seen
  <2>4. CASE g # f
    BY <1>1, <2>1, <2>4 DEF SeenOf, Seen
  <2> QED
    BY <2>3, <2>4
<1> QED
  BY <1>3, <1>4, <1>5, <1>6, <1>7, <1>8, <1>9, <1>10, <1>12, <1>13, <1>14, <1>15, <1>16, Steps

-----------------------------------------------------------------------------
(* The last commit                                                         *)

\* The last element stays the last when earlier ones go.
LEMMA LastStays ==
  ASSUME NEW S, NEW s \in Seq(S), NEW i \in 0 .. Len(s) - 1
  PROVE  /\ SubSeq(s, i + 1, Len(s)) \in Seq(S) /\ SubSeq(s, i + 1, Len(s)) # <<>>
         /\ Last(SubSeq(s, i + 1, Len(s))) = Last(s)
         /\ Len(SubSeq(s, i + 1, Len(s))) = Len(s) - i
         /\ \A k \in 1 .. Len(s) - i : SubSeq(s, i + 1, Len(s))[k] = s[i + k]
<1>1. \A k \in i + 1 .. Len(s) : s[k] \in S
  OBVIOUS
<1>2. /\ SubSeq(s, i + 1, Len(s)) \in Seq(S)
      /\ Len(SubSeq(s, i + 1, Len(s))) = Len(s) - (i + 1) + 1
      /\ \A k \in 1 .. Len(s) - (i + 1) + 1 : SubSeq(s, i + 1, Len(s))[k] = s[(i + 1) + k - 1]
  BY <1>1, SubSeqProperties
<1> DEFINE t == SubSeq(s, i + 1, Len(s))
<1>3. Len(s) \in Nat /\ i \in Nat /\ i < Len(s)
  OBVIOUS
<1> HIDE DEF t
<1>4. Len(t) = Len(s) - i /\ \A k \in 1 .. Len(s) - i : t[k] = s[(i + 1) + k - 1]
  BY <1>2, <1>3 DEF t
<1>5. \A k \in 1 .. Len(s) - i : (i + 1) + k - 1 = i + k
  BY <1>3
<1>6. \A k \in 1 .. Len(s) - i : t[k] = s[i + k]
  BY <1>4, <1>5
<1>7. t # <<>> /\ t[Len(t)] = s[Len(s)]
  <2>1. Len(t) \in 1 .. Len(s) - i /\ i + Len(t) = Len(s)
    BY <1>3, <1>4
  <2>2. t \in Seq(S)
    BY <1>2 DEF t
  <2>3. t[Len(t)] = s[Len(s)]
    BY <1>6, <2>1
  <2>4. Len(t) # 0
    BY <1>3, <1>4
  <2> QED
    BY <2>2, <2>3, <2>4
<1> QED
  BY <1>2, <1>4, <1>6, <1>7 DEF Last, t

LEMMA LastOfTail ==
  ASSUME NEW S, NEW s \in Seq(S), s # <<>>
  PROVE  /\ Tail(s) = <<>> => Head(s) = Last(s)
         /\ Tail(s) # <<>> => Last(Tail(s)) = Last(s)
<1>1. /\ Tail(s) \in Seq(S) /\ Len(Tail(s)) = Len(s) - 1 /\ Len(s) \in Nat
      /\ \A i \in 1 .. Len(Tail(s)) : Tail(s)[i] = s[i + 1]
  BY HeadTailProperties
<1>2. Tail(s) = <<>> <=> Len(s) = 1
  <2>1. Tail(s) = <<>> <=> Len(Tail(s)) = 0
    BY <1>1
  <2> QED
    BY <1>1, <2>1
<1>3. Len(s) = 1 => Head(s) = s[Len(s)]
  OBVIOUS
<1>4. Tail(s) # <<>> => Tail(s)[Len(Tail(s))] = s[Len(s)]
  BY <1>1, <1>2
<1> QED
  BY <1>2, <1>3, <1>4 DEF Last

LEMMA LastOfAppend ==
  ASSUME NEW S, NEW s \in Seq(S), NEW e \in S
  PROVE  Append(s, e) # <<>> /\ Last(Append(s, e)) = e
BY AppendProperties DEF Last

\* What a refetch leaves of the commits that are out ends as before.
LEMMA ShownLast ==
  ASSUME IInv, NEW latest, Shown(latest)
  PROVE  /\ LastIsSent'
         /\ field'.sent # <<>> => field.sent # <<>> /\ field'.last = field.last
<1>1. /\ LastIsSent /\ field.sent \in Seq(Texts) /\ item' = latest
  BY Types DEF IInv, Shown
<1>2. CASE latest.content = item.content /\ field' = field
  BY <1>1, <1>2 DEF LastIsSent
<1>3. CASE field'.sent = <<>> /\ field'.last = latest.content
  BY <1>1, <1>3 DEF LastIsSent
<1>4. ASSUME NEW i \in DOMAIN field.sent, field.sent[i] = latest.content,
             field'.sent = SubSeq(field.sent, i + 1, Len(field.sent)), field'.last = field.last
      PROVE  /\ LastIsSent'
             /\ field'.sent # <<>> => field.sent # <<>> /\ field'.last = field.last
  <2>1. i \in 1 .. Len(field.sent) /\ Len(field.sent) \in Nat /\ field.sent # <<>>
        /\ field.last = field.sent[Len(field.sent)]
    BY <1>1 DEF LastIsSent, Last
  <2>2. CASE i = Len(field.sent)
    <3>1. field'.sent = <<>>
      BY <1>4, <2>1, <2>2, SubSeqEmpty
    <3> QED
      BY <1>1, <1>4, <2>1, <2>2, <3>1 DEF LastIsSent
  <2>3. CASE i < Len(field.sent)
    <3>1. field'.sent # <<>> /\ Last(field'.sent) = Last(field.sent)
      BY <1>1, <1>4, <2>1, <2>3, LastStays
    <3> QED
      BY <1>1, <1>4, <2>1, <3>1 DEF LastIsSent
  <2> QED
    BY <2>1, <2>2, <2>3
<1> QED
  BY <1>2, <1>3, <1>4 DEF Shown

LEMMA LastStep == ASSUME IInv, [Next]_vars PROVE LastIsSent' /\ LastIsAsked'
<1> DEFINE Goal == LastIsSent' /\ LastIsAsked'
<1>1. /\ LastIsSent /\ LastIsAsked /\ field.sent \in Seq(Texts) /\ field.draft \in Texts
      /\ waiting \in Seq([text: Texts, entity: Record])
  BY Types DEF IInv
<1>2. ASSUME field'.sent = field.sent, field'.last = field.last, UNCHANGED <<item, waiting>>,
             history'.asked["content"] = history.asked["content"],
             panel' # "left" => panel # "left"
      PROVE  Goal
  BY <1>1, <1>2 DEF LastIsSent, LastIsAsked
<1>3. ASSUME Calm PROVE Goal
  BY <1>2, <1>3 DEF Calm, PanelFits
<1>4. ASSUME Commits PROVE Goal
  <2>1. /\ item' = item /\ field'.last = field.draft
        /\ field'.sent = Append(field.sent, field.draft)
        /\ waiting' = Append(waiting, [text |-> field.draft, entity |-> item])
    BY <1>4, CommitsEffect DEF Commits
  <2>2. field'.sent # <<>> /\ Last(field'.sent) = field.draft
    BY <1>1, <2>1, LastOfAppend
  <2>3. [text |-> field.draft, entity |-> item] \in [text: Texts, entity: Record]
    BY <1>1, Typed
  <2>4. waiting' # <<>> /\ Last(waiting') = [text |-> field.draft, entity |-> item]
    <3>1. \A S : \A s \in Seq(S), e \in S : Append(s, e) # <<>> /\ Last(Append(s, e)) = e
      BY LastOfAppend
    <3>2. waiting \in Seq([text: Texts, entity: Record])
      BY <1>1
    <3>3. waiting' = Append(waiting, [text |-> field.draft, entity |-> item])
      BY <2>1
    <3> QED
      BY <2>3, <3>1, <3>2, <3>3, Zenon
  <2>5. Last(waiting').text = field.draft
    BY <2>4
  <2> QED
    BY <2>1, <2>2, <2>4, <2>5 DEF LastIsSent, LastIsAsked
<1>5. ASSUME NEW e \in Record, NEW f \in Field, NEW edit \in Edit, AsksFor(e, f, edit)
      PROVE  Goal
  <2>1. /\ UNCHANGED <<item, field, panel>>
        /\ history'.asked[f] = edit.text
        /\ \A g \in Field \ {f} : history'.asked[g] = history.asked[g]
    BY <1>5, AskEffect, EditIsSome DEF AsksFor
  <2>2. CASE f = "title" /\ waiting' = waiting
    <3>1. history'.asked["content"] = history.asked["content"]
      BY <2>1, <2>2, Types
    <3> QED
      BY <1>2, <2>1, <2>2, <3>1
  <2>3. CASE f = "content" /\ waiting # <<>> /\ waiting' = Tail(waiting)
             /\ edit.text = Head(waiting).text
    <3>1. /\ waiting' = <<>> => Head(waiting) = Last(waiting)
          /\ waiting' # <<>> => Last(waiting') = Last(waiting)
      BY <1>1, <2>3, LastOfTail
    <3> QED
      BY <1>1, <2>1, <2>3, <3>1 DEF LastIsSent, LastIsAsked
  <2> QED
    BY <1>5, <2>2, <2>3 DEF AsksFor
<1>6. ASSUME NEW latest, Shown(latest), UNCHANGED waiting, panel # "left" PROVE Goal
  BY <1>1, <1>6, ShownLast DEF LastIsAsked, Shown
<1>7. ASSUME NEW r \in Request, Resends(r) PROVE Goal
  BY <1>2, <1>7 DEF Resends, RetryFrame
<1>8. ASSUME NEW r \in Request, NEW latest \in {row, item}, Reapplies(latest, r) PROVE Goal
  BY <1>6, <1>8 DEF Reapplies, RetryFrame
<1>9. ASSUME Shows PROVE Goal
  BY <1>6, <1>9 DEF Shows
<1>10. ASSUME Loses PROVE Goal
  BY <1>2, <1>10 DEF Loses, PanelFits
<1>11. ASSUME SuccessFrame PROVE Goal
  BY <1>2, <1>11 DEF SuccessFrame, PanelFits
<1>12. ASSUME Discards PROVE Goal
  BY <1>1, <1>12, DiscardEffect DEF Discards, LastIsSent, LastIsAsked
<1>13. ASSUME NEW r \in net, Serve(r) PROVE Goal
  <2>1. UNCHANGED <<item, field, waiting, panel>> /\ history'.asked = history.asked
    BY <1>13, ServeEffect DEF Worked
  <2> QED
    BY <1>2, <2>1
<1>14. ASSUME NEW f \in Field, NEW text \in OtherText, OutsideEdit(f, text) PROVE Goal
  <2>1. UNCHANGED <<item, field, waiting, panel>> /\ history'.asked = history.asked
    BY <1>14, OutsideEffect
  <2> QED
    BY <1>2, <2>1
<1> HIDE DEF Goal
<1>15. Goal
  BY <1>3, <1>4, <1>5, <1>7, <1>8, <1>9, <1>10, <1>11, <1>12, <1>13, <1>14, Steps
     DEF AskSends, AskWaits, Finishes, SendsNext
<1> QED
  BY <1>15 DEF Goal

-----------------------------------------------------------------------------
(* What the field wrote last rests, or shows                               *)

\* The commit that was answered is the last one.
LastAnswered == Answered(q.key) /\ stored[q.key].digest[2]["content"] = field.last

\* Nothing of the field is on its way.
NothingOut == panel # "left" /\ waiting = <<>> /\ Held(q, "content") = None

LEMMA LastRestsParts ==
  LastRests <=> (~ history.echoed /\ field.sent # <<>> /\ (LastAnswered \/ NothingOut) => Rests)
BY DEF LastRests, LastAnswered, NothingOut

\* Rests looks at the record, the page and the field.
LEMMA RestsStays ==
  ASSUME UNCHANGED row, field'.sent = field.sent, field'.last = field.last,
         item'.content = item.content, SameHistory, Rests
  PROVE  Rests'
BY DEF Rests, Own, SameHistory

\* A refetch that leaves commits out shows nothing that another person wrote.
LEMMA ShownRests ==
  ASSUME IInv, NEW latest \in {row, item}, Shown(latest), UNCHANGED row,
         field'.sent # <<>>, Rests
  PROVE  Rests'
<1>1. item' = latest /\ SameHistory
  BY DEF Shown
<1>2. CASE latest.content = item.content /\ field' = field
  BY <1>1, <1>2, RestsStays
<1>3. CASE latest.content # item.content /\ Own(latest.content) /\ field'.last = field.last
  BY <1>1, <1>3 DEF Rests, SameHistory
<1> QED
  BY <1>2, <1>3, OwnMeans DEF Shown

LEMMA LastRestsStep == ASSUME IInv, [Next]_vars PROVE LastRests'
<1> DEFINE Owed == ~ history.echoed /\ field.sent # <<>>
           Goal == (Owed /\ (LastAnswered \/ NothingOut) => Rests)'
<1>1. /\ Owed /\ LastAnswered => Rests
      /\ Owed /\ NothingOut => Rests
      /\ "content" \in Field /\ field.last \in Texts /\ field.last # None
  BY LastRestsParts, Types, NoneAssumption DEF IInv
\* The page and the record stay, and so do the key and the text that the queue holds.
<1>2. ASSUME UNCHANGED row, SameHistory, field'.sent = field.sent, field'.last = field.last,
             item'.content = item.content, ~ history'.echoed => ~ history.echoed,
             LastAnswered' => LastAnswered, NothingOut' => NothingOut
      PROVE  Goal
  BY <1>1, <1>2, RestsStays
\* The same, while the page takes a record.
<1>3. ASSUME NEW latest \in {row, item}, Shown(latest), UNCHANGED <<row, waiting>>,
             ~ history'.echoed => ~ history.echoed,
             LastAnswered' /\ field'.last = field.last => LastAnswered, NothingOut' => NothingOut
      PROVE  Goal
  <2> SUFFICES ASSUME Owed', LastAnswered' \/ NothingOut' PROVE Rests'
    OBVIOUS
  <2>1. field.sent # <<>> /\ field'.last = field.last /\ field'.sent # <<>>
    BY <1>3, ShownLast
  <2>2. Rests
    BY <1>1, <1>3, <2>1
  <2> QED
    BY <1>3, <2>1, <2>2, ShownRests
<1>4. ASSUME KeysGrow, q'.key = q.key, field'.last = field.last
      PROVE  LastAnswered' => LastAnswered
  BY <1>4, KeyStays DEF LastAnswered
\* A request under a new key has no answer.
<1>5. ASSUME NEW r \in Request, NEW p, NEW current, Started(r, p, current, None), UNCHANGED row
      PROVE  ~ LastAnswered'
  BY <1>5, StartedAnswer DEF LastAnswered
<1>6. ASSUME Calm PROVE Goal
  <2>1. KeysGrow /\ SameHistory
    BY <1>6, StoredStays DEF Calm, SameHistory
  <2>2. NothingOut' => NothingOut
    BY <1>6 DEF Calm, NothingOut, PanelFits
  <2> QED
    BY <1>2, <1>4, <1>6, <2>1, <2>2 DEF Calm
<1>7. ASSUME Commits PROVE Goal
  <2>1. /\ field'.last = field.draft /\ waiting' # <<>> /\ UNCHANGED <<stored, q>>
        /\ ~ history'.echoed => ~ UnderWay(field.draft)
    BY <1>7, CommitsEffect, Types, Typed, AppendProperties DEF Commits
  <2>2. LastAnswered' => history'.echoed
    BY <2>1 DEF LastAnswered, UnderWay, Answered
  <2> QED
    BY <2>1, <2>2 DEF NothingOut
<1>8. ASSUME NEW e \in Record, NEW f \in Field, NEW edit \in Edit,
             \/ AskWaits(e, f, edit)
             \/ \E r \in Request, current \in Record : AskSends(e, f, edit, r, current)
      PROVE  Goal
  <2>1. AsksFor(e, f, edit)
    BY <1>8 DEF AskWaits, AskSends
  <2>2. /\ UNCHANGED <<row, item, field, panel>> /\ SameHistory
        /\ history'.echoed = history.echoed
        /\ f = "title" => waiting' = waiting
    BY <2>1, AskEffect, EditIsSome DEF AsksFor
  <2>3. NothingOut' => NothingOut
    <3>1. CASE f = "content"
      <4>1. Held(q', "content") # None
        BY <1>8, <3>1, HeldAsks
      <4> QED
        BY <4>1 DEF NothingOut
    <3>2. CASE f = "title"
      <4>1. Held(q', "content") = Held(q, "content")
        BY <1>8, <1>1, <3>2, HeldAsks
      <4> QED
        BY <2>2, <3>2, <4>1 DEF NothingOut
    <3> QED
      BY <3>1, <3>2 DEF Field
  <2>4. LastAnswered' => LastAnswered
    <3>1. CASE AskWaits(e, f, edit)
      BY <1>4, <2>2, <3>1, StoredStays DEF AskWaits, Holds
    <3>2. ASSUME NEW r \in Request, NEW current \in Record, AskSends(e, f, edit, r, current)
          PROVE  ~ LastAnswered'
      BY <1>5, <2>2, <3>2 DEF AskSends
    <3> QED
      BY <1>8, <3>1, <3>2
  <2> QED
    BY <1>2, <2>2, <2>3, <2>4
<1>9. ASSUME NEW r \in Request, Resends(r) PROVE Goal
  <2>1. /\ UNCHANGED <<row, item, field, waiting, history>> /\ panel # "left" /\ SameHistory
        /\ Started(r, Over(q.failed, q.pending), q.current, q.key)
        /\ q.key # None
    BY <1>9 DEF Resends, RetryFrame, SameHistory, IInv, QueueFits
  <2>2. NothingOut' => NothingOut
    BY <1>1, <1>9, <2>1, HeldResends DEF NothingOut
  <2>3. LastAnswered' => LastAnswered
    BY <2>1, StartedAnswer DEF LastAnswered
  <2> QED
    BY <1>2, <2>1, <2>2, <2>3
<1>10. ASSUME NEW r \in Request, NEW latest \in {row, item}, Reapplies(latest, r) PROVE Goal
  <2>1. /\ UNCHANGED <<row, waiting>> /\ panel # "left" /\ Shown(latest)
        /\ history'.echoed = history.echoed
        /\ Started(r, Over(Rebased(q.failed, latest.revision), Rebased(q.pending, latest.revision)),
                   latest, None)
    BY <1>10 DEF Reapplies, RetryFrame, Shown
  <2>2. NothingOut' => NothingOut
    BY <1>1, <1>10, <2>1, HeldReapplies DEF NothingOut
  <2>3. ~ LastAnswered'
    BY <1>5, <2>1
  <2> QED
    BY <1>3, <2>1, <2>2, <2>3
<1>11. ASSUME Shows PROVE Goal
  <2>1. /\ UNCHANGED <<row, stored, q, waiting, panel>> /\ Shown(row) /\ KeysGrow
        /\ history'.echoed = history.echoed
    BY <1>11, StoredStays DEF Shows, Shown
  <2>2. NothingOut' => NothingOut
    BY <2>1 DEF NothingOut
  <2>3. LastAnswered' /\ field'.last = field.last => LastAnswered
    BY <1>4, <2>1
  <2> QED
    BY <1>3, <2>1, <2>2, <2>3
<1>12. ASSUME Loses PROVE Goal
  <2>1. /\ UNCHANGED <<row, stored, item, field, waiting, history>> /\ q'.key = q.key
        /\ SameHistory /\ KeysGrow
        /\ panel' # "left" => panel # "left"
    BY <1>12, StoredStays DEF Loses, Fails, SameHistory, PanelFits
  <2>2. NothingOut' => NothingOut
    BY <1>1, <1>12, <2>1, HeldLoses DEF NothingOut
  <2> QED
    BY <1>2, <1>4, <2>1, <2>2
\* What succeeded is answered when the queue holds no more of the field.
<1>13. ASSUME SuccessFrame, ~ LastAnswered',
              Held(q', "content") = TextOf(q.pending, "content")
       PROVE  Goal
  <2> SUFFICES ASSUME Owed', NothingOut' PROVE Rests'
    BY <1>13
  <2>1. /\ UNCHANGED <<row, item, field, waiting, history>> /\ SameHistory
        /\ panel # "left" /\ waiting = <<>> /\ Owed
        /\ q.running # None /\ q.running \in Request
    BY <1>13, Types DEF SuccessFrame, PanelFits, SameHistory, NothingOut
  <2>2. q.pending["content"] = None /\ q.failed["content"] = None
    <3>1. TextOf(q.pending, "content") = None
      BY <1>13 DEF NothingOut
    <3> QED
      BY <1>1, <2>1, <3>1, TextIsSome, Types, NoPatchIsEmpty DEF IInv, QueueFits
  <2>3. Held(q, "content") = TextOf(q.running.patch, "content")
    BY <2>1, <2>2 DEF Held, TextOf
  <2>4. /\ Answered(q.key)
        /\ stored[q.key].digest[2]["content"] = TextOf(q.running.patch, "content")
    BY <1>1, <1>13, <2>1, DigestOf, NoneAssumption DEF SuccessFrame, IInv, AnswersFit
  <2>5. CASE Held(q, "content") = None
    <3>1. NothingOut
      BY <2>1, <2>5 DEF NothingOut
    <3>2. Rests
      BY <1>1, <2>1, <3>1
    <3> QED
      BY <2>1, <3>2, RestsStays
  <2>6. CASE Held(q, "content") # None
    <3>1. Held(q, "content") = history.asked["content"]
      BY <1>1, <2>1, <2>6 DEF IInv, AskedIsHeld
    <3>2. field.last = history.asked["content"]
      BY <2>1 DEF IInv, LastIsAsked
    <3>3. LastAnswered
      BY <2>3, <2>4, <3>1, <3>2 DEF LastAnswered
    <3>4. Rests
      BY <1>1, <2>1, <3>3
    <3> QED
      BY <2>1, <3>4, RestsStays
  <2> QED
    BY <2>5, <2>6
<1>14. ASSUME Finishes PROVE Goal
  <2>1. /\ SuccessFrame /\ q.pending = NoPatch /\ q'.key = None
        /\ q'.pending["content"] = None /\ q'.failed["content"] = None /\ q'.running = None
    BY <1>1, <1>14, NoPatchIsEmpty DEF Finishes, Ends
  <2>2. Held(q', "content") = None /\ TextOf(q.pending, "content") = None
    BY <1>1, <2>1, NoPatchIsEmpty DEF Held, TextOf
  <2>3. ~ LastAnswered'
    BY <2>1 DEF LastAnswered, Answered
  <2> QED
    BY <1>13, <2>1, <2>2, <2>3
<1>15. ASSUME NEW r \in Request, SendsNext(r) PROVE Goal
  <2>1. SuccessFrame /\ Started(r, q.pending, Head(reply), None) /\ UNCHANGED row
    BY <1>15 DEF SendsNext, SuccessFrame
  <2>2. Held(q', "content") = TextOf(q.pending, "content")
    BY <1>1, <2>1, HeldStarted
  <2>3. ~ LastAnswered'
    BY <1>5, <2>1
  <2> QED
    BY <1>13, <2>1, <2>2, <2>3
<1>16. ASSUME Discards PROVE Goal
  BY <1>16, DiscardEffect DEF Discards, LastAnswered, Answered, NothingOut
<1>17. ASSUME NEW r \in net, Serve(r) PROVE Goal
  <2>1. UNCHANGED <<q, item, field, waiting, panel>>
    BY <1>17, ServeEffect
  <2>2. CASE UNCHANGED <<row, stored, history>>
    <3>1. SameHistory /\ KeysGrow
      BY <2>2, StoredStays DEF SameHistory
    <3>2. NothingOut' => NothingOut
      BY <2>1 DEF NothingOut
    <3> QED
      BY <1>2, <1>4, <2>1, <2>2, <3>1, <3>2
  <2>3. CASE Worked(r)
    <3>1. /\ ~ Answered(q.key) /\ r.key \in DOMAIN stored /\ r \in Request
          /\ history'.echoed = history.echoed
          /\ q.key # None => q.key \in DOMAIN stored
      BY <1>17, <2>3, ServeEffect DEF IInv, AnswersFit, QueueFits, Worked
    <3>2. LastAnswered' => q.key = r.key /\ TextOf(r.patch, "content") = field.last
      <4>1. Answered(q.key)' => q.key = r.key
        BY <2>1, <2>3, <3>1 DEF Answered, Worked
      <4>2. q.key = r.key => stored'[q'.key].digest[2]["content"] = TextOf(r.patch, "content")
        BY <1>1, <2>1, <2>3, <3>1, DigestOf DEF Worked
      <4> QED
        BY <2>1, <4>1, <4>2 DEF LastAnswered
    <3>3. CASE r.patch["content"] = None
      <4>1. ~ LastAnswered'
        BY <1>1, <3>2, <3>3 DEF TextOf
      <4>2. NothingOut' => NothingOut
        BY <2>1 DEF NothingOut
      <4>3. row'.content = row.content /\ history'.ours = history.ours
        BY <2>3, <3>3 DEF Worked
      <4>4. Rests => Rests'
        BY <2>1, <4>3 DEF Rests, Own
      <4> QED
        BY <1>1, <2>1, <3>1, <4>1, <4>2, <4>4
    <3>4. CASE r.patch["content"] # None
      <4>1. ~ NothingOut
        BY <1>1, <1>17, <2>3, <3>4 DEF NothingOut, IInv, AskedIsHeld, NothingLive, Worked
      <4>2. ~ NothingOut'
        BY <2>1, <4>1 DEF NothingOut
      <4>3. LastAnswered' => Rests'
        BY <2>1, <2>3, <3>2, <3>4 DEF Worked, Rests, TextOf
      <4> QED
        BY <4>2, <4>3
    <3> QED
      BY <3>3, <3>4
  <2> QED
    BY <1>17, <2>2, <2>3, ServeEffect
<1>18. ASSUME NEW f \in Field, NEW text \in OtherText, OutsideEdit(f, text) PROVE Goal
  <2>1. /\ UNCHANGED <<stored, q, item, field, waiting, panel>>
        /\ ~ history'.echoed => ~ history.echoed /\ (f = "content" => ~ Echoes(text))
        /\ row'.content = IF f = "content" THEN text ELSE row.content
        /\ history'.ours <=> history.ours /\ f # "content"
    BY <1>18, OutsideEffect
  <2>2. CASE f = "content"
    <3>1. ~ history'.echoed => Rests'
      BY <2>1, <2>2 DEF Rests, Echoes, Own
    <3> QED
      BY <3>1
  <2>3. CASE f # "content"
    <3>1. Rests => Rests'
      BY <2>1, <2>3 DEF Rests, Own
    <3>2. (LastAnswered' => LastAnswered) /\ (NothingOut' => NothingOut)
      BY <2>1 DEF LastAnswered, NothingOut, Answered
    <3> QED
      BY <1>1, <2>1, <3>1, <3>2
  <2> QED
    BY <2>2, <2>3
<1> HIDE DEF Goal
<1>19. Goal
  BY <1>6, <1>7, <1>8, <1>9, <1>10, <1>11, <1>12, <1>14, <1>15, <1>16, <1>17, <1>18, Steps
<1> QED
  BY <1>19 DEF Goal, LastRests, LastAnswered, NothingOut

-----------------------------------------------------------------------------
(* Commits are written in their order                                      *)

\* The commits that wait are the last of those sent.
WaitingFits ==
  /\ Saves \in Nat
  /\ \A j \in DOMAIN waiting : field.sent[Saves + j] = waiting[j].text

\* The places move by i, and the queue's by what is put on top of it.
LEMMA PlacesMove ==
  ASSUME IInv, KeysGrow, UNCHANGED row, SameHistory,
         NEW N \in Nat, NEW i \in Nat, NEW a \in 0 .. N, NEW b \in 0 .. N, NEW c \in 0 .. N,
         NEW d \in 0 .. N, NEW e \in 0 .. N,
         InOrder(a, b, c), i <= a, b <= d, d <= e,
         \A k \in i .. N : At(k - i)' = At(k),
         \A r \in net' : r \in net \/ (r.patch["content"] # None => At(d) = r.patch["content"].text),
         q'.running # None /\ q'.running.patch["content"] # None
           => At(d) = q'.running.patch["content"].text,
         q'.failed["content"] # None => At(d) = q'.failed["content"].text,
         q'.pending["content"] # None => At(e) = q'.pending["content"].text
  PROVE  InOrder(a - i, d - i, e - i)'
<1>1. a <= b /\ a \in i .. N /\ d \in i .. N /\ e \in i .. N /\ a <= d
  BY DEF InOrder
<1>2. At(a - i)' = At(a) /\ At(d - i)' = At(d) /\ At(e - i)' = At(e)
  BY <1>1
<1>3. history'.ours => row'.content = At(a - i)'
  BY <1>2 DEF InOrder, SameHistory
<1>4. ASSUME NEW r \in net', Writes(r)', r.patch["content"] # None
      PROVE  \E k \in a - i .. d - i : At(k)' = r.patch["content"].text
  <2>1. CASE r \in net
    <3>1. PICK k \in a .. b : At(k) = r.patch["content"].text
      BY <1>4, <2>1, WritesStays DEF InOrder
    <3>2. k - i \in a - i .. d - i /\ k \in i .. N
      BY <1>1
    <3> QED
      BY <3>1, <3>2
  <2>2. CASE r \notin net
    <3>1. At(d) = r.patch["content"].text
      BY <1>4, <2>2
    <3>2. d - i \in a - i .. d - i
      BY <1>1
    <3> QED
      BY <1>2, <3>1, <3>2
  <2> QED
    BY <2>1, <2>2
<1>5. a - i <= d - i /\ d - i <= e - i
  BY <1>1
<1> QED
  BY <1>2, <1>3, <1>4, <1>5 DEF InOrder

\* After a write by somebody else, or by the request at the place d, all the rest is dead.
LEMMA PlacesAfterWrite ==
  ASSUME IInv, row'.revision = row.revision + 1, net' \subseteq net, UNCHANGED <<q, item, field>>,
         NEW a \in Nat, NEW b \in Nat, NEW c \in Nat, NEW d \in Nat, InOrder(a, b, c), d <= b,
         history'.ours => row'.content = At(d)
  PROVE  InOrder(d, b, c)'
<1>1. \A k \in Nat : At(k)' = At(k)
  BY DEF At
<1>2. \A r \in net' : ~ Writes(r)'
  BY WriteKills
<1> QED
  BY <1>1, <1>2 DEF InOrder

LEMMA Places ==
  ASSUME IInv
  PROVE  /\ field.sent \in Seq(Texts) /\ DOMAIN field.sent = 1 .. Len(field.sent)
         /\ Len(field.sent) \in Nat
         /\ DOMAIN waiting = 1 .. Len(waiting) /\ Len(waiting) \in Nat
         /\ waiting \in Seq([text: Texts, entity: Record])
BY Types

\* A refetch that nobody disturbs moves the places to the first commit it shows, which is not
\* behind what is written, or it comes when nothing is on its way.
LEMMA ShownMoves ==
  ASSUME IInv, NEW latest \in {row, item}, Shown(latest), UNCHANGED <<row, waiting>>,
         ~ history'.disturbed, WaitingFits, \E a, b, c \in 0 .. Saves : InOrder(a, b, c)
  PROVE  \/ \E i \in 0 .. Saves :
              /\ \A a, b, c \in 0 .. Saves : InOrder(a, b, c) => i <= a
              /\ Saves' = Saves - i
              /\ \A k \in i .. Saves : At(k - i)' = At(k)
              /\ WaitingFits'
         \/ /\ waiting = <<>> /\ Idle(q) /\ ~ history.ours
            /\ Saves' = 0 /\ WaitingFits'
<1>1. /\ item' = latest /\ SameHistory /\ ~ history.disturbed /\ ~ Disturbs(latest)
  BY DEF Shown
<1>2. CASE latest.content = item.content /\ field' = field
  <2>1. Saves' = Saves /\ (\A k \in 0 .. Saves : At(k - 0)' = At(k))
    BY <1>1, <1>2 DEF Saves, At
  <2>2. WaitingFits'
    BY <1>2, <2>1 DEF WaitingFits
  <2>3. 0 \in 0 .. Saves /\ Saves - 0 = Saves
        /\ (\A a, b, c \in 0 .. Saves : InOrder(a, b, c) => 0 <= a)
    BY DEF WaitingFits
  <2> QED
    BY <2>1, <2>2, <2>3
<1>3. ASSUME latest.content # item.content, history.ours,
             NEW i \in DOMAIN field.sent, field.sent[i] = latest.content,
             \A k \in 1 .. i - 1 : field.sent[k] # latest.content,
             field'.sent = SubSeq(field.sent, i + 1, Len(field.sent)), i <= Saves
      PROVE  /\ Saves' = Saves - i
             /\ \A k \in i .. Saves : At(k - i)' = At(k)
             /\ WaitingFits'
  <2>1. i \in 1 .. Len(field.sent) /\ Saves \in Nat /\ Saves = Len(field.sent) - Len(waiting)
    BY Places DEF WaitingFits, Saves
  <2>2. /\ Len(field'.sent) = Len(field.sent) - i
        /\ \A k \in 1 .. Len(field.sent) - i : field'.sent[k] = field.sent[i + k]
    <3>1. CASE i < Len(field.sent)
      <4>1. i \in 0 .. Len(field.sent) - 1 /\ field.sent \in Seq(Texts)
        BY <2>1, <3>1, Places
      <4>2. /\ Len(SubSeq(field.sent, i + 1, Len(field.sent))) = Len(field.sent) - i
            /\ \A k \in 1 .. Len(field.sent) - i :
                 SubSeq(field.sent, i + 1, Len(field.sent))[k] = field.sent[i + k]
        BY <4>1, LastStays
      <4> QED
        BY <1>3, <4>2
    <3>2. CASE i = Len(field.sent)
      BY <1>3, <2>1, <3>2, SubSeqEmpty
    <3> QED
      BY <2>1, <3>1, <3>2, Places
  <2>3. Saves' = Saves - i
    BY <2>1, <2>2, Places DEF Saves
  <2>4. ASSUME NEW k \in i .. Saves PROVE At(k - i)' = At(k)
    <3>1. CASE k = i
      BY <1>1, <1>3, <2>1, <3>1 DEF At
    <3>2. CASE k # i
      <4>1. k - i \in 1 .. Len(field.sent) - i /\ i + (k - i) = k /\ k # 0 /\ k - i # 0
        BY <2>1, <3>2, Places
      <4>2. field'.sent[k - i] = field.sent[k]
        BY <2>2, <4>1
      <4> QED
        BY <4>1, <4>2 DEF At
    <3> QED
      BY <3>1, <3>2
  <2>5. ASSUME NEW j \in DOMAIN waiting PROVE field'.sent[Saves' + j] = waiting[j].text
    <3>1. Saves - i + j \in 1 .. Len(field.sent) - i /\ i + (Saves - i + j) = Saves + j
      <4>1. j \in Nat /\ 1 <= j /\ j <= Len(waiting) /\ Len(waiting) \in Nat
            /\ Len(field.sent) \in Nat /\ i \in Nat /\ i <= Saves
        BY <1>3, <2>1, Places
      <4>2. Saves \in Nat /\ Saves = Len(field.sent) - Len(waiting)
        BY <2>1
      <4>3. i + (Saves - i + j) = Saves + j /\ Saves - i + j >= 1
        BY <4>1, <4>2
      <4>4. Saves + j <= Len(field.sent)
        BY <4>1, <4>2
      <4>5. Saves - i + j <= Len(field.sent) - i
        BY <4>1, <4>2, <4>4
      <4> QED
        BY <4>1, <4>2, <4>3, <4>5
    <3>2. field'.sent[Saves - i + j] = field.sent[Saves + j]
      BY <2>2, <3>1
    <3> QED
      BY <2>3, <3>2 DEF WaitingFits
  <2>6. Saves' \in Nat
    BY <1>3, <2>1, <2>3
  <2> QED
    BY <2>3, <2>4, <2>5, <2>6 DEF WaitingFits
<1>4. CASE latest.content # item.content /\ history.ours
  <2>1. \A a, b, c \in 0 .. Saves : InOrder(a, b, c) =>
          a # 0 /\ a \in DOMAIN field.sent /\ field.sent[a] = latest.content
    <3>1. SUFFICES ASSUME NEW a \in 0 .. Saves, NEW b \in 0 .. Saves, NEW c \in 0 .. Saves,
                          InOrder(a, b, c)
                   PROVE  a # 0 /\ a \in DOMAIN field.sent /\ field.sent[a] = latest.content
      OBVIOUS
    <3>2. At(a) = latest.content
      BY <1>4, <3>1 DEF InOrder
    <3>3. a # 0 /\ field.sent[a] = latest.content
      BY <1>4, <3>2 DEF At
    <3>4. Saves <= Len(field.sent)
      BY Places DEF Saves
    <3> QED
      BY <3>3, <3>4, Places DEF WaitingFits
  <2>2. PICK a0, b0, c0 \in 0 .. Saves : InOrder(a0, b0, c0)
    OBVIOUS
  <2>3. Own(latest.content)
    BY <2>1, <2>2, OwnMeans
  <2>4. PICK i \in DOMAIN field.sent :
          /\ field.sent[i] = latest.content
          /\ \A k \in 1 .. i - 1 : field.sent[k] # latest.content
          /\ field'.sent = SubSeq(field.sent, i + 1, Len(field.sent))
    BY <1>4, <2>3 DEF Shown
  <2>5. ASSUME NEW a \in 0 .. Saves, a # 0, field.sent[a] = latest.content PROVE i <= a
    <3>1. a \notin 1 .. i - 1
      BY <2>4, <2>5
    <3> QED
      BY <2>4, <2>5, <3>1, Places DEF WaitingFits
  <2>6. \A a, b, c \in 0 .. Saves : InOrder(a, b, c) => i <= a
    BY <2>1, <2>5
  <2>7. i \in 0 .. Saves
    BY <2>2, <2>4, <2>6, Places DEF WaitingFits
  <2>8. /\ Saves' = Saves - i
        /\ \A k \in i .. Saves : At(k - i)' = At(k)
        /\ WaitingFits'
    <3>1. i <= Saves
      BY <2>7
    <3> QED
      BY <1>3, <1>4, <2>4, <3>1
  <2> QED
    BY <2>6, <2>7, <2>8
<1>5. CASE latest.content # item.content /\ ~ history.ours
  <2>1. field.sent = <<>> /\ waiting = <<>> /\ Idle(q)
    BY <1>1, <1>5 DEF Disturbs
  <2>2. field'.sent = <<>> /\ waiting' = <<>>
    BY <1>5, <2>1 DEF Shown
  <2>3. Saves' = 0
    BY <2>2 DEF Saves
  <2> QED
    BY <1>5, <2>1, <2>2, <2>3 DEF WaitingFits
<1> QED
  BY <1>2, <1>4, <1>5 DEF Shown

InOrderSomewhere == \E a, b, c \in 0 .. Saves : InOrder(a, b, c)

\* Where all places stay.
LEMMA PlacesStay ==
  ASSUME field'.sent = field.sent, item'.content = item.content, UNCHANGED waiting
  PROVE  /\ Saves' = Saves
         /\ WaitingFits => WaitingFits'
         /\ \A k \in Nat : At(k)' = At(k)
<1>1. Saves' = Saves
  BY DEF Saves
<1>2. \A k \in Nat : At(k)' = At(k)
  BY DEF At
<1> QED
  BY <1>1, <1>2 DEF WaitingFits

\* Commits and saves move no place that is taken.
LEMMA PlacesOfCommits ==
  ASSUME IInv, Commits, WaitingFits
  PROVE  Saves' = Saves /\ WaitingFits' /\ \A k \in 0 .. Saves : At(k)' = At(k)
<1> DEFINE c == [text |-> field.draft, entity |-> item]
<1>1. /\ item' = item /\ field'.sent = Append(field.sent, field.draft)
      /\ waiting' = Append(waiting, c)
  BY CommitsEffect DEF Commits
<1>2. c \in [text: Texts, entity: Record] /\ c.text = field.draft
  BY Types, Typed
<1> HIDE DEF c
<1>3. /\ Len(field'.sent) = Len(field.sent) + 1
      /\ \A k \in 1 .. Len(field.sent) : field'.sent[k] = field.sent[k]
      /\ field'.sent[Len(field.sent) + 1] = field.draft
  <2>1. field.sent \in Seq(Texts) /\ field.draft \in Texts
    BY Types
  <2> QED
    BY <1>1, <2>1, AppendProperties
<1>4. /\ Len(waiting') = Len(waiting) + 1 /\ DOMAIN waiting' = 1 .. Len(waiting) + 1
      /\ \A k \in 1 .. Len(waiting) : waiting'[k] = waiting[k]
      /\ waiting'[Len(waiting) + 1] = c
  <2>1. waiting \in Seq([text: Texts, entity: Record])
    BY Types
  <2>2. \A S : \A s \in Seq(S), e \in S :
          /\ Len(Append(s, e)) = Len(s) + 1 /\ DOMAIN Append(s, e) = 1 .. Len(s) + 1
          /\ \A k \in 1 .. Len(s) : Append(s, e)[k] = s[k]
          /\ Append(s, e)[Len(s) + 1] = e
    BY AppendProperties
  <2>3. waiting' = Append(waiting, c) /\ c \in [text: Texts, entity: Record]
    BY <1>1, <1>2
  <2>4. \A s \in Seq([text: Texts, entity: Record]), e \in [text: Texts, entity: Record] :
          /\ Len(Append(s, e)) = Len(s) + 1 /\ DOMAIN Append(s, e) = 1 .. Len(s) + 1
          /\ \A k \in 1 .. Len(s) : Append(s, e)[k] = s[k]
          /\ Append(s, e)[Len(s) + 1] = e
    BY <2>2, Zenon
  <2>5. /\ Len(Append(waiting, c)) = Len(waiting) + 1
        /\ DOMAIN Append(waiting, c) = 1 .. Len(waiting) + 1
        /\ \A k \in 1 .. Len(waiting) : Append(waiting, c)[k] = waiting[k]
        /\ Append(waiting, c)[Len(waiting) + 1] = c
    BY <2>1, <2>3, <2>4, Zenon
  <2> QED
    BY <2>3, <2>5, Zenon
<1>5. /\ Saves \in Nat /\ Len(field.sent) \in Nat /\ Len(waiting) \in Nat
      /\ DOMAIN waiting = 1 .. Len(waiting)
      /\ Len(field.sent) = Saves + Len(waiting)
  BY Places DEF WaitingFits, Saves
<1>6. Saves' = Saves
  BY <1>3, <1>4, <1>5 DEF Saves
<1>7. ASSUME NEW j \in DOMAIN waiting' PROVE field'.sent[Saves + j] = waiting'[j].text
  <2>1. CASE j = Len(waiting) + 1
    <3>1. Saves + j = Len(field.sent) + 1
      BY <1>5, <2>1
    <3> QED
      BY <1>2, <1>3, <1>4, <2>1, <3>1
  <2>2. CASE j # Len(waiting) + 1
    <3>1. j \in DOMAIN waiting /\ Saves + j \in 1 .. Len(field.sent)
      BY <1>4, <1>5, <2>2
    <3> QED
      BY <1>3, <1>4, <1>5, <3>1 DEF WaitingFits
  <2> QED
    BY <2>1, <2>2
<1>8. \A k \in 0 .. Saves : At(k)' = At(k)
  <2>1. ASSUME NEW k \in 0 .. Saves, k # 0 PROVE field'.sent[k] = field.sent[k]
    BY <1>3, <1>5, <2>1
  <2> QED
    BY <1>1, <2>1 DEF At
<1> QED
  BY <1>5, <1>6, <1>7, <1>8 DEF WaitingFits

\* A commit that is saved takes the next place.
LEMMA PlacesOfSave ==
  ASSUME IInv, WaitingFits, waiting # <<>>, waiting' = Tail(waiting), UNCHANGED <<item, field>>
  PROVE  /\ Saves' = Saves + 1 /\ WaitingFits'
         /\ \A k \in Nat : At(k)' = At(k)
         /\ At(Saves + 1) = Head(waiting).text
<1>1. /\ Saves \in Nat /\ Len(field.sent) \in Nat /\ Len(waiting) \in Nat
      /\ DOMAIN waiting = 1 .. Len(waiting)
      /\ Saves = Len(field.sent) - Len(waiting)
  BY Places DEF WaitingFits, Saves
<1>2. /\ Len(waiting') = Len(waiting) - 1 /\ DOMAIN waiting' = 1 .. Len(waiting) - 1
      /\ \A k \in 1 .. Len(waiting) - 1 : waiting'[k] = waiting[k + 1]
      /\ Head(waiting) = waiting[1] /\ 1 \in DOMAIN waiting
  <2>1. waiting \in Seq([text: Texts, entity: Record])
    BY Types
  <2>2. /\ Tail(waiting) \in Seq([text: Texts, entity: Record])
        /\ Len(Tail(waiting)) = Len(waiting) - 1
        /\ \A k \in 1 .. Len(Tail(waiting)) : Tail(waiting)[k] = waiting[k + 1]
    BY <2>1, HeadTailProperties
  <2>3. DOMAIN Tail(waiting) = 1 .. Len(Tail(waiting))
    BY <2>2
  <2>4. Head(waiting) = waiting[1] /\ 1 \in DOMAIN waiting
    BY <2>1
  <2> QED
    BY <2>2, <2>3, <2>4
<1>3. Saves' = Saves + 1
  BY <1>1, <1>2 DEF Saves
<1>4. ASSUME NEW j \in DOMAIN waiting' PROVE field'.sent[Saves' + j] = waiting'[j].text
  <2>1. j + 1 \in DOMAIN waiting /\ Saves' + j = Saves + (j + 1)
    BY <1>1, <1>2, <1>3
  <2> QED
    BY <1>2, <2>1 DEF WaitingFits
<1>5. At(Saves + 1) = Head(waiting).text
  <2>1. field.sent[Saves + 1] = waiting[1].text
    <3>1. 1 \in DOMAIN waiting
      BY <1>2
    <3>2. \A j \in DOMAIN waiting : field.sent[Saves + j] = waiting[j].text
      BY DEF WaitingFits
    <3> QED
      BY <3>1, <3>2, Zenon
  <2>2. \A n \in Nat : n + 1 # 0
    OBVIOUS
  <2>3. Saves + 1 # 0
    BY <1>1, <2>2, Zenon
  <2> QED
    BY <1>2, <2>1, <2>3 DEF At
<1>6. \A k \in Nat : At(k)' = At(k)
  BY DEF At
<1> QED
  BY <1>1, <1>3, <1>4, <1>5, <1>6 DEF WaitingFits

\* A step that moves no place that is taken, to the last of which N is added at most.
LEMMA PlacesKept ==
  ASSUME IInv, KeysGrow, UNCHANGED row, SameHistory,
         NEW N \in Nat, NEW a \in 0 .. N, NEW b \in 0 .. N, NEW c \in 0 .. N,
         NEW d \in 0 .. N, NEW e \in 0 .. N,
         InOrder(a, b, c), b <= d, d <= e, Saves' = N, \A k \in 0 .. N : At(k)' = At(k),
         \A r \in net' : r \in net \/ (r.patch["content"] # None => At(d) = r.patch["content"].text),
         q'.running # None /\ q'.running.patch["content"] # None
           => At(d) = q'.running.patch["content"].text,
         q'.failed["content"] # None => At(d) = q'.failed["content"].text,
         q'.pending["content"] # None => At(e) = q'.pending["content"].text
  PROVE  InOrderSomewhere'
<1>1. /\ 0 \in Nat /\ 0 <= a /\ a - 0 = a /\ d - 0 = d /\ e - 0 = e
      /\ \A k \in 0 .. N : k - 0 = k
  OBVIOUS
<1>2. \A k \in 0 .. N : At(k - 0)' = At(k)
  BY <1>1
<1>3. InOrder(a - 0, d - 0, e - 0)'
  BY <1>1, <1>2, PlacesMove
<1>4. InOrder(a, d, e)'
  BY <1>1, <1>3
<1> QED
  BY <1>4 DEF InOrderSomewhere

\* A request that starts goes to the place of what is put on top.
LEMMA StartedPlaces ==
  ASSUME NEW r \in Request, NEW p, NEW current, NEW key, Started(r, p, current, key),
         NEW text, p["content"] # None => text = p["content"].text
  PROVE  /\ KeysGrow
         /\ \A s \in net' : s \in net \/ (s.patch["content"] # None => text = s.patch["content"].text)
         /\ q'.running # None /\ q'.running.patch["content"] # None
              => text = q'.running.patch["content"].text
         /\ q'.failed["content"] = None /\ q'.pending["content"] = None
BY NoPatchIsEmpty DEF Started, Field

\* What the queue holds stays in its place when the queue stays.
LEMMA QueueInPlace ==
  ASSUME NEW a, NEW b, NEW c, InOrder(a, b, c), UNCHANGED q
  PROVE  /\ q'.running # None /\ q'.running.patch["content"] # None
              => At(b) = q'.running.patch["content"].text
         /\ q'.failed["content"] # None => At(b) = q'.failed["content"].text
         /\ q'.pending["content"] # None => At(c) = q'.pending["content"].text
         /\ b <= c
BY DEF InOrder

LEMMA OrderAtRest ==
  ASSUME IInv, WaitingFits, InOrderSomewhere, UNCHANGED <<row, q, waiting>>, SameHistory, KeysGrow,
         field'.sent = field.sent, item'.content = item.content, net' \subseteq net
  PROVE  WaitingFits' /\ InOrderSomewhere'
<1>1. Saves \in Nat
  BY DEF WaitingFits
<1>2. PICK a, b, c \in 0 .. Saves : InOrder(a, b, c)
  BY DEF InOrderSomewhere
<1>3. Saves' = Saves /\ WaitingFits' /\ \A k \in 0 .. Saves : At(k)' = At(k)
  BY <1>1, PlacesStay
<1>4. InOrderSomewhere'
  <2>1. b <= b /\ c <= c /\ (\A r \in net' : r \in net)
    BY <1>1
  <2> QED
    BY <1>1, <1>2, <1>3, <2>1, QueueInPlace, PlacesKept
<1> QED
  BY <1>3, <1>4

LEMMA OrderOfCommits ==
  ASSUME IInv, WaitingFits, InOrderSomewhere, Commits
  PROVE  WaitingFits' /\ InOrderSomewhere'
<1>1. Saves \in Nat
  BY DEF WaitingFits
<1>2. PICK a, b, c \in 0 .. Saves : InOrder(a, b, c)
  BY DEF InOrderSomewhere
<1>3. /\ UNCHANGED <<row, q, net>> /\ SameHistory /\ KeysGrow
  BY CommitsEffect, StoredStays DEF Commits
<1>4. Saves' = Saves /\ WaitingFits' /\ \A k \in 0 .. Saves : At(k)' = At(k)
  BY PlacesOfCommits
<1>5. InOrderSomewhere'
  <2>1. b <= b /\ c <= c /\ (\A r \in net' : r \in net)
    BY <1>1, <1>3
  <2> QED
    BY <1>1, <1>2, <1>3, <1>4, <2>1, QueueInPlace, PlacesKept
<1> QED
  BY <1>4, <1>5

\* A save, whether it sends its edit or puts it on top of what is pending.
LEMMA OrderOfSave ==
  ASSUME IInv, WaitingFits, InOrderSomewhere,
         NEW e \in Record, NEW f \in Field, NEW edit \in Edit,
         \/ AskWaits(e, f, edit)
         \/ \E r \in Request, current \in Record : AskSends(e, f, edit, r, current)
  PROVE  WaitingFits' /\ InOrderSomewhere'
<1>1. Saves \in Nat
  BY DEF WaitingFits
<1>2. PICK a, b, c \in 0 .. Saves : InOrder(a, b, c)
  BY DEF InOrderSomewhere
<1>3. /\ AsksFor(e, f, edit) /\ SameHistory /\ UNCHANGED <<row, item, field>> /\ KeysGrow
  <2>1. AsksFor(e, f, edit)
    BY DEF AskWaits, AskSends
  <2>2. SameHistory /\ UNCHANGED <<row, item, field>>
    BY <2>1, AskEffect, EditIsSome DEF AsksFor
  <2>3. KeysGrow
    BY StoredStays DEF AskWaits, AskSends, Holds, Started
  <2> QED
    BY <2>1, <2>2, <2>3
<1>4. /\ PatchOf(f, edit) \in Patch /\ q.pending \in Patch
      /\ f = "content" => PatchOf(f, edit)["content"] = edit /\ edit # None
      /\ f # "content" => PatchOf(f, edit)["content"] = None
  <2>1. "content" \in Field
    BY DEF Field
  <2> QED
    BY <2>1, PatchTypes, EditIsSome, Types
\* The queue's content is the edit's, or else what it was.
<1>5. ASSUME AskWaits(e, f, edit)
      PROVE  /\ net' = net /\ q'.running = q.running /\ q'.failed = q.failed
             /\ f = "content" => q'.pending["content"] = edit
             /\ f # "content" => q'.pending["content"] = q.pending["content"]
  <2>1. /\ net' = net /\ q'.running = q.running /\ q'.failed = q.failed
        /\ q'.pending = Over(q.pending, PatchOf(f, edit))
    BY <1>5 DEF AskWaits, Holds
  <2>2. q'.pending["content"] = IF PatchOf(f, edit)["content"] = None THEN q.pending["content"]
                                ELSE PatchOf(f, edit)["content"]
    BY <1>4, <2>1, OverFields DEF Field
  <2> QED
    BY <1>4, <2>1, <2>2
<1>6. CASE f = "content"
  <2>1. waiting # <<>> /\ waiting' = Tail(waiting) /\ edit.text = Head(waiting).text
    BY <1>3, <1>6 DEF AsksFor
  <2>2. /\ Saves' = Saves + 1 /\ WaitingFits'
        /\ \A k \in Nat : At(k)' = At(k)
        /\ At(Saves + 1) = edit.text
    BY <1>3, <2>1, PlacesOfSave
  <2>3. PICK n \in Nat : n = Saves + 1 /\ Saves \in 0 .. n /\ n \in 0 .. n
    BY <1>1
  <2>4. /\ a \in 0 .. n /\ b \in 0 .. n /\ c \in 0 .. n /\ b <= n /\ n <= n
        /\ \A k \in 0 .. n : k \in Nat
    BY <1>1, <1>2, <2>3
  <2>5. \A k \in 0 .. n : At(k)' = At(k)
    BY <2>2, <2>4
  <2>6. CASE AskWaits(e, f, edit)
    <3>1. q'.pending["content"] = edit /\ net' = net /\ q'.running = q.running /\ q'.failed = q.failed
      BY <1>5, <1>6, <2>6
    <3>2. At(n) = q'.pending["content"].text
      BY <2>2, <2>3, <3>1
    <3>3. /\ q'.running # None /\ q'.running.patch["content"] # None
               => At(b) = q'.running.patch["content"].text
          /\ q'.failed["content"] # None => At(b) = q'.failed["content"].text
      BY <1>2, <3>1 DEF InOrder
    <3>4. InOrderSomewhere'
      BY <1>2, <1>3, <2>2, <2>3, <2>4, <2>5, <3>1, <3>2, <3>3, PlacesKept
    <3> QED
      BY <2>2, <3>4
  <2>7. ASSUME NEW r \in Request, NEW current \in Record, AskSends(e, f, edit, r, current)
        PROVE  InOrderSomewhere'
    <3>1. Started(r, PatchOf(f, edit), current, None)
      BY <2>7 DEF AskSends
    <3>2. At(n) = PatchOf(f, edit)["content"].text
      BY <1>4, <1>6, <2>2, <2>3
    <3>3. /\ \A s \in net' : s \in net \/ (s.patch["content"] # None => At(n) = s.patch["content"].text)
          /\ q'.running # None /\ q'.running.patch["content"] # None
               => At(n) = q'.running.patch["content"].text
          /\ q'.failed["content"] = None /\ q'.pending["content"] = None
      BY <3>1, <3>2, StartedPlaces
    <3> QED
      BY <1>2, <1>3, <2>2, <2>3, <2>4, <2>5, <3>3, PlacesKept
  <2> QED
    BY <2>2, <2>6, <2>7
<1>7. CASE f # "content"
  <2>1. UNCHANGED waiting
    BY <1>3, <1>7 DEF AsksFor
  <2>2. Saves' = Saves /\ WaitingFits' /\ \A k \in 0 .. Saves : At(k)' = At(k)
    BY <1>1, <1>3, <2>1, PlacesStay
  <2>3. b <= c /\ b <= b /\ c <= c
    BY <1>1, <1>2 DEF InOrder
  <2>4. CASE AskWaits(e, f, edit)
    <3>1. /\ q'.pending["content"] = q.pending["content"] /\ net' = net
          /\ q'.running = q.running /\ q'.failed = q.failed
      BY <1>5, <1>7, <2>4
    <3>2. /\ q'.running # None /\ q'.running.patch["content"] # None
               => At(b) = q'.running.patch["content"].text
          /\ q'.failed["content"] # None => At(b) = q'.failed["content"].text
          /\ q'.pending["content"] # None => At(c) = q'.pending["content"].text
      BY <1>2, <3>1 DEF InOrder
    <3>3. InOrderSomewhere'
      BY <1>1, <1>2, <1>3, <2>2, <2>3, <3>1, <3>2, PlacesKept
    <3> QED
      BY <2>2, <3>3
  <2>5. ASSUME NEW r \in Request, NEW current \in Record, AskSends(e, f, edit, r, current)
        PROVE  InOrderSomewhere'
    <3>1. Started(r, PatchOf(f, edit), current, None)
      BY <2>5 DEF AskSends
    <3>2. /\ \A s \in net' : s \in net \/ (s.patch["content"] # None => At(b) = s.patch["content"].text)
          /\ q'.running # None /\ q'.running.patch["content"] # None
               => At(b) = q'.running.patch["content"].text
          /\ q'.failed["content"] = None /\ q'.pending["content"] = None
      BY <1>4, <1>7, <3>1, StartedPlaces
    <3> QED
      BY <1>1, <1>2, <1>3, <2>2, <2>3, <3>2, PlacesKept
  <2> QED
    BY <2>2, <2>4, <2>5
<1> QED
  BY <1>6, <1>7

\* What is put together of what failed and what is pending is at the place of one of them.
LEMMA OverPlace ==
  ASSUME IInv, Saves \in Nat, NEW a, NEW b \in 0 .. Saves, NEW c \in 0 .. Saves, InOrder(a, b, c)
  PROVE  \E d \in 0 .. Saves :
           /\ b <= d
           /\ Over(q.failed, q.pending)["content"] # None
                => At(d) = Over(q.failed, q.pending)["content"].text
<1>1. Over(q.failed, q.pending)["content"] =
        IF q.pending["content"] = None THEN q.failed["content"] ELSE q.pending["content"]
  BY OverFields, Types DEF Field
<1>2. /\ b <= b /\ b <= c
      /\ q.failed["content"] # None => At(b) = q.failed["content"].text
      /\ q.pending["content"] # None => At(c) = q.pending["content"].text
  BY DEF InOrder
<1> QED
  BY <1>1, <1>2

\* What comes back from a failure keeps its place, or goes to that of what was saved since.
LEMMA OrderOfResend ==
  ASSUME IInv, WaitingFits, InOrderSomewhere, NEW r \in Request, Resends(r)
  PROVE  WaitingFits' /\ InOrderSomewhere'
<1>1. Saves \in Nat
  BY DEF WaitingFits
<1>2. PICK a, b, c \in 0 .. Saves : InOrder(a, b, c)
  BY DEF InOrderSomewhere
<1>3. /\ Started(r, Over(q.failed, q.pending), q.current, q.key)
      /\ UNCHANGED <<row, item, field, waiting>> /\ SameHistory
  BY DEF Resends, RetryFrame, SameHistory
<1>4. Saves' = Saves /\ WaitingFits' /\ \A k \in 0 .. Saves : At(k)' = At(k)
  BY <1>1, <1>3, PlacesStay
<1>5. PICK d \in 0 .. Saves :
        /\ b <= d
        /\ Over(q.failed, q.pending)["content"] # None
             => At(d) = Over(q.failed, q.pending)["content"].text
  BY <1>1, <1>2, OverPlace
<1>6. /\ KeysGrow
      /\ \A s \in net' : s \in net \/ (s.patch["content"] # None => At(d) = s.patch["content"].text)
      /\ q'.running # None /\ q'.running.patch["content"] # None
           => At(d) = q'.running.patch["content"].text
      /\ q'.failed["content"] = None /\ q'.pending["content"] = None
  BY <1>3, <1>5, StartedPlaces
<1>7. d <= d
  BY <1>1
<1>8. InOrderSomewhere'
  BY <1>1, <1>2, <1>3, <1>4, <1>5, <1>6, <1>7, PlacesKept
<1> QED
  BY <1>4, <1>8

\* A refetch, after which nothing of the queue moves but what is put on top.
LEMMA OrderOfShown ==
  ASSUME IInv, WaitingFits, InOrderSomewhere, NEW latest \in {row, item}, Shown(latest),
         UNCHANGED <<row, waiting>>, ~ history'.disturbed, panel # "left",
         \/ UNCHANGED <<q, net, stored>>
         \/ \E r \in Request : Reapplies(latest, r)
  PROVE  WaitingFits' /\ InOrderSomewhere'
<1>1. Saves \in Nat /\ SameHistory
  BY DEF WaitingFits, Shown
<1>2. PICK a, b, c \in 0 .. Saves : InOrder(a, b, c)
  BY DEF InOrderSomewhere
<1>3. a <= b /\ b <= c
  BY <1>2 DEF InOrder
\* The places d and e of what runs and what is pending afterwards.
<1>4. PICK d \in 0 .. Saves, e \in 0 .. Saves :
        /\ KeysGrow /\ b <= d /\ d <= e
        /\ \A s \in net' :
             s \in net \/ (s.patch["content"] # None => At(d) = s.patch["content"].text)
        /\ q'.running # None /\ q'.running.patch["content"] # None
             => At(d) = q'.running.patch["content"].text
        /\ q'.failed["content"] # None => At(d) = q'.failed["content"].text
        /\ q'.pending["content"] # None => At(e) = q'.pending["content"].text
  <2>1. CASE UNCHANGED <<q, net, stored>>
    <3>1. /\ KeysGrow /\ b <= b /\ b <= c
          /\ \A s \in net' : s \in net
      BY <1>1, <1>3, <2>1, StoredStays
    <3> QED
      BY <1>2, <2>1, <3>1, QueueInPlace
  <2>2. ASSUME NEW r \in Request, Reapplies(latest, r)
        PROVE  \E d \in 0 .. Saves, e \in 0 .. Saves :
                 /\ KeysGrow /\ b <= d /\ d <= e
                 /\ \A s \in net' :
                      s \in net \/ (s.patch["content"] # None => At(d) = s.patch["content"].text)
                 /\ q'.running # None /\ q'.running.patch["content"] # None
                      => At(d) = q'.running.patch["content"].text
                 /\ q'.failed["content"] # None => At(d) = q'.failed["content"].text
                 /\ q'.pending["content"] # None => At(e) = q'.pending["content"].text
    <3> DEFINE p == Over(Rebased(q.failed, latest.revision), Rebased(q.pending, latest.revision))
    <3>1. Started(r, p, latest, None)
      BY <2>2 DEF Reapplies
    <3>2. p["content"] # None => /\ Over(q.failed, q.pending)["content"] # None
                                 /\ Over(q.failed, q.pending)["content"].text = p["content"].text
      <4>1. /\ "content" \in Field /\ latest.revision \in Nat
            /\ q.failed \in Patch /\ q.pending \in Patch
        BY Types DEF Field, Shown
      <4>2. /\ Rebased(q.failed, latest.revision) \in Patch
            /\ Rebased(q.pending, latest.revision) \in Patch
        BY <4>1, PatchTypes
      <4>3. /\ p["content"] = IF Rebased(q.pending, latest.revision)["content"] = None
                              THEN Rebased(q.failed, latest.revision)["content"]
                              ELSE Rebased(q.pending, latest.revision)["content"]
            /\ Over(q.failed, q.pending)["content"] =
                 IF q.pending["content"] = None THEN q.failed["content"] ELSE q.pending["content"]
        BY <4>1, <4>2, OverFields
      <4> HIDE DEF p
      <4> QED
        BY <4>1, <4>3, RebasedFields
    <3> HIDE DEF p
    <3>3. PICK d \in 0 .. Saves :
            /\ b <= d
            /\ Over(q.failed, q.pending)["content"] # None
                 => At(d) = Over(q.failed, q.pending)["content"].text
      BY <1>1, <1>2, OverPlace
    <3>4. /\ KeysGrow
          /\ \A s \in net' :
               s \in net \/ (s.patch["content"] # None => At(d) = s.patch["content"].text)
          /\ q'.running # None /\ q'.running.patch["content"] # None
               => At(d) = q'.running.patch["content"].text
          /\ q'.failed["content"] = None /\ q'.pending["content"] = None
      BY <3>1, <3>2, <3>3, StartedPlaces
    <3>5. d <= d
      BY <1>1
    <3> QED
      BY <3>3, <3>4, <3>5
  <2> QED
    BY <2>1, <2>2
<1>5. ASSUME NEW i \in 0 .. Saves,
             \A x, y, z \in 0 .. Saves : InOrder(x, y, z) => i <= x,
             Saves' = Saves - i, \A k \in i .. Saves : At(k - i)' = At(k)
      PROVE  InOrderSomewhere'
  <2>1. i <= a /\ i \in Nat
    BY <1>1, <1>2, <1>5
  <2>2. InOrder(a - i, d - i, e - i)'
    BY <1>1, <1>2, <1>4, <1>5, <2>1, PlacesMove
  <2>3. a - i \in 0 .. Saves - i /\ d - i \in 0 .. Saves - i /\ e - i \in 0 .. Saves - i
    <3>1. a \in Nat /\ d \in Nat /\ e \in Nat /\ a <= d /\ a <= Saves /\ d <= Saves /\ e <= Saves
      BY <1>1, <1>3, <1>4
    <3>2. d <= e
      BY <1>4
    <3> QED
      BY <1>1, <2>1, <3>1, <3>2
  <2> QED
    BY <1>5, <2>2, <2>3 DEF InOrderSomewhere
\* Nothing is on its way.
<1>6. ASSUME waiting = <<>>, Idle(q), ~ history.ours, Saves' = 0
      PROVE  InOrderSomewhere'
  <2>1. UNCHANGED <<q, net, stored>>
    BY <1>6 DEF Idle, Reapplies, RetryFrame
  <2>2. /\ q.running = None
        /\ q.pending["content"] = None /\ q.failed["content"] = None
    BY <1>6, NoPatchIsEmpty DEF Idle, Field
  <2>3. NothingLive("content")
    <3>1. Held(q, "content") = None
      BY <2>2 DEF Held, TextOf
    <3> QED
      BY <3>1 DEF IInv, AskedIsHeld, Field, NothingLive
  <2>4. ~ history'.ours
    BY <1>1, <1>6 DEF SameHistory
  <2>5. \A s \in net' : Writes(s)' => s.patch["content"] = None
    <3>1. KeysGrow
      BY <2>1, StoredStays
    <3> QED
      BY <2>1, <2>3, <3>1, WritesStays DEF NothingLive
  <2>6. InOrder(0, 0, 0)'
    BY <2>1, <2>2, <2>4, <2>5 DEF InOrder
  <2>7. 0 \in 0 .. 0
    OBVIOUS
  <2> QED
    BY <1>6, <2>6, <2>7 DEF InOrderSomewhere
<1>7. \/ \E i \in 0 .. Saves :
           /\ \A x, y, z \in 0 .. Saves : InOrder(x, y, z) => i <= x
           /\ Saves' = Saves - i
           /\ \A k \in i .. Saves : At(k - i)' = At(k)
           /\ WaitingFits'
      \/ waiting = <<>> /\ Idle(q) /\ ~ history.ours /\ Saves' = 0 /\ WaitingFits'
  BY ShownMoves DEF InOrderSomewhere
<1> QED
  BY <1>5, <1>6, <1>7

LEMMA OrderOfLoss ==
  ASSUME IInv, WaitingFits, InOrderSomewhere, Loses
  PROVE  WaitingFits' /\ InOrderSomewhere'
<1>1. Saves \in Nat
  BY DEF WaitingFits
<1>2. PICK a, b, c \in 0 .. Saves : InOrder(a, b, c)
  BY DEF InOrderSomewhere
<1>3. /\ UNCHANGED <<row, item, field, waiting, net>> /\ SameHistory /\ KeysGrow
      /\ q.running # None /\ q'.running = None
      /\ q'.failed = q.running.patch /\ q'.pending = q.pending
  BY StoredStays DEF Loses, Fails, SameHistory
<1>4. Saves' = Saves /\ WaitingFits' /\ \A k \in 0 .. Saves : At(k)' = At(k)
  BY <1>1, <1>3, PlacesStay
<1>5. /\ q'.failed["content"] # None => At(b) = q'.failed["content"].text
      /\ q'.pending["content"] # None => At(c) = q'.pending["content"].text
      /\ b <= b /\ b <= c
  BY <1>1, <1>2, <1>3 DEF InOrder
<1>6. \A r \in net' : r \in net
  BY <1>3
<1>7. InOrderSomewhere'
  BY <1>1, <1>2, <1>3, <1>4, <1>5, <1>6, PlacesKept
<1> QED
  BY <1>4, <1>7

\* After an answer goes what is pending, if there is something.
LEMMA OrderOfSuccess ==
  ASSUME IInv, WaitingFits, InOrderSomewhere, Finishes \/ \E r \in Request : SendsNext(r)
  PROVE  WaitingFits' /\ InOrderSomewhere'
<1>1. Saves \in Nat
  BY DEF WaitingFits
<1>2. PICK a, b, c \in 0 .. Saves : InOrder(a, b, c)
  BY DEF InOrderSomewhere
<1>3. UNCHANGED <<row, item, field, waiting>> /\ SameHistory
  BY DEF Finishes, SendsNext, SuccessFrame, SameHistory
<1>4. Saves' = Saves /\ WaitingFits' /\ \A k \in 0 .. Saves : At(k)' = At(k)
  BY <1>1, <1>3, PlacesStay
<1>5. /\ b <= b /\ b <= c /\ c <= c
      /\ q.pending["content"] # None => At(c) = q.pending["content"].text
  BY <1>1, <1>2 DEF InOrder
<1>6. CASE Finishes
  <2>1. /\ net' = net /\ KeysGrow /\ q'.running = None
        /\ q'.failed["content"] = None /\ q'.pending["content"] = None
    BY <1>6, StoredStays, NoPatchIsEmpty DEF Finishes, Ends, Field
  <2>2. \A r \in net' : r \in net
    BY <2>1
  <2>3. InOrderSomewhere'
    BY <1>1, <1>2, <1>3, <1>4, <1>5, <2>1, <2>2, PlacesKept
  <2> QED
    BY <1>4, <2>3
<1>7. ASSUME NEW r \in Request, SendsNext(r) PROVE InOrderSomewhere'
  <2>1. Started(r, q.pending, Head(reply), None)
    BY <1>7 DEF SendsNext
  <2>2. /\ KeysGrow
        /\ \A s \in net' :
             s \in net \/ (s.patch["content"] # None => At(c) = s.patch["content"].text)
        /\ q'.running # None /\ q'.running.patch["content"] # None
             => At(c) = q'.running.patch["content"].text
        /\ q'.failed["content"] = None /\ q'.pending["content"] = None
    BY <1>5, <2>1, StartedPlaces
  <2> QED
    BY <1>1, <1>2, <1>3, <1>4, <1>5, <2>2, PlacesKept
<1> QED
  BY <1>4, <1>6, <1>7

LEMMA OrderOfServe ==
  ASSUME IInv, WaitingFits, InOrderSomewhere, NEW r \in net, Serve(r)
  PROVE  WaitingFits' /\ InOrderSomewhere'
<1>1. Saves \in Nat
  BY DEF WaitingFits
<1>2. PICK a, b, c \in 0 .. Saves : InOrder(a, b, c)
  BY DEF InOrderSomewhere
<1>3. UNCHANGED <<q, item, field, waiting>> /\ net' \subseteq net
  BY ServeEffect
<1>4. Saves' = Saves /\ WaitingFits'
  BY <1>3, PlacesStay
<1>5. CASE Worked(r)
  <2>1. PICK d \in a .. b : history'.ours => row'.content = At(d)
    <3>1. CASE r.patch["content"] # None
      <4>1. PICK d \in a .. b : At(d) = r.patch["content"].text
        BY <1>2, <1>5, <3>1 DEF InOrder, Worked
      <4> QED
        BY <1>5, <3>1, <4>1 DEF Worked
    <3>2. CASE r.patch["content"] = None
      <4>1. history'.ours = history.ours /\ row'.content = row.content
        BY <1>5, <3>2 DEF Worked
      <4>2. a \in a .. b /\ (history.ours => row.content = At(a))
        BY <1>1, <1>2 DEF InOrder
      <4> QED
        BY <4>1, <4>2
    <3> QED
      BY <3>1, <3>2
  <2>2. /\ a \in Nat /\ b \in Nat /\ c \in Nat /\ d \in Nat /\ d <= b /\ d \in 0 .. Saves
    BY <1>1, <1>2, <2>1
  <2>3. row'.revision = row.revision + 1
    BY <1>5 DEF Worked
  <2>4. InOrder(d, b, c)'
    BY <1>2, <1>3, <2>1, <2>2, <2>3, PlacesAfterWrite
  <2> QED
    BY <1>2, <1>4, <2>2, <2>4 DEF InOrderSomewhere
<1>6. CASE UNCHANGED <<row, stored, history>>
  <2>1. SameHistory /\ KeysGrow /\ UNCHANGED <<row, q, waiting>>
    BY <1>3, <1>6, StoredStays DEF SameHistory
  <2> QED
    BY <1>3, <2>1, OrderAtRest
<1> QED
  BY <1>5, <1>6, ServeEffect

LEMMA OrderOfOutside ==
  ASSUME IInv, WaitingFits, InOrderSomewhere,
         NEW f \in Field, NEW text \in OtherText, OutsideEdit(f, text)
  PROVE  WaitingFits' /\ InOrderSomewhere'
<1>1. Saves \in Nat
  BY DEF WaitingFits
<1>2. PICK a, b, c \in 0 .. Saves : InOrder(a, b, c)
  BY DEF InOrderSomewhere
<1>3. /\ UNCHANGED <<q, item, field, waiting>> /\ net' \subseteq net
      /\ row'.revision = row.revision + 1
      /\ history'.ours => history.ours /\ row'.content = row.content
  BY OutsideEffect
<1>4. Saves' = Saves /\ WaitingFits'
  BY <1>3, PlacesStay
<1>5. a \in Nat /\ b \in Nat /\ c \in Nat /\ a <= b /\ (history'.ours => row'.content = At(a))
  BY <1>1, <1>2, <1>3 DEF InOrder
<1>6. InOrder(a, b, c)'
  BY <1>2, <1>3, <1>5, PlacesAfterWrite
<1> QED
  BY <1>2, <1>4, <1>6 DEF InOrderSomewhere

LEMMA OrderStep == ASSUME IInv, [Next]_vars PROVE CommitsInOrder'
<1> DEFINE Goal == WaitingFits' /\ InOrderSomewhere'
<1> SUFFICES ASSUME panel' # "left", ~ history'.disturbed PROVE Goal
  BY DEF CommitsInOrder, WaitingFits, InOrderSomewhere
<1>1. panel # "left" /\ ~ history.disturbed => WaitingFits /\ InOrderSomewhere
  BY DEF IInv, CommitsInOrder, WaitingFits, InOrderSomewhere
<1>2. ASSUME Calm PROVE Goal
  <2>1. /\ UNCHANGED <<row, q, item, waiting, history>> /\ SameHistory /\ KeysGrow
        /\ field'.sent = field.sent /\ net' \subseteq net /\ panel # "left"
    BY <1>2, StoredStays DEF Calm, PanelFits, SameHistory
  <2> QED
    BY <1>1, <2>1, OrderAtRest
<1>3. ASSUME Commits PROVE Goal
  <2>1. panel # "left" /\ ~ history.disturbed
    BY <1>3, CommitsEffect DEF Commits, PanelFits
  <2> QED
    BY <1>1, <1>3, <2>1, OrderOfCommits
<1>4. ASSUME NEW e \in Record, NEW f \in Field, NEW edit \in Edit,
             \/ AskWaits(e, f, edit)
             \/ \E r \in Request, current \in Record : AskSends(e, f, edit, r, current)
      PROVE  Goal
  <2>1. AsksFor(e, f, edit)
    BY <1>4 DEF AskWaits, AskSends
  <2>2. panel # "left" /\ ~ history.disturbed
    BY <2>1, AskEffect, EditIsSome DEF AsksFor
  <2> QED
    BY <1>1, <1>4, <2>2, OrderOfSave
<1>5. ASSUME NEW r \in Request, Resends(r) PROVE Goal
  <2>1. panel # "left" /\ ~ history.disturbed
    BY <1>5 DEF Resends, RetryFrame
  <2> QED
    BY <1>1, <1>5, <2>1, OrderOfResend
<1>6. ASSUME NEW r \in Request, NEW latest \in {row, item}, Reapplies(latest, r) PROVE Goal
  <2>1. /\ panel # "left" /\ Shown(latest) /\ UNCHANGED <<row, waiting>>
        /\ ~ history.disturbed
    BY <1>6 DEF Reapplies, RetryFrame, Shown
  <2> QED
    BY <1>1, <1>6, <2>1, OrderOfShown
<1>7. ASSUME Shows PROVE Goal
  <2>1. /\ panel # "left" /\ Shown(row) /\ UNCHANGED <<row, waiting, q, net, stored>>
        /\ ~ history.disturbed
    BY <1>7 DEF Shows, Shown
  <2> QED
    BY <1>1, <2>1, OrderOfShown
<1>8. ASSUME Loses PROVE Goal
  <2>1. panel # "left" /\ ~ history.disturbed
    BY <1>8 DEF Loses, PanelFits
  <2> QED
    BY <1>1, <1>8, <2>1, OrderOfLoss
<1>9. ASSUME Finishes \/ \E r \in Request : SendsNext(r) PROVE Goal
  <2>1. panel # "left" /\ ~ history.disturbed
    BY <1>9 DEF Finishes, SendsNext, SuccessFrame, PanelFits
  <2> QED
    BY <1>1, <1>9, <2>1, OrderOfSuccess
<1>10. ASSUME Discards PROVE Goal
  BY <1>10, DiscardEffect DEF Discards
<1>11. ASSUME NEW r \in net, Serve(r) PROVE Goal
  <2>1. panel # "left" /\ ~ history.disturbed
    BY <1>11, ServeEffect DEF Worked
  <2> QED
    BY <1>1, <1>11, <2>1, OrderOfServe
<1>12. ASSUME NEW f \in Field, NEW text \in OtherText, OutsideEdit(f, text) PROVE Goal
  <2>1. panel # "left" /\ ~ history.disturbed
    BY <1>12, OutsideEffect
  <2> QED
    BY <1>1, <1>12, <2>1, OrderOfOutside
<1> HIDE DEF Goal
<1> QED
  BY <1>2, <1>3, <1>4, <1>5, <1>6, <1>7, <1>8, <1>9, <1>10, <1>11, <1>12, Steps

-----------------------------------------------------------------------------
(* The invariant                                                           *)

LEMMA InitIsOrdered == ASSUME Init PROVE IInv
<1>1. TypeOK
  BY InitTyped DEF Texts
<1>2. /\ q.running = None /\ q.current = None /\ q.key = None /\ q.failed = NoPatch
      /\ q.pending = NoPatch /\ panel = "open"
      /\ net = {} /\ reply = <<>> /\ stored = <<>> /\ waiting = <<>> /\ item = row
      /\ field.sent = <<>> /\ field.last = Blank /\ item.content = Blank
      /\ row.revision = 1 /\ ~ history.ours
      /\ \A f \in Field : history.asked[f] = None /\ history.outside[f] = 0
  BY DEF Init
<1>3. DOMAIN stored = {} /\ DOMAIN waiting = {}
  BY <1>2
<1>4. QueueFits /\ RevisionsFit /\ AnswersFit
  BY <1>2, <1>3 DEF QueueFits, RevisionsFit, AnswersFit, Answered
<1>5. AskedIsHeld
  BY <1>2, NoPatchIsEmpty DEF AskedIsHeld, Held, TextOf
<1>6. EditsAreSeen /\ LastIsSent /\ LastIsAsked /\ LastRests
  BY <1>2 DEF EditsAreSeen, LastIsSent, LastIsAsked, LastRests
<1>7. CommitsInOrder
  <2>1. Saves = 0
    BY <1>2 DEF Saves
  <2>2. InOrder(0, 0, 0)
    BY <1>2, NoPatchIsEmpty DEF InOrder, Field
  <2>3. 0 \in 0 .. 0 /\ 0 \in Nat
    OBVIOUS
  <2> QED
    BY <1>3, <2>1, <2>2, <2>3 DEF CommitsInOrder
<1> QED
  BY <1>1, <1>4, <1>5, <1>6, <1>7 DEF IInv

LEMMA StepKeepsOrder == ASSUME IInv, [Next]_vars PROVE IInv'
<1>1. AskedIsHeld'
  BY AskedStep DEF AskedIsHeld, AskedOf
<1>2. EditsAreSeen'
  BY SeenStep DEF EditsAreSeen, SeenOf
<1> QED
  BY <1>1, <1>2, TypeStep, QueueStep, RevisionStep, AnswerStep, LastStep, LastRestsStep, OrderStep
     DEF IInv

\* The parts of IInv hold in every state of every behaviour, for any texts and any bounds.
THEOREM AutosaveInvariant == Spec => []IInv
<1>1. Init => IInv
  BY InitIsOrdered
<1>2. IInv /\ [Next]_vars => IInv'
  BY StepKeepsOrder
<1> QED
  BY <1>1, <1>2, PTL DEF Spec

-----------------------------------------------------------------------------
(* What auto-save promises                                                 *)

\* Every variable keeps its type: one request at most has an answer on its way, and every request
\* carries a key that the server may have an answer under.
THEOREM AutosaveTyped == Spec => []TypeOK
<1>1. IInv => TypeOK
  BY DEF IInv
<1> QED
  BY <1>1, AutosaveInvariant, PTL

\* An idle queue has everything saved (SaveQueue): the last edit of each field is what was last
\* written to it, after any merges, losses, repeats under a key and refusals.
THEOREM IdleHasSaved == Spec => []SettledMeansSaved
<1>1. IInv => SettledMeansSaved
  <2> SUFFICES ASSUME IInv, Idle(q), NEW f \in Field, history.asked[f] # None
               PROVE  history.asked[f] = history.written[f]
    BY DEF SettledMeansSaved
  <2>1. Held(q, f) = None
    BY NoPatchIsEmpty DEF Idle, Held, TextOf
  <2> QED
    BY <2>1 DEF IInv, AskedIsHeld
<1> QED
  BY <1>1, AutosaveInvariant, PTL

\* A field at rest shows the saved text (useDraft): nothing moved, sent or waited for, on the
\* current record, and no other writer's text taken for the field's own.
THEOREM QuietFieldShowsSaved == Spec => []QuietFieldIsTrue
<1>1. IInv => QuietFieldIsTrue
  <2> SUFFICES ASSUME IInv, panel = "open", ~ Moved, waiting = <<>>, Idle(q), item = row,
                      ~ history.echoed
               PROVE  field.draft = row.content
    BY DEF QuietFieldIsTrue
  <2>1. field.draft = field.last
    BY DEF Moved
  <2>2. CASE field.sent = <<>>
    BY <2>1, <2>2 DEF IInv, LastIsSent
  <2>3. CASE field.sent # <<>>
    <3>1. Held(q, "content") = None
      BY NoPatchIsEmpty DEF Idle, Held, TextOf, Field
    <3>2. Rests
      BY <2>3, <3>1 DEF IInv, LastRests
    <3> QED
      BY <2>1, <3>2 DEF Rests
  <2> QED
    BY <2>2, <2>3
<1> QED
  BY <1>1, AutosaveInvariant, PTL

\* No write replaces what the reader has not seen (patchNote's revision check with the rebase of
\* SaveQueue): a request that the server works was made on a page that showed the last text of
\* another writer, or was reapplied after it, unless its commit waited while the page moved on.
THEOREM OverwritesAreSeen == Spec => NeverOverwritesUnseen
<1>1. ASSUME IInv, NEW r \in net, Writes(r), NEW f \in Field, r.patch[f] # None
      PROVE  r.patch[f].late \/ history.outside[f] <= r.patch[f].base
  <2>1. r.revision = row.revision
    BY <1>1 DEF Writes
  <2>2. Seen(r.patch[f], f, r.revision) /\ history.outside[f] <= row.revision
    BY <1>1 DEF IInv, EditsAreSeen, RevisionsFit
  <2>3. history.outside[f] \in Nat /\ row.revision \in Nat
    BY <1>1, Types DEF IInv
  <2>4. ~ (row.revision < history.outside[f])
    BY <2>2, <2>3
  <2> QED
    BY <1>1, <2>1, <2>2, <2>4 DEF Seen
<1>2. IInv /\ [Next]_vars =>
        [\A r \in net : Writes(r) /\ row' = Patched(r) /\ r \notin net' =>
           \A f \in Field : r.patch[f] # None =>
             r.patch[f].late \/ history.outside[f] <= r.patch[f].base]_vars
  BY <1>1
<1> QED
  BY <1>2, AutosaveInvariant, PTL DEF Spec, NeverOverwritesUnseen

\* The round trip of the field's own text leaves the draft alone (useDraft): what a refetch brings
\* back was sent by this field, in its place among the commits, unless another writer came between.
THEOREM RoundTripsKeepDraft == Spec => OwnSavesKeepDraft
<1>1. ASSUME IInv, NEW latest \in {row, item}, Shown(latest), latest.content # item.content,
             history.ours, ~ history.disturbed, panel # "left"
      PROVE  field'.draft = field.draft
  <2>1. latest = row /\ Saves \in Nat /\ DOMAIN field.sent = 1 .. Len(field.sent)
        /\ Len(field.sent) \in Nat /\ Saves <= Len(field.sent)
    BY <1>1, Places DEF IInv, CommitsInOrder, Saves
  <2>2. PICK a, b, c \in 0 .. Saves : InOrder(a, b, c)
    BY <1>1 DEF IInv, CommitsInOrder
  <2>3. At(a) = row.content
    BY <1>1, <2>2 DEF InOrder
  <2>4. a # 0 /\ field.sent[a] = row.content
    BY <1>1, <2>1, <2>3 DEF At
  <2>5. a \in DOMAIN field.sent
    BY <2>1, <2>2, <2>4
  <2>6. Own(latest.content)
    BY <1>1, <2>1, <2>4, <2>5, OwnMeans
  <2> QED
    BY <1>1, <2>6 DEF Shown
<1>2. ASSUME IInv, [Next]_vars, item'.content # item.content, history.ours, ~ history.disturbed
      PROVE  field'.draft = field.draft
  <2>1. CASE Shows
    <3>1. Shown(row) /\ panel # "left" /\ item' = row
      BY <2>1 DEF Shows, Shown
    <3> QED
      BY <1>1, <1>2, <3>1
  <2>2. ASSUME NEW r \in Request, NEW latest \in {row, item}, Reapplies(latest, r)
        PROVE  field'.draft = field.draft
    <3>1. Shown(latest) /\ panel # "left" /\ item' = latest
      BY <2>2 DEF Reapplies, RetryFrame, Shown
    <3> QED
      BY <1>1, <1>2, <3>1
\* No other step shows another record.
  <2>3. ASSUME NEW e \in Record, NEW f \in Field, NEW edit \in Edit, AsksFor(e, f, edit)
        PROVE  item' = item
    BY <2>3 DEF AsksFor
  <2>4. CASE Calm \/ Commits \/ Loses \/ Discards
    BY <1>2, <2>4, DiscardEffect DEF Calm, Commits, Loses, Discards
  <2>5. CASE Finishes \/ \E r \in Request : Resends(r) \/ SendsNext(r)
    BY <1>2, <2>5 DEF Finishes, SendsNext, SuccessFrame, Resends
  <2>6. ASSUME NEW r \in net, Serve(r) PROVE item' = item
    BY <1>2, <2>6, ServeEffect
  <2>7. ASSUME NEW f \in Field, NEW text \in OtherText, OutsideEdit(f, text) PROVE item' = item
    BY <1>2, <2>7, OutsideEffect
  <2> QED
    BY <1>2, <2>1, <2>2, <2>3, <2>4, <2>5, <2>6, <2>7, Steps DEF AskSends, AskWaits
<1>3. IInv /\ [Next]_vars =>
        [item'.content # item.content /\ history.ours /\ ~ history.disturbed
         => field'.draft = field.draft]_vars
  BY <1>2
<1> QED
  BY <1>3, AutosaveInvariant, PTL DEF Spec, OwnSavesKeepDraft
=============================================================================
