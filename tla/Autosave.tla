------------------------------ MODULE Autosave ------------------------------
\* The open record of a page: the content field with its draft, the save queue that sends one
\* revision-checked, keyed request at a time, and the guard that lets the reader leave.
\* Requests may be lost before or after the server works, or reach it late; other people
\* write the record; the page is refetched whenever it likes.
EXTENDS Integers, Sequences, SequencesExt, FiniteSets

CONSTANTS
  Text,         \* what the reader may write
  OtherText,    \* what other people may write
  Blank,        \* the text the record begins with
  None,         \* null
  MaxOthers,    \* bound: writes of other people
  MaxEdits,     \* bound: edits the reader makes
  MaxErrors     \* bound: requests and refetches that fail in the browser

ASSUME BoundsAssumption == MaxOthers \in Nat /\ MaxEdits \in Nat /\ MaxErrors \in Nat

VARIABLES
  row,      \* the record at the server
  stored,   \* idempotency_keys: what was answered under each key
  net,      \* requests the server has not seen yet
  reply,    \* the answer on its way to the running request: <<record>>, <<None>> for a 409
  q,        \* SaveQueue.q, with the request that is running
  item,     \* the record as the page last fetched it
  field,    \* MarkdownField: its draft and its Commits
  waiting,  \* commits that wait for people to be created (useMentions)
  panel,    \* open, settling (the guard waits), asked (the dialog), left
  edits, errors, others,
  history   \* what was asked and written, and when others wrote: never read by an action

vars == <<row, stored, net, reply, q, item, field, waiting, panel, edits, errors, others,
          history>>

Field == {"content", "title"}

\* A patch: for each field the edit that is asked, or nothing. base is the revision of the
\* page the edit was made on; it stays in the browser.
NoPatch == [f \in Field |-> None]
PatchOf(f, edit) == [NoPatch EXCEPT ![f] = edit]
Over(p, later) == [f \in Field |-> IF later[f] = None THEN p[f] ELSE later[f]]
Rebased(p, revision) ==
  [f \in Field |-> IF p[f] = None THEN None ELSE [p[f] EXCEPT !.base = revision]]

Texts == Text \cup OtherText \cup {Blank}
Edit == [text: Texts, base: Nat, late: BOOLEAN]
Patch == [Field -> Edit \cup {None}]
Record == [revision: Nat, content: Texts, title: Texts]
Request == [key: Nat, revision: Nat, patch: Patch]
Stored == [digest: Nat \X [Field -> Texts \cup {None}], row: Record]
SaveQueue == [pending: Patch, failed: Patch, current: Record \cup {None},
              running: Request \cup {None}, key: Nat \cup {None}, conflict: BOOLEAN]

ASSUME NoneAssumption ==
  None \notin Texts \cup Nat \cup Edit \cup Record \cup Request \cup Stored

TypeOK ==
  /\ row \in Record /\ item \in Record
  /\ stored \in Seq(Stored \cup {None})
  /\ net \subseteq Request /\ \A r \in net : r.key \in DOMAIN stored
  /\ reply \in Seq(Record \cup {None}) /\ Len(reply) <= 1
  /\ q \in SaveQueue
  /\ field \in [draft: Texts, sent: Seq(Texts), last: Texts]
  /\ waiting \in Seq([text: Texts, entity: Record])
  /\ panel \in {"open", "settling", "asked", "left"}
  /\ edits \in Nat /\ errors \in Nat /\ others \in Nat
  /\ history \in [asked: [Field -> Texts \cup {None}], written: [Field -> Texts \cup {None}],
                  outside: [Field -> Nat], ours: BOOLEAN, disturbed: BOOLEAN, echoed: BOOLEAN]

\* digest of the method, the URL and the input.
Digest(r) ==
  <<r.revision, [f \in Field |-> IF r.patch[f] = None THEN None ELSE r.patch[f].text]>>

Init ==
  /\ row = [revision |-> 1, content |-> Blank, title |-> Blank]
  /\ stored = <<>>
  /\ net = {}
  /\ reply = <<>>
  /\ q = [pending |-> NoPatch, failed |-> NoPatch, current |-> None, running |-> None,
          key |-> None, conflict |-> FALSE]
  /\ item = row
  /\ field = [draft |-> Blank, sent |-> <<>>, last |-> Blank]
  /\ waiting = <<>>
  /\ panel = "open"
  /\ edits = 0
  /\ errors = 0
  /\ others = 0
  /\ history = [asked |-> [f \in Field |-> None], written |-> [f \in Field |-> None],
                outside |-> [f \in Field |-> 0], ours |-> FALSE, disturbed |-> FALSE, echoed |-> FALSE]

-----------------------------------------------------------------------------
(* SaveQueue *)

Idle(k) == k.running = None /\ k.failed = NoPatch /\ k.pending = NoPatch

\* drain: one request at a time, under the key kept from a failure or under a new one.
Drained(k) ==
  IF k.running # None \/ k.failed # NoPatch \/ k.pending = NoPatch THEN k
  ELSE LET key == IF k.key = None THEN Len(stored) + 1 ELSE k.key IN
       [k EXCEPT !.pending = NoPatch, !.key = key,
                 !.running = [key |-> key, revision |-> k.current.revision,
                              patch |-> k.pending]]

\* Stores the queue and puts a request it started on the network.
Queue(k) ==
  /\ q' = k
  /\ IF k.running \in {None, q.running} THEN UNCHANGED <<net, stored>>
     ELSE /\ net' = net \cup {k.running}
          /\ stored' = IF k.running.key > Len(stored) THEN Append(stored, None) ELSE stored

\* Mutant of Based: a newer record is taken although a failed request rests on the old one.
BasedAlways(k, entity) ==
  IF k.running = None /\ (k.current = None \/ entity.revision > k.current.revision)
  THEN [k EXCEPT !.current = entity] ELSE k

\* save: the page's record is taken only between requests, and only when it is newer.
Based(k, entity) ==
  IF /\ k.running = None /\ k.failed = NoPatch
     /\ k.current = None \/ entity.revision > k.current.revision
  THEN [k EXCEPT !.current = entity] ELSE k

Saved(k, entity, p) ==
  LET based == Based(k, entity) IN Drained([based EXCEPT !.pending = Over(@, p)])

\* Mutant of Retried: what failed comes back on top of what was saved since.
RetriedOnTop(k) ==
  Drained([k EXCEPT !.pending = Over(k.pending, k.failed), !.failed = NoPatch])

\* The whole queue's retry: what failed comes back below what was saved since.
Retried(k) ==
  Drained([k EXCEPT !.pending = Over(k.failed, k.pending), !.failed = NoPatch])

\* settle, and what the guard and the dialog do with its answer.
Guarded(k) ==
  CASE panel # "settling" \/ k.running # None -> panel
    [] OTHER -> IF Idle(k) THEN "left" ELSE "asked"

\* A key that was answered.
Answered(key) == key # None /\ stored[key] # None

Ask(f, text) == history' = [history EXCEPT !.asked[f] = text]

-----------------------------------------------------------------------------
(* The reader *)

Present == panel \in {"open", "settling"}

\* The draft changes under the reader's hands.
Type(text) ==
  /\ Present
  /\ text # field.draft
  /\ edits < MaxEdits
  /\ edits' = edits + 1
  /\ field' = [field EXCEPT !.draft = text]
  /\ UNCHANGED <<row, stored, net, reply, q, item, waiting, panel, errors, history, others>>

Moved == field.draft # field.last

\* The patches saved or sent and not answered yet: those of requests given up under the key
\* that Retry keeps among them, which the server may have worked.
Unanswered ==
  {q.failed, q.pending} \cup (IF q.running = None THEN {} ELSE {q.running.patch})
  \cup {r.patch : r \in {s \in net : s.key = q.key}}

\* The reader comes back to a text that is on its way already.
UnderWay(text) ==
  \/ \E p \in Unanswered : p.content # None /\ p.content.text = text
  \/ Answered(q.key) /\ stored[q.key].digest[2].content = text

\* Commits.commit, then the commit of useMentions, which waits for creations in flight with
\* the page's record in its closure. allSettled keeps the order of the commits.
Committed ==
  /\ field' = [field EXCEPT !.sent = Append(@, field.draft), !.last = field.draft]
  /\ waiting' = Append(waiting, [text |-> field.draft, entity |-> item])
  /\ history' = [history EXCEPT !.echoed = @ \/ UnderWay(field.draft)]

\* The timer of a moved draft, or leaving the field.
CommitDraft ==
  /\ Present
  /\ Moved
  /\ Committed
  /\ UNCHANGED <<row, stored, net, reply, q, item, panel, edits, errors, others>>

\* The creations a commit waited for have ended, well or not.
SaveWaiting ==
  /\ waiting # <<>>
  /\ LET c == Head(waiting)
         edit == [text |-> c.text, base |-> c.entity.revision,
                  late |-> item.revision > c.entity.revision]
     IN /\ Queue(Saved(q, c.entity, PatchOf("content", edit)))
        /\ Ask("content", c.text)
  /\ waiting' = Tail(waiting)
  /\ UNCHANGED <<row, reply, item, field, panel, edits, errors, others>>

\* NoteTitle: leaving a changed title saves it at once.
SaveTitle(text) ==
  /\ Present
  /\ text # item.title
  /\ edits < MaxEdits
  /\ edits' = edits + 1
  /\ Queue(Saved(q, item, PatchOf("title", [text |-> text, base |-> item.revision,
                                            late |-> FALSE])))
  /\ Ask("title", text)
  /\ UNCHANGED <<row, reply, item, field, waiting, panel, errors, others>>

\* Retry after an error: the same key, and whatever was saved since.
Retry ==
  /\ panel # "left" /\ q.failed # NoPatch /\ ~ q.conflict
  /\ Queue(Retried(q))
  /\ panel' = IF panel = "asked" THEN "settling" ELSE panel
  /\ UNCHANGED <<row, reply, item, field, waiting, edits, errors, history, others>>

-----------------------------------------------------------------------------
(* The page's record *)

\* Mutant of Own: only the last commit is remembered.
OwnLast(text) == field.sent # <<>> /\ Last(field.sent) = text

Own(text) == Contains(field.sent, text)

\* Mutant of Settled: whatever arrives while a commit is out is taken for its answer.
SettledByAny(latest) ==
  IF latest.content = item.content THEN field
  ELSE IF field.sent # <<>> THEN [field EXCEPT !.sent = <<>>]
  ELSE [draft |-> latest.content, sent |-> <<>>, last |-> latest.content]

\* useDraft when the saved text changed: the field's own round trip leaves the draft alone and
\* is forgotten with the commits before it; anything else re-bases the draft.
Settled(latest) ==
  IF latest.content = item.content THEN field
  ELSE IF Own(latest.content)
  THEN LET i == CHOOSE i \in DOMAIN field.sent :
                  /\ field.sent[i] = latest.content
                  /\ \A k \in 1 .. i - 1 : field.sent[k] # latest.content
       IN [field EXCEPT !.sent = SubSeq(@, i + 1, Len(@))]
  ELSE [draft |-> latest.content, sent |-> <<>>, last |-> latest.content]

\* The text of another writer arrives while commits of the field are on their way.
Disturbs(latest) ==
  /\ latest.content # item.content
  /\ ~ history.ours
  /\ field.sent # <<>> \/ waiting # <<>> \/ ~ Idle(q)

\* refetch, on focus, on the minute and after every write.
Show(latest) ==
  /\ item' = latest
  /\ field' = Settled(latest)
  /\ history' = [history EXCEPT !.disturbed = @ \/ Disturbs(latest)]

Refetch ==
  /\ panel # "left"
  /\ item # row
  /\ Show(row)
  /\ UNCHANGED <<row, stored, net, reply, q, waiting, panel, edits, errors, others>>

\* Reload and reapply after a conflict. A refetch that fails answers with the cached record.
Reapply ==
  /\ panel # "left" /\ q.failed # NoPatch /\ q.conflict
  /\ \E latest \in {row, item} :
       /\ latest = row \/ errors < MaxErrors
       /\ errors' = IF latest = row THEN errors ELSE errors + 1
       /\ Show(latest)
       /\ Queue(Retried([q EXCEPT !.current = latest, !.key = None,
                                  !.failed = Rebased(@, latest.revision),
                                  !.pending = Rebased(@, latest.revision)]))
  /\ panel' = IF panel = "asked" THEN "settling" ELSE panel
  /\ UNCHANGED <<row, reply, waiting, edits, others>>

-----------------------------------------------------------------------------
(* The server and the network *)

\* execute and patchNote: an answered key is replayed, or refused for another request; a
\* new key needs the current revision.
Patched(r) ==
  [f \in {"revision"} \cup Field |->
     IF f = "revision" THEN row.revision + 1
     ELSE IF r.patch[f] = None THEN row[f] ELSE r.patch[f].text]

Answer(r) ==
  CASE Answered(r.key) -> IF stored[r.key].digest = Digest(r) THEN stored[r.key].row ELSE None
    [] OTHER -> IF r.revision = row.revision THEN Patched(r) ELSE None

Writes(r) == ~ Answered(r.key) /\ r.revision = row.revision

Serve(r) ==
  /\ net' = net \ {r}
  /\ reply' = IF q.running = r THEN <<Answer(r)>> ELSE reply
  /\ IF Writes(r)
     THEN /\ row' = Patched(r)
          /\ stored' = [stored EXCEPT ![r.key] = [digest |-> Digest(r), row |-> Patched(r)]]
          /\ history' = [history EXCEPT
               !.written = [f \in Field |-> IF r.patch[f] = None THEN @[f] ELSE r.patch[f].text],
               !.ours = @ \/ r.patch.content # None]
     ELSE UNCHANGED <<row, stored, history>>
  /\ UNCHANGED <<q, item, field, waiting, panel, edits, errors, others>>

\* The connection breaks before the request reaches the server.
Drop(r) ==
  /\ q.running # r \/ errors < MaxErrors
  /\ net' = net \ {r}
  /\ UNCHANGED <<row, stored, reply, q, item, field, waiting, panel, edits, errors, history, others>>

\* The running request is answered: the queue goes on with what was saved meanwhile.
Receive ==
  /\ reply # <<>>
  /\ reply' = <<>>
  /\ LET ended == IF Head(reply) = None
                  THEN [q EXCEPT !.running = None, !.failed = q.running.patch,
                                 !.conflict = TRUE]
                  ELSE [q EXCEPT !.running = None, !.failed = NoPatch, !.current = Head(reply),
                                 !.key = None, !.conflict = FALSE]
     IN /\ Queue(Drained(ended))
        /\ panel' = Guarded(Drained(ended))
  /\ UNCHANGED <<row, item, field, waiting, edits, errors, history, others>>

\* The running request fails in the browser, whatever became of it at the server.
Lose ==
  /\ q.running # None
  /\ errors < MaxErrors
  /\ errors' = errors + 1
  /\ reply' = <<>>
  /\ LET ended == [q EXCEPT !.running = None, !.failed = q.running.patch,
                            !.conflict = FALSE]
     IN q' = ended /\ panel' = Guarded(ended)
  /\ UNCHANGED <<row, stored, net, item, field, waiting, edits, others, history>>

\* Another writer's text that the field cannot tell from what it shows or sent itself.
Echoes(text) == text = item.content \/ Own(text)

\* Somebody else writes one field.
OutsideEdit(f, text) ==
  /\ others < MaxOthers
  /\ others' = others + 1
  /\ text # row[f]
  /\ row' = [row EXCEPT !.revision = @ + 1, ![f] = text]
  /\ history' = [history EXCEPT !.outside[f] = row.revision + 1,
                                !.ours = @ /\ f # "content",
                                !.echoed = @ \/ (f = "content" /\ Echoes(text))]
  /\ UNCHANGED <<stored, net, reply, q, item, field, waiting, panel, edits, errors>>

-----------------------------------------------------------------------------
(* Leaving *)

\* navigate: the field in hand is left, which commits a moved draft, and the guard settles.
Leave ==
  /\ panel = "open"
  /\ IF Moved THEN Committed ELSE UNCHANGED <<field, waiting, history>>
  /\ panel' = IF q.running # None THEN "settling" ELSE IF Idle(q) THEN "left" ELSE "asked"
  /\ UNCHANGED <<row, stored, net, reply, q, item, edits, errors, others>>

\* The dialog of a failed save: back to the record, or away without what was not saved.
Cancel ==
  /\ panel = "asked"
  /\ panel' = "open"
  /\ UNCHANGED <<row, stored, net, reply, q, item, field, waiting, edits, errors, history, others>>

Discard ==
  /\ panel = "asked"
  /\ q' = [q EXCEPT !.failed = NoPatch, !.pending = NoPatch, !.key = None, !.conflict = FALSE]
  /\ panel' = "left"
  /\ history' = [history EXCEPT !.asked = [f \in Field |-> None]]
  /\ UNCHANGED <<row, stored, net, reply, item, field, waiting, edits, errors, others>>

Next ==
  \/ \E text \in Text : Type(text) \/ SaveTitle(text)
  \/ CommitDraft \/ SaveWaiting \/ Retry \/ Refetch \/ Reapply
  \/ \E r \in net : Serve(r) \/ Drop(r)
  \/ Receive \/ Lose
  \/ \E f \in Field, text \in OtherText : OutsideEdit(f, text)
  \/ Leave \/ Cancel \/ Discard

Spec == Init /\ [][Next]_vars

-----------------------------------------------------------------------------
\* EP-B10: when the queue has nothing running, pending or failed, the last edit of every
\* field reached the server, whatever was merged, lost, repeated under its key or refused.
SettledMeansSaved ==
  Idle(q) => \A f \in Field : history.asked[f] \in {None, history.written[f]}

\* No request replaces what another person wrote to a field unless the reader's edit was
\* made on a page that showed it, or was reapplied after it. A commit that waited for a
\* person to be created while the page moved on is the one exception.
NeverOverwritesUnseen ==
  [][\A r \in net : Writes(r) /\ row' = Patched(r) /\ r \notin net' =>
       \A f \in Field : r.patch[f] # None =>
         r.patch[f].late \/ history.outside[f] <= r.patch[f].base]_vars

\* NOTES-B24: a refetch that brings back what this field wrote never touches the draft, which
\* may have moved on, unless another writer came between.
OwnSavesKeepDraft ==
  [][item'.content # item.content /\ history.ours /\ ~ history.disturbed
     => field'.draft = field.draft]_vars

\* When nothing is being edited, sent or waited for and the page is current, the field shows
\* what is saved, unless another writer's text could be taken for the field's own.
QuietFieldIsTrue ==
  /\ panel = "open" /\ ~ Moved /\ waiting = <<>> /\ Idle(q) /\ item = row
  /\ ~ history.echoed
  => field.draft = row.content
=============================================================================
