------------------------------ MODULE Notebook ------------------------------
(***************************************************************************)
(* Notes with their tags and participants, and the people they name, under *)
(* concurrent requests: src/modules/notes/service.ts and repo.ts, and the  *)
(* trash of src/modules/people/service.ts.                                 *)
(*                                                                         *)
(* A client edits a note from the page it was shown.  Its request reads    *)
(* the note, the people and the participants without a lock, writes the    *)
(* participants, and then the note if it is still at the revision of the   *)
(* page; everything from its first write on is one step with the commit or *)
(* the rollback.  A bulk request compares each of its notes in the same    *)
(* way, so that one that changes anything is a step on notes as they are.  *)
(***************************************************************************)
EXTENDS Integers, FiniteSets

CONSTANTS
  Note, Person, Tag, Client, None,
  Edited,       \* bound: notes with people that clients edit singly; the others change in bulk
  MaxTags,      \* tags of a note: 10 in validation.ts
  MaxRevision   \* bound: revisions of a note

ASSUME BoundAssumption ==
  Edited \subseteq Note /\ MaxTags \in Nat \ {0} /\ MaxRevision \in Nat \ {0}

VARIABLES
  note,     \* the notes table, None for a note not written yet
  person,   \* the people outside the trash
  txn,      \* the pages clients work from, and what their requests have read
  asked,    \* history: the participants last asked for
  deleted,  \* history: tags an administrator deleted and nobody gave the note since
  hidden    \* history: participants nobody removed since their person went to the trash

vars == <<note, person, txn, asked, deleted, hidden>>

Row == [revision: 1 .. MaxRevision + 1, tags: SUBSET Tag, archived: BOOLEAN, trashed: BOOLEAN,
        people: SUBSET Person]

\* `seen` and `people` are what the page shows; a patch that is "checked" wants other tags or people,
\* None leaving them alone, and `current` is what it read of note_people.
Request == [note: Note, at: {"page", "checked"}, seen: 1 .. MaxRevision + 1, people: SUBSET Person,
            wantTags: (SUBSET Tag) \cup {None}, wantPeople: (SUBSET Person) \cup {None},
            current: SUBSET Person]

ASSUME TagAssumption == IsFiniteSet(Tag)
ASSUME NoneAssumption == None \notin Row

Written == {n \in Note : note[n] # None}
Live == {n \in Written : ~ note[n].trashed}

TypeOK ==
  /\ note \in [Note -> Row \cup {None}]
  /\ \A n \in Written : Cardinality(note[n].tags) <= MaxTags
  /\ person \subseteq Person
  /\ txn \in [Client -> Request \cup {None}]
  /\ asked \in [Note -> SUBSET Person]
  /\ deleted \in [Note -> SUBSET Tag]
  /\ hidden \in [Note -> SUBSET Person]

Init ==
  /\ note = [n \in Note |-> None]
  /\ person = Person
  /\ txn = [c \in Client |-> None]
  /\ asked = [n \in Note |-> {}]
  /\ deleted = [n \in Note |-> {}]
  /\ hidden = [n \in Note |-> {}]

-----------------------------------------------------------------------------
Tags == {tags \in SUBSET Tag : Cardinality(tags) <= MaxTags}

\* updateEntity: the revision goes up with every change.
Changed(row) == [row EXCEPT !.revision = @ + 1]

CanChange(n) == note[n].revision <= MaxRevision

Finish(c) == txn' = [txn EXCEPT ![c] = None]

Refuse(c) == Finish(c) /\ UNCHANGED <<note, person, asked, deleted, hidden>>

\* createNote, its people checked before.
CreateNote(n, tags, people) ==
  /\ note[n] = None /\ people \subseteq person
  /\ note' = [note EXCEPT ![n] = [revision |-> 1, tags |-> tags, archived |-> FALSE,
                                  trashed |-> FALSE, people |-> people]]
  /\ asked' = [asked EXCEPT ![n] = people]
  /\ deleted' = [deleted EXCEPT ![n] = @ \ tags]
  /\ UNCHANGED <<person, txn, hidden>>

\* getNote: participants whose person is in the trash are not shown.
OpenPage(c, n) ==
  /\ txn[c] = None /\ n \in Live
  /\ txn' = [txn EXCEPT ![c] =
       [note |-> n, at |-> "page", seen |-> note[n].revision, people |-> note[n].people \cap person,
        wantTags |-> None, wantPeople |-> None, current |-> {}]]
  /\ UNCHANGED <<note, person, asked, deleted, hidden>>

ClosePage(c) == txn[c] # None /\ txn[c].at = "page" /\ Refuse(c)

\* patchNote: the revision, requirePeople and activeParticipantIds, none of them under a lock.
CheckPatch(c, tags, people) ==
  LET n == txn[c].note IN
  /\ txn[c] # None /\ txn[c].at = "page"
  /\ IF n \notin Live \/ note[n].revision # txn[c].seen THEN Refuse(c)
     ELSE /\ people # None => people \subseteq person
          /\ txn' = [txn EXCEPT ![c].at = "checked", ![c].wantTags = tags, ![c].wantPeople = people,
                                ![c].current = IF people = None THEN {} ELSE note[n].people]
          /\ UNCHANGED <<note, person, asked, deleted, hidden>>

Added(c) == IF txn[c].wantPeople = None THEN {} ELSE txn[c].wantPeople \ txn[c].current

Removed(c) == IF txn[c].wantPeople = None THEN {} ELSE txn[c].current \ txn[c].wantPeople

\* setParticipants: the difference to the participants it read.
Participants(c) == (note[txn[c].note].people \ Removed(c)) \cup Added(c)

NewTags(c) == IF txn[c].wantTags = None THEN note[txn[c].note].tags ELSE txn[c].wantTags

\* The history of a patch that is written.
Record(c) ==
  LET n == txn[c].note  want == txn[c].wantPeople IN
  /\ asked' = IF want = None THEN asked ELSE [asked EXCEPT ![n] = want]
  /\ deleted' = [deleted EXCEPT ![n] = @ \ (NewTags(c) \ note[n].tags)]
  /\ hidden' = IF want = None THEN hidden ELSE [hidden EXCEPT ![n] = @ \ (txn[c].people \ want)]

\* Mutant of WritePatch: a patch of the participants alone leaves the note, and its revision, alone.
WriteParticipants(c) ==
  LET n == txn[c].note IN
  /\ txn[c] # None /\ txn[c].at = "checked"
  /\ IF \/ Added(c) \cap note[n].people # {}
        \/ note[n].revision # txn[c].seen /\ txn[c].wantTags # None
     THEN Refuse(c)
     ELSE /\ CanChange(n)
          /\ note' = [note EXCEPT ![n].people = Participants(c), ![n].tags = NewTags(c),
                                  ![n].revision = IF txn[c].wantTags # None THEN @ + 1 ELSE @]
          /\ Record(c)
          /\ Finish(c)
          /\ UNCHANGED person

\* An insert that meets a live row of the same person is refused by the unique index; then the note
\* is updated under the revision of the page.  Either failure undoes it all.
WritePatch(c) ==
  LET n == txn[c].note IN
  /\ txn[c] # None /\ txn[c].at = "checked"
  /\ IF Added(c) \cap note[n].people # {} \/ note[n].revision # txn[c].seen
     THEN Refuse(c)
     ELSE /\ CanChange(n)
          /\ note' = [note EXCEPT ![n] =
               [Changed(@) EXCEPT !.people = Participants(c), !.tags = NewTags(c)]]
          /\ Record(c)
          /\ Finish(c)
          /\ UNCHANGED person

\* setArchived and removeNote from a page.
ChangeShown(c) ==
  LET n == txn[c].note IN
  /\ txn[c] # None /\ txn[c].at = "page"
  /\ IF n \notin Live \/ note[n].revision # txn[c].seen THEN Refuse(c)
     ELSE /\ CanChange(n)
          /\ \/ note' = [note EXCEPT ![n] = [Changed(@) EXCEPT !.archived = ~ note[n].archived]]
             \/ note' = [note EXCEPT ![n] = [Changed(@) EXCEPT !.trashed = TRUE]]
          /\ Finish(c)
          /\ UNCHANGED <<person, asked, deleted, hidden>>

\* restoreNote by the operation id of its deletion.
RestoreNote(n) ==
  /\ n \in Written \ Live /\ CanChange(n)
  /\ note' = [note EXCEPT ![n] = [Changed(@) EXCEPT !.trashed = FALSE]]
  /\ UNCHANGED <<person, txn, asked, deleted, hidden>>

-----------------------------------------------------------------------------
(* Several notes at once                                                   *)

BulkArchive(S) ==
  LET changed == {n \in S : ~ note[n].archived} IN
  /\ S \subseteq Live /\ changed # {} /\ \A n \in changed : CanChange(n)
  /\ note' = [n \in Note |->
       IF n \in changed THEN [Changed(note[n]) EXCEPT !.archived = TRUE] ELSE note[n]]
  /\ UNCHANGED <<person, txn, asked, deleted, hidden>>

Untagged(S, tag) == {n \in S : tag \notin note[n].tags}

\* One note with no room refuses them all.
TagsFit(S, tag) == \A n \in Untagged(S, tag) : Cardinality(note[n].tags) < MaxTags

BulkTag(S, tag) ==
  LET changed == Untagged(S, tag) IN
  /\ S \subseteq Live /\ changed # {} /\ TagsFit(S, tag) /\ \A n \in changed : CanChange(n)
  /\ note' = [n \in Note |->
       IF n \in changed THEN [Changed(note[n]) EXCEPT !.tags = @ \cup {tag}] ELSE note[n]]
  /\ deleted' = [n \in Note |-> IF n \in changed THEN deleted[n] \ {tag} ELSE deleted[n]]
  /\ UNCHANGED <<person, txn, asked, hidden>>

\* Mutant of Tagged: notes in the trash keep their tags.
TaggedLive(tags) == {n \in Live : note[n].tags \cap tags # {}}

\* lockTaggedNotes: also those in the trash.
Tagged(tags) == {n \in Written : note[n].tags \cap tags # {}}

\* manageTags: the tags are deleted, or merged into the target.
ManageTags(tags, target) ==
  LET result(n) == (note[n].tags \ tags) \cup target
      changed == {n \in Tagged(tags) : result(n) # note[n].tags}
  IN /\ changed # {} /\ \A n \in changed : CanChange(n)
     /\ note' = [n \in Note |->
          IF n \in changed THEN [Changed(note[n]) EXCEPT !.tags = result(n)] ELSE note[n]]
     /\ deleted' = [n \in Note |->
          (deleted[n] \cup (tags \ target)) \ (IF n \in changed THEN target ELSE {})]
     /\ UNCHANGED <<person, txn, asked, hidden>>

-----------------------------------------------------------------------------
(* People                                                                  *)

RemovePerson(p) ==
  /\ p \in person
  /\ person' = person \ {p}
  /\ hidden' = [n \in Note |->
       IF n \in Written /\ p \in note[n].people THEN hidden[n] \cup {p} ELSE hidden[n]]
  /\ UNCHANGED <<note, txn, asked, deleted>>

RestorePerson(p) ==
  /\ p \in Person \ person
  /\ person' = person \cup {p}
  /\ hidden' = [n \in Note |-> hidden[n] \ {p}]
  /\ UNCHANGED <<note, txn, asked, deleted>>

-----------------------------------------------------------------------------
Edit(c) ==
  \/ \E n \in Edited : OpenPage(c, n)
  \/ \E tags \in Tags \cup {None}, people \in (SUBSET Person) \cup {None} : CheckPatch(c, tags, people)
  \/ ClosePage(c) \/ WritePatch(c) \/ ChangeShown(c)

Bulk ==
  \/ \E S \in SUBSET Note : BulkArchive(S) \/ \E tag \in Tag : BulkTag(S, tag)
  \/ \E tags \in SUBSET Tag : \E target \in {{}} \cup {{t} : t \in Tag} : ManageTags(tags, target)

Next ==
  \/ \E c \in Client : Edit(c)
  \/ \E n \in Note : RestoreNote(n)
  \/ \E n \in Note, tags \in Tags, people \in SUBSET Person :
       (n \in Edited \/ people = {}) /\ CreateNote(n, tags, people)
  \/ Bulk
  \/ \E p \in Person : RemovePerson(p) \/ RestorePerson(p)

Spec == Init /\ [][Next]_vars

-----------------------------------------------------------------------------
(* Properties                                                              *)

\* The participants of a note are those the last successful request asked for, although each
\* request writes only the difference to what it read, without a lock (NOTES-B07).
ParticipantsAsAsked == \A n \in Written : note[n].people = asked[n]

\* A tag an administrator deleted is on no note again, unless somebody gives it to the note anew:
\* not when a note comes back from the trash, and not because a page from before the deletion is
\* saved (NOTES-B21).
DeletedTagsStayAway == \A n \in Written : note[n].tags \cap deleted[n] = {}

\* "Participants whose person is deleted are hidden until the person is restored" (NOTES-I04): they
\* are participants still, unless a request removed them that had been shown them.
HiddenParticipantsStay == \A n \in Written : hidden[n] \subseteq note[n].people
=============================================================================
