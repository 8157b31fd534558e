--------------------------- MODULE NotebookProofs ---------------------------
(***************************************************************************)
(* What notes promise about participants and tags for any number of notes, *)
(* people, tags, requests and revisions.                                   *)
(*                                                                         *)
(* The participants are safe without a lock because every write of a note, *)
(* of its participants too, changes the revision under which a request     *)
(* that read them may write (PagesFit).                                    *)
(***************************************************************************)
EXTENDS Notebook, TLAPS, FiniteSetTheorems

\* While the note has the revision of the page, its participants are those that the patch read.
PageFits(r) ==
  /\ r.note \in Written
  /\ r.seen <= note[r.note].revision
  /\ r.wantTags # None => r.wantTags \in Tags
  /\ r.at = "checked" /\ r.wantPeople # None /\ r.seen = note[r.note].revision =>
       r.current = note[r.note].people

PagesFit == \A c \in Client : txn[c] # None => PageFits(txn[c])

IInv == TypeOK /\ PagesFit /\ ParticipantsAsAsked /\ DeletedTagsStayAway

LEMMA InitInv == Init => IInv
<1> SUFFICES ASSUME Init PROVE IInv
  OBVIOUS
<1>1. Written = {} /\ \A c \in Client : txn[c] = None
  BY DEF Init, Written
<1>2. TypeOK
  BY <1>1 DEF Init, TypeOK
<1> QED
  BY <1>1, <1>2 DEF IInv, PagesFit, ParticipantsAsAsked, DeletedTagsStayAway

LEMMA Rows ==
  ASSUME IInv
  PROVE  /\ Written \subseteq Note /\ MaxRevision \in Nat /\ MaxTags \in Nat \ {0}
         /\ \A n \in Written :
              /\ note[n] \in Row /\ note[n].revision \in Nat /\ note[n].tags \subseteq Tag
              /\ note[n].people \subseteq Person
              /\ Cardinality(note[n].tags) <= MaxTags /\ note[n].tags \cap deleted[n] = {}
              /\ note[n].people = asked[n]
<1>1. \A n \in Written : note[n] \in Row
  BY DEF IInv, TypeOK, Written
<1> QED
  BY <1>1, BoundAssumption
     DEF IInv, TypeOK, Written, Row, ParticipantsAsAsked, DeletedTagsStayAway

\* A page still fits when notes changed under new revisions.
LEMMA PagesStillFit ==
  ASSUME IInv,
         \A d \in Client : txn'[d] = txn[d] \/ txn'[d] = None,
         \A n \in Written :
           /\ n \in Written' /\ note'[n].revision \in Nat
           /\ (note'[n].people = note[n].people /\ note'[n].revision = note[n].revision)
                \/ note'[n].revision > note[n].revision
  PROVE  PagesFit'
<1> SUFFICES ASSUME NEW d \in Client, txn'[d] # None PROVE PageFits(txn[d])'
  BY DEF PagesFit
<1>1. txn'[d] = txn[d] /\ PageFits(txn[d])
  BY DEF IInv, PagesFit
<1>2. PICK r \in Request : r = txn[d]
  BY <1>1 DEF IInv, TypeOK
<1>3. r.seen \in Nat /\ note[r.note].revision \in Nat /\ note'[r.note].revision \in Nat
  BY <1>1, <1>2, Rows DEF PageFits, Request
<1> QED
  BY <1>1, <1>2, <1>3 DEF PageFits

\* The invariant, where notes of S get new rows under new revisions with participants and tags
\* as the history has them, and the others stay.
LEMMA WriteInv ==
  ASSUME IInv, NEW S \in SUBSET Written,
         \A d \in Client : txn'[d] = txn[d] \/ txn'[d] = None,
         txn' \in [Client -> Request \cup {None}],
         note' \in [Note -> Row \cup {None}],
         \A n \in Note \ S : note'[n] = note[n],
         \A n \in S : /\ note'[n] \in Row /\ note'[n].revision = note[n].revision + 1
                      /\ Cardinality(note'[n].tags) <= MaxTags
                      /\ note'[n].people = asked'[n],
         \A n \in Written : note'[n].tags \cap deleted'[n] = {},
         \A n \in Note \ S : asked'[n] = asked[n],
         asked' \in [Note -> SUBSET Person], deleted' \in [Note -> SUBSET Tag],
         hidden' \in [Note -> SUBSET Person], UNCHANGED person
  PROVE  IInv'
<1>1. Written' = Written
  BY Rows, NoneAssumption DEF Written
<1>2. \A n \in Written : note[n].revision \in Nat
  BY Rows
<1>3. PagesFit'
  <2>1. \A n \in Written :
          /\ n \in Written' /\ note'[n].revision \in Nat
          /\ (note'[n].people = note[n].people /\ note'[n].revision = note[n].revision)
               \/ note'[n].revision > note[n].revision
    BY <1>1, <1>2, Rows
  <2> QED
    BY <2>1, PagesStillFit
<1>4. \A n \in Written : Cardinality(note'[n].tags) <= MaxTags
  BY Rows
<1>5. TypeOK'
  BY <1>1, <1>4 DEF IInv, TypeOK
<1>6. ParticipantsAsAsked'
  BY <1>1, Rows DEF ParticipantsAsAsked
<1>7. DeletedTagsStayAway'
  BY <1>1 DEF DeletedTagsStayAway
<1> QED
  BY <1>3, <1>5, <1>6, <1>7 DEF IInv

\* The new row of a note.
LEMMA ChangedRow ==
  ASSUME NEW r \in Row, r.revision <= MaxRevision
  PROVE  /\ Changed(r) \in Row /\ Changed(r).revision = r.revision + 1
         /\ Changed(r).people = r.people /\ Changed(r).tags = r.tags
<1> QED
  BY BoundAssumption DEF Changed, Row

\* A request ends and writes nothing, or the page is opened or checked.
LEMMA OnlyRequests ==
  ASSUME IInv, NEW c \in Client, NEW q \in Request \cup {None}, txn' = [txn EXCEPT ![c] = q],
         q # None => PageFits(q), UNCHANGED <<note, person, asked, deleted, hidden>>
  PROVE  IInv'
<1>1. txn' \in [Client -> Request \cup {None}]
  BY DEF IInv, TypeOK
<1>2. Written' = Written
  BY DEF Written
<1>3. TypeOK'
  BY <1>1, <1>2 DEF IInv, TypeOK
<1>4. PagesFit'
  <2> SUFFICES ASSUME NEW d \in Client, txn'[d] # None PROVE PageFits(txn[d])'
    BY DEF PagesFit
  <2>1. PageFits(txn'[d])
    <3>1. CASE d = c
      BY <3>1 DEF IInv, TypeOK
    <3>2. CASE d # c
      BY <3>2 DEF IInv, TypeOK, PagesFit
    <3> QED
      BY <3>1, <3>2
  <2> QED
    BY <2>1, <1>2 DEF PageFits
<1>5. ParticipantsAsAsked' /\ DeletedTagsStayAway'
  BY <1>2 DEF IInv, ParticipantsAsAsked, DeletedTagsStayAway
<1> QED
  BY <1>3, <1>4, <1>5 DEF IInv

LEMMA RefuseInv ==
  ASSUME IInv, NEW c \in Client, Refuse(c)
  PROVE  IInv'
<1> QED
  BY OnlyRequests DEF Refuse, Finish

\* What a client works with.
LEMMA Pages ==
  ASSUME IInv, NEW c \in Client, txn[c] # None
  PROVE  txn[c] \in Request /\ PageFits(txn[c]) /\ txn[c].note \in Written
<1> QED
  BY DEF IInv, TypeOK, PagesFit, PageFits

LEMMA OpenPageInv ==
  ASSUME IInv, NEW c \in Client, NEW n \in Note, OpenPage(c, n)
  PROVE  IInv'
<1> DEFINE q == [note |-> n, at |-> "page", seen |-> note[n].revision,
                 people |-> note[n].people \cap person,
                 wantTags |-> None, wantPeople |-> None, current |-> {}]
<1>1. n \in Written /\ note[n] \in Row
  BY Rows DEF OpenPage, Live
<1>2. note[n].revision \in 1 .. MaxRevision + 1 /\ note[n].revision \in Nat
      /\ note[n].people \subseteq Person
  BY <1>1, BoundAssumption DEF Row
<1>3. q \in Request
  BY <1>2 DEF Request
<1>4. PageFits(q)
  BY <1>1, <1>2 DEF PageFits
<1>5. txn' = [txn EXCEPT ![c] = q]
  BY DEF OpenPage
<1>6. UNCHANGED <<note, person, asked, deleted, hidden>>
  BY DEF OpenPage
<1> HIDE DEF q
<1> QED
  BY <1>3, <1>4, <1>5, <1>6, OnlyRequests

LEMMA CheckPatchInv ==
  ASSUME IInv, NEW c \in Client, NEW tags \in Tags \cup {None},
         NEW people \in (SUBSET Person) \cup {None}, CheckPatch(c, tags, people)
  PROVE  IInv'
<1>1. txn[c] # None /\ txn[c].at = "page"
  BY DEF CheckPatch
<1>2. PICK r \in Request : r = txn[c]
  BY <1>1, Pages
<1>3. CASE Refuse(c)
  BY <1>3, RefuseInv
<1>4. CASE ~ Refuse(c)
  <2> DEFINE current == IF people = None THEN {} ELSE note[r.note].people
             q == [r EXCEPT !.at = "checked", !.wantTags = tags, !.wantPeople = people,
                            !.current = current]
  <2>1. r.note \in Written /\ PageFits(r)
    BY <1>1, <1>2, Pages
  <2>2. current \in SUBSET Person
    BY <2>1, Rows
  <2>3. txn' = [txn EXCEPT ![c] = [txn[c] EXCEPT !.at = "checked", !.wantTags = tags,
                                                 !.wantPeople = people, !.current = current]]
        /\ UNCHANGED <<note, person, asked, deleted, hidden>>
    BY <1>2, <1>4 DEF CheckPatch
  <2>4. tags \in (SUBSET Tag) \cup {None}
    BY DEF Tags
  <2>5. current = note[r.note].people \/ people = None
    OBVIOUS
  <2> HIDE DEF current
  <2>6. q \in Request /\ q.note = r.note /\ q.seen = r.seen /\ q.wantTags = tags
        /\ q.wantPeople = people /\ q.current = current
    BY <2>2, <2>4 DEF Request
  <2>7. txn' = [txn EXCEPT ![c] = q]
    BY <2>3, <1>2
  <2> HIDE DEF q
  <2>8. PageFits(q)
    BY <2>1, <2>5, <2>6 DEF PageFits
  <2> QED
    BY <2>3, <2>6, <2>7, <2>8, OnlyRequests
<1> QED
  BY <1>3, <1>4

\* What a patch writes while the note is as its page: the participants it asks for.
LEMMA ParticipantsWanted ==
  ASSUME IInv, NEW c \in Client, txn[c] # None, txn[c].at = "checked",
         note[txn[c].note].revision = txn[c].seen
  PROVE  /\ Participants(c) \in SUBSET Person
         /\ txn[c].wantPeople # None => Participants(c) = txn[c].wantPeople
         /\ txn[c].wantPeople = None => Participants(c) = note[txn[c].note].people
         /\ NewTags(c) \in Tags
<1>1. PICK r \in Request : r = txn[c]
  BY Pages
<1>2. r.note \in Written /\ PageFits(r)
  BY <1>1, Pages
<1>3. note[r.note].people \subseteq Person /\ note[r.note].tags \in Tags
  BY <1>2, Rows DEF Tags
<1>4. CASE r.wantPeople = None
  BY <1>1, <1>2, <1>3, <1>4 DEF Participants, Added, Removed, NewTags, PageFits
<1>5. CASE r.wantPeople # None
  <2>1. r.wantPeople \in SUBSET Person
    BY <1>5 DEF Request
  <2>2. r.current = note[r.note].people
    BY <1>1, <1>2, <1>5 DEF PageFits
  <2>3. Participants(c) = (note[r.note].people \ (r.current \ r.wantPeople))
                           \cup (r.wantPeople \ r.current)
    BY <1>1, <1>5 DEF Participants, Added, Removed
  <2>4. Participants(c) = r.wantPeople
    BY <2>2, <2>3
  <2> QED
    BY <1>1, <1>2, <1>3, <1>5, <2>1, <2>4 DEF NewTags, PageFits
<1> QED
  BY <1>4, <1>5

LEMMA WritePatchInv ==
  ASSUME IInv, NEW c \in Client, WritePatch(c)
  PROVE  IInv'
<1> DEFINE n == txn[c].note
           want == txn[c].wantPeople
<1>1. txn[c] # None /\ txn[c].at = "checked"
  BY DEF WritePatch
<1>2. n \in Written /\ n \in Note /\ want \in (SUBSET Person) \cup {None}
  BY <1>1, Pages, Rows DEF Request
<1>3. CASE Refuse(c)
  BY <1>3, RefuseInv
<1>4. CASE ~ Refuse(c)
  <2>1. /\ note[n].revision = txn[c].seen /\ CanChange(n)
        /\ note' = [note EXCEPT ![n] =
               [Changed(note[n]) EXCEPT !.people = Participants(c), !.tags = NewTags(c)]]
        /\ Record(c) /\ Finish(c) /\ UNCHANGED person
    BY <1>4 DEF WritePatch
  <2>2. /\ Participants(c) \in SUBSET Person
        /\ want # None => Participants(c) = want
        /\ want = None => Participants(c) = note[n].people
        /\ NewTags(c) \in Tags
    BY <1>1, <2>1, ParticipantsWanted
  <2>3. NewTags(c) \in SUBSET Tag /\ Cardinality(NewTags(c)) <= MaxTags
    BY <2>2 DEF Tags
  <2>4. note[n] \in Row /\ note[n].revision <= MaxRevision
    BY <1>2, <2>1, Rows DEF CanChange
  <2>5. PICK q \in Row : q = Changed(note[n]) /\ q.revision = note[n].revision + 1
    BY <2>4, ChangedRow
  <2>a. PICK people \in SUBSET Person : people = Participants(c)
    BY <2>2
  <2>b. PICK tags \in SUBSET Tag : tags = NewTags(c)
    BY <2>3
  <2> DEFINE y == [q EXCEPT !.people = people, !.tags = tags]
  <2>6. y \in Row /\ y.revision = q.revision /\ y.people = Participants(c) /\ y.tags = NewTags(c)
    <3>1. y \in Row /\ y.revision = q.revision /\ y.people = people /\ y.tags = tags
      BY DEF Row
    <3> HIDE DEF y
    <3> QED
      BY <3>1, <2>a, <2>b
  <2>7. note' = [note EXCEPT ![n] = y]
    BY <2>1, <2>5, <2>a, <2>b
  <2> HIDE DEF y
  <2>8. note' \in [Note -> Row \cup {None}] /\ note'[n] = y
        /\ \A m \in Note \ {n} : note'[m] = note[m]
    BY <1>2, <2>6, <2>7 DEF IInv, TypeOK
  <2>9. asked' \in [Note -> SUBSET Person] /\ asked'[n] = Participants(c)
        /\ \A m \in Note \ {n} : asked'[m] = asked[m]
    <3>1. CASE want = None
      BY <1>2, <2>1, <2>2, <3>1, Rows DEF Record, IInv, TypeOK
    <3>2. CASE want # None
      <4>1. asked' = [asked EXCEPT ![n] = want]
        BY <2>1, <3>2 DEF Record
      <4> HIDE DEF want, n
      <4> QED
        BY <1>2, <2>2, <3>2, <4>1 DEF IInv, TypeOK
    <3> QED
      BY <3>1, <3>2
  <2>10. deleted' \in [Note -> SUBSET Tag]
         /\ deleted'[n] = deleted[n] \ (NewTags(c) \ note[n].tags)
         /\ \A m \in Note \ {n} : deleted'[m] = deleted[m]
    <3>1. deleted' = [deleted EXCEPT ![n] = deleted[n] \ (NewTags(c) \ note[n].tags)]
      BY <2>1 DEF Record
    <3> HIDE DEF n
    <3> QED
      BY <1>2, <3>1 DEF IInv, TypeOK
  <2>11. hidden' \in [Note -> SUBSET Person]
    <3>1. \/ hidden' = hidden
          \/ hidden' = [hidden EXCEPT ![n] = hidden[n] \ (txn[c].people \ want)]
      BY <2>1 DEF Record
    <3> HIDE DEF n, want
    <3> QED
      BY <1>2, <3>1 DEF IInv, TypeOK
  <2>12. \A m \in Written : note'[m].tags \cap deleted'[m] = {}
    <3> SUFFICES ASSUME NEW m \in Written PROVE note'[m].tags \cap deleted'[m] = {}
      OBVIOUS
    <3>1. note[m].tags \cap deleted[m] = {} /\ m \in Note
      BY Rows
    <3>2. CASE m = n
      BY <3>1, <3>2, <2>6, <2>8, <2>10
    <3>3. CASE m # n
      BY <3>1, <3>3, <2>8, <2>10
    <3> QED
      BY <3>2, <3>3
  <2>13. txn' \in [Client -> Request \cup {None}] /\ \A d \in Client : txn'[d] = txn[d] \/ txn'[d] = None
    BY <2>1 DEF Finish, IInv, TypeOK
  <2>14. UNCHANGED person /\ {n} \in SUBSET Written
    BY <1>2, <2>1
  <2>15. \A m \in {n} : /\ note'[m] \in Row /\ note'[m].revision = note[m].revision + 1
                        /\ Cardinality(note'[m].tags) <= MaxTags /\ note'[m].people = asked'[m]
    BY <2>3, <2>5, <2>6, <2>8, <2>9
  <2> HIDE DEF n, want
  <2> QED
    BY <2>8, <2>9, <2>10, <2>11, <2>12, <2>13, <2>14, <2>15, WriteInv
<1> QED
  BY <1>3, <1>4

\* A note is archived, brought back, deleted or restored.
LEMMA FlaggedRow ==
  ASSUME NEW r \in Row, r.revision <= MaxRevision, NEW flag \in BOOLEAN, NEW y,
         y = [Changed(r) EXCEPT !.archived = flag] \/ y = [Changed(r) EXCEPT !.trashed = flag]
  PROVE  y \in Row /\ y.revision = r.revision + 1 /\ y.people = r.people /\ y.tags = r.tags
<1>1. PICK q \in Row : q = Changed(r) /\ q.revision = r.revision + 1
                      /\ q.people = r.people /\ q.tags = r.tags
  BY ChangedRow
<1>2. CASE y = [q EXCEPT !.archived = flag]
  <2>1. y \in Row /\ y.revision = q.revision /\ y.people = q.people /\ y.tags = q.tags
    BY <1>2 DEF Row
  <2> QED
    BY <1>1, <2>1
<1>3. CASE y = [q EXCEPT !.trashed = flag]
  <2>1. y \in Row /\ y.revision = q.revision /\ y.people = q.people /\ y.tags = q.tags
    BY <1>3 DEF Row
  <2> QED
    BY <1>1, <2>1
<1> QED
  BY <1>1, <1>2, <1>3

\* The invariant, where notes change but for their participants and tags.
LEMMA FlagInv ==
  ASSUME IInv, NEW S \in SUBSET Written,
         \A d \in Client : txn'[d] = txn[d] \/ txn'[d] = None,
         txn' \in [Client -> Request \cup {None}],
         note' \in [Note -> Row \cup {None}],
         \A n \in Note \ S : note'[n] = note[n],
         \A n \in S : /\ note'[n] \in Row /\ note'[n].revision = note[n].revision + 1
                      /\ note'[n].tags = note[n].tags /\ note'[n].people = note[n].people,
         UNCHANGED <<person, asked, deleted, hidden>>
  PROVE  IInv'
<1>1. \A n \in S : Cardinality(note'[n].tags) <= MaxTags /\ note'[n].people = asked'[n]
  BY Rows
<1>2. \A n \in Written : note'[n].tags \cap deleted'[n] = {}
  BY Rows
<1>3. /\ asked' \in [Note -> SUBSET Person] /\ deleted' \in [Note -> SUBSET Tag]
      /\ hidden' \in [Note -> SUBSET Person] /\ \A n \in Note \ S : asked'[n] = asked[n]
  BY DEF IInv, TypeOK
<1> QED
  BY <1>1, <1>2, <1>3, WriteInv

\* One note is flagged.
LEMMA OneFlagInv ==
  ASSUME IInv, NEW n \in Written, NEW y, NEW flag \in BOOLEAN, CanChange(n),
         y = [Changed(note[n]) EXCEPT !.archived = flag]
           \/ y = [Changed(note[n]) EXCEPT !.trashed = flag],
         note' = [note EXCEPT ![n] = y],
         \A d \in Client : txn'[d] = txn[d] \/ txn'[d] = None,
         txn' \in [Client -> Request \cup {None}],
         UNCHANGED <<person, asked, deleted, hidden>>
  PROVE  IInv'
<1>1. note[n] \in Row /\ note[n].revision <= MaxRevision /\ n \in Note
  BY Rows DEF CanChange
<1>2. y \in Row /\ y.revision = note[n].revision + 1
      /\ y.people = note[n].people /\ y.tags = note[n].tags
  BY <1>1, FlaggedRow
<1>3. note' \in [Note -> Row \cup {None}] /\ note'[n] = y
      /\ \A m \in Note \ {n} : note'[m] = note[m]
  BY <1>1, <1>2 DEF IInv, TypeOK
<1>4. \A m \in {n} : /\ note'[m] \in Row /\ note'[m].revision = note[m].revision + 1
                     /\ note'[m].tags = note[m].tags /\ note'[m].people = note[m].people
  BY <1>2, <1>3
<1>5. {n} \in SUBSET Written
  OBVIOUS
<1> QED
  BY <1>3, <1>4, <1>5, FlagInv

LEMMA ChangeShownInv ==
  ASSUME IInv, NEW c \in Client, ChangeShown(c)
  PROVE  IInv'
<1> DEFINE n == txn[c].note
<1>1. CASE Refuse(c)
  BY <1>1, RefuseInv
<1>2. CASE ~ Refuse(c)
  <2>1. n \in Live /\ CanChange(n) /\ Finish(c) /\ UNCHANGED <<person, asked, deleted, hidden>>
    BY <1>2 DEF ChangeShown
  <2>2. n \in Written /\ note[n] \in Row
    BY <2>1, Rows DEF Live
  <2>3. \/ note' = [note EXCEPT ![n] = [Changed(note[n]) EXCEPT !.archived = ~ note[n].archived]]
        \/ note' = [note EXCEPT ![n] = [Changed(note[n]) EXCEPT !.trashed = TRUE]]
    BY <1>2 DEF ChangeShown
  <2>4. (~ note[n].archived) \in BOOLEAN
    BY <2>2 DEF Row
  <2>5. txn' \in [Client -> Request \cup {None}]
        /\ \A d \in Client : txn'[d] = txn[d] \/ txn'[d] = None
    BY <2>1 DEF Finish, IInv, TypeOK
  <2> HIDE DEF n
  <2> QED
    BY <2>1, <2>2, <2>3, <2>4, <2>5, OneFlagInv
<1> QED
  BY <1>1, <1>2

LEMMA RestoreNoteInv ==
  ASSUME IInv, NEW n \in Note, RestoreNote(n)
  PROVE  IInv'
<1>1. n \in Written /\ CanChange(n) /\ UNCHANGED <<person, asked, deleted, hidden>>
  BY DEF RestoreNote
<1>2. note' = [note EXCEPT ![n] = [Changed(note[n]) EXCEPT !.trashed = FALSE]]
  BY DEF RestoreNote
<1>3. txn' \in [Client -> Request \cup {None}]
      /\ \A d \in Client : txn'[d] = txn[d] \/ txn'[d] = None
  BY DEF RestoreNote, IInv, TypeOK
<1> QED
  BY <1>1, <1>2, <1>3, OneFlagInv

LEMMA BulkArchiveInv ==
  ASSUME IInv, NEW S \in SUBSET Note, BulkArchive(S)
  PROVE  IInv'
<1> DEFINE changed == {n \in S : ~ note[n].archived}
           new(n) == [Changed(note[n]) EXCEPT !.archived = TRUE]
<1>1. changed \in SUBSET Written /\ \A n \in changed : CanChange(n)
  BY DEF BulkArchive, Live
<1>2. UNCHANGED <<person, asked, deleted, hidden>> /\ UNCHANGED txn
  BY DEF BulkArchive
<1>3. note' = [n \in Note |-> IF n \in changed THEN new(n) ELSE note[n]]
  BY DEF BulkArchive
<1>4. \A n \in changed : /\ new(n) \in Row /\ new(n).revision = note[n].revision + 1
                         /\ new(n).tags = note[n].tags /\ new(n).people = note[n].people
  <2> SUFFICES ASSUME NEW n \in changed
               PROVE  /\ new(n) \in Row /\ new(n).revision = note[n].revision + 1
                      /\ new(n).tags = note[n].tags /\ new(n).people = note[n].people
    OBVIOUS
  <2>1. note[n] \in Row /\ note[n].revision <= MaxRevision
    BY <1>1, Rows DEF CanChange
  <2> QED
    BY <2>1, FlaggedRow
<1> HIDE DEF changed, new
<1>5. /\ note' \in [Note -> Row \cup {None}]
      /\ \A n \in Note \ changed : note'[n] = note[n]
      /\ \A n \in changed : note'[n] = new(n)
  BY <1>1, <1>3, <1>4, Rows DEF IInv, TypeOK
<1>6. txn' \in [Client -> Request \cup {None}]
      /\ \A d \in Client : txn'[d] = txn[d] \/ txn'[d] = None
  BY <1>2 DEF IInv, TypeOK
<1>7. \A n \in changed : /\ note'[n] \in Row /\ note'[n].revision = note[n].revision + 1
                         /\ note'[n].tags = note[n].tags /\ note'[n].people = note[n].people
  BY <1>4, <1>5
<1> QED
  BY <1>1, <1>2, <1>5, <1>6, <1>7, FlagInv

LEMMA BulkTagInv ==
  ASSUME IInv, NEW S \in SUBSET Note, NEW tag \in Tag, BulkTag(S, tag)
  PROVE  IInv'
<1> DEFINE changed == Untagged(S, tag)
           new(n) == [Changed(note[n]) EXCEPT !.tags = Changed(note[n]).tags \cup {tag}]
<1>1. /\ changed \in SUBSET Written
      /\ \A n \in changed : /\ CanChange(n) /\ tag \notin note[n].tags
                           /\ Cardinality(note[n].tags) < MaxTags
  BY DEF BulkTag, Untagged, TagsFit, Live
<1>2. UNCHANGED <<person, asked, hidden>> /\ UNCHANGED txn
  BY DEF BulkTag
<1>3. \A n \in changed : /\ new(n) \in Row /\ new(n).revision = note[n].revision + 1
                         /\ new(n).people = note[n].people
                         /\ new(n).tags = note[n].tags \cup {tag}
                         /\ Cardinality(note[n].tags \cup {tag}) <= MaxTags
  <2> SUFFICES ASSUME NEW n \in changed
               PROVE  /\ new(n) \in Row /\ new(n).revision = note[n].revision + 1
                      /\ new(n).people = note[n].people
                      /\ new(n).tags = note[n].tags \cup {tag}
                      /\ Cardinality(note[n].tags \cup {tag}) <= MaxTags
    OBVIOUS
  <2>1. note[n] \in Row /\ note[n].revision <= MaxRevision /\ note[n].tags \subseteq Tag
    BY <1>1, Rows DEF CanChange
  <2>2. PICK q \in Row : q = Changed(note[n]) /\ q.revision = note[n].revision + 1
                        /\ q.people = note[n].people /\ q.tags = note[n].tags
    BY <2>1, ChangedRow
  <2>3. PICK tags \in SUBSET Tag : tags = note[n].tags \cup {tag}
    BY <2>1
  <2>4. /\ [q EXCEPT !.tags = tags] \in Row /\ [q EXCEPT !.tags = tags].revision = q.revision
        /\ [q EXCEPT !.tags = tags].people = q.people /\ [q EXCEPT !.tags = tags].tags = tags
    BY DEF Row
  <2>5. IsFiniteSet(note[n].tags)
    BY <2>1, TagAssumption, FS_Subset
  <2>6. Cardinality(note[n].tags \cup {tag}) = Cardinality(note[n].tags) + 1
        /\ Cardinality(note[n].tags) \in Nat
    BY <1>1, <2>5, FS_AddElement, FS_CardinalityType
  <2>7. Cardinality(note[n].tags \cup {tag}) <= MaxTags
    BY <1>1, <2>6, BoundAssumption
  <2> QED
    BY <2>2, <2>3, <2>4, <2>7
<1>4. note' = [n \in Note |-> IF n \in changed THEN new(n) ELSE note[n]]
  BY DEF BulkTag
<1>5. deleted' = [n \in Note |-> IF n \in changed THEN deleted[n] \ {tag} ELSE deleted[n]]
  BY DEF BulkTag
<1> HIDE DEF changed, new
<1>6. /\ note' \in [Note -> Row \cup {None}]
      /\ \A n \in Note \ changed : note'[n] = note[n]
      /\ \A n \in changed : note'[n] = new(n)
  BY <1>1, <1>3, <1>4, Rows DEF IInv, TypeOK
<1>7. /\ deleted' \in [Note -> SUBSET Tag]
      /\ \A n \in Note \ changed : deleted'[n] = deleted[n]
      /\ \A n \in changed : deleted'[n] = deleted[n] \ {tag}
  BY <1>1, <1>5, Rows DEF IInv, TypeOK
<1>8. \A n \in changed : /\ note'[n] \in Row /\ note'[n].revision = note[n].revision + 1
                         /\ Cardinality(note'[n].tags) <= MaxTags
                         /\ note'[n].people = asked'[n]
  BY <1>1, <1>2, <1>3, <1>6, Rows
<1>9. \A n \in Written : note'[n].tags \cap deleted'[n] = {}
  <2> SUFFICES ASSUME NEW n \in Written PROVE note'[n].tags \cap deleted'[n] = {}
    OBVIOUS
  <2>1. note[n].tags \cap deleted[n] = {} /\ n \in Note
    BY Rows
  <2> QED
    BY <1>3, <1>6, <1>7, <2>1
<1>10. /\ asked' \in [Note -> SUBSET Person] /\ hidden' \in [Note -> SUBSET Person]
       /\ txn' \in [Client -> Request \cup {None}]
       /\ \A d \in Client : txn'[d] = txn[d] \/ txn'[d] = None
       /\ \A n \in Note \ changed : asked'[n] = asked[n]
  BY <1>2 DEF IInv, TypeOK
<1> QED
  BY <1>1, <1>2, <1>6, <1>7, <1>8, <1>9, <1>10, WriteInv

\* Deleting tags leaves fewer, and a merge leaves no more: a note that gets the target had one of
\* the tags merged into it.
LEMMA MergedTags ==
  ASSUME NEW old \in SUBSET Tag, Cardinality(old) <= MaxTags, NEW tags \in SUBSET Tag,
         old \cap tags # {}, NEW target, target = {} \/ \E t \in Tag : target = {t}
  PROVE  /\ (old \ tags) \cup target \in SUBSET Tag
         /\ Cardinality((old \ tags) \cup target) <= MaxTags
<1>1. PICK gone \in old : gone \in tags
  OBVIOUS
<1>2. IsFiniteSet(old) /\ IsFiniteSet(old \ {gone}) /\ Cardinality(old) \in Nat
  BY TagAssumption, FS_Subset, FS_CardinalityType
<1>3. Cardinality(old \ {gone}) = Cardinality(old) - 1
  BY <1>1, <1>2, FS_RemoveElement
<1>4. Cardinality(old \ tags) <= Cardinality(old) - 1 /\ Cardinality(old \ tags) \in Nat
      /\ IsFiniteSet(old \ tags)
  <2>1. old \ tags \subseteq old \ {gone}
    BY <1>1
  <2> QED
    BY <1>2, <1>3, <2>1, FS_Subset, FS_CardinalityType
<1>5. CASE target = {}
  BY <1>2, <1>4, <1>5, BoundAssumption
<1>6. CASE \E t \in Tag : target = {t}
  <2>1. PICK t \in Tag : target = {t}
    BY <1>6
  <2>2. Cardinality((old \ tags) \cup {t}) <= Cardinality(old \ tags) + 1
        /\ Cardinality((old \ tags) \cup {t}) \in Nat
    <3> DEFINE rest == old \ tags
    <3>1. IsFiniteSet(rest) /\ Cardinality(rest) \in Nat
      BY <1>4
    <3> HIDE DEF rest
    <3>2. Cardinality(rest \cup {t})
            = IF t \in rest THEN Cardinality(rest) ELSE Cardinality(rest) + 1
      BY <3>1, FS_AddElement, Zenon
    <3>3. Cardinality(rest \cup {t}) <= Cardinality(rest) + 1 /\ Cardinality(rest \cup {t}) \in Nat
      BY <3>1, <3>2
    <3> QED
      BY <3>3 DEF rest
  <2> QED
    BY <1>2, <1>4, <2>1, <2>2, BoundAssumption
<1> QED
  BY <1>5, <1>6

LEMMA ManageTagsInv ==
  ASSUME IInv, NEW tags \in SUBSET Tag, NEW target, target = {} \/ \E t \in Tag : target = {t},
         ManageTags(tags, target)
  PROVE  IInv'
<1> DEFINE result(n) == (note[n].tags \ tags) \cup target
           changed == {n \in Tagged(tags) : result(n) # note[n].tags}
           new(n) == [Changed(note[n]) EXCEPT !.tags = result(n)]
<1>1. /\ changed \in SUBSET Written
      /\ \A n \in changed : CanChange(n) /\ note[n].tags \cap tags # {}
      /\ \A n \in Written \ changed : note[n].tags \cap (tags \ target) = {}
  <2>1. /\ changed \in SUBSET Written
        /\ \A n \in changed : CanChange(n) /\ note[n].tags \cap tags # {}
    BY DEF ManageTags, Tagged
  <2>2. ASSUME NEW n \in Written \ changed PROVE note[n].tags \cap (tags \ target) = {}
    <3>1. CASE n \in Tagged(tags)
      <4>1. (note[n].tags \ tags) \cup target = note[n].tags
        BY <3>1, <2>2
      <4> QED
        BY <4>1
    <3>2. CASE n \notin Tagged(tags)
      BY <3>2 DEF Tagged
    <3> QED
      BY <3>1, <3>2
  <2> QED
    BY <2>1, <2>2
<1>2. UNCHANGED <<person, asked, hidden>> /\ UNCHANGED txn
  BY DEF ManageTags
<1>3. \A n \in changed : /\ new(n) \in Row /\ new(n).revision = note[n].revision + 1
                         /\ new(n).people = note[n].people
                         /\ new(n).tags = (note[n].tags \ tags) \cup target
                         /\ Cardinality((note[n].tags \ tags) \cup target) <= MaxTags
  <2> SUFFICES ASSUME NEW n \in changed
               PROVE  /\ new(n) \in Row /\ new(n).revision = note[n].revision + 1
                      /\ new(n).people = note[n].people
                      /\ new(n).tags = (note[n].tags \ tags) \cup target
                      /\ Cardinality((note[n].tags \ tags) \cup target) <= MaxTags
    OBVIOUS
  <2>1. /\ note[n] \in Row /\ note[n].revision <= MaxRevision /\ note[n].tags \in SUBSET Tag
        /\ Cardinality(note[n].tags) <= MaxTags /\ note[n].tags \cap tags # {}
    BY <1>1, Rows DEF CanChange
  <2>2. PICK q \in Row : q = Changed(note[n]) /\ q.revision = note[n].revision + 1
                        /\ q.people = note[n].people
    BY <2>1, ChangedRow
  <2>3. /\ (note[n].tags \ tags) \cup target \in SUBSET Tag
        /\ Cardinality((note[n].tags \ tags) \cup target) <= MaxTags
    BY <2>1, MergedTags
  <2>4. PICK kept \in SUBSET Tag : kept = (note[n].tags \ tags) \cup target
    BY <2>3
  <2>5. /\ [q EXCEPT !.tags = kept] \in Row /\ [q EXCEPT !.tags = kept].revision = q.revision
        /\ [q EXCEPT !.tags = kept].people = q.people /\ [q EXCEPT !.tags = kept].tags = kept
    BY DEF Row
  <2> QED
    BY <2>2, <2>3, <2>4, <2>5
<1>4. note' = [n \in Note |-> IF n \in changed THEN new(n) ELSE note[n]]
  BY DEF ManageTags
<1>5. deleted' = [n \in Note |->
        (deleted[n] \cup (tags \ target)) \ (IF n \in changed THEN target ELSE {})]
  BY DEF ManageTags
<1> HIDE DEF changed, new, result
<1>6. /\ note' \in [Note -> Row \cup {None}]
      /\ \A n \in Note \ changed : note'[n] = note[n]
      /\ \A n \in changed : note'[n] = new(n)
  BY <1>1, <1>3, <1>4, Rows DEF IInv, TypeOK
<1>7. /\ deleted' \in [Note -> SUBSET Tag]
      /\ \A n \in Note \ changed : deleted'[n] = deleted[n] \cup (tags \ target)
      /\ \A n \in changed : deleted'[n] = (deleted[n] \cup (tags \ target)) \ target
  BY <1>1, <1>5, Rows DEF IInv, TypeOK
<1>8. \A n \in changed : /\ note'[n] \in Row /\ note'[n].revision = note[n].revision + 1
                         /\ Cardinality(note'[n].tags) <= MaxTags
                         /\ note'[n].people = asked'[n]
  BY <1>1, <1>2, <1>3, <1>6, Rows
<1>9. \A n \in Written : note'[n].tags \cap deleted'[n] = {}
  <2> SUFFICES ASSUME NEW n \in Written PROVE note'[n].tags \cap deleted'[n] = {}
    OBVIOUS
  <2>1. note[n].tags \cap deleted[n] = {} /\ n \in Note
    BY Rows
  <2>2. CASE n \in changed
    BY <1>3, <1>6, <1>7, <2>1, <2>2
  <2>3. CASE n \notin changed
    BY <1>1, <1>6, <1>7, <2>1, <2>3
  <2> QED
    BY <2>2, <2>3
<1>10. /\ asked' \in [Note -> SUBSET Person] /\ hidden' \in [Note -> SUBSET Person]
       /\ txn' \in [Client -> Request \cup {None}]
       /\ \A d \in Client : txn'[d] = txn[d] \/ txn'[d] = None
       /\ \A n \in Note \ changed : asked'[n] = asked[n]
  BY <1>2 DEF IInv, TypeOK
<1> QED
  BY <1>1, <1>2, <1>6, <1>7, <1>8, <1>9, <1>10, WriteInv

LEMMA CreateNoteInv ==
  ASSUME IInv, NEW n \in Note, NEW tags \in Tags, NEW people \in SUBSET Person,
         CreateNote(n, tags, people)
  PROVE  IInv'
<1> DEFINE y == [revision |-> 1, tags |-> tags, archived |-> FALSE, trashed |-> FALSE,
                 people |-> people]
<1>1. y \in Row
  BY BoundAssumption DEF Row, Tags
<1>2. y.tags = tags /\ y.people = people /\ Cardinality(tags) <= MaxTags
  BY DEF Tags
<1>3. /\ n \notin Written /\ note' = [note EXCEPT ![n] = y] /\ asked' = [asked EXCEPT ![n] = people]
      /\ deleted' = [deleted EXCEPT ![n] = deleted[n] \ tags] /\ UNCHANGED <<person, txn, hidden>>
  BY DEF CreateNote, Written
<1> HIDE DEF y
<1>4. /\ note' \in [Note -> Row \cup {None}] /\ note'[n] = y
      /\ \A m \in Note \ {n} : note'[m] = note[m]
  BY <1>1, <1>3 DEF IInv, TypeOK
<1>5. Written' = Written \cup {n}
  BY <1>1, <1>4, NoneAssumption DEF Written
<1>6. /\ asked' \in [Note -> SUBSET Person] /\ asked'[n] = people
      /\ \A m \in Note \ {n} : asked'[m] = asked[m]
  BY <1>3 DEF IInv, TypeOK
<1>7. /\ deleted' \in [Note -> SUBSET Tag] /\ deleted'[n] = deleted[n] \ tags
      /\ \A m \in Note \ {n} : deleted'[m] = deleted[m]
  BY <1>3 DEF IInv, TypeOK
<1>8. \A m \in Written : m # n /\ m \in Note
  BY <1>3, Rows
<1>9. TypeOK'
  <2>1. \A m \in Written' : Cardinality(note'[m].tags) <= MaxTags
    BY <1>2, <1>4, <1>5, <1>8, Rows
  <2> QED
    BY <1>3, <1>4, <1>6, <1>7, <2>1 DEF IInv, TypeOK
<1>10. PagesFit'
  <2>1. \A m \in Written :
          /\ m \in Written' /\ note'[m].revision \in Nat
          /\ (note'[m].people = note[m].people /\ note'[m].revision = note[m].revision)
               \/ note'[m].revision > note[m].revision
    BY <1>4, <1>5, <1>8, Rows
  <2> QED
    BY <1>3, <2>1, PagesStillFit
<1>11. ParticipantsAsAsked'
  BY <1>2, <1>4, <1>5, <1>6, <1>8, Rows DEF ParticipantsAsAsked
<1>12. DeletedTagsStayAway'
  BY <1>2, <1>4, <1>5, <1>7, <1>8, Rows DEF DeletedTagsStayAway
<1> QED
  BY <1>9, <1>10, <1>11, <1>12 DEF IInv

LEMMA PeopleInv ==
  ASSUME IInv, NEW p \in Person, RemovePerson(p) \/ RestorePerson(p)
  PROVE  IInv'
<1>1. UNCHANGED <<note, txn, asked, deleted>>
  BY DEF RemovePerson, RestorePerson
<1>2. person' \subseteq Person /\ hidden' \in [Note -> SUBSET Person]
  BY DEF RemovePerson, RestorePerson, IInv, TypeOK
<1>3. Written' = Written
  BY <1>1 DEF Written
<1>4. TypeOK'
  BY <1>1, <1>2, <1>3 DEF IInv, TypeOK
<1> QED
  BY <1>1, <1>3, <1>4 DEF IInv, PagesFit, PageFits, ParticipantsAsAsked, DeletedTagsStayAway

LEMMA NextInv ==
  ASSUME IInv, [Next]_vars
  PROVE  IInv'
<1>1. CASE UNCHANGED vars
  <2>1. UNCHANGED <<note, person, txn, asked, deleted, hidden>>
    BY <1>1 DEF vars
  <2>2. Written' = Written
    BY <2>1 DEF Written
  <2> QED
    BY <2>1, <2>2
       DEF IInv, TypeOK, PagesFit, PageFits, ParticipantsAsAsked, DeletedTagsStayAway
<1>2. ASSUME NEW c \in Client, Edit(c) PROVE IInv'
  <2>1. CASE \E n \in Edited : OpenPage(c, n)
    BY <2>1, BoundAssumption, OpenPageInv
  <2>2. CASE \E tags \in Tags \cup {None}, people \in (SUBSET Person) \cup {None} :
               CheckPatch(c, tags, people)
    BY <2>2, CheckPatchInv
  <2>3. CASE ClosePage(c)
    BY <2>3, RefuseInv DEF ClosePage
  <2>4. CASE WritePatch(c)
    BY <2>4, WritePatchInv
  <2>5. CASE ChangeShown(c)
    BY <2>5, ChangeShownInv
  <2> QED
    BY <1>2, <2>1, <2>2, <2>3, <2>4, <2>5 DEF Edit
<1>3. ASSUME NEW n \in Note, RestoreNote(n) PROVE IInv'
  BY <1>3, RestoreNoteInv
<1>4. ASSUME NEW n \in Note, NEW tags \in Tags, NEW people \in SUBSET Person,
             CreateNote(n, tags, people)
      PROVE  IInv'
  BY <1>4, CreateNoteInv
<1>5. CASE Bulk
  <2>1. ASSUME NEW S \in SUBSET Note, BulkArchive(S) PROVE IInv'
    BY <2>1, BulkArchiveInv
  <2>2. ASSUME NEW S \in SUBSET Note, NEW tag \in Tag, BulkTag(S, tag) PROVE IInv'
    BY <2>2, BulkTagInv
  <2>3. ASSUME NEW tags \in SUBSET Tag, NEW target \in {{}} \cup {{t} : t \in Tag},
               ManageTags(tags, target)
        PROVE  IInv'
    <3>1. target = {} \/ \E t \in Tag : target = {t}
      OBVIOUS
    <3> QED
      BY <2>3, <3>1, ManageTagsInv
  <2> QED
    BY <1>5, <2>1, <2>2, <2>3 DEF Bulk
<1>6. ASSUME NEW p \in Person, RemovePerson(p) \/ RestorePerson(p) PROVE IInv'
  BY <1>6, PeopleInv
<1> QED
  BY <1>1, <1>2, <1>3, <1>4, <1>5, <1>6 DEF Next

LEMMA InvariantHolds == Spec => []IInv
<1> QED
  BY InitInv, NextInv, PTL DEF Spec

\* Rows, pages and requests keep their shape: no note has more tags than allowed, whichever way
\* tags came to it (setNoteFields, bulk tagging, a merge of tags).
THEOREM NotesTyped == Spec => []TypeOK
<1>1. IInv => TypeOK
  BY DEF IInv
<1> QED
  BY <1>1, InvariantHolds, PTL

\* However requests interleave, a note's participants are those the last successful request asked
\* for, although setParticipants writes a difference to what it read without a lock.
THEOREM ParticipantsStayAsAsked == Spec => []ParticipantsAsAsked
<1>1. IInv => ParticipantsAsAsked
  BY DEF IInv
<1> QED
  BY <1>1, InvariantHolds, PTL

\* A deleted tag stays deleted on every note: manageTags takes it from the notes in the trash too,
\* and a page from before the deletion is refused by its revision.
THEOREM DeletedTagsStay == Spec => []DeletedTagsStayAway
<1>1. IInv => DeletedTagsStayAway
  BY DEF IInv
<1> QED
  BY <1>1, InvariantHolds, PTL
=============================================================================
