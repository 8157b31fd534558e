--------------------------- MODULE AccountsProofs ---------------------------
(***************************************************************************)
(* What accounts promise for any number of addresses, requests, sessions   *)
(* and password slots.                                                     *)
(*                                                                         *)
(* Each promise rests on a lock.  An administrator goes only while the     *)
(* workspace row is held by the request that counted the others            *)
(* (CountStands); a failure is recorded only under lock 7233, by the login *)
(* that found its buckets open (LoginStands); and a credential is replaced  *)
(* in the step that ends the sessions made with the old one (EndedIsOver). *)
(***************************************************************************)
EXTENDS Accounts, TLAPS, FiniteSetTheorems, SequenceTheorems

Asks(c, op) == txn[c] # None /\ txn[c].op = op

\* A lock has one holder: the login that verifies, the patch that has counted.
LocksAreHeld ==
  /\ loginLock \in Client \cup {None} /\ adminLock \in Client \cup {None}
  /\ \A c \in Client : Asks(c, "login") <=> loginLock = c
  /\ \A c \in Client : Asks(c, "patchUser") /\ txn[c].at = "locked" <=> adminLock = c

\* The buckets of a login under way have room for its failure; it lets in only a user.
LoginStands ==
  \A c \in Client : Asks(c, "login") =>
    /\ failures[txn[c].user] < MaxFailures /\ failures[Address] < MaxFailures
    /\ txn[c].usable => txn[c].user \in Known

\* Whatever a patch that holds the workspace makes of its user, an administrator is left.  Users
\* are added by somebody.
CountStands ==
  \A c \in Client :
    /\ Asks(c, "patchUser") =>
         /\ txn[c].user \in Known
         /\ txn[c].at = "locked" =>
              \/ txn[c].role = "admin" /\ txn[c].active
              \/ \E v \in Admins : v # txn[c].user
    /\ Asks(c, "createUser") => Known # {}

\* A session that had to end is revoked, and stays so.
EndedIsOver == \A s \in DOMAIN session : session[s].proof = "ended" => session[s].revoked

IInv ==
  /\ TypeOK /\ LocksAreHeld /\ LoginStands /\ CountStands /\ EndedIsOver
  /\ AdminRemains /\ GuessesBounded

LEMMA InitInv == Init => IInv
<1> SUFFICES ASSUME Init PROVE IInv
  OBVIOUS
<1> USE DEF Init
<1>1. TypeOK
  <2>1. session \in Seq(Session) /\ Len(session) = 0 /\ DOMAIN session = {}
    OBVIOUS
  <2>2. Known = {} /\ user \in [Known -> UserRow]
    BY DEF Known
  <2>3. failures \in [Bucket -> Nat] /\ txn \in [Client -> Request \cup {None}]
    OBVIOUS
  <2>4. recovered \in BOOLEAN /\ loginLock = None /\ adminLock = None
    OBVIOUS
  <2>5. Len(session) <= MaxSessions /\ \A s \in DOMAIN session : session[s].user \in Known
    BY <2>1, BoundAssumption
  <2> HIDE DEF Init
  <2> QED
    BY <2>1, <2>2, <2>3, <2>4, <2>5 DEF TypeOK
<1>2. LocksAreHeld
  BY NullAssumption DEF LocksAreHeld, Asks
<1>3. LoginStands /\ CountStands /\ EndedIsOver
  BY DEF LoginStands, CountStands, EndedIsOver, Asks
<1>4. AdminRemains /\ GuessesBounded
  BY BoundAssumption DEF AdminRemains, GuessesBounded, Known
<1> QED
  BY <1>1, <1>2, <1>3, <1>4 DEF IInv

\* A set that is no larger than one leaves nobody but one member.
LEMMA AtMostOne ==
  ASSUME NEW S, NEW u \in S, ~ Cardinality(S) <= 1
  PROVE  \E v \in S : v # u
<1> SUFFICES ASSUME S = {u} PROVE FALSE
  OBVIOUS
<1>1. Cardinality({u}) = 1
  BY FS_Singleton
<1> QED
  BY <1>1

\* A request begins: it is no login, and nothing else changes.
LEMMA OpenStep ==
  ASSUME IInv, NEW c \in Client, NEW r \in Request, Open(c, r), r.op # "login",
         r.op = "patchUser" => r.at = "asked" /\ r.user \in Known,
         r.op = "createUser" => Known # {},
         UNCHANGED <<Tables, loginLock, adminLock>>
  PROVE  IInv'
<1> USE DEF IInv
<1>1. UNCHANGED <<user, session, failures, recovered, loginLock, adminLock>>
  BY DEF Tables
<1>2. /\ txn[c] = None /\ txn'[c] = r /\ r # None
      /\ \A d \in Client : d # c => txn'[d] = txn[d]
      /\ txn' \in [Client -> Request \cup {None}]
  BY RequestAssumption DEF Open, TypeOK
<1>3. TypeOK'
  <2>1. loginLock # c /\ adminLock # c
    BY <1>2 DEF LocksAreHeld, Asks
  <2> QED
    BY <1>1, <1>2, <2>1 DEF TypeOK, Known, LocksAreHeld
<1>4. LocksAreHeld'
  BY <1>1, <1>2 DEF LocksAreHeld, Asks
<1>5. LoginStands'
  BY <1>1, <1>2 DEF LoginStands, Asks, Known
<1>6. CountStands'
  BY <1>1, <1>2 DEF CountStands, Asks, Known, Admins
<1>7. EndedIsOver' /\ AdminRemains' /\ GuessesBounded'
  BY <1>1 DEF EndedIsOver, AdminRemains, GuessesBounded, Admins, Known
<1> QED
  BY <1>3, <1>4, <1>5, <1>6, <1>7

\* A request leaves: its locks go with it.
LEMMA FinishedTxn ==
  ASSUME IInv, NEW c \in Client, Finish(c)
  PROVE  /\ txn'[c] = None
         /\ \A d \in Client : d # c => txn'[d] = txn[d]
         /\ txn' \in [Client -> Request \cup {None}]
         /\ LocksAreHeld'
         /\ loginLock' # None => loginLock' = loginLock /\ loginLock # c
         /\ adminLock' # None => adminLock' = adminLock /\ adminLock # c
<1> USE DEF IInv
<1>1. /\ txn'[c] = None
      /\ \A d \in Client : d # c => txn'[d] = txn[d]
      /\ txn' \in [Client -> Request \cup {None}]
  BY DEF Finish, TypeOK
<1>2. /\ loginLock' = IF loginLock = c THEN None ELSE loginLock
      /\ adminLock' = IF adminLock = c THEN None ELSE adminLock
  BY DEF Finish, Release
<1> QED
  BY <1>1, <1>2, NullAssumption DEF LocksAreHeld, Asks

LEMMA RefuseStep ==
  ASSUME IInv, NEW c \in Client, Refuse(c)
  PROVE  IInv'
<1> USE DEF IInv
<1>1. UNCHANGED <<user, session, failures, recovered>>
  BY DEF Refuse, Tables
<1>2. /\ txn'[c] = None
      /\ \A d \in Client : d # c => txn'[d] = txn[d]
      /\ txn' \in [Client -> Request \cup {None}]
      /\ LocksAreHeld'
      /\ loginLock' # None => loginLock' = loginLock /\ loginLock # c
      /\ adminLock' # None => adminLock' = adminLock /\ adminLock # c
  BY FinishedTxn DEF Refuse
<1>3. TypeOK'
  BY <1>1, <1>2 DEF TypeOK, Known, LocksAreHeld
<1>4. LoginStands' /\ CountStands'
  BY <1>1, <1>2 DEF LoginStands, CountStands, Asks, Known, Admins
<1>5. EndedIsOver' /\ AdminRemains' /\ GuessesBounded'
  BY <1>1 DEF EndedIsOver, AdminRemains, GuessesBounded, Admins, Known
<1> QED
  BY <1>2, <1>3, <1>4, <1>5

\* changePassword goes on: it holds nothing.
LEMMA AdvanceStep ==
  ASSUME IInv, NEW c \in Client, NEW at \in {"verified", "hashing"}, Asks(c, "changePassword"),
         txn' = [txn EXCEPT ![c].at = at], UNCHANGED <<Tables, loginLock, adminLock>>
  PROVE  IInv'
<1> USE DEF IInv
<1>1. UNCHANGED <<user, session, failures, recovered, loginLock, adminLock>>
  BY DEF Tables
<1>2. txn[c] \in Request /\ txn \in [Client -> Request \cup {None}]
  BY DEF TypeOK, Asks
<1>3. /\ txn'[c] \in Request /\ txn'[c].op = "changePassword"
      /\ \A d \in Client : d # c => txn'[d] = txn[d]
      /\ txn' \in [Client -> Request \cup {None}]
  BY <1>2 DEF Asks, Request
<1>4. loginLock # c /\ adminLock # c
  BY DEF Asks, LocksAreHeld
<1>5. TypeOK'
  BY <1>1, <1>3, <1>4 DEF TypeOK, Known, LocksAreHeld
<1>6. LocksAreHeld' /\ LoginStands' /\ CountStands'
  BY <1>1, <1>3, <1>4 DEF LocksAreHeld, LoginStands, CountStands, Asks, Known, Admins
<1>7. EndedIsOver' /\ AdminRemains' /\ GuessesBounded'
  BY <1>1 DEF EndedIsOver, AdminRemains, GuessesBounded, Admins, Known
<1> QED
  BY <1>5, <1>6, <1>7

\* patchUser counts under the workspace's lock: what it found holds until it lets go.
LEMMA LockStep ==
  ASSUME IInv, NEW c \in Client, LockWorkspace(c), ~ LastAdmin(c)
  PROVE  IInv'
<1> USE DEF IInv
<1>1. /\ Asks(c, "patchUser") /\ adminLock = None
      /\ txn' = [txn EXCEPT ![c].at = "locked"] /\ adminLock' = c
      /\ UNCHANGED <<user, session, failures, recovered, loginLock>>
  BY DEF LockWorkspace, At, Asks, Tables
<1>2. txn[c] \in Request /\ txn \in [Client -> Request \cup {None}]
  BY <1>1 DEF TypeOK, Asks
<1>3. /\ txn'[c] = [txn[c] EXCEPT !.at = "locked"] /\ txn'[c] \in Request
      /\ \A d \in Client : d # c => txn'[d] = txn[d]
      /\ txn' \in [Client -> Request \cup {None}]
  BY <1>1, <1>2 DEF Request
<1>4. /\ txn'[c].op = "patchUser" /\ txn'[c].at = "locked" /\ txn'[c] # None
      /\ txn'[c].user = txn[c].user /\ txn'[c].role = txn[c].role
      /\ txn'[c].active = txn[c].active
  BY <1>1, <1>2, <1>3, RequestAssumption DEF Request, Asks
<1>5. loginLock # c
  BY <1>1 DEF Asks, LocksAreHeld
<1>6. TypeOK'
  BY <1>1, <1>3, <1>4, <1>5 DEF TypeOK, Known, LocksAreHeld
<1>7. LocksAreHeld' /\ LoginStands'
  BY <1>1, <1>3, <1>4, <1>5, NullAssumption DEF LocksAreHeld, LoginStands, Asks, Known
<1>8. CountStands'
  <2>1. txn[c].user \in Known
    BY <1>1 DEF CountStands
  <2>2. \/ txn[c].role = "admin" /\ txn[c].active
        \/ \E v \in Admins : v # txn[c].user
    <3>1. CASE txn[c].user \notin Admins
      BY <2>1, <3>1 DEF AdminRemains
    <3>2. CASE txn[c].user \in Admins /\ ~ Cardinality(Admins) <= 1
      BY <3>2, AtMostOne
    <3>3. CASE ~ (txn[c].role = "member" \/ ~ txn[c].active)
      BY <1>2, <3>3 DEF Request, Role
    <3> QED
      BY <3>1, <3>2, <3>3 DEF LastAdmin
  <2>3. Admins' = Admins /\ Known' = Known
    BY <1>1 DEF Admins, Known
  <2> QED
    <3>1. \A d \in Client, op \in {"patchUser", "createUser"} :
            Asks(d, op)' /\ d # c => Asks(d, op) /\ txn'[d] = txn[d]
      BY <1>3 DEF Asks
    <3>2. ~ Asks(c, "createUser")'
      BY <1>4 DEF Asks
    <3> QED
      BY <3>2, <1>4, <2>1, <2>2, <2>3, <3>1 DEF CountStands
<1>9. EndedIsOver' /\ AdminRemains' /\ GuessesBounded'
  BY <1>1 DEF EndedIsOver, AdminRemains, GuessesBounded, Admins, Known
<1> QED
  BY <1>6, <1>7, <1>8, <1>9

\* A login begins under lock 7233, with room in both buckets.
LEMMA BeginLoginStep ==
  ASSUME IInv, NEW c \in Client, NEW u \in User, BeginLogin(c, u)
  PROVE  IInv'
<1> USE DEF IInv
<1> DEFINE r == [Blank EXCEPT !.op = "login", !.at = "verifying", !.user = u, !.usable = Active(u)]
<1>1. /\ loginLock = None /\ loginLock' = c /\ ~ Throttled(u) /\ Open(c, r)
      /\ UNCHANGED <<user, session, failures, recovered, adminLock>>
  BY DEF BeginLogin, Tables
<1>2. r \in Request /\ r.op = "login" /\ r.user = u /\ (r.usable => u \in Known)
  <2>1. Active(u) \in BOOLEAN
    BY DEF Active, TypeOK, UserRow
  <2>2. Blank \in Request
    BY BoundAssumption DEF Request, Blank, Role
  <2>3. r \in Request /\ r.op = "login" /\ r.user = u /\ r.usable = Active(u)
    BY <2>1, <2>2 DEF Request
  <2> QED
    BY <2>3 DEF Active
<1> HIDE DEF r
<1>3. /\ txn[c] = None /\ txn'[c] = r /\ r # None
      /\ \A d \in Client : d # c => txn'[d] = txn[d]
      /\ txn' \in [Client -> Request \cup {None}]
  BY <1>1, <1>2, RequestAssumption DEF Open, TypeOK
<1>4. adminLock # c
  BY <1>3 DEF LocksAreHeld, Asks
<1>5. failures[u] < MaxFailures /\ failures[Address] < MaxFailures
  BY <1>1, BoundAssumption DEF Throttled, TypeOK, Bucket
<1>6. TypeOK'
  BY <1>1, <1>2, <1>3, <1>4 DEF TypeOK, Known, LocksAreHeld
<1>7. LocksAreHeld' /\ LoginStands' /\ CountStands'
  BY <1>1, <1>2, <1>3, <1>4, <1>5, NullAssumption
  DEF LocksAreHeld, LoginStands, CountStands, Asks, Known, Admins
<1>8. EndedIsOver' /\ AdminRemains' /\ GuessesBounded'
  BY <1>1 DEF EndedIsOver, AdminRemains, GuessesBounded, Admins, Known
<1> QED
  BY <1>6, <1>7, <1>8

\* A new session is neither revoked nor over.
LEMMA NewSessionRows ==
  ASSUME IInv, NEW u \in User, u \in Known', NEW outdated \in BOOLEAN, NewSession(u, outdated),
         Known \subseteq Known'
  PROVE  /\ session' \in Seq(Session) /\ Len(session') <= MaxSessions
         /\ \A s \in DOMAIN session' : session'[s].user \in Known'
         /\ EndedIsOver'
<1> USE DEF IInv
<1> DEFINE row == [user |-> u, revoked |-> FALSE, proof |-> IF outdated THEN "late" ELSE "current"]
<1>1. session' = Append(session, row) /\ Len(session) < MaxSessions
  BY DEF NewSession
<1>2. row \in Session /\ row.proof # "ended" /\ row.user = u
  BY DEF Session
<1>3. session \in Seq(Session) /\ \A s \in DOMAIN session : session[s].user \in Known
  BY DEF TypeOK
<1> HIDE DEF row
<1>4. /\ session' \in Seq(Session) /\ Len(session') = Len(session) + 1
      /\ \A s \in DOMAIN session' :
           IF s = Len(session) + 1 THEN session'[s] = row
           ELSE s \in DOMAIN session /\ session'[s] = session[s]
  BY <1>1, <1>2, <1>3
<1>5. Len(session') <= MaxSessions
  BY <1>1, <1>3, <1>4, BoundAssumption
<1> QED
  BY <1>2, <1>3, <1>4, <1>5 DEF EndedIsOver

\* A login ends, with a session or with a failure in both its buckets.
LEMMA EndLoginStep ==
  ASSUME IInv, NEW c \in Client, EndLogin(c)
  PROVE  IInv'
<1> USE DEF IInv
<1> DEFINE u == txn[c].user
<1>1. Asks(c, "login") /\ loginLock = c /\ Finish(c) /\ UNCHANGED <<user, recovered>>
  BY DEF EndLogin, At, Asks, LocksAreHeld
<1>2. txn[c] \in Request /\ u \in User /\ txn[c].outdated \in BOOLEAN
  BY <1>1 DEF TypeOK, Asks, Request
<1>3. /\ txn'[c] = None
      /\ \A d \in Client : d # c => txn'[d] = txn[d]
      /\ txn' \in [Client -> Request \cup {None}]
      /\ LocksAreHeld'
      /\ loginLock' # None => loginLock' = loginLock /\ loginLock # c
      /\ adminLock' # None => adminLock' = adminLock /\ adminLock # c
  BY <1>1, FinishedTxn
<1>4. LoginStands' /\ CountStands' /\ AdminRemains'
  <2>1. \A d \in Client : Asks(d, "login")' => FALSE
    BY <1>1, <1>3 DEF LocksAreHeld, Asks
  <2>2. Admins' = Admins /\ Known' = Known
    BY <1>1 DEF Admins, Known
  <2> QED
    BY <1>3, <2>1, <2>2 DEF LoginStands, CountStands, AdminRemains, Asks
<1> HIDE DEF u
<1>5. CASE txn[c].usable /\ NewSession(u, txn[c].outdated) /\ UNCHANGED failures
  <2>1. u \in Known'
    BY <1>1, <1>5 DEF LoginStands, Known, u
  <2>2. /\ session' \in Seq(Session) /\ Len(session') <= MaxSessions
        /\ \A s \in DOMAIN session' : session'[s].user \in Known'
        /\ EndedIsOver'
    BY <1>1, <1>2, <1>5, <2>1, NewSessionRows DEF Known
  <2>3. TypeOK'
    BY <1>1, <1>3, <1>5, <2>2 DEF TypeOK, Known, LocksAreHeld
  <2>4. GuessesBounded'
    BY <1>5 DEF GuessesBounded
  <2> QED
    BY <1>3, <1>4, <2>2, <2>3, <2>4
<1>6. CASE /\ failures' = [failures EXCEPT ![u] = @ + 1, ![Address] = @ + 1]
           /\ UNCHANGED session
  <2>1. failures[u] < MaxFailures /\ failures[Address] < MaxFailures /\ u # Address
    BY <1>1, <1>2, NullAssumption DEF LoginStands, u
  <2>2. failures' \in [Bucket -> Nat] /\ GuessesBounded'
    <3>1. u \in Bucket /\ Address \in Bucket /\ failures \in [Bucket -> Nat]
      BY <1>2 DEF TypeOK, Bucket
    <3>2. /\ failures' \in [Bucket -> Nat]
          /\ failures'[u] = failures[u] + 1 /\ failures'[Address] = failures[Address] + 1
          /\ \A b \in Bucket \ {u, Address} : failures'[b] = failures[b]
      BY <1>6, <2>1, <3>1
    <3> QED
      BY <2>1, <3>1, <3>2, BoundAssumption DEF GuessesBounded
  <2>3. TypeOK'
    BY <1>1, <1>3, <1>6, <2>2 DEF TypeOK, Known, LocksAreHeld
  <2> QED
    BY <1>3, <1>4, <1>6, <2>2, <2>3 DEF EndedIsOver
<1> QED
  BY <1>1, <1>5, <1>6 DEF EndLogin, u

\* A recovery records its attempt while no login is under way.
LEMMA BeginRecoverStep ==
  ASSUME IInv, NEW c \in Client, NEW u \in User, BeginRecover(c, u)
  PROVE  IInv'
<1> USE DEF IInv
<1>1. /\ loginLock = None /\ failures[Address] < MaxFailures /\ txn[c] = None
      /\ failures' = [failures EXCEPT ![Address] = @ + 1]
      /\ UNCHANGED <<user, session, recovered, loginLock, adminLock>>
  BY DEF BeginRecover, Open
<1>2. /\ \A d \in Client : txn'[d] # None => txn'[d] = txn[d] \/ txn'[d].op = "recover"
      /\ \A d \in Client : txn[d] # None => txn'[d] = txn[d]
      /\ txn' \in [Client -> Request \cup {None}]
  <2>1. CASE Open(c, [Blank EXCEPT !.op = "recover", !.at = "hashing", !.user = u])
    <3> DEFINE r == [Blank EXCEPT !.op = "recover", !.at = "hashing", !.user = u]
    <3>1. Blank \in Request
      BY BoundAssumption DEF Request, Blank, Role
    <3>2. r \in Request /\ r.op = "recover"
      BY <3>1 DEF Request
    <3>3. txn' = [txn EXCEPT ![c] = r]
      BY <2>1 DEF Open
    <3> HIDE DEF r
    <3> QED
      BY <1>1, <3>2, <3>3 DEF TypeOK
  <2>2. CASE UNCHANGED txn
    BY <2>2 DEF TypeOK
  <2> QED
    BY <2>1, <2>2 DEF BeginRecover
<1>3. \A d \in Client, op \in {"login", "patchUser", "createUser"} : Asks(d, op)' <=> Asks(d, op)
  BY <1>2 DEF Asks
<1>4. failures' \in [Bucket -> Nat] /\ GuessesBounded'
  <2>1. Address \in Bucket /\ failures \in [Bucket -> Nat]
    BY DEF TypeOK, Bucket
  <2> QED
    BY <1>1, <2>1, BoundAssumption DEF GuessesBounded
<1>5. Known' = Known /\ Admins' = Admins
  BY <1>1 DEF Known, Admins
<1>6. TypeOK'
  BY <1>1, <1>2, <1>4, <1>5 DEF TypeOK, LocksAreHeld
<1>7. LocksAreHeld' /\ LoginStands' /\ CountStands'
  <2>1. \A d \in Client : ~ Asks(d, "login")
    BY <1>1, NullAssumption DEF LocksAreHeld
  <2>2. \A d \in Client : Asks(d, "patchUser") => txn'[d] = txn[d]
    BY <1>2 DEF Asks
  <2> QED
    BY <1>1, <1>3, <1>5, <2>1, <2>2 DEF LocksAreHeld, LoginStands, CountStands
<1>8. EndedIsOver' /\ AdminRemains'
  BY <1>1, <1>5 DEF EndedIsOver, AdminRemains
<1> QED
  BY <1>4, <1>6, <1>7, <1>8

\* What ending the sessions of a user leaves: nothing of them that had to end is usable, the
\* request and its locks are gone, and the other requests go on.
LEMMA EndedSessions ==
  ASSUME IInv, NEW c \in Client, NEW u, NEW keep, EndSessions(c, u, keep)
  PROVE  /\ session' \in Seq(Session) /\ Len(session') = Len(session)
         /\ \A s \in DOMAIN session' : s \in DOMAIN session /\ session'[s].user = session[s].user
         /\ EndedIsOver'
         /\ txn' \in [Client -> Request \cup {None}] /\ txn'[c] = None
         /\ \A d \in Client : d # c =>
              /\ txn'[d] = None <=> txn[d] = None
              /\ txn[d] # None =>
                   /\ txn'[d].op = txn[d].op /\ txn'[d].at = txn[d].at
                   /\ txn'[d].user = txn[d].user /\ txn'[d].usable = txn[d].usable
                   /\ txn'[d].role = txn[d].role /\ txn'[d].active = txn[d].active
         /\ LocksAreHeld'
         /\ loginLock' # None => loginLock' = loginLock /\ loginLock # c
         /\ adminLock' # None => adminLock' = adminLock /\ adminLock # c
<1> USE DEF IInv
<1>1. session \in Seq(Session) /\ txn \in [Client -> Request \cup {None}]
  BY DEF TypeOK
<1> DEFINE over(s) ==
      LET row == [session[s] EXCEPT !.revoked = @ \/ s \in Revoked(u, keep)] IN
      IF row.user # u THEN row
      ELSE [row EXCEPT !.proof = IF s = keep THEN "current" ELSE "ended"]
<1>2. \A s \in DOMAIN session :
        /\ session[s] \in Session
        /\ session[s].proof = "ended" => session[s].revoked
  BY <1>1 DEF EndedIsOver
<1>3. \A s \in DOMAIN session :
        /\ over(s) \in Session /\ over(s).user = session[s].user
        /\ over(s).proof = "ended" => over(s).revoked
  <2> SUFFICES ASSUME NEW s \in DOMAIN session
               PROVE  /\ over(s) \in Session /\ over(s).user = session[s].user
                      /\ over(s).proof = "ended" => over(s).revoked
    OBVIOUS
  <2> DEFINE revoke == s \in Revoked(u, keep)
             row == [session[s] EXCEPT !.revoked = @ \/ revoke]
  <2>1. /\ session[s] \in Session /\ revoke \in BOOLEAN
        /\ session[s].proof = "ended" => session[s].revoked
        /\ session[s].user = u /\ s # keep => revoke
    BY <1>2 DEF Revoked
  <2> HIDE DEF revoke
  <2>2. /\ row \in Session /\ row.user = session[s].user /\ row.proof = session[s].proof
        /\ session[s].revoked \/ revoke => row.revoked
    BY <2>1 DEF Session
  <2>3. over(s) = IF row.user # u THEN row
                  ELSE [row EXCEPT !.proof = IF s = keep THEN "current" ELSE "ended"]
    BY DEF revoke
  <2> HIDE DEF row
  <2>4. CASE session[s].user # u
    BY <2>1, <2>2, <2>3, <2>4
  <2>5. CASE session[s].user = u
    <3>1. over(s) = [row EXCEPT !.proof = IF s = keep THEN "current" ELSE "ended"]
      BY <2>2, <2>3, <2>5
    <3> HIDE DEF over
    <3>2. /\ over(s) \in Session /\ over(s).user = row.user /\ over(s).revoked = row.revoked
          /\ over(s).proof = IF s = keep THEN "current" ELSE "ended"
      BY <2>2, <3>1 DEF Session
    <3> QED
      BY <2>1, <2>2, <2>5, <3>2
  <2> QED
    BY <2>4, <2>5
<1>4. session' = [s \in DOMAIN session |-> over(s)]
  BY DEF EndSessions
<1> HIDE DEF over
<1>5. session' \in Seq(Session) /\ Len(session') = Len(session)
  <2>1. session \in [1 .. Len(session) -> Session] /\ Len(session) \in Nat
    BY <1>1, SeqDef
  <2>2. session' \in [1 .. Len(session) -> Session]
    BY <1>3, <1>4, <2>1
  <2> QED
    BY <2>1, <2>2, SeqDef
<1>6. \A d \in Client : d # c =>
        /\ txn'[d] \in Request \cup {None}
        /\ txn'[d] = None <=> txn[d] = None
        /\ txn[d] # None =>
             /\ txn'[d].op = txn[d].op /\ txn'[d].at = txn[d].at
             /\ txn'[d].user = txn[d].user /\ txn'[d].usable = txn[d].usable
             /\ txn'[d].role = txn[d].role /\ txn'[d].active = txn[d].active
  <2> SUFFICES ASSUME NEW d \in Client, d # c
               PROVE  /\ txn'[d] \in Request \cup {None}
                      /\ txn'[d] = None <=> txn[d] = None
                      /\ txn[d] # None =>
                           /\ txn'[d].op = txn[d].op /\ txn'[d].at = txn[d].at
                           /\ txn'[d].user = txn[d].user /\ txn'[d].usable = txn[d].usable
                           /\ txn'[d].role = txn[d].role /\ txn'[d].active = txn[d].active
    OBVIOUS
  <2>1. CASE txn'[d] = txn[d]
    BY <1>1, <2>1
  <2>2. CASE txn[d] # None /\ txn'[d] = [txn[d] EXCEPT !.outdated = TRUE]
    <3>1. PICK r \in Request : r = txn[d]
      BY <1>1, <2>2
    <3>2. txn'[d] = [r EXCEPT !.outdated = TRUE]
      BY <2>2, <3>1
    <3>3. /\ txn'[d] \in Request /\ txn'[d].op = r.op /\ txn'[d].at = r.at
          /\ txn'[d].user = r.user /\ txn'[d].usable = r.usable
          /\ txn'[d].role = r.role /\ txn'[d].active = r.active
      BY <3>2 DEF Request
    <3> QED
      BY <3>1, <3>3, RequestAssumption
  <2> QED
    BY <2>1, <2>2 DEF EndSessions
<1>7. txn' \in [Client -> Request \cup {None}] /\ txn'[c] = None
  <2>1. DOMAIN txn' = Client /\ txn' = [d \in Client |-> txn'[d]] /\ txn'[c] = None
    BY DEF EndSessions
  <2> QED
    BY <1>6, <2>1
<1>8. /\ loginLock' = IF loginLock = c THEN None ELSE loginLock
      /\ adminLock' = IF adminLock = c THEN None ELSE adminLock
  BY DEF EndSessions, Release
<1>9. LocksAreHeld'
  BY <1>6, <1>7, <1>8, NullAssumption DEF LocksAreHeld, Asks
<1>10. EndedIsOver' /\ \A s \in DOMAIN session' : s \in DOMAIN session /\ session'[s].user = session[s].user
  BY <1>3, <1>4 DEF EndedIsOver
<1> QED
  BY <1>5, <1>6, <1>7, <1>8, <1>9, <1>10

\* A request that replaces a credential and ends the sessions made with the old one: EndRecover,
\* ChangePassword and a deactivation.  Who is an administrator is left to prove.
LEMMA EndSessionsStep ==
  ASSUME IInv, NEW c \in Client, NEW u, NEW keep, EndSessions(c, u, keep), UNCHANGED failures,
         user' \in [Known -> UserRow], recovered' \in BOOLEAN,
         AdminRemains', CountStands'
  PROVE  IInv'
<1> USE DEF IInv
<1>1. /\ session' \in Seq(Session) /\ Len(session') = Len(session)
      /\ \A s \in DOMAIN session' : s \in DOMAIN session /\ session'[s].user = session[s].user
      /\ EndedIsOver'
      /\ txn' \in [Client -> Request \cup {None}] /\ txn'[c] = None
      /\ \A d \in Client : d # c =>
           /\ txn'[d] = None <=> txn[d] = None
           /\ txn[d] # None =>
                /\ txn'[d].op = txn[d].op /\ txn'[d].user = txn[d].user
                /\ txn'[d].usable = txn[d].usable
      /\ LocksAreHeld'
      /\ loginLock' # None => loginLock' = loginLock /\ loginLock # c
      /\ adminLock' # None => adminLock' = adminLock /\ adminLock # c
  BY EndedSessions
<1>2. Known' = Known
  BY DEF Known
<1>3. TypeOK'
  BY <1>1, <1>2 DEF TypeOK, LocksAreHeld
<1>4. LoginStands'
  BY <1>1, <1>2 DEF LoginStands, Asks
<1>5. GuessesBounded'
  BY DEF GuessesBounded
<1> QED
  BY <1>1, <1>3, <1>4, <1>5

\* A change of passwords alone leaves the administrators as they are.
LEMMA SameAdmins ==
  ASSUME IInv, NEW c \in Client, NEW u, NEW keep, EndSessions(c, u, keep),
         user' \in [Known -> UserRow],
         \A v \in Known : user'[v].role = user[v].role /\ user'[v].active = user[v].active
  PROVE  AdminRemains' /\ CountStands'
<1> USE DEF IInv
<1>1. Known' = Known
  BY DEF Known
<1>2. Admins' = Admins
  BY <1>1 DEF Admins
<1>3. \A d \in Client : Asks(d, "patchUser")' =>
        /\ Asks(d, "patchUser")
        /\ txn'[d].user = txn[d].user /\ txn'[d].at = txn[d].at
        /\ txn'[d].role = txn[d].role /\ txn'[d].active = txn[d].active
  BY EndedSessions DEF Asks
<1>4. \A d \in Client : Asks(d, "createUser")' => Asks(d, "createUser")
  BY EndedSessions DEF Asks
<1> QED
  BY <1>1, <1>2, <1>3, <1>4 DEF AdminRemains, CountStands

LEMMA EndRecoverStep ==
  ASSUME IInv, NEW c \in Client, EndRecover(c)
  PROVE  IInv'
<1> DEFINE u == txn[c].user
<1>1. CASE Refuse(c)
  BY <1>1, RefuseStep
<1>2. CASE ~ Refuse(c)
  <2>1. /\ u \in Admins /\ user[u].revision <= MaxRevision /\ recovered' = TRUE
        /\ user' = [user EXCEPT ![u].revision = @ + 1]
        /\ EndSessions(c, u, 0) /\ UNCHANGED failures
    BY <1>2 DEF EndRecover
  <2>2. user \in [Known -> UserRow] /\ u \in Known /\ user[u] \in UserRow
    BY <2>1 DEF IInv, TypeOK, Admins
  <2> HIDE DEF u
  <2>3. /\ user' \in [Known -> UserRow]
        /\ \A v \in Known : user'[v].role = user[v].role /\ user'[v].active = user[v].active
    BY <2>1, <2>2, BoundAssumption DEF UserRow
  <2>4. AdminRemains' /\ CountStands'
    BY <2>1, <2>3, SameAdmins
  <2> QED
    BY <2>1, <2>3, <2>4, EndSessionsStep
<1> QED
  BY <1>1, <1>2

LEMMA ChangePasswordStep ==
  ASSUME IInv, NEW c \in Client, ChangePassword(c)
  PROVE  IInv'
<1> DEFINE u == txn[c].user
           own == txn[c].session
           next == txn[c].revision + 1
<1>1. /\ txn[c] # None /\ txn[c].revision <= MaxRevision
      /\ user' = [user EXCEPT ![u].revision = next]
      /\ EndSessions(c, u, own) /\ UNCHANGED <<failures, recovered>>
  BY DEF ChangePassword, At
<1>2. next \in 1 .. MaxRevision + 1
  BY <1>1, BoundAssumption DEF IInv, TypeOK, Request
<1>3. user \in [Known -> UserRow] /\ recovered' \in BOOLEAN
  BY <1>1 DEF IInv, TypeOK
<1> HIDE DEF u, own, next
<1>4. /\ user' \in [Known -> UserRow]
      /\ \A v \in Known : user'[v].role = user[v].role /\ user'[v].active = user[v].active
  BY <1>1, <1>2, <1>3 DEF UserRow
<1>5. AdminRemains' /\ CountStands'
  BY <1>1, <1>4, SameAdmins
<1> QED
  BY <1>1, <1>3, <1>4, <1>5, EndSessionsStep

\* patchUser writes what it counted for: the lock kept the others out meanwhile.
LEMMA PatchStep ==
  ASSUME IInv, NEW c \in Client, PatchUser(c)
  PROVE  IInv'
<1> DEFINE u == txn[c].user
           row == [role |-> txn[c].role, active |-> txn[c].active, revision |-> user[u].revision + 1]
<1>1. CASE Refuse(c)
  BY <1>1, RefuseStep
<1>2. CASE ~ Refuse(c)
  <2> USE DEF IInv
  <2>1. /\ Asks(c, "patchUser") /\ txn[c].at = "locked" /\ adminLock = c
        /\ user[u].revision <= MaxRevision
        /\ user' = [user EXCEPT ![u] = [role |-> txn[c].role, active |-> txn[c].active,
                                         revision |-> @.revision + 1]]
        /\ UNCHANGED <<failures, recovered>>
        /\ \/ txn[c].active /\ Finish(c) /\ UNCHANGED session
           \/ EndSessions(c, u, 0)
    BY <1>2 DEF PatchUser, At, Asks, LocksAreHeld
  <2>2. /\ txn[c] \in Request /\ u \in Known
        /\ user \in [Known -> UserRow] /\ user[u] \in UserRow /\ recovered \in BOOLEAN
        /\ (row.role = "admin" /\ row.active) \/ \E v \in Admins : v # u
    BY <2>1 DEF TypeOK, Asks, CountStands
  <2>3. user' = [user EXCEPT ![u] = row] /\ row \in UserRow
    BY <2>1, <2>2, BoundAssumption DEF UserRow, Request
  <2> HIDE DEF row
  <2>4. /\ user' \in [Known -> UserRow] /\ user'[u] = row
        /\ \A v \in Known : v # u => user'[v] = user[v]
    BY <2>2, <2>3
  <2>5. Known' = Known
    BY <2>4 DEF Known
  <2> HIDE DEF u
  <2>6. AdminRemains'
    BY <2>2, <2>4, <2>5 DEF AdminRemains, Admins
  <2>7. \A d \in Client : Asks(d, "patchUser")' =>
          Asks(d, "patchUser") /\ txn'[d].user = txn[d].user /\ txn'[d].at # "locked"
    <3>1. \A d \in Client : d # c /\ Asks(d, "patchUser") => txn[d].at # "locked"
      BY <2>1 DEF LocksAreHeld
    <3>2. CASE Finish(c)
      BY <3>1, <3>2, FinishedTxn DEF Asks
    <3>3. CASE EndSessions(c, u, 0)
      BY <3>1, <3>3, EndedSessions DEF Asks
    <3> QED
      BY <2>1, <3>2, <3>3
  <2>8. CountStands'
    BY <2>2, <2>5, <2>7 DEF CountStands
  <2>9. CASE EndSessions(c, u, 0)
    BY <2>1, <2>2, <2>4, <2>6, <2>8, <2>9, EndSessionsStep
  <2>10. CASE Finish(c) /\ UNCHANGED session
    <3>1. /\ txn'[c] = None
          /\ \A d \in Client : d # c => txn'[d] = txn[d]
          /\ txn' \in [Client -> Request \cup {None}]
          /\ LocksAreHeld'
          /\ loginLock' # None => loginLock' = loginLock /\ loginLock # c
          /\ adminLock' # None => adminLock' = adminLock /\ adminLock # c
      BY <2>10, FinishedTxn
    <3>2. TypeOK'
      BY <2>1, <2>4, <2>5, <2>10, <3>1 DEF TypeOK, LocksAreHeld
    <3>3. LoginStands' /\ EndedIsOver' /\ GuessesBounded'
      BY <2>1, <2>5, <2>10, <3>1 DEF LoginStands, EndedIsOver, GuessesBounded, Asks
    <3> QED
      BY <2>6, <2>8, <3>1, <3>2, <3>3
  <2> QED
    BY <2>1, <2>9, <2>10
<1> QED
  BY <1>1, <1>2

\* A user more: nobody stops being an administrator.
LEMMA NewUserRows ==
  ASSUME IInv, NEW u \in User \ Known, NEW role \in Role, user' = NewUser(u, role)
  PROVE  /\ Known' = Known \cup {u} /\ Known' \subseteq User /\ user' \in [Known' -> UserRow]
         /\ Admins \subseteq Admins' /\ (role = "admin" => u \in Admins')
<1> DEFINE row == [role |-> role, active |-> TRUE, revision |-> 1]
<1>1. user' = [v \in Known \cup {u} |-> IF v = u THEN row ELSE user[v]]
  BY DEF NewUser
<1>2. row \in UserRow /\ row.role = role /\ row.active
  BY BoundAssumption DEF UserRow
<1>3. Known \subseteq User /\ user \in [Known -> UserRow]
  BY DEF IInv, TypeOK
<1> HIDE DEF row
<1>4. Known' = Known \cup {u}
  BY <1>1 DEF Known
<1>5. user'[u] = row /\ \A v \in Known : user'[v] = user[v]
  BY <1>1
<1> QED
  BY <1>1, <1>2, <1>3, <1>4, <1>5 DEF Admins

\* createUser: the new address may be an administrator, and nothing else changes.
LEMMA EndCreateUserStep ==
  ASSUME IInv, NEW c \in Client, EndCreateUser(c)
  PROVE  IInv'
<1> USE DEF IInv
<1>1. CASE Refuse(c)
  BY <1>1, RefuseStep
<1>2. CASE ~ Refuse(c)
  <2>1. /\ Asks(c, "createUser") /\ txn[c].user \notin Known
        /\ user' = NewUser(txn[c].user, txn[c].role) /\ Finish(c)
        /\ UNCHANGED <<session, failures, recovered>>
    BY <1>2 DEF EndCreateUser, At, Asks
  <2>2. txn[c].user \in User \ Known /\ txn[c].role \in Role
    BY <2>1 DEF TypeOK, Request, Asks
  <2>3. /\ Known \subseteq Known' /\ Known' \subseteq User /\ user' \in [Known' -> UserRow]
        /\ Admins \subseteq Admins'
    BY <2>1, <2>2, NewUserRows
  <2>4. AdminRemains' /\ Known # {}
    BY <2>1, <2>3 DEF AdminRemains, CountStands
  <2>5. /\ txn'[c] = None
        /\ \A d \in Client : d # c => txn'[d] = txn[d]
        /\ txn' \in [Client -> Request \cup {None}]
        /\ LocksAreHeld'
        /\ loginLock' # None => loginLock' = loginLock /\ loginLock # c
        /\ adminLock' # None => adminLock' = adminLock /\ adminLock # c
    BY <2>1, FinishedTxn
  <2>6. TypeOK'
    BY <2>1, <2>3, <2>5 DEF TypeOK, LocksAreHeld
  <2>7. LoginStands' /\ CountStands'
    BY <2>1, <2>3, <2>4, <2>5 DEF LoginStands, CountStands, Asks
  <2>8. EndedIsOver' /\ GuessesBounded'
    BY <2>1 DEF EndedIsOver, GuessesBounded
  <2> QED
    BY <2>4, <2>5, <2>6, <2>7, <2>8
<1> QED
  BY <1>1, <1>2

\* setup: the first user, an administrator with a session, while there is nobody else.
LEMMA EndSetupStep ==
  ASSUME IInv, NEW c \in Client, EndSetup(c)
  PROVE  IInv'
<1> USE DEF IInv
<1>1. CASE Refuse(c)
  BY <1>1, RefuseStep
<1>2. CASE ~ Refuse(c)
  <2>1. /\ Asks(c, "setup") /\ Known = {}
        /\ user' = NewUser(txn[c].user, "admin") /\ NewSession(txn[c].user, FALSE) /\ Finish(c)
        /\ UNCHANGED <<failures, recovered>>
    BY <1>2 DEF EndSetup, At, Asks
  <2>2. txn[c].user \in User \ Known /\ "admin" \in Role
    BY <2>1 DEF TypeOK, Request, Asks, Role
  <2>3. /\ Known \subseteq Known' /\ Known' \subseteq User /\ user' \in [Known' -> UserRow]
        /\ txn[c].user \in Known' /\ txn[c].user \in Admins'
    BY <2>1, <2>2, NewUserRows
  <2>4. /\ session' \in Seq(Session) /\ Len(session') <= MaxSessions
        /\ \A s \in DOMAIN session' : session'[s].user \in Known'
        /\ EndedIsOver'
    BY <2>1, <2>2, <2>3, NewSessionRows
  <2>5. /\ txn'[c] = None
        /\ \A d \in Client : d # c => txn'[d] = txn[d]
        /\ txn' \in [Client -> Request \cup {None}]
        /\ LocksAreHeld'
        /\ loginLock' # None => loginLock' = loginLock /\ loginLock # c
        /\ adminLock' # None => adminLock' = adminLock /\ adminLock # c
    BY <2>1, FinishedTxn
  <2>6. TypeOK'
    BY <2>1, <2>3, <2>4, <2>5 DEF TypeOK, LocksAreHeld
  <2>7. LoginStands' /\ CountStands' /\ AdminRemains'
    BY <2>1, <2>3, <2>5 DEF LoginStands, CountStands, AdminRemains, Asks
  <2>8. GuessesBounded'
    BY <2>1 DEF GuessesBounded
  <2> QED
    BY <2>4, <2>5, <2>6, <2>7, <2>8
<1> QED
  BY <1>1, <1>2

\* logout and its kin only revoke.
LEMMA RevokeSomeStep ==
  ASSUME IInv, NEW c \in Client, NEW s \in DOMAIN session, RevokeSome(c, s)
  PROVE  IInv'
<1> USE DEF IInv
<1>1. PICK S : session' = [t \in DOMAIN session |->
        IF t \in S THEN [session[t] EXCEPT !.revoked = TRUE] ELSE session[t]]
  BY DEF RevokeSome
<1>2. UNCHANGED <<user, failures, recovered, txn, loginLock, adminLock>>
  BY DEF RevokeSome
<1>3. session \in [1 .. Len(session) -> Session] /\ Len(session) \in Nat
  BY SeqDef DEF TypeOK
<1>4. \A t \in DOMAIN session :
        /\ session'[t] \in Session /\ session'[t].user = session[t].user
        /\ session'[t].proof = session[t].proof /\ (session[t].revoked => session'[t].revoked)
  <2> SUFFICES ASSUME NEW t \in DOMAIN session
               PROVE  /\ session'[t] \in Session /\ session'[t].user = session[t].user
                      /\ session'[t].proof = session[t].proof
                      /\ session[t].revoked => session'[t].revoked
    OBVIOUS
  <2>1. PICK row \in Session : row = session[t]
    BY <1>3
  <2>2. session'[t] \in {row, [row EXCEPT !.revoked = TRUE]}
    BY <1>1, <2>1
  <2> QED
    BY <2>1, <2>2 DEF Session
<1>5. session' \in Seq(Session) /\ Len(session') = Len(session) /\ DOMAIN session' = DOMAIN session
  <2>1. session' \in [1 .. Len(session) -> Session]
    BY <1>1, <1>3, <1>4
  <2> QED
    BY <1>3, <2>1, SeqDef
<1>6. Known' = Known /\ Admins' = Admins
  BY <1>2 DEF Known, Admins
<1>7. TypeOK' /\ EndedIsOver'
  BY <1>2, <1>4, <1>5, <1>6 DEF TypeOK, EndedIsOver
<1>8. LocksAreHeld' /\ LoginStands' /\ CountStands' /\ AdminRemains' /\ GuessesBounded'
  BY <1>2, <1>6 DEF LocksAreHeld, LoginStands, CountStands, AdminRemains, GuessesBounded, Asks
<1> QED
  BY <1>7, <1>8

LEMMA WindowPassesStep ==
  ASSUME IInv, WindowPasses
  PROVE  IInv'
<1> USE DEF IInv
<1>1. /\ loginLock = None /\ failures' = [b \in Bucket |-> 0]
      /\ UNCHANGED <<user, session, recovered, txn, loginLock, adminLock>>
  BY DEF WindowPasses
<1>2. Known' = Known /\ Admins' = Admins
  BY <1>1 DEF Known, Admins
<1>3. TypeOK' /\ GuessesBounded'
  BY <1>1, <1>2, BoundAssumption DEF TypeOK, GuessesBounded
<1>4. \A d \in Client : ~ Asks(d, "login")' /\ (Asks(d, "patchUser")' <=> Asks(d, "patchUser"))
                       /\ (Asks(d, "createUser")' <=> Asks(d, "createUser"))
  BY <1>1, NullAssumption DEF LocksAreHeld, Asks
<1>5. LocksAreHeld' /\ LoginStands' /\ CountStands' /\ AdminRemains' /\ EndedIsOver'
  BY <1>1, <1>2, <1>4
  DEF LocksAreHeld, LoginStands, CountStands, AdminRemains, EndedIsOver, Asks
<1> QED
  BY <1>3, <1>5

\* The other requests begin with what the session they carry lets them read.
LEMMA BeginStep ==
  ASSUME IInv, NEW c \in Client, Ask(c)
  PROVE  IInv'
<1> USE DEF IInv
<1>1. Blank \in Request \/ User = {}
  BY BoundAssumption DEF Request, Blank, Role
<1>2. ASSUME NEW u \in User, BeginSetup(c, u) PROVE IInv'
  <2> DEFINE r == [Blank EXCEPT !.op = "setup", !.at = "hashing", !.user = u]
  <2>1. r \in Request /\ r.op = "setup"
    BY <1>1 DEF Request
  <2>2. Open(c, r) /\ UNCHANGED <<Tables, loginLock, adminLock>>
    BY <1>2 DEF BeginSetup
  <2> HIDE DEF r
  <2> QED
    BY <2>1, <2>2, OpenStep
<1>3. ASSUME NEW s \in DOMAIN session, NEW u \in User, NEW role \in Role, BeginCreateUser(c, s, u, role)
      PROVE  IInv'
  <2> DEFINE r == [Blank EXCEPT !.op = "createUser", !.at = "hashing", !.user = u, !.role = role]
  <2>1. r \in Request /\ r.op = "createUser"
    BY <1>1 DEF Request
  <2>2. Open(c, r) /\ UNCHANGED <<Tables, loginLock, adminLock>> /\ Known # {}
    BY <1>3 DEF BeginCreateUser, AsAdmin, Usable, Active
  <2> HIDE DEF r
  <2> QED
    BY <2>1, <2>2, OpenStep
<1>4. ASSUME NEW s \in DOMAIN session, NEW u \in User, NEW role \in Role, NEW active \in BOOLEAN,
             BeginPatchUser(c, s, u, role, active)
      PROVE  IInv'
  <2> DEFINE rev == user[u].revision
             r == [Blank EXCEPT !.op = "patchUser", !.at = "asked", !.user = u, !.role = role,
                                !.active = active, !.revision = rev]
  <2>1. u \in Known /\ Open(c, r) /\ UNCHANGED <<Tables, loginLock, adminLock>>
    BY <1>4 DEF BeginPatchUser
  <2>2. rev \in 0 .. MaxRevision + 1
    BY <2>1, BoundAssumption DEF TypeOK, UserRow
  <2> HIDE DEF rev
  <2>3. r \in Request /\ r.op = "patchUser" /\ r.at = "asked" /\ r.user = u
    BY <1>1, <2>2 DEF Request
  <2> HIDE DEF r
  <2> QED
    BY <2>1, <2>3, OpenStep
<1>5. ASSUME NEW s \in DOMAIN session, BeginChange(c, s) PROVE IInv'
  <2> DEFINE u == session[s].user
             rev == user[u].revision
             r == [Blank EXCEPT !.op = "changePassword", !.at = "verifying", !.session = s,
                                !.user = u, !.revision = rev]
  <2>1. Usable(s) /\ Open(c, r) /\ UNCHANGED <<Tables, loginLock, adminLock>>
    BY <1>5 DEF BeginChange
  <2>2. s \in 0 .. MaxSessions
    BY BoundAssumption DEF TypeOK
  <2>3. u \in Known /\ u \in User
    BY DEF TypeOK
  <2>4. rev \in 0 .. MaxRevision + 1
    BY <2>3, BoundAssumption DEF TypeOK, UserRow
  <2> HIDE DEF rev, u
  <2>5. r \in Request /\ r.op = "changePassword"
    BY <1>1, <2>2, <2>3, <2>4 DEF Request
  <2> HIDE DEF r
  <2> QED
    BY <2>1, <2>5, OpenStep
<1> QED
  BY <1>2, <1>3, <1>4, <1>5, BeginLoginStep, BeginRecoverStep, RevokeSomeStep DEF Ask

LEMMA ProceedStep ==
  ASSUME IInv, NEW c \in Client, Proceed(c)
  PROVE  IInv'
<1>1. CASE Refuse(c)
  BY <1>1, RefuseStep
<1>2. CASE VerifyCurrent(c) /\ ~ Refuse(c)
  BY <1>2, AdvanceStep DEF VerifyCurrent, At, Asks
<1>3. CASE HashNext(c) /\ ~ Refuse(c)
  BY <1>3, AdvanceStep DEF HashNext, At, Asks
<1>4. CASE LockWorkspace(c) /\ ~ Refuse(c)
  BY <1>4, LockStep DEF LockWorkspace
<1> QED
  BY <1>1, <1>2, <1>3, <1>4, EndSetupStep, EndCreateUserStep, PatchStep, EndLoginStep,
     EndRecoverStep, ChangePasswordStep DEF Proceed

LEMMA StutterStep == IInv /\ UNCHANGED vars => IInv'
BY DEF IInv, vars, TypeOK, LocksAreHeld, LoginStands, CountStands, EndedIsOver, AdminRemains,
       GuessesBounded, Asks, Known, Admins

LEMMA NextInv == IInv /\ [Next]_vars => IInv'
BY BeginStep, ProceedStep, WindowPassesStep, StutterStep DEF Next

LEMMA InvariantHolds == Spec => []IInv
BY InitInv, NextInv, PTL DEF Spec

\* Users, sessions, requests and locks keep their types in every interleaving.
THEOREM AccountsTyped == Spec => []TypeOK
<1>1. IInv => TypeOK
  BY DEF IInv
<1> QED
  BY <1>1, InvariantHolds, PTL

\* However many administrators demote and deactivate each other at the same time, one remains
\* (patchUser counts under lockWorkspace, ADMIN-B04).
THEOREM AnAdministratorRemains == Spec => []AdminRemains
<1>1. IInv => AdminRemains
  BY DEF IInv
<1> QED
  BY <1>1, InvariantHolds, PTL

\* However many logins and recoveries run at the same time, a bucket never takes more failures
\* than throttle allows (ADMIN-B20, B22).
THEOREM GuessesStayBounded == Spec => []GuessesBounded
<1>1. IInv => GuessesBounded
  BY DEF IInv
<1> QED
  BY <1>1, InvariantHolds, PTL

\* A session that had to end with a password or an account is never usable again, whatever was in
\* flight when it ended (ACCT-B02, ADMIN-B03).
THEOREM EndedSessionsStayEnded == Spec => []RevocationHolds
<1>1. IInv => RevocationHolds
  BY DEF IInv, EndedIsOver, RevocationHolds, Usable
<1> QED
  BY <1>1, InvariantHolds, PTL
=============================================================================
