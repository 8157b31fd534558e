------------------------------ MODULE Accounts ------------------------------
(***************************************************************************)
(* Users, sessions and passwords of one installation under concurrent      *)
(* requests: src/core/auth, src/core/db/auth-repo.ts, src/modules/users    *)
(* and src/modules/account.                                                *)
(*                                                                         *)
(* Hashing a password takes a moment and one of a few slots; a request     *)
(* waits for it between its reads and its writes, so that wait is a step.  *)
(* What else a request does under a lock it holds, and its commit, are one *)
(* step.  Whether a password or a token is right is the choice of whoever  *)
(* types it.                                                               *)
(***************************************************************************)
EXTENDS Integers, Sequences, FiniteSets

CONSTANTS
  User,         \* email addresses, each of at most one user
  Client,       \* the requests that run at the same time
  None,
  Address,      \* the client address of every request, as a bucket of failures
  MaxFailures,  \* maxFailures of login.ts
  Slots,        \* password hashes that run at the same time: 2 in password.ts
  MaxSessions,  \* bound: sessions ever opened
  MaxRevision   \* bound: revisions of a user

ASSUME NullAssumption == None \notin Client /\ None \notin User /\ Address \notin User
ASSUME BoundAssumption ==
  /\ MaxFailures \in Nat \ {0} /\ Slots \in Nat \ {0}
  /\ MaxSessions \in Nat /\ MaxRevision \in Nat \ {0}

VARIABLES
  user,         \* the users table, a function on the addresses that have one
  session,      \* the sessions table, in the order of insertion
  failures,     \* failed login_attempts of the last fifteen minutes, by bucket
  recovered,    \* the recovery token is used
  txn,          \* what each open request has read
  loginLock,    \* the holder of advisory lock 7233
  adminLock     \* the holder of the workspace row

vars == <<user, session, failures, recovered, txn, loginLock, adminLock>>

Role == {"admin", "member"}
Bucket == User \cup {Address}

UserRow == [role: Role, active: BOOLEAN, revision: 1 .. MaxRevision + 1]

\* History, `proof`: a session was opened with credentials that still stand, with credentials that
\* had been revoked by then ("late"), or was there when its user's sessions had to end.  A login's
\* `outdated` says that they had to end since it read the user.
Session == [user: User, revoked: BOOLEAN, proof: {"current", "late", "ended"}]

Request == [op: {"login", "recover", "changePassword", "patchUser", "createUser", "setup"},
            at: {"asked", "hashing", "verifying", "verified", "locked"},
            user: User, outdated: BOOLEAN, usable: BOOLEAN, revision: 0 .. MaxRevision + 1,
            session: 0 .. MaxSessions, role: Role, active: BOOLEAN]

ASSUME RequestAssumption == None \notin Request

Known == DOMAIN user

TypeOK ==
  /\ Known \subseteq User /\ user \in [Known -> UserRow]
  /\ session \in Seq(Session) /\ Len(session) <= MaxSessions
  /\ \A s \in DOMAIN session : session[s].user \in Known
  /\ failures \in [Bucket -> Nat]
  /\ recovered \in BOOLEAN
  /\ txn \in [Client -> Request \cup {None}]
  /\ loginLock # None => txn[loginLock] # None /\ txn[loginLock].op = "login"
  /\ adminLock # None => txn[adminLock] # None /\ txn[adminLock].op = "patchUser"

Init ==
  /\ user = [u \in {} |-> None]
  /\ session = <<>>
  /\ failures = [b \in Bucket |-> 0]
  /\ recovered = FALSE
  /\ txn = [c \in Client |-> None]
  /\ loginLock = None /\ adminLock = None

-----------------------------------------------------------------------------
\* Not deleted: no operation deletes a user.
Active(u) == u \in Known /\ user[u].active

\* sessionByHash.  Expiry after 30 days is left out.
Usable(s) == ~ session[s].revoked /\ Active(session[s].user)

Admins == {u \in Known : user[u].role = "admin" /\ user[u].active}

\* admitted: a third hash at the same time is refused.
Hashing == {c \in Client : txn[c] # None /\ txn[c].at \in {"hashing", "verifying"}}
SlotFree == Cardinality(Hashing) < Slots

Blank == [op |-> "login", at |-> "asked", user |-> CHOOSE u \in User : TRUE, outdated |-> FALSE,
          usable |-> FALSE, revision |-> 0, session |-> 0, role |-> "member", active |-> TRUE]

At(c, op, at) == txn[c] # None /\ txn[c].op = op /\ txn[c].at = at

Open(c, request) == txn[c] = None /\ txn' = [txn EXCEPT ![c] = request]

\* The request is answered; its transaction commits or rolls back and lets go of its locks.
Release(c) ==
  /\ loginLock' = IF loginLock = c THEN None ELSE loginLock
  /\ adminLock' = IF adminLock = c THEN None ELSE adminLock

Finish(c) == txn' = [txn EXCEPT ![c] = None] /\ Release(c)

Tables == <<user, session, failures, recovered>>

Refuse(c) == Finish(c) /\ UNCHANGED Tables

\* newSession.
NewSession(u, outdated) ==
  /\ Len(session) < MaxSessions
  /\ session' = Append(session, [user |-> u, revoked |-> FALSE,
                                 proof |-> IF outdated THEN "late" ELSE "current"])

\* Mutant of Revoked: the session that asks is the one revoked.
RevokedOne(u, keep) ==
  {s \in DOMAIN session : session[s].user = u /\ s = keep}

\* revokeUserSessions, and revokeOtherSessions with the session to keep.
Revoked(u, keep) ==
  {s \in DOMAIN session : session[s].user = u /\ s # keep}

\* The credentials of u stand no longer, but for the session `keep`: sessions are revoked.
\* History: those that are there have to end, and a login that has read the user is outdated.
EndSessions(c, u, keep) ==
  /\ session' = [s \in DOMAIN session |->
       LET row == [session[s] EXCEPT !.revoked = @ \/ s \in Revoked(u, keep)] IN
       IF row.user # u THEN row
       ELSE [row EXCEPT !.proof = IF s = keep THEN "current" ELSE "ended"]]
  /\ txn' = [d \in Client |->
       IF d = c THEN None
       ELSE IF txn[d] # None /\ txn[d].op = "login" /\ txn[d].user = u
         THEN [txn[d] EXCEPT !.outdated = TRUE]
         ELSE txn[d]]
  /\ Release(c)

-----------------------------------------------------------------------------
(* Setup and users                                                         *)

\* setup hashes before its transaction; createUser is an administrator's.
BeginSetup(c, u) ==
  /\ SlotFree
  /\ Open(c, [Blank EXCEPT !.op = "setup", !.at = "hashing", !.user = u])
  /\ UNCHANGED <<Tables, loginLock, adminLock>>

NewUser(u, role) == [v \in Known \cup {u} |->
  IF v = u THEN [role |-> role, active |-> TRUE, revision |-> 1] ELSE user[v]]

EndSetup(c) ==
  /\ At(c, "setup", "hashing") /\ adminLock = None
  /\ IF Known # {} THEN Refuse(c)
     ELSE /\ user' = NewUser(txn[c].user, "admin")
          /\ NewSession(txn[c].user, FALSE)
          /\ Finish(c)
          /\ UNCHANGED <<failures, recovered>>

AsAdmin(s) == Usable(s) /\ user[session[s].user].role = "admin"

BeginCreateUser(c, s, u, role) ==
  /\ AsAdmin(s) /\ SlotFree
  /\ Open(c, [Blank EXCEPT !.op = "createUser", !.at = "hashing", !.user = u, !.role = role])
  /\ UNCHANGED <<Tables, loginLock, adminLock>>

\* A second user of one address is refused by the unique index.
EndCreateUser(c) ==
  /\ At(c, "createUser", "hashing")
  /\ IF txn[c].user \in Known THEN Refuse(c)
     ELSE /\ user' = NewUser(txn[c].user, txn[c].role)
          /\ Finish(c)
          /\ UNCHANGED <<session, failures, recovered>>

\* The revision is the one the administrator's page shows.
BeginPatchUser(c, s, u, role, active) ==
  /\ AsAdmin(s) /\ u \in Known
  /\ Open(c, [Blank EXCEPT !.op = "patchUser", !.at = "asked", !.user = u, !.role = role,
                           !.active = active, !.revision = user[u].revision])
  /\ UNCHANGED <<Tables, loginLock, adminLock>>

\* The rule of the last administrator, as patchUser asks it.
LastAdmin(c) ==
  /\ txn[c].user \in Admins
  /\ txn[c].role = "member" \/ ~ txn[c].active
  /\ Cardinality(Admins) <= 1

\* Mutant of LockWorkspace: the row is read without FOR UPDATE.
ReadWorkspace(c) ==
  /\ At(c, "patchUser", "asked")
  /\ IF LastAdmin(c) THEN Refuse(c)
     ELSE txn' = [txn EXCEPT ![c].at = "locked"] /\ UNCHANGED <<Tables, loginLock, adminLock>>

\* lockWorkspace, then the rule.
LockWorkspace(c) ==
  /\ At(c, "patchUser", "asked") /\ adminLock = None
  /\ IF LastAdmin(c) THEN Refuse(c)
     ELSE /\ txn' = [txn EXCEPT ![c].at = "locked"]
          /\ adminLock' = c
          /\ UNCHANGED <<Tables, loginLock>>

\* updateUser compares the revision; a deactivation revokes.
PatchUser(c) ==
  LET u == txn[c].user IN
  /\ At(c, "patchUser", "locked")
  /\ IF user[u].revision # txn[c].revision THEN Refuse(c)
     ELSE /\ user[u].revision <= MaxRevision
          /\ user' = [user EXCEPT ![u] = [role |-> txn[c].role, active |-> txn[c].active,
                                          revision |-> @.revision + 1]]
          /\ IF txn[c].active THEN Finish(c) /\ UNCHANGED session
             ELSE EndSessions(c, u, 0)
          /\ UNCHANGED <<failures, recovered>>

-----------------------------------------------------------------------------
(* Login and recovery                                                      *)

\* Mutant of Throttled: both buckets have to be full.
ThrottledTogether(u) == failures[u] >= MaxFailures /\ failures[Address] >= MaxFailures

\* throttle: the bucket of the address typed, and the client's.
Throttled(u) == failures[u] >= MaxFailures \/ failures[Address] >= MaxFailures

\* lockLogin, the throttle, the user; then one verification under the lock, of a placeholder when
\* there is nobody to let in.
BeginLogin(c, u) ==
  /\ loginLock = None /\ Known # {} /\ ~ Throttled(u) /\ SlotFree
  /\ Open(c, [Blank EXCEPT !.op = "login", !.at = "verifying", !.user = u,
                           !.usable = Active(u)])
  /\ loginLock' = c
  /\ UNCHANGED <<Tables, adminLock>>

\* The attempt is recorded; a valid one opens a session.
EndLogin(c) ==
  LET u == txn[c].user IN
  /\ At(c, "login", "verifying")
  /\ \/ /\ txn[c].usable
        /\ NewSession(u, txn[c].outdated)
        /\ UNCHANGED failures
     \/ /\ failures' = [failures EXCEPT ![u] = @ + 1, ![Address] = @ + 1]
        /\ UNCHANGED session
  /\ Finish(c)
  /\ UNCHANGED <<user, recovered>>

\* recover, its first transaction: throttled and recorded under lock 7233.  The wrong token ends
\* here, and so does the right one without a slot.
BeginRecover(c, u) ==
  /\ loginLock = None /\ failures[Address] < MaxFailures
  /\ failures' = [failures EXCEPT ![Address] = @ + 1]
  /\ \/ /\ SlotFree
        /\ Open(c, [Blank EXCEPT !.op = "recover", !.at = "hashing", !.user = u])
     \/ txn[c] = None /\ UNCHANGED txn
  /\ UNCHANGED <<user, session, recovered, loginLock, adminLock>>

\* Its second transaction, under the workspace's lock.
EndRecover(c) ==
  LET u == txn[c].user IN
  /\ At(c, "recover", "hashing") /\ adminLock = None
  /\ IF recovered \/ u \notin Admins THEN Refuse(c)
     ELSE /\ user[u].revision <= MaxRevision
          /\ recovered' = TRUE
          /\ user' = [user EXCEPT ![u].revision = @ + 1]
          /\ EndSessions(c, u, 0)
          /\ UNCHANGED failures

\* Fifteen minutes without an attempt.
WindowPasses ==
  /\ loginLock = None /\ \E b \in Bucket : failures[b] > 0
  /\ failures' = [b \in Bucket |-> 0]
  /\ UNCHANGED <<user, session, recovered, txn, loginLock, adminLock>>

-----------------------------------------------------------------------------
(* The account's own                                                       *)

\* changePassword reads the user and verifies, then hashes.
BeginChange(c, s) ==
  /\ Usable(s) /\ SlotFree
  /\ Open(c, [Blank EXCEPT !.op = "changePassword", !.at = "verifying", !.session = s,
                           !.user = session[s].user,
                           !.revision = user[session[s].user].revision])
  /\ UNCHANGED <<Tables, loginLock, adminLock>>

VerifyCurrent(c) ==
  /\ At(c, "changePassword", "verifying")
  /\ \/ txn' = [txn EXCEPT ![c].at = "verified"] /\ UNCHANGED <<Tables, loginLock, adminLock>>
     \/ Refuse(c)

HashNext(c) ==
  /\ At(c, "changePassword", "verified")
  /\ IF ~ SlotFree THEN Refuse(c)
     ELSE txn' = [txn EXCEPT ![c].at = "hashing"] /\ UNCHANGED <<Tables, loginLock, adminLock>>

\* The row is written by id alone, under the revision that was read plus one; every session but
\* the request's own is revoked, and that one goes on as of the new password.
ChangePassword(c) ==
  LET u == txn[c].user  own == txn[c].session IN
  /\ At(c, "changePassword", "hashing")
  /\ txn[c].revision <= MaxRevision
  /\ user' = [user EXCEPT ![u].revision = txn[c].revision + 1]
  /\ EndSessions(c, u, own)
  /\ UNCHANGED <<failures, recovered>>

\* logout, revokeSessionById and signOutOthers.
RevokeSome(c, s) ==
  /\ txn[c] = None /\ Usable(s)
  /\ LET mine == {t \in DOMAIN session : session[t].user = session[s].user} IN
     \E S \in {{t} : t \in mine} \cup {mine \ {s}} :
       session' = [t \in DOMAIN session |->
         IF t \in S THEN [session[t] EXCEPT !.revoked = TRUE] ELSE session[t]]
  /\ UNCHANGED <<user, failures, recovered, txn, loginLock, adminLock>>

-----------------------------------------------------------------------------
Ask(c) ==
  \/ \E u \in User : BeginSetup(c, u) \/ BeginLogin(c, u) \/ BeginRecover(c, u)
  \/ \E s \in DOMAIN session : BeginChange(c, s) \/ RevokeSome(c, s)
  \/ \E s \in DOMAIN session, u \in User, role \in Role :
       \/ BeginCreateUser(c, s, u, role)
       \/ \E active \in BOOLEAN : BeginPatchUser(c, s, u, role, active)

Proceed(c) ==
  \/ EndSetup(c) \/ EndCreateUser(c) \/ LockWorkspace(c) \/ PatchUser(c)
  \/ EndLogin(c) \/ EndRecover(c) \/ VerifyCurrent(c) \/ HashNext(c) \/ ChangePassword(c)

Next == WindowPasses \/ \E c \in Client : Ask(c) \/ Proceed(c)

Spec == Init /\ [][Next]_vars

-----------------------------------------------------------------------------
(* Properties                                                              *)

\* Once set up, the workspace keeps an active administrator, however administrators demote and
\* deactivate each other at the same time (ADMIN-B04).
AdminRemains == Known # {} => Admins # {}

\* No bucket takes more failures in fifteen minutes than it allows, however many logins and
\* recoveries run at the same time (ADMIN-B20, B22).
GuessesBounded == \A b \in Bucket : failures[b] <= MaxFailures

\* No session that was there when its user's password was changed or recovered, or the account
\* deactivated, is usable again (ACCT-B02, ADMIN-B03), but for the one that changed the password:
\* neither when the account is reactivated nor through another's request in flight.
RevocationHolds ==
  \A s \in DOMAIN session : Usable(s) => session[s].proof # "ended"
=============================================================================
