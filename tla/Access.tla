------------------------------- MODULE Access -------------------------------
(***************************************************************************)
(* Users, their sessions, and the requests made in them.                    *)
(*                                                                          *)
(* A request is sent, handled by the server in one or more steps, and       *)
(* answered.  The pages of the browsers decide which requests are sent, and *)
(* the jar of a browser with which session; what holds here does not lean   *)
(* on them: any request may be sent at any time, in any session that was    *)
(* opened.                                                                  *)
(*                                                                          *)
(* The sessions of a user are ended by one statement at READ COMMITTED: it  *)
(* finds the rows that are live when it starts, waits for those that others *)
(* have locked, and updates the ones that are still live; rows inserted in  *)
(* the meantime it does not see.  Finding and writing are two steps, but    *)
(* where the lock of the user's row keeps logins from committing between    *)
(* them.  Locks are not modelled besides: a statement that waits for one    *)
(* goes on as if it had come later, and a deadlock fails.                   *)
(*                                                                          *)
(* Left out: the count of wrong passwords (a password may be refused, or    *)
(* refused for the last time), names, addresses and logs.                   *)
(***************************************************************************)
EXTENDS Integers, FiniteSets

CONSTANTS Users,
          Sessions,   \* ids of session rows
          None,       \* no session, no user
          Requests    \* ids of requests, used again once answered

ASSUME AccessAssumption == None \notin Sessions \cup Users

VARIABLES active,   \* active[u]: the user is not disabled
          session,  \* session[s]: its row
          call,     \* call[r]: request r
          admin     \* the statement on the sessions of a user that an administrator has begun

accessVars == <<active, session, call, admin>>

\* found: the rows that the update of a login found; others: the sessions its user had then.
NoCall == [op |-> "none", stage |-> "none", session |-> None, user |-> None, answer |-> "none",
           found |-> {}, others |-> {}]
NoStatement == [op |-> "none", found |-> {}]

\* beside: the sessions opened while the login of this one was under way.
NoRow  == [of |-> None, revoked |-> FALSE, idle |-> FALSE, expired |-> FALSE, beside |-> {}]

Live(u, s) == session[s].of = u /\ ~session[s].revoked

\* Requests without a cookie have no session.
Gone(s) == IF s = None THEN TRUE ELSE session[s].revoked

\* What happened to a session before it ended does not matter any more.
Revoked(row) == [row EXCEPT !.revoked = TRUE, !.idle = FALSE, !.expired = FALSE, !.beside = {}]

\* The rows found are ended; those that ended in the meantime stay as they are.
EndAll(found) == [s \in Sessions |-> IF s \in found THEN Revoked(session[s]) ELSE session[s]]

Reply(r, answer) == call' = [call EXCEPT ![r] = [NoCall EXCEPT !.stage = "answered", !.answer = answer]]

Refuse(r) == Reply(r, "refused") /\ UNCHANGED session

Handling(r, op, stage) == call[r].op = op /\ call[r].stage = stage

-----------------------------------------------------------------------------
(***************************************************************************)
(* The server                                                              *)
(***************************************************************************)

\* Half an hour without a request; twelve hours since the login.
IdleTooLong(s) == session[s].idle
Expired(s)     == session[s].expired

\* SessionGuard reads the session, and ends it when its time is over.
Verify(r) ==
  LET s == call[r].session
  IN  /\ Handling(r, "api", "sent")
      /\ \/ Gone(s) /\ Refuse(r)
         \/ ~Gone(s) /\ ~active[session[s].of] /\ Refuse(r)
         \/ /\ ~Gone(s) /\ active[session[s].of]
            /\ \/ /\ Expired(s)
                  /\ session' = [session EXCEPT ![s] = Revoked(@)] /\ Reply(r, "refused")
               \/ /\ ~Expired(s) /\ IdleTooLong(s) /\ Refuse(r)
               \/ /\ ~Expired(s) /\ ~IdleTooLong(s)
                  /\ call' = [call EXCEPT ![r].stage = "verified"] /\ UNCHANGED session
      /\ UNCHANGED <<active, admin>>

Touched_Anyway(s) == TRUE

\* The update of lastActivityAt finds the session only if nobody has ended it.
Touched(s) == ~session[s].revoked

Touch(r) ==
  LET s == call[r].session
  IN  /\ Handling(r, "api", "verified")
      /\ IF Touched(s) THEN session' = [session EXCEPT ![s].idle = FALSE] /\ Reply(r, "ok")
                       ELSE Refuse(r)
      /\ UNCHANGED <<active, admin>>

\* login compares the password and reads whether the user is in use.
CheckPassword(r, u) ==
  /\ Handling(r, "login", "sent")
  /\ \/ /\ active[u]
        /\ call' = [call EXCEPT ![r] = [@ EXCEPT !.stage = "verified", !.user = u]]
        /\ UNCHANGED session
     \/ Refuse(r)
  /\ UNCHANGED <<active, admin>>

Ended_Idle(u) == {s \in Sessions : Live(u, s) /\ IdleTooLong(s)}

\* The sessions of the user that the new one puts an end to.
Ended(u) == {s \in Sessions : Live(u, s)}

LoggingIn(r) == call[r].op = "login" /\ call[r].stage = "found"

\* The transaction of login finds the sessions of the user, ...
FindOthers(r) ==
  LET u == call[r].user
  IN  /\ Handling(r, "login", "verified")
      /\ call' = [call EXCEPT ![r] = [@ EXCEPT !.stage = "found", !.found = Ended(u),
                                             !.others = {s \in Sessions : Live(u, s)}]]
      /\ UNCHANGED <<active, session, admin>>

\* ... ends them, opens one, and commits.
OpenSession(r) ==
  LET f == call[r]
  IN  /\ LoggingIn(r)
      /\ \E s \in Sessions : session[s].of = None
      /\ LET s == CHOOSE s \in Sessions : session[s].of = None
             beside == {t \in Sessions : Live(f.user, t)} \ f.others
         IN  /\ session' = [EndAll(f.found) EXCEPT ![s] = [NoRow EXCEPT !.of = f.user, !.beside = beside]]
             /\ Reply(r, "ok")
      /\ UNCHANGED <<active, admin>>

\* A deadlock with a change of the user, or a timeout.
FailLogin(r) == LoggingIn(r) /\ Refuse(r) /\ UNCHANGED <<active, admin>>

\* unlockSession; the session may be ended for too many wrong passwords.
Unlock(r) ==
  LET s == call[r].session
  IN  /\ Handling(r, "unlock", "sent")
      /\ \/ Gone(s) /\ Refuse(r)
         \/ /\ ~Gone(s)
            /\ \/ ~active[session[s].of] /\ Refuse(r)
               \/ /\ active[session[s].of] /\ Expired(s)
                  /\ session' = [session EXCEPT ![s] = Revoked(@)] /\ Reply(r, "refused")
               \/ /\ active[session[s].of] /\ ~Expired(s)
                  /\ \/ Refuse(r)
                     \/ session' = [session EXCEPT ![s] = Revoked(@)] /\ Reply(r, "refused")
                     \/ session' = [session EXCEPT ![s].idle = FALSE] /\ Reply(r, "ok")
      /\ UNCHANGED <<active, admin>>

Logout(r) ==
  LET s == call[r].session
  IN  /\ Handling(r, "logout", "sent")
      /\ session' = IF s = None THEN session ELSE [session EXCEPT ![s] = Revoked(@)]
      /\ Reply(r, "ok")
      /\ UNCHANGED <<active, admin>>

\* The row of the user is locked before the sessions are looked for.
DisableUser(u) ==
  /\ active' = [active EXCEPT ![u] = FALSE] /\ session' = EndAll({s \in Sessions : Live(u, s)})
  /\ UNCHANGED <<call, admin>>

ResetPassword(u) ==
  /\ session' = EndAll({s \in Sessions : Live(u, s)})
  /\ UNCHANGED <<active, call, admin>>

\* updateUser sets isActive and leaves the sessions alone.
UpdateUser(u, isActive) ==
  /\ active' = [active EXCEPT ![u] = isActive]
  /\ UNCHANGED <<session, call, admin>>

\* forceLogout and UserService.unlockSession find the sessions, ...
FindSessions(u, op) ==
  /\ admin = NoStatement /\ op \in {"logout", "unlock"}
  /\ admin' = [op |-> op, found |-> {s \in Sessions : Live(u, s)}]
  /\ UNCHANGED <<active, session, call>>

\* ... and end them,
ForceLogout ==
  /\ admin.op = "logout" /\ session' = EndAll(admin.found) /\ admin' = NoStatement
  /\ UNCHANGED <<active, call>>

\* or take it that they were just used.
UnlockAccount ==
  /\ admin.op = "unlock" /\ admin' = NoStatement
  /\ session' = [s \in Sessions |->
       IF s \in admin.found /\ ~session[s].revoked THEN [session[s] EXCEPT !.idle = FALSE] ELSE session[s]]
  /\ UNCHANGED <<active, call>>

Age(s) ==
  /\ session[s].of # None /\ ~session[s].revoked
  /\ \/ session' = [session EXCEPT ![s].idle = TRUE]
     \/ session' = [session EXCEPT ![s].expired = TRUE]
  /\ UNCHANGED <<active, call, admin>>

-----------------------------------------------------------------------------
(***************************************************************************)
(* What the browsers ask                                                   *)
(***************************************************************************)

\* The sessions whose token a browser may hold; they may have ended since.
Opened == {s \in Sessions : session[s].of # None}

Send(r, op, s) ==
  /\ call[r].stage \in {"none", "answered"}
  /\ call' = [call EXCEPT ![r] = [NoCall EXCEPT !.op = op, !.stage = "sent", !.session = s]]
  /\ UNCHANGED <<active, session, admin>>

AskData(r, s)   == Send(r, "api", s)
AskLogin(r)     == Send(r, "login", None)
AskUnlock(r, s) == Send(r, "unlock", s)
AskLogout(r, s) == Send(r, "logout", s)

-----------------------------------------------------------------------------

AccessInit ==
  /\ active   = [u \in Users |-> TRUE]
  /\ session  = [s \in Sessions |-> NoRow]
  /\ call     = [r \in Requests |-> NoCall]
  /\ admin    = NoStatement

Serve ==
  \E r \in Requests :
    \/ Verify(r) \/ Touch(r)
    \/ \E u \in Users : CheckPassword(r, u)
    \/ FindOthers(r) \/ OpenSession(r) \/ FailLogin(r) \/ Unlock(r) \/ Logout(r)

Administer ==
  \/ \E u \in Users : \/ DisableUser(u) \/ ResetPassword(u)
                      \/ \E op \in {"logout", "unlock"} : FindSessions(u, op)
                      \/ \E a \in BOOLEAN : UpdateUser(u, a)
  \/ ForceLogout \/ UnlockAccount

Browse ==
  \E r \in Requests :
    \/ AskLogin(r)
    \/ \E s \in Opened \cup {None} : AskData(r, s) \/ AskUnlock(r, s) \/ AskLogout(r, s)

AccessNext == Serve \/ Administer \/ Browse \/ \E s \in Sessions : Age(s)

-----------------------------------------------------------------------------
(***************************************************************************)
(* Properties                                                              *)
(***************************************************************************)

\* The guard lets no request through in a session that has been ended, also one
\* that was verified before a logout, a login elsewhere, or an administrator
\* ended it.
ServesLiveSessions ==
  [][\A r \in Requests :
       (call[r].op = "api" /\ call'[r].answer = "ok") => ~session[call[r].session].revoked]_accessVars

\* A user works in one place.  Logins that overlap do not see each other's session and
\* leave two of them live; but that is the only way, and the next login ends both: of two
\* live sessions of a user one was opened while the login of the other was under way.
OneSessionEach ==
  \A u \in Users, s, t \in Sessions :
    (s # t /\ Live(u, s) /\ Live(u, t)) => (t \in session[s].beside \/ s \in session[t].beside)
=============================================================================
