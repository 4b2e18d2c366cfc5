------------------------------ MODULE Sessions ------------------------------
(***************************************************************************)
(* Login sessions and refresh tokens: AuthService, SessionService,         *)
(* SessionRepository and the deletion of an account.                       *)
(*                                                                         *)
(* A login creates a UserSession and one refresh token for it.  A refresh  *)
(* token is exchanged for a new one: the old row is deleted, the session   *)
(* is looked up, the new row is created.  Sessions end by a logout, by a   *)
(* login on the same device (fcmToken), or when a job finds them expired.  *)
(* There are no transactions: every statement commits by itself, and the   *)
(* requests interleave between any two of them.                            *)
(***************************************************************************)
EXTENDS Naturals, FiniteSets

CONSTANTS
  User,           \* accounts
  Device,         \* firebase tokens
  Proc,           \* requests that may be in progress at the same time
  MaxRequests,    \* bound on the number of requests ever started
  Faults,         \* whether a request may die between two statements
  Scheduled,      \* whether the application has the module that runs its jobs
  None            \* an argument left out

ASSUME SessionsAssumption ==
  /\ None \notin User \cup Device
  /\ MaxRequests \in Nat
  /\ Faults \in BOOLEAN
  /\ Scheduled \in BOOLEAN
  /\ IsFiniteSet(Proc)
  /\ Proc # {}

VARIABLES
  active,         \* accounts that are not deleted
  sessions,       \* rows of UserSession
  tokens,         \* rows of SessionRefreshTokens
  nextSession,    \* the next id of a session
  nextToken,      \* the next id of a refresh token
  req,            \* the request each process is working on
  started,        \* how many requests have been started
  rotated,        \* history: every <<old token, new token>> of a refresh
  lost            \* history: sessions whose request died before their token came

tables == <<active, sessions, tokens, nextSession, nextToken>>
vars == <<tables, req, started, rotated, lost>>

UserSession == [id : Nat, user : User, device : Device \cup {None},
                expired : BOOLEAN]
RefreshToken == [id : Nat, session : Nat]

PC == {"idle", "findSessions", "deleteSessions", "createSession",
       "touchAccount", "deleteToken", "findSession", "createToken",
       "deleteSession"}

(***************************************************************************)
(* A request: the account and device of a login, the refresh token of a    *)
(* refresh (0: none), the session it works on and the session ids it has   *)
(* read.                                                                   *)
(***************************************************************************)
Request == [pc : PC, user : User \cup {None}, device : Device \cup {None},
            token : Nat, session : Nat, found : SUBSET Nat]

Idle == [pc |-> "idle", user |-> None, device |-> None, token |-> 0,
         session |-> 0, found |-> {}]

Init ==
  /\ active = User
  /\ sessions = {}
  /\ tokens = {}
  /\ nextSession = 1
  /\ nextToken = 1
  /\ req = [p \in Proc |-> Idle]
  /\ started = 0
  /\ rotated = {}
  /\ lost = {}

SessionWithId(i) == {s \in sessions : s.id = i}
TokenWithId(i) == {t \in tokens : t.id = i}

\* Deleting sessions deletes their refresh tokens (onDelete: Cascade).
RemoveSessions(gone) ==
  /\ sessions' = sessions \ gone
  /\ tokens' = {t \in tokens : \A s \in gone : t.session # s.id}

Goto(p, label) == req' = [req EXCEPT ![p].pc = label]
Finish(p) == req' = [req EXCEPT ![p] = Idle]

\* A request that ends with an error response.
Return(p) == Finish(p) /\ UNCHANGED <<tables, started, rotated, lost>>

Begin(p, r) ==
  /\ req[p].pc = "idle"
  /\ started < MaxRequests
  /\ req' = [req EXCEPT ![p] = r]
  /\ started' = started + 1
  /\ UNCHANGED <<tables, rotated, lost>>

(***************************************************************************)
(* login.  The first step checks the credentials; a login that is refused  *)
(* is one that never starts.                                               *)
(***************************************************************************)
StartLogin(p) ==
  \E u \in active, d \in Device \cup {None} :
    Begin(p, [Idle EXCEPT
                !.pc = IF d = None THEN "createSession" ELSE "findSessions",
                !.user = u, !.device = d])

\* Mutant: the sessions of another account on the device are left alone.
FindsOwnSessionsOnly(p) ==
  LET found == {s \in sessions : s.device = req[p].device
                                   /\ s.user = req[p].user} IN
  /\ req[p].pc = "findSessions"
  /\ req' = [req EXCEPT ![p].found = {s.id : s \in found},
                        ![p].pc = IF found = {} THEN "createSession"
                                                ELSE "deleteSessions"]
  /\ UNCHANGED <<tables, started, rotated, lost>>

FindSessions(p) ==
  LET found == {s \in sessions : s.device = req[p].device} IN
  /\ req[p].pc = "findSessions"
  /\ req' = [req EXCEPT ![p].found = {s.id : s \in found},
                        ![p].pc = IF found = {} THEN "createSession"
                                                ELSE "deleteSessions"]
  /\ UNCHANGED <<tables, started, rotated, lost>>

DeleteSessions(p) ==
  /\ req[p].pc = "deleteSessions"
  /\ RemoveSessions({s \in sessions : s.id \in req[p].found})
  /\ Goto(p, "createSession")
  /\ UNCHANGED <<active, nextSession, nextToken, started, rotated, lost>>

\* Mutant: the arguments accountId and fbToken are swapped.
SwapsArguments(r) ==
  [id |-> nextSession, user |-> r.device, device |-> r.user, expired |-> FALSE]

NewSession(r) ==
  [id |-> nextSession, user |-> r.user, device |-> r.device, expired |-> FALSE]

\* The repository's createSession returns: what it has read is gone.
CreateSession(p) ==
  /\ req[p].pc = "createSession"
  /\ sessions' = sessions \cup {NewSession(req[p])}
  /\ nextSession' = nextSession + 1
  /\ req' = [req EXCEPT ![p].session = nextSession, ![p].pc = "touchAccount",
                        ![p].device = None, ![p].found = {}]
  /\ UNCHANGED <<active, tokens, nextToken, started, rotated, lost>>

\* lastLoginAt is set only on an account that is not deleted.
TouchAccount(p) ==
  /\ req[p].pc = "touchAccount"
  /\ \/ /\ req[p].user \in active
        /\ Goto(p, "createToken")
        /\ UNCHANGED <<tables, started, rotated, lost>>
     \/ /\ req[p].user \notin active
        /\ Return(p)

(***************************************************************************)
(* refresh_token.  The first step reads the token's row; a refresh with a  *)
(* token that has no row is one that never starts.  To delete a row that   *)
(* is gone fails, and that is what makes a token good for one exchange.    *)
(***************************************************************************)
StartRefresh(p) ==
  \E t \in tokens :
    Begin(p, [Idle EXCEPT !.pc = "deleteToken", !.token = t.id,
                          !.session = t.session])

\* Mutant: to delete a token that is gone is no error (deleteMany).
DeletesWhateverIsThere(p) ==
  /\ req[p].pc = "deleteToken"
  /\ tokens' = tokens \ TokenWithId(req[p].token)
  /\ Goto(p, "findSession")
  /\ UNCHANGED <<active, sessions, nextSession, nextToken, started, rotated, lost>>

\* Mutant: the old token is left in place (the unused updateRefreshToken would).
KeepsOldToken(p) ==
  /\ req[p].pc = "deleteToken"
  /\ \/ /\ TokenWithId(req[p].token) # {}
        /\ Goto(p, "findSession")
        /\ UNCHANGED <<tables, started, rotated, lost>>
     \/ /\ TokenWithId(req[p].token) = {}
        /\ Return(p)

DeleteToken(p) ==
  /\ req[p].pc = "deleteToken"
  /\ \/ /\ TokenWithId(req[p].token) # {}
        /\ tokens' = tokens \ TokenWithId(req[p].token)
        /\ Goto(p, "findSession")
        /\ UNCHANGED <<active, sessions, nextSession, nextToken, started,
                       rotated, lost>>
     \/ /\ TokenWithId(req[p].token) = {}
        /\ Return(p)

\* Mutant: the session's expiry is tested after its token was deleted.
RefusesExpiredSession(p) ==
  /\ req[p].pc = "findSession"
  /\ \/ /\ \E s \in SessionWithId(req[p].session) : ~s.expired
        /\ Goto(p, "createToken")
        /\ UNCHANGED <<tables, started, rotated, lost>>
     \/ /\ \A s \in SessionWithId(req[p].session) : s.expired
        /\ Return(p)

FindSession(p) ==
  /\ req[p].pc = "findSession"
  /\ \/ /\ SessionWithId(req[p].session) # {}
        /\ Goto(p, "createToken")
        /\ UNCHANGED <<tables, started, rotated, lost>>
     \/ /\ SessionWithId(req[p].session) = {}
        /\ Return(p)

(***************************************************************************)
(* generateTokens, of a login and of a refresh.  The row refers to its     *)
(* session: when that is gone the statement fails.                         *)
(***************************************************************************)
\* Mutant: no foreign key from the token to its session.
NoForeignKey(p) == TRUE

SessionExists(p) == SessionWithId(req[p].session) # {}

CreateToken(p) ==
  /\ req[p].pc = "createToken"
  /\ \/ /\ SessionExists(p)
        /\ tokens' = tokens \cup
                       {[id |-> nextToken, session |-> req[p].session]}
        /\ nextToken' = nextToken + 1
        /\ rotated' = IF req[p].token = 0 THEN rotated
                      ELSE rotated \cup {<<req[p].token, nextToken>>}
        /\ Finish(p)
        /\ UNCHANGED <<active, sessions, nextSession, started, lost>>
     \/ /\ ~SessionExists(p)
        /\ Return(p)

(***************************************************************************)
(* logout.  AuthGuard has found the session and an active account.         *)
(***************************************************************************)
StartLogout(p) ==
  \E s \in sessions :
    /\ s.user \in active
    /\ Begin(p, [Idle EXCEPT !.pc = "deleteSession", !.session = s.id])

DeleteSession(p) ==
  /\ req[p].pc = "deleteSession"
  /\ RemoveSessions(SessionWithId(req[p].session))
  /\ Finish(p)
  /\ UNCHANGED <<active, nextSession, nextToken, started, rotated, lost>>

(***************************************************************************)
(* deleteAccount marks the account deleted; its sessions stay.             *)
(***************************************************************************)
DeleteAccount(u) ==
  /\ active' = active \ {u}
  /\ UNCHANGED <<sessions, tokens, nextSession, nextToken, req, started,
                 rotated, lost>>

\* Time passes a session's expiresAt.
Expire(s) ==
  /\ ~s.expired
  /\ sessions' = (sessions \ {s}) \cup {[s EXCEPT !.expired = TRUE]}
  /\ UNCHANGED <<active, tokens, nextSession, nextToken, req, started, rotated, lost>>

(***************************************************************************)
(* The job that is to run every six hours.  ScheduleModule, which runs the *)
(* methods that carry @Cron, is imported by no module of the application,  *)
(* so Scheduled is FALSE of the program; TRUE shows what the job would do. *)
(***************************************************************************)
ClearExpiredSessions ==
  /\ Scheduled
  /\ RemoveSessions({s \in sessions : s.expired})
  /\ UNCHANGED <<active, nextSession, nextToken, req, started, rotated, lost>>

\* The request is about to give the session a token.
BringsToken(p, s) ==
  /\ req[p].session = s.id
  /\ req[p].pc \in {"touchAccount", "findSession", "createToken"}

\* The process is stopped or the connection is lost between two statements.
Fail(p) ==
  /\ Faults
  /\ req[p].pc # "idle"
  /\ Finish(p)
  /\ lost' = lost \cup {s.id : s \in {x \in sessions : BringsToken(p, x)}}
  /\ UNCHANGED <<tables, started, rotated>>

Start(p) == StartLogin(p) \/ StartRefresh(p) \/ StartLogout(p)

Step(p) ==
  \/ FindSessions(p)
  \/ DeleteSessions(p)
  \/ CreateSession(p)
  \/ TouchAccount(p)
  \/ DeleteToken(p)
  \/ FindSession(p)
  \/ CreateToken(p)
  \/ DeleteSession(p)

Next ==
  \/ \E p \in Proc : Start(p) \/ Step(p) \/ Fail(p)
  \/ \E u \in User : DeleteAccount(u)
  \/ \E s \in sessions : Expire(s)
  \/ ClearExpiredSessions

Spec == Init /\ [][Next]_vars

\* Where there is a scheduler it runs the job again and again; statements are
\* executed.
FairSpec ==
  /\ Spec
  /\ WF_vars(ClearExpiredSessions)
  /\ \A p \in Proc : WF_vars(Step(p))
-----------------------------------------------------------------------------
\* The tables and every request record hold values of the schema's types.
TypeOK ==
  /\ active \subseteq User
  /\ sessions \subseteq UserSession
  /\ tokens \subseteq RefreshToken
  /\ nextSession \in Nat \ {0}
  /\ nextToken \in Nat \ {0}
  /\ req \in [Proc -> Request]
  /\ started \in Nat
  /\ rotated \subseteq Nat \X Nat
  /\ lost \subseteq Nat

\* A refresh token is exchanged at most once, however many requests present it
\* at the same time.
ExchangedOnce ==
  \A a, b \in rotated : a[1] = b[1] => a = b

\* A session never has two refresh tokens: the exchanges of a session form one
\* chain, which ends at the token its client holds.
OneTokenPerSession ==
  \A t, u \in tokens : t.session = u.session => t = u

\* When a session ends its refresh token ends with it, and a refresh that was
\* in progress leaves no token behind.
TokensEndWithSession ==
  \A t \in tokens : SessionWithId(t.session) # {}

\* A login ends the sessions it finds on its device, whose ever they are.  Logins
\* that overlap do not find one another's, so a device has as many sessions as
\* there are requests in progress, and never more, however often one logs in.
SessionsPerDevice ==
  \A d \in Device : Cardinality({s \in sessions : s.device = d}) <= Cardinality(Proc)

\* The client of a session can renew it: it has a token or will get one, unless
\* its account was deleted or a request died after the old token was deleted.
\* Nothing else leaves a session without a token, no error and no other request.
SessionsRenewable ==
  \A s \in sessions :
    \/ \E t \in tokens : t.session = s.id
    \/ \E p \in Proc : BringsToken(p, s)
    \/ s.user \notin active
    \/ s.id \in lost

\* '@Cron(CronExpression.EVERY_6_HOURS)' on clearExpiredSessions: a session that
\* has expired is gone in the end, whatever refreshes it.
ExpiredSessionsEnd ==
  \A i \in 1..MaxRequests :
    (\E s \in SessionWithId(i) : s.expired) ~> SessionWithId(i) = {}
=============================================================================
