--------------------------- MODULE SessionsProofs ---------------------------
(***************************************************************************)
(* Theorems about Sessions, for every set of accounts, devices and         *)
(* processes.                                                              *)
(***************************************************************************)
EXTENDS Sessions, FiniteSetTheorems, TLAPS

\* Ids that were not handed out yet are not in use anywhere.
IdsOK ==
  /\ \A s \in sessions : s.id < nextSession
  /\ \A t \in tokens : t.id # 0 /\ t.id < nextToken /\ t.session < nextSession
  /\ \A t, u \in tokens : t.id = u.id => t = u
  /\ \A p \in Proc : req[p].token < nextToken /\ req[p].session < nextSession
  /\ \A r \in rotated : r[1] < nextToken

LoginPC == {"findSessions", "deleteSessions", "createSession", "touchAccount"}

\* A login is of an account and presents no token; a request that has read a token
\* knows the session of that token.
ReadOK ==
  \A p \in Proc :
    /\ req[p].pc \in LoginPC => req[p].token = 0 /\ req[p].user \in User
    /\ req[p].pc = "deleteToken" =>
         /\ req[p].token # 0
         /\ \A t \in tokens : t.id = req[p].token => t.session = req[p].session

\* The request alone may give its session the next token.
Brings(p) == req[p].pc \in {"touchAccount", "findSession", "createToken"}

BringersOK ==
  /\ \A p \in Proc : Brings(p) => \A t \in tokens : t.session # req[p].session
  /\ \A p, q \in Proc :
       Brings(p) /\ Brings(q) /\ req[p].session = req[q].session => p = q

\* The request has deleted a token and not yet created its successor.
Spends(p) == req[p].pc \in {"findSession", "createToken"} /\ req[p].token # 0

SpentOK ==
  /\ \A p \in Proc : Spends(p) => /\ \A t \in tokens : t.id # req[p].token
                                  /\ \A r \in rotated : r[1] # req[p].token
  /\ \A p, q \in Proc :
       Spends(p) /\ Spends(q) /\ req[p].token = req[q].token => p = q
  /\ \A r \in rotated, t \in tokens : t.id # r[1]

SessionsInv ==
  /\ TypeOK
  /\ IdsOK
  /\ ReadOK
  /\ BringersOK
  /\ SpentOK
  /\ ExchangedOnce
  /\ OneTokenPerSession
  /\ TokensEndWithSession

USE DEF SessionWithId, TokenWithId

\* No session and no token exists at first.
LEMMA InitInv == Init => SessionsInv
  BY SessionsAssumption
     DEF Init, SessionsInv, TypeOK, IdsOK, ReadOK, BringersOK, SpentOK, LoginPC, Brings,
         Spends, ExchangedOnce, OneTokenPerSession, TokensEndWithSession, Idle,
         Request, PC, UserSession, RefreshToken

\* A step that removes sessions or tokens, and gives no request a right to
\* create a token, keeps the invariant.
LEMMA ShrinkKeepsInv ==
  ASSUME SessionsInv, NEW p \in Proc,
         req' \in [Proc -> Request],
         \A q \in Proc \ {p} : req'[q] = req[q],
         Brings(p)' => Brings(p) /\ req'[p].session = req[p].session,
         Spends(p)' => Spends(p) /\ req'[p].token = req[p].token,
         req'[p].token < nextToken, req'[p].session < nextSession,
         req'[p].pc \in LoginPC => req'[p].token = 0 /\ req'[p].user \in User,
         req'[p].pc = "deleteToken" =>
           /\ req'[p].token # 0
           /\ \A t \in tokens : t.id = req'[p].token => t.session = req'[p].session,
         active' \subseteq active, sessions' \subseteq UserSession,
         \A s \in sessions' : \E old \in sessions : s.id = old.id,
         tokens' \subseteq tokens,
         \A t \in tokens' : \E s \in sessions' : s.id = t.session,
         started' \in Nat, lost' \subseteq Nat,
         UNCHANGED <<nextSession, nextToken, rotated>>
  PROVE  SessionsInv'
<1>1. TypeOK'
  BY DEF SessionsInv, TypeOK
<1>2. IdsOK'
  BY DEF SessionsInv, IdsOK
<1>3. ReadOK'
  BY DEF SessionsInv, ReadOK
<1>4. \A q \in Proc : Brings(q)' => Brings(q) /\ req'[q].session = req[q].session
  BY DEF Brings
<1>5. \A q \in Proc : Spends(q)' => Spends(q) /\ req'[q].token = req[q].token
  BY DEF Spends
<1>6. BringersOK'
  BY <1>4 DEF SessionsInv, BringersOK
<1>7. SpentOK'
  BY <1>5 DEF SessionsInv, SpentOK
<1>8. ExchangedOnce' /\ OneTokenPerSession' /\ TokensEndWithSession'
  BY DEF SessionsInv, ExchangedOnce, OneTokenPerSession, TokensEndWithSession
<1> QED
  BY <1>1, <1>2, <1>3, <1>6, <1>7, <1>8 DEF SessionsInv

\* What a removal of sessions leaves: their tokens go with them.
LEMMA RemovalCascades ==
  ASSUME SessionsInv, NEW gone, RemoveSessions(gone)
  PROVE  /\ sessions' \subseteq sessions /\ tokens' \subseteq tokens
         /\ \A t \in tokens' : \E s \in sessions' : s.id = t.session
  BY DEF RemoveSessions, SessionsInv, TokensEndWithSession

\* An idle process has a request record too.
LEMMA IdleType == Idle \in Request
  BY DEF Idle, Request, PC

\* A request may end between any two of its statements.
LEMMA FinishKeepsInv ==
  ASSUME SessionsInv, NEW p \in Proc, Finish(p), lost' \subseteq Nat,
         UNCHANGED <<tables, started, rotated>>
  PROVE  SessionsInv'
<1>1. /\ req' \in [Proc -> Request] /\ req'[p] = Idle
      /\ \A q \in Proc \ {p} : req'[q] = req[q]
  BY IdleType DEF Finish, SessionsInv, TypeOK
<1>2. 0 < nextToken /\ 0 < nextSession
  BY DEF SessionsInv, TypeOK
<1> QED
  BY <1>1, <1>2, ShrinkKeepsInv
     DEF tables, Idle, LoginPC, Brings, Spends, SessionsInv, TypeOK,
         TokensEndWithSession

LEMMA ReturnKeepsInv ==
  ASSUME SessionsInv, NEW p \in Proc, Return(p)
  PROVE  SessionsInv'
  BY FinishKeepsInv DEF Return, SessionsInv, TypeOK

LEMMA FailKeepsInv ==
  ASSUME SessionsInv, NEW p \in Proc, Fail(p)
  PROVE  SessionsInv'
<1>1. lost' \subseteq Nat
  BY DEF Fail, SessionsInv, TypeOK, UserSession
<1> QED
  BY <1>1, FinishKeepsInv DEF Fail

\* A request that starts brings and spends nothing yet.
LEMMA StartKeepsInv ==
  ASSUME SessionsInv, NEW p \in Proc, Start(p)
  PROVE  SessionsInv'
<1>1. ASSUME NEW r \in Request, Begin(p, r), r.token < nextToken,
             r.session < nextSession,
             r.pc \in LoginPC => r.token = 0 /\ r.user \in User,
             r.pc \notin {"touchAccount", "findSession", "createToken"},
             r.pc = "deleteToken" =>
               /\ r.token # 0
               /\ \A t \in tokens : t.id = r.token => t.session = r.session
      PROVE  SessionsInv'
  <2>1. /\ req' \in [Proc -> Request] /\ req'[p] = r
        /\ \A q \in Proc \ {p} : req'[q] = req[q]
    BY <1>1 DEF Begin, SessionsInv, TypeOK
  <2> QED
    BY <1>1, <2>1, ShrinkKeepsInv
       DEF Begin, tables, LoginPC, Brings, Spends, SessionsInv, TypeOK,
           TokensEndWithSession
<1>2. CASE StartLogin(p)
  <2> SUFFICES ASSUME NEW u \in active, NEW d \in Device \cup {None},
                      NEW label \in {"createSession", "findSessions"},
                      Begin(p, [Idle EXCEPT !.pc = label, !.user = u,
                                            !.device = d])
               PROVE  SessionsInv'
    BY <1>2 DEF StartLogin
  <2> DEFINE r == [Idle EXCEPT !.pc = label, !.user = u, !.device = d]
  <2>1. /\ r \in Request /\ r.pc = label /\ r.token = 0 /\ r.session = 0
        /\ r.user \in User
    BY DEF Idle, Request, PC, SessionsInv, TypeOK
  <2>2. 0 < nextToken /\ 0 < nextSession
    BY DEF SessionsInv, TypeOK
  <2>3. Begin(p, r)
    OBVIOUS
  <2> HIDE DEF r
  <2> QED BY <1>1, <2>1, <2>2, <2>3 DEF LoginPC
<1>3. CASE StartRefresh(p)
  <2> SUFFICES ASSUME NEW t \in tokens,
                      Begin(p, [Idle EXCEPT !.pc = "deleteToken",
                                            !.token = t.id,
                                            !.session = t.session])
               PROVE  SessionsInv'
    BY <1>3 DEF StartRefresh
  <2> QED
    BY <1>1
       DEF Idle, LoginPC, Request, PC, SessionsInv, TypeOK, IdsOK, RefreshToken
<1>4. CASE StartLogout(p)
  <2> SUFFICES ASSUME NEW s \in sessions,
                      Begin(p, [Idle EXCEPT !.pc = "deleteSession",
                                            !.session = s.id])
               PROVE  SessionsInv'
    BY <1>4 DEF StartLogout
  <2> DEFINE r == [Idle EXCEPT !.pc = "deleteSession", !.session = s.id]
  <2>1. s.id \in Nat /\ s.id < nextSession /\ 0 < nextToken
    BY DEF SessionsInv, TypeOK, IdsOK, UserSession
  <2>2. r \in Request /\ r.pc = "deleteSession" /\ r.token = 0 /\ r.session = s.id
    BY <2>1 DEF Idle, Request, PC
  <2>3. Begin(p, r)
    OBVIOUS
  <2> HIDE DEF r
  <2> QED BY <1>1, <2>1, <2>2, <2>3 DEF LoginPC
<1> QED
  BY <1>2, <1>3, <1>4 DEF Start

\* The steps that only remove rows, or only move a request on.
LEMMA ShrinkingStepsKeepInv ==
  ASSUME SessionsInv, NEW p \in Proc,
         \/ FindSessions(p) \/ DeleteSessions(p) \/ TouchAccount(p)
         \/ FindSession(p) \/ DeleteSession(p)
  PROVE  SessionsInv'
<1>0. /\ TypeOK /\ IdsOK /\ TokensEndWithSession
      /\ req[p] \in Request
      /\ req[p].token < nextToken /\ req[p].session < nextSession
      /\ req[p].pc \in LoginPC => req[p].token = 0 /\ req[p].user \in User
  BY DEF SessionsInv, TypeOK, IdsOK, ReadOK
<1>1. CASE Return(p)
  BY <1>1, ReturnKeepsInv
<1>2. ASSUME NEW label \in PC, Goto(p, label),
             label = "createToken" => Brings(p) /\ (req[p].token # 0 => Spends(p)),
             label \notin {"deleteToken", "findSession", "touchAccount"},
             label \in LoginPC => req[p].pc \in LoginPC,
             active' = active, sessions' \subseteq sessions,
             tokens' \subseteq tokens,
             \A t \in tokens' : \E s \in sessions' : s.id = t.session,
             UNCHANGED <<nextSession, nextToken, rotated, started, lost>>
      PROVE  SessionsInv'
  <2>1. /\ req' \in [Proc -> Request]
        /\ req'[p] = [req[p] EXCEPT !.pc = label]
        /\ \A q \in Proc \ {p} : req'[q] = req[q]
    BY <1>0, <1>2 DEF Goto, TypeOK, Request
  <2>2. /\ req'[p].pc = label /\ req'[p].token = req[p].token
        /\ req'[p].session = req[p].session /\ req'[p].user = req[p].user
    BY <1>0, <2>1 DEF Request
  <2> QED
    BY <1>0, <1>2, <2>1, <2>2, ShrinkKeepsInv DEF Brings, Spends, TypeOK
<1>3. CASE FindSessions(p)
  <2>1. PICK found \in SUBSET sessions, label \in {"createSession", "deleteSessions"} :
          req' = [req EXCEPT ![p].found = {s.id : s \in found}, ![p].pc = label]
    BY <1>3 DEF FindSessions
  <2>2. {s.id : s \in found} \in SUBSET Nat
    BY <1>0 DEF TypeOK, UserSession
  <2>3. /\ req' \in [Proc -> Request]
        /\ req'[p] = [req[p] EXCEPT !.found = {s.id : s \in found}, !.pc = label]
        /\ \A q \in Proc \ {p} : req'[q] = req[q]
    BY <1>0, <2>1, <2>2 DEF TypeOK, Request, PC
  <2>4. /\ req'[p].pc = label /\ req'[p].token = req[p].token
        /\ req'[p].session = req[p].session /\ req'[p].user = req[p].user
    BY <1>0, <2>3 DEF Request
  <2>5. req[p].pc = "findSessions" /\ UNCHANGED <<tables, started, rotated, lost>>
    BY <1>3 DEF FindSessions
  <2>6. /\ req'[p].pc \in LoginPC => req'[p].token = 0 /\ req'[p].user \in User
        /\ ~Brings(p)' /\ ~Spends(p)' /\ req'[p].pc # "deleteToken"
        /\ req'[p].token < nextToken /\ req'[p].session < nextSession
    BY <1>0, <2>1, <2>4, <2>5 DEF LoginPC, Brings, Spends
  <2>7. /\ active' \subseteq active /\ sessions' \subseteq UserSession
        /\ tokens' \subseteq tokens /\ started' \in Nat
        /\ \A s \in sessions' : \E old \in sessions : s.id = old.id
        /\ \A t \in tokens' : \E s \in sessions' : s.id = t.session
        /\ UNCHANGED <<nextSession, nextToken, rotated>> /\ lost' \subseteq Nat
    BY <1>0, <2>5 DEF tables, TypeOK, TokensEndWithSession
  <2> QED
    BY <2>3, <2>6, <2>7, ShrinkKeepsInv
<1>4. CASE DeleteSessions(p)
  <2>1. PICK gone : RemoveSessions(gone)
    BY <1>4 DEF DeleteSessions
  <2>2. /\ sessions' \subseteq sessions /\ tokens' \subseteq tokens
        /\ \A t \in tokens' : \E s \in sessions' : s.id = t.session
    BY <2>1, RemovalCascades
  <2>3. "createSession" \in PC
    BY DEF PC
  <2> QED
    BY <1>0, <1>2, <1>4, <2>2, <2>3 DEF DeleteSessions, LoginPC
<1>5. CASE TouchAccount(p) /\ ~Return(p)
  BY <1>0, <1>2, <1>5
     DEF TouchAccount, tables, PC, LoginPC, Brings, Spends, TokensEndWithSession
<1>6. CASE FindSession(p) /\ ~Return(p)
  BY <1>0, <1>2, <1>6
     DEF FindSession, tables, PC, LoginPC, Brings, Spends, TokensEndWithSession
<1>7. CASE DeleteSession(p)
  <2>1. /\ req' \in [Proc -> Request] /\ req'[p] = Idle
        /\ \A q \in Proc \ {p} : req'[q] = req[q]
    BY <1>0, <1>7, IdleType DEF DeleteSession, Finish, TypeOK
  <2>2. 0 < nextToken /\ 0 < nextSession
    BY <1>0 DEF TypeOK
  <2> QED
    BY <1>0, <1>7, <2>1, <2>2, RemovalCascades, ShrinkKeepsInv
       DEF DeleteSession, Idle, LoginPC, Brings, Spends, TypeOK
<1> QED
  BY <1>1, <1>3, <1>4, <1>5, <1>6, <1>7

\* The account, clock and job steps touch no request.
LEMMA BackgroundStepsKeepInv ==
  ASSUME SessionsInv,
         active' \subseteq active,
         sessions' \subseteq UserSession,
         \A s \in sessions' : \E old \in sessions : s.id = old.id,
         tokens' \subseteq tokens,
         \A t \in tokens' : \E s \in sessions' : s.id = t.session,
         UNCHANGED <<nextSession, nextToken, req, started, rotated, lost>>
  PROVE  SessionsInv'
<1>1. TypeOK' /\ IdsOK' /\ ReadOK'
  BY DEF SessionsInv, TypeOK, IdsOK, ReadOK
<1>2. BringersOK' /\ SpentOK'
  BY DEF SessionsInv, BringersOK, SpentOK, Brings, Spends
<1>3. ExchangedOnce' /\ OneTokenPerSession' /\ TokensEndWithSession'
  BY DEF SessionsInv, ExchangedOnce, OneTokenPerSession, TokensEndWithSession
<1> QED BY <1>1, <1>2, <1>3 DEF SessionsInv

\* A new session has a new id, so nobody else brings it a token.
LEMMA CreateSessionKeepsInv ==
  ASSUME SessionsInv, NEW p \in Proc, CreateSession(p)
  PROVE  SessionsInv'
<1>0. /\ TypeOK /\ IdsOK /\ req[p] \in Request /\ nextSession \in Nat
      /\ req[p].pc = "createSession" /\ req[p].token = 0 /\ req[p].user \in User
  BY DEF SessionsInv, TypeOK, ReadOK, LoginPC, CreateSession
<1>1. PICK s : /\ s \in UserSession /\ s.id = nextSession
               /\ sessions' = sessions \cup {s}
  BY <1>0 DEF CreateSession, NewSession, Request, UserSession
<1>2. /\ req' \in [Proc -> Request]
      /\ req'[p].pc = "touchAccount" /\ req'[p].session = nextSession
      /\ req'[p].token = 0 /\ req'[p].user = req[p].user
      /\ \A q \in Proc \ {p} : req'[q] = req[q]
  BY <1>0 DEF CreateSession, TypeOK, Request, PC
<1>3. /\ UNCHANGED <<active, tokens, nextToken, started, rotated, lost>>
      /\ nextSession' = nextSession + 1
  BY DEF CreateSession
<1>4. TypeOK'
  BY <1>0, <1>1, <1>2, <1>3 DEF TypeOK
<1>5. IdsOK'
  <2>1. \A i \in Nat : i < nextSession => i < nextSession'
    BY <1>0, <1>3
  <2>2. \A t \in tokens : t.session < nextSession'
    BY <1>0, <2>1 DEF IdsOK, TypeOK, RefreshToken
  <2>3. \A x \in sessions' : x.id < nextSession'
    BY <1>0, <1>1, <1>3, <2>1 DEF IdsOK, TypeOK, UserSession
  <2>4. \A q \in Proc : req'[q].session < nextSession'
    BY <1>0, <1>2, <1>3, <2>1 DEF IdsOK, TypeOK, Request
  <2>5. \A q \in Proc : req'[q].token < nextToken'
    BY <1>0, <1>2, <1>3 DEF IdsOK, TypeOK
  <2> QED BY <1>0, <1>3, <2>2, <2>3, <2>4, <2>5 DEF IdsOK
<1>6. ReadOK'
  BY <1>0, <1>2, <1>3 DEF SessionsInv, ReadOK, LoginPC
<1>7. BringersOK'
  <2>1. \A t \in tokens : t.session # nextSession
    BY <1>0 DEF IdsOK, TypeOK, RefreshToken
  <2>2. \A q \in Proc : req[q].session # nextSession
    BY <1>0 DEF IdsOK, TypeOK, Request
  <2> QED
    BY <1>2, <1>3, <2>1, <2>2 DEF SessionsInv, BringersOK, Brings
<1>8. SpentOK'
  BY <1>2, <1>3 DEF SessionsInv, SpentOK, Spends
<1>9. ExchangedOnce' /\ OneTokenPerSession' /\ TokensEndWithSession'
  BY <1>1, <1>3
     DEF SessionsInv, ExchangedOnce, OneTokenPerSession, TokensEndWithSession
<1> QED
  BY <1>4, <1>5, <1>6, <1>7, <1>8, <1>9 DEF SessionsInv

\* The token was in its table, so nobody has spent it, and it was the only one
\* of its session: from now on this request alone spends the one and brings the
\* other.
LEMMA DeleteTokenKeepsInv ==
  ASSUME SessionsInv, NEW p \in Proc, DeleteToken(p), ~Return(p)
  PROVE  SessionsInv'
<1>0. /\ TypeOK /\ IdsOK /\ req[p] \in Request
      /\ req[p].pc = "deleteToken" /\ req[p].token # 0
  BY DEF SessionsInv, TypeOK, ReadOK, DeleteToken
<1>1. PICK t \in tokens : /\ t.id = req[p].token /\ t.session = req[p].session
                          /\ tokens' = tokens \ {t}
  BY <1>0 DEF DeleteToken, SessionsInv, ReadOK, IdsOK
<1>2. /\ req' \in [Proc -> Request]
      /\ req'[p].pc = "findSession" /\ req'[p].session = t.session
      /\ req'[p].token = t.id
      /\ \A q \in Proc \ {p} : req'[q] = req[q]
  BY <1>0, <1>1 DEF DeleteToken, Goto, TypeOK, Request, PC
<1>3. UNCHANGED <<active, sessions, nextSession, nextToken, started, rotated, lost>>
  BY DEF DeleteToken
<1>4. TypeOK'
  BY <1>0, <1>1, <1>2, <1>3 DEF TypeOK
<1>5. IdsOK' /\ ReadOK'
  BY <1>0, <1>1, <1>2, <1>3 DEF SessionsInv, IdsOK, ReadOK, LoginPC
<1>6. BringersOK'
  <2>1. \A u \in tokens' : u.session # t.session
    BY <1>1 DEF SessionsInv, OneTokenPerSession
  <2>2. \A q \in Proc : Brings(q) => req[q].session # t.session
    BY <1>1 DEF SessionsInv, BringersOK
  <2> QED
    BY <1>0, <1>1, <1>2, <2>1, <2>2 DEF SessionsInv, BringersOK, Brings
<1>7. SpentOK'
  <2>1. \A u \in tokens' : u.id # t.id
    BY <1>0, <1>1 DEF IdsOK
  <2>2. /\ \A q \in Proc : Spends(q) => req[q].token # t.id
        /\ \A r \in rotated : r[1] # t.id
    BY <1>1 DEF SessionsInv, SpentOK
  <2> QED
    BY <1>0, <1>1, <1>2, <1>3, <2>1, <2>2 DEF SessionsInv, SpentOK, Spends
<1>8. ExchangedOnce' /\ OneTokenPerSession' /\ TokensEndWithSession'
  BY <1>1, <1>3
     DEF SessionsInv, ExchangedOnce, OneTokenPerSession, TokensEndWithSession
<1> QED
  BY <1>4, <1>5, <1>6, <1>7, <1>8 DEF SessionsInv

\* The new token is the only one of its session, because this request alone
\* brings it; and the old one was not exchanged before, because this request
\* alone spends it.
LEMMA CreateTokenKeepsInv ==
  ASSUME SessionsInv, NEW p \in Proc, CreateToken(p), ~Return(p)
  PROVE  SessionsInv'
<1>0. /\ TypeOK /\ IdsOK /\ req[p] \in Request
      /\ req[p].pc = "createToken" /\ nextToken \in Nat \ {0}
      /\ req[p].token < nextToken /\ req[p].session < nextSession
  BY DEF SessionsInv, TypeOK, IdsOK, CreateToken
<1>1. PICK t \in RefreshToken : /\ t.id = nextToken
                                /\ t.session = req[p].session
                                /\ tokens' = tokens \cup {t}
  BY <1>0 DEF CreateToken, RefreshToken, Request
<1>2. /\ req' \in [Proc -> Request] /\ req'[p] = Idle
      /\ \A q \in Proc \ {p} : req'[q] = req[q]
  BY <1>0, IdleType DEF CreateToken, Finish, TypeOK
<1>3. /\ UNCHANGED <<active, sessions, nextSession, started, lost>>
      /\ nextToken' = nextToken + 1
      /\ \E s \in sessions : s.id = t.session
      /\ rotated' = IF req[p].token = 0 THEN rotated
                    ELSE rotated \cup {<<req[p].token, nextToken>>}
  BY <1>1 DEF CreateToken, SessionExists
<1>4. TypeOK'
  BY <1>0, <1>1, <1>2, <1>3 DEF TypeOK, Request
<1>5. IdsOK'
  <2>1. \A i \in Nat : i < nextToken => i < nextToken'
    BY <1>0, <1>3
  <2>2. \A u \in tokens : u.id < nextToken' /\ u.id # nextToken
    BY <1>0, <2>1 DEF IdsOK, TypeOK, RefreshToken
  <2>3. \A q \in Proc : req'[q].token < nextToken' /\ req'[q].session < nextSession
    BY <1>0, <1>2, <2>1, <1>3 DEF IdsOK, TypeOK, Request, Idle
  <2>4. \A r \in rotated' : r[1] < nextToken'
    BY <1>0, <1>3, <2>1 DEF IdsOK, TypeOK, Request
  <2>5. nextToken < nextToken'
    BY <1>0, <1>3
  <2> QED
    BY <1>0, <1>1, <1>3, <2>2, <2>3, <2>4, <2>5 DEF IdsOK
<1>6. ReadOK'
  <2>1. \A q \in Proc : req[q].token # nextToken
    BY <1>0 DEF IdsOK, TypeOK, Request
  <2> QED
    BY <1>1, <1>2, <2>1 DEF SessionsInv, ReadOK, LoginPC, Idle
<1>7. BringersOK'
  BY <1>0, <1>1, <1>2 DEF SessionsInv, BringersOK, Brings, Idle
<1>8. SpentOK'
  <2>1. /\ \A q \in Proc : req[q].token # nextToken
        /\ \A r \in rotated' : r[1] # nextToken
    BY <1>0, <1>3 DEF IdsOK, TypeOK, Request
  <2>2. req[p].token # 0 => Spends(p)
    BY <1>0 DEF Spends
  <2>3. \A q \in Proc : Spends(q)' => q # p /\ Spends(q) /\ req'[q] = req[q]
    BY <1>2 DEF Spends, Idle
  <2>4. \A q \in Proc : Spends(q)' =>
          /\ \A u \in tokens' : u.id # req'[q].token
          /\ \A r \in rotated' : r[1] # req'[q].token
    BY <1>1, <1>3, <2>1, <2>2, <2>3 DEF SessionsInv, SpentOK
  <2>5. \A r \in rotated', u \in tokens' : u.id # r[1]
    BY <1>1, <1>3, <2>1, <2>2 DEF SessionsInv, SpentOK
  <2> QED
    BY <2>3, <2>4, <2>5 DEF SessionsInv, SpentOK
<1>9. ExchangedOnce'
  <2>1. req[p].token # 0 => \A r \in rotated : r[1] # req[p].token
    BY <1>0 DEF SessionsInv, SpentOK, Spends
  <2> QED BY <1>3, <2>1 DEF SessionsInv, ExchangedOnce
<1>10. OneTokenPerSession' /\ TokensEndWithSession'
  BY <1>0, <1>1, <1>3
     DEF SessionsInv, OneTokenPerSession, TokensEndWithSession, BringersOK,
         Brings
<1> QED
  BY <1>4, <1>5, <1>6, <1>7, <1>8, <1>9, <1>10 DEF SessionsInv

\* SessionsInv is inductive: the theorems below follow from it.
THEOREM Inductive == Spec => []SessionsInv
<1>1. ASSUME SessionsInv, [Next]_vars
      PROVE  SessionsInv'
  <2> USE <1>1
  <2>1. ASSUME NEW p \in Proc, Start(p) \/ Step(p) \/ Fail(p)
        PROVE  SessionsInv'
    <3>1. CASE Start(p)
      BY <3>1, StartKeepsInv
    <3>2. CASE Return(p)
      BY <3>2, ReturnKeepsInv
    <3>3. CASE \/ FindSessions(p) \/ DeleteSessions(p) \/ TouchAccount(p)
               \/ FindSession(p) \/ DeleteSession(p)
      BY <3>3, ShrinkingStepsKeepInv
    <3>4. CASE CreateSession(p)
      BY <3>4, CreateSessionKeepsInv
    <3>5. CASE DeleteToken(p) /\ ~Return(p)
      BY <3>5, DeleteTokenKeepsInv
    <3>6. CASE CreateToken(p) /\ ~Return(p)
      BY <3>6, CreateTokenKeepsInv
    <3>7. CASE Fail(p)
      BY <3>7, FailKeepsInv
    <3> QED
      BY <2>1, <3>1, <3>2, <3>3, <3>4, <3>5, <3>6, <3>7 DEF Step
  <2>2. ASSUME NEW u \in User, DeleteAccount(u)
        PROVE  SessionsInv'
    BY <2>2, BackgroundStepsKeepInv
       DEF DeleteAccount, SessionsInv, TypeOK, TokensEndWithSession
  <2>3. ASSUME NEW s \in sessions, Expire(s)
        PROVE  SessionsInv'
    <3> DEFINE aged == [s EXCEPT !.expired = TRUE]
    <3>0. aged \in UserSession /\ aged.id = s.id
      BY DEF SessionsInv, TypeOK, UserSession
    <3>1. /\ sessions' \subseteq UserSession
          /\ \A x \in sessions' : \E old \in sessions : x.id = old.id
          /\ \A old \in sessions : \E x \in sessions' : x.id = old.id
      <4>1. sessions' = (sessions \ {s}) \cup {aged}
        BY <2>3 DEF Expire
      <4> HIDE DEF aged
      <4> QED BY <3>0, <4>1 DEF SessionsInv, TypeOK
    <3> QED
      BY <2>3, <3>1, BackgroundStepsKeepInv
         DEF Expire, SessionsInv, TokensEndWithSession
  <2>4. CASE ClearExpiredSessions
    <3>1. PICK gone : RemoveSessions(gone)
      BY <2>4 DEF ClearExpiredSessions
    <3> QED
      BY <2>4, <3>1, RemovalCascades, BackgroundStepsKeepInv
         DEF ClearExpiredSessions, SessionsInv, TypeOK
  <2>5. CASE UNCHANGED vars
    BY <2>5, BackgroundStepsKeepInv
       DEF vars, tables, SessionsInv, TypeOK, TokensEndWithSession
  <2> QED
    BY <2>1, <2>2, <2>3, <2>4, <2>5 DEF Next
<1> QED
  BY <1>1, InitInv, PTL DEF Spec

\* Type correctness of the sessions, the tokens and the requests.
THEOREM SessionsTypes == Spec => []TypeOK
<1>1. SessionsInv => TypeOK
  BY DEF SessionsInv
<1> QED BY <1>1, Inductive, PTL

\* AuthService.refreshAccessToken exchanges a refresh token at most once.
THEOREM TokensExchangedOnce == Spec => []ExchangedOnce
<1>1. SessionsInv => ExchangedOnce
  BY DEF SessionsInv
<1> QED BY <1>1, Inductive, PTL

\* A session never has two refresh tokens at a time.
THEOREM SessionsHaveOneToken == Spec => []OneTokenPerSession
<1>1. SessionsInv => OneTokenPerSession
  BY DEF SessionsInv
<1> QED BY <1>1, Inductive, PTL

\* No refresh token outlives its session, not even one that a refresh in
\* progress was about to create.
THEOREM TokensEnd == Spec => []TokensEndWithSession
<1>1. SessionsInv => TokensEndWithSession
  BY DEF SessionsInv
<1> QED BY <1>1, Inductive, PTL

-----------------------------------------------------------------------------
(***************************************************************************)
(* Sessions stay renewable, and devices have few.  Ids of sessions are     *)
(* unique; a login touches the account of its own session; and for each    *)
(* device there is a function from its sessions to the requests that made  *)
(* them, which is one to one, because a request that has read the device's *)
(* sessions has read the one that its process made before.                 *)
(***************************************************************************)
Bringing == {"touchAccount", "findSession", "createToken"}

UniqueIds == \A s, u \in sessions : s.id = u.id => s = u

TouchOK ==
  \A p \in Proc, s \in sessions :
    (req[p].pc = "touchAccount" /\ s.id = req[p].session) => s.user = req[p].user

\* The process q did not make the session s, or its login will remove s.
WillEvict(q, s) ==
  req[q].device = s.device =>
    /\ req[q].pc = "deleteSessions" => s.id \in req[q].found
    /\ req[q].pc # "createSession"

\* f says which process made a session of the device d.
Makers(f, d) ==
  \A s \in sessions : s.device = d =>
    /\ f[s.id] \in Proc
    /\ \A t \in sessions :
         (t.device = d /\ f[t.id] = f[s.id]) => t.id = s.id
    /\ WillEvict(f[s.id], s)

DeviceInv == \A d \in Device : \E f \in [Nat -> Proc] : Makers(f, d)

LifeInv == UniqueIds /\ TouchOK /\ SessionsRenewable /\ DeviceInv

\* Every session that is left was there before, with its user and its device.
SessionsStay ==
  /\ active' \subseteq active
  /\ lost \subseteq lost'
  /\ \A s \in sessions' : \E old \in sessions :
       s.id = old.id /\ s.user = old.user /\ s.device = old.device
  /\ UniqueIds'

\* The session i needs no more tokens, or it has one.
Cared(i) ==
  \/ \E t \in tokens' : t.session = i
  \/ \E q \in Proc : req'[q].session = i /\ req'[q].pc \in Bringing
  \/ i \in lost'
  \/ \A s \in sessions' : s.id = i => s.user \notin active'

TokensCared == \A t \in tokens : Cared(t.session)
BringersCared == \A p \in Proc : req[p].pc \in Bringing => Cared(req[p].session)

\* What may become of a request: it goes on to evict what it has read, and to
\* create a session when all of that is gone.
Evicts(q) ==
  req'[q].device \in Device =>
    /\ req'[q].pc = "deleteSessions" =>
         \A s \in sessions' : s.device = req'[q].device => s.id \in req'[q].found
    /\ req'[q].pc = "createSession" =>
         \/ \A s \in sessions' : s.device # req'[q].device
         \/ /\ req[q].pc = "deleteSessions"
            /\ req'[q].device = req[q].device
            /\ \A s \in sessions' : s.id \notin req[q].found

RequestsGoOn ==
  \A q \in Proc :
    \/ req'[q] = req[q]
    \/ req'[q].pc # "touchAccount" /\ Evicts(q)

\* A step keeps LifeInv if it keeps these parts of it.
LEMMA LifeStep ==
  ASSUME SessionsInv, LifeInv, SessionsStay, TokensCared, BringersCared,
         RequestsGoOn
  PROVE  LifeInv'
<1>1. UniqueIds'
  BY DEF SessionsStay
<1>2. TouchOK'
  BY DEF LifeInv, TouchOK, SessionsStay, RequestsGoOn
<1>3. SessionsRenewable'
  <2> SUFFICES ASSUME NEW s \in sessions'
               PROVE  Cared(s.id) \/ s.user \notin active' \/ s.id \in lost'
    BY DEF SessionsRenewable, Cared, BringsToken, Bringing
  <2>1. PICK old \in sessions : s.id = old.id /\ s.user = old.user
    BY DEF SessionsStay
  <2>2. CASE \E t \in tokens : t.session = old.id
    BY <2>1, <2>2 DEF TokensCared
  <2>3. CASE \E p \in Proc : BringsToken(p, old)
    BY <2>1, <2>3 DEF BringersCared, BringsToken, Bringing
  <2>4. CASE old.user \notin active
    BY <2>1, <2>4 DEF SessionsStay
  <2>5. CASE old.id \in lost
    BY <2>1, <2>5 DEF SessionsStay
  <2> QED
    BY <2>2, <2>3, <2>4, <2>5 DEF LifeInv, SessionsRenewable
<1>4. DeviceInv'
  <2> SUFFICES ASSUME NEW d \in Device
               PROVE  \E f \in [Nat -> Proc] : Makers(f, d)'
    BY DEF DeviceInv
  <2>1. PICK f \in [Nat -> Proc] : Makers(f, d)
    BY DEF LifeInv, DeviceInv
  <2>2. ASSUME NEW s \in sessions', s.device = d
        PROVE  /\ f[s.id] \in Proc
               /\ \A t \in sessions' :
                    (t.device = d /\ f[t.id] = f[s.id]) => t.id = s.id
               /\ WillEvict(f[s.id], s)'
    <3>1. PICK old \in sessions : s.id = old.id /\ s.device = old.device
      BY DEF SessionsStay
    <3>2. f[s.id] \in Proc /\ WillEvict(f[s.id], old)
      BY <2>1, <2>2, <3>1 DEF Makers
    <3>3. \A t \in sessions' : (t.device = d /\ f[t.id] = f[s.id]) => t.id = s.id
      BY <2>1, <2>2, <3>1 DEF Makers, SessionsStay
    <3>4. WillEvict(f[s.id], s)'
      <4> DEFINE q == f[s.id]
      <4>1. CASE req'[q] = req[q]
        BY <3>1, <3>2, <4>1 DEF WillEvict
      <4>2. CASE Evicts(q)
        BY <2>2, <3>1, <3>2, <4>2 DEF WillEvict, Evicts
      <4> QED
        BY <3>2, <4>1, <4>2 DEF RequestsGoOn
    <3> QED
      BY <3>2, <3>3, <3>4
  <2>3. Makers(f, d)'
    BY <2>2 DEF Makers
  <2> QED
    BY <2>3
<1> QED
  BY <1>1, <1>2, <1>3, <1>4 DEF LifeInv

\* A step that leaves the tables alone.
LEMMA QuietStep ==
  ASSUME SessionsInv, LifeInv, NEW p \in Proc,
         \A q \in Proc \ {p} : req'[q] = req[q],
         UNCHANGED tables, lost \subseteq lost',
         req[p].pc \in Bringing => Cared(req[p].session),
         req'[p].pc # "touchAccount", Evicts(p)
  PROVE  LifeInv'
<1>1. SessionsStay
  BY DEF SessionsStay, tables, LifeInv, UniqueIds
<1>2. TokensCared
  BY DEF TokensCared, Cared, tables
<1>3. BringersCared
  <2> SUFFICES ASSUME NEW q \in Proc, req[q].pc \in Bringing
               PROVE  Cared(req[q].session)
    BY DEF BringersCared
  <2>1. CASE q = p
    BY <2>1
  <2>2. CASE q # p
    BY <2>2 DEF Cared
  <2> QED
    BY <2>1, <2>2
<1>4. RequestsGoOn
  BY DEF RequestsGoOn
<1> QED
  BY <1>1, <1>2, <1>3, <1>4, LifeStep

\* A request that goes nowhere near the sessions of a device.
LEMMA EvictsNothing ==
  ASSUME NEW q, req'[q].pc \notin {"deleteSessions", "createSession"}
  PROVE  Evicts(q)
  BY DEF Evicts

LEMMA Finished ==
  ASSUME SessionsInv, NEW p \in Proc, Finish(p)
  PROVE  /\ req'[p] = Idle /\ req'[p].pc = "idle"
         /\ \A q \in Proc \ {p} : req'[q] = req[q]
  BY DEF Finish, SessionsInv, TypeOK, Idle

LEMMA Went ==
  ASSUME SessionsInv, NEW p \in Proc, NEW label, Goto(p, label)
  PROVE  /\ req'[p] = [req[p] EXCEPT !.pc = label]
         /\ req'[p].pc = label
         /\ req'[p].session = req[p].session
         /\ req'[p].device = req[p].device
         /\ \A q \in Proc \ {p} : req'[q] = req[q]
  BY DEF Goto, SessionsInv, TypeOK, Request

\* A request may end once its session needs no more tokens.
LEMMA ReturnLife ==
  ASSUME SessionsInv, LifeInv, NEW p \in Proc, Return(p),
         req[p].pc \in Bringing => Cared(req[p].session)
  PROVE  LifeInv'
<1>1. /\ req'[p].pc = "idle" /\ \A q \in Proc \ {p} : req'[q] = req[q]
      /\ UNCHANGED tables /\ lost' = lost
  BY Finished DEF Return
<1> QED
  BY <1>1, EvictsNothing, QuietStep

LEMMA FailLife ==
  ASSUME SessionsInv, LifeInv, NEW p \in Proc, Fail(p)
  PROVE  LifeInv'
<1>1. /\ req'[p].pc = "idle" /\ \A q \in Proc \ {p} : req'[q] = req[q]
      /\ UNCHANGED tables
      /\ lost' = lost \cup {s.id : s \in {x \in sessions : BringsToken(p, x)}}
  BY Finished DEF Fail
<1>2. ASSUME req[p].pc \in Bringing
      PROVE  Cared(req[p].session)
  <2>1. CASE \E s \in sessions : s.id = req[p].session
    BY <1>1, <1>2, <2>1 DEF Cared, BringsToken, Bringing
  <2>2. CASE \A s \in sessions : s.id # req[p].session
    BY <1>1, <2>2 DEF Cared, tables
  <2> QED
    BY <2>1, <2>2
<1> QED
  BY <1>1, <1>2, EvictsNothing, QuietStep

LEMMA StartLife ==
  ASSUME SessionsInv, LifeInv, NEW p \in Proc, Start(p)
  PROVE  LifeInv'
<1>1. ASSUME NEW r, Begin(p, r), r.pc \notin {"touchAccount", "deleteSessions"},
             r.pc = "createSession" => r.device = None
      PROVE  LifeInv'
  <2>1. /\ req'[p] = r /\ \A q \in Proc \ {p} : req'[q] = req[q]
        /\ req[p].pc = "idle" /\ UNCHANGED tables /\ lost' = lost
    BY <1>1 DEF Begin, SessionsInv, TypeOK
  <2>2. Evicts(p)
    BY <1>1, <2>1, SessionsAssumption DEF Evicts
  <2> QED
    BY <1>1, <2>1, <2>2, QuietStep DEF Bringing
<1>2. CASE StartLogin(p)
  <2>1. PICK u \in active, d \in Device \cup {None} :
          Begin(p, [Idle EXCEPT
                !.pc = IF d = None THEN "createSession" ELSE "findSessions",
                !.user = u, !.device = d])
    BY <1>2 DEF StartLogin
  <2> QED
    BY <1>1, <2>1 DEF Idle
<1>3. CASE StartRefresh(p)
  BY <1>1, <1>3 DEF StartRefresh, Idle
<1>4. CASE StartLogout(p)
  BY <1>1, <1>4 DEF StartLogout, Idle
<1> QED
  BY <1>2, <1>3, <1>4 DEF Start

\* When sessions are removed their tokens go, and those who bring them tokens
\* need not.
LEMMA RemovalStep ==
  ASSUME SessionsInv, LifeInv, NEW p \in Proc, NEW gone \in SUBSET sessions,
         RemoveSessions(gone),
         \A q \in Proc \ {p} : req'[q] = req[q],
         active' = active, lost' = lost,
         req'[p] = req[p] \/ req[p].pc \notin Bringing,
         req'[p] = req[p] \/ (req'[p].pc # "touchAccount" /\ Evicts(p))
  PROVE  LifeInv'
<1>1. /\ sessions' = sessions \ gone
      /\ tokens' = {t \in tokens : \A s \in gone : t.session # s.id}
  BY DEF RemoveSessions
<1>2. SessionsStay
  BY <1>1 DEF SessionsStay, LifeInv, UniqueIds
<1>3. TokensCared
  <2> SUFFICES ASSUME NEW t \in tokens
               PROVE  Cared(t.session)
    BY DEF TokensCared
  <2>1. CASE t \in tokens'
    BY <2>1 DEF Cared
  <2>2. CASE t \notin tokens'
    <3>1. PICK s \in gone : t.session = s.id
      BY <1>1, <2>2
    <3>2. \A x \in sessions' : x.id # s.id
      BY <1>1, <3>1 DEF LifeInv, UniqueIds
    <3> QED
      BY <3>1, <3>2 DEF Cared
  <2> QED
    BY <2>1, <2>2
<1>4. BringersCared
  BY DEF BringersCared, Cared
<1>5. RequestsGoOn
  BY DEF RequestsGoOn
<1> QED
  BY <1>2, <1>3, <1>4, <1>5, LifeStep

\* A login that reads the device's sessions reads those its process made before.
LEMMA FindSessionsLife ==
  ASSUME SessionsInv, LifeInv, NEW p \in Proc, FindSessions(p)
  PROVE  LifeInv'
<1> DEFINE found == {s \in sessions : s.device = req[p].device}
<1> DEFINE label == IF found = {} THEN "createSession" ELSE "deleteSessions"
<1>1. /\ req' = [req EXCEPT ![p].found = {s.id : s \in found}, ![p].pc = label]
      /\ req[p].pc = "findSessions" /\ UNCHANGED tables /\ lost' = lost
  BY DEF FindSessions
<1>2. /\ req'[p] = [req[p] EXCEPT !.found = {s.id : s \in found}, !.pc = label]
      /\ \A q \in Proc \ {p} : req'[q] = req[q]
  BY <1>1 DEF SessionsInv, TypeOK
<1>3. /\ req'[p].pc = label /\ req'[p].device = req[p].device
      /\ req'[p].found = {s.id : s \in found}
  BY <1>2 DEF SessionsInv, TypeOK, Request
<1>4. /\ label \in {"createSession", "deleteSessions"}
      /\ label = "createSession" => \A s \in sessions : s.device # req[p].device
      /\ \A s \in sessions : s.device = req[p].device => s.id \in {x.id : x \in found}
  OBVIOUS
<1> HIDE DEF label, found
<1>5. Evicts(p)
  BY <1>1, <1>3, <1>4 DEF Evicts, tables
<1> QED
  BY <1>1, <1>2, <1>3, <1>4, <1>5, QuietStep DEF Bringing

LEMMA DeleteSessionsLife ==
  ASSUME SessionsInv, LifeInv, NEW p \in Proc, DeleteSessions(p)
  PROVE  LifeInv'
<1> DEFINE gone == {s \in sessions : s.id \in req[p].found}
<1>1. /\ RemoveSessions(gone) /\ Goto(p, "createSession")
      /\ req[p].pc = "deleteSessions" /\ active' = active /\ lost' = lost
  BY DEF DeleteSessions
<1>2. /\ req'[p].pc = "createSession" /\ req'[p].device = req[p].device
      /\ \A q \in Proc \ {p} : req'[q] = req[q]
  BY <1>1, Went
<1>3. Evicts(p)
  BY <1>1, <1>2 DEF Evicts, RemoveSessions
<1>4. gone \in SUBSET sessions
  OBVIOUS
<1> HIDE DEF gone
<1> QED
  BY <1>1, <1>2, <1>3, <1>4, RemovalStep DEF Bringing

\* The process that makes a session of a device has no other one there.
LEMMA CreateSessionLife ==
  ASSUME SessionsInv, LifeInv, NEW p \in Proc, CreateSession(p)
  PROVE  LifeInv'
<1>0. PICK new : new = NewSession(req[p])
  OBVIOUS
<1>1. /\ new.id = nextSession /\ new.user = req[p].user
      /\ new.device = req[p].device
  BY <1>0 DEF NewSession
<1>2. /\ sessions' = sessions \cup {new} /\ req[p].pc = "createSession"
      /\ active' = active /\ tokens' = tokens /\ lost' = lost
  BY <1>0 DEF CreateSession
<1>3. /\ req'[p].pc = "touchAccount" /\ req'[p].session = nextSession
      /\ req'[p].user = req[p].user /\ req'[p].device = None
      /\ \A q \in Proc \ {p} : req'[q] = req[q]
  BY DEF CreateSession, SessionsInv, TypeOK, Request
<1>4. /\ nextSession \in Nat /\ \A s \in sessions : s.id # nextSession
      /\ \A q \in Proc : req[q].session # nextSession
  BY DEF SessionsInv, TypeOK, IdsOK, UserSession, Request
<1>5. UniqueIds'
  BY <1>1, <1>2, <1>4 DEF LifeInv, UniqueIds
<1>6. TouchOK'
  <2> SUFFICES ASSUME NEW q \in Proc, NEW s \in sessions',
                      req'[q].pc = "touchAccount", s.id = req'[q].session
               PROVE  s.user = req'[q].user
    BY DEF TouchOK
  <2>1. CASE q = p
    BY <1>1, <1>2, <1>3, <1>4, <2>1
  <2>2. CASE q # p
    BY <1>1, <1>2, <1>3, <1>4, <2>2 DEF LifeInv, TouchOK
  <2> QED
    BY <2>1, <2>2
<1>7. SessionsRenewable'
  <2>1. \A s \in sessions : \A q \in Proc : BringsToken(q, s) => q # p /\ BringsToken(q, s)'
    BY <1>2, <1>3 DEF BringsToken
  <2>2. \A s \in sessions :
          \/ \E t \in tokens' : t.session = s.id
          \/ \E q \in Proc : BringsToken(q, s)'
          \/ s.user \notin active' \/ s.id \in lost'
    BY <1>2, <2>1 DEF LifeInv, SessionsRenewable
  <2>3. BringsToken(p, new)'
    BY <1>1, <1>3 DEF BringsToken
  <2> QED
    BY <1>2, <2>2, <2>3 DEF SessionsRenewable
<1>8. DeviceInv'
  <2> SUFFICES ASSUME NEW d \in Device
               PROVE  \E f \in [Nat -> Proc] : Makers(f, d)'
    BY DEF DeviceInv
  <2>1. PICK f \in [Nat -> Proc] : Makers(f, d)
    BY DEF LifeInv, DeviceInv
  <2>0. PICK g : g = [f EXCEPT ![nextSession] = p]
    OBVIOUS
  <2>2. g \in [Nat -> Proc] /\ g[nextSession] = p
    BY <1>4, <2>0
  <2>3. \A s \in sessions : g[s.id] = f[s.id]
    BY <1>4, <2>0 DEF SessionsInv, TypeOK, UserSession
  <2>4. ASSUME NEW s \in sessions, s.device = d
        PROVE  f[s.id] \in Proc /\ WillEvict(f[s.id], s)' /\ (new.device = d => f[s.id] # p)
    <3>1. f[s.id] \in Proc /\ WillEvict(f[s.id], s)
      BY <2>1, <2>4 DEF Makers
    <3>2. WillEvict(f[s.id], s)'
      BY <1>3, <3>1 DEF WillEvict
    <3>3. new.device = d => f[s.id] # p
      BY <1>1, <1>2, <2>4, <3>1 DEF WillEvict
    <3> QED
      BY <3>1, <3>2, <3>3
  <2>5. WillEvict(p, new)'
    BY <1>3 DEF WillEvict
  <2>6. ASSUME NEW s \in sessions', s.device = d
        PROVE  /\ g[s.id] \in Proc
               /\ \A t \in sessions' :
                    (t.device = d /\ g[t.id] = g[s.id]) => t.id = s.id
               /\ WillEvict(g[s.id], s)'
    <3>1. CASE s \in sessions
      <4>1. \A t \in sessions : (t.device = d /\ g[t.id] = g[s.id]) => t.id = s.id
        BY <2>1, <2>3, <2>6, <3>1 DEF Makers
      <4>2. new.device = d => g[new.id] # g[s.id]
        BY <1>1, <2>2, <2>3, <2>4, <2>6, <3>1
      <4> QED
        BY <1>2, <2>3, <2>4, <2>6, <3>1, <4>1, <4>2
    <3>2. CASE s = new
      <4>1. \A t \in sessions : t.device = d => g[t.id] # p
        BY <2>3, <2>4, <2>6, <3>2
      <4> QED
        BY <1>1, <1>2, <2>2, <2>5, <3>2, <4>1
    <3> QED
      BY <1>2, <3>1, <3>2
  <2>7. Makers(g, d)'
    BY <2>6 DEF Makers
  <2> QED
    BY <2>2, <2>7
<1> QED
  BY <1>5, <1>6, <1>7, <1>8 DEF LifeInv

\* A login goes on to its token; only a deleted account ends it.
LEMMA TouchAccountLife ==
  ASSUME SessionsInv, LifeInv, NEW p \in Proc, TouchAccount(p)
  PROVE  LifeInv'
<1>1. CASE Return(p) /\ req[p].user \notin active
  <2>1. Cared(req[p].session)
    BY <1>1 DEF TouchAccount, Cared, Return, tables, LifeInv, TouchOK
  <2> QED
    BY <1>1, <2>1, ReturnLife
<1>2. CASE Goto(p, "createToken") /\ UNCHANGED <<tables, lost>>
  <2>1. /\ req'[p].pc = "createToken" /\ req'[p].session = req[p].session
        /\ \A q \in Proc \ {p} : req'[q] = req[q]
    BY <1>2, Went
  <2>2. Cared(req[p].session)
    BY <2>1 DEF Cared, Bringing
  <2> QED
    BY <1>2, <2>1, <2>2, EvictsNothing, QuietStep
<1> QED
  BY <1>1, <1>2 DEF TouchAccount

LEMMA FindSessionLife ==
  ASSUME SessionsInv, LifeInv, NEW p \in Proc, FindSession(p)
  PROVE  LifeInv'
<1>1. CASE Return(p) /\ SessionWithId(req[p].session) = {}
  <2>1. Cared(req[p].session)
    BY <1>1 DEF Cared, Return, tables
  <2> QED
    BY <1>1, <2>1, ReturnLife
<1>2. CASE Goto(p, "createToken") /\ UNCHANGED <<tables, lost>>
  <2>1. /\ req'[p].pc = "createToken" /\ req'[p].session = req[p].session
        /\ \A q \in Proc \ {p} : req'[q] = req[q]
    BY <1>2, Went
  <2>2. Cared(req[p].session)
    BY <2>1 DEF Cared, Bringing
  <2> QED
    BY <1>2, <2>1, <2>2, EvictsNothing, QuietStep
<1> QED
  BY <1>1, <1>2 DEF FindSession

\* The request that deletes a session's token brings it the next one.
LEMMA DeleteTokenLife ==
  ASSUME SessionsInv, LifeInv, NEW p \in Proc, DeleteToken(p)
  PROVE  LifeInv'
<1>1. CASE Return(p)
  BY <1>1, ReturnLife DEF DeleteToken, Bringing
<1>2. CASE Goto(p, "findSession") /\ ~Return(p)
  <2>1. /\ req'[p].pc = "findSession" /\ req'[p].session = req[p].session
        /\ \A q \in Proc \ {p} : req'[q] = req[q]
    BY <1>2, Went
  <2>2. /\ tokens' = tokens \ TokenWithId(req[p].token) /\ active' = active
        /\ sessions' = sessions /\ lost' = lost /\ req[p].pc = "deleteToken"
    BY <1>2 DEF DeleteToken
  <2>3. TokensCared
    BY <2>1, <2>2 DEF TokensCared, Cared, Bringing, SessionsInv, ReadOK
  <2>4. BringersCared
    BY <2>1, <2>2 DEF BringersCared, Cared, Bringing
  <2>5. SessionsStay
    BY <2>2 DEF SessionsStay, LifeInv, UniqueIds
  <2>6. RequestsGoOn
    BY <2>1, EvictsNothing DEF RequestsGoOn
  <2> QED
    BY <2>3, <2>4, <2>5, <2>6, LifeStep
<1> QED
  BY <1>1, <1>2 DEF DeleteToken

LEMMA CreateTokenLife ==
  ASSUME SessionsInv, LifeInv, NEW p \in Proc, CreateToken(p)
  PROVE  LifeInv'
<1>1. CASE Return(p) /\ ~SessionExists(p)
  <2>1. Cared(req[p].session)
    BY <1>1 DEF Cared, Return, tables, SessionExists
  <2> QED
    BY <1>1, <2>1, ReturnLife
<1>2. CASE Finish(p) /\ ~(Return(p) /\ ~SessionExists(p))
  <2>1. /\ req'[p].pc = "idle" /\ \A q \in Proc \ {p} : req'[q] = req[q]
    BY <1>2, Finished
  <2>2. /\ tokens' = tokens \cup
                       {[id |-> nextToken, session |-> req[p].session]}
        /\ active' = active /\ sessions' = sessions /\ lost' = lost
    BY <1>2 DEF CreateToken
  <2>3. TokensCared
    BY <2>2 DEF TokensCared, Cared
  <2>4. BringersCared
    <3>1. \E t \in tokens' : t.session = req[p].session
      <4> DEFINE t == [id |-> nextToken, session |-> req[p].session]
      <4>1. t \in tokens'
        BY <2>2
      <4> QED
        BY <4>1
    <3>2. \A q \in Proc \ {p} : req[q].pc \in Bringing => Cared(req[q].session)
      BY <2>1 DEF Cared
    <3> QED
      BY <3>1, <3>2 DEF BringersCared, Cared
  <2>5. SessionsStay
    BY <2>2 DEF SessionsStay, LifeInv, UniqueIds
  <2>6. RequestsGoOn
    BY <2>1, EvictsNothing DEF RequestsGoOn
  <2> QED
    BY <2>3, <2>4, <2>5, <2>6, LifeStep
<1> QED
  BY <1>1, <1>2 DEF CreateToken, Return

LEMMA DeleteSessionLife ==
  ASSUME SessionsInv, LifeInv, NEW p \in Proc, DeleteSession(p)
  PROVE  LifeInv'
<1>1. /\ RemoveSessions(SessionWithId(req[p].session)) /\ Finish(p)
      /\ req[p].pc = "deleteSession" /\ active' = active /\ lost' = lost
  BY DEF DeleteSession
<1>2. /\ req'[p].pc = "idle" /\ \A q \in Proc \ {p} : req'[q] = req[q]
  BY <1>1, Finished
<1> QED
  BY <1>1, <1>2, EvictsNothing, RemovalStep DEF Bringing

\* Accounts, the clock and the job.
LEMMA BackgroundLife ==
  ASSUME SessionsInv, LifeInv,
         \/ \E u \in User : DeleteAccount(u)
         \/ \E s \in sessions : Expire(s)
         \/ ClearExpiredSessions
         \/ UNCHANGED vars
  PROVE  LifeInv'
<1>1. CASE ClearExpiredSessions
  <2>1. PICK p \in Proc : TRUE
    BY SessionsAssumption
  <2>2. /\ RemoveSessions({s \in sessions : s.expired})
        /\ active' = active /\ req' = req /\ lost' = lost
    BY <1>1 DEF ClearExpiredSessions
  <2> QED
    BY <2>1, <2>2, RemovalStep
<1>2. ASSUME req' = req, tokens' = tokens, lost' = lost, SessionsStay
      PROVE  LifeInv'
  <2>1. TokensCared /\ BringersCared /\ RequestsGoOn
    BY <1>2 DEF TokensCared, BringersCared, Cared, RequestsGoOn
  <2> QED
    BY <1>2, <2>1, LifeStep
<1>3. ASSUME NEW s \in sessions, Expire(s)
      PROVE  LifeInv'
  <2> DEFINE aged == [s EXCEPT !.expired = TRUE]
  <2>1. /\ aged.id = s.id /\ aged.user = s.user /\ aged.device = s.device
    BY DEF SessionsInv, TypeOK, UserSession
  <2>2. sessions' = (sessions \ {s}) \cup {aged}
    BY <1>3 DEF Expire
  <2> HIDE DEF aged
  <2>3. SessionsStay
    BY <1>3, <2>1, <2>2 DEF SessionsStay, Expire, LifeInv, UniqueIds
  <2> QED
    BY <1>2, <1>3, <2>3 DEF Expire
<1>4. ASSUME NEW u \in User, DeleteAccount(u)
      PROVE  LifeInv'
  BY <1>2, <1>4 DEF DeleteAccount, SessionsStay, LifeInv, UniqueIds
<1>5. CASE UNCHANGED vars
  BY <1>2, <1>5 DEF vars, tables, SessionsStay, LifeInv, UniqueIds
<1> QED
  BY <1>1, <1>3, <1>4, <1>5

\* LifeInv, which the last two theorems rest on, is inductive: a session is made
\* by one login, which has evicted those of its device.
THEOREM LifeInvariance == Spec => [](SessionsInv /\ LifeInv)
<1>1. Init => LifeInv
  <2> SUFFICES ASSUME Init
               PROVE  LifeInv
    OBVIOUS
  <2>1. sessions = {}
    BY DEF Init
  <2>2. PICK p \in Proc : TRUE
    BY SessionsAssumption
  <2>3. [i \in Nat |-> p] \in [Nat -> Proc]
    OBVIOUS
  <2>4. DeviceInv
    BY <2>1, <2>3 DEF DeviceInv, Makers
  <2> QED
    BY <2>1, <2>4 DEF LifeInv, UniqueIds, TouchOK, SessionsRenewable
<1>2. ASSUME SessionsInv, LifeInv, [Next]_vars
      PROVE  LifeInv'
  <2> USE <1>2
  <2>1. ASSUME NEW p \in Proc, Start(p) \/ Step(p) \/ Fail(p)
        PROVE  LifeInv'
    BY <2>1, StartLife, FailLife, FindSessionsLife, DeleteSessionsLife,
       CreateSessionLife, TouchAccountLife, DeleteTokenLife, FindSessionLife,
       CreateTokenLife, DeleteSessionLife
       DEF Step
  <2> QED
    BY <2>1, BackgroundLife DEF Next
<1> QED
  BY <1>1, <1>2, Inductive, PTL DEF Spec

\* A session keeps its refresh token, or the request that is to give it the next
\* one, until its account is deleted or such a request dies.
THEOREM SessionsStayRenewable == Spec => []SessionsRenewable
<1>1. LifeInv => SessionsRenewable
  BY DEF LifeInv
<1> QED
  BY <1>1, LifeInvariance, PTL

\* Logins leave a device with at most one session per request that may be in
\* progress: the sessions of a device map one to one to the processes.
THEOREM FewSessionsPerDevice == Spec => []SessionsPerDevice
<1>1. SessionsInv /\ LifeInv => SessionsPerDevice
  <2> SUFFICES ASSUME SessionsInv, LifeInv, NEW d \in Device
               PROVE  Cardinality({s \in sessions : s.device = d}) <= Cardinality(Proc)
    BY DEF SessionsPerDevice
  <2> DEFINE S == {s \in sessions : s.device = d}
  <2>1. PICK f \in [Nat -> Proc] : Makers(f, d)
    BY DEF LifeInv, DeviceInv
  <2> DEFINE m == [s \in S |-> f[s.id]]
  <2>2. m \in [S -> Proc]
    BY <2>1 DEF Makers
  <2>3. \A s, t \in S : m[s] = m[t] => s = t
    BY <2>1 DEF Makers, LifeInv, UniqueIds
  <2>4. m \in Injection(S, Proc)
    BY <2>2, <2>3 DEF Injection, IsInjective
  <2> HIDE DEF S, m
  <2>5. Cardinality(S) <= Cardinality(Proc)
    BY <2>4, FS_Injection, SessionsAssumption DEF ExistsInjection
  <2> QED
    BY <2>5 DEF S
<1> QED
  BY <1>1, LifeInvariance, PTL
=============================================================================
