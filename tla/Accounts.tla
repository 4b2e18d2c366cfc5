------------------------------ MODULE Accounts ------------------------------
(***************************************************************************)
(* Accounts: UserService with its validator, query builder and repository, *)
(* the guards a request passes before it reaches a handler, the login, the *)
(* profile, and the accounts that the seed makes when a server starts.     *)
(*                                                                         *)
(* A request is let in on what the guards read: the session, then the      *)
(* account with its roles, then the permissions of those roles.  Its       *)
(* handler looks an address up and writes in another statement.  Nothing   *)
(* runs in a transaction, so all of it may be stale when the row is        *)
(* written.  Rows are never removed: a deletion marks them.                *)
(***************************************************************************)
EXTENDS Integers, Sequences

CONSTANTS
  Email,         \* addresses
  Role,          \* roles
  RoleIds,       \* lists of roles that the bodies of requests name
  Managing,      \* the roles with the permissions user:create, :update, :delete
  SeedGroups,    \* the accounts of the seed, those of a group made at one time
  InitAccounts,  \* tables the system is started with
  Proc,          \* requests that may be in progress at the same time
  MaxRequests,   \* bound on the number of requests and starts of a server
  Faults,        \* whether requests die half-way
  None           \* an address left out

VARIABLES
  accounts,      \* rows of User, an account's id is its place
  sessions,      \* the accounts that have had a session
  req,           \* the request each process is working on
  started        \* how many requests have been started

vars == <<accounts, sessions, req, started>>

Account == [email : Email, roles : SUBSET Role, active : BOOLEAN,
            deleted : BOOLEAN]
SeedAccount == [email : Email, role : Role]

ASSUME AccountsAssumption ==
  /\ None \notin Email
  /\ RoleIds \subseteq SUBSET Role
  /\ Managing \subseteq Role
  /\ SeedGroups \in Seq(SUBSET SeedAccount)
  /\ MaxRequests \in Nat
  /\ Faults \in BOOLEAN

\* A table that earlier requests left: addresses differ, also those of deleted
\* accounts, and a deleted account is not active.
ASSUME InitAccountsAssumption ==
  \A t \in InitAccounts :
    /\ t \in Seq(Account)
    /\ \A i, j \in DOMAIN t : t[i].email = t[j].email => i = j
    /\ \A i \in DOMAIN t : t[i].deleted => ~t[i].active

PC == {"idle", "createSession", "touchAccount", "findSession", "findAccount",
       "authorize", "check", "insert", "update", "delete", "seed"}
Op == {"login", "profile", "updateProfile", "create", "update", "delete"}

\* The requests that are about the account of their caller.
Own == {"profile", "updateProfile"}

(***************************************************************************)
(* A request: its caller (0: not known before AuthGuard) and the roles     *)
(* AuthGuard read of it; the account it is about (0: a new one), the       *)
(* address and roles in its body; for a server that starts the group it    *)
(* seeds, the accounts to look for and those it missed.  before is a       *)
(* history variable: the accounts that were deleted already when the       *)
(* request came in.                                                        *)
(***************************************************************************)
Request ==
  [pc : PC, op : Op, caller : Nat, roles : SUBSET Role, id : Nat,
   email : Email \cup {None}, roleIds : SUBSET Role, before : SUBSET Nat,
   group : Nat, left : SUBSET SeedAccount, missing : SUBSET SeedAccount]

Idle ==
  [pc |-> "idle", op |-> "login", caller |-> 0, roles |-> {}, id |-> 0,
   email |-> None, roleIds |-> {}, before |-> {}, group |-> 0, left |-> {},
   missing |-> {}]

Init ==
  /\ accounts \in InitAccounts
  /\ sessions \in SUBSET DOMAIN accounts
  /\ req = [p \in Proc |-> Idle]
  /\ started = 0

Id == DOMAIN accounts
Deleted == {i \in Id : accounts[i].deleted}

\* Accounts with the address that are not deleted.
FindByEmail(e) == {i \in Id : accounts[i].email = e /\ ~accounts[i].deleted}

Goto(p, label) == req' = [req EXCEPT ![p].pc = label]
Finish(p) == req' = [req EXCEPT ![p] = Idle]

\* A request that ends without having written anything in its last step.
Return(p) == Finish(p) /\ UNCHANGED <<accounts, sessions, started>>

Begin(p, r) ==
  /\ req[p].pc = "idle"
  /\ started < MaxRequests
  /\ req' = [req EXCEPT ![p] = r]
  /\ started' = started + 1
  /\ UNCHANGED <<accounts, sessions>>

-----------------------------------------------------------------------------
(***************************************************************************)
(* Login.  The credentials are checked in the first step (a login that is  *)
(* refused is one that never starts); the session is made; lastLoginAt is  *)
(* written unless the account was deleted, which fails the login only.     *)
(***************************************************************************)
StartLogin(p) ==
  \E e \in Email : \E i \in FindByEmail(e) :
    Begin(p, [Idle EXCEPT !.pc = "createSession", !.caller = i])

CreateSession(p) ==
  /\ req[p].pc = "createSession"
  /\ sessions' = sessions \cup {req[p].caller}
  /\ Goto(p, "touchAccount")
  /\ UNCHANGED <<accounts, started>>

TouchAccount(p) ==
  /\ req[p].pc = "touchAccount"
  /\ Return(p)

(***************************************************************************)
(* Requests with a token.  An access token names a session of its caller.  *)
(* AuthGuard asks of a token only that it is signed and has not expired, so *)
(* one that names no session, as a refresh token is, gets to its lookup    *)
(* too: i is 0 then.                                                       *)
(***************************************************************************)
StartWithToken(p, op, id, e, roleIds) ==
  \E i \in sessions \cup {0} :
    Begin(p, [Idle EXCEPT !.pc = "findSession", !.op = op, !.caller = i,
                          !.id = id, !.email = e, !.roleIds = roleIds,
                          !.before = Deleted])

StartGetProfile(p) == StartWithToken(p, "profile", 0, None, {})

StartUpdateProfile(p) ==
  \E e \in Email \cup {None}, roleIds \in RoleIds \cup {{}} :
    StartWithToken(p, "updateProfile", 0, e, roleIds)

StartCreate(p) ==
  \E e \in Email, roleIds \in RoleIds : StartWithToken(p, "create", 0, e, roleIds)

StartUpdate(p) ==
  \E id \in Id, e \in Email \cup {None}, roleIds \in RoleIds \cup {{}} :
    StartWithToken(p, "update", id, e, roleIds)

StartDelete(p) ==
  \E id \in Id : StartWithToken(p, "delete", id, None, {})

(***************************************************************************)
(* AuthGuard.  The session may have ended since, which is for Sessions to  *)
(* say; without the id of a session the lookup has no condition and any    *)
(* session is found.  The request goes on as the account of the session    *)
(* found.  The account is found by its id, even if it is deleted.          *)
(***************************************************************************)
SessionsFound(caller) == IF caller = 0 THEN sessions ELSE {caller}

FindSession(p) ==
  LET r == req[p] IN
  /\ r.pc = "findSession"
  /\ \/ /\ \E i \in SessionsFound(r.caller) :
             req' = [req EXCEPT ![p].pc = "findAccount", ![p].caller = i,
                                ![p].id = IF r.op \in Own THEN i ELSE r.id]
        /\ UNCHANGED <<accounts, sessions, started>>
     \/ Return(p)

FindAccount(p) ==
  LET account == accounts[req[p].caller] IN
  /\ req[p].pc = "findAccount"
  /\ \/ /\ account.active
        /\ req[p].op # "profile"
        /\ req' = [req EXCEPT
                     ![p].roles = account.roles,
                     ![p].pc = IF req[p].op = "updateProfile" THEN "check"
                               ELSE "authorize"]
        /\ UNCHANGED <<accounts, sessions, started>>
     \/ /\ ~account.active \/ req[p].op = "profile"
        /\ Return(p)

\* Where a handler begins.
Handler(op) == IF op = "delete" THEN "delete" ELSE "check"

\* Mutant: whoever has a role passes.
AnyRole(roles) == roles # {}

MayManage(roles) == roles \cap Managing # {}

\* PermissionGuard, on the roles that AuthGuard read.
Authorize(p) ==
  /\ req[p].pc = "authorize"
  /\ \/ /\ MayManage(req[p].roles)
        /\ Goto(p, Handler(req[p].op))
        /\ UNCHANGED <<accounts, sessions, started>>
     \/ /\ ~MayManage(req[p].roles)
        /\ Return(p)

(***************************************************************************)
(* createAccount and updateAccount: 'User already exists' is found among   *)
(* the accounts that are not deleted, an update without an address does    *)
(* not look.                                                               *)
(***************************************************************************)
CheckEmail(p) ==
  LET r == req[p] IN
  /\ r.pc = "check"
  /\ \/ /\ FindByEmail(r.email) \subseteq {r.id}
        /\ Goto(p, IF r.op = "create" THEN "insert" ELSE "update")
        /\ UNCHANGED <<accounts, sessions, started>>
     \/ /\ ~(FindByEmail(r.email) \subseteq {r.id})
        /\ Return(p)

\* Mutant: the unique index leaves deleted accounts out.
TakenByLive(e, id) == FindByEmail(e) \ {id} # {}

\* The unique index of addresses spans deleted accounts too: another row has e.
Taken(e, id) == \E i \in Id \ {id} : accounts[i].email = e

\* Mutant: the columns of the new row are taken from the wrong parameters.
MixesParameters(e, roles) ==
  [email |-> roles, roles |-> roles, active |-> TRUE, deleted |-> FALSE]

NewAccount(e, roles) ==
  [email |-> e, roles |-> roles, active |-> TRUE, deleted |-> FALSE]

InsertAccount(p) ==
  /\ req[p].pc = "insert"
  /\ \/ /\ ~Taken(req[p].email, 0)
        /\ accounts' = Append(accounts, NewAccount(req[p].email, req[p].roleIds))
        /\ Finish(p)
        /\ UNCHANGED <<sessions, started>>
     \/ /\ Taken(req[p].email, 0)
        /\ Return(p)

\* Mutant: the update does not leave deleted accounts alone.
EvenDeleted(r) ==
  /\ r.roleIds = {}
  /\ ~Taken(r.email, r.id)

\* The statement is refused when it names roleIds, which is no column, when the
\* account is deleted, or when the address is taken.
Updatable(r) ==
  /\ r.roleIds = {}
  /\ ~accounts[r.id].deleted
  /\ ~Taken(r.email, r.id)

UpdateAccount(p) ==
  LET r == req[p] IN
  /\ r.pc = "update"
  /\ \/ /\ Updatable(r)
        /\ accounts' = [accounts EXCEPT
                          ![r.id].email = IF r.email = None THEN @ ELSE r.email]
        /\ Finish(p)
        /\ UNCHANGED <<sessions, started>>
     \/ /\ ~Updatable(r)
        /\ Return(p)

\* Mutant: a deleted account stays active.
StaysActive(account) == [account EXCEPT !.deleted = TRUE]

MarkDeleted(account) == [account EXCEPT !.deleted = TRUE, !.active = FALSE]

\* deleteAccount does not ask whether the account was deleted before.
DeleteAccount(p) ==
  /\ req[p].pc = "delete"
  /\ accounts' = [accounts EXCEPT ![req[p].id] = MarkDeleted(@)]
  /\ Finish(p)
  /\ UNCHANGED <<sessions, started>>

-----------------------------------------------------------------------------
(***************************************************************************)
(* The seed of a server that starts.  Each of its accounts is looked for   *)
(* by address, among all rows, and made when there is none.  The managers  *)
(* are made at the same time, then the members.                            *)
(***************************************************************************)
SeedGroup(p, g) ==
  req' = [req EXCEPT ![p].pc = "seed", ![p].group = g, ![p].left = SeedGroups[g]]

StartServer(p) ==
  /\ SeedGroups # << >>
  /\ Begin(p, [Idle EXCEPT !.pc = "seed", !.group = 1, !.left = SeedGroups[1]])

SeedFind(p) ==
  /\ req[p].pc = "seed"
  /\ \E a \in req[p].left :
       req' = [req EXCEPT ![p].left = @ \ {a},
                          ![p].missing = IF Taken(a.email, 0) THEN @
                                         ELSE @ \cup {a}]
  /\ UNCHANGED <<accounts, sessions, started>>

\* The seed ends with an error when the address was taken in between.
SeedCreate(p) ==
  /\ req[p].pc = "seed"
  /\ \E a \in req[p].missing :
       \/ /\ ~Taken(a.email, 0)
          /\ accounts' = Append(accounts, NewAccount(a.email, {a.role}))
          /\ req' = [req EXCEPT ![p].missing = @ \ {a}]
          /\ UNCHANGED <<sessions, started>>
       \/ /\ Taken(a.email, 0)
          /\ Return(p)

SeedGroupDone(p) ==
  /\ req[p].pc = "seed"
  /\ req[p].left \cup req[p].missing = {}
  /\ \/ /\ req[p].group < Len(SeedGroups)
        /\ SeedGroup(p, req[p].group + 1)
        /\ UNCHANGED <<accounts, sessions, started>>
     \/ /\ req[p].group >= Len(SeedGroups)
        /\ Return(p)

\* The server stops, or the database cannot be reached, between two statements.
Fail(p) ==
  /\ Faults
  /\ req[p].pc # "idle"
  /\ Return(p)

Start(p) ==
  \/ StartLogin(p)
  \/ StartGetProfile(p)
  \/ StartUpdateProfile(p)
  \/ StartCreate(p)
  \/ StartUpdate(p)
  \/ StartDelete(p)
  \/ StartServer(p)

Step(p) ==
  \/ CreateSession(p)
  \/ TouchAccount(p)
  \/ FindSession(p)
  \/ FindAccount(p)
  \/ Authorize(p)
  \/ CheckEmail(p)
  \/ InsertAccount(p)
  \/ UpdateAccount(p)
  \/ DeleteAccount(p)
  \/ SeedFind(p)
  \/ SeedCreate(p)
  \/ SeedGroupDone(p)

Next == \E p \in Proc : Start(p) \/ Step(p) \/ Fail(p)

Spec == Init /\ [][Next]_vars
-----------------------------------------------------------------------------
\* The table, the sessions and every request record hold values of their types.
TypeOK ==
  /\ accounts \in Seq(Account)
  /\ sessions \subseteq Id
  /\ req \in [Proc -> Request]
  /\ started \in Nat

\* No two rows have one address, whatever creations, updates and seeds overlap:
\* a login finds one account, and the seed never makes an account it has made.
EmailsUnique ==
  \A i, j \in Id : accounts[i].email = accounts[j].email => i = j

\* A deleted account is never written again, although an update may have looked
\* at it, or a login may have checked its password, before it was deleted.
DeletedAccountsFrozen ==
  [][\A i \in Id : accounts[i].deleted =>
       i \in Id' /\ accounts'[i] = accounts[i]]_vars

\* No request gets past AuthGuard as an account that was deleted already when the
\* request came in: although the session is there still, or is made after the
\* deletion by a login that had begun, and whichever session a token without the
\* id of one finds.
NoEntryAfterDeletion ==
  \A p \in Proc :
    req[p].pc \notin {"idle", "seed", "findSession", "findAccount"} =>
      req[p].caller \notin req[p].before

\* The process p writes in this step; it acts as an account that was not deleted
\* when its request came in.
Writes(p) == req[p].pc \in {"insert", "update", "delete", "seed"} /\ req'[p] # req[p]
Manages(p) ==
  /\ req[p].caller \in Id \ req[p].before
  /\ accounts[req[p].caller].roles \cap Managing # {}
IsOwn(p, i) == req[p].caller = i /\ i \notin req[p].before

\* A row is written for an account with a role that manages accounts, or whose
\* own row it is, which was not deleted when the request came in (it may have
\* been since: the guards do not look again); the row is the one that was asked
\* for, and rows are added for such an account or by the seed.
ChangesAuthorized ==
  [][/\ \A i \in Id : accounts'[i] # accounts[i] => \E p \in Proc :
          /\ Writes(p)
          /\ req[p].id = i
          /\ Manages(p) \/ IsOwn(p, i)
     /\ Id' # Id => \E p \in Proc :
          /\ Writes(p)
          /\ req[p].pc = "seed" \/ Manages(p)]_vars
=============================================================================
