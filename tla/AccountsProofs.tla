--------------------------- MODULE AccountsProofs ---------------------------
(***************************************************************************)
(* Theorems about Accounts, for every table to start with, every seed and  *)
(* any number of requests.  One inductive invariant serves all of them:    *)
(* the roles a guard has read are those of the row when the handler writes, *)
(* because roles never change; the caller may have been deleted since.     *)
(***************************************************************************)
EXTENDS Accounts, SequenceTheorems, TLAPS

\* Addresses differ, a deleted account is not active.
TableOK(t) ==
  /\ \A i, j \in DOMAIN t : t[i].email = t[j].email => i = j
  /\ \A i \in DOMAIN t : t[i].deleted => ~t[i].active

Guarded == {"findSession", "findAccount", "authorize"}
Handling == {"check", "insert", "update", "delete"}
Outside == {"idle", "seed", "findSession"}

\* What a request has read of its caller holds in the table t, and the account
\* that it is about is there.
ReqOK(r, t) ==
  /\ r.pc \notin Outside => r.caller \in DOMAIN t
  /\ r.pc = "findSession" => r.caller \in DOMAIN t \cup {0}
  /\ \A i \in r.before : i \in DOMAIN t /\ t[i].deleted
  /\ r.pc \notin Outside \cup {"findAccount"} => r.caller \notin r.before
  /\ r.pc \in Guarded \cup Handling => r.op # "login"
  /\ r.pc = "authorize" => r.op \in {"create", "update", "delete"}
  /\ r.pc = "check" => r.op \in {"create", "update", "updateProfile"}
  /\ r.pc = "insert" => r.op = "create"
  /\ (r.pc \in Guarded \cup Handling /\ r.op = "create") =>
       r.id = 0 /\ r.email \in Email
  /\ (r.pc \in Guarded \cup Handling /\ r.op \in {"update", "delete"}) =>
       r.id \in DOMAIN t
  /\ (r.pc \notin Outside /\ r.op \in Own) => r.id = r.caller
  /\ r.pc \in {"update", "delete"} => r.op # "create"
  /\ r.pc = "authorize" => r.roles = t[r.caller].roles
  /\ r.pc \in Handling =>
       r.op = "updateProfile" \/ t[r.caller].roles \cap Managing # {}
  /\ r.pc = "seed" => r.group \in DOMAIN SeedGroups /\ r.before = {}

Inv ==
  /\ TypeOK
  /\ TableOK(accounts)
  /\ \A p \in Proc : ReqOK(req[p], accounts)

\* What may change in the rows that are there.
Stable(old, new) ==
  /\ DOMAIN old \subseteq DOMAIN new
  /\ \A i \in DOMAIN old : /\ new[i].roles = old[i].roles
                           /\ old[i].deleted => new[i] = old[i]

\* A table that may follow the table old.
Follows(old, new) ==
  new \in Seq(Account) /\ TableOK(new) /\ Stable(old, new)

LEMMA Seqs ==
  \A S : \A s \in Seq(S) : /\ Len(s) \in Nat /\ DOMAIN s = 1..Len(s)
                           /\ \A i \in DOMAIN s : s[i] \in S /\ i \in Nat /\ i # 0
  OBVIOUS

LEMMA IdleOK == Idle \in Request /\ \A t : ReqOK(Idle, t)
<1>1. Idle \in Request
  BY DEF Idle, Request, PC, Op
<1>2. \A t : ReqOK(Idle, t)
  BY DEF Idle, ReqOK, Guarded, Handling, Outside
<1> QED
  BY <1>1, <1>2

\* A request that is right stays so when the table changes as it may.
LEMMA ReqStable ==
  ASSUME NEW r, NEW old, NEW new, Stable(old, new), ReqOK(r, old)
  PROVE  ReqOK(r, new)
<1>1. r.pc \in {"authorize"} \cup Handling =>
        r.caller \in DOMAIN old /\ new[r.caller].roles = old[r.caller].roles
  BY DEF Stable, ReqOK, Handling, Outside
<1>2. \A i \in r.before : i \in DOMAIN new /\ new[i].deleted
  BY DEF Stable, ReqOK
<1> QED
  BY <1>1, <1>2 DEF ReqOK, Stable

LEMMA SameTable ==
  ASSUME Inv
  PROVE  Follows(accounts, accounts)
  BY DEF Inv, TypeOK, Follows, Stable

\* A step gives one process a record that is right.
LEMMA InvStep ==
  ASSUME Inv, NEW p \in Proc, NEW r \in Request,
         req' = [req EXCEPT ![p] = r], Follows(accounts, accounts'),
         ReqOK(r, accounts'), sessions' \subseteq DOMAIN accounts',
         started' \in Nat
  PROVE  Inv'
<1>1. /\ req' \in [Proc -> Request]
      /\ \A q \in Proc : req'[q] = IF q = p THEN r ELSE req[q]
  BY DEF Inv, TypeOK
<1>2. \A q \in Proc : ReqOK(req'[q], accounts')
  BY <1>1, ReqStable DEF Inv, Follows
<1> QED
  BY <1>1, <1>2 DEF Inv, TypeOK, Follows, Id

LEMMA ReturnInv ==
  ASSUME Inv, NEW p \in Proc, Return(p)
  PROVE  Inv'
  BY IdleOK, InvStep, SameTable DEF Return, Finish, Inv, TypeOK, Id

LEMMA FinishInv ==
  ASSUME Inv, NEW p \in Proc, Finish(p), Follows(accounts, accounts'),
         UNCHANGED <<sessions, started>>
  PROVE  Inv'
<1>1. sessions' \subseteq DOMAIN accounts'
  BY DEF Follows, Stable, Inv, TypeOK, Id
<1> QED
  BY <1>1, IdleOK, InvStep DEF Finish, Inv, TypeOK

LEMMA BeginInv ==
  ASSUME Inv, NEW p \in Proc, NEW r \in Request, ReqOK(r, accounts), Begin(p, r)
  PROVE  Inv'
  BY InvStep, SameTable DEF Begin, Inv, TypeOK, Id

LEMMA TokenInv ==
  ASSUME Inv, NEW p \in Proc, NEW op \in Op \ {"login"}, NEW id \in Nat,
         NEW e \in Email \cup {None}, NEW roleIds \in SUBSET Role,
         StartWithToken(p, op, id, e, roleIds),
         op = "create" => id = 0 /\ e \in Email,
         op \in {"update", "delete"} => id \in DOMAIN accounts
  PROVE  Inv'
<1>1. PICK i \in sessions \cup {0} :
        Begin(p, [Idle EXCEPT !.pc = "findSession", !.op = op, !.caller = i,
                              !.id = id, !.email = e, !.roleIds = roleIds,
                              !.before = Deleted])
  BY DEF StartWithToken
<1> DEFINE r == [Idle EXCEPT !.pc = "findSession", !.op = op, !.caller = i,
                             !.id = id, !.email = e, !.roleIds = roleIds,
                             !.before = Deleted]
<1>2. i \in DOMAIN accounts \cup {0} /\ i \in Nat
  BY Seqs DEF Inv, TypeOK, Id
<1>3. Deleted \in SUBSET Nat /\ \A k \in Deleted : k \in DOMAIN accounts /\ accounts[k].deleted
  BY Seqs DEF Inv, TypeOK, Id, Deleted
<1>4. r \in Request
  BY <1>2, <1>3, IdleOK DEF Idle, Request, PC
<1>5. ReqOK(r, accounts)
  BY <1>2, <1>3 DEF Idle, ReqOK, Guarded, Handling, Outside
<1> QED
  BY <1>1, <1>4, <1>5, BeginInv

LEMMA StartInv ==
  ASSUME Inv, NEW p \in Proc, Start(p)
  PROVE  Inv'
<1>0. /\ Id = DOMAIN accounts
      /\ Id \subseteq Nat
      /\ RoleIds \subseteq SUBSET Role
  BY Seqs, AccountsAssumption DEF Inv, TypeOK, Id
<1>1. CASE StartLogin(p)
  <2>1. PICK i \in Id : Begin(p, [Idle EXCEPT !.pc = "createSession", !.caller = i])
    BY <1>1 DEF StartLogin, FindByEmail
  <2> DEFINE r == [Idle EXCEPT !.pc = "createSession", !.caller = i]
  <2>2. r \in Request
    BY <1>0, IdleOK DEF Idle, Request, PC
  <2>3. ReqOK(r, accounts)
    BY <1>0 DEF Idle, ReqOK, Guarded, Handling, Outside, Own
  <2> QED
    BY <2>1, <2>2, <2>3, BeginInv
<1>2. CASE StartGetProfile(p)
  BY <1>0, <1>2, TokenInv DEF StartGetProfile, Op
<1>3. CASE StartUpdateProfile(p)
  BY <1>0, <1>3, TokenInv DEF StartUpdateProfile, Op
<1>4. CASE StartCreate(p)
  BY <1>0, <1>4, TokenInv DEF StartCreate, Op
<1>5. CASE StartUpdate(p)
  BY <1>0, <1>5, TokenInv DEF StartUpdate, Op
<1>6. CASE StartDelete(p)
  BY <1>0, <1>6, TokenInv DEF StartDelete, Op
<1>7. CASE StartServer(p)
  <2> DEFINE r == [Idle EXCEPT !.pc = "seed", !.group = 1, !.left = SeedGroups[1]]
  <2>1. 1 \in DOMAIN SeedGroups /\ SeedGroups[1] \subseteq SeedAccount
    BY <1>7, AccountsAssumption DEF StartServer
  <2>2. r \in Request
    BY <2>1, IdleOK DEF Idle, Request, PC
  <2>3. ReqOK(r, accounts)
    BY <2>1 DEF Idle, ReqOK, Guarded, Handling, Outside
  <2> QED
    BY <1>7, <2>2, <2>3, BeginInv DEF StartServer
<1> QED
  BY <1>1, <1>2, <1>3, <1>4, <1>5, <1>6, <1>7 DEF Start

LEMMA GotoInv ==
  ASSUME Inv, NEW p \in Proc, NEW label \in PC, Goto(p, label),
         ReqOK([req[p] EXCEPT !.pc = label], accounts),
         UNCHANGED <<accounts, started>>, sessions' \subseteq DOMAIN accounts
  PROVE  Inv'
<1> DEFINE r == [req[p] EXCEPT !.pc = label]
<1>1. req[p] \in Request
  BY DEF Inv, TypeOK
<1>2. r \in Request
  BY <1>1 DEF Request
<1>3. req' = [req EXCEPT ![p] = r]
  BY DEF Goto
<1> QED
  BY <1>2, <1>3, SameTable, InvStep DEF Inv, TypeOK

\* The table with one more row, whose address no row has.
LEMMA Appended ==
  ASSUME Inv, NEW e \in Email, NEW roles \in SUBSET Role, ~Taken(e, 0)
  PROVE  /\ Follows(accounts, Append(accounts, NewAccount(e, roles)))
         /\ \A i \in Id : Append(accounts, NewAccount(e, roles))[i] = accounts[i]
<1> DEFINE row == NewAccount(e, roles)
           new == Append(accounts, row)
<1>1. row \in Account /\ row.email = e /\ row.deleted = FALSE
  BY DEF NewAccount, Account
<1>2. accounts \in Seq(Account)
  BY DEF Inv, TypeOK
<1> HIDE DEF row
<1>3. /\ new \in Seq(Account)
      /\ DOMAIN new = 1..(Len(accounts) + 1)
      /\ DOMAIN accounts = 1..Len(accounts) /\ Len(accounts) \in Nat
      /\ new[Len(accounts) + 1] = row
      /\ \A i \in DOMAIN accounts : new[i] = accounts[i]
  BY <1>1, <1>2
<1> HIDE DEF new
<1>4. \A i \in DOMAIN accounts : accounts[i].email # e
  BY <1>3 DEF Taken, Id
<1>5. \A i \in DOMAIN new : i \in DOMAIN accounts \/ new[i] = row
  BY <1>3
<1>6. \A i, j \in DOMAIN new : new[i].email = new[j].email => i = j
  <2> SUFFICES ASSUME NEW i \in DOMAIN new, NEW j \in DOMAIN new,
                      new[i].email = new[j].email
               PROVE  i = j
    OBVIOUS
  <2>1. CASE i \in DOMAIN accounts /\ j \in DOMAIN accounts
    BY <1>3, <2>1 DEF Inv, TableOK
  <2>2. CASE i \in DOMAIN accounts /\ j \notin DOMAIN accounts
    BY <1>1, <1>3, <1>4, <1>5, <2>2
  <2>3. CASE i \notin DOMAIN accounts /\ j \in DOMAIN accounts
    BY <1>1, <1>3, <1>4, <1>5, <2>3
  <2>4. CASE i \notin DOMAIN accounts /\ j \notin DOMAIN accounts
    BY <1>3, <2>4
  <2> QED
    BY <2>1, <2>2, <2>3, <2>4
<1>7. \A i \in DOMAIN new : new[i].deleted => ~new[i].active
  BY <1>1, <1>3, <1>5 DEF Inv, TableOK
<1>8. Follows(accounts, new)
  BY <1>3, <1>6, <1>7 DEF Follows, TableOK, Stable
<1> QED
  BY <1>3, <1>8 DEF Id, new, row

\* The table with one row changed, that was not deleted, and keeps its roles and
\* its address or takes one that no other row has.
LEMMA Changed ==
  ASSUME Inv, NEW i \in DOMAIN accounts, NEW a \in Account,
         a.roles = accounts[i].roles, a.deleted => ~a.active,
         accounts[i].deleted => a = accounts[i],
         \A j \in DOMAIN accounts : accounts[j].email = a.email => j = i
  PROVE  Follows(accounts, [accounts EXCEPT ![i] = a])
<1> DEFINE new == [accounts EXCEPT ![i] = a]
<1>1. /\ new \in Seq(Account)
      /\ DOMAIN new = DOMAIN accounts
      /\ \A j \in DOMAIN accounts : new[j] = IF j = i THEN a ELSE accounts[j]
  BY DEF Inv, TypeOK
<1> HIDE DEF new
<1>2. TableOK(new)
  <2>1. \A j, k \in DOMAIN new : new[j].email = new[k].email => j = k
    BY <1>1 DEF Inv, TableOK
  <2>2. \A j \in DOMAIN new : new[j].deleted => ~new[j].active
    BY <1>1 DEF Inv, TableOK
  <2> QED
    BY <2>1, <2>2 DEF TableOK
<1>3. Stable(accounts, new)
  BY <1>1 DEF Stable
<1>4. Follows(accounts, new)
  BY <1>1, <1>2, <1>3 DEF Follows
<1> QED
  BY <1>4 DEF new

\* What an update or a deletion is about is a row that is there.
LEMMA About ==
  ASSUME Inv, NEW p \in Proc, req[p].pc \in {"update", "delete"}
  PROVE  req[p].op # "create" /\ req[p].id \in DOMAIN accounts
<1>1. ReqOK(req[p], accounts) /\ req[p].op \in Op
  BY DEF Inv, TypeOK, Request
<1>2. req[p].op \in {"update", "delete"} \cup Own
  BY <1>1 DEF ReqOK, Handling, Op, Own
<1>3. req[p].caller \in DOMAIN accounts
  BY <1>1 DEF ReqOK, Outside
<1> QED
  BY <1>1, <1>2, <1>3 DEF ReqOK, Handling, Outside

LEMMA Inserting ==
  ASSUME Inv, NEW p \in Proc, InsertAccount(p), ~Return(p)
  PROVE  /\ req[p].op = "create"
         /\ Finish(p)
         /\ UNCHANGED <<sessions, started>>
         /\ Follows(accounts, accounts')
         /\ \A i \in Id : accounts'[i] = accounts[i]
<1>1. /\ ~Taken(req[p].email, 0)
      /\ accounts' = Append(accounts, NewAccount(req[p].email, req[p].roleIds))
      /\ Finish(p)
      /\ UNCHANGED <<sessions, started>>
      /\ req[p].pc = "insert"
  BY DEF InsertAccount
<1>2. req[p].op = "create" /\ req[p].email \in Email
  BY <1>1 DEF Inv, ReqOK, Handling
<1>3. req[p].roleIds \in SUBSET Role
  BY DEF Inv, TypeOK, Request
<1> QED
  BY <1>1, <1>2, <1>3, Appended

LEMMA Updating ==
  ASSUME Inv, NEW p \in Proc, UpdateAccount(p), ~Return(p)
  PROVE  /\ req[p].op # "create"
         /\ Finish(p)
         /\ UNCHANGED <<sessions, started>>
         /\ Follows(accounts, accounts')
         /\ DOMAIN accounts' = DOMAIN accounts
         /\ \A i \in Id \ {req[p].id} : accounts'[i] = accounts[i]
<1> DEFINE r == req[p]
           e == IF r.email = None THEN accounts[r.id].email ELSE r.email
           a == [accounts[r.id] EXCEPT !.email = e]
<1>1. /\ r.pc = "update" /\ Updatable(r) /\ Finish(p)
      /\ UNCHANGED <<sessions, started>>
      /\ accounts' = [accounts EXCEPT ![r.id].email =
                        IF r.email = None THEN @ ELSE r.email]
  BY DEF UpdateAccount
<1>2. r.op # "create" /\ r.id \in DOMAIN accounts
  BY <1>1, About
<1>3. r.email \in Email \cup {None} /\ accounts[r.id] \in Account
  BY <1>2, Seqs DEF Inv, TypeOK, Request
<1>4. accounts' = [accounts EXCEPT ![r.id] = a]
  BY <1>1
<1>5. /\ a \in Account /\ a.roles = accounts[r.id].roles
      /\ a.email = e /\ a.deleted = accounts[r.id].deleted
      /\ a.active = accounts[r.id].active
  BY <1>3 DEF Account
<1> HIDE DEF a
<1>6. ~accounts[r.id].deleted /\ ~Taken(r.email, r.id)
  BY <1>1 DEF Updatable
<1>7. \A j \in DOMAIN accounts : accounts[j].email = a.email => j = r.id
  BY <1>2, <1>5, <1>6 DEF Taken, Id, Inv, TableOK
<1>8. a.deleted => ~a.active
  BY <1>5, <1>6
<1>9. Follows(accounts, accounts')
  BY <1>2, <1>4, <1>5, <1>6, <1>7, <1>8, Changed
<1> QED
  BY <1>1, <1>2, <1>4, <1>9 DEF Id, Inv, TypeOK

LEMMA Deleting ==
  ASSUME Inv, NEW p \in Proc, DeleteAccount(p)
  PROVE  /\ req[p].op # "create"
         /\ Finish(p)
         /\ UNCHANGED <<sessions, started>>
         /\ Follows(accounts, accounts')
         /\ DOMAIN accounts' = DOMAIN accounts
         /\ \A i \in Id \ {req[p].id} : accounts'[i] = accounts[i]
<1> DEFINE r == req[p]
           a == MarkDeleted(accounts[r.id])
<1>1. /\ r.pc = "delete" /\ Finish(p) /\ UNCHANGED <<sessions, started>>
      /\ accounts' = [accounts EXCEPT ![r.id] = a]
  BY DEF DeleteAccount
<1>2. r.op # "create" /\ r.id \in DOMAIN accounts
  BY <1>1, About
<1>3. accounts[r.id] \in Account
  BY <1>2, Seqs DEF Inv, TypeOK
<1>4. /\ a \in Account /\ a.roles = accounts[r.id].roles
      /\ a.email = accounts[r.id].email /\ ~a.active
  BY <1>3 DEF Account, MarkDeleted
<1>5. accounts[r.id].deleted => ~accounts[r.id].active
  BY <1>2 DEF Inv, TableOK
<1>6. accounts[r.id].deleted => a = accounts[r.id]
  BY <1>3, <1>5 DEF Account, MarkDeleted
<1> HIDE DEF a
<1>7. \A j \in DOMAIN accounts : accounts[j].email = a.email => j = r.id
  BY <1>2, <1>4 DEF Inv, TableOK
<1>8. Follows(accounts, accounts')
  BY <1>1, <1>2, <1>4, <1>6, <1>7, Changed
<1> QED
  BY <1>1, <1>2, <1>8 DEF Id, Inv, TypeOK

LEMMA Seeding ==
  ASSUME Inv, NEW p \in Proc, NEW a \in req[p].missing, req[p].pc = "seed",
         ~Taken(a.email, 0),
         accounts' = Append(accounts, NewAccount(a.email, {a.role}))
  PROVE  /\ Follows(accounts, accounts')
         /\ \A i \in Id : accounts'[i] = accounts[i]
<1>1. a \in SeedAccount
  BY DEF Inv, TypeOK, Request
<1>2. a.email \in Email /\ {a.role} \in SUBSET Role
  BY <1>1 DEF SeedAccount
<1> QED
  BY <1>2, Appended

\* A record of a seed stays right when its sets change.
LEMMA SeedRecord ==
  ASSUME Inv, NEW p \in Proc, req[p].pc = "seed", NEW r \in Request,
         r.pc = "seed", r.op = req[p].op, r.id = req[p].id,
         r.caller = req[p].caller, r.before = req[p].before,
         r.group \in DOMAIN SeedGroups
  PROVE  \A t : ReqOK(r, t)
<1>1. r.before = {}
  BY DEF Inv, ReqOK
<1> QED
  BY <1>1 DEF ReqOK, Guarded, Handling, Outside

LEMMA SeedInv ==
  ASSUME Inv, NEW p \in Proc, SeedFind(p) \/ SeedCreate(p) \/ SeedGroupDone(p)
  PROVE  Inv'
<1>0. req[p] \in Request
  BY DEF Inv, TypeOK
<1>1. /\ req[p].pc = "seed"
      /\ req[p].group \in DOMAIN SeedGroups
  BY DEF SeedFind, SeedCreate, SeedGroupDone, Inv, ReqOK
<1>2. CASE SeedFind(p)
  <2>1. PICK a \in req[p].left :
          req' = [req EXCEPT ![p].left = @ \ {a},
                             ![p].missing = IF Taken(a.email, 0) THEN @
                                            ELSE @ \cup {a}]
    BY <1>2 DEF SeedFind
  <2> DEFINE more == IF Taken(a.email, 0) THEN req[p].missing
                     ELSE req[p].missing \cup {a}
             r == [req[p] EXCEPT !.left = req[p].left \ {a}, !.missing = more]
  <2>2. more \subseteq SeedAccount /\ req[p].left \ {a} \subseteq SeedAccount
    BY <1>0 DEF Request
  <2>3. req' = [req EXCEPT ![p] = r]
    BY <2>1
  <2> HIDE DEF more
  <2>4. r \in Request /\ r.pc = "seed" /\ r.group = req[p].group
        /\ r.op = req[p].op /\ r.id = req[p].id /\ r.caller = req[p].caller
        /\ r.before = req[p].before
    BY <1>0, <1>1, <2>2 DEF Request
  <2> HIDE DEF r
  <2>5. ReqOK(r, accounts)
    BY <1>1, <2>4, SeedRecord
  <2> QED
    BY <1>2, <2>3, <2>4, <2>5, SameTable, InvStep DEF SeedFind, Inv, TypeOK, Id
<1>3. CASE SeedCreate(p)
  <2>1. CASE Return(p)
    BY <2>1, ReturnInv
  <2>2. CASE ~Return(p)
    <3>1. PICK a \in req[p].missing :
            /\ ~Taken(a.email, 0)
            /\ accounts' = Append(accounts, NewAccount(a.email, {a.role}))
            /\ req' = [req EXCEPT ![p].missing = @ \ {a}]
            /\ UNCHANGED <<sessions, started>>
      BY <1>3, <2>2 DEF SeedCreate
    <3> DEFINE r == [req[p] EXCEPT !.missing = req[p].missing \ {a}]
    <3>2. req' = [req EXCEPT ![p] = r]
      BY <3>1
    <3>3. r \in Request /\ r.pc = "seed" /\ r.group = req[p].group
          /\ r.op = req[p].op /\ r.id = req[p].id /\ r.caller = req[p].caller
          /\ r.before = req[p].before
      BY <1>0, <1>1 DEF Request
    <3> HIDE DEF r
    <3>4. ReqOK(r, accounts')
      BY <1>1, <3>3, SeedRecord
    <3>5. Follows(accounts, accounts')
      BY <1>1, <3>1, Seeding
    <3>6. sessions' \subseteq DOMAIN accounts' /\ started' \in Nat
      BY <3>1, <3>5 DEF Follows, Stable, Inv, TypeOK, Id
    <3> QED
      BY <3>2, <3>3, <3>4, <3>5, <3>6, InvStep
  <2> QED
    BY <2>1, <2>2
<1>4. CASE SeedGroupDone(p)
  <2>1. CASE Return(p)
    BY <2>1, ReturnInv
  <2>2. CASE ~Return(p)
    <3>1. /\ req[p].group < Len(SeedGroups)
          /\ SeedGroup(p, req[p].group + 1)
          /\ UNCHANGED <<accounts, sessions, started>>
      BY <1>4, <2>2 DEF SeedGroupDone
    <3> DEFINE g == req[p].group + 1
               r == [req[p] EXCEPT !.pc = "seed", !.group = g,
                                   !.left = SeedGroups[g]]
    <3>2. g \in DOMAIN SeedGroups /\ g \in Nat
          /\ SeedGroups[g] \subseteq SeedAccount
      BY <1>0, <1>1, <3>1, AccountsAssumption DEF Request
    <3>3. req' = [req EXCEPT ![p] = r]
      BY <3>1 DEF SeedGroup
    <3> HIDE DEF g
    <3>4. r \in Request /\ r.pc = "seed" /\ r.group = g
          /\ r.op = req[p].op /\ r.id = req[p].id /\ r.caller = req[p].caller
          /\ r.before = req[p].before
      BY <1>0, <1>1, <3>2 DEF Request, PC
    <3> HIDE DEF r
    <3>5. ReqOK(r, accounts)
      BY <1>1, <3>2, <3>4, SeedRecord
    <3> QED
      BY <3>1, <3>3, <3>4, <3>5, SameTable, InvStep DEF Inv, TypeOK, Id
  <2> QED
    BY <2>1, <2>2
<1> QED
  BY <1>2, <1>3, <1>4

LEMMA StepInv ==
  ASSUME Inv, NEW p \in Proc, Step(p)
  PROVE  Inv'
<1>0. /\ req[p] \in Request
      /\ ReqOK(req[p], accounts)
  BY DEF Inv, TypeOK
<1>1. CASE CreateSession(p)
  <2>1. req[p].caller \in DOMAIN accounts
    BY <1>0, <1>1 DEF CreateSession, ReqOK, Outside
  <2>2. ReqOK([req[p] EXCEPT !.pc = "touchAccount"], accounts)
    BY <1>0, <1>1, <2>1 DEF CreateSession, ReqOK, Guarded, Handling, Outside, Request
  <2>3. sessions' \subseteq DOMAIN accounts
    BY <1>1, <2>1 DEF CreateSession, Inv, TypeOK, Id
  <2> QED
    BY <1>1, <2>2, <2>3, GotoInv DEF CreateSession, PC
<1>2. CASE TouchAccount(p)
  BY <1>2, ReturnInv DEF TouchAccount
<1>3. CASE FindSession(p)
  <2>1. CASE Return(p)
    BY <2>1, ReturnInv
  <2>2. CASE ~Return(p)
    <3>1. /\ req[p].pc = "findSession"
          /\ UNCHANGED <<accounts, sessions, started>>
          /\ \E i \in SessionsFound(req[p].caller) :
               req' = [req EXCEPT ![p].pc = "findAccount", ![p].caller = i,
                                  ![p].id = IF req[p].op \in Own THEN i
                                            ELSE req[p].id]
      BY <1>3, <2>2 DEF FindSession
    <3>2. PICK i \in SessionsFound(req[p].caller) :
            req' = [req EXCEPT ![p].pc = "findAccount", ![p].caller = i,
                               ![p].id = IF req[p].op \in Own THEN i
                                         ELSE req[p].id]
      BY <3>1
    <3> DEFINE about == IF req[p].op \in Own THEN i ELSE req[p].id
               r == [req[p] EXCEPT !.pc = "findAccount", !.caller = i, !.id = about]
    <3>3. i \in DOMAIN accounts /\ i \in Nat
      BY <1>0, <3>1, Seqs DEF SessionsFound, ReqOK, Inv, TypeOK, Id
    <3>4. r \in Request
      BY <1>0, <3>3 DEF Request, PC
    <3>5. /\ r.pc = "findAccount" /\ r.caller = i /\ r.id = about
          /\ r.op = req[p].op /\ r.email = req[p].email
          /\ r.before = req[p].before
      BY <1>0 DEF Request
    <3>6. req' = [req EXCEPT ![p] = r]
      BY <3>2
    <3> HIDE DEF r
    <3>7. ReqOK(r, accounts)
      BY <1>0, <3>1, <3>3, <3>5
         DEF ReqOK, Guarded, Handling, Outside, Own
    <3> QED
      BY <3>1, <3>4, <3>6, <3>7, SameTable, InvStep DEF Inv, TypeOK, Id
  <2> QED
    BY <2>1, <2>2
<1>4. CASE FindAccount(p)
  <2>1. CASE Return(p)
    BY <2>1, ReturnInv
  <2>2. CASE ~Return(p)
    <3> DEFINE account == accounts[req[p].caller]
               label == IF req[p].op = "updateProfile" THEN "check" ELSE "authorize"
               r == [req[p] EXCEPT !.roles = account.roles, !.pc = label]
    <3>1. /\ req[p].pc = "findAccount" /\ account.active
          /\ req[p].op # "profile"
          /\ req' = [req EXCEPT ![p] = r]
          /\ UNCHANGED <<accounts, sessions, started>>
      BY <1>4, <2>2 DEF FindAccount
    <3>2. req[p].caller \in DOMAIN accounts
      BY <1>0, <3>1 DEF ReqOK, Outside
    <3>3. account \in Account
      BY <3>2, Seqs DEF Inv, TypeOK
    <3>4. req[p].caller \notin req[p].before
      BY <1>0, <3>1, <3>2 DEF ReqOK, Inv, TableOK
    <3>5. r \in Request
      BY <1>0, <3>3 DEF Request, Account, PC
    <3>6. ReqOK(r, accounts)
      BY <1>0, <3>1, <3>4 DEF ReqOK, Guarded, Handling, Outside, Request, Op
    <3> QED
      BY <3>1, <3>5, <3>6, SameTable, InvStep DEF Inv, TypeOK, Id
  <2> QED
    BY <2>1, <2>2
<1>5. CASE Authorize(p)
  <2>1. CASE Return(p)
    BY <2>1, ReturnInv
  <2>2. CASE ~Return(p)
    <3> DEFINE label == Handler(req[p].op)
    <3>1. /\ req[p].pc = "authorize" /\ req[p].roles \cap Managing # {}
          /\ Goto(p, label)
          /\ UNCHANGED <<accounts, sessions, started>>
      BY <1>5, <2>2 DEF Authorize, MayManage
    <3>2. ReqOK([req[p] EXCEPT !.pc = label], accounts)
      BY <1>0, <3>1 DEF ReqOK, Guarded, Handling, Outside, Request, Handler
    <3> QED
      BY <3>1, <3>2, GotoInv DEF PC, Inv, TypeOK, Id, Handler
  <2> QED
    BY <2>1, <2>2
<1>6. CASE CheckEmail(p)
  <2>1. CASE Return(p)
    BY <2>1, ReturnInv
  <2>2. CASE ~Return(p)
    <3> DEFINE label == IF req[p].op = "create" THEN "insert" ELSE "update"
    <3>1. /\ req[p].pc = "check" /\ Goto(p, label)
          /\ UNCHANGED <<accounts, sessions, started>>
      BY <1>6, <2>2 DEF CheckEmail
    <3>2. ReqOK([req[p] EXCEPT !.pc = label], accounts)
      BY <1>0, <3>1 DEF ReqOK, Guarded, Handling, Outside, Request
    <3> QED
      BY <3>1, <3>2, GotoInv DEF PC, Inv, TypeOK, Id
  <2> QED
    BY <2>1, <2>2
<1>7. CASE InsertAccount(p)
  BY <1>7, Inserting, ReturnInv, FinishInv
<1>8. CASE UpdateAccount(p)
  BY <1>8, Updating, ReturnInv, FinishInv
<1>9. CASE DeleteAccount(p)
  BY <1>9, Deleting, FinishInv
<1> QED
  BY <1>1, <1>2, <1>3, <1>4, <1>5, <1>6, <1>7, <1>8, <1>9, SeedInv DEF Step

LEMMA StutterInv ==
  ASSUME Inv, UNCHANGED vars
  PROVE  Inv'
  BY DEF Inv, TypeOK, vars, Id

\* Inv, which all theorems of this module rest on, holds in every state of the
\* requests and the seeds.
THEOREM Invariance == Spec => []Inv
<1>1. Init => Inv
  <2> SUFFICES ASSUME Init PROVE Inv
    OBVIOUS
  <2>1. accounts \in Seq(Account) /\ TableOK(accounts)
    BY InitAccountsAssumption DEF Init, TableOK
  <2>2. req \in [Proc -> Request] /\ \A p \in Proc : ReqOK(req[p], accounts)
    BY IdleOK DEF Init
  <2> QED
    BY <2>1, <2>2 DEF Init, Inv, TypeOK, Id
<1>2. Inv /\ [Next]_vars => Inv'
  BY StartInv, StepInv, ReturnInv, StutterInv DEF Next, Fail
<1> QED
  BY <1>1, <1>2, PTL DEF Spec

\* The table, the sessions and the requests hold values of their types.
THEOREM AccountTypes == Spec => []TypeOK
<1>1. Inv => TypeOK
  BY DEF Inv
<1> QED
  BY <1>1, Invariance, PTL

\* No two accounts, deleted ones included, have one address.
THEOREM OneAccountPerAddress == Spec => []EmailsUnique
<1>1. Inv => EmailsUnique
  BY DEF Inv, TableOK, EmailsUnique, Id
<1> QED
  BY <1>1, Invariance, PTL

\* No request gets past AuthGuard as an account that was deleted when it came in.
THEOREM DeletedAreOut == Spec => []NoEntryAfterDeletion
<1>1. Inv => NoEntryAfterDeletion
  BY DEF Inv, ReqOK, Outside, NoEntryAfterDeletion
<1> QED
  BY <1>1, Invariance, PTL

\* What a step may do to the table.
Allowed ==
  /\ Follows(accounts, accounts')
  /\ \A i \in Id : accounts'[i] # accounts[i] => \E p \in Proc :
       /\ Writes(p)
       /\ req[p].id = i
       /\ Manages(p) \/ IsOwn(p, i)
  /\ Id' # Id => \E p \in Proc :
       /\ Writes(p)
       /\ req[p].pc = "seed" \/ Manages(p)

LEMMA Untouched ==
  ASSUME Inv, UNCHANGED accounts
  PROVE  Allowed
  BY SameTable DEF Allowed, Id

LEMMA FinishWrites ==
  ASSUME Inv, NEW p \in Proc, Finish(p),
         req[p].pc \in {"insert", "update", "delete"}
  PROVE  Writes(p)
<1>1. req'[p] = Idle /\ Idle.pc = "idle"
  BY DEF Finish, Inv, TypeOK, Idle
<1> QED
  BY <1>1 DEF Writes

LEMMA StepAllowed ==
  ASSUME Inv, NEW p \in Proc, Start(p) \/ Step(p) \/ Fail(p)
  PROVE  Allowed
<1>0. ReqOK(req[p], accounts) /\ Id = DOMAIN accounts
  BY DEF Inv, Id
<1>1. CASE UNCHANGED accounts
  BY <1>1, Untouched
<1>2. CASE InsertAccount(p) /\ ~Return(p)
  <2>1. req[p].pc = "insert"
    BY <1>2 DEF InsertAccount
  <2>2. Manages(p)
    BY <1>0, <1>2, <2>1, Inserting DEF ReqOK, Handling, Outside, Manages
  <2> QED
    BY <1>2, <2>1, <2>2, Inserting, FinishWrites DEF Allowed
<1>3. CASE UpdateAccount(p) /\ ~Return(p)
  <2>1. req[p].pc = "update"
    BY <1>3 DEF UpdateAccount
  <2>2. Manages(p) \/ IsOwn(p, req[p].id)
    BY <1>0, <2>1 DEF ReqOK, Handling, Outside, Own, Manages, IsOwn
  <2> QED
    BY <1>3, <2>1, <2>2, Updating, FinishWrites DEF Allowed, Id
<1>4. CASE DeleteAccount(p)
  <2>1. req[p].pc = "delete"
    BY <1>4 DEF DeleteAccount
  <2>2. Manages(p) \/ IsOwn(p, req[p].id)
    BY <1>0, <2>1 DEF ReqOK, Handling, Outside, Own, Manages, IsOwn
  <2> QED
    BY <1>4, <2>1, <2>2, Deleting, FinishWrites DEF Allowed, Id
<1>5. CASE SeedCreate(p) /\ ~Return(p)
  <2>1. PICK a \in req[p].missing :
          /\ ~Taken(a.email, 0)
          /\ accounts' = Append(accounts, NewAccount(a.email, {a.role}))
          /\ req' = [req EXCEPT ![p].missing = @ \ {a}]
    BY <1>5 DEF SeedCreate
  <2>2. req[p].pc = "seed"
    BY <1>5 DEF SeedCreate
  <2>3. req'[p].missing = req[p].missing \ {a}
    BY <2>1 DEF Inv, TypeOK, Request
  <2>4. Writes(p)
    BY <2>1, <2>2, <2>3 DEF Writes
  <2> QED
    BY <2>1, <2>2, <2>4, Seeding DEF Allowed
<1>6. CASE Return(p)
  BY <1>1, <1>6 DEF Return
<1>7. CASE Start(p)
  BY <1>1, <1>7 DEF Start, StartLogin, StartGetProfile, StartUpdateProfile,
       StartCreate, StartUpdate, StartDelete, StartServer, StartWithToken, Begin
<1>8. CASE Step(p) /\ ~Return(p)
  BY <1>1, <1>2, <1>3, <1>4, <1>5, <1>8 DEF Step, CreateSession, TouchAccount,
       FindSession, FindAccount, Authorize, CheckEmail, SeedFind, SeedGroupDone
<1> QED
  BY <1>6, <1>7, <1>8 DEF Fail

LEMMA NextAllowed ==
  ASSUME Inv, [Next]_vars
  PROVE  Allowed
  BY StepAllowed, Untouched DEF Next, vars

\* A deleted account is never written again.
THEOREM DeletedRowsAreFinal == Spec => DeletedAccountsFrozen
<1>1. Inv /\ [Next]_vars => [\A i \in Id : accounts[i].deleted =>
                               i \in Id' /\ accounts'[i] = accounts[i]]_vars
  BY NextAllowed DEF Allowed, Follows, Stable, Id
<1> QED
  BY <1>1, Invariance, PTL DEF Spec, DeletedAccountsFrozen

\* Rows are written for an account whose roles allow it, or whose own row it is,
\* and which was not deleted when the request came in.
THEOREM WritersMayWrite == Spec => ChangesAuthorized
<1>1. Inv /\ [Next]_vars =>
        [/\ \A i \in Id : accounts'[i] # accounts[i] => \E p \in Proc :
              /\ Writes(p)
              /\ req[p].id = i
              /\ Manages(p) \/ IsOwn(p, i)
         /\ Id' # Id => \E p \in Proc :
              /\ Writes(p)
              /\ req[p].pc = "seed" \/ Manages(p)]_vars
  BY NextAllowed DEF Allowed
<1> QED
  BY <1>1, Invariance, PTL DEF Spec, ChangesAuthorized
=============================================================================
