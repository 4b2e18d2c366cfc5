---------------------------- MODULE Permissions ----------------------------
(***************************************************************************)
(* Permissions of roles, and the cache the guards read them from:          *)
(* PermissionService, PermissionRepository, CacheService, and the part of  *)
(* the seed that grants permissions.                                       *)
(*                                                                         *)
(* A server that starts writes the permissions it was built with into the  *)
(* tables, one upsert after the other, while requests are still answered   *)
(* (the server it replaces runs on).  A guard asks for the permissions of  *)
(* the caller's roles: the cached set of the whole list, else the cached   *)
(* sets of the single roles, else the tables; what it had to look up it    *)
(* stores by three Redis commands.  Nothing ever invalidates a cached set. *)
(***************************************************************************)
EXTENDS Naturals, Sequences

CONSTANTS
  Role,           \* roles
  Permission,     \* keys of permissions
  Versions,       \* the CURRENT_PERMISSIONS of the builds that are deployed
  RoleLists,      \* the lists of roles that accounts have, and all the roles
  AllRoles,       \* Object.values(RoleType)
  SeedAdmin,      \* permissions the seed grants to Admin
  SeedSuperAdmin, \* permissions the seed grants to SuperAdmin
  Admin,
  SuperAdmin,
  Proc,           \* requests that may be in progress at the same time
  MaxRequests,    \* bound on the number of requests and starts of a server
  Faults,         \* whether requests die and the connection to Redis is lost
  None            \* the version of a request that starts no server

\* A build lists some permissions, each with the roles that have it.
ASSUME PermissionsAssumption ==
  /\ \A v \in Versions : DOMAIN v \subseteq Permission
                         /\ \A k \in DOMAIN v : v[k] \subseteq Role
  /\ Versions # {}
  /\ RoleLists \subseteq Seq(Role)
  /\ AllRoles \in RoleLists
  /\ SeedAdmin \cup SeedSuperAdmin \subseteq Permission
  /\ Admin \in Role /\ SuperAdmin \in Role
  /\ MaxRequests \in Nat
  /\ Faults \in BOOLEAN
  /\ None \notin Versions

VARIABLES
  permissions,    \* rows of Permission
  granted,        \* rows of RolePermission
  cached,         \* the sets in Redis, {} for a key that is not there
  expiring,       \* the keys that have a lifetime
  enabled,        \* CacheService.enabled
  req,            \* the request each process is working on
  started,        \* how many requests have been started
  ever,           \* history: every grant there ever was
  always          \* history: the grants that never went away

tables == <<permissions, granted, ever, always>>
redis == <<cached, expiring>>
vars == <<tables, redis, enabled, req, started>>

\* Keys of Redis: a list of roles, a single role being the list of that role.
Key == RoleLists \cup {<<r>> : r \in Role}

Grant == Permission \X Role

PC == {"idle", "seedUserModule", "seedAdmin", "seedPermissionsModule",
       "seedSuperAdmin", "upsert", "findCombined", "findRole", "queryRole",
       "deleteSet", "addMembers", "setLifetime", "answer"}

(***************************************************************************)
(* A request: the caller's roles, the index of the role it looks up, the   *)
(* permissions collected, those read from the tables for that role; and    *)
(* when a server starts, its build and the permissions left to upsert.     *)
(***************************************************************************)
Request ==
  [pc : PC, roles : RoleLists, next : Nat, keys : SUBSET Permission,
   found : SUBSET Permission, version : Versions \cup {None},
   left : SUBSET Permission]

Idle == [pc |-> "idle", roles |-> AllRoles, next |-> 1, keys |-> {},
         found |-> {}, version |-> None, left |-> {}]

\* The grants of a build.
GrantsOf(v) == {g \in Grant : g[1] \in DOMAIN v /\ g[2] \in v[g[1]]}

Init ==
  /\ \E v \in Versions : /\ permissions = DOMAIN v
                         /\ granted = GrantsOf(v)
  /\ cached = [k \in Key |-> {}]
  /\ expiring = {}
  /\ enabled \in BOOLEAN
  /\ req = [p \in Proc |-> Idle]
  /\ started = 0
  /\ ever = granted
  /\ always = granted

\* permissions of the role r
PermissionsOf(r, grants) == {k \in Permission : <<k, r>> \in grants}
OfRoles(roles, grants) ==
  {k \in Permission : \E i \in DOMAIN roles : <<k, roles[i]>> \in grants}

Goto(p, label) == req' = [req EXCEPT ![p].pc = label]
Finish(p) == req' = [req EXCEPT ![p] = Idle]

Begin(p, r) ==
  /\ req[p].pc = "idle"
  /\ started < MaxRequests
  /\ req' = [req EXCEPT ![p] = r]
  /\ started' = started + 1
  /\ UNCHANGED <<tables, redis, enabled>>

WriteGrants(rows) ==
  /\ granted' = rows
  /\ ever' = ever \cup rows
  /\ always' = always \cap rows

(***************************************************************************)
(* A server starts, after the seed or without it.  Starts do not overlap.  *)
(***************************************************************************)
Starting(p) == req[p].version # None

StartServer(p) ==
  \E v \in Versions, label \in {"seedUserModule", "upsert"} :
    /\ \A q \in Proc : ~Starting(q)
    /\ Begin(p, [Idle EXCEPT !.pc = label, !.version = v, !.left = DOMAIN v])

\* The seed makes the permissions of two modules, and grants them unless the
\* account it found lacks the role.
SeedModule(p, keys, label) ==
  /\ permissions' = permissions \cup keys
  /\ Goto(p, label)
  /\ UNCHANGED <<granted, ever, always, redis, enabled, started>>

SeedUserModule(p) ==
  /\ req[p].pc = "seedUserModule"
  /\ SeedModule(p, SeedAdmin, "seedAdmin")

SeedPermissionsModule(p) ==
  /\ req[p].pc = "seedPermissionsModule"
  /\ SeedModule(p, SeedSuperAdmin, "seedSuperAdmin")

SeedGrants(p, grants, label) ==
  /\ \/ WriteGrants(granted \cup grants)
     \/ UNCHANGED <<granted, ever, always>>
  /\ Goto(p, label)
  /\ UNCHANGED <<permissions, redis, enabled, started>>

SeedAdminGrants(p) ==
  /\ req[p].pc = "seedAdmin"
  /\ SeedGrants(p, SeedAdmin \X {Admin}, "seedPermissionsModule")

SeedSuperAdminGrants(p) ==
  /\ req[p].pc = "seedSuperAdmin"
  /\ SeedGrants(p, SeedSuperAdmin \X {SuperAdmin}, "upsert")

\* Mutant: permission and role change places in the new rows.
SwapsColumns(k, roles) == {g \in granted : g[1] # k} \cup (roles \X {k})

\* Mutant: the rows of roles that lost the permission are left.
OnlyCreates(k, roles) == granted \cup ({k} \X roles)

(***************************************************************************)
(* The rows after the upsert of the permission k.  deleteMany compares the *)
(* ids of roles with the names in assignedRoles, none of which is an id:   *)
(* it deletes every row of the permission, and createMany makes them anew. *)
(***************************************************************************)
Upserted(k, roles) == {g \in granted : g[1] # k} \cup ({k} \X roles)

UpsertPermission(p) ==
  /\ req[p].pc = "upsert"
  /\ \E k \in req[p].left :
       /\ permissions' = permissions \cup {k}
       /\ WriteGrants(Upserted(k, req[p].version[k]))
       /\ req' = [req EXCEPT ![p].left = @ \ {k}]
  /\ UNCHANGED <<redis, enabled, started>>

SetPermissionToCache(p) ==
  /\ req[p].pc = "upsert"
  /\ req[p].left = {}
  /\ Goto(p, "findCombined")
  /\ UNCHANGED <<tables, redis, enabled, started>>

(***************************************************************************)
(* getPermissionKeysByRole, for a guard or a client's own list.            *)
(***************************************************************************)
StartGuard(p) ==
  \E roles \in RoleLists :
    Begin(p, [Idle EXCEPT !.pc = "findCombined", !.roles = roles])

\* getMembers: what is cached, nothing when the cache is off.
Members(k) == IF enabled THEN cached[k] ELSE {}

\* After the last role the whole list is stored.
Continue(r) ==
  [r EXCEPT !.pc = IF r.next <= Len(r.roles) THEN "findRole" ELSE "deleteSet"]

\* Mutant: the permissions of a role replace those collected so far.
Replaces(r, keys) ==
  Continue([r EXCEPT !.keys = keys, !.next = r.next + 1, !.found = {}])

\* The permissions of one role are added, and the next role is looked up.
Collect(r, keys) ==
  Continue([r EXCEPT !.keys = r.keys \cup keys, !.next = r.next + 1,
                     !.found = {}])

FindCombined(p) ==
  LET hit == Members(req[p].roles) IN
  /\ req[p].pc = "findCombined"
  /\ req' = [req EXCEPT ![p] =
               IF hit # {} THEN [@ EXCEPT !.keys = hit, !.pc = "answer"]
               ELSE Continue(@)]
  /\ UNCHANGED <<tables, redis, enabled, started>>

FindRole(p) ==
  LET hit == Members(<<req[p].roles[req[p].next]>>) IN
  /\ req[p].pc = "findRole"
  /\ req' = [req EXCEPT ![p] =
               IF hit # {} THEN Collect(@, hit)
               ELSE [@ EXCEPT !.pc = "queryRole"]]
  /\ UNCHANGED <<tables, redis, enabled, started>>

QueryRole(p) ==
  /\ req[p].pc = "queryRole"
  /\ req' = [req EXCEPT
               ![p].found = PermissionsOf(req[p].roles[req[p].next], granted),
               ![p].pc = "deleteSet"]
  /\ UNCHANGED <<tables, redis, enabled, started>>

(***************************************************************************)
(* setAdd: DEL, SADD and, for a single role, EXPIRE.                       *)
(***************************************************************************)
OneRole(r) == r.next <= Len(r.roles)

\* Mutant: the permissions of the list are stored as those of its last role.
LastRole(r) ==
  IF r.roles = <<>> THEN <<>>
  ELSE <<r.roles[IF OneRole(r) THEN r.next ELSE Len(r.roles)]>>

StoreKey(r) == IF OneRole(r) THEN <<r.roles[r.next]>> ELSE r.roles
Value(r) == IF OneRole(r) THEN r.found ELSE r.keys

Stored(p) ==
  req' = [req EXCEPT ![p] = IF OneRole(@) THEN Collect(@, @.found)
                            ELSE [@ EXCEPT !.pc = "answer"]]

\* Nothing is stored when the cache is off or the set is empty.
DeleteSet(p) ==
  LET key == StoreKey(req[p]) IN
  /\ req[p].pc = "deleteSet"
  /\ \/ /\ enabled /\ Value(req[p]) # {}
        /\ cached' = [cached EXCEPT ![key] = {}]
        /\ expiring' = expiring \ {key}
        /\ Goto(p, "addMembers")
     \/ /\ ~enabled \/ Value(req[p]) = {}
        /\ Stored(p)
        /\ UNCHANGED redis
  /\ UNCHANGED <<tables, enabled, started>>

AddMembers(p) ==
  /\ req[p].pc = "addMembers"
  /\ cached' = [cached EXCEPT ![StoreKey(req[p])] = @ \cup Value(req[p])]
  /\ IF OneRole(req[p]) THEN Goto(p, "setLifetime") ELSE Stored(p)
  /\ UNCHANGED <<tables, expiring, enabled, started>>

\* A key that has gone in the meantime gets no lifetime.
SetLifetime(p) ==
  LET key == StoreKey(req[p]) IN
  /\ req[p].pc = "setLifetime"
  /\ expiring' = IF cached[key] = {} THEN expiring ELSE expiring \cup {key}
  /\ Stored(p)
  /\ UNCHANGED <<tables, cached, enabled, started>>

\* The guard decides by the permissions; a server goes on to listen.
Answer(p) ==
  /\ req[p].pc = "answer"
  /\ Finish(p)
  /\ UNCHANGED <<tables, redis, enabled, started>>

-----------------------------------------------------------------------------
\* Redis removes a key whose lifetime is over.
Expire(k) ==
  /\ k \in expiring
  /\ cached' = [cached EXCEPT ![k] = {}]
  /\ expiring' = expiring \ {k}
  /\ UNCHANGED <<tables, enabled, req, started>>

\* The connection to Redis is lost, or comes back.
SwitchCache ==
  /\ Faults
  /\ enabled' = ~enabled
  /\ UNCHANGED <<tables, redis, req, started>>

\* The process is stopped, or a statement or command fails.
Fail(p) ==
  /\ Faults
  /\ req[p].pc # "idle"
  /\ Finish(p)
  /\ UNCHANGED <<tables, redis, enabled, started>>

Seed(p) ==
  \/ SeedUserModule(p)
  \/ SeedAdminGrants(p)
  \/ SeedPermissionsModule(p)
  \/ SeedSuperAdminGrants(p)

Lookup(p) ==
  \/ FindCombined(p)
  \/ FindRole(p)
  \/ QueryRole(p)
  \/ DeleteSet(p)
  \/ AddMembers(p)
  \/ SetLifetime(p)
  \/ Answer(p)

Next ==
  \/ \E p \in Proc :
       \/ StartServer(p) \/ Seed(p)
       \/ UpsertPermission(p) \/ SetPermissionToCache(p)
       \/ StartGuard(p) \/ Lookup(p) \/ Fail(p)
  \/ \E k \in Key : Expire(k)
  \/ SwitchCache

Spec == Init /\ [][Next]_vars
-----------------------------------------------------------------------------
\* Tables, cache and requests hold values of their types.
TypeOK ==
  /\ permissions \subseteq Permission
  /\ granted \subseteq Grant
  /\ cached \in [Key -> SUBSET Permission]
  /\ expiring \subseteq Key
  /\ enabled \in BOOLEAN
  /\ req \in [Proc -> Request]
  /\ started \in Nat
  /\ ever \subseteq Grant
  /\ always \subseteq Grant

\* However often the builds change, whoever fills the cache in between and
\* whichever command a process dies after: no guard works with a permission
\* that none of the caller's roles ever had.
NeverInvented ==
  \A p \in Proc : req[p].pc = "answer" =>
    req[p].keys \subseteq OfRoles(req[p].roles, ever)

\* Nor does a guard miss a permission that one of the roles has had all along,
\* for having found a set that was half written.
NeverMissing ==
  \A p \in Proc : req[p].pc = "answer" =>
    OfRoles(req[p].roles, always) \subseteq req[p].keys

SeedGives(k, r) == \/ k \in SeedAdmin /\ r = Admin
                   \/ k \in SeedSuperAdmin /\ r = SuperAdmin

\* The permission has the roles that the build v assigns, but for the seed's.
AsAssigned(v, k) ==
  \A r \in Role :
    /\ r \in v[k] => <<k, r>> \in granted
    /\ <<k, r>> \in granted => r \in v[k] \/ SeedGives(k, r)

\* A permission that only the seed has made so far.
Seeded(k) ==
  /\ k \in SeedAdmin \cup SeedSuperAdmin
  /\ \A r \in Role : <<k, r>> \in granted => SeedGives(k, r)

\* A start that dies half-way leaves some permissions of one build and some of
\* another, never one permission with a mixture of both: a role that lost a
\* permission does not keep it, although deleteMany was given names for ids.
OneVersionEach ==
  \A k \in permissions :
    Seeded(k) \/ \E v \in Versions : k \in DOMAIN v /\ AsAssigned(v, k)
=============================================================================
