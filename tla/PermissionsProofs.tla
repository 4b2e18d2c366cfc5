------------------------- MODULE PermissionsProofs -------------------------
(***************************************************************************)
(* Theorems about Permissions, for every set of roles, permissions and     *)
(* builds, and any number of requests.                                     *)
(***************************************************************************)
EXTENDS Permissions, TLAPS

\* Permissions of the roles a lookup has been through.
Done(r, grants) ==
  {k \in Permission : \E i \in DOMAIN r.roles :
                        i < r.next /\ <<k, r.roles[i]>> \in grants}

\* keys lies between what roles always had and what they ever had.
Between(lo, keys, hi) == lo \subseteq keys /\ keys \subseteq hi

\* What a lookup has collected.
LookupOK(r, a, e) ==
  /\ r.pc = "findCombined" => r.next = 1 /\ r.keys = {}
  /\ r.pc \in {"findRole", "queryRole", "deleteSet", "addMembers", "setLifetime"}
       => Between(Done(r, a), r.keys, Done(r, e)) /\ r.next >= 1
  /\ r.pc \in {"findRole", "queryRole", "setLifetime"} => OneRole(r)
  /\ (r.pc \in {"deleteSet", "addMembers", "setLifetime"} /\ OneRole(r)) =>
       Between(PermissionsOf(r.roles[r.next], a), r.found,
               PermissionsOf(r.roles[r.next], e))
  /\ r.pc = "answer" => Between(OfRoles(r.roles, a), r.keys, OfRoles(r.roles, e))

\* What a server that starts has done.
StartOK(r, perms) ==
  /\ r.pc \in {"seedUserModule", "seedAdmin", "seedPermissionsModule",
               "seedSuperAdmin", "upsert"}
       => r.version \in Versions /\ r.left \subseteq DOMAIN r.version
  /\ r.pc \in {"seedUserModule", "seedAdmin", "seedPermissionsModule",
               "seedSuperAdmin", "upsert"} => r.next = 1 /\ r.keys = {}
  /\ r.pc = "seedAdmin" => SeedAdmin \subseteq perms
  /\ r.pc = "seedSuperAdmin" => SeedSuperAdmin \subseteq perms

\* A set in Redis is whole: it holds what its roles always had, and nothing they
\* never had.
CacheOK(c, a, e) ==
  \A k \in Key : c[k] # {} => Between(OfRoles(k, a), c[k], OfRoles(k, e))

PermissionsInv ==
  /\ TypeOK
  /\ always \subseteq granted
  /\ granted \subseteq ever
  /\ \A g \in granted : g[1] \in permissions
  /\ CacheOK(cached, always, ever)
  /\ \A p \in Proc : LookupOK(req[p], always, ever)
  /\ \A p \in Proc : StartOK(req[p], permissions)
  /\ OneVersionEach

\* The grants that never went away become fewer, those that ever were more.
Forward ==
  /\ always' \subseteq always
  /\ ever \subseteq ever'
  /\ permissions \subseteq permissions'

\* Roles of a list are roles, and keys of Redis are lists of roles.
LEMMA Lists ==
  /\ \A roles \in RoleLists : roles \in Seq(Role) /\ Len(roles) \in Nat
                              /\ DOMAIN roles = 1..Len(roles)
  /\ \A k \in Key : k \in Seq(Role) /\ Len(k) \in Nat /\ DOMAIN k = 1..Len(k)
  /\ \A r \in Role : <<r>> \in Key
  /\ RoleLists \subseteq Key
<1>1. \A s \in Seq(Role) : Len(s) \in Nat /\ DOMAIN s = 1..Len(s)
  OBVIOUS
<1>2. \A r \in Role : <<r>> \in Seq(Role)
  OBVIOUS
<1>3. Key \subseteq Seq(Role)
  BY <1>2, PermissionsAssumption DEF Key
<1> QED
  BY <1>1, <1>3, PermissionsAssumption DEF Key

LEMMA IdleType == Idle \in Request
  BY PermissionsAssumption DEF Idle, Request, PC

\* What holds of a request or a cached set goes on to hold as history grows.
LEMMA LookupGrows ==
  ASSUME NEW r \in Request, NEW a, NEW e, NEW b, NEW f,
         b \subseteq a, e \subseteq f, LookupOK(r, a, e)
  PROVE  LookupOK(r, b, f)
<1>1. Done(r, b) \subseteq Done(r, a) /\ Done(r, e) \subseteq Done(r, f)
  BY DEF Done
<1>2. /\ OfRoles(r.roles, b) \subseteq OfRoles(r.roles, a)
      /\ OfRoles(r.roles, e) \subseteq OfRoles(r.roles, f)
  BY DEF OfRoles
<1>3. /\ PermissionsOf(r.roles[r.next], b) \subseteq PermissionsOf(r.roles[r.next], a)
      /\ PermissionsOf(r.roles[r.next], e) \subseteq PermissionsOf(r.roles[r.next], f)
  BY DEF PermissionsOf
<1> QED
  BY <1>1, <1>2, <1>3 DEF LookupOK, Between

LEMMA CacheGrows ==
  ASSUME NEW c, NEW a, NEW e, NEW b, NEW f,
         b \subseteq a, e \subseteq f, CacheOK(c, a, e)
  PROVE  CacheOK(c, b, f)
<1>1. \A k : /\ OfRoles(k, b) \subseteq OfRoles(k, a)
             /\ OfRoles(k, e) \subseteq OfRoles(k, f)
  BY DEF OfRoles
<1> QED
  BY <1>1 DEF CacheOK, Between

\* A step that gives one process a record that is right keeps all records right.
LEMMA RequestsKept ==
  ASSUME PermissionsInv, Forward, NEW p \in Proc, NEW r \in Request,
         req' = [req EXCEPT ![p] = r],
         LookupOK(r, always', ever'), StartOK(r, permissions')
  PROVE  /\ req' \in [Proc -> Request]
         /\ \A q \in Proc : LookupOK(req[q], always, ever)'
         /\ \A q \in Proc : StartOK(req[q], permissions)'
<1>1. /\ req' \in [Proc -> Request]
      /\ \A q \in Proc : req'[q] = IF q = p THEN r ELSE req[q]
  BY DEF PermissionsInv, TypeOK
<1>2. ASSUME NEW q \in Proc, q # p
      PROVE  LookupOK(req[q], always', ever') /\ StartOK(req[q], permissions')
  <2>1. req[q] \in Request
    BY DEF PermissionsInv, TypeOK
  <2>2. LookupOK(req[q], always', ever')
    BY <2>1, LookupGrows DEF PermissionsInv, Forward
  <2>3. StartOK(req[q], permissions')
    BY DEF PermissionsInv, Forward, StartOK
  <2> QED BY <2>2, <2>3
<1>3. ASSUME NEW q \in Proc
      PROVE  LookupOK(req'[q], always', ever') /\ StartOK(req'[q], permissions')
  BY <1>1, <1>2
<1> QED
  BY <1>1, <1>3

\* A step of a lookup changes neither tables nor grants: it keeps the invariant
\* if the cache stays right, and the process's own record.
LEMMA LookupStep ==
  ASSUME PermissionsInv, NEW p \in Proc, NEW r \in Request,
         req' = [req EXCEPT ![p] = r], UNCHANGED <<tables, enabled, started>>,
         LookupOK(r, always, ever), StartOK(r, permissions),
         cached' \in [Key -> SUBSET Permission], expiring' \subseteq Key,
         CacheOK(cached', always, ever)
  PROVE  PermissionsInv'
<1>1. /\ Forward /\ always' = always /\ ever' = ever
      /\ permissions' = permissions /\ granted' = granted
      /\ enabled' = enabled /\ started' = started
  BY DEF tables, Forward
<1>2. /\ req' \in [Proc -> Request]
      /\ \A q \in Proc : LookupOK(req[q], always, ever)'
      /\ \A q \in Proc : StartOK(req[q], permissions)'
  BY <1>1, RequestsKept
<1>3. TypeOK'
  BY <1>1, <1>2 DEF PermissionsInv, TypeOK
<1>4. OneVersionEach'
  BY <1>1 DEF PermissionsInv, OneVersionEach, AsAssigned, Seeded
<1> QED
  BY <1>1, <1>2, <1>3, <1>4 DEF PermissionsInv

\* The role a lookup is at.
LEMMA RoleAt ==
  ASSUME NEW r \in Request, OneRole(r), r.next >= 1
  PROVE  /\ r.roles[r.next] \in Role
         /\ r.next \in DOMAIN r.roles
         /\ <<r.roles[r.next]>> \in Key
         /\ \A g : OfRoles(<<r.roles[r.next]>>, g) = PermissionsOf(r.roles[r.next], g)
<1>1. r.roles \in Seq(Role) /\ r.next \in Nat /\ DOMAIN r.roles = 1..Len(r.roles)
      /\ Len(r.roles) \in Nat
  BY Lists DEF Request
<1>2. r.next \in DOMAIN r.roles /\ r.roles[r.next] \in Role
  BY <1>1 DEF OneRole
<1> DEFINE one == <<r.roles[r.next]>>
<1>3. DOMAIN one = {1} /\ one[1] = r.roles[r.next] /\ one \in Key
  BY <1>2, Lists
<1> HIDE DEF one
<1>4. \A g : OfRoles(one, g) = PermissionsOf(r.roles[r.next], g)
  BY <1>3 DEF OfRoles, PermissionsOf
<1> QED
  BY <1>2, <1>3, <1>4 DEF one

\* To collect the permissions of the role at hand keeps what was collected whole.
LEMMA CollectOK ==
  ASSUME NEW r \in Request, NEW a, NEW e, NEW keys \in SUBSET Permission,
         OneRole(r), r.next >= 1, Between(Done(r, a), r.keys, Done(r, e)),
         Between(PermissionsOf(r.roles[r.next], a), keys,
                 PermissionsOf(r.roles[r.next], e))
  PROVE  /\ Collect(r, keys) \in Request
         /\ LookupOK(Collect(r, keys), a, e)
         /\ \A perms : StartOK(Collect(r, keys), perms)
<1> DEFINE s == Collect(r, keys)
<1>1. r.next \in Nat /\ Len(r.roles) \in Nat /\ DOMAIN r.roles = 1..Len(r.roles)
  BY Lists DEF Request
<1>2. /\ s \in Request /\ s.roles = r.roles /\ s.next = r.next + 1
      /\ s.keys = r.keys \cup keys
      /\ s.pc = IF r.next + 1 <= Len(r.roles) THEN "findRole" ELSE "deleteSet"
  <2> DEFINE t == [r EXCEPT !.keys = r.keys \cup keys, !.next = r.next + 1,
                            !.found = {}]
  <2>1. /\ t \in Request /\ t.roles = r.roles /\ t.next = r.next + 1
        /\ t.keys = r.keys \cup keys
    <3>1. /\ r.keys \cup keys \in SUBSET Permission /\ r.next + 1 \in Nat
          /\ {} \in SUBSET Permission
      BY <1>1 DEF Request
    <3> QED BY <3>1 DEF Request
  <2>2. s = Continue(t)
    BY DEF Collect
  <2> HIDE DEF t, s
  <2> QED BY <1>1, <2>1, <2>2 DEF Continue, Request, PC
<1> HIDE DEF s
<1>3. \A g : Done(s, g) = Done(r, g) \cup PermissionsOf(r.roles[r.next], g)
  BY <1>1, <1>2 DEF Done, PermissionsOf, OneRole
<1>4. Between(Done(s, a), s.keys, Done(s, e))
  BY <1>2, <1>3 DEF Between
<1>5. LookupOK(s, a, e)
  BY <1>1, <1>2, <1>4 DEF LookupOK, OneRole
<1>6. \A perms : StartOK(s, perms)
  BY <1>2 DEF StartOK
<1> QED BY <1>2, <1>5, <1>6 DEF s

\* After setAdd the lookup goes on, or is done with the whole list.
AfterStore(r) == IF OneRole(r) THEN Collect(r, r.found)
                 ELSE [r EXCEPT !.pc = "answer"]

LEMMA StoredOK ==
  ASSUME NEW r \in Request, NEW a, NEW e, LookupOK(r, a, e),
         r.pc \in {"deleteSet", "addMembers", "setLifetime"}
  PROVE  /\ AfterStore(r) \in Request
         /\ LookupOK(AfterStore(r), a, e)
         /\ \A perms : StartOK(AfterStore(r), perms)
<1>1. Between(Done(r, a), r.keys, Done(r, e)) /\ r.next >= 1
  BY DEF LookupOK
<1>2. CASE OneRole(r)
  <2>1. Between(PermissionsOf(r.roles[r.next], a), r.found,
                PermissionsOf(r.roles[r.next], e))
    BY <1>2 DEF LookupOK
  <2>2. r.found \in SUBSET Permission
    BY DEF Request
  <2> QED BY <1>1, <1>2, <2>1, <2>2, CollectOK DEF AfterStore
<1>3. CASE ~OneRole(r)
  <2>1. r.next \in Nat /\ Len(r.roles) \in Nat /\ DOMAIN r.roles = 1..Len(r.roles)
    BY Lists DEF Request
  <2>2. \A g : Done(r, g) = OfRoles(r.roles, g)
    BY <1>3, <2>1 DEF Done, OfRoles, OneRole
  <2>3. /\ AfterStore(r) \in Request /\ AfterStore(r).pc = "answer"
        /\ AfterStore(r).keys = r.keys /\ AfterStore(r).roles = r.roles
    BY <1>3 DEF AfterStore, Request, PC
  <2> HIDE DEF AfterStore
  <2>4. LookupOK(AfterStore(r), a, e)
    BY <1>1, <2>2, <2>3 DEF LookupOK
  <2>5. \A perms : StartOK(AfterStore(r), perms)
    BY <2>3 DEF StartOK
  <2> QED BY <2>3, <2>4, <2>5
<1> QED BY <1>2, <1>3

\* What setAdd stores is whole, under the key it is stored.
LEMMA StoreOK ==
  ASSUME NEW r \in Request, NEW a, NEW e, LookupOK(r, a, e),
         r.pc \in {"deleteSet", "addMembers", "setLifetime"}
  PROVE  /\ StoreKey(r) \in Key
         /\ Value(r) \in SUBSET Permission
         /\ Between(OfRoles(StoreKey(r), a), Value(r), OfRoles(StoreKey(r), e))
<1>1. Between(Done(r, a), r.keys, Done(r, e)) /\ r.next >= 1
  BY DEF LookupOK
<1>2. CASE OneRole(r)
  <2>1. /\ Between(PermissionsOf(r.roles[r.next], a), r.found,
                   PermissionsOf(r.roles[r.next], e))
        /\ r.found \in SUBSET Permission
    BY <1>2 DEF LookupOK, Request
  <2>2. StoreKey(r) = <<r.roles[r.next]>> /\ Value(r) = r.found
    BY <1>2 DEF StoreKey, Value
  <2>3. /\ StoreKey(r) \in Key
        /\ \A g : OfRoles(StoreKey(r), g) = PermissionsOf(r.roles[r.next], g)
    BY <1>1, <1>2, <2>2, RoleAt
  <2> QED BY <2>1, <2>2, <2>3
<1>3. CASE ~OneRole(r)
  <2>1. r.next \in Nat /\ Len(r.roles) \in Nat /\ DOMAIN r.roles = 1..Len(r.roles)
        /\ r.roles \in Key /\ r.keys \in SUBSET Permission
    BY Lists DEF Request
  <2>2. \A g : Done(r, g) = OfRoles(r.roles, g)
    BY <1>3, <2>1 DEF Done, OfRoles, OneRole
  <2> QED BY <1>1, <1>3, <2>1, <2>2 DEF StoreKey, Value
<1> QED BY <1>2, <1>3

\* Every step of a lookup keeps the invariant.
LEMMA LookupKeepsInv ==
  ASSUME PermissionsInv, NEW p \in Proc, Lookup(p)
  PROVE  PermissionsInv'
<1> DEFINE r == req[p]
<1>1. /\ r \in Request /\ LookupOK(r, always, ever) /\ StartOK(r, permissions)
      /\ cached \in [Key -> SUBSET Permission] /\ expiring \subseteq Key
      /\ CacheOK(cached, always, ever)
  BY DEF PermissionsInv, TypeOK
<1>2. r.next \in Nat /\ r.roles \in Key /\ Len(r.roles) \in Nat
      /\ DOMAIN r.roles = 1..Len(r.roles)
  BY <1>1, Lists DEF Request
<1>3. CASE FindCombined(p)
  <2>1. r.pc = "findCombined" /\ r.next = 1 /\ r.keys = {}
    BY <1>1, <1>3 DEF FindCombined, LookupOK
  <2>2. CASE Members(r.roles) # {}
    <3> DEFINE s == [r EXCEPT !.keys = Members(r.roles), !.pc = "answer"]
    <3>1. req' = [req EXCEPT ![p] = s] /\ UNCHANGED <<tables, redis, enabled, started>>
      BY <1>3, <2>2 DEF FindCombined
    <3>2. s \in Request /\ s.pc = "answer" /\ s.keys = cached[r.roles]
          /\ s.roles = r.roles
      BY <1>1, <1>2, <2>2 DEF Members, Request, PC
    <3> HIDE DEF s
    <3>3. LookupOK(s, always, ever) /\ StartOK(s, permissions)
      BY <1>1, <1>2, <2>2, <3>2 DEF LookupOK, StartOK, CacheOK, Members
    <3> QED
      BY <1>1, <3>1, <3>2, <3>3, LookupStep DEF redis
  <2>3. CASE Members(r.roles) = {}
    <3> DEFINE s == Continue(r)
    <3>1. req' = [req EXCEPT ![p] = s] /\ UNCHANGED <<tables, redis, enabled, started>>
      BY <1>3, <2>3 DEF FindCombined
    <3>2. /\ s \in Request /\ s.roles = r.roles /\ s.next = 1 /\ s.keys = {}
          /\ s.pc = IF 1 <= Len(r.roles) THEN "findRole" ELSE "deleteSet"
      BY <1>1, <2>1 DEF Continue, Request, PC
    <3> HIDE DEF s
    <3>3. \A g : Done(s, g) = {}
      <4>1. \A i \in DOMAIN s.roles : ~(i < s.next)
        BY <1>2, <3>2
      <4> QED BY <4>1 DEF Done
    <3>4. LookupOK(s, always, ever) /\ StartOK(s, permissions)
      BY <1>2, <3>2, <3>3 DEF LookupOK, StartOK, Between, OneRole
    <3> QED
      BY <1>1, <3>1, <3>2, <3>4, LookupStep DEF redis
  <2> QED BY <2>2, <2>3
<1>4. CASE FindRole(p)
  <2>1. OneRole(r) /\ r.next >= 1 /\ Between(Done(r, always), r.keys, Done(r, ever))
    BY <1>1, <1>4 DEF FindRole, LookupOK
  <2> DEFINE hit == Members(<<r.roles[r.next]>>)
             s == IF hit # {} THEN Collect(r, hit) ELSE [r EXCEPT !.pc = "queryRole"]
  <2>2. req' = [req EXCEPT ![p] = s] /\ UNCHANGED <<tables, redis, enabled, started>>
    BY <1>4 DEF FindRole
  <2>3. CASE hit # {}
    <3>1. /\ hit \in SUBSET Permission
          /\ Between(PermissionsOf(r.roles[r.next], always), hit,
                     PermissionsOf(r.roles[r.next], ever))
      BY <1>1, <2>1, <2>3, RoleAt DEF Members, CacheOK
    <3>2. s \in Request /\ LookupOK(s, always, ever) /\ StartOK(s, permissions)
      BY <1>1, <2>1, <2>3, <3>1, CollectOK
    <3> HIDE DEF s
    <3> QED BY <1>1, <2>2, <3>2, LookupStep DEF redis
  <2>4. CASE hit = {}
    <3>1. /\ s \in Request /\ s.pc = "queryRole" /\ s.roles = r.roles
          /\ s.next = r.next /\ s.keys = r.keys
      BY <1>1, <2>4 DEF Request, PC
    <3> HIDE DEF s
    <3>2. \A g : Done(s, g) = Done(r, g)
      BY <3>1 DEF Done
    <3>3. LookupOK(s, always, ever) /\ StartOK(s, permissions)
      BY <2>1, <3>1, <3>2 DEF LookupOK, StartOK, OneRole
    <3> QED BY <1>1, <2>2, <3>1, <3>3, LookupStep DEF redis
  <2> QED BY <2>3, <2>4
<1>5. CASE QueryRole(p)
  <2>1. OneRole(r) /\ r.next >= 1 /\ Between(Done(r, always), r.keys, Done(r, ever))
    BY <1>1, <1>5 DEF QueryRole, LookupOK
  <2> DEFINE s == [r EXCEPT !.found = PermissionsOf(r.roles[r.next], granted),
                            !.pc = "deleteSet"]
  <2>2. req' = [req EXCEPT ![p] = s] /\ UNCHANGED <<tables, redis, enabled, started>>
    BY <1>5 DEF QueryRole
  <2>3. /\ s \in Request /\ s.pc = "deleteSet" /\ s.roles = r.roles
        /\ s.next = r.next /\ s.keys = r.keys
        /\ s.found = PermissionsOf(r.roles[r.next], granted)
    BY <1>1 DEF Request, PC, PermissionsOf
  <2> HIDE DEF s
  <2>4. \A g : Done(s, g) = Done(r, g)
    BY <2>3 DEF Done
  <2>5. Between(PermissionsOf(s.roles[s.next], always), s.found,
                PermissionsOf(s.roles[s.next], ever))
    BY <2>3 DEF PermissionsInv, Between, PermissionsOf
  <2>6. LookupOK(s, always, ever) /\ StartOK(s, permissions)
    BY <2>1, <2>3, <2>4, <2>5 DEF LookupOK, StartOK
  <2> QED BY <1>1, <2>2, <2>3, <2>6, LookupStep DEF redis
<1>6. ASSUME r.pc \in {"deleteSet", "addMembers", "setLifetime"}, Stored(p),
             UNCHANGED <<tables, enabled, started>>,
             cached' \in [Key -> SUBSET Permission], expiring' \subseteq Key,
             CacheOK(cached', always, ever)
      PROVE  PermissionsInv'
  <2>1. req' = [req EXCEPT ![p] = AfterStore(r)]
    BY <1>6 DEF Stored, AfterStore
  <2> QED BY <1>1, <1>6, <2>1, StoredOK, LookupStep
<1>7. ASSUME NEW label \in {"addMembers", "setLifetime"}, Goto(p, label),
             r.pc \in {"deleteSet", "addMembers", "setLifetime"},
             label = "setLifetime" => OneRole(r),
             UNCHANGED <<tables, enabled, started>>,
             cached' \in [Key -> SUBSET Permission], expiring' \subseteq Key,
             CacheOK(cached', always, ever)
      PROVE  PermissionsInv'
  <2> DEFINE s == [r EXCEPT !.pc = label]
  <2>1. req' = [req EXCEPT ![p] = s]
    BY <1>7 DEF Goto
  <2>2. /\ s \in Request /\ s.pc = label /\ s.roles = r.roles /\ s.found = r.found
        /\ s.next = r.next /\ s.keys = r.keys
    BY <1>1, <1>7 DEF Request, PC
  <2> HIDE DEF s
  <2>3. \A g : Done(s, g) = Done(r, g)
    BY <2>2 DEF Done
  <2>4. LookupOK(s, always, ever) /\ StartOK(s, permissions)
    BY <1>1, <1>7, <2>2, <2>3 DEF LookupOK, StartOK, OneRole
  <2> QED BY <1>1, <1>7, <2>1, <2>2, <2>4, LookupStep
<1> DEFINE key == StoreKey(r)
<1>8. CASE DeleteSet(p)
  <2>1. r.pc = "deleteSet" /\ UNCHANGED <<tables, enabled, started>>
    BY <1>8 DEF DeleteSet
  <2>2. CASE UNCHANGED redis /\ Stored(p)
    BY <1>1, <1>6, <2>1, <2>2 DEF redis
  <2>3. CASE /\ cached' = [cached EXCEPT ![key] = {}]
             /\ expiring' = expiring \ {key}
             /\ Goto(p, "addMembers")
    <3>1. CacheOK(cached', always, ever)
      BY <1>1, <2>3 DEF CacheOK
    <3> QED BY <1>1, <1>7, <2>1, <2>3, <3>1
  <2> QED BY <1>8, <2>2, <2>3 DEF DeleteSet
<1>9. CASE AddMembers(p)
  <2>1. /\ r.pc = "addMembers" /\ UNCHANGED <<tables, expiring, enabled, started>>
        /\ cached' = [cached EXCEPT ![key] = @ \cup Value(r)]
    BY <1>9 DEF AddMembers
  <2>2. /\ key \in Key /\ Value(r) \in SUBSET Permission
        /\ Between(OfRoles(key, always), Value(r), OfRoles(key, ever))
    BY <1>1, <2>1, StoreOK
  <2>3. cached' \in [Key -> SUBSET Permission]
    BY <1>1, <2>1, <2>2
  <2>4. CacheOK(cached', always, ever)
    BY <1>1, <2>1, <2>2 DEF CacheOK, Between
  <2> QED BY <1>1, <1>6, <1>7, <1>9, <2>1, <2>3, <2>4 DEF AddMembers
<1>10. CASE SetLifetime(p)
  <2>1. /\ r.pc = "setLifetime" /\ UNCHANGED <<tables, cached, enabled, started>>
        /\ expiring' \subseteq expiring \cup {key} /\ Stored(p)
    BY <1>10 DEF SetLifetime
  <2>2. key \in Key
    BY <1>1, <2>1, StoreOK
  <2> QED BY <1>1, <1>6, <2>1, <2>2
<1>11. CASE Answer(p)
  <2>1. LookupOK(Idle, always, ever) /\ StartOK(Idle, permissions)
    BY DEF Idle, LookupOK, StartOK
  <2>2. req' = [req EXCEPT ![p] = Idle] /\ UNCHANGED <<tables, redis, enabled, started>>
    BY <1>11 DEF Answer, Finish
  <2> QED BY <1>1, <2>1, <2>2, IdleType, LookupStep DEF redis
<1> QED
  BY <1>3, <1>4, <1>5, <1>8, <1>9, <1>10, <1>11 DEF Lookup
\* A start of a server keeps what it must know of its build and the tables.
LEMMA TableStep ==
  ASSUME PermissionsInv, NEW p \in Proc, NEW r \in Request,
         req' = [req EXCEPT ![p] = r], UNCHANGED <<redis, enabled>>,
         started' \in Nat, LookupOK(r, always', ever'), StartOK(r, permissions'),
         permissions' \subseteq Permission, permissions \subseteq permissions',
         granted' \subseteq Grant, \A g \in granted' : g[1] \in permissions',
         \/ UNCHANGED <<granted, ever, always>>
         \/ WriteGrants(granted'),
         OneVersionEach'
  PROVE  PermissionsInv'
<1>1. /\ Forward /\ always' \subseteq granted' /\ granted' \subseteq ever'
      /\ ever' \subseteq Grant /\ always' \subseteq Grant
  BY DEF PermissionsInv, TypeOK, Forward, WriteGrants
<1>2. /\ req' \in [Proc -> Request]
      /\ \A q \in Proc : LookupOK(req[q], always, ever)'
      /\ \A q \in Proc : StartOK(req[q], permissions)'
  BY <1>1, RequestsKept
<1>3. CacheOK(cached', always', ever')
  BY <1>1, CacheGrows DEF PermissionsInv, Forward, redis
<1>4. TypeOK'
  BY <1>1, <1>2 DEF PermissionsInv, TypeOK, redis
<1> QED
  BY <1>1, <1>2, <1>3, <1>4 DEF PermissionsInv

\* A request that begins finds the tables as they are.
LEMMA BeginKeepsInv ==
  ASSUME PermissionsInv, NEW p \in Proc, NEW r \in Request, Begin(p, r),
         LookupOK(r, always, ever), StartOK(r, permissions)
  PROVE  PermissionsInv'
<1>1. /\ req' = [req EXCEPT ![p] = r] /\ UNCHANGED <<tables, redis, enabled>>
      /\ started' \in Nat
  BY DEF Begin, PermissionsInv, TypeOK
<1>2. OneVersionEach'
  BY <1>1 DEF tables, PermissionsInv, OneVersionEach, AsAssigned, Seeded
<1> QED
  BY <1>1, <1>2, TableStep DEF tables, PermissionsInv, TypeOK

LEMMA StartServerKeepsInv ==
  ASSUME PermissionsInv, NEW p \in Proc, StartServer(p)
  PROVE  PermissionsInv'
<1>1. PICK v \in Versions, label \in {"seedUserModule", "upsert"} :
        Begin(p, [Idle EXCEPT !.pc = label, !.version = v, !.left = DOMAIN v])
  BY DEF StartServer
<1> DEFINE r == [Idle EXCEPT !.pc = label, !.version = v, !.left = DOMAIN v]
<1>2. /\ r \in Request /\ r.pc = label /\ r.version = v /\ r.left = DOMAIN v
      /\ r.next = 1 /\ r.keys = {}
  BY PermissionsAssumption DEF Idle, Request, PC
<1> HIDE DEF r
<1>3. LookupOK(r, always, ever) /\ StartOK(r, permissions)
  BY <1>2 DEF LookupOK, StartOK
<1> QED
  BY <1>1, <1>2, <1>3, BeginKeepsInv DEF r

LEMMA StartGuardKeepsInv ==
  ASSUME PermissionsInv, NEW p \in Proc, StartGuard(p)
  PROVE  PermissionsInv'
<1>1. PICK roles \in RoleLists :
        Begin(p, [Idle EXCEPT !.pc = "findCombined", !.roles = roles])
  BY DEF StartGuard
<1> DEFINE r == [Idle EXCEPT !.pc = "findCombined", !.roles = roles]
<1>2. r \in Request /\ r.pc = "findCombined" /\ r.next = 1 /\ r.keys = {}
  BY PermissionsAssumption DEF Idle, Request, PC
<1> HIDE DEF r
<1>3. LookupOK(r, always, ever) /\ StartOK(r, permissions)
  BY <1>2 DEF LookupOK, StartOK
<1> QED
  BY <1>1, <1>2, <1>3, BeginKeepsInv DEF r

\* The record of a start that goes on to its next step.
LEMMA StartRecord ==
  ASSUME PermissionsInv, NEW p \in Proc,
         req[p].pc \in {"seedUserModule", "seedAdmin", "seedPermissionsModule",
                        "seedSuperAdmin", "upsert"},
         NEW label \in {"seedAdmin", "seedPermissionsModule", "seedSuperAdmin",
                        "upsert", "findCombined"}
  PROVE  LET r == [req[p] EXCEPT !.pc = label] IN
         /\ r \in Request /\ r.pc = label
         /\ \A a, e : LookupOK(r, a, e)
         /\ \A perms : /\ label = "seedAdmin" => SeedAdmin \subseteq perms
                       /\ label = "seedSuperAdmin" => SeedSuperAdmin \subseteq perms
                       => StartOK(r, perms)
<1> DEFINE r == [req[p] EXCEPT !.pc = label]
<1>1. req[p] \in Request /\ StartOK(req[p], permissions)
  BY DEF PermissionsInv, TypeOK
<1>2. /\ r \in Request /\ r.pc = label /\ r.version = req[p].version
      /\ r.left = req[p].left /\ r.next = req[p].next /\ r.keys = req[p].keys
  BY <1>1 DEF Request, PC
<1> HIDE DEF r
<1>3. \A a, e : LookupOK(r, a, e)
  BY <1>1, <1>2 DEF LookupOK, StartOK
<1>4. \A perms : /\ label = "seedAdmin" => SeedAdmin \subseteq perms
                 /\ label = "seedSuperAdmin" => SeedSuperAdmin \subseteq perms
                 => StartOK(r, perms)
  BY <1>1, <1>2 DEF StartOK
<1> QED
  BY <1>2, <1>3, <1>4 DEF r

\* The seed makes permissions: those that are new have no rows yet.
LEMMA SeedModuleKeepsInv ==
  ASSUME PermissionsInv, NEW p \in Proc, NEW keys, NEW label,
         keys \subseteq SeedAdmin \cup SeedSuperAdmin, SeedModule(p, keys, label),
         req[p].pc \in {"seedUserModule", "seedPermissionsModule"},
         \/ label = "seedAdmin" /\ keys = SeedAdmin
         \/ label = "seedSuperAdmin" /\ keys = SeedSuperAdmin
  PROVE  PermissionsInv'
<1> DEFINE r == [req[p] EXCEPT !.pc = label]
<1>1. /\ permissions' = permissions \cup keys /\ req' = [req EXCEPT ![p] = r]
      /\ UNCHANGED <<granted, ever, always, redis, enabled, started>>
  BY DEF SeedModule, Goto
<1>2. /\ r \in Request /\ \A a, e : LookupOK(r, a, e)
      /\ \A perms : /\ label = "seedAdmin" => SeedAdmin \subseteq perms
                    /\ label = "seedSuperAdmin" => SeedSuperAdmin \subseteq perms
                    => StartOK(r, perms)
  BY StartRecord
<1>2a. StartOK(r, permissions')
  BY <1>1, <1>2
<1>3. OneVersionEach'
  <2>1. ASSUME NEW k \in keys, k \notin permissions
        PROVE  Seeded(k)'
    BY <1>1, <2>1 DEF Seeded, SeedGives, PermissionsInv
  <2>2. ASSUME NEW k \in permissions
        PROVE  (Seeded(k) \/ \E v \in Versions : k \in DOMAIN v /\ AsAssigned(v, k))'
    BY <1>1 DEF PermissionsInv, OneVersionEach, Seeded, AsAssigned
  <2> QED BY <1>1, <2>1, <2>2 DEF OneVersionEach
<1>4. permissions' \subseteq Permission /\ permissions \subseteq permissions'
  BY <1>1, PermissionsAssumption DEF PermissionsInv, TypeOK
<1> HIDE DEF r
<1> QED
  BY <1>1, <1>2, <1>2a, <1>3, <1>4, TableStep DEF PermissionsInv, TypeOK

\* The seed grants permissions, which are there, to one role.
LEMMA SeedGrantsKeepsInv ==
  ASSUME PermissionsInv, NEW p \in Proc, NEW keys, NEW role, NEW label,
         SeedGrants(p, keys \X {role}, label),
         \/ /\ req[p].pc = "seedAdmin" /\ label = "seedPermissionsModule"
            /\ keys = SeedAdmin /\ role = Admin
         \/ /\ req[p].pc = "seedSuperAdmin" /\ label = "upsert"
            /\ keys = SeedSuperAdmin /\ role = SuperAdmin
  PROVE  PermissionsInv'
<1> DEFINE r == [req[p] EXCEPT !.pc = label]
<1>1. /\ permissions' = permissions /\ req' = [req EXCEPT ![p] = r]
      /\ UNCHANGED <<redis, enabled, started>>
  BY DEF SeedGrants, Goto
<1>2. /\ r \in Request /\ \A a, e : LookupOK(r, a, e)
      /\ \A perms : StartOK(r, perms)
  BY StartRecord
<1>3. \/ UNCHANGED <<granted, ever, always>>
      \/ WriteGrants(granted \cup (keys \X {role}))
  BY DEF SeedGrants
<1>4. /\ keys \subseteq permissions /\ keys \subseteq Permission /\ role \in Role
      /\ \A k \in keys : SeedGives(k, role)
  BY PermissionsAssumption DEF PermissionsInv, StartOK, SeedGives
<1>5. \/ UNCHANGED <<granted, ever, always>>
      \/ granted' = granted \cup (keys \X {role}) /\ WriteGrants(granted')
  BY <1>3 DEF WriteGrants
<1>6. /\ granted \subseteq granted'
      /\ \A g \in granted' \ granted : g \in keys \X {role}
  BY <1>5
<1>7. granted' \subseteq Grant /\ \A g \in granted' : g[1] \in permissions'
  BY <1>1, <1>4, <1>6 DEF PermissionsInv, TypeOK, Grant
<1>8. \A k, s : <<k, s>> \in granted' \ granted => SeedGives(k, s)
                                                  /\ k \in SeedAdmin \cup SeedSuperAdmin
  BY <1>4, <1>6 DEF SeedGives
<1>9. OneVersionEach'
  <2>1. ASSUME NEW k, Seeded(k)
        PROVE  Seeded(k)'
    BY <1>8, <2>1 DEF Seeded, SeedGives
  <2>2. ASSUME NEW k, NEW v \in Versions, AsAssigned(v, k)
        PROVE  AsAssigned(v, k)'
    <3> SUFFICES ASSUME NEW s \in Role
                 PROVE  /\ s \in v[k] => <<k, s>> \in granted'
                        /\ <<k, s>> \in granted' => s \in v[k] \/ SeedGives(k, s)
      BY DEF AsAssigned
    <3>1. /\ s \in v[k] => <<k, s>> \in granted
          /\ <<k, s>> \in granted => s \in v[k] \/ SeedGives(k, s)
      BY <2>2 DEF AsAssigned
    <3> QED BY <3>1, <1>6, <1>8
  <2>3. ASSUME NEW k \in permissions
        PROVE  (Seeded(k) \/ \E v \in Versions : k \in DOMAIN v /\ AsAssigned(v, k))'
    <3>1. Seeded(k) \/ \E v \in Versions : k \in DOMAIN v /\ AsAssigned(v, k)
      BY DEF PermissionsInv, OneVersionEach
    <3> QED BY <3>1, <2>1, <2>2
  <2> QED BY <1>1, <2>3 DEF OneVersionEach
<1>10. permissions' \subseteq Permission /\ permissions \subseteq permissions'
       /\ started' \in Nat
  BY <1>1 DEF PermissionsInv, TypeOK
<1> HIDE DEF r
<1> QED
  BY <1>1, <1>2, <1>5, <1>7, <1>9, <1>10, TableStep

\* An upsert gives one permission the roles of the build, and no others.
LEMMA UpsertKeepsInv ==
  ASSUME PermissionsInv, NEW p \in Proc, UpsertPermission(p)
  PROVE  PermissionsInv'
<1>0. PICK v : v = req[p].version
  OBVIOUS
<1>1. PICK k \in req[p].left :
        /\ permissions' = permissions \cup {k}
        /\ WriteGrants(Upserted(k, v[k]))
        /\ req' = [req EXCEPT ![p].left = @ \ {k}]
  BY <1>0 DEF UpsertPermission
<1>2. req[p].pc = "upsert" /\ UNCHANGED <<redis, enabled, started>>
  BY DEF UpsertPermission
<1>3. req[p] \in Request /\ StartOK(req[p], permissions)
  BY DEF PermissionsInv, TypeOK
<1>4. v \in Versions /\ k \in DOMAIN v /\ k \in Permission /\ v[k] \subseteq Role
  BY <1>0, <1>2, <1>3, PermissionsAssumption DEF StartOK
<1> DEFINE r == [req[p] EXCEPT !.left = @ \ {k}]
<1>5. req' = [req EXCEPT ![p] = r]
  BY <1>1
<1>6. /\ r \in Request /\ r.pc = "upsert" /\ r.version = v /\ r.next = req[p].next
      /\ r.keys = req[p].keys /\ r.left = req[p].left \ {k}
  BY <1>0, <1>2, <1>3 DEF Request
<1> HIDE DEF r
<1>7. LookupOK(r, always', ever') /\ StartOK(r, permissions')
  BY <1>0, <1>2, <1>3, <1>6 DEF LookupOK, StartOK
<1>8. granted' = Upserted(k, v[k]) /\ WriteGrants(granted')
  BY <1>1 DEF WriteGrants
<1>9. /\ granted' \subseteq Grant
      /\ \A g \in granted' : g[1] \in permissions'
  BY <1>1, <1>4, <1>8 DEF Upserted, PermissionsInv, TypeOK, Grant
<1>10. OneVersionEach'
  <2>1. AsAssigned(v, k)'
    BY <1>4, <1>8 DEF AsAssigned, Upserted
  <2>2. ASSUME NEW l \in permissions, l # k
        PROVE  (Seeded(l) \/ \E w \in Versions : l \in DOMAIN w /\ AsAssigned(w, l))'
    <3>1. \A s : <<l, s>> \in granted' <=> <<l, s>> \in granted
      BY <1>8, <2>2 DEF Upserted
    <3> QED BY <3>1 DEF PermissionsInv, OneVersionEach, Seeded, AsAssigned
  <2> QED BY <1>1, <1>4, <2>1, <2>2 DEF OneVersionEach
<1>11. permissions' \subseteq Permission /\ permissions \subseteq permissions'
       /\ started' \in Nat
  BY <1>1, <1>2, <1>4 DEF PermissionsInv, TypeOK
<1> QED
  BY <1>2, <1>5, <1>6, <1>7, <1>8, <1>9, <1>10, <1>11, TableStep

LEMMA SeedKeepsInv ==
  ASSUME PermissionsInv, NEW p \in Proc, Seed(p)
  PROVE  PermissionsInv'
<1>1. CASE SeedUserModule(p)
  BY <1>1, SeedModuleKeepsInv DEF SeedUserModule
<1>2. CASE SeedAdminGrants(p)
  BY <1>2, SeedGrantsKeepsInv DEF SeedAdminGrants
<1>3. CASE SeedPermissionsModule(p)
  BY <1>3, SeedModuleKeepsInv DEF SeedPermissionsModule
<1>4. CASE SeedSuperAdminGrants(p)
  BY <1>4, SeedGrantsKeepsInv DEF SeedSuperAdminGrants
<1> QED
  BY <1>1, <1>2, <1>3, <1>4 DEF Seed

\* The steps of Next that are left: a start that goes on to fill the cache, a
\* request that dies, and what happens to Redis.
LEMMA OthersKeepInv ==
  ASSUME PermissionsInv,
         \/ \E p \in Proc : SetPermissionToCache(p) \/ Fail(p)
         \/ \E k \in Key : Expire(k)
         \/ SwitchCache
  PROVE  PermissionsInv'
<1>1. ASSUME NEW p \in Proc, SetPermissionToCache(p)
      PROVE  PermissionsInv'
  <2> DEFINE r == [req[p] EXCEPT !.pc = "findCombined"]
  <2>1. req' = [req EXCEPT ![p] = r] /\ UNCHANGED <<tables, redis, enabled, started>>
    BY <1>1 DEF SetPermissionToCache, Goto
  <2>2. r \in Request /\ LookupOK(r, always, ever) /\ StartOK(r, permissions)
    BY <1>1, StartRecord DEF SetPermissionToCache
  <2> HIDE DEF r
  <2> QED
    BY <2>1, <2>2, LookupStep DEF PermissionsInv, TypeOK, redis
<1>2. ASSUME NEW p \in Proc, Fail(p)
      PROVE  PermissionsInv'
  <2>1. LookupOK(Idle, always, ever) /\ StartOK(Idle, permissions)
    BY DEF Idle, LookupOK, StartOK
  <2>2. req' = [req EXCEPT ![p] = Idle] /\ UNCHANGED <<tables, redis, enabled, started>>
    BY <1>2 DEF Fail, Finish
  <2> QED
    BY <2>1, <2>2, IdleType, LookupStep DEF PermissionsInv, TypeOK, redis
<1>3. ASSUME NEW k \in Key, Expire(k)
      PROVE  PermissionsInv'
  BY <1>3 DEF Expire, PermissionsInv, TypeOK, CacheOK, tables, OneVersionEach,
              AsAssigned, Seeded
<1>4. ASSUME SwitchCache
      PROVE  PermissionsInv'
  BY <1>4 DEF SwitchCache, PermissionsInv, TypeOK, tables, redis, OneVersionEach,
              AsAssigned, Seeded
<1> QED
  BY <1>1, <1>2, <1>3, <1>4

LEMMA InitInv == Init => PermissionsInv
<1> SUFFICES ASSUME Init PROVE PermissionsInv
  OBVIOUS
<1>1. PICK v \in Versions : permissions = DOMAIN v /\ granted = GrantsOf(v)
  BY DEF Init
<1>2. DOMAIN v \subseteq Permission /\ \A k \in DOMAIN v : v[k] \subseteq Role
  BY PermissionsAssumption
<1>3. TypeOK
  BY <1>1, <1>2, IdleType DEF Init, TypeOK, GrantsOf
<1>4. \A g \in granted : g[1] \in permissions
  BY <1>1 DEF GrantsOf
<1>5. OneVersionEach
  <2>1. \A k \in permissions : AsAssigned(v, k)
    BY <1>1, <1>2 DEF AsAssigned, GrantsOf, Grant
  <2> QED BY <1>1, <2>1 DEF OneVersionEach
<1>6. /\ \A p \in Proc : LookupOK(req[p], always, ever)
      /\ \A p \in Proc : StartOK(req[p], permissions)
  BY DEF Init, Idle, LookupOK, StartOK
<1>7. CacheOK(cached, always, ever)
  BY DEF Init, CacheOK
<1> QED
  BY <1>3, <1>4, <1>5, <1>6, <1>7 DEF Init, PermissionsInv

LEMMA StutterKeepsInv == PermissionsInv /\ UNCHANGED vars => PermissionsInv'
  BY DEF vars, tables, redis, PermissionsInv, TypeOK, CacheOK, OneVersionEach,
         AsAssigned, Seeded

\* The invariant holds in every state: every set in Redis is whole.
THEOREM Inductive == Spec => []PermissionsInv
<1>1. PermissionsInv /\ [Next]_vars => PermissionsInv'
  BY StartServerKeepsInv, SeedKeepsInv, UpsertKeepsInv, StartGuardKeepsInv,
     LookupKeepsInv, OthersKeepInv, StutterKeepsInv DEF Next
<1> QED
  BY InitInv, <1>1, PTL DEF Spec

\* Tables, cache and requests are well typed.
THEOREM PermissionTypes == Spec => []TypeOK
<1>1. PermissionsInv => TypeOK
  BY DEF PermissionsInv
<1> QED
  BY <1>1, Inductive, PTL

\* No guard works with a permission its caller's roles never had, whatever the
\* builds, the faults and the order of the commands (PermissionRepository).
THEOREM GuardsNeverInvent == Spec => []NeverInvented
<1>1. PermissionsInv => NeverInvented
  BY DEF PermissionsInv, LookupOK, Between, NeverInvented
<1> QED
  BY <1>1, Inductive, PTL

\* No guard misses a permission that one of the caller's roles always had, though
\* the cached sets are written by several commands (CacheService.setAdd).
THEOREM GuardsNeverMiss == Spec => []NeverMissing
<1>1. PermissionsInv => NeverMissing
  BY DEF PermissionsInv, LookupOK, Between, NeverMissing
<1> QED
  BY <1>1, Inductive, PTL

\* Every permission has the roles of one build (buildPermissionUpsertArgs).
THEOREM PermissionsOfOneBuild == Spec => []OneVersionEach
<1>1. PermissionsInv => OneVersionEach
  BY DEF PermissionsInv
<1> QED
  BY <1>1, Inductive, PTL
=============================================================================
