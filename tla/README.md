# A TLA+ model of the restaurant food API

The API is a NestJS application over PostgreSQL (through Prisma) with an
optional Redis cache. Users have a cart each, share it with other users, and
turn it into an order; accounts log in on devices and renew their access with
refresh tokens; staff keep the catalog and move orders on. There are no tests in
the repository.

Every HTTP request is an asynchronous function. Between two `await`s the
requests of all users interleave, several server processes may run, and a
request may die anywhere. Almost every handler reads rows, decides, and writes
in a later statement. A server that starts runs the seed and writes its
permissions while the one it replaces still answers. What holds in spite of that,
and what does not, is the subject of these modules.

## Components

| component | state | operations that change it | what is hard |
|---|---|---|---|
| Shared carts (`src/cart`) | `Cart`, `CartItem`, `CartShare` | addItem, updateItemQuantity, deleteItem, shareCart, removeSharedUser, checkoutCart, clearCart, getOwnCart | rows read before the transaction that writes, row locks of three kinds of transaction taken row by row, shares removed while a guest works |
| Orders (`src/orders`) | `Order`, `OrderItem` | createOrder, updateOrder, deleteOrder | the status read before the write; order and cart changed in two transactions |
| Sessions and authentication (`src/session`, `src/auth`) | `UserSession`, `SessionRefreshTokens` | login, refresh_token, logout, the clean-up job | no transactions at all; one token presented twice; crash between two deletes and inserts; a job nobody schedules |
| User accounts (`src/users`) | `User` | create, update, update_profile, delete; the seed | address checked, then written; guards that read the caller first |
| Permissions (`src/permission`) | `Permission`, `RolePermission`, sets in Redis | the upserts of a start, the grants of the seed, cached reads | a set stored by three commands, never invalidated; grants deleted and made anew while guards read |
| Roles guard, country scope (`src/roles`, `src/users/interceptors`) | none | none | a scope read with the account, long before the list |
| Catalog (`src/restaurant`, `src/menu`) | `Restaurant`, `MenuCategory`, `MenuItems`, files | create, update, delete of each; the seed | names checked, then written; pictures on disk and rows in the database; two statements of a list |
| Transactions and pool (`utils/db`) | connections | runTransaction | a transaction that needs a second connection |
| Cache service (`utils/cache`) | Redis | getMembers, setAdd | the connection is lost and comes back |
| Response cache (`utils/cache`) | Redis keys and tags | none: used by no controller | - |
| File upload (`utils/file-upload`) | files | uploadFile | a file without a row |
| Bootstrap, seed | the tables of the others | every start of a server | found by name, then created |
| Configuration, API docs, DTO helpers | none | - | - |

They interact by calls and by the shared tables. The controllers call the
services behind guards: AuthGuard reads the session and the account,
PermissionGuard and FieldPermissionGuard ask PermissionService for the set of the
caller's roles. OrderService is a client of CartService (`checkCartAccess`,
`clearCart`), both write `Order`. AuthService is a client of UserService and
SessionService; carts and orders refer to rows of the catalog.

What makes each of them correct:

* carts: an operation takes effect as a whole or not at all; what was ordered
  leaves the cart; only members touch a cart; no two rows for one key; no
  requests that wait for each other for ever; contributors are not removed;
* orders: guarded fields change by permission only; deleted orders stay deleted;
  final orders are frozen; an order has items;
* sessions: a refresh token is good for one exchange and ends with its session;
  a session can be renewed as long as it lasts; a device has one session; expired
  sessions go;
* accounts: one account per address; a deleted account is frozen and out; only
  those who may write accounts do;
* permissions: a guard is told nothing that was never granted, and misses
  nothing that always was; the grants of a permission are those of one build;
* catalog: names among siblings, pictures that are whole and of one item, deleted
  rows frozen, pages that have the rows their totals tell and keep to the caller's
  country.

## Modules

| module | what it is |
|---|---|
| `Cart` | carts, shares, items and the orders made from them, one action per database statement |
| `CartPool` | the requests of `Cart` behind the pool of connections: a composition |
| `AtomicCart` | what carts promise: every operation one step |
| `Orders` | update and deletion of orders, with the permissions of the callers |
| `Sessions` | sessions and refresh tokens, one action per statement |
| `Accounts` | accounts, login, the guards of a request, the seed's accounts |
| `Permissions` | permissions and their grants, the cached sets, a server's start |
| `Catalog` | restaurants, categories, items, pictures, lists, the seed's restaurants |
| `CartProofs`, `CartRefinementProofs`, `CartPoolProofs`, `OrdersProofs`, `SessionsProofs`, `AccountsProofs`, `PermissionsProofs`, `CatalogProofs` | theorems about each |
| `MCCart`, `MCCartPool`, `MCOrders`, `MCSessions`, `MCAccounts`, `MCPermissions`, `MCCatalog` | instances for TLC |

Where two components meet, the module of the one holds what it needs of the
other: `Cart` makes the orders (and `Orders` takes their making as one step),
`Sessions` deletes accounts, `Accounts` keeps of sessions only who ever had one,
`Orders` and `Accounts` decide by the permissions that `Permissions` is about.

### How state and actions correspond to the code

The tables are sets or sequences of records, with the columns the properties
need. `req[p]` is the request that process `p` works on: `pc` names the next
statement, the other fields are the local variables of the handler (arguments,
rows it has read). An action is one statement of the handler with the code
around it up to the next `await` on the database; its guard holds the condition
under which the statement can run at all (it waits for no lock). A request ends
by `Finish`, an exception by `Return`, which drops the record and changes no
table. `Fail` ends a request between two statements.

**Transactions.** PostgreSQL runs at its default, READ COMMITTED. What an open
transaction has written is kept in the request's record and reaches the tables
with the commit, which is one step with the transaction's last statement. Rows
that an open transaction has updated or deleted, and unique keys it has
inserted, are locked: the statements of others that need them wait
(`RowLocked`, `KeyReserved`, `ShareLocked`, `ShareKeyReserved`). `HoldsRow`,
`HoldsKey`, `HoldsShare` and `HoldsShareKey` say which request it is, and `WaitsFor`
which request a statement waits for. Then they see what has been committed. A
rollback is to drop the record. A `deleteMany` finds its rows with one snapshot
(`matched`) and locks them one by one, in no order one can rely on (`LockItem`,
`LockShare`); it passes over those that are gone. A `createMany` inserts its rows one
by one (`CreateShare`). So two of these statements can wait for each other. PostgreSQL
notices a circle and ends one of its transactions (`Deadlocked`); nothing repeats the
request. Only carts and orders use transactions; elsewhere every statement is its own,
`clearCart`'s `deleteMany` too.

**Cart.** `getOwnCart` is `FindOwnCart`, `CreateCart`; `getCartAccess` is
`GetCartAccess`; then `Continue` says where each operation goes on:

* addItem: `FindExistingItem`, then the transaction `WriteItem`, `UpdateShare`;
* updateItemQuantity, deleteItem: `FindItem` before the access check, then
  `UpdateItem`, `DeleteItem`;
* shareCart: `DeleteShares` and `LockShare` for every share found, `CreateShare` for
  every user of the list, `CommitShares`, one transaction. The insertion is ON CONFLICT
  DO NOTHING (`skipDuplicates`), in the order of the client's list, which is any: it
  waits for a key that another open transaction has inserted or whose row another one
  is deleting, and passes over a key that is taken;
* removeSharedUser: `FindShare`, `DeleteShare`, without one;
* checkoutCart: `FindCartItems`, `DeleteCartItems` and `LockItem` for every item,
  `DeleteCartShares` and `LockShare` for every share, `CommitCheckout`, one transaction
  (the insertions of the order and its items conflict with nothing and are part of the
  commit);
* createOrder: `InsertOrder` in a transaction of its own, then `ClearAccess`, and
  `ClearItems`, `LockItem` and `CommitClear`, the statement that empties the cart.

A checkout without a cart id, which the service would allow, is refused by the
request's validation. A cart is named by its owner, because `ownerId` is unique
and carts are never deleted.

**The pool.** `CartPool` adds to every request of `Cart` the connections it holds.
The repositories use the connection of the transaction they are given, else one
of the pool for one statement; so a request needs one connection (`Needed`), and
shareCart, whose transaction is not handed to getOwnCart, two while it is
there. `Connect` takes one from the pool, `Run` is a step of `Cart` by a request
that has what it needs, `Release` gives back what no open transaction or unfinished
statement keeps, `BreakCircle` is the deadlock detector, `TimeOut` ends a transaction
that waits. The pool is pg's, with its defaults: ten
connections, no limit on the time a request waits for one. Prisma refuses a
transaction that has waited two seconds to begin; one that has begun lasts up to
10 000 000 ms (`transaction.service.ts:11`). So shareCarts that have used up the pool
among themselves wait for one another, and all other requests for them, for almost
three hours. `EveryRequestAnswered` names that state (`Exhausted`) and says that
there is no other in which a request waits for ever.

**Orders.** An update is `StartUpdate` (guards), `CheckEditable`,
`UpdateOrder`; a deletion `StartDelete`, `DeleteOrder`. The creation of an order
and a checkout are one step each here; `Cart` has their steps. The update is a
nested Prisma write, which runs in a transaction and updates the order row first
(`updatedAt` is always written), so it is one step. `overtaken` is a history
variable: the updates that have checked an order and seen another update write
it since.

**Sessions.** login is `StartLogin` (credentials), `FindSessions`,
`DeleteSessions`, `CreateSession`, `TouchAccount`, `CreateToken`; refresh_token
is `StartRefresh` (the token's row is read), `DeleteToken`, `FindSession`,
`CreateToken`; logout is `StartLogout` (AuthGuard), `DeleteSession`. A session
carries a Boolean that says whether its `expiresAt` has passed; nothing but the
clean-up job looks at it. `Scheduled` says whether the application has the
module that runs the job: as it is wired, it has not (`app.module.ts:19-37`). The
lifetime of the tokens is not modelled: the JWT of a refresh token is decoded
and not verified, and the column is never read. `rotated` and `lost` are history
variables: the exchanges, and the sessions whose request died before their
token was written.

**Accounts.** Every request but a login passes `FindSession`, `FindAccount`
(AuthGuard). The token names a session of its caller, or none: AuthGuard tests that it
is signed and has not expired, a refresh token is signed with the same secret and has no
`sessionId`, and Prisma drops a condition that is undefined, so that the lookup finds
any session there is (`SessionsFound`) and the request goes on as the account of that
session. Then, if its route asks for a permission, `Authorize`
(PermissionGuard; `Managing` are the roles with the permission). A creation
is `CheckEmail`, `InsertAccount`, an update (of any account, or of the caller's
own by update_profile) `CheckEmail`, `UpdateAccount`, a deletion `DeleteAccount`.
The check looks at accounts that are not deleted (`FindByEmail`), the unique
index at all of them (`Taken`). An update whose body names `roleIds`, which is no
column, is refused by Prisma; so the roles of an account never change. The seed
goes group by group (the administrator, the super administrator, the managers,
the members): within a group accounts are looked for and made in any order, as
`Promise.all` lets them be. Two seeds may overlap. A login is `StartLogin`,
`CreateSession`, `TouchAccount`, and `sessions` are the accounts that ever had a
session: that one may have ended is a choice of `FindSession`.

**Permissions.** `npm start` migrates, seeds and starts the server
(`package.json`), so `StartServer` begins with the seed, or without it. The seed
is `SeedUserModule`, `SeedAdminGrants`, `SeedPermissionsModule`,
`SeedSuperAdminGrants`; onModuleInit is `UpsertPermission` for each permission of
the build, in any order, and `SetPermissionToCache`. The nested write of an
upsert runs its deleteMany before its createMany, in one transaction; the
deleteMany compares ids of roles with names, so it deletes every row of the
permission (`Upserted`). A guard, and a client who asks for its own
permissions, is `FindCombined`, then for every role `FindRole`, `QueryRole` and
the three commands of setAdd (`DeleteSet`, `AddMembers`, `SetLifetime`), then the
same for the whole list, without a lifetime. The key of a list of one role is that
of the role. `Expire` is Redis, `SwitchCache` the loss and return of the
connection. `ever` and `always` are history variables.

**Catalog.** One sequence holds the rows of the three tables; a row's `parent`
is its restaurant or category. A creation is `FindRestaurant` or
`FindCategory`, the check of the name (`CheckRestaurant`, `CheckCategory`,
`CheckItem`), for an item `Upload` and `WriteFile`, and the insertion; an update
is `FindRow` (not for restaurants), the check if a name is given, for an item
the upload if there is a picture, and the update; a deletion marks the row. Lists
read a page of the rows and the total in either order (`ReadData`, `ReadTotal`):
`skip` and `limit` go to the first query only, and the total counts all rows asked for.
Which rows are on a page is left open (`PagesOf`), because it is for the order of the
names or of the database; how many is not (`PageSize`). The seed is
`SeedFind` for each of its restaurants, then `SeedCreate`, which inserts a
restaurant with its menu in one nested write. `moved` and `writes` are history
variables: whether a row was given another parent, and how many rows were
written while a list was being read.

### Assumptions

* Requests that are refused by what they read first (wrong password, unknown
  refresh token, unknown restaurant, an id that does not exist) never start.
* `active` of an account is cleared only together with `deletedAt`, by
  deleteAccount; `active` of catalog rows is never read and left out. A deletion
  of what is deleted only changes the date. The lookup that precedes the deletion
  of a category or an item finds every row there ever was, and is one step with it.
* In `Orders` the permissions of the roles are those of `CURRENT_PERMISSIONS`
  (caching is off by default); `Permissions` says what a guard can be told otherwise.
* Request bodies satisfy the DTO's validation: quantities are positive, ids are
  of rows that exist, a parent in an update exists (a foreign key).
* In `Permissions` and `Catalog` the starts of two servers do not overlap; in
  `Accounts` they may.
* `skip` and `limit` of a list are natural numbers (`Pages`): Prisma refuses a
  negative `skip`, and a negative `limit` takes a page from the other end, which is left
  out. The search for a text is equality with the text.

## Runs

The runs of `Cart` and `Orders` end with all processes idle when the bound on
requests is used up; that is a step (`Quiescent`), so that a deadlock is an
error. `accounts`, `catalog` and `sessions_expired`
turn it off because the system really stops when the bound is used up: nothing in
them waits for anything. In `sessions_all` and `permissions` a job, a key or the
connection can always go on.

| run | instance | shows |
|---|---|---|
| `cart_all` | 2 users, 2 processes, faults; 4 requests about 1 menu item from empty tables, or 2 requests on a cart of 2 items | the safety of carts, all eight operations interleaved; a row gets into at most as many orders as requests overlap (`OrdersPerItem`) |
| `cart_atomic` | 2 users, 1 menu item, 2 quantities, 2 processes, 4 requests, faults; specification `EditsOverlap`, without requests that repeat others (`FewRequests` of MCCart) | the operations are those of `AtomicCart`, when a share, a removal, a checkout or the emptying of a cart has that cart to itself |
| `cart_live` | 3 users, 2 menu items, 2 processes, 3 requests of addItem, shareCart, checkoutCart and createOrder about one cart that holds both items and is shared with nobody or with both guests, a pool of 2 connections, fairness | row locks and connections together: circles of locks are those of statements that write several items, or several shares (`CirclesOfOneKind`), and are ended; every request is answered, except behind shareCarts that have used up the pool; otherwise one of them can go on (`SomeoneCanGoOn`); who waits for a connection holds no row lock |
| `sessions_all` | 2 accounts, 1 device, 2 processes, 4 requests, faults, the job | tokens are exchanged once, one per session, and end with it; a device has at most as many sessions as there are overlapping requests; sessions that no fault has lost can be renewed |
| `orders_all` | 2 menu items of 2 restaurants, 2 processes, 1 order, 3 requests, deaths of requests | guarded fields, deleted orders, what is left of frozen orders when updates overlap |
| `accounts` | 3 addresses, 2 roles, 2 processes, 3 requests, faults, 2 tables to start with | one account per address, deleted accounts frozen and out, who writes |
| `permissions` | 2 builds, 3 permissions, 2 roles, 2 processes, 3 requests, faults | what guards are told, and what a start that dies leaves in the tables |
| `catalog` | 2 names, 2 countries, a seed of 1 restaurant with its menu, pages of one row after the first, 2 processes, 3 requests, faults | names, pictures, deleted rows, lists |

Four runs show where the code does not do what its own messages say:

| run | property | what happens |
|---|---|---|
| `cart_double_checkout` | `CheckoutNeedsItems` | two checkouts read the same items, both make an order |
| `cart_contributor` | `ContributorsStay` | sharing again resets `hasContributed`, the contributor is removed |
| `orders_frozen_race` | `FinalOrdersFrozen` | an update writes an order that became final after it was read |
| `sessions_expired` | `ExpiredSessionsEnd` | a session expires, no job runs, and it stays |

What is seen in the models and contradicts no property: a checkout or an update
mixes items of restaurants, and an update with an empty list leaves an order with
none, although the creation of an order refuses both; rows of deleted restaurants and
categories are still listed; a name given to a row that also moves is compared
with its old siblings; an update without a picture puts back the picture it read; the
address of a deleted account is never free again; when the last administrator is
deleted the seed makes none, because it finds the deleted row; a cached set has
no bound on its age; two shareCarts whose lists name two users in opposite orders, or
two statements that delete the same rows, can wait for each other, and one of them
fails; a token that names no session passes AuthGuard as the account of some session
(`auth.guard.ts:37-46`, `session.repository.ts:9-12`), so `NoEntryAfterDeletion` and
`ChangesAuthorized` speak of that account, not of the one the token was made for; and
a request whose account is deleted after AuthGuard has read it still writes.

`ImplementsAtomicCart` is checked, and proved, where it holds. `EditsOverlap` is
`Cart` in which a shareCart, a removeSharedUser and a checkoutCart have their
cart to themselves from the access check to their end, as if they had locked its row,
and a createOrder while it empties the cart (`Exclusive`);
up to there, and at other carts, they overlap with everything, and edits, lists
and the insertion of an order overlap with one another without limits (`Edits`,
`OthersAlone`). The code has no such lock, and without it the refinement fails. When a
checkout overlaps with an edit: an item added after the checkout has read the cart and
before it deletes the rows is deleted and never ordered (and two checkouts order the
same rows). When a share changes while its user's request is under way, the request
goes by the old one. An item added while a createOrder empties the cart row by row
stays, although it is in the cart when the others go. What still holds there are the invariants of `cart_all`. The
refinement (`Atomic == INSTANCE AtomicCart WITH ...`) maps every table to itself; the
steps that change no table are stutters, and an operation takes effect in its last
write.

**Bounds.** `MaxRequests` bounds the requests ever started (starts of servers
included), `MaxOrders` the orders ever made; ids are counters bounded by them.
The conflicts in this code are between two requests about one cart, session,
order, name or address, so two processes show each of them; two users are an
owner and a guest, and one menu item makes all requests meet. Four requests are
enough to fill a cart, share it, and have two more overlap (the shortest
violations above take two to five). In `cart_atomic` one menu item, in two
quantities, is enough for edits to meet on a row, on its key and on its absence. One device makes every login evict another,
also that of the other account. One order is enough, because requests about
different orders touch no common row. Three requests in `accounts`,
`permissions` and `catalog` are one that leaves something behind (a deletion, a
build, a seed) and two that overlap after it; the tables they start with spare
the requests that would make them: an administrator and a member, or nobody;
the permissions of one build; a restaurant with two categories of one name, as two
overlapping creations leave them. Users, processes and
devices are symmetric in the safety runs; the runs with liveness use no symmetry.

Two rows are what two statements need to meet in opposite orders: `cart_all` begins
also with a cart that two requests have filled (`FilledCart`), and `cart_live` has
two menu items and two guests, and a cart that is filled already, so that three
requests are enough for two that overlap after one that has changed something. A pool
of two connections is what two shareCarts can use up; that the others are still
answered when it is not used up is the case of all other requests. `OneCart` of
MCCartPool keeps the requests of `cart_live` to the cart of one user, because only
requests about one cart wait for one another's locks.

**Fairness.** `WF_poolVars(Run(p))`: Node.js resumes a handler when its
statement is answered, and PostgreSQL runs every statement that has its connection
and does not wait for a lock. `WF_poolVars(BreakCircle(p))`: its deadlock detector runs
whenever a statement has waited for a second. `SF_poolVars(Connect(p))`: the pool keeps its
requests in a queue and serves them in order, so none is passed over for ever; nothing
is assumed of `TimeOut`. No request is ever started by fairness. `WF_vars(ClearExpiredSessions)`:
a scheduler, where there is one (`Scheduled`), runs the job every six hours;
`sessions_expired` has none, like the program. Nothing is assumed of `Fail`,
`Expire` or the clients, and the two runs with fairness have no faults.

## Proofs

TLAPS checks the following for every value of the constants (any users, menu
items, devices, names, roles, builds, seeds, processes, sizes of the pool, any number
of requests, with faults or without).

| module | theorem | property |
|---|---|---|
| `CartProofs` | `CartTypes` | `TypeOK` |
| | `OrderedItemsLeave` | `OrderedItemsLeaveCart` |
| | `OrdersOfOneItem` | `OrdersPerItem`, for finitely many processes |
| | `MembersOnly` | `OnlyMembers` |
| | `KeysAreUnique` | `UniqueKeys` |
| | `OrdersAreFromOneCart` | `OrdersFromOneCart` |
| | `CirclesAreOfOneKind` | `CirclesOfOneKind` |
| `CartRefinementProofs` | `CartIsAtomic` | `ImplementsAtomicCart`, of `EditsOverlap` |
| `CartPoolProofs` | `NoLocksWhileWaiting` | `WaitersHoldNoLocks` |
| | `SomeoneGoesOn` | `SomeoneCanGoOn` |
| | `PoolIsCart` | `PoolSpec => Spec`, with faults |
| `SessionsProofs` | `SessionsTypes` | `TypeOK` |
| | `TokensExchangedOnce` | `ExchangedOnce` |
| | `SessionsHaveOneToken` | `OneTokenPerSession` |
| | `TokensEnd` | `TokensEndWithSession` |
| | `SessionsStayRenewable` | `SessionsRenewable` |
| | `FewSessionsPerDevice` | `SessionsPerDevice` |
| `OrdersProofs` | `OrdersTypes` | `TypeOK` |
| | `FieldsAreGuarded` | `FieldsGuarded` |
| | `DeletedStay` | `DeletedStaysDeleted` |
| | `OvertakenUpdatesOnly` | `FrozenUnlessOvertaken` |
| `PermissionsProofs` | `PermissionTypes` | `TypeOK` |
| | `GuardsNeverInvent` | `NeverInvented` |
| | `GuardsNeverMiss` | `NeverMissing` |
| | `PermissionsOfOneBuild` | `OneVersionEach` |
| `CatalogProofs` | `CatalogTypes` | `TypeOK` |
| | `DeletedRowsStay` | `DeletedFrozen` |
| | `PicturesOfOneItem` | `PicturesOwned` |
| | `NamesOfProcesses` | `NamesBounded` |
| | `TotalsOfLists` | `TotalsAgree` |
| | `CountriesKept` | `CountryKept` |
| `AccountsProofs` | `AccountTypes` | `TypeOK` |
| | `OneAccountPerAddress` | `EmailsUnique` |
| | `DeletedAreOut` | `NoEntryAfterDeletion` |
| | `DeletedRowsAreFinal` | `DeletedAccountsFrozen` |
| | `WritersMayWrite` | `ChangesAuthorized` |

They rest on the named assumptions of each module: `None` is no value of the sets
it completes, quantities are positive, bounds are numbers, processes are finitely
many where they are counted, builds and seeds are well formed, and the tables the
system starts with are those that earlier requests can have left
(`InitRowsAssumption`, `InitAccountsAssumption`).

*Cart.* The properties say nothing of the requests under way, so none is
inductive. `TypeInv` adds to the types that the arguments of a request fit where
it is (`ArgumentsOK`). `CheckoutInv` adds `SnapshotOK`: ids are below the counter
they are drawn from, the rows a checkout has read come from its cart, and those
still in the table are locked by it when it commits; a row that was updated
meanwhile still has its id, so it leaves the cart with the others. `OnceInv` is the
argument of `OrdersPerItem`: for every row there is a one-to-one function from the
orders that have it to the processes that made them, and none of these is about to
order it again, because a checkout that reads a row finds it in a cart, where
what was ordered is not. `MembersInv`
adds `MembersOK`: every share was granted, and a request past its access check had
a sufficient grant or owns the cart. `KeysInv` adds `ReservedOK`, `GrantsOK`,
`InsertedOK` and `LinesOK`: a key that an open addItem is going to insert is free and no
other open transaction inserts it, the list of a shareCart has a user once, a share that
it has inserted and not committed is the only one of its key but for a row that it has
deleted itself, and the rows read by a checkout hold no menu item twice.

*Locks.* `LockInv` adds to `TypeInv` where a request has locks at all (`LocksOK`).
`LockRanks` orders the statements that wait: those that delete or insert several shares
wait for one another only; so do, and nobody waits back, the mark of addItem and the
deletion of removeSharedUser; all statements on items wait for requests that delete several
items, or that have come to the shares. So a set of requests in which each waits for
another of them has a part that is of one of the two kinds, and in which each still waits
for another (`CircleInside`): if one of them writes shares, it waits for one that locks
several, and that one for another; if none does, all wait for those that delete several items. `GuardsAreLocks` says that `WaitsFor`
is what the guards of the actions ask.

*The refinement.* An edit is three to five statements, so what it has read may be old
when it writes. `AtomicInv` says in which sense it is still right (`UpToDate`): a
row keeps its cart and its menu item, a membership that was checked is still there,
a row that an open transaction has updated is still there, and an id was drawn from the
counter, so that a row found is that row or gone, never another one. What a
request that is alone with its cart has read, and what its deletions have found, is what
the tables hold (`ReadAlone`); a share, committed or not, has its id to itself
(`ShareIds`), so the shares deleted by id are those of the cart. Each is kept by the steps of every other request, because these
either belong to another cart or are edits. The theorem then goes action by action: a
read and a dropped record are stutters, and the last write of each operation is
the step of `AtomicCart` with the values the tables have at that moment.

*The pool.* `PoolInv` is `LockInv` with the connections of each request
(`ConnectionsOK`): a request has locks at five places only (`LockLabels`), and at each of
them the connection of its transaction or statement; at none of them it calls getOwnCart. So a lock is never
held by a request in the queue of the pool, and the waits for connections close no
circle with those for locks: who holds a lock has the connections it needs; if any request has them, one of
these waits for no lock, or some of these wait for one another in a circle of one of the
two kinds, which PostgreSQL ends; if none
has, either the pool has a free one to give, or all it had are held by shareCarts that
wait for a second. Every
step of `CartPool` is one of `Cart` or leaves its variables alone, a
time-out being a failure between two statements, and the end of a circle the same step, so with faults the safety theorems of
`Cart` hold behind the pool as well.

*Sessions.* `SessionsInv` adds to the properties that ids are below their
counters and token ids unique (`IdsOK`), that a login presents no token and a
request that has read a token knows the session of that token (`ReadOK`), that a
session which a request is about to give a token has no token and no other such
request (`BringersOK`), and that a token which was exchanged, or deleted by a
request under way, has no row and one spender only (`SpentOK`). The step that
matters is `DeleteToken`: of several requests with one token only one finds the
row. `LifeInv` is for the other two theorems: session ids are unique, a login touches
the account of its own session (`TouchOK`), and for each device there is a
one-to-one function from its sessions to the processes that made them
(`DeviceInv`), because a process that makes another session there has read,
and will remove, the one it made before. A count follows from such a function.

*Orders.* `OrdersInv` adds that numbers are unique and below the counter, and that
a request under way passed the guards. `WritesEditable` says that the order a
request is about to write is still editable, or gone, or the request was overtaken.

*Permissions.* One invariant bounds every set from both sides: what a lookup has
collected, what it holds to be stored, and every set in Redis that is not empty
lies between the grants that never went away and those there ever were
(`LookupOK`, `CacheOK`). The first only shrink, the second only grow, so a set
that is stored late is still within the bounds. `StartOK` says what the steps of a start
rely on.

*Catalog.* `BaseInv` adds to the types that rows have parents and that a request
works on a row that is there and checks its name against the siblings it will have
(`ReqOK`). `PicInv` says whose a picture is while a request carries it. `NamesInv` is
the argument of `NamesBounded`: for every name and parent there is a one-to-one
function from the live rows that bear it to processes, none of which is about to
write the name again, unless to its own row. A check that finds no row makes its
process free to write, and a process that writes becomes that row's own.
`ListInv` compares what one statement of a list has read with what the other would
read now: the two totals differ at most by the rows written since (`ListMoves`, from
the cardinality of the rows that a write changes), and so do the sizes of the page that
follow from them, because `PageSize` grows with the total by at most as much; rows that
were not written still have the country by which they were selected.

*Accounts.* `Inv` says that the roles a guard has read of the account it lets pass, the
one of the session found, are those of its row when the handler writes: roles never
change, and a row once deleted is never written. The only stale fact is whether that
account is deleted. The accounts that were deleted when the request came in (`before`)
are not let pass, one that is deleted later may still write, which is all that
`ChangesAuthorized` claims.

Every invariant and action property of the passing runs is proved. Only model-checked: the
liveness property `EveryRequestAnswered` (liveness under fairness is out of the prover's
reach; `SomeoneGoesOn` is its safety half: nobody is ever stuck), and the four
properties that the program violates.

## Not modelled

* Prices, quantities of orders, names, telephone numbers and pictures of accounts,
  passwords and the signatures of the JWTs, the order of the rows in a list: no property depends on them.
  The lists of accounts and orders only read.
* The pool as other components see it: their requests hold a connection for one
  statement and can only wait longer. The callback of a transaction that timed out
  in getOwnCart may still create its owner's cart; `CartPool` does not follow it.
* The response cache: its interceptors are used by no controller, and
  `get`, `set` and `deleteByPrefix` of CacheService have no other caller.
  `checkPermission` and `getAllPermissionsWithModules` have none either.
* S3, temporary files and the deletion of files: no handler of the catalog calls
  them, and nothing reads what they leave.
* RolesGuard lets every request through, because no route names roles.
* Date, string and DTO helpers, validation, configuration and API documentation.
