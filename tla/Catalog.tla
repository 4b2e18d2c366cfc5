------------------------------ MODULE Catalog ------------------------------
(***************************************************************************)
(* The catalog: RestaurantService, MenuCategoryService, MenuItemService,   *)
(* their validators, query builders and repositories, the upload of        *)
(* pictures, the scope of a caller's country, and the restaurants that the *)
(* seed makes when a server starts.                                        *)
(*                                                                         *)
(* No table has a unique constraint on names and nothing runs in a         *)
(* transaction: a handler finds, checks, uploads and writes in statements  *)
(* of their own, between which other requests go on.  Rows are never       *)
(* removed, a deletion marks them.                                         *)
(***************************************************************************)
EXTENDS Integers, Sequences, FiniteSets

CONSTANTS
  Name,        \* names of restaurants, categories and items
  Country,     \* countries of restaurants and callers
  SeedRows,    \* the restaurants of the seed, in order
  SeedMenu,    \* their menu: a row's parent is its place in the menu, or 0
  InitRows,    \* catalogs the system is started with
  Texts,       \* what lists are searched for
  Pages,       \* the pages that lists are asked for
  Proc,        \* requests that may be in progress at the same time
  MaxRequests, \* bound on the number of requests and starts of a server
  Faults,      \* whether requests die half-way
  None         \* a field that is left out

VARIABLES
  rows,        \* the rows of the three tables, a row's id is its place
  files,       \* number of file names that uploads have generated
  whole,       \* files that have been written to the end
  req,         \* the request each process is working on
  started,     \* how many requests have been started
  writes       \* history: number of rows written while a list was being read

vars == <<rows, files, whole, req, started, writes>>

Kind == {"restaurant", "category", "item"}

\* What a row of the kind belongs to.
ParentKind == [category |-> "restaurant", item |-> "category"]

(***************************************************************************)
(* A row.  The restaurant of a category and the category of an item are    *)
(* its parent, a restaurant has none (0); picture 0 is a link of the seed. *)
(* moved is a history variable: whether the row was given another parent.  *)
(***************************************************************************)
Row == [kind : Kind, name : Name, parent : Nat, country : Country \cup {None},
        image : Nat, deleted : BOOLEAN, moved : BOOLEAN]

\* The part of a list that is asked for.
Page == [skip : Nat, limit : Nat]

\* Countries of the seed's restaurants, names of the menu differ in one place.
ASSUME CatalogAssumption ==
  /\ None \notin Name \cup Country \cup Texts
  /\ SeedRows \in Seq([name : Name, country : Country])
  /\ SeedMenu \in Seq([kind : {"category", "item"}, name : Name, parent : Nat])
  /\ \A i, j \in DOMAIN SeedRows : SeedRows[i].name = SeedRows[j].name => i = j
  /\ \A i, j \in DOMAIN SeedMenu : SeedMenu[i] = SeedMenu[j] => i = j
  /\ \A i \in DOMAIN SeedMenu : SeedMenu[i].parent < i
  /\ Pages \subseteq Page
  /\ MaxRequests \in Nat
  /\ Faults \in BOOLEAN
  /\ IsFiniteSet(Proc)

\* Catalogs of earlier requests: rows of one name and parent are those of
\* requests that ran at the same time.  Pictures are links of a seed.
ASSUME InitRowsAssumption ==
  \A rs \in InitRows :
    /\ rs \in Seq(Row)
    /\ \A i \in DOMAIN rs :
         /\ rs[i].parent <= Len(rs)
         /\ rs[i].kind = "restaurant" => rs[i].parent = 0
         /\ rs[i].image = 0
    /\ \E f \in [DOMAIN rs -> Proc] : \A i, j \in DOMAIN rs :
         /\ f[i] = f[j] /\ ~rs[i].deleted /\ ~rs[j].deleted
         /\ <<rs[i].kind, rs[i].parent, rs[i].name>>
            = <<rs[j].kind, rs[j].parent, rs[j].name>>
         => i = j

PC == {"idle", "findRestaurant", "findCategory", "findRow", "checkName",
       "upload", "writeFile", "insert", "update", "delete", "list", "detail",
       "answer", "seedFind", "seedCreate"}

(***************************************************************************)
(* A request: the row it works on (0: a new one), what its body gives, the *)
(* parent whose rows the name is compared with, the picture it will write; *)
(* the filter of a list and its page, what its two statements returned;    *)
(* the restaurants that the seed looks for and has missed.                 *)
(***************************************************************************)
Request ==
  [pc : PC, kind : Kind, id : Nat, name : Name \cup {None},
   parent : Nat \cup {None}, country : Country \cup {None}, file : BOOLEAN,
   scope : Nat, image : Nat, search : Texts \cup {None}, page : Page,
   caller : Country \cup {None}, read : SUBSET {"data", "total"},
   data : SUBSET Nat, total : Nat, seen : Nat, place : Nat, missing : SUBSET Nat]

Idle ==
  [pc |-> "idle", kind |-> "restaurant", id |-> 0, name |-> None,
   parent |-> None, country |-> None, file |-> FALSE, scope |-> 0, image |-> 0,
   search |-> None, page |-> [skip |-> 0, limit |-> 1], caller |-> None, read |-> {}, data |-> {}, total |-> 0,
   seen |-> 0, place |-> 1, missing |-> {}]

Init ==
  /\ rows \in InitRows
  /\ files = 0
  /\ whole = {}
  /\ req = [p \in Proc |-> Idle]
  /\ started = 0
  /\ writes = 0

\* Rows of a kind, deleted ones included, and those that are not deleted.
Rows(k) == {i \in DOMAIN rows : rows[i].kind = k}
Live(k) == {i \in Rows(k) : ~rows[i].deleted}

Goto(p, label) == req' = [req EXCEPT ![p].pc = label]
Finish(p) == req' = [req EXCEPT ![p] = Idle]
Disk == <<files, whole>>

Wrote(n) ==
  writes' = IF \E q \in Proc : req[q].read # {} THEN writes + n ELSE writes

Begin(p, r) ==
  /\ req[p].pc = "idle"
  /\ started < MaxRequests
  /\ req' = [req EXCEPT ![p] = r]
  /\ started' = started + 1
  /\ UNCHANGED <<rows, Disk, writes>>

-----------------------------------------------------------------------------
(***************************************************************************)
(* Creations: the row it will belong to is found, the name is checked, the *)
(* picture is uploaded, the row is inserted.                               *)
(***************************************************************************)
CreateRestaurant(p) ==
  \E n \in Name, c \in Country :
    Begin(p, [Idle EXCEPT !.pc = "checkName", !.name = n, !.country = c])

CreateCategory(p) ==
  \E n \in Name, i \in Rows("restaurant") :
    Begin(p, [Idle EXCEPT !.pc = "findRestaurant", !.kind = "category",
                          !.name = n, !.parent = i, !.scope = i])

CreateItem(p) ==
  \E n \in Name, i \in Rows("category") :
    Begin(p, [Idle EXCEPT !.pc = "findCategory", !.kind = "item", !.name = n,
                          !.parent = i, !.scope = i, !.file = TRUE])

\* Updates: a restaurant is not read first.  The body gives what is to change.
UpdateRestaurant(p) ==
  \E i \in Rows("restaurant"), n \in Name \cup {None},
     c \in Country \cup {None} :
    Begin(p, [Idle EXCEPT !.pc = IF n = None THEN "update" ELSE "checkName",
                          !.id = i, !.name = n, !.country = c])

UpdateCategory(p) ==
  \E i \in Rows("category"), n \in Name \cup {None},
     j \in Rows("restaurant") \cup {None} :
    Begin(p, [Idle EXCEPT !.pc = "findRow", !.kind = "category", !.id = i,
                          !.name = n, !.parent = j])

UpdateItem(p) ==
  \E i \in Rows("item"), n \in Name \cup {None},
     j \in Rows("category") \cup {None}, f \in BOOLEAN :
    Begin(p, [Idle EXCEPT !.pc = "findRow", !.kind = "item", !.id = i,
                          !.name = n, !.parent = j, !.file = f])

\* Deletions: categories and items are looked up first, but never go away.
DeleteRestaurant(p) ==
  \E i \in Rows("restaurant") :
    Begin(p, [Idle EXCEPT !.pc = "delete", !.kind = "restaurant", !.id = i])

DeleteCategory(p) ==
  \E i \in Rows("category") :
    Begin(p, [Idle EXCEPT !.pc = "delete", !.kind = "category", !.id = i])

DeleteItem(p) ==
  \E i \in Rows("item") :
    Begin(p, [Idle EXCEPT !.pc = "delete", !.kind = "item", !.id = i])

\* What the row will belong to is there, deleted or not.
FindRestaurant(p) ==
  /\ req[p].pc = "findRestaurant"
  /\ req[p].parent \in Rows("restaurant")
  /\ Goto(p, "checkName")
  /\ UNCHANGED <<rows, Disk, started, writes>>

FindCategory(p) ==
  /\ req[p].pc = "findCategory"
  /\ req[p].parent \in Rows("category")
  /\ Goto(p, "checkName")
  /\ UNCHANGED <<rows, Disk, started, writes>>

\* After the lookups: the name is checked if the body gives one, a picture is
\* uploaded if the body has one, and the row is written.
AfterCheck(r) ==
  IF r.file THEN "upload" ELSE IF r.id = 0 THEN "insert" ELSE "update"

\* The row to update is read, deleted or not: its parent and its picture.
FindRow(p) ==
  LET r == req[p]
      row == rows[r.id] IN
  /\ r.pc = "findRow"
  /\ req' = [req EXCEPT
       ![p].scope = row.parent, ![p].image = row.image,
       ![p].pc = IF r.name # None THEN "checkName" ELSE AfterCheck(r)]
  /\ UNCHANGED <<rows, Disk, started, writes>>

\* Live rows that bear the name already, but for the row itself.
RestaurantNamed(n, id) == {i \in Live("restaurant") : rows[i].name = n /\ i # id}

\* Mutant: the condition on the id is not negated.
OnlyItself(n, restaurant, id) ==
  {i \in Live("category") :
     rows[i].name = n /\ rows[i].parent = restaurant /\ i = id}

CategoryNamed(n, restaurant, id) ==
  {i \in Live("category") :
     rows[i].name = n /\ rows[i].parent = restaurant /\ i # id}

ItemNamed(n, category, id) ==
  {i \in Live("item") :
     rows[i].name = n /\ rows[i].parent = category /\ i # id}

CheckName(p, k, named) ==
  /\ req[p].pc = "checkName"
  /\ req[p].kind = k
  /\ IF named = {} THEN Goto(p, AfterCheck(req[p])) ELSE Finish(p)
  /\ UNCHANGED <<rows, Disk, started, writes>>

CheckRestaurant(p) ==
  CheckName(p, "restaurant", RestaurantNamed(req[p].name, req[p].id))

CheckCategory(p) ==
  CheckName(p, "category",
            CategoryNamed(req[p].name, req[p].scope, req[p].id))

CheckItem(p) ==
  CheckName(p, "item", ItemNamed(req[p].name, req[p].scope, req[p].id))

-----------------------------------------------------------------------------
(***************************************************************************)
(* A picture is refused, or written under a new name in the directory.     *)
(***************************************************************************)
Refuse(p) ==
  /\ req[p].pc = "upload"
  /\ Finish(p)
  /\ UNCHANGED <<rows, Disk, started, writes>>

\* Mutant: the file is not awaited.
NotAwaited(p) ==
  /\ req[p].pc = "upload"
  /\ files' = files + 1
  /\ req' = [req EXCEPT ![p].image = files + 1, ![p].file = FALSE,
                        ![p].pc = IF req[p].id = 0 THEN "insert" ELSE "update"]
  /\ UNCHANGED <<rows, whole, started, writes>>

Upload(p) ==
  /\ req[p].pc = "upload"
  /\ files' = files + 1
  /\ req' = [req EXCEPT ![p].image = files + 1, ![p].pc = "writeFile"]
  /\ UNCHANGED <<rows, whole, started, writes>>

WriteFile(p) ==
  /\ req[p].pc = "writeFile"
  /\ whole' = whole \cup {req[p].image}
  /\ Goto(p, IF req[p].id = 0 THEN "insert" ELSE "update")
  /\ UNCHANGED <<rows, files, started, writes>>

-----------------------------------------------------------------------------
(***************************************************************************)
(* The statements that write.                                              *)
(***************************************************************************)
NewRow(k, n, parent, country, image) ==
  [kind |-> k, name |-> n, parent |-> parent, country |-> country,
   image |-> image, deleted |-> FALSE, moved |-> FALSE]

RestaurantRow(r) == NewRow("restaurant", r.name, 0, r.country, 0)
CategoryRow(r) == NewRow("category", r.name, r.parent, None, 0)
ItemRow(r) == NewRow("item", r.name, r.parent, None, r.image)

Insert(p, k, row) ==
  /\ req[p].pc = "insert"
  /\ req[p].kind = k
  /\ rows' = Append(rows, row)
  /\ Wrote(1)
  /\ Finish(p)
  /\ UNCHANGED <<Disk, started>>

InsertRestaurant(p) == Insert(p, "restaurant", RestaurantRow(req[p]))
InsertCategory(p) == Insert(p, "category", CategoryRow(req[p]))
InsertItem(p) == Insert(p, "item", ItemRow(req[p]))

\* Mutant: a field that is left out is written all the same.
LeftOut(field, old) == field

\* A field keeps its value when the body leaves it out.
Given(field, old) == IF field = None THEN old ELSE field

RestaurantChanged(row, r) ==
  [row EXCEPT !.name = Given(r.name, @), !.country = Given(r.country, @)]

CategoryChanged(row, r) ==
  [row EXCEPT !.name = Given(r.name, @), !.parent = Given(r.parent, @),
              !.moved = @ \/ Given(r.parent, row.parent) # row.parent]

\* The picture is always written: the new one, or the one read before.
ItemChanged(row, r) ==
  [CategoryChanged(row, r) EXCEPT !.image = r.image]

\* Mutant: rows that are deleted are updated all the same.
EvenDeleted(row) == TRUE

\* The statement finds no row, and fails, when the row has been deleted.
Updatable(row) == ~row.deleted

Update(p, k, row) ==
  LET id == req[p].id IN
  /\ req[p].pc = "update"
  /\ req[p].kind = k
  /\ \/ /\ Updatable(rows[id])
        /\ rows' = [rows EXCEPT ![id] = row]
        /\ Wrote(1)
     \/ ~Updatable(rows[id]) /\ UNCHANGED <<rows, writes>>
  /\ Finish(p)
  /\ UNCHANGED <<Disk, started>>

UpdateRestaurantRow(p) ==
  Update(p, "restaurant", RestaurantChanged(rows[req[p].id], req[p]))

UpdateCategoryRow(p) ==
  Update(p, "category", CategoryChanged(rows[req[p].id], req[p]))

UpdateItemRow(p) ==
  Update(p, "item", ItemChanged(rows[req[p].id], req[p]))

\* A row may be deleted again, which only changes the date.
MarkDeleted(p, k) ==
  /\ req[p].pc = "delete"
  /\ req[p].kind = k
  /\ rows' = [rows EXCEPT ![req[p].id].deleted = TRUE]
  /\ Wrote(1)
  /\ Finish(p)
  /\ UNCHANGED <<Disk, started>>

MarkRestaurant(p) == MarkDeleted(p, "restaurant")
MarkCategory(p) == MarkDeleted(p, "category")
MarkItem(p) == MarkDeleted(p, "item")

-----------------------------------------------------------------------------
(***************************************************************************)
(* Lists: a page of the rows and the total of all are read by two          *)
(* statements, in either order.  A caller who is no administrator sees the *)
(* restaurants of her country, and all of them when she has none.  The     *)
(* detail of a restaurant is its first row.                                *)
(***************************************************************************)
ScopeOf(administrator, home) == IF administrator THEN None ELSE home

\* Mutant: the country asked for comes first.
AskedFirst(scope, asked) == IF asked # None THEN asked ELSE scope

InScope(scope, asked) == IF scope # None THEN scope ELSE asked

ListRestaurants(p) ==
  \E admin \in BOOLEAN, home, asked \in Country \cup {None},
     text \in Texts \cup {None}, page \in Pages :
    LET scope == ScopeOf(admin, home) IN
    Begin(p, [Idle EXCEPT !.pc = "list", !.country = InScope(scope, asked),
                          !.caller = scope, !.search = text, !.page = page])

RestaurantDetail(p) ==
  \E i \in Rows("restaurant"), admin \in BOOLEAN, home \in Country \cup {None} :
    LET scope == ScopeOf(admin, home) IN
    Begin(p, [Idle EXCEPT !.pc = "detail", !.id = i, !.country = scope,
                          !.caller = scope])

ListCategories(p) ==
  \E i \in Rows("restaurant") \cup {None}, text \in Texts \cup {None},
     page \in Pages :
    Begin(p, [Idle EXCEPT !.pc = "list", !.kind = "category", !.parent = i,
                          !.search = text, !.page = page])

ListItems(p) ==
  \E i \in Rows("category") \cup {None}, text \in Texts \cup {None},
     page \in Pages :
    Begin(p, [Idle EXCEPT !.pc = "list", !.kind = "item", !.parent = i,
                          !.search = text, !.page = page])

\* A condition of a query, which holds of every value when it is left out.
Asked(wanted, values) == wanted = None \/ wanted \in values

RestaurantsListed(r) ==
  {i \in Live("restaurant") :
     Asked(r.country, {rows[i].country})
     /\ Asked(r.search, {rows[i].name, rows[i].country})}

CategoriesListed(r) ==
  {i \in Live("category") :
     Asked(r.parent, {rows[i].parent}) /\ Asked(r.search, {rows[i].name})}

ItemsListed(r) ==
  {i \in Live("item") :
     Asked(r.parent, {rows[i].parent}) /\ Asked(r.search, {rows[i].name})}

\* The rows that the condition of a list selects.
Listed(r) == CASE r.kind = "restaurant" -> RestaurantsListed(r)
               [] r.kind = "category" -> CategoriesListed(r)
               [] r.kind = "item" -> ItemsListed(r)

\* After the second of the two the list is answered.
HasRead(r, what) ==
  [r EXCEPT !.read = @ \cup {what},
            !.seen = IF r.read = {} THEN writes ELSE @,
            !.pc = IF r.read = {} THEN "list" ELSE "answer"]

\* How many of n rows are on the page that a list is asked for.
PageSize(n, page) ==
  LET rest == IF n < page.skip THEN 0 ELSE n - page.skip IN
  IF rest < page.limit THEN rest ELSE page.limit

\* Which rows come first is for the database, or for their names, to say.
PagesOf(r) ==
  {data \in SUBSET Listed(r) :
     Cardinality(data) = PageSize(Cardinality(Listed(r)), r.page)}

ReadData(p) ==
  /\ req[p].pc = "list" /\ "data" \notin req[p].read
  /\ \E data \in PagesOf(req[p]) :
       req' = [req EXCEPT ![p] = HasRead([req[p] EXCEPT !.data = data], "data")]
  /\ UNCHANGED <<rows, Disk, started, writes>>

\* Mutant: the total of the table.
CountsAll(r) == Cardinality(Rows(r.kind))

\* skip and limit are not given to the count.
Count(r) == Cardinality(Listed(r))

ReadTotal(p) ==
  LET r == [req[p] EXCEPT !.total = Count(req[p])] IN
  /\ req[p].pc = "list" /\ "total" \notin req[p].read
  /\ req' = [req EXCEPT ![p] = HasRead(r, "total")]
  /\ UNCHANGED <<rows, Disk, started, writes>>

\* The detail of a restaurant, deleted or not.
ReadDetail(p) ==
  LET found == {i \in Rows("restaurant") :
                  i = req[p].id /\ Asked(req[p].country, {rows[i].country})} IN
  /\ req[p].pc = "detail"
  /\ req' = [req EXCEPT ![p].data = found, ![p].total = Cardinality(found),
                        ![p].read = {"data", "total"}, ![p].seen = writes, ![p].pc = "answer"]
  /\ UNCHANGED <<rows, Disk, started, writes>>

Answer(p) ==
  /\ req[p].pc = "answer"
  /\ Finish(p)
  /\ UNCHANGED <<rows, Disk, started, writes>>

-----------------------------------------------------------------------------
(***************************************************************************)
(* The seed of a server that starts.  Starts do not overlap.               *)
(***************************************************************************)
Seeding(r) == r.pc \in {"seedFind", "seedCreate"}

StartServer(p) ==
  /\ \A q \in Proc : ~Seeding(req[q])
  /\ SeedRows # <<>>
  /\ Begin(p, [Idle EXCEPT !.pc = "seedFind"])

\* A restaurant of the name is looked for, deleted ones included.
SeedFind(p) ==
  LET i == req[p].place
      known == \E j \in Rows("restaurant") : rows[j].name = SeedRows[i].name IN
  /\ req[p].pc = "seedFind"
  /\ req' = [req EXCEPT ![p].missing = IF known THEN @ ELSE @ \cup {i},
                        ![p].place = i + 1,
                        ![p].pc = IF i = Len(SeedRows) THEN "seedCreate" ELSE "seedFind"]
  /\ UNCHANGED <<rows, Disk, started, writes>>

\* The restaurant and its menu are inserted together.
NestedRows(i) ==
  <<NewRow("restaurant", SeedRows[i].name, 0, SeedRows[i].country, 0)>>
  \o [j \in DOMAIN SeedMenu |->
        NewRow(SeedMenu[j].kind, SeedMenu[j].name,
               Len(rows) + 1 + SeedMenu[j].parent, None, 0)]

SeedCreate(p) ==
  /\ req[p].pc = "seedCreate"
  /\ \E i \in req[p].missing :
       /\ \A j \in req[p].missing : i <= j
       /\ rows' = rows \o NestedRows(i)
       /\ Wrote(1 + Len(SeedMenu))
       /\ req' = [req EXCEPT ![p].missing = @ \ {i}]
  /\ UNCHANGED <<Disk, started>>

SeedDone(p) ==
  /\ req[p].pc = "seedCreate"
  /\ req[p].missing = {}
  /\ Finish(p)
  /\ UNCHANGED <<rows, Disk, started, writes>>

-----------------------------------------------------------------------------
\* The process is stopped, or a statement or the disk fails.
Fail(p) ==
  /\ Faults
  /\ req[p].pc # "idle"
  /\ Finish(p)
  /\ UNCHANGED <<rows, Disk, started, writes>>

Start(p) ==
  \/ CreateRestaurant(p) \/ CreateCategory(p) \/ CreateItem(p)
  \/ UpdateRestaurant(p) \/ UpdateCategory(p) \/ UpdateItem(p)
  \/ DeleteRestaurant(p) \/ DeleteCategory(p) \/ DeleteItem(p)
  \/ ListRestaurants(p) \/ ListCategories(p) \/ ListItems(p)
  \/ RestaurantDetail(p)

Look(p) ==
  \/ FindRestaurant(p) \/ FindCategory(p) \/ FindRow(p)
  \/ CheckRestaurant(p) \/ CheckCategory(p) \/ CheckItem(p)

Save(p) == Refuse(p) \/ Upload(p) \/ WriteFile(p)

Write(p) ==
  \/ InsertRestaurant(p) \/ InsertCategory(p) \/ InsertItem(p)
  \/ UpdateRestaurantRow(p) \/ UpdateCategoryRow(p) \/ UpdateItemRow(p)
  \/ MarkRestaurant(p) \/ MarkCategory(p) \/ MarkItem(p)

Read(p) == ReadData(p) \/ ReadTotal(p) \/ ReadDetail(p) \/ Answer(p)

Seed(p) == StartServer(p) \/ SeedFind(p) \/ SeedCreate(p) \/ SeedDone(p)

Next ==
  \E p \in Proc :
    Start(p) \/ Look(p) \/ Save(p) \/ Write(p) \/ Read(p) \/ Seed(p) \/ Fail(p)

Spec == Init /\ [][Next]_vars
-----------------------------------------------------------------------------
\* Tables, files and requests hold values of their types.
TypeOK ==
  /\ rows \in Seq(Row)
  /\ files \in Nat
  /\ whole \subseteq Nat
  /\ req \in [Proc -> Request]
  /\ started \in Nat
  /\ writes \in Nat

\* The live rows of a name among those of one parent, but for rows that were
\* given another parent, whose names are not compared with their new siblings.
Bearing(k, parent, n) ==
  {i \in Live(k) : /\ rows[i].parent = parent /\ rows[i].name = n
                   /\ ~rows[i].moved}

\* However requests, servers that start and faults interleave, the check that
\* precedes the writing of a name lets no more rows bear it, among those of
\* one parent, than requests run at the same time: one, without concurrency.
NamesBounded ==
  \A i \in DOMAIN rows :
    Cardinality(Bearing(rows[i].kind, rows[i].parent, rows[i].name))
      <= Cardinality(Proc)

\* What has been deleted stays as it is, although updates read and check rows
\* without asking whether they are deleted and may be overtaken by a deletion.
DeletedFrozen ==
  [][\A i \in DOMAIN rows : rows[i].deleted => rows'[i] = rows[i]]_vars

\* An item has the picture of an upload for itself, and of one that was written
\* to the end: a request that dies leaves a file behind, never half a picture.
PicturesOwned ==
  \A i \in Rows("item") : rows[i].image # 0 =>
    /\ rows[i].image \in whole
    /\ \A j \in Rows("item") : rows[j].image = rows[i].image => j = i

Distance(a, b) == IF a < b THEN b - a ELSE a - b

\* The page has the rows that it should have by the total: the limit, or what is
\* left after those that were skipped; but for rows written between the two
\* statements.
TotalsAgree ==
  \A p \in Proc : LET r == req[p] IN
    r.pc = "answer" =>
      Distance(PageSize(r.total, r.page), Cardinality(r.data)) <= writes - r.seen

\* Whoever has a country, and is no administrator, is shown no restaurant of
\* another one, whatever country she asks for; unless rows were written since the
\* list was read, which may have moved the restaurant to another country.
CountryKept ==
  \A p \in Proc : LET r == req[p] IN
    r.pc = "answer" /\ r.caller # None =>
      \A i \in r.data : rows[i].country = r.caller \/ writes > r.seen
=============================================================================
