--------------------------- MODULE CatalogProofs ---------------------------
(***************************************************************************)
(* Theorems about Catalog, for every catalog to start with, every seed and *)
(* any number of requests: types, the bound on rows of one name, what has  *)
(* been deleted stays, pictures belong to one item, totals agree with the  *)
(* rows listed, and callers are kept to their country.                     *)
(***************************************************************************)
EXTENDS Catalog, FiniteSetTheorems, SequenceTheorems, TLAPS

RowsOf(k, rs) == {i \in DOMAIN rs : rs[i].kind = k}

\* Rows belong to rows, restaurants to none.
RowsOK(rs) ==
  \A i \in DOMAIN rs : /\ rs[i].parent <= Len(rs)
                       /\ rs[i].kind = "restaurant" => rs[i].parent = 0

\* Steps between the lookups and the writing of a row.
Named == {"checkName", "upload", "writeFile"}

\* The row a request works on is there; a new row has a name and a parent, which
\* are those that are checked; a row that was never moved is compared with the
\* rows of its own parent.
ReqOK(r, rs) ==
  /\ r.pc \in {"findRow", "update", "delete"} => r.id \in RowsOf(r.kind, rs)
  /\ r.pc \in Named => r.id = 0 \/ r.id \in RowsOf(r.kind, rs)
  /\ r.pc \in {"findRestaurant", "findCategory", "insert"} => r.id = 0
  /\ r.pc = "checkName" => r.name \in Name
  /\ (r.pc \in Named \cup {"findRestaurant", "findCategory", "insert"} /\ r.id = 0)
       => /\ r.name \in Name
          /\ r.kind = "restaurant" => r.scope = 0
          /\ r.kind # "restaurant" => r.parent \in DOMAIN rs /\ r.scope = r.parent
  /\ (r.pc \in Named \cup {"findRow", "update"} /\ r.id # 0) =>
       r.parent = None \/ r.parent \in DOMAIN rs
  /\ (r.pc \in Named \cup {"update"} /\ r.id # 0 /\ ~rs[r.id].moved) =>
       r.scope = rs[r.id].parent
  /\ r.pc = "seedFind" => r.place \in DOMAIN SeedRows
  /\ Seeding(r) => r.missing \subseteq DOMAIN SeedRows /\ r.id = 0

BaseInv ==
  /\ TypeOK
  /\ RowsOK(rows)
  /\ \A p \in Proc : ReqOK(req[p], rows)

\* What may change in the rows that are there.
Stable(old, new) ==
  /\ DOMAIN old \subseteq DOMAIN new
  /\ \A i \in DOMAIN old :
       /\ new[i].kind = old[i].kind
       /\ ~new[i].moved => ~old[i].moved /\ new[i].parent = old[i].parent

LEMMA Seqs ==
  \A S : \A s \in Seq(S) : /\ Len(s) \in Nat /\ DOMAIN s = 1..Len(s)
                           /\ \A i \in DOMAIN s : s[i] \in S /\ i \in Nat /\ i # 0
  OBVIOUS

LEMMA IdleOK == Idle \in Request /\ \A rs : ReqOK(Idle, rs)
<1>1. Idle \in Request
  BY DEF Idle, Request, Page, PC, Kind
<1>2. \A rs : ReqOK(Idle, rs)
  BY DEF Idle, ReqOK, Named, Seeding
<1> QED
  BY <1>1, <1>2

\* A request that is right stays so when rows change as they may.
LEMMA ReqStable ==
  ASSUME NEW r, NEW old, NEW new, Stable(old, new), ReqOK(r, old)
  PROVE  ReqOK(r, new)
<1>1. \A k : RowsOf(k, old) \subseteq RowsOf(k, new)
  BY DEF Stable, RowsOf
<1>2. (r.pc \in Named \cup {"update"} /\ r.id # 0) => r.id \in DOMAIN old
  BY DEF ReqOK, RowsOf, Named
<1> QED
  BY <1>1, <1>2 DEF ReqOK, Stable

\* A step gives one process a record that is right.
LEMMA BaseStep ==
  ASSUME BaseInv, NEW p \in Proc, NEW r \in Request,
         req' = [req EXCEPT ![p] = r], rows' \in Seq(Row), RowsOK(rows'),
         Stable(rows, rows'), ReqOK(r, rows'), files' \in Nat,
         whole' \subseteq Nat, started' \in Nat, writes' \in Nat
  PROVE  BaseInv'
<1>1. /\ req' \in [Proc -> Request]
      /\ \A q \in Proc : req'[q] = IF q = p THEN r ELSE req[q]
  BY DEF BaseInv, TypeOK
<1>2. \A q \in Proc : ReqOK(req'[q], rows')
  BY <1>1, ReqStable DEF BaseInv
<1> QED
  BY <1>1, <1>2 DEF BaseInv, TypeOK

LEMMA NoWrite ==
  ASSUME BaseInv, NEW p \in Proc, NEW r \in Request, ReqOK(r, rows),
         req' = [req EXCEPT ![p] = r], UNCHANGED <<rows, writes>>,
         files' \in Nat, whole' \subseteq Nat, started' \in Nat
  PROVE  BaseInv'
<1>1. Stable(rows, rows') /\ RowsOK(rows') /\ rows' \in Seq(Row) /\ writes' \in Nat
  BY DEF Stable, BaseInv, TypeOK
<1> QED
  BY <1>1, BaseStep

LEMMA BeginBase ==
  ASSUME BaseInv, NEW p \in Proc, NEW r \in Request, ReqOK(r, rows), Begin(p, r)
  PROVE  BaseInv'
  BY NoWrite DEF Begin, Disk, BaseInv, TypeOK

LEMMA FinishBase ==
  ASSUME BaseInv, NEW p \in Proc, Finish(p),
         UNCHANGED <<rows, Disk, started, writes>>
  PROVE  BaseInv'
  BY IdleOK, NoWrite DEF Finish, Disk, BaseInv, TypeOK

LEMMA GotoBase ==
  ASSUME BaseInv, NEW p \in Proc, NEW label \in PC, Goto(p, label),
         ReqOK([req[p] EXCEPT !.pc = label], rows),
         UNCHANGED <<rows, started, writes>>, files' \in Nat, whole' \subseteq Nat
  PROVE  BaseInv'
<1> DEFINE r == req[p]
<1>0. r \in Request
  BY DEF BaseInv, TypeOK
<1> HIDE DEF r
<1>1. [r EXCEPT !.pc = label] \in Request
  BY <1>0 DEF Request
<1> USE DEF r
<1> QED
  BY <1>1, NoWrite DEF Goto, BaseInv, TypeOK

\* Every request starts right.
LEMMA StartBase ==
  ASSUME BaseInv, NEW p \in Proc, Start(p)
  PROVE  BaseInv'
<1>0. /\ Idle.id = 0 /\ Idle.scope = 0 /\ Idle.kind = "restaurant"
      /\ Idle.name = None /\ Idle.parent = None /\ Idle.file = FALSE
  BY DEF Idle
<1>1. \A k : Rows(k) = RowsOf(k, rows) /\ Rows(k) \subseteq DOMAIN rows
             /\ Rows(k) \subseteq Nat /\ 0 \notin Rows(k)
  BY Seqs DEF Rows, RowsOf, BaseInv, TypeOK
<1>2. CASE CreateRestaurant(p)
  <2>1. PICK n \in Name, c \in Country :
          Begin(p, [Idle EXCEPT !.pc = "checkName", !.name = n, !.country = c])
    BY <1>2 DEF CreateRestaurant
  <2> DEFINE r == [Idle EXCEPT !.pc = "checkName", !.name = n, !.country = c]
  <2>2. r \in Request /\ ReqOK(r, rows)
    BY IdleOK DEF Idle, Request, PC, ReqOK, Named, Seeding
  <2> QED BY <2>1, <2>2, BeginBase
<1>3. CASE CreateCategory(p)
  <2>1. PICK n \in Name, i \in Rows("restaurant") :
          Begin(p, [Idle EXCEPT !.pc = "findRestaurant", !.kind = "category",
                                !.name = n, !.parent = i, !.scope = i])
    BY <1>3 DEF CreateCategory
  <2> DEFINE r == [Idle EXCEPT !.pc = "findRestaurant", !.kind = "category",
                               !.name = n, !.parent = i, !.scope = i]
  <2>2. r \in Request /\ ReqOK(r, rows)
    BY <1>1 DEF Idle, Request, Page, PC, Kind, ReqOK, Named, Seeding
  <2> QED BY <2>1, <2>2, BeginBase
<1>4. CASE CreateItem(p)
  <2>1. PICK n \in Name, i \in Rows("category") :
          Begin(p, [Idle EXCEPT !.pc = "findCategory", !.kind = "item", !.name = n,
                                !.parent = i, !.scope = i, !.file = TRUE])
    BY <1>4 DEF CreateItem
  <2> DEFINE r == [Idle EXCEPT !.pc = "findCategory", !.kind = "item", !.name = n,
                               !.parent = i, !.scope = i, !.file = TRUE]
  <2>2. r \in Request /\ ReqOK(r, rows)
    BY <1>1 DEF Idle, Request, Page, PC, Kind, ReqOK, Named, Seeding
  <2> QED BY <2>1, <2>2, BeginBase
<1>5. CASE UpdateRestaurant(p)
  <2>1. PICK i \in Rows("restaurant"), n \in Name \cup {None},
             c \in Country \cup {None} :
          Begin(p, [Idle EXCEPT !.pc = IF n = None THEN "update" ELSE "checkName",
                                !.id = i, !.name = n, !.country = c])
    BY <1>5 DEF UpdateRestaurant
  <2> DEFINE r == [Idle EXCEPT !.pc = IF n = None THEN "update" ELSE "checkName",
                               !.id = i, !.name = n, !.country = c]
  <2>2. rows[i].parent = 0
    BY DEF BaseInv, RowsOK, Rows
  <2>3. r \in Request
    BY <1>1 DEF Idle, Request, Page, PC, Kind
  <2>4. /\ r.pc = IF n = None THEN "update" ELSE "checkName"
        /\ r.id = i /\ r.name = n /\ r.kind = "restaurant" /\ r.scope = 0
        /\ r.parent = None
    BY DEF Idle
  <2> HIDE DEF r
  <2>5. ReqOK(r, rows)
    BY <1>1, <2>2, <2>4 DEF ReqOK, Named, Seeding
  <2> QED BY <2>1, <2>3, <2>5, BeginBase DEF r
<1>6. CASE UpdateCategory(p)
  <2>1. PICK i \in Rows("category"), n \in Name \cup {None},
             j \in Rows("restaurant") \cup {None} :
          Begin(p, [Idle EXCEPT !.pc = "findRow", !.kind = "category", !.id = i,
                                !.name = n, !.parent = j])
    BY <1>6 DEF UpdateCategory
  <2> DEFINE r == [Idle EXCEPT !.pc = "findRow", !.kind = "category", !.id = i,
                               !.name = n, !.parent = j]
  <2>2. r \in Request /\ ReqOK(r, rows)
    BY <1>1 DEF Idle, Request, Page, PC, Kind, ReqOK, Named, Seeding
  <2> QED BY <2>1, <2>2, BeginBase
<1>7. CASE UpdateItem(p)
  <2>1. PICK i \in Rows("item"), n \in Name \cup {None},
             j \in Rows("category") \cup {None}, f \in BOOLEAN :
          Begin(p, [Idle EXCEPT !.pc = "findRow", !.kind = "item", !.id = i,
                                !.name = n, !.parent = j, !.file = f])
    BY <1>7 DEF UpdateItem
  <2> DEFINE r == [Idle EXCEPT !.pc = "findRow", !.kind = "item", !.id = i,
                               !.name = n, !.parent = j, !.file = f]
  <2>2. r \in Request /\ ReqOK(r, rows)
    BY <1>1 DEF Idle, Request, Page, PC, Kind, ReqOK, Named, Seeding
  <2> QED BY <2>1, <2>2, BeginBase
<1>8. ASSUME NEW k \in Kind, NEW i \in Rows(k),
             Begin(p, [Idle EXCEPT !.pc = "delete", !.kind = k, !.id = i])
      PROVE  BaseInv'
  <2> DEFINE r == [Idle EXCEPT !.pc = "delete", !.kind = k, !.id = i]
  <2>1. r \in Request /\ ReqOK(r, rows)
    BY <1>1 DEF Idle, Request, Page, PC, Kind, ReqOK, Named, Seeding
  <2> QED BY <1>8, <2>1, BeginBase
<1>9. CASE DeleteRestaurant(p) \/ DeleteCategory(p) \/ DeleteItem(p)
  <2>1. CASE DeleteRestaurant(p)
    BY <1>8, <2>1 DEF DeleteRestaurant, Kind
  <2>2. CASE DeleteCategory(p)
    BY <1>8, <2>2 DEF DeleteCategory, Kind
  <2>3. CASE DeleteItem(p)
    BY <1>8, <2>3 DEF DeleteItem, Kind
  <2> QED BY <1>9, <2>1, <2>2, <2>3
<1>10. ASSUME NEW r \in Request, r.pc \in {"list", "detail"}, Begin(p, r)
       PROVE  BaseInv'
  <2>1. ReqOK(r, rows)
    BY <1>10 DEF ReqOK, Named, Seeding
  <2> QED BY <1>10, <2>1, BeginBase
<1>11. CASE ListRestaurants(p)
  <2>1. PICK admin \in BOOLEAN, home, asked \in Country \cup {None},
             text \in Texts \cup {None}, page \in Pages :
          LET scope == ScopeOf(admin, home) IN
          Begin(p, [Idle EXCEPT !.pc = "list", !.country = InScope(scope, asked),
                                !.caller = scope, !.search = text, !.page = page])
    BY <1>11 DEF ListRestaurants
  <2> DEFINE scope == ScopeOf(admin, home)
  <2>2. scope \in Country \cup {None} /\ InScope(scope, asked) \in Country \cup {None}
    BY DEF ScopeOf, InScope
  <2> HIDE DEF scope
  <2>3. [Idle EXCEPT !.pc = "list", !.country = InScope(scope, asked),
                     !.caller = scope, !.search = text, !.page = page] \in Request
    BY <2>2, IdleOK, CatalogAssumption DEF Idle, Request, PC, Kind
  <2> QED BY <1>10, <2>1, <2>3 DEF scope, Idle
<1>12. CASE ListCategories(p) \/ ListItems(p)
  <2>1. PICK k \in Kind, i \in Nat \cup {None}, text \in Texts \cup {None},
             page \in Pages :
          Begin(p, [Idle EXCEPT !.pc = "list", !.kind = k, !.parent = i,
                                !.search = text, !.page = page])
    BY <1>1, <1>12 DEF ListCategories, ListItems, Kind
  <2>2. [Idle EXCEPT !.pc = "list", !.kind = k, !.parent = i, !.search = text,
                     !.page = page] \in Request
    BY IdleOK, CatalogAssumption DEF Idle, Request, PC, Kind
  <2> QED BY <1>10, <2>1, <2>2 DEF Idle
<1>13. CASE RestaurantDetail(p)
  <2>1. PICK i \in Rows("restaurant"), admin \in BOOLEAN,
             home \in Country \cup {None} :
          LET scope == ScopeOf(admin, home) IN
          Begin(p, [Idle EXCEPT !.pc = "detail", !.id = i, !.country = scope,
                                !.caller = scope])
    BY <1>13 DEF RestaurantDetail
  <2> DEFINE scope == ScopeOf(admin, home)
  <2>2. scope \in Country \cup {None}
    BY DEF ScopeOf
  <2> HIDE DEF scope
  <2>3. [Idle EXCEPT !.pc = "detail", !.id = i, !.country = scope,
                     !.caller = scope] \in Request
    BY <1>1, <2>2 DEF Idle, Request, Page, PC, Kind
  <2> QED BY <1>10, <2>1, <2>3 DEF scope, Idle
<1> QED
  BY <1>2, <1>3, <1>4, <1>5, <1>6, <1>7, <1>9, <1>11, <1>12, <1>13 DEF Start
\* Lookups and checks lead a request on as it is, or end it.
LEMMA LookBase ==
  ASSUME BaseInv, NEW p \in Proc, Look(p)
  PROVE  BaseInv'
<1> DEFINE r == req[p]
<1>1. r \in Request /\ ReqOK(r, rows) /\ rows \in Seq(Row) /\ RowsOK(rows)
  BY DEF BaseInv, TypeOK
<1>2. \A k : Rows(k) = RowsOf(k, rows) /\ Rows(k) \subseteq DOMAIN rows
             /\ 0 \notin Rows(k)
  BY <1>1, Seqs DEF Rows, RowsOf
<1>3. CASE FindRestaurant(p) \/ FindCategory(p)
  <2>1. /\ r.pc \in {"findRestaurant", "findCategory"} /\ Goto(p, "checkName")
        /\ UNCHANGED <<rows, Disk, started, writes>>
    BY <1>3 DEF FindRestaurant, FindCategory
  <2> DEFINE s == [r EXCEPT !.pc = "checkName"]
  <2>2. /\ s.pc = "checkName" /\ s.id = 0 /\ s.name = r.name /\ s.kind = r.kind
        /\ s.scope = r.scope /\ s.parent = r.parent
    BY <1>1, <2>1 DEF Request, ReqOK
  <2> HIDE DEF s
  <2>3. ReqOK(s, rows)
    BY <1>1, <2>1, <2>2 DEF ReqOK, Named, Seeding
  <2> QED BY <2>1, <2>3, GotoBase DEF s, PC, Disk, BaseInv, TypeOK
<1>4. CASE FindRow(p)
  <2> DEFINE row == rows[r.id]
             s == [r EXCEPT !.scope = row.parent, !.image = row.image,
                            !.pc = IF r.name # None THEN "checkName" ELSE AfterCheck(r)]
  <2>1. /\ r.pc = "findRow" /\ req' = [req EXCEPT ![p] = s]
        /\ UNCHANGED <<rows, Disk, started, writes>>
    BY <1>4 DEF FindRow
  <2>2. r.id \in RowsOf(r.kind, rows) /\ r.id # 0 /\ row \in Row
    BY <1>1, <1>2, <2>1 DEF ReqOK, RowsOf
  <2>3. /\ s \in Request /\ s.scope = row.parent /\ s.id = r.id /\ s.kind = r.kind
        /\ s.name = r.name /\ s.parent = r.parent
        /\ s.pc = IF r.name # None THEN "checkName" ELSE AfterCheck(r)
    <3>1. row.parent \in Nat /\ row.image \in Nat
      BY <2>2 DEF Row
    <3> DEFINE label == IF r.name # None THEN "checkName" ELSE AfterCheck(r)
    <3>2. label \in PC
      BY DEF AfterCheck, PC
    <3> HIDE DEF row, label
    <3>3. LET t == [r EXCEPT !.scope = row.parent, !.image = row.image, !.pc = label]
          IN  /\ t \in Request /\ t.scope = row.parent /\ t.id = r.id
              /\ t.kind = r.kind /\ t.name = r.name /\ t.parent = r.parent
              /\ t.pc = label
      BY <1>1, <3>1, <3>2 DEF Request
    <3> QED BY <3>3 DEF label
  <2>4. s.pc \in {"checkName", "upload", "update"} /\ (s.pc = "checkName" => s.name \in Name)
    BY <1>1, <2>2, <2>3 DEF AfterCheck, Request
  <2> HIDE DEF s
  <2>5. ReqOK(s, rows)
    BY <1>1, <2>1, <2>2, <2>3, <2>4 DEF ReqOK, Named, Seeding
  <2> QED BY <1>1, <2>1, <2>3, <2>5, NoWrite DEF Disk, BaseInv, TypeOK
<1>5. ASSUME NEW k, NEW named, CheckName(p, k, named)
      PROVE  BaseInv'
  <2>1. r.pc = "checkName" /\ UNCHANGED <<rows, Disk, started, writes>>
    BY <1>5 DEF CheckName
  <2>2. CASE Finish(p)
    BY <2>1, <2>2, FinishBase
  <2>3. CASE Goto(p, AfterCheck(r))
    <3> DEFINE s == [r EXCEPT !.pc = AfterCheck(r)]
    <3>1. /\ s.pc = AfterCheck(r) /\ s.id = r.id /\ s.name = r.name /\ s.kind = r.kind
          /\ s.scope = r.scope /\ s.parent = r.parent
      BY <1>1 DEF Request
    <3> HIDE DEF s
    <3>2. AfterCheck(r) \in PC
      BY DEF AfterCheck, PC
    <3>3. ReqOK(s, rows)
      <4>1. /\ s.pc \in {"upload", "insert", "update"}
            /\ s.pc = "insert" => s.id = 0
            /\ s.pc = "update" => s.id # 0
        BY <3>1 DEF AfterCheck
      <4> QED BY <1>1, <2>1, <3>1, <4>1 DEF ReqOK, Named, Seeding
    <3> QED BY <2>1, <2>3, <3>2, <3>3, GotoBase DEF s, Disk, BaseInv, TypeOK
  <2> QED BY <1>5, <2>2, <2>3 DEF CheckName
<1> QED
  BY <1>3, <1>4, <1>5 DEF Look, CheckRestaurant, CheckCategory, CheckItem

LEMMA SaveBase ==
  ASSUME BaseInv, NEW p \in Proc, Save(p)
  PROVE  BaseInv'
<1> DEFINE r == req[p]
<1>1. r \in Request /\ ReqOK(r, rows)
  BY DEF BaseInv, TypeOK
<1>2. CASE Refuse(p)
  BY <1>2, FinishBase DEF Refuse
<1>3. CASE Upload(p)
  <2> DEFINE s == [r EXCEPT !.image = files + 1, !.pc = "writeFile"]
  <2>1. /\ r.pc = "upload" /\ req' = [req EXCEPT ![p] = s] /\ files' = files + 1
        /\ UNCHANGED <<rows, whole, started, writes>>
    BY <1>3 DEF Upload
  <2>2. files + 1 \in Nat
    BY DEF BaseInv, TypeOK
  <2>3. /\ s \in Request /\ s.pc = "writeFile" /\ s.id = r.id /\ s.name = r.name
        /\ s.kind = r.kind /\ s.scope = r.scope /\ s.parent = r.parent
    BY <1>1, <2>2 DEF Request, PC
  <2> HIDE DEF s
  <2>4. ReqOK(s, rows)
    BY <1>1, <2>1, <2>3 DEF ReqOK, Named, Seeding
  <2> QED BY <2>1, <2>2, <2>3, <2>4, NoWrite DEF BaseInv, TypeOK
<1>4. CASE WriteFile(p)
  <2> DEFINE label == IF r.id = 0 THEN "insert" ELSE "update"
             s == [r EXCEPT !.pc = label]
  <2>1. /\ r.pc = "writeFile" /\ Goto(p, label) /\ whole' = whole \cup {r.image}
        /\ UNCHANGED <<rows, files, started, writes>>
    BY <1>4 DEF WriteFile
  <2>2. /\ s.pc = label /\ s.id = r.id /\ s.name = r.name
        /\ s.kind = r.kind /\ s.scope = r.scope /\ s.parent = r.parent
        /\ r.image \in Nat
    BY <1>1 DEF Request
  <2> HIDE DEF s
  <2>3. ReqOK(s, rows)
    BY <1>1, <2>1, <2>2 DEF ReqOK, Named, Seeding
  <2>4. label \in PC
    BY DEF PC
  <2> HIDE DEF label
  <2> QED BY <2>1, <2>2, <2>3, <2>4, GotoBase DEF s, BaseInv, TypeOK
<1> QED
  BY <1>2, <1>3, <1>4 DEF Save

LEMMA ReadBase ==
  ASSUME BaseInv, NEW p \in Proc, Read(p)
  PROVE  BaseInv'
<1> DEFINE r == req[p]
<1>1. r \in Request /\ ReqOK(r, rows) /\ rows \in Seq(Row) /\ writes \in Nat
  BY DEF BaseInv, TypeOK
<1>2. ASSUME NEW s \in Request, s.pc \in {"list", "answer"},
             req' = [req EXCEPT ![p] = s],
             UNCHANGED <<rows, Disk, started, writes>>
      PROVE  BaseInv'
  <2>1. ReqOK(s, rows)
    BY <1>2 DEF ReqOK, Named, Seeding
  <2> QED BY <1>2, <2>1, NoWrite DEF Disk, BaseInv, TypeOK
<1>3. \A k : Rows(k) \in SUBSET Nat /\ IsFiniteSet(Rows(k))
  <2>1. Len(rows) \in Nat /\ DOMAIN rows = 1..Len(rows)
    BY <1>1, Seqs
  <2>2. IsFiniteSet(1..Len(rows))
    BY <2>1, FS_Interval
  <2> QED BY <2>1, <2>2, FS_Subset DEF Rows
<1>4. ASSUME NEW s \in Request, NEW what \in {"data", "total"}
      PROVE  HasRead(s, what) \in Request /\ HasRead(s, what).pc \in {"list", "answer"}
  <2> DEFINE label == IF s.read = {} THEN "list" ELSE "answer"
             first == IF s.read = {} THEN writes ELSE s.seen
             both == s.read \cup {what}
  <2>1. label \in PC /\ first \in Nat /\ both \in SUBSET {"data", "total"}
    BY <1>1, <1>4 DEF PC, Request
  <2>2. HasRead(s, what) = [s EXCEPT !.read = both, !.seen = first, !.pc = label]
    BY DEF HasRead
  <2>3. label \in {"list", "answer"}
    OBVIOUS
  <2> HIDE DEF label, first, both
  <2> QED BY <2>1, <2>2, <2>3 DEF Request
<1>5. CASE ReadData(p)
  <2>1. PICK page \in PagesOf(r) :
          req' = [req EXCEPT ![p] = HasRead([r EXCEPT !.data = page], "data")]
    BY <1>5 DEF ReadData
  <2>4. UNCHANGED <<rows, Disk, started, writes>>
    BY <1>5 DEF ReadData
  <2> DEFINE s == [r EXCEPT !.data = page]
  <2>2. page \in SUBSET Nat
    <3>1. r.kind \in {"restaurant", "category", "item"}
      BY <1>1 DEF Request, Kind
    <3>2. page \in SUBSET Listed(r)
      BY DEF PagesOf
    <3> QED BY <1>3, <3>1, <3>2 DEF Listed, RestaurantsListed, CategoriesListed, ItemsListed, Live
  <2>3. s \in Request
    BY <1>1, <2>2 DEF Request
  <2> QED BY <1>2, <1>4, <2>1, <2>3, <2>4
<1>6. CASE ReadTotal(p)
  <2> DEFINE s == [r EXCEPT !.total = Count(r)]
  <2>1. req' = [req EXCEPT ![p] = HasRead(s, "total")]
        /\ UNCHANGED <<rows, Disk, started, writes>>
    BY <1>6 DEF ReadTotal
  <2>2. Count(r) \in Nat
    <3>1. r.kind \in {"restaurant", "category", "item"}
      BY <1>1 DEF Request, Kind
    <3>2. Listed(r) \in SUBSET Rows(r.kind)
      BY <3>1 DEF Listed, RestaurantsListed, CategoriesListed, ItemsListed, Live
    <3>3. IsFiniteSet(Listed(r))
      BY <1>3, <3>2, FS_Subset
    <3> QED BY <3>3, FS_CardinalityType DEF Count
  <2>3. s \in Request
    BY <1>1, <2>2 DEF Request
  <2> QED BY <1>2, <1>4, <2>1, <2>3
<1>7. CASE ReadDetail(p)
  <2> DEFINE found == {i \in Rows("restaurant") :
                         i = r.id /\ Asked(r.country, {rows[i].country})}
             s == [r EXCEPT !.data = found, !.total = Cardinality(found),
                            !.read = {"data", "total"}, !.seen = writes,
                            !.pc = "answer"]
  <2>1. req' = [req EXCEPT ![p] = s] /\ UNCHANGED <<rows, Disk, started, writes>>
    BY <1>7 DEF ReadDetail
  <2>2. found \in SUBSET Rows("restaurant")
    OBVIOUS
  <2>3. found \in SUBSET Nat /\ Cardinality(found) \in Nat
    <3>1. IsFiniteSet(found)
      BY <1>3, <2>2, FS_Subset
    <3> HIDE DEF found
    <3> QED BY <1>3, <2>2, <3>1, FS_CardinalityType
  <2> HIDE DEF found
  <2>4. s \in Request /\ s.pc = "answer"
    BY <1>1, <2>3 DEF Request, PC
  <2> HIDE DEF s
  <2> QED BY <1>2, <2>1, <2>4
<1>8. CASE Answer(p)
  BY <1>8, FinishBase DEF Answer
<1> QED
  BY <1>5, <1>6, <1>7, <1>8 DEF Read
\* A row that is added is one of a parent that is there.
LEMMA AddRows ==
  ASSUME BaseInv, NEW new \in Seq(Row),
         \A j \in DOMAIN new : /\ new[j].parent <= Len(rows) + Len(new)
                               /\ new[j].kind = "restaurant" => new[j].parent = 0
  PROVE  LET after == rows \o new IN
         /\ after \in Seq(Row) /\ RowsOK(after) /\ Stable(rows, after)
         /\ Len(after) = Len(rows) + Len(new)
         /\ \A i \in DOMAIN after :
              IF i <= Len(rows) THEN i \in DOMAIN rows /\ after[i] = rows[i]
              ELSE i - Len(rows) \in DOMAIN new /\ after[i] = new[i - Len(rows)]
<1> DEFINE after == rows \o new
<1>1. rows \in Seq(Row) /\ RowsOK(rows)
  BY DEF BaseInv, TypeOK
<1>2. /\ Len(rows) \in Nat /\ DOMAIN rows = 1..Len(rows)
      /\ Len(new) \in Nat /\ DOMAIN new = 1..Len(new)
      /\ \A i \in DOMAIN rows : rows[i] \in Row
  BY <1>1, Seqs
<1>3. /\ after \in Seq(Row) /\ Len(after) = Len(rows) + Len(new)
      /\ DOMAIN after = 1..(Len(rows) + Len(new))
      /\ \A i \in 1..(Len(rows) + Len(new)) :
           after[i] = IF i <= Len(rows) THEN rows[i] ELSE new[i - Len(rows)]
  BY <1>1, <1>2, ConcatProperties, Seqs
<1> HIDE DEF after
<1>4. \A i \in DOMAIN after :
        IF i <= Len(rows) THEN i \in DOMAIN rows /\ after[i] = rows[i]
        ELSE i - Len(rows) \in DOMAIN new /\ after[i] = new[i - Len(rows)]
  BY <1>2, <1>3
<1>5. \A i \in DOMAIN rows : i \in DOMAIN after /\ after[i] = rows[i]
  BY <1>2, <1>3
<1>6. RowsOK(after)
  <2> SUFFICES ASSUME NEW i \in DOMAIN after
               PROVE  /\ after[i].parent <= Len(after)
                      /\ after[i].kind = "restaurant" => after[i].parent = 0
    BY DEF RowsOK
  <2>1. CASE i <= Len(rows)
    <3>1. i \in DOMAIN rows /\ after[i] = rows[i] /\ rows[i].parent \in Nat
      BY <1>2, <1>4, <2>1 DEF Row
    <3>2. /\ rows[i].parent <= Len(rows)
          /\ rows[i].kind = "restaurant" => rows[i].parent = 0
      BY <1>1, <3>1 DEF RowsOK
    <3> QED BY <1>2, <1>3, <3>1, <3>2
  <2>2. CASE ~(i <= Len(rows))
    BY <1>2, <1>3, <1>4, <2>2
  <2> QED BY <2>1, <2>2
<1>7. Stable(rows, after)
  BY <1>5 DEF Stable
<1> QED
  BY <1>3, <1>4, <1>6, <1>7 DEF after

\* An insertion, as such an addition.
LEMMA InsertRows ==
  ASSUME BaseInv, NEW p \in Proc, NEW k, NEW row, Insert(p, k, row),
         row \in {RestaurantRow(req[p]), CategoryRow(req[p]), ItemRow(req[p])},
         k = row.kind
  PROVE  /\ req[p].pc = "insert" /\ req[p].kind = k /\ req[p].id = 0
         /\ row \in Row /\ row.parent = req[p].scope /\ row.name = req[p].name
         /\ row.image \in {0, req[p].image} /\ ~row.deleted
         /\ req' = [req EXCEPT ![p] = Idle] /\ rows' = rows \o <<row>>
         /\ <<row>> \in Seq(Row) /\ Len(<<row>>) = 1 /\ DOMAIN <<row>> = {1}
         /\ <<row>>[1] = row /\ row.parent <= Len(rows)
         /\ row.kind = "restaurant" => row.parent = 0
         /\ UNCHANGED <<Disk, started>> /\ writes' \in Nat
<1> DEFINE r == req[p]
<1>1. r \in Request /\ ReqOK(r, rows) /\ rows \in Seq(Row) /\ writes \in Nat
  BY DEF BaseInv, TypeOK
<1>2. /\ r.pc = "insert" /\ r.kind = k /\ rows' = Append(rows, row) /\ Wrote(1)
      /\ req' = [req EXCEPT ![p] = Idle] /\ UNCHANGED <<Disk, started>>
  BY DEF Insert, Finish
<1>3. r.id = 0 /\ r.name \in Name
      /\ (r.kind = "restaurant" => r.scope = 0)
      /\ (r.kind # "restaurant" => r.parent \in DOMAIN rows /\ r.scope = r.parent)
  BY <1>1, <1>2 DEF ReqOK
<1>4. r.image \in Nat /\ r.country \in Country \cup {None}
  BY <1>1 DEF Request
<1>5. Len(rows) \in Nat /\ DOMAIN rows = 1..Len(rows)
  BY <1>1, Seqs
<1>6. /\ row \in Row /\ row.parent = r.scope /\ row.name = r.name
      /\ row.image \in {0, r.image} /\ ~row.deleted
  <2>1. CASE row = RestaurantRow(r)
    BY <1>2, <1>3, <1>4, <2>1 DEF RestaurantRow, NewRow, Row, Kind
  <2>2. CASE row = CategoryRow(r)
    BY <1>2, <1>3, <1>4, <1>5, <2>2 DEF CategoryRow, NewRow, Row, Kind
  <2>3. CASE row = ItemRow(r)
    BY <1>2, <1>3, <1>4, <1>5, <2>3 DEF ItemRow, NewRow, Row, Kind
  <2> QED BY <2>1, <2>2, <2>3
<1>7. rows' = rows \o <<row>>
  BY <1>1, <1>2, <1>6, AppendIsConcat
<1>8. /\ <<row>> \in Seq(Row) /\ Len(<<row>>) = 1 /\ DOMAIN <<row>> = {1}
      /\ <<row>>[1] = row
  BY <1>6
<1>9. row.parent <= Len(rows) /\ (row.kind = "restaurant" => row.parent = 0)
  BY <1>2, <1>3, <1>5, <1>6
<1>10. writes' \in Nat
  BY <1>1, <1>2 DEF Wrote
<1> QED
  BY <1>2, <1>3, <1>6, <1>7, <1>8, <1>9, <1>10

\* An update gives a row that is not deleted what the body says.
LEMMA UpdateRows ==
  ASSUME BaseInv, NEW p \in Proc, NEW k, NEW row, Update(p, k, row),
         \/ k = "restaurant" /\ row = RestaurantChanged(rows[req[p].id], req[p])
         \/ k = "category" /\ row = CategoryChanged(rows[req[p].id], req[p])
         \/ k = "item" /\ row = ItemChanged(rows[req[p].id], req[p])
  PROVE  LET r == req[p]
             old == rows[r.id] IN
         /\ r.pc = "update" /\ r.id \in DOMAIN rows /\ r.id # 0
         /\ req' = [req EXCEPT ![p] = Idle] /\ UNCHANGED <<Disk, started>>
         /\ writes' \in Nat
         /\ \/ UNCHANGED rows
            \/ ~old.deleted /\ rows' = [rows EXCEPT ![r.id] = row]
         /\ row \in Row /\ row.kind = old.kind /\ row.deleted = old.deleted
         /\ row.name = old.name \/ row.name = r.name
         /\ row.image \in {old.image, r.image} /\ row.parent <= Len(rows)
         /\ row.kind = "restaurant" => row.parent = 0
         /\ ~row.moved => /\ ~old.moved /\ row.parent = old.parent
                          /\ row.parent = r.scope /\ r.kind = row.kind
<1> DEFINE r == req[p]
           old == rows[r.id]
<1>1. r \in Request /\ ReqOK(r, rows) /\ rows \in Seq(Row) /\ writes \in Nat
      /\ RowsOK(rows)
  BY DEF BaseInv, TypeOK
<1>2. /\ r.pc = "update" /\ r.kind = k /\ (Wrote(1) \/ writes' = writes)
      /\ req' = [req EXCEPT ![p] = Idle] /\ UNCHANGED <<Disk, started>>
      /\ \/ UNCHANGED rows
         \/ ~old.deleted /\ rows' = [rows EXCEPT ![r.id] = row]
  BY DEF Update, Finish, Updatable
<1>3. /\ r.id \in DOMAIN rows /\ r.id # 0 /\ old \in Row /\ old.kind = k
      /\ Len(rows) \in Nat /\ DOMAIN rows = 1..Len(rows)
  BY <1>1, <1>2, Seqs DEF ReqOK, RowsOf
<1>4. /\ r.parent = None \/ r.parent \in DOMAIN rows
      /\ ~old.moved => r.scope = old.parent
      /\ old.parent <= Len(rows) /\ (k = "restaurant" => old.parent = 0)
  BY <1>1, <1>2, <1>3 DEF ReqOK, RowsOK
<1>5. r.name \in Name \cup {None} /\ r.country \in Country \cup {None} /\ r.image \in Nat
  BY <1>1 DEF Request
<1>6. Given(r.name, old.name) \in Name /\ Given(r.country, old.country) \in Country \cup {None}
      /\ Given(r.parent, old.parent) \in Nat /\ Given(r.parent, old.parent) <= Len(rows)
      /\ (Given(r.name, old.name) = old.name \/ Given(r.name, old.name) = r.name)
  BY <1>3, <1>4, <1>5 DEF Given, Row
<1>7. writes' \in Nat
  BY <1>1, <1>2 DEF Wrote
<1> HIDE DEF r, old
<1> DEFINE name == Given(r.name, old.name)
           country == Given(r.country, old.country)
           parent == Given(r.parent, old.parent)
           moved == old.moved \/ parent # old.parent
<1>8. moved \in BOOLEAN /\ (~moved => ~old.moved /\ parent = old.parent)
  BY <1>3 DEF Row
<1>9. /\ row \in Row /\ row.kind = old.kind /\ row.deleted = old.deleted
      /\ row.name = old.name \/ row.name = r.name
      /\ row.image \in {old.image, r.image} /\ row.parent <= Len(rows)
      /\ row.kind = "restaurant" => row.parent = 0
      /\ ~row.moved => ~old.moved /\ row.parent = old.parent
  <2>1. CASE k = "restaurant" /\ row = RestaurantChanged(old, r)
    <3>1. row = [old EXCEPT !.name = name, !.country = country]
      BY <2>1 DEF RestaurantChanged
    <3> HIDE DEF name, country
    <3> QED BY <1>3, <1>4, <1>6, <2>1, <3>1 DEF Row, name, country
  <2>2. CASE k = "category" /\ row = CategoryChanged(old, r)
    <3>1. row = [old EXCEPT !.name = name, !.parent = parent, !.moved = moved]
      BY <2>2 DEF CategoryChanged
    <3>2. name \in Name /\ parent \in Nat /\ parent <= Len(rows)
          /\ (name = old.name \/ name = r.name)
      BY <1>6
    <3> HIDE DEF name, parent, moved
    <3> QED BY <1>3, <1>8, <2>2, <3>1, <3>2 DEF Row
  <2>3. CASE k = "item" /\ row = ItemChanged(old, r)
    <3>1. row = [old EXCEPT !.name = name, !.parent = parent, !.moved = moved,
                            !.image = r.image]
      BY <2>3 DEF ItemChanged, CategoryChanged
    <3>2. name \in Name /\ parent \in Nat /\ parent <= Len(rows)
          /\ (name = old.name \/ name = r.name)
      BY <1>6
    <3> HIDE DEF name, parent, moved
    <3> QED BY <1>3, <1>5, <1>8, <2>3, <3>1, <3>2 DEF Row
  <2> QED BY <2>1, <2>2, <2>3 DEF r, old
<1> QED
  BY <1>2, <1>3, <1>4, <1>7, <1>9 DEF r, old

LEMMA MarkRows ==
  ASSUME BaseInv, NEW p \in Proc, NEW k, MarkDeleted(p, k)
  PROVE  LET id == req[p].id IN
         /\ id \in DOMAIN rows /\ req' = [req EXCEPT ![p] = Idle]
         /\ UNCHANGED <<Disk, started>> /\ writes' \in Nat
         /\ rows' = [rows EXCEPT ![id] = [rows[id] EXCEPT !.deleted = TRUE]]
<1>1. req[p].pc = "delete" /\ ReqOK(req[p], rows) /\ writes \in Nat
  BY DEF BaseInv, TypeOK, MarkDeleted
<1> QED
  BY <1>1 DEF MarkDeleted, Finish, ReqOK, RowsOf, Wrote

\* To change one row leaves the others, and requests, right.
LEMMA OneRowChanged ==
  ASSUME BaseInv, NEW p \in Proc, NEW id \in DOMAIN rows, NEW row \in Row,
         req' = [req EXCEPT ![p] = Idle], rows' = [rows EXCEPT ![id] = row],
         row.kind = rows[id].kind, row.parent <= Len(rows),
         row.kind = "restaurant" => row.parent = 0,
         ~row.moved => ~rows[id].moved /\ row.parent = rows[id].parent,
         UNCHANGED <<Disk, started>>, writes' \in Nat
  PROVE  BaseInv'
<1>1. rows \in Seq(Row) /\ RowsOK(rows)
  BY DEF BaseInv, TypeOK
<1>2. /\ rows' \in Seq(Row) /\ Len(rows') = Len(rows) /\ DOMAIN rows' = DOMAIN rows
      /\ \A i \in DOMAIN rows : rows'[i] = IF i = id THEN row ELSE rows[i]
  BY <1>1, ExceptSeq
<1>3. RowsOK(rows') /\ Stable(rows, rows')
  BY <1>1, <1>2 DEF RowsOK, Stable
<1> QED
  BY <1>2, <1>3, IdleOK, BaseStep DEF Disk, BaseInv, TypeOK

LEMMA WriteBase ==
  ASSUME BaseInv, NEW p \in Proc, Write(p)
  PROVE  BaseInv'
<1>1. ASSUME NEW k, NEW row, Insert(p, k, row), k = row.kind,
             row \in {RestaurantRow(req[p]), CategoryRow(req[p]), ItemRow(req[p])}
      PROVE  BaseInv'
  <2>1. /\ req' = [req EXCEPT ![p] = Idle] /\ rows' = rows \o <<row>>
        /\ <<row>> \in Seq(Row) /\ Len(<<row>>) = 1 /\ DOMAIN <<row>> = {1}
        /\ <<row>>[1] = row /\ row.parent <= Len(rows) /\ row \in Row
        /\ row.kind = "restaurant" => row.parent = 0
        /\ UNCHANGED <<Disk, started>> /\ writes' \in Nat
    BY <1>1, InsertRows
  <2>2. Len(rows) \in Nat /\ row.parent \in Nat
    BY <2>1, Seqs DEF BaseInv, TypeOK, Row
  <2>3. rows' \in Seq(Row) /\ RowsOK(rows') /\ Stable(rows, rows')
    <3>1. row.parent <= Len(rows) + 1
      BY <2>1, <2>2
    <3> DEFINE new == <<row>>
    <3>2. \A j \in DOMAIN new : /\ new[j].parent <= Len(rows) + Len(new)
                                /\ new[j].kind = "restaurant" => new[j].parent = 0
      BY <2>1, <3>1
    <3> HIDE DEF new
    <3> QED BY <2>1, <3>2, AddRows DEF new
  <2> QED BY <2>1, <2>3, IdleOK, BaseStep DEF Disk, BaseInv, TypeOK
<1>2. ASSUME NEW k, NEW row, Update(p, k, row),
             \/ k = "restaurant" /\ row = RestaurantChanged(rows[req[p].id], req[p])
             \/ k = "category" /\ row = CategoryChanged(rows[req[p].id], req[p])
             \/ k = "item" /\ row = ItemChanged(rows[req[p].id], req[p])
      PROVE  BaseInv'
  <2> DEFINE r == req[p]
             old == rows[r.id]
  <2>1. /\ r.id \in DOMAIN rows
        /\ req' = [req EXCEPT ![p] = Idle] /\ UNCHANGED <<Disk, started>>
        /\ writes' \in Nat
        /\ UNCHANGED rows \/ rows' = [rows EXCEPT ![r.id] = row]
        /\ row \in Row /\ row.kind = old.kind
        /\ row.parent <= Len(rows)
        /\ row.kind = "restaurant" => row.parent = 0
        /\ ~row.moved => ~old.moved /\ row.parent = old.parent
    BY <1>2, UpdateRows
  <2>2. CASE UNCHANGED rows
    <3>1. Stable(rows, rows') /\ RowsOK(rows') /\ rows' \in Seq(Row)
      BY <2>2 DEF Stable, BaseInv, TypeOK
    <3> QED BY <2>1, <3>1, IdleOK, BaseStep DEF Disk, BaseInv, TypeOK
  <2>3. CASE rows' = [rows EXCEPT ![r.id] = row]
    BY <2>1, <2>3, OneRowChanged
  <2> QED BY <2>1, <2>2, <2>3
<1>3. ASSUME NEW k, MarkDeleted(p, k)
      PROVE  BaseInv'
  <2> DEFINE id == req[p].id
             row == [rows[id] EXCEPT !.deleted = TRUE]
  <2>1. /\ id \in DOMAIN rows /\ req' = [req EXCEPT ![p] = Idle]
        /\ UNCHANGED <<Disk, started>> /\ writes' \in Nat
        /\ rows' = [rows EXCEPT ![id] = row]
    BY <1>3, MarkRows
  <2>2. rows[id] \in Row /\ RowsOK(rows)
    BY <2>1, Seqs DEF BaseInv, TypeOK
  <2>3. /\ row \in Row /\ row.kind = rows[id].kind /\ row.parent = rows[id].parent
        /\ row.moved = rows[id].moved
    BY <2>2 DEF Row
  <2>4. row.parent <= Len(rows) /\ (row.kind = "restaurant" => row.parent = 0)
    BY <2>1, <2>2, <2>3 DEF RowsOK
  <2> HIDE DEF row
  <2> QED BY <2>1, <2>3, <2>4, OneRowChanged
<1> QED
  BY <1>1, <1>2, <1>3
  DEF Write, InsertRestaurant, InsertCategory, InsertItem, RestaurantRow,
      CategoryRow, ItemRow, NewRow, UpdateRestaurantRow, UpdateCategoryRow,
      UpdateItemRow, MarkRestaurant, MarkCategory, MarkItem

\* A row put before others.
LEMMA Prepended ==
  ASSUME NEW one \in Seq(Row), NEW menu \in Seq(Row), Len(one) = 1
  PROVE  LET new == one \o menu IN
         /\ new \in Seq(Row) /\ Len(new) = 1 + Len(menu)
         /\ \A j \in 1..(1 + Len(menu)) :
              new[j] = IF j <= 1 THEN one[j] ELSE menu[j - 1]
<1>1. /\ one \o menu \in Seq(Row) /\ Len(one \o menu) = Len(one) + Len(menu)
      /\ \A j \in 1..(Len(one) + Len(menu)) :
           (one \o menu)[j] = IF j <= Len(one) THEN one[j] ELSE menu[j - Len(one)]
  BY ConcatProperties
<1> QED
  BY <1>1

\* What the seed inserts: a restaurant, and rows below it.
LEMMA Nested ==
  ASSUME BaseInv, NEW i \in DOMAIN SeedRows
  PROVE  LET new == NestedRows(i) IN
         /\ new \in Seq(Row) /\ Len(new) = 1 + Len(SeedMenu)
         /\ DOMAIN new = 1..(1 + Len(SeedMenu))
         /\ new[1] = NewRow("restaurant", SeedRows[i].name, 0, SeedRows[i].country, 0)
         /\ \A j \in DOMAIN new \ {1} :
              /\ j - 1 \in DOMAIN SeedMenu /\ new[j].kind = SeedMenu[j - 1].kind
              /\ new[j].name = SeedMenu[j - 1].name /\ new[j].kind # "restaurant"
              /\ new[j].parent = Len(rows) + 1 + SeedMenu[j - 1].parent
              /\ new[j].parent <= Len(rows) + Len(new)
         /\ \A j \in DOMAIN new : new[j].image = 0
<1> DEFINE top == NewRow("restaurant", SeedRows[i].name, 0, SeedRows[i].country, 0)
           one == <<top>>
           Menu(j) == NewRow(SeedMenu[j].kind, SeedMenu[j].name,
                             Len(rows) + 1 + SeedMenu[j].parent, None, 0)
           menu == [j \in DOMAIN SeedMenu |-> Menu(j)]
<1>1. /\ Len(rows) \in Nat /\ Len(SeedMenu) \in Nat
      /\ DOMAIN SeedMenu = 1..Len(SeedMenu)
  BY CatalogAssumption, Seqs DEF BaseInv, TypeOK
<1>2. SeedRows[i] \in [name : Name, country : Country]
  <2>1. SeedRows \in Seq([name : Name, country : Country])
    BY CatalogAssumption
  <2> QED BY <2>1, Seqs
<1>3. top \in Row /\ top.image = 0
  BY <1>2 DEF NewRow, Row, Kind
<1>4. \A j \in DOMAIN SeedMenu :
        SeedMenu[j] \in [kind : {"category", "item"}, name : Name, parent : Nat]
        /\ SeedMenu[j].parent < j
  <2>1. SeedMenu \in Seq([kind : {"category", "item"}, name : Name, parent : Nat])
    BY CatalogAssumption
  <2>2. \A j \in DOMAIN SeedMenu : SeedMenu[j].parent < j
    BY CatalogAssumption
  <2> QED BY <2>1, <2>2, Seqs
<1>5. \A j \in DOMAIN SeedMenu :
        /\ Menu(j) \in Row /\ Menu(j).kind = SeedMenu[j].kind
        /\ Menu(j).kind # "restaurant" /\ Menu(j).name = SeedMenu[j].name
        /\ Menu(j).parent = Len(rows) + 1 + SeedMenu[j].parent
        /\ Menu(j).parent <= Len(rows) + 1 + Len(SeedMenu)
        /\ Menu(j).image = 0
  BY <1>1, <1>4 DEF NewRow, Row, Kind
<1> HIDE DEF top, Menu
<1>6. one \in Seq(Row) /\ Len(one) = 1 /\ one[1] = top
  BY <1>3
<1>7. menu \in Seq(Row) /\ Len(menu) = Len(SeedMenu)
  BY <1>1, <1>5, IsASeq
<1>8. NestedRows(i) = one \o menu
  BY DEF NestedRows, top, Menu
<1>9. \A j \in DOMAIN menu : menu[j] = Menu(j)
  OBVIOUS
<1> HIDE DEF one, menu
<1> DEFINE new == one \o menu
<1>10. /\ new \in Seq(Row) /\ Len(new) = 1 + Len(SeedMenu)
       /\ \A j \in 1..(1 + Len(SeedMenu)) :
            new[j] = IF j <= 1 THEN one[j] ELSE menu[j - 1]
  BY <1>6, <1>7, Prepended
<1>11. DOMAIN new = 1..(1 + Len(SeedMenu))
  BY <1>10, Seqs
<1> HIDE DEF new
<1>12. new[1] = top
  BY <1>1, <1>6, <1>10
<1>13. \A j \in DOMAIN new \ {1} : j - 1 \in DOMAIN SeedMenu /\ new[j] = Menu(j - 1)
  <2> SUFFICES ASSUME NEW j \in DOMAIN new \ {1}
               PROVE  j - 1 \in DOMAIN SeedMenu /\ new[j] = Menu(j - 1)
    OBVIOUS
  <2>1. j \in 1..(1 + Len(SeedMenu)) /\ ~(j <= 1) /\ j - 1 \in DOMAIN SeedMenu
    BY <1>1, <1>11
  <2>2. new[j] = menu[j - 1] /\ j - 1 \in DOMAIN menu
    BY <1>1, <1>7, <1>10, <2>1, Seqs
  <2> QED BY <1>9, <2>1, <2>2
<1>14. \A j \in DOMAIN new \ {1} :
         /\ j - 1 \in DOMAIN SeedMenu /\ new[j].kind = SeedMenu[j - 1].kind
         /\ new[j].name = SeedMenu[j - 1].name /\ new[j].kind # "restaurant"
         /\ new[j].parent = Len(rows) + 1 + SeedMenu[j - 1].parent
         /\ new[j].parent <= Len(rows) + Len(new)
         /\ new[j].image = 0
  <2> SUFFICES ASSUME NEW j \in DOMAIN new \ {1}
               PROVE  /\ j - 1 \in DOMAIN SeedMenu /\ new[j].kind = SeedMenu[j - 1].kind
                      /\ new[j].name = SeedMenu[j - 1].name /\ new[j].kind # "restaurant"
                      /\ new[j].parent = Len(rows) + 1 + SeedMenu[j - 1].parent
                      /\ new[j].parent <= Len(rows) + Len(new)
                      /\ new[j].image = 0
    OBVIOUS
  <2>1. j - 1 \in DOMAIN SeedMenu /\ new[j] = Menu(j - 1)
    BY <1>13
  <2>2. /\ Menu(j - 1).kind = SeedMenu[j - 1].kind
        /\ Menu(j - 1).kind # "restaurant" /\ Menu(j - 1).name = SeedMenu[j - 1].name
        /\ Menu(j - 1).parent = Len(rows) + 1 + SeedMenu[j - 1].parent
        /\ Menu(j - 1).parent <= Len(rows) + 1 + Len(SeedMenu)
        /\ Menu(j - 1).image = 0
    BY <1>5, <2>1
  <2>3. Len(rows) + Len(new) = Len(rows) + 1 + Len(SeedMenu)
    BY <1>1, <1>10
  <2> QED BY <2>1, <2>2, <2>3
<1>15. NestedRows(i) = new
  BY <1>8 DEF new
<1>16. \A j \in DOMAIN new : new[j].image = 0
  BY <1>3, <1>12, <1>14
<1> QED
  BY <1>10, <1>11, <1>12, <1>14, <1>15, <1>16 DEF top

\* The rows after the seed has inserted a restaurant.
LEMMA SeedRowsAdded ==
  ASSUME BaseInv, NEW p \in Proc, SeedCreate(p)
  PROVE  \E i \in req[p].missing :
           /\ i \in DOMAIN SeedRows /\ req[p].pc = "seedCreate" /\ req[p].id = 0
           /\ req' = [req EXCEPT ![p] = [req[p] EXCEPT !.missing = @ \ {i}]]
           /\ UNCHANGED <<Disk, started>> /\ writes' \in Nat
           /\ rows' = rows \o NestedRows(i) /\ rows' \in Seq(Row)
           /\ RowsOK(rows') /\ Stable(rows, rows')
           /\ \A j \in DOMAIN rows' :
                IF j <= Len(rows) THEN j \in DOMAIN rows /\ rows'[j] = rows[j]
                ELSE j - Len(rows) \in DOMAIN NestedRows(i)
                     /\ rows'[j] = NestedRows(i)[j - Len(rows)]
<1>1. PICK i \in req[p].missing :
        /\ rows' = rows \o NestedRows(i) /\ Wrote(1 + Len(SeedMenu))
        /\ req' = [req EXCEPT ![p].missing = @ \ {i}]
  BY DEF SeedCreate
<1>2. req[p].pc = "seedCreate" /\ UNCHANGED <<Disk, started>>
  BY DEF SeedCreate
<1>3. ReqOK(req[p], rows) /\ req[p] \in Request /\ writes \in Nat
  BY DEF BaseInv, TypeOK
<1>4. i \in DOMAIN SeedRows /\ req[p].id = 0
  BY <1>2, <1>3 DEF ReqOK, Seeding
<1>5. req' = [req EXCEPT ![p] = [req[p] EXCEPT !.missing = @ \ {i}]]
  BY <1>1
<1>6. writes' \in Nat
  <2>1. Len(SeedMenu) \in Nat
    BY CatalogAssumption, Seqs
  <2> QED BY <1>1, <1>3, <2>1 DEF Wrote
<1> DEFINE new == NestedRows(i)
<1>7. /\ new \in Seq(Row)
      /\ \A j \in DOMAIN new : /\ new[j].parent <= Len(rows) + Len(new)
                               /\ new[j].kind = "restaurant" => new[j].parent = 0
  <2>0. Len(rows) \in Nat /\ Len(SeedMenu) \in Nat
    BY CatalogAssumption, Seqs DEF BaseInv, TypeOK
  <2>1. /\ new \in Seq(Row) /\ Len(new) = 1 + Len(SeedMenu)
        /\ new[1] = NewRow("restaurant", SeedRows[i].name, 0, SeedRows[i].country, 0)
        /\ \A j \in DOMAIN new \ {1} : /\ new[j].parent <= Len(rows) + Len(new)
                                       /\ new[j].kind # "restaurant"
    BY <1>4, Nested
  <2> HIDE DEF new
  <2>2. new[1].parent = 0
    BY <2>1 DEF NewRow
  <2>3. Len(new) \in Nat /\ 0 <= Len(rows) + Len(new)
    BY <2>0, <2>1
  <2> QED BY <2>1, <2>2, <2>3
<1> HIDE DEF new
<1>8. /\ rows' \in Seq(Row) /\ RowsOK(rows') /\ Stable(rows, rows')
      /\ \A j \in DOMAIN rows' :
           IF j <= Len(rows) THEN j \in DOMAIN rows /\ rows'[j] = rows[j]
           ELSE j - Len(rows) \in DOMAIN new /\ rows'[j] = new[j - Len(rows)]
  BY <1>1, <1>7, AddRows DEF new
<1> QED
  BY <1>1, <1>2, <1>4, <1>5, <1>6, <1>8 DEF new

LEMMA SeedBase ==
  ASSUME BaseInv, NEW p \in Proc, Seed(p)
  PROVE  BaseInv'
<1> DEFINE r == req[p]
<1>1. r \in Request /\ ReqOK(r, rows)
  BY DEF BaseInv, TypeOK
<1>2. Len(SeedRows) \in Nat /\ DOMAIN SeedRows = 1..Len(SeedRows)
  BY CatalogAssumption, Seqs
<1>3. CASE StartServer(p)
  <2> DEFINE s == [Idle EXCEPT !.pc = "seedFind"]
  <2>1. SeedRows # <<>> /\ Begin(p, s)
    BY <1>3 DEF StartServer
  <2>2. s \in Request /\ s.pc = "seedFind" /\ s.place = 1 /\ s.missing = {} /\ s.id = 0
    BY IdleOK DEF Request, PC, Idle
  <2>3. 1 \in DOMAIN SeedRows
    BY <1>2, <2>1, CatalogAssumption, EmptySeq
  <2> HIDE DEF s
  <2>4. ReqOK(s, rows)
    BY <2>2, <2>3 DEF ReqOK, Named, Seeding
  <2> QED BY <2>1, <2>2, <2>4, BeginBase
<1>4. CASE SeedFind(p)
  <2> DEFINE i == r.place
             known == \E j \in Rows("restaurant") : rows[j].name = SeedRows[i].name
             missing == IF known THEN r.missing ELSE r.missing \cup {i}
             label == IF i = Len(SeedRows) THEN "seedCreate" ELSE "seedFind"
             s == [r EXCEPT !.missing = missing, !.place = i + 1, !.pc = label]
  <2>1. /\ r.pc = "seedFind" /\ req' = [req EXCEPT ![p] = s]
        /\ UNCHANGED <<rows, Disk, started, writes>>
    BY <1>4 DEF SeedFind
  <2>2. i \in DOMAIN SeedRows /\ i \in Nat /\ r.missing \subseteq DOMAIN SeedRows /\ r.id = 0
    BY <1>1, <1>2, <2>1 DEF ReqOK, Seeding
  <2>3. missing \subseteq DOMAIN SeedRows /\ missing \in SUBSET Nat
    BY <1>2, <2>2
  <2>4. label \in PC /\ i + 1 \in Nat /\ label \in {"seedFind", "seedCreate"}
        /\ (label = "seedFind" => i + 1 \in DOMAIN SeedRows)
    BY <1>2, <2>2 DEF PC
  <2> HIDE DEF missing, label
  <2>5. /\ s \in Request /\ s.pc = label /\ s.place = i + 1 /\ s.missing = missing
        /\ s.id = 0
    BY <1>1, <2>2, <2>3, <2>4 DEF Request
  <2> HIDE DEF s
  <2>6. ReqOK(s, rows)
    BY <2>2, <2>3, <2>4, <2>5 DEF ReqOK, Named, Seeding
  <2> QED BY <2>1, <2>5, <2>6, NoWrite DEF Disk, BaseInv, TypeOK
<1>5. CASE SeedCreate(p)
  <2>1. PICK i \in r.missing :
           /\ i \in DOMAIN SeedRows /\ r.pc = "seedCreate" /\ r.id = 0
           /\ req' = [req EXCEPT ![p] = [r EXCEPT !.missing = @ \ {i}]]
           /\ UNCHANGED <<Disk, started>> /\ writes' \in Nat
           /\ rows' \in Seq(Row)
           /\ RowsOK(rows') /\ Stable(rows, rows')
    BY <1>5, SeedRowsAdded
  <2> DEFINE s == [r EXCEPT !.missing = @ \ {i}]
  <2>2. s \in Request /\ s.pc = r.pc /\ s.id = r.id /\ s.missing = r.missing \ {i}
    BY <1>1 DEF Request
  <2> HIDE DEF s
  <2>3. ReqOK(s, rows')
    BY <1>1, <2>1, <2>2 DEF ReqOK, Named, Seeding
  <2> QED BY <2>1, <2>2, <2>3, BaseStep DEF s, Disk, BaseInv, TypeOK
<1>6. CASE SeedDone(p)
  BY <1>6, FinishBase DEF SeedDone
<1> QED
  BY <1>3, <1>4, <1>5, <1>6 DEF Seed

LEMMA BaseInit == Init => BaseInv
<1> SUFFICES ASSUME Init PROVE BaseInv
  OBVIOUS
<1>1. rows \in Seq(Row) /\ RowsOK(rows)
  BY InitRowsAssumption DEF Init, RowsOK
<1>2. \A p \in Proc : ReqOK(req[p], rows) /\ req[p] \in Request
  BY IdleOK DEF Init
<1>3. req \in [Proc -> Request]
  BY <1>2 DEF Init
<1> QED
  BY <1>1, <1>2, <1>3 DEF BaseInv, Init, TypeOK

\* The basic invariant holds in every state.
THEOREM Base == Spec => []BaseInv
<1>1. BaseInv /\ [Next]_vars => BaseInv'
  <2> SUFFICES ASSUME BaseInv, [Next]_vars PROVE BaseInv'
    OBVIOUS
  <2>1. CASE UNCHANGED vars
    BY <2>1 DEF vars, BaseInv, TypeOK
  <2>2. ASSUME NEW p \in Proc, Fail(p)
        PROVE  BaseInv'
    BY <2>2, FinishBase DEF Fail
  <2> QED BY <2>1, <2>2, StartBase, LookBase, SaveBase, WriteBase, ReadBase,
             SeedBase DEF Next
<1> QED
  BY <1>1, BaseInit, PTL DEF Spec

\* Tables, files and requests are well typed.
THEOREM CatalogTypes == Spec => []TypeOK
<1>1. BaseInv => TypeOK
  BY DEF BaseInv
<1> QED
  BY <1>1, Base, PTL
-----------------------------------------------------------------------------
\* Only the statements that write and the seed change rows.
LEMMA Untouched ==
  ASSUME NEW p \in Proc,
         Start(p) \/ Look(p) \/ Save(p) \/ Read(p) \/ StartServer(p)
         \/ SeedFind(p) \/ SeedDone(p) \/ Fail(p)
  PROVE  UNCHANGED rows
<1>1. \A r : Begin(p, r) => UNCHANGED rows
  BY DEF Begin
<1>2. CASE Start(p) \/ StartServer(p)
  BY <1>1, <1>2 DEF Start, StartServer, CreateRestaurant, CreateCategory, CreateItem,
     UpdateRestaurant, UpdateCategory, UpdateItem, DeleteRestaurant, DeleteCategory,
     DeleteItem, ListRestaurants, ListCategories, ListItems, RestaurantDetail
<1>3. CASE Look(p) \/ Save(p)
  BY <1>3 DEF Look, FindRestaurant, FindCategory, FindRow, CheckRestaurant,
     CheckCategory, CheckItem, CheckName, Save, Refuse, Upload, WriteFile
<1>4. CASE Read(p) \/ SeedFind(p) \/ SeedDone(p) \/ Fail(p)
  BY <1>4 DEF Read, ReadData, ReadTotal, ReadDetail, Answer, SeedFind, SeedDone, Fail
<1> QED
  BY <1>2, <1>3, <1>4

\* What a write does: rows are appended, or one that is there is changed.
LEMMA WriteCases ==
  ASSUME NEW p \in Proc, Write(p)
  PROVE  \/ \E k \in Kind :
              \E row \in {RestaurantRow(req[p]), CategoryRow(req[p]), ItemRow(req[p])} :
                k = row.kind /\ Insert(p, k, row)
         \/ \E k \in Kind : \E row :
              /\ Update(p, k, row)
              /\ \/ k = "restaurant" /\ row = RestaurantChanged(rows[req[p].id], req[p])
                 \/ k = "category" /\ row = CategoryChanged(rows[req[p].id], req[p])
                 \/ k = "item" /\ row = ItemChanged(rows[req[p].id], req[p])
         \/ \E k \in Kind : MarkDeleted(p, k)
<1>1. CASE InsertRestaurant(p) \/ InsertCategory(p) \/ InsertItem(p)
  BY <1>1 DEF InsertRestaurant, InsertCategory, InsertItem, RestaurantRow,
     CategoryRow, ItemRow, NewRow, Kind
<1>2. CASE UpdateRestaurantRow(p) \/ UpdateCategoryRow(p) \/ UpdateItemRow(p)
  BY <1>2 DEF UpdateRestaurantRow, UpdateCategoryRow, UpdateItemRow, Kind
<1>3. CASE MarkRestaurant(p) \/ MarkCategory(p) \/ MarkItem(p)
  BY <1>3 DEF MarkRestaurant, MarkCategory, MarkItem, Kind
<1> QED
  BY <1>1, <1>2, <1>3 DEF Write

\* What has been deleted stays as it is, whatever overtakes its deletion.
THEOREM DeletedRowsStay == Spec => DeletedFrozen
<1> DEFINE Frozen == \A i \in DOMAIN rows : rows[i].deleted => rows'[i] = rows[i]
<1>1. ASSUME BaseInv, NEW p \in Proc, Write(p)
      PROVE  Frozen
  <2>0. rows \in Seq(Row) /\ \A i \in DOMAIN rows : rows[i] \in Row
    BY <1>1, Seqs DEF BaseInv, TypeOK
  <2>1. ASSUME NEW k, NEW row, Insert(p, k, row)
        PROVE  Frozen
    <3>1. rows' = Append(rows, row)
      BY <2>1 DEF Insert
    <3> QED BY <2>0, <3>1
  <2>2. ASSUME NEW k, NEW row, Update(p, k, row)
        PROVE  Frozen
    BY <2>2 DEF Update, Updatable
  <2>3. ASSUME NEW k, MarkDeleted(p, k)
        PROVE  Frozen
    <3>1. /\ req[p].id \in DOMAIN rows
          /\ rows' = [rows EXCEPT ![req[p].id] = [rows[req[p].id] EXCEPT !.deleted = TRUE]]
      BY <1>1, <2>3, MarkRows
    <3>2. \A row \in Row : row.deleted => [row EXCEPT !.deleted = TRUE] = row
      BY DEF Row
    <3> QED BY <2>0, <3>1, <3>2
  <2> QED BY <1>1, <2>1, <2>2, <2>3, WriteCases
<1>2. ASSUME BaseInv, NEW p \in Proc, SeedCreate(p)
      PROVE  Frozen
  <2>1. \A j \in DOMAIN rows' : j <= Len(rows) => rows'[j] = rows[j]
    BY <1>2, SeedRowsAdded
  <2>2. DOMAIN rows \subseteq DOMAIN rows'
    BY <1>2, SeedRowsAdded DEF Stable
  <2>3. \A j \in DOMAIN rows : j <= Len(rows)
    BY <1>2 DEF BaseInv, TypeOK
  <2> QED BY <2>1, <2>2, <2>3
<1>3. ASSUME BaseInv, NEW p \in Proc, Start(p) \/ Look(p) \/ Save(p) \/ Read(p) \/ Seed(p) \/ Fail(p)
      PROVE  Frozen
  BY <1>2, <1>3, Untouched DEF Seed
<1>4. BaseInv /\ [Next]_vars => Frozen \/ UNCHANGED vars
  BY <1>1, <1>3 DEF Next
<1>5. BaseInv /\ [Next]_vars => [Frozen]_vars
  BY <1>4
<1> QED
  BY <1>5, Base, PTL DEF Spec, DeletedFrozen
-----------------------------------------------------------------------------
(***************************************************************************)
(* Pictures.  A picture that a request carries is one it has uploaded for  *)
(* a new row, that no one else has seen, or one of the row it updates.     *)
(***************************************************************************)
PicInv ==
  /\ \A i \in DOMAIN rows : rows[i].image # 0 =>
       rows[i].image \in whole /\ rows[i].image <= files
  /\ \A i, j \in DOMAIN rows :
       rows[i].image # 0 /\ rows[i].image = rows[j].image => i = j
  /\ \A p \in Proc : req[p].image # 0 =>
       /\ req[p].image <= files
       /\ req[p].pc # "writeFile" => req[p].image \in whole
       /\ \A i \in DOMAIN rows : rows[i].image = req[p].image => i = req[p].id
  /\ \A p, q \in Proc : p # q /\ req[p].image # 0 /\ req[p].image = req[q].image =>
       req[p].id = req[q].id /\ req[p].id # 0

\* What the proofs below need of the types.
LEMMA PicTypes ==
  ASSUME BaseInv
  PROVE  /\ files \in Nat /\ req \in [Proc -> Request] /\ rows \in Seq(Row)
         /\ Len(rows) \in Nat /\ DOMAIN rows = 1..Len(rows)
         /\ \A p \in Proc : req[p].image \in Nat /\ ReqOK(req[p], rows)
         /\ \A i \in DOMAIN rows : rows[i].image \in Nat
<1>1. rows \in Seq(Row) /\ req \in [Proc -> Request] /\ files \in Nat
  BY DEF BaseInv, TypeOK
<1>2. /\ Len(rows) \in Nat /\ DOMAIN rows = 1..Len(rows)
      /\ \A i \in DOMAIN rows : rows[i].image \in Nat
  <2>1. \A i \in DOMAIN rows : rows[i] \in Row
    BY <1>1, Seqs
  <2>2. Len(rows) \in Nat /\ DOMAIN rows = 1..Len(rows)
    BY <1>1, Seqs
  <2> QED BY <2>1, <2>2 DEF Row
<1>3. \A p \in Proc : req[p].image \in Nat /\ ReqOK(req[p], rows)
  BY <1>1 DEF Request, BaseInv
<1> QED
  BY <1>1, <1>2, <1>3

\* A request goes on with the picture it had, or with none.
LEMMA PicSame ==
  ASSUME BaseInv, PicInv, NEW p \in Proc, NEW s, req' = [req EXCEPT ![p] = s],
         UNCHANGED <<rows, files>>, whole \subseteq whole',
         \/ s.image = 0
         \/ s.image = req[p].image /\ s.id = req[p].id /\ s.image \in whole'
  PROVE  PicInv'
<1>1. \A q \in Proc : req'[q] = IF q = p THEN s ELSE req[q]
  BY PicTypes
<1>2. /\ \A i \in DOMAIN rows' : rows'[i].image # 0 =>
           rows'[i].image \in whole' /\ rows'[i].image <= files'
      /\ \A i, j \in DOMAIN rows' :
           rows'[i].image # 0 /\ rows'[i].image = rows'[j].image => i = j
  BY DEF PicInv
<1>3. \A q \in Proc : req'[q].image # 0 =>
        /\ req'[q].image <= files'
        /\ req'[q].pc # "writeFile" => req'[q].image \in whole'
        /\ \A i \in DOMAIN rows' : rows'[i].image = req'[q].image => i = req'[q].id
  BY <1>1 DEF PicInv
<1>4. \A q, o \in Proc : q # o /\ req'[q].image # 0 /\ req'[q].image = req'[o].image =>
        req'[q].id = req'[o].id /\ req'[q].id # 0
  BY <1>1 DEF PicInv
<1> QED
  BY <1>2, <1>3, <1>4 DEF PicInv

\* A request that has not checked a name.
Unchecked(r) ==
  /\ r.pc \notin {"upload", "writeFile", "insert"}
  /\ r.pc = "update" => r.name = None
  /\ r.missing = {}

\* A request that begins has no picture and has checked no name.
LEMMA BeginPic ==
  ASSUME req \in [Proc -> Request], NEW p \in Proc, Start(p) \/ StartServer(p)
  PROVE  /\ req' = [req EXCEPT ![p] = req'[p]] /\ req'[p].image = 0
         /\ Unchecked(req'[p])
         /\ UNCHANGED <<rows, files, whole>>
<1>0. \A r : Begin(p, r) => /\ req' = [req EXCEPT ![p] = req'[p]] /\ req'[p] = r
                            /\ UNCHANGED <<rows, files, whole>>
  BY DEF Begin, Disk
<1>1. CASE CreateRestaurant(p)
  <2>1. PICK n \in Name, c \in Country :
    Begin(p, [Idle EXCEPT
      !.pc = "checkName", !.name = n, !.country = c])
    BY <1>1 DEF CreateRestaurant
  <2> DEFINE r == [Idle EXCEPT
      !.pc = "checkName", !.name = n, !.country = c]
  <2>2. r.image = 0 /\ Unchecked(r)
    BY DEF Idle, Unchecked
  <2> HIDE DEF r
  <2> QED BY <1>0, <2>1, <2>2 DEF r
<1>2. CASE CreateCategory(p)
  <2>1. PICK n \in Name, i \in Rows("restaurant") :
    Begin(p, [Idle EXCEPT
      !.pc = "findRestaurant", !.kind = "category",
      !.name = n, !.parent = i, !.scope = i])
    BY <1>2 DEF CreateCategory
  <2> DEFINE r == [Idle EXCEPT
      !.pc = "findRestaurant", !.kind = "category",
      !.name = n, !.parent = i, !.scope = i]
  <2>2. r.image = 0 /\ Unchecked(r)
    BY DEF Idle, Unchecked
  <2> HIDE DEF r
  <2> QED BY <1>0, <2>1, <2>2 DEF r
<1>3. CASE CreateItem(p)
  <2>1. PICK n \in Name, i \in Rows("category") :
    Begin(p, [Idle EXCEPT
      !.pc = "findCategory", !.kind = "item", !.name = n,
      !.parent = i, !.scope = i, !.file = TRUE])
    BY <1>3 DEF CreateItem
  <2> DEFINE r == [Idle EXCEPT
      !.pc = "findCategory", !.kind = "item", !.name = n,
      !.parent = i, !.scope = i, !.file = TRUE]
  <2>2. r.image = 0 /\ Unchecked(r)
    BY DEF Idle, Unchecked
  <2> HIDE DEF r
  <2> QED BY <1>0, <2>1, <2>2 DEF r
<1>4. CASE UpdateRestaurant(p)
  <2>1. PICK i \in Rows("restaurant"), n \in Name \cup {None}, c \in Country \cup {None} :
    Begin(p, [Idle EXCEPT
      !.pc = IF n = None THEN "update" ELSE "checkName",
      !.id = i, !.name = n, !.country = c])
    BY <1>4 DEF UpdateRestaurant
  <2> DEFINE r == [Idle EXCEPT
      !.pc = IF n = None THEN "update" ELSE "checkName",
      !.id = i, !.name = n, !.country = c]
  <2>2. r.image = 0 /\ Unchecked(r)
    BY DEF Idle, Unchecked
  <2> HIDE DEF r
  <2> QED BY <1>0, <2>1, <2>2 DEF r
<1>5. CASE UpdateCategory(p)
  <2>1. PICK i \in Rows("category"), n \in Name \cup {None},
       j \in Rows("restaurant") \cup {None} :
    Begin(p, [Idle EXCEPT
      !.pc = "findRow", !.kind = "category", !.id = i,
      !.name = n, !.parent = j])
    BY <1>5 DEF UpdateCategory
  <2> DEFINE r == [Idle EXCEPT
      !.pc = "findRow", !.kind = "category", !.id = i,
      !.name = n, !.parent = j]
  <2>2. r.image = 0 /\ Unchecked(r)
    BY DEF Idle, Unchecked
  <2> HIDE DEF r
  <2> QED BY <1>0, <2>1, <2>2 DEF r
<1>6. CASE UpdateItem(p)
  <2>1. PICK i \in Rows("item"), n \in Name \cup {None},
       j \in Rows("category") \cup {None}, f \in BOOLEAN :
    Begin(p, [Idle EXCEPT
      !.pc = "findRow", !.kind = "item", !.id = i,
      !.name = n, !.parent = j, !.file = f])
    BY <1>6 DEF UpdateItem
  <2> DEFINE r == [Idle EXCEPT
      !.pc = "findRow", !.kind = "item", !.id = i,
      !.name = n, !.parent = j, !.file = f]
  <2>2. r.image = 0 /\ Unchecked(r)
    BY DEF Idle, Unchecked
  <2> HIDE DEF r
  <2> QED BY <1>0, <2>1, <2>2 DEF r
<1>7. CASE DeleteRestaurant(p) \/ DeleteCategory(p) \/ DeleteItem(p)
  <2>1. PICK k, i :
    Begin(p, [Idle EXCEPT
      !.pc = "delete", !.kind = k, !.id = i])
    BY <1>7 DEF DeleteRestaurant, DeleteCategory, DeleteItem
  <2> DEFINE r == [Idle EXCEPT
      !.pc = "delete", !.kind = k, !.id = i]
  <2>2. r.image = 0 /\ Unchecked(r)
    BY DEF Idle, Unchecked
  <2> HIDE DEF r
  <2> QED BY <1>0, <2>1, <2>2 DEF r
<1>8. CASE ListCategories(p) \/ ListItems(p)
  <2>1. PICK k, i, text, page :
    Begin(p, [Idle EXCEPT
      !.pc = "list", !.kind = k, !.parent = i, !.search = text, !.page = page])
    BY <1>8 DEF ListCategories, ListItems
  <2> DEFINE r == [Idle EXCEPT
      !.pc = "list", !.kind = k, !.parent = i, !.search = text, !.page = page]
  <2>2. r.image = 0 /\ Unchecked(r)
    BY DEF Idle, Unchecked
  <2> HIDE DEF r
  <2> QED BY <1>0, <2>1, <2>2 DEF r
<1>9. CASE StartServer(p)
  <2> DEFINE r == [Idle EXCEPT !.pc = "seedFind"]
  <2>1. Begin(p, r)
    BY <1>9 DEF StartServer
  <2>2. r.image = 0 /\ Unchecked(r)
    BY DEF Idle, Unchecked
  <2> HIDE DEF r
  <2> QED BY <1>0, <2>1, <2>2 DEF r
<1>10. CASE ListRestaurants(p)
  <2>1. PICK scope, c, text, page :
    Begin(p, [Idle EXCEPT !.pc = "list", !.country = c, !.caller = scope,
                          !.search = text, !.page = page])
    BY <1>10 DEF ListRestaurants
  <2> DEFINE r == [Idle EXCEPT !.pc = "list", !.country = c, !.caller = scope,
                               !.search = text, !.page = page]
  <2>2. r.image = 0 /\ Unchecked(r)
    BY DEF Idle, Unchecked
  <2> HIDE DEF r
  <2> QED BY <1>0, <2>1, <2>2 DEF r
<1>11. CASE RestaurantDetail(p)
  <2>1. PICK i, scope :
    Begin(p, [Idle EXCEPT
      !.pc = "detail", !.id = i, !.country = scope, !.caller = scope])
    BY <1>11 DEF RestaurantDetail
  <2> DEFINE r == [Idle EXCEPT
      !.pc = "detail", !.id = i, !.country = scope, !.caller = scope]
  <2>2. r.image = 0 /\ Unchecked(r)
    BY DEF Idle, Unchecked
  <2> HIDE DEF r
  <2> QED BY <1>0, <2>1, <2>2 DEF r
<1> QED
  BY <1>1, <1>2, <1>3, <1>4, <1>5, <1>6, <1>7, <1>8, <1>9, <1>10, <1>11 DEF Start

\* Steps that write no row.
LEMMA PicQuiet ==
  ASSUME BaseInv, PicInv, NEW p \in Proc,
         Start(p) \/ Look(p) \/ Save(p) \/ Read(p) \/ StartServer(p)
         \/ SeedFind(p) \/ SeedDone(p) \/ Fail(p)
  PROVE  PicInv'
<1> DEFINE r == req[p]
<1>0. /\ r \in Request /\ ReqOK(r, rows) /\ files \in Nat /\ r.image \in Nat
      /\ \A q \in Proc : req[q].image \in Nat
      /\ \A i \in DOMAIN rows : rows[i].image \in Nat
  BY PicTypes
<1>1. r.pc # "writeFile" /\ r.image # 0 => r.image \in whole
  BY DEF PicInv
<1>2. CASE Finish(p) /\ UNCHANGED <<rows, Disk>>
  BY <1>2, PicSame DEF Finish, Idle, Disk
<1>3. ASSUME r.pc # "writeFile", NEW s, s.image = r.image, s.id = r.id,
             req' = [req EXCEPT ![p] = s], UNCHANGED <<rows, Disk>>
      PROVE  PicInv'
  BY <1>1, <1>3, PicSame DEF Disk
<1>4. ASSUME NEW label, Goto(p, label), r.pc # "writeFile", UNCHANGED <<rows, Disk>>
      PROVE  PicInv'
  <2> DEFINE s == [r EXCEPT !.pc = label]
  <2>1. s.image = r.image /\ s.id = r.id /\ req' = [req EXCEPT ![p] = s]
    BY <1>0, <1>4 DEF Request, Goto
  <2> QED BY <1>3, <1>4, <2>1
<1>5. CASE Start(p) \/ StartServer(p)
  BY <1>5, BeginPic, PicSame, PicTypes
<1>6. CASE FindRestaurant(p) \/ FindCategory(p)
  BY <1>4, <1>6 DEF FindRestaurant, FindCategory
<1>7. CASE FindRow(p)
  <2> DEFINE row == rows[r.id]
             s == [r EXCEPT !.scope = row.parent, !.image = row.image,
                            !.pc = IF r.name # None THEN "checkName" ELSE AfterCheck(r)]
  <2>1. /\ r.pc = "findRow" /\ req' = [req EXCEPT ![p] = s]
        /\ UNCHANGED <<rows, files, whole>>
    BY <1>7 DEF FindRow, Disk
  <2>2. r.id \in DOMAIN rows /\ r.id # 0
    BY <1>0, <2>1, PicTypes DEF ReqOK, RowsOf
  <2>3. s.image = row.image /\ s.id = r.id
    BY <1>0 DEF Request
  <2>4. \A q \in Proc : req'[q] = IF q = p THEN s ELSE req[q]
    BY <2>1, PicTypes
  <2> HIDE DEF s
  <2>5. \A q \in Proc : req'[q].image # 0 =>
          /\ req'[q].image <= files
          /\ req'[q].pc # "writeFile" => req'[q].image \in whole
          /\ \A i \in DOMAIN rows : rows[i].image = req'[q].image => i = req'[q].id
    BY <2>2, <2>3, <2>4 DEF PicInv
  <2>6. \A q, o \in Proc : q # o /\ req'[q].image # 0 /\ req'[q].image = req'[o].image =>
          req'[q].id = req'[o].id /\ req'[q].id # 0
    BY <2>2, <2>3, <2>4 DEF PicInv
  <2> QED BY <2>1, <2>5, <2>6 DEF PicInv
<1>8. CASE CheckRestaurant(p) \/ CheckCategory(p) \/ CheckItem(p)
  <2>1. /\ r.pc = "checkName" /\ UNCHANGED <<rows, Disk>>
        /\ Finish(p) \/ \E label : Goto(p, label)
    BY <1>8 DEF CheckRestaurant, CheckCategory, CheckItem, CheckName
  <2> QED BY <1>2, <1>4, <2>1
<1>9. CASE Upload(p)
  <2> DEFINE s == [r EXCEPT !.image = files + 1, !.pc = "writeFile"]
  <2>1. /\ req' = [req EXCEPT ![p] = s] /\ files' = files + 1
        /\ UNCHANGED <<rows, whole>>
    BY <1>9 DEF Upload
  <2>2. s.image = files + 1 /\ s.pc = "writeFile"
    BY <1>0 DEF Request
  <2>3. \A q \in Proc : req'[q] = IF q = p THEN s ELSE req[q]
    BY <2>1, PicTypes
  <2> HIDE DEF s
  <2>4. /\ \A q \in Proc : req[q].image <= files
        /\ \A i \in DOMAIN rows : rows[i].image <= files
    BY <1>0 DEF PicInv
  <2>5. \A i \in DOMAIN rows : rows[i].image # 0 =>
          rows[i].image \in whole /\ rows[i].image <= files'
    BY <1>0, <2>1 DEF PicInv
  <2>6. \A q \in Proc : req'[q].image # 0 =>
          /\ req'[q].image <= files'
          /\ req'[q].pc # "writeFile" => req'[q].image \in whole
          /\ \A i \in DOMAIN rows : rows[i].image = req'[q].image => i = req'[q].id
    <3> SUFFICES ASSUME NEW q \in Proc, req'[q].image # 0
                 PROVE  /\ req'[q].image <= files'
                        /\ req'[q].pc # "writeFile" => req'[q].image \in whole
                        /\ \A i \in DOMAIN rows : rows[i].image = req'[q].image => i = req'[q].id
      OBVIOUS
    <3>1. CASE q = p
      BY <1>0, <2>1, <2>2, <2>3, <2>4, <3>1
    <3>2. CASE q # p
      BY <1>0, <2>1, <2>3, <3>2 DEF PicInv
    <3> QED BY <3>1, <3>2
  <2>7. \A q, o \in Proc : q # o /\ req'[q].image # 0 /\ req'[q].image = req'[o].image =>
          req'[q].id = req'[o].id /\ req'[q].id # 0
    <3>1. \A q \in Proc \ {p} : req'[q].image # s.image
      BY <1>0, <2>2, <2>3, <2>4
    <3> QED BY <2>3, <3>1 DEF PicInv
  <2>8. \A i, j \in DOMAIN rows :
          rows[i].image # 0 /\ rows[i].image = rows[j].image => i = j
    BY DEF PicInv
  <2> QED BY <2>1, <2>5, <2>6, <2>7, <2>8 DEF PicInv
<1>10. CASE WriteFile(p)
  <2> DEFINE label == IF r.id = 0 THEN "insert" ELSE "update"
             s == [r EXCEPT !.pc = label]
  <2>1. /\ req' = [req EXCEPT ![p] = s] /\ whole' = whole \cup {r.image}
        /\ UNCHANGED <<rows, files>>
    BY <1>10 DEF WriteFile, Goto
  <2>2. s.image = r.image /\ s.id = r.id
    BY <1>0 DEF Request
  <2> HIDE DEF s
  <2> QED BY <2>1, <2>2, PicSame
<1>11. CASE Read(p)
  <2>1. CASE ReadData(p)
    <3>0. PICK page \in PagesOf(r) :
            req' = [req EXCEPT ![p] = HasRead([r EXCEPT !.data = page], "data")]
      BY <2>1 DEF ReadData
    <3> DEFINE d == [r EXCEPT !.data = page]
               s == HasRead(d, "data")
    <3>1. /\ r.pc = "list" /\ req' = [req EXCEPT ![p] = s] /\ UNCHANGED <<rows, Disk>>
      BY <2>1, <3>0 DEF ReadData
    <3>2. s.image = r.image /\ s.id = r.id
      BY <1>0 DEF Request, HasRead
    <3> HIDE DEF s
    <3> QED BY <1>3, <3>1, <3>2
  <2>2. CASE ReadTotal(p)
    <3> DEFINE d == [r EXCEPT !.total = Count(r)]
               s == HasRead(d, "total")
    <3>1. /\ r.pc = "list" /\ req' = [req EXCEPT ![p] = s] /\ UNCHANGED <<rows, Disk>>
      BY <2>2 DEF ReadTotal
    <3>2. s.image = r.image /\ s.id = r.id
      BY <1>0 DEF Request, HasRead
    <3> HIDE DEF s
    <3> QED BY <1>3, <3>1, <3>2
  <2>3. CASE ReadDetail(p)
    <3> DEFINE found == {i \in Rows("restaurant") :
                           i = r.id /\ Asked(r.country, {rows[i].country})}
               s == [r EXCEPT !.data = found, !.total = Cardinality(found),
                              !.read = {"data", "total"}, !.seen = writes,
                              !.pc = "answer"]
    <3>1. /\ r.pc = "detail" /\ req' = [req EXCEPT ![p] = s] /\ UNCHANGED <<rows, Disk>>
      BY <2>3 DEF ReadDetail
    <3>2. s.image = r.image /\ s.id = r.id
      BY <1>0 DEF Request
    <3> HIDE DEF s
    <3> QED BY <1>3, <3>1, <3>2
  <2> QED BY <1>2, <1>11, <2>1, <2>2, <2>3 DEF Read, Answer
<1>12. CASE SeedFind(p)
  <2> DEFINE i == r.place
             known == \E j \in Rows("restaurant") : rows[j].name = SeedRows[i].name
             missing == IF known THEN r.missing ELSE r.missing \cup {i}
             label == IF i = Len(SeedRows) THEN "seedCreate" ELSE "seedFind"
             s == [r EXCEPT !.missing = missing, !.place = i + 1, !.pc = label]
  <2>1. /\ r.pc = "seedFind" /\ req' = [req EXCEPT ![p] = s] /\ UNCHANGED <<rows, Disk>>
    BY <1>12 DEF SeedFind
  <2> HIDE DEF missing, label
  <2>2. s.image = r.image /\ s.id = r.id
    BY <1>0 DEF Request
  <2> HIDE DEF s
  <2> QED BY <1>3, <2>1, <2>2
<1> QED
  BY <1>2, <1>5, <1>6, <1>7, <1>8, <1>9, <1>10, <1>11, <1>12
  DEF Look, Save, Refuse, SeedDone, Fail

\* One row gets the picture it had, or the one of the request that works on it.
LEMMA PicRow ==
  ASSUME BaseInv, PicInv, NEW p \in Proc, NEW row, req[p].id \in DOMAIN rows,
         req[p].pc # "writeFile", req' = [req EXCEPT ![p] = Idle],
         rows' = [rows EXCEPT ![req[p].id] = row],
         row.image \in {rows[req[p].id].image, req[p].image}, UNCHANGED Disk
  PROVE  PicInv'
<1> DEFINE id == req[p].id
           picture == req[p].image
<1>1. /\ DOMAIN rows' = DOMAIN rows /\ UNCHANGED <<files, whole>>
      /\ \A i \in DOMAIN rows : rows'[i] = IF i = id THEN row ELSE rows[i]
      /\ \A q \in Proc : req'[q] = IF q = p THEN Idle ELSE req[q]
  BY PicTypes DEF Disk
<1>2. picture # 0 => /\ picture <= files /\ picture \in whole
                     /\ \A i \in DOMAIN rows : rows[i].image = picture => i = id
                     /\ \A q \in Proc : req[q].image = picture => req[q].id = id
  BY DEF PicInv
<1>3. Idle.image = 0
  BY DEF Idle
<1>4. \A i \in DOMAIN rows' : rows'[i].image # 0 =>
        rows'[i].image \in whole' /\ rows'[i].image <= files'
  BY <1>1, <1>2 DEF PicInv
<1>5. \A i, j \in DOMAIN rows' :
        rows'[i].image # 0 /\ rows'[i].image = rows'[j].image => i = j
  BY <1>1, <1>2 DEF PicInv
<1>6. \A q \in Proc : req'[q].image # 0 =>
        /\ req'[q].image <= files'
        /\ req'[q].pc # "writeFile" => req'[q].image \in whole'
        /\ \A i \in DOMAIN rows' : rows'[i].image = req'[q].image => i = req'[q].id
  BY <1>1, <1>2, <1>3 DEF PicInv
<1>7. \A q, o \in Proc : q # o /\ req'[q].image # 0 /\ req'[q].image = req'[o].image =>
        req'[q].id = req'[o].id /\ req'[q].id # 0
  BY <1>1, <1>3 DEF PicInv
<1> QED
  BY <1>4, <1>5, <1>6, <1>7 DEF PicInv

\* Rows are added without a picture, or with the one of the request.
LEMMA PicAdded ==
  ASSUME BaseInv, PicInv, NEW p \in Proc, \A q \in Proc \ {p} : req'[q] = req[q],
         \/ req'[p].image = 0
         \/ /\ req'[p].image = req[p].image /\ req'[p].id = req[p].id
            /\ req'[p].pc = req[p].pc,
         DOMAIN rows \subseteq DOMAIN rows',
         \A i \in DOMAIN rows : rows'[i] = rows[i], UNCHANGED Disk,
         \A i \in DOMAIN rows' \ DOMAIN rows : rows'[i].image # 0 =>
           /\ req[p].id = 0 /\ req[p].pc # "writeFile" /\ req'[p].image = 0
           /\ rows'[i].image = req[p].image
           /\ \A j \in DOMAIN rows' \ DOMAIN rows : i = j
  PROVE  PicInv'
<1> DEFINE picture == req[p].image
           new == DOMAIN rows' \ DOMAIN rows
<1>1. UNCHANGED <<files, whole>> /\ 0 \notin DOMAIN rows
  BY PicTypes DEF Disk
<1>2. \A i \in new : rows'[i].image # 0 =>
        /\ rows'[i].image = picture /\ picture \in whole /\ picture <= files
        /\ req'[p].image = 0 /\ \A j \in new : j = i
        /\ \A j \in DOMAIN rows : rows[j].image # picture
        /\ \A q \in Proc \ {p} : req[q].image # picture
  BY <1>1 DEF PicInv
<1>3. \A i \in DOMAIN rows' : rows'[i].image # 0 =>
        rows'[i].image \in whole' /\ rows'[i].image <= files'
  BY <1>1, <1>2 DEF PicInv
<1>4. \A i, j \in DOMAIN rows' :
        rows'[i].image # 0 /\ rows'[i].image = rows'[j].image => i = j
  BY <1>1, <1>2 DEF PicInv
<1>5. \A q \in Proc : req'[q].image # 0 =>
        /\ req'[q].image <= files'
        /\ req'[q].pc # "writeFile" => req'[q].image \in whole'
        /\ \A i \in DOMAIN rows' : rows'[i].image = req'[q].image => i = req'[q].id
  BY <1>1, <1>2 DEF PicInv
<1>6. \A q, o \in Proc : q # o /\ req'[q].image # 0 /\ req'[q].image = req'[o].image =>
        req'[q].id = req'[o].id /\ req'[q].id # 0
  BY <1>1 DEF PicInv
<1> QED
  BY <1>3, <1>4, <1>5, <1>6 DEF PicInv

LEMMA PicWrite ==
  ASSUME BaseInv, PicInv, NEW p \in Proc, Write(p) \/ SeedCreate(p)
  PROVE  PicInv'
<1> DEFINE r == req[p]
<1>0. /\ r \in Request /\ ReqOK(r, rows) /\ Len(rows) \in Nat
      /\ DOMAIN rows = 1..Len(rows) /\ rows \in Seq(Row)
  BY PicTypes
<1>1. ASSUME NEW k \in Kind, NEW row, k = row.kind, Insert(p, k, row),
             row \in {RestaurantRow(r), CategoryRow(r), ItemRow(r)}
      PROVE  PicInv'
  <2>1. /\ r.pc = "insert" /\ r.id = 0 /\ row.image \in {0, r.image} /\ row \in Row
        /\ req' = [req EXCEPT ![p] = Idle] /\ UNCHANGED Disk
    BY <1>1, InsertRows
  <2>2. rows' = Append(rows, row)
    BY <1>1 DEF Insert
  <2>3. /\ DOMAIN rows' = 1..(Len(rows) + 1) /\ rows'[Len(rows) + 1] = row
        /\ \A i \in DOMAIN rows : rows'[i] = rows[i]
    BY <1>0, <2>1, <2>2
  <2>4. DOMAIN rows' \ DOMAIN rows = {Len(rows) + 1} /\ DOMAIN rows \subseteq DOMAIN rows'
    BY <1>0, <2>3
  <2>5. Idle.image = 0
    BY DEF Idle
  <2>6. \A i \in DOMAIN rows' \ DOMAIN rows : rows'[i].image # 0 =>
          /\ r.id = 0 /\ r.pc # "writeFile" /\ rows'[i].image = r.image
          /\ \A j \in DOMAIN rows' \ DOMAIN rows : i = j
    BY <2>1, <2>3, <2>4
  <2>7. DOMAIN rows \subseteq DOMAIN rows' /\ \A i \in DOMAIN rows : rows'[i] = rows[i]
    BY <2>3, <2>4
  <2>8. req'[p].image = 0 /\ \A q \in Proc \ {p} : req'[q] = req[q]
    BY <2>1, <2>5, PicTypes
  <2> QED BY <2>1, <2>6, <2>7, <2>8, PicAdded
<1>2. ASSUME NEW k \in Kind, NEW row, Update(p, k, row),
             \/ k = "restaurant" /\ row = RestaurantChanged(rows[r.id], r)
             \/ k = "category" /\ row = CategoryChanged(rows[r.id], r)
             \/ k = "item" /\ row = ItemChanged(rows[r.id], r)
      PROVE  PicInv'
  <2>1. /\ r.pc = "update" /\ r.id \in DOMAIN rows /\ UNCHANGED Disk
        /\ req' = [req EXCEPT ![p] = Idle]
        /\ UNCHANGED rows \/ rows' = [rows EXCEPT ![r.id] = row]
        /\ row.image \in {rows[r.id].image, r.image}
    BY <1>2, UpdateRows
  <2>2. CASE UNCHANGED rows
    BY <2>1, <2>2, PicSame DEF Idle, Disk
  <2> QED BY <2>1, <2>2, PicRow
<1>3. ASSUME NEW k \in Kind, MarkDeleted(p, k)
      PROVE  PicInv'
  <2> DEFINE row == [rows[r.id] EXCEPT !.deleted = TRUE]
  <2>1. /\ r.id \in DOMAIN rows /\ req' = [req EXCEPT ![p] = Idle]
        /\ UNCHANGED Disk /\ rows' = [rows EXCEPT ![r.id] = row]
    BY <1>3, MarkRows
  <2>2. r.pc = "delete"
    BY <1>3 DEF MarkDeleted
  <2>3. row.image = rows[r.id].image
    <3>1. rows[r.id] \in Row
      BY <1>0, <2>1, Seqs
    <3> QED BY <3>1 DEF Row
  <2> HIDE DEF row
  <2> QED BY <2>1, <2>2, <2>3, PicRow
<1>4. CASE SeedCreate(p)
  <2>1. PICK i \in r.missing :
           /\ i \in DOMAIN SeedRows
           /\ req' = [req EXCEPT ![p] = [r EXCEPT !.missing = @ \ {i}]]
           /\ UNCHANGED Disk /\ Stable(rows, rows')
           /\ \A j \in DOMAIN rows' :
                IF j <= Len(rows) THEN j \in DOMAIN rows /\ rows'[j] = rows[j]
                ELSE j - Len(rows) \in DOMAIN NestedRows(i)
                     /\ rows'[j] = NestedRows(i)[j - Len(rows)]
    BY <1>4, SeedRowsAdded
  <2> DEFINE s == [r EXCEPT !.missing = @ \ {i}]
  <2>2. s.image = r.image /\ s.id = r.id /\ s.pc = r.pc
    BY <1>0 DEF Request
  <2>3. \A j \in DOMAIN NestedRows(i) : NestedRows(i)[j].image = 0
    BY <2>1, Nested
  <2>4. \A j \in DOMAIN rows' \ DOMAIN rows : rows'[j].image = 0
    <3>1. \A j \in DOMAIN rows' \ DOMAIN rows : ~(j <= Len(rows))
      BY <2>1
    <3> QED BY <2>1, <2>3, <3>1
  <2>5. DOMAIN rows \subseteq DOMAIN rows' /\ \A j \in DOMAIN rows : rows'[j] = rows[j]
    <3>1. DOMAIN rows \subseteq DOMAIN rows'
      BY <2>1 DEF Stable
    <3>2. \A j \in DOMAIN rows : j <= Len(rows)
      BY <1>0
    <3> QED BY <2>1, <3>1, <3>2
  <2> HIDE DEF s
  <2>6. req'[p] = s /\ \A q \in Proc \ {p} : req'[q] = req[q]
    BY <2>1, PicTypes DEF s
  <2> QED BY <2>1, <2>2, <2>4, <2>5, <2>6, PicAdded
<1> QED
  BY <1>1, <1>2, <1>3, <1>4, WriteCases

\* A picture is of one item, and whole, for any number of requests and faults.
THEOREM PicturesOfOneItem == Spec => []PicturesOwned
<1>1. Init => PicInv
  BY InitRowsAssumption DEF Init, PicInv, Idle
<1>2. BaseInv /\ PicInv /\ [Next]_vars => PicInv'
  <2> SUFFICES ASSUME BaseInv, PicInv, [Next]_vars PROVE PicInv'
    OBVIOUS
  <2>1. CASE UNCHANGED vars
    BY <2>1 DEF vars, PicInv
  <2> QED BY <2>1, PicQuiet, PicWrite DEF Next, Seed
<1>3. PicInv => PicturesOwned
  BY DEF PicInv, PicturesOwned, Rows
<1> QED
  BY <1>1, <1>2, <1>3, Base, PTL DEF Spec
-----------------------------------------------------------------------------
(***************************************************************************)
(* Names.  Every row of a name has a process of its own: the one that wrote *)
(* it, or whose check has seen it since.  That process is not about to     *)
(* write the name again, unless it is to this same row.                    *)
(***************************************************************************)
Bear(rs, k, s, n) ==
  {i \in DOMAIN rs : /\ rs[i].kind = k /\ ~rs[i].deleted /\ rs[i].parent = s
                     /\ rs[i].name = n /\ ~rs[i].moved}

\* A request that has checked the name and will write it.
WillWrite(r, k, s, n) ==
  \/ /\ r.pc \in {"upload", "writeFile", "insert", "update"}
     /\ r.kind = k /\ r.scope = s /\ r.name = n
  \/ /\ Seeding(r) /\ k = "restaurant" /\ s = 0
     /\ \E i \in r.missing : SeedRows[i].name = n

Writers(rq, k, s, n) == {q \in Proc : WillWrite(rq[q], k, s, n)}

Owned(B, rq, W) ==
  \E f \in [B -> Proc] :
    /\ \A i, j \in B : f[i] = f[j] => i = j
    /\ \A i \in B : f[i] \in W => rq[f[i]].id = i

NamesInv ==
  \A k \in Kind, s \in Nat, n \in Name :
    Owned(Bear(rows, k, s, n), req, Writers(req, k, s, n))

\* Fewer rows, fewer writers.
LEMMA OwnedLess ==
  ASSUME NEW B, NEW C \in SUBSET B, NEW rq, NEW rq2, NEW W, NEW W2, Owned(B, rq, W),
         \A q \in W2 : q \in W /\ rq2[q].id = rq[q].id
  PROVE  Owned(C, rq2, W2)
<1>1. PICK f \in [B -> Proc] : /\ \A i, j \in B : f[i] = f[j] => i = j
                               /\ \A i \in B : f[i] \in W => rq[f[i]].id = i
  BY DEF Owned
<1> DEFINE g == [i \in C |-> f[i]]
<1>2. g \in [C -> Proc] /\ \A i \in C : g[i] = f[i]
  OBVIOUS
<1> HIDE DEF g
<1>3. \A i, j \in C : g[i] = g[j] => i = j
  BY <1>1, <1>2
<1>4. \A i \in C : g[i] \in W2 => rq2[g[i]].id = i
  BY <1>1, <1>2
<1> QED
  BY <1>2, <1>3, <1>4 DEF Owned

\* One row more, written by a process that will not write the name again.
Adds(B, C, x, rq, rq2, W, W2, p) ==
  /\ C \subseteq B \cup {x} /\ p \in Proc /\ p \in W /\ p \notin W2
  /\ rq[p].id \notin B \ {x}
  /\ \A q \in W2 : q \in W /\ rq2[q].id = rq[q].id
  /\ Owned(B, rq, W)

LEMMA OwnedMore ==
  ASSUME NEW B, NEW x, NEW C, NEW rq, NEW rq2, NEW W, NEW W2, NEW p,
         Adds(B, C, x, rq, rq2, W, W2, p)
  PROVE  Owned(C, rq2, W2)
<1>0. CASE x \in B
  <2>1. C \in SUBSET B
    BY <1>0 DEF Adds
  <2> QED BY <2>1, OwnedLess DEF Adds
<1>1. CASE x \notin B
  <2>1. PICK f \in [B -> Proc] : /\ \A i, j \in B : f[i] = f[j] => i = j
                                 /\ \A i \in B : f[i] \in W => rq[f[i]].id = i
    BY DEF Owned, Adds
  <2>2. \A i \in B : f[i] # p
    BY <1>1, <2>1 DEF Adds
  <2> DEFINE g == [i \in C |-> IF i = x THEN p ELSE f[i]]
  <2>3. g \in [C -> Proc] /\ \A i \in C : g[i] = IF i = x THEN p ELSE f[i]
    BY <2>1 DEF Adds
  <2> HIDE DEF g
  <2>4. \A i, j \in C : g[i] = g[j] => i = j
    BY <2>1, <2>2, <2>3 DEF Adds
  <2>5. \A i \in C : g[i] \in W2 => rq2[g[i]].id = i
    BY <2>1, <2>3 DEF Adds
  <2> QED BY <2>3, <2>4, <2>5 DEF Owned
<1> QED
  BY <1>0, <1>1

\* At most one row, the one that a given process works on.
LEMMA OwnedOne ==
  ASSUME NEW C, NEW rq, NEW W, NEW p \in Proc, \A i, j \in C : i = j,
         p \in W => \A i \in C : rq[p].id = i
  PROVE  Owned(C, rq, W)
<1> DEFINE g == [i \in C |-> p]
<1>1. g \in [C -> Proc] /\ \A i \in C : g[i] = p
  OBVIOUS
<1> HIDE DEF g
<1> QED
  BY <1>1 DEF Owned

\* A step after which no one else will write a name.
LEMMA NamesQuiet ==
  ASSUME BaseInv, NamesInv, NEW p \in Proc, NEW r,
         \A q \in Proc : req'[q] = IF q = p THEN r ELSE req[q], UNCHANGED rows,
         \A k \in Kind, s \in Nat, n \in Name :
           WillWrite(r, k, s, n) => WillWrite(req[p], k, s, n) /\ r.id = req[p].id
  PROVE  NamesInv'
<1>1. ASSUME NEW k \in Kind, NEW s \in Nat, NEW n \in Name
      PROVE  Owned(Bear(rows', k, s, n), req', Writers(req', k, s, n))
  <2> DEFINE B == Bear(rows, k, s, n)
             C == Bear(rows', k, s, n)
             W == Writers(req, k, s, n)
             W2 == Writers(req', k, s, n)
  <2>1. \A q \in W2 : q \in W /\ req'[q].id = req[q].id
    BY DEF Writers
  <2>2. Owned(B, req, W)
    BY DEF NamesInv
  <2>3. C \in SUBSET B
    BY DEF Bear
  <2> HIDE DEF B, C, W, W2
  <2>4. Owned(C, req', W2)
    BY <2>1, <2>2, <2>3, OwnedLess
  <2> QED BY <2>4 DEF C, W2
<1> QED
  BY <1>1 DEF NamesInv

\* Nothing that has not checked a name will write one.
LEMMA UncheckedQuiet ==
  ASSUME NEW r, Unchecked(r), NEW k, NEW s, NEW n \in Name
  PROVE  ~WillWrite(r, k, s, n)
  BY CatalogAssumption DEF Unchecked, WillWrite

LEMMA IdleQuiet ==
  ASSUME BaseInv, NamesInv, NEW p \in Proc, Finish(p), UNCHANGED rows
  PROVE  NamesInv'
<1>1. Unchecked(Idle)
  BY DEF Unchecked, Idle
<1>2. \A q \in Proc : req'[q] = IF q = p THEN Idle ELSE req[q]
  BY PicTypes DEF Finish
<1> QED
  BY <1>1, <1>2, UncheckedQuiet, NamesQuiet

\* A check that finds no other row of the name lets a request write it.
LEMMA NamesChecked ==
  ASSUME BaseInv, NamesInv, NEW p \in Proc, NEW k0 \in Kind, NEW named,
         CheckName(p, k0, named),
         \A i \in DOMAIN rows : rows[i].kind = k0 /\ ~rows[i].deleted
           /\ rows[i].name = req[p].name /\ rows[i].parent = req[p].scope
           /\ i # req[p].id => i \in named
  PROVE  NamesInv'
<1> DEFINE r == req[p]
           label == AfterCheck(r)
           t == [r EXCEPT !.pc = label]
<1>1. r \in Request /\ r.pc = "checkName" /\ r.kind = k0 /\ UNCHANGED rows
  BY PicTypes DEF CheckName
<1>2. CASE Finish(p)
  BY <1>1, <1>2, IdleQuiet
<1>3. CASE named = {} /\ Goto(p, label)
  <2>1. req' = [req EXCEPT ![p] = t]
    BY <1>3 DEF Goto
  <2>2. /\ t.pc = label /\ t.kind = k0 /\ t.scope = r.scope /\ t.name = r.name
        /\ t.id = r.id /\ label \in {"upload", "insert", "update"}
    BY <1>1 DEF Request, AfterCheck
  <2> HIDE DEF t, label
  <2>3. \A q \in Proc : req'[q] = IF q = p THEN t ELSE req[q]
    BY <2>1, PicTypes
  <2> SUFFICES ASSUME NEW k \in Kind, NEW s \in Nat, NEW n \in Name
               PROVE  Owned(Bear(rows', k, s, n), req', Writers(req', k, s, n))
    BY DEF NamesInv
  <2>4. CASE k = k0 /\ s = r.scope /\ n = r.name
    <3>1. \A i \in Bear(rows', k, s, n) : i = req'[p].id
      BY <1>1, <1>3, <2>2, <2>3, <2>4 DEF Bear
    <3> QED BY <3>1, OwnedOne
  <2>5. CASE ~(k = k0 /\ s = r.scope /\ n = r.name)
    <3>1. \A q \in Writers(req', k, s, n) :
            q \in Writers(req, k, s, n) /\ req'[q].id = req[q].id
      BY <2>2, <2>3, <2>5 DEF Writers, WillWrite, Seeding
    <3>2. Bear(rows', k, s, n) \in SUBSET Bear(rows, k, s, n)
      BY <1>1 DEF Bear
    <3>3. Owned(Bear(rows, k, s, n), req, Writers(req, k, s, n))
      BY DEF NamesInv
    <3> QED BY <3>1, <3>2, <3>3, OwnedLess
  <2> QED BY <2>4, <2>5
<1> QED
  BY <1>2, <1>3 DEF CheckName

\* The seed will make the restaurants of which it has found no row.
LEMMA NamesMissed ==
  ASSUME BaseInv, NamesInv, NEW p \in Proc, SeedFind(p)
  PROVE  NamesInv'
<1> DEFINE r == req[p]
           i == r.place
           known == \E j \in Rows("restaurant") : rows[j].name = SeedRows[i].name
           missing == IF known THEN r.missing ELSE r.missing \cup {i}
           label == IF i = Len(SeedRows) THEN "seedCreate" ELSE "seedFind"
           t == [r EXCEPT !.missing = missing, !.place = i + 1, !.pc = label]
<1>1. /\ r.pc = "seedFind" /\ req' = [req EXCEPT ![p] = t] /\ UNCHANGED rows
      /\ r \in Request /\ ReqOK(r, rows)
  BY PicTypes DEF SeedFind
<1>2. label \in {"seedFind", "seedCreate"}
  OBVIOUS
<1>3. known => missing = r.missing
  OBVIOUS
<1>4. ~known => missing = r.missing \cup {i} /\ \A s \in Nat :
                  Bear(rows, "restaurant", s, SeedRows[i].name) = {}
  BY DEF Bear, Rows
<1> HIDE DEF known, missing, label
<1>5. t.pc = label /\ t.missing = missing /\ t.id = r.id
  BY <1>1 DEF Request
<1> HIDE DEF t
<1>6. \A q \in Proc : req'[q] = IF q = p THEN t ELSE req[q]
  BY <1>1, PicTypes
<1> SUFFICES ASSUME NEW k \in Kind, NEW s \in Nat, NEW n \in Name
             PROVE  Owned(Bear(rows', k, s, n), req', Writers(req', k, s, n))
  BY DEF NamesInv
<1>7. Bear(rows', k, s, n) \in SUBSET Bear(rows, k, s, n)
  BY <1>1 DEF Bear
<1>8. CASE ~known /\ k = "restaurant" /\ n = SeedRows[i].name
  <2>1. Bear(rows', k, s, n) = {}
    BY <1>4, <1>7, <1>8
  <2> QED BY <2>1, OwnedOne
<1>9. CASE known \/ k # "restaurant" \/ n # SeedRows[i].name
  <2>1. WillWrite(t, k, s, n) => WillWrite(r, k, s, n)
    BY <1>1, <1>2, <1>3, <1>4, <1>5, <1>9 DEF WillWrite, Seeding
  <2>2. \A q \in Writers(req', k, s, n) :
          q \in Writers(req, k, s, n) /\ req'[q].id = req[q].id
    BY <1>5, <1>6, <2>1 DEF Writers
  <2>3. Owned(Bear(rows, k, s, n), req, Writers(req, k, s, n))
    BY DEF NamesInv
  <2> QED BY <1>7, <2>2, <2>3, OwnedLess
<1> QED
  BY <1>8, <1>9

\* The other steps that write no row.
LEMMA NamesOther ==
  ASSUME BaseInv, NamesInv, NEW p \in Proc,
         Start(p) \/ Look(p) \/ Save(p) \/ Read(p) \/ StartServer(p)
         \/ SeedFind(p) \/ SeedDone(p) \/ Fail(p)
  PROVE  NamesInv'
<1> DEFINE r == req[p]
<1>0. r \in Request /\ UNCHANGED rows /\ req \in [Proc -> Request]
  BY PicTypes, Untouched
<1>1. ASSUME NEW t, req' = [req EXCEPT ![p] = t], Unchecked(t)
      PROVE  NamesInv'
  <2>1. \A q \in Proc : req'[q] = IF q = p THEN t ELSE req[q]
    BY <1>0, <1>1
  <2> QED BY <1>0, <1>1, <2>1, UncheckedQuiet, NamesQuiet
<1>2. ASSUME NEW t, req' = [req EXCEPT ![p] = t], ~Seeding(r), ~Seeding(t),
             t.pc \in {"upload", "writeFile", "insert", "update"} =>
               /\ r.pc \in {"upload", "writeFile", "insert", "update"}
               /\ t.name = r.name /\ t.kind = r.kind /\ t.scope = r.scope
               /\ t.id = r.id
      PROVE  NamesInv'
  <2>1. \A q \in Proc : req'[q] = IF q = p THEN t ELSE req[q]
    BY <1>0, <1>2
  <2>2. \A k \in Kind, s \in Nat, n \in Name :
          WillWrite(t, k, s, n) => WillWrite(r, k, s, n) /\ t.id = r.id
    BY <1>2 DEF WillWrite
  <2> QED BY <1>0, <2>1, <2>2, NamesQuiet
<1>3. CASE Finish(p)
  BY <1>0, <1>3, IdleQuiet
<1>4. CASE Start(p) \/ StartServer(p)
  BY <1>0, <1>1, <1>4, BeginPic
<1>5. CASE FindRestaurant(p) \/ FindCategory(p)
  <2> DEFINE t == [r EXCEPT !.pc = "checkName"]
  <2>1. req' = [req EXCEPT ![p] = t] /\ t.pc = "checkName" /\ ~Seeding(r)
    BY <1>0, <1>5 DEF FindRestaurant, FindCategory, Goto, Request, Seeding
  <2> HIDE DEF t
  <2> QED BY <1>2, <2>1 DEF Seeding
<1>6. CASE FindRow(p)
  <2> DEFINE row == rows[r.id]
             label == IF r.name # None THEN "checkName" ELSE AfterCheck(r)
             t == [r EXCEPT !.scope = row.parent, !.image = row.image, !.pc = label]
  <2>1. req' = [req EXCEPT ![p] = t] /\ r.pc = "findRow"
    BY <1>6 DEF FindRow
  <2>2. t.pc = label /\ t.name = r.name /\ t.missing = r.missing
    BY <1>0 DEF Request
  <2>3. /\ label \in {"checkName", "upload", "insert", "update"}
        /\ r.name # None => label = "checkName"
    BY DEF AfterCheck
  <2> HIDE DEF t, label
  <2>4. \A q \in Proc : req'[q] = IF q = p THEN t ELSE req[q]
    BY <1>0, <2>1
  <2>5. \A k \in Kind, s \in Nat, n \in Name : ~WillWrite(t, k, s, n)
    BY <2>2, <2>3, CatalogAssumption DEF WillWrite, Seeding
  <2> QED BY <1>0, <2>4, <2>5, NamesQuiet
<1>7. CASE CheckRestaurant(p)
  <2>1. CheckName(p, "restaurant", RestaurantNamed(r.name, r.id))
    BY <1>7 DEF CheckRestaurant
  <2> QED BY <2>1, NamesChecked DEF RestaurantNamed, Live, Rows, Kind
<1>8. CASE CheckCategory(p)
  <2>1. CheckName(p, "category", CategoryNamed(r.name, r.scope, r.id))
    BY <1>8 DEF CheckCategory
  <2> QED BY <2>1, NamesChecked DEF CategoryNamed, Live, Rows, Kind
<1>9. CASE CheckItem(p)
  <2>1. CheckName(p, "item", ItemNamed(r.name, r.scope, r.id))
    BY <1>9 DEF CheckItem
  <2> QED BY <2>1, NamesChecked DEF ItemNamed, Live, Rows, Kind
<1>10. CASE Upload(p)
  <2> DEFINE t == [r EXCEPT !.image = files + 1, !.pc = "writeFile"]
  <2>1. req' = [req EXCEPT ![p] = t] /\ r.pc = "upload"
    BY <1>10 DEF Upload
  <2>2. /\ t.pc = "writeFile" /\ t.name = r.name /\ t.kind = r.kind
        /\ t.scope = r.scope /\ t.id = r.id
    BY <1>0 DEF Request
  <2> HIDE DEF t
  <2> QED BY <1>2, <2>1, <2>2 DEF Seeding
<1>11. CASE WriteFile(p)
  <2> DEFINE label == IF r.id = 0 THEN "insert" ELSE "update"
             t == [r EXCEPT !.pc = label]
  <2>1. req' = [req EXCEPT ![p] = t] /\ r.pc = "writeFile"
    BY <1>11 DEF WriteFile, Goto
  <2>2. label \in {"insert", "update"}
    OBVIOUS
  <2> HIDE DEF label
  <2>3. /\ t.pc = label /\ t.name = r.name /\ t.kind = r.kind
        /\ t.scope = r.scope /\ t.id = r.id
    BY <1>0 DEF Request
  <2> HIDE DEF t
  <2> QED BY <1>2, <2>1, <2>2, <2>3 DEF Seeding
<1>12. CASE ReadData(p) \/ ReadTotal(p)
  <2>1. PICK d, what : /\ r.pc = "list" /\ req' = [req EXCEPT ![p] = HasRead(d, what)]
                       /\ \/ \E page \in PagesOf(r) : d = [r EXCEPT !.data = page]
                          \/ d = [r EXCEPT !.total = Count(r)]
    BY <1>12 DEF ReadData, ReadTotal
  <2> DEFINE t == HasRead(d, what)
  <2>2. t.pc \in {"list", "answer"}
    BY <1>0, <2>1 DEF HasRead, Request
  <2> HIDE DEF t
  <2> QED BY <1>2, <2>1, <2>2 DEF Seeding, t
<1>13. CASE ReadDetail(p)
  <2> DEFINE found == {i \in Rows("restaurant") :
                         i = r.id /\ Asked(r.country, {rows[i].country})}
             t == [r EXCEPT !.data = found, !.total = Cardinality(found),
                            !.read = {"data", "total"}, !.seen = writes,
                            !.pc = "answer"]
  <2>1. r.pc = "detail" /\ req' = [req EXCEPT ![p] = t]
    BY <1>13 DEF ReadDetail
  <2>2. t.pc = "answer"
    BY <1>0 DEF Request
  <2> HIDE DEF t
  <2> QED BY <1>2, <2>1, <2>2 DEF Seeding
<1>14. CASE SeedFind(p)
  BY <1>14, NamesMissed
<1> QED
  BY <1>3, <1>4, <1>5, <1>6, <1>7, <1>8, <1>9, <1>10, <1>11, <1>12, <1>13, <1>14
  DEF Look, Save, Read, Refuse, Answer, SeedDone, Fail

\* A write by a request that has checked the name, or one that adds no name.
LEMMA NamesWrite ==
  ASSUME BaseInv, NamesInv, NEW p \in Proc, Write(p)
  PROVE  NamesInv'
<1> DEFINE r == req[p]
<1>0. /\ rows \in Seq(Row) /\ Len(rows) \in Nat /\ DOMAIN rows = 1..Len(rows)
      /\ \A i \in DOMAIN rows : rows[i] \in Row
  BY PicTypes, Seqs
<1>1. Unchecked(Idle)
  BY DEF Unchecked, Idle
\* x is the row written: it bears the name because the request will write it.
<1>2. ASSUME NEW x, \A q \in Proc : req'[q] = IF q = p THEN Idle ELSE req[q],
             r.id \in {0, x},
             \A k \in Kind, s \in Nat, n \in Name :
               /\ Bear(rows', k, s, n) \subseteq Bear(rows, k, s, n) \cup {x}
               /\ ~(Bear(rows', k, s, n) \subseteq Bear(rows, k, s, n)) =>
                    WillWrite(r, k, s, n)
      PROVE  NamesInv'
  <2> SUFFICES ASSUME NEW k \in Kind, NEW s \in Nat, NEW n \in Name
               PROVE  Owned(Bear(rows', k, s, n), req', Writers(req', k, s, n))
    BY DEF NamesInv
  <2> DEFINE B == Bear(rows, k, s, n)
             C == Bear(rows', k, s, n)
             W == Writers(req, k, s, n)
             W2 == Writers(req', k, s, n)
  <2>1. /\ p \notin W2 /\ \A q \in W2 : q \in W /\ req'[q].id = req[q].id
        /\ WillWrite(r, k, s, n) => p \in W
    BY <1>1, <1>2, UncheckedQuiet DEF Writers
  <2>2. Owned(B, req, W)
    BY DEF NamesInv
  <2>3. C \in SUBSET (B \cup {x}) /\ (C \in SUBSET B \/ WillWrite(r, k, s, n))
    BY <1>2
  <2>4. r.id \notin B \ {x}
    BY <1>0, <1>2 DEF Bear
  <2> HIDE DEF B, C, W, W2
  <2>5. ASSUME C \in SUBSET B
        PROVE  Owned(C, req', W2)
    BY <2>1, <2>2, <2>5, OwnedLess
  <2>6. ASSUME WillWrite(r, k, s, n)
        PROVE  Owned(C, req', W2)
    <3>1. Adds(B, C, x, req, req', W, W2, p)
      BY <2>1, <2>2, <2>3, <2>4, <2>6 DEF Adds
    <3> QED BY <3>1, OwnedMore
  <2>7. Owned(C, req', W2)
    BY <2>3, <2>5, <2>6
  <2> QED BY <2>7 DEF C, W2
<1>3. ASSUME NEW k0 \in Kind, NEW row, k0 = row.kind, Insert(p, k0, row),
             row \in {RestaurantRow(r), CategoryRow(r), ItemRow(r)}
      PROVE  NamesInv'
  <2>1. /\ r.pc = "insert" /\ r.id = 0 /\ row \in Row
        /\ row.parent = r.scope /\ row.name = r.name
    <3>1. /\ r.pc = "insert" /\ r.id = 0 /\ row \in Row
      BY <1>3, InsertRows
    <3>2. row.parent = r.scope /\ row.name = r.name
      <4>1. r.kind = k0 /\ ReqOK(r, rows)
        BY <1>3, PicTypes DEF Insert
      <4> QED BY <1>3, <3>1, <4>1 DEF ReqOK, RestaurantRow, CategoryRow, ItemRow, NewRow
    <3> QED BY <3>1, <3>2
  <2>2. /\ rows' = Append(rows, row) /\ r.kind = row.kind
        /\ req' = [req EXCEPT ![p] = Idle]
    BY <1>3 DEF Insert, Finish
  <2> DEFINE x == Len(rows) + 1
  <2>3. /\ DOMAIN rows' = 1..x /\ rows'[x] = row
        /\ \A i \in DOMAIN rows : rows'[i] = rows[i]
    BY <1>0, <2>1, <2>2
  <2>4. \A i \in DOMAIN rows' : i = x \/ i \in DOMAIN rows
    BY <1>0, <2>3
  <2> HIDE DEF x
  <2>5. \A k \in Kind, s \in Nat, n \in Name :
               /\ Bear(rows', k, s, n) \subseteq Bear(rows, k, s, n) \cup {x}
               /\ ~(Bear(rows', k, s, n) \subseteq Bear(rows, k, s, n)) =>
                    WillWrite(r, k, s, n)
    BY <2>1, <2>2, <2>3, <2>4 DEF Bear, WillWrite
  <2>6. \A q \in Proc : req'[q] = IF q = p THEN Idle ELSE req[q]
    BY <2>2, PicTypes
  <2> QED BY <1>2, <2>1, <2>5, <2>6
<1>4. ASSUME NEW x \in DOMAIN rows, NEW row, req' = [req EXCEPT ![p] = Idle], x = r.id,
             UNCHANGED rows \/ rows' = [rows EXCEPT ![x] = row],
             row.kind = rows[x].kind, row.deleted \/ row.deleted = rows[x].deleted,
             \/ row.name = rows[x].name
             \/ /\ row.name = r.name /\ r.pc = "update"
                /\ ~row.moved => row.parent = r.scope /\ r.kind = row.kind,
             ~row.moved => ~rows[x].moved /\ row.parent = rows[x].parent
      PROVE  NamesInv'
  <2>1. \A q \in Proc : req'[q] = IF q = p THEN Idle ELSE req[q]
    BY <1>4, PicTypes
  <2>2. /\ DOMAIN rows' = DOMAIN rows /\ rows'[x] \in {rows[x], row}
        /\ \A i \in DOMAIN rows : i # x => rows'[i] = rows[i]
    BY <1>4
  <2>3. \A k \in Kind, s \in Nat, n \in Name :
          x \in Bear(rows', k, s, n) => x \in Bear(rows, k, s, n) \/ WillWrite(r, k, s, n)
    BY <1>0, <1>4, <2>2 DEF Bear, WillWrite, Row
  <2>4. \A k \in Kind, s \in Nat, n \in Name :
               /\ Bear(rows', k, s, n) \subseteq Bear(rows, k, s, n) \cup {x}
               /\ ~(Bear(rows', k, s, n) \subseteq Bear(rows, k, s, n)) =>
                    WillWrite(r, k, s, n)
    <3>1. \A k \in Kind, s \in Nat, n \in Name :
            Bear(rows', k, s, n) \ {x} \subseteq Bear(rows, k, s, n)
      BY <2>2 DEF Bear
    <3> QED BY <2>3, <3>1
  <2>5. r.id \in {0, x}
    BY <1>4
  <2> QED BY <1>2, <2>1, <2>4, <2>5
<1>5. ASSUME NEW k0 \in Kind, NEW row, Update(p, k0, row),
             \/ k0 = "restaurant" /\ row = RestaurantChanged(rows[r.id], r)
             \/ k0 = "category" /\ row = CategoryChanged(rows[r.id], r)
             \/ k0 = "item" /\ row = ItemChanged(rows[r.id], r)
      PROVE  NamesInv'
  <2>1. /\ r.pc = "update" /\ r.id \in DOMAIN rows
        /\ req' = [req EXCEPT ![p] = Idle]
        /\ UNCHANGED rows \/ rows' = [rows EXCEPT ![r.id] = row]
        /\ row.kind = rows[r.id].kind /\ row.deleted = rows[r.id].deleted
        /\ row.name = rows[r.id].name \/ row.name = r.name
        /\ ~row.moved => /\ ~rows[r.id].moved /\ row.parent = rows[r.id].parent
                         /\ row.parent = r.scope /\ r.kind = row.kind
    BY <1>5, UpdateRows
  <2> QED BY <1>4, <2>1
<1>6. ASSUME NEW k0 \in Kind, MarkDeleted(p, k0)
      PROVE  NamesInv'
  <2> DEFINE row == [rows[r.id] EXCEPT !.deleted = TRUE]
  <2>1. /\ r.id \in DOMAIN rows /\ req' = [req EXCEPT ![p] = Idle]
        /\ rows' = [rows EXCEPT ![r.id] = row]
    BY <1>6, MarkRows
  <2>2. /\ row.kind = rows[r.id].kind /\ row.deleted /\ row.name = rows[r.id].name
        /\ row.moved = rows[r.id].moved /\ row.parent = rows[r.id].parent
    BY <1>0, <2>1 DEF Row
  <2> HIDE DEF row
  <2> QED BY <1>4, <2>1, <2>2
<1> QED
  BY <1>3, <1>5, <1>6, WriteCases

\* The seed adds a restaurant it has missed, and rows below a new restaurant.
LEMMA NamesSeeded ==
  ASSUME BaseInv, NamesInv, NEW p \in Proc, SeedCreate(p)
  PROVE  NamesInv'
<1> DEFINE r == req[p]
           x == Len(rows) + 1
<1>0. /\ r \in Request /\ ReqOK(r, rows) /\ Len(rows) \in Nat /\ x \in Nat
      /\ DOMAIN rows = 1..Len(rows) /\ \A i \in DOMAIN rows : rows[i] \in Row
  BY PicTypes, Seqs
<1>1. PICK m \in r.missing :
         /\ m \in DOMAIN SeedRows /\ r.pc = "seedCreate" /\ r.id = 0
         /\ req' = [req EXCEPT ![p] = [r EXCEPT !.missing = @ \ {m}]]
         /\ Stable(rows, rows')
         /\ rows' \in Seq(Row)
         /\ \A j \in DOMAIN rows' :
              IF j <= Len(rows) THEN j \in DOMAIN rows /\ rows'[j] = rows[j]
              ELSE j - Len(rows) \in DOMAIN NestedRows(m)
                   /\ rows'[j] = NestedRows(m)[j - Len(rows)]
  BY SeedRowsAdded
<1> DEFINE t == [r EXCEPT !.missing = @ \ {m}]
<1>2. t.id = 0 /\ t.pc = "seedCreate" /\ t.missing = r.missing \ {m}
  BY <1>0, <1>1 DEF Request
<1> HIDE DEF t
<1>3. \A q \in Proc : req'[q] = IF q = p THEN t ELSE req[q]
  BY <1>1, PicTypes DEF t
<1> DEFINE new == NestedRows(m)
<1>4. /\ Len(SeedMenu) \in Nat /\ DOMAIN SeedMenu = 1..Len(SeedMenu)
      /\ \A i \in DOMAIN SeedMenu : SeedMenu[i].parent \in Nat
      /\ \A i, j \in DOMAIN SeedMenu : SeedMenu[i] = SeedMenu[j] => i = j
      /\ \A i \in DOMAIN SeedMenu :
           SeedMenu[i] \in [kind : {"category", "item"}, name : Name, parent : Nat]
      /\ \A i, j \in DOMAIN SeedRows : SeedRows[i].name = SeedRows[j].name => i = j
  <2>1. SeedMenu \in Seq([kind : {"category", "item"}, name : Name, parent : Nat])
    BY CatalogAssumption
  <2>2. \A i \in DOMAIN SeedMenu :
          SeedMenu[i] \in [kind : {"category", "item"}, name : Name, parent : Nat]
    BY <2>1, Seqs
  <2>3. Len(SeedMenu) \in Nat /\ DOMAIN SeedMenu = 1..Len(SeedMenu)
    BY <2>1, Seqs
  <2> QED BY <2>2, <2>3, CatalogAssumption
<1>5. /\ DOMAIN new = 1..(1 + Len(SeedMenu))
      /\ new[1] = NewRow("restaurant", SeedRows[m].name, 0, SeedRows[m].country, 0)
      /\ \A j \in DOMAIN new \ {1} :
           /\ j - 1 \in DOMAIN SeedMenu /\ new[j].kind = SeedMenu[j - 1].kind
           /\ new[j].name = SeedMenu[j - 1].name /\ new[j].kind # "restaurant"
           /\ new[j].parent = x + SeedMenu[j - 1].parent
  BY <1>1, Nested
<1> HIDE DEF new
<1>6. \A j \in DOMAIN rows' :
        \/ j \in DOMAIN rows /\ rows'[j] = rows[j]
        \/ j = x /\ rows'[j] = new[1]
        \/ /\ j - x \in DOMAIN SeedMenu /\ rows'[j].kind = SeedMenu[j - x].kind
           /\ rows'[j].name = SeedMenu[j - x].name /\ rows'[j].kind # "restaurant"
           /\ rows'[j].parent = x + SeedMenu[j - x].parent
  <2> SUFFICES ASSUME NEW j \in DOMAIN rows', ~(j <= Len(rows)), j # x
               PROVE  /\ j - x \in DOMAIN SeedMenu /\ rows'[j].kind = SeedMenu[j - x].kind
                      /\ rows'[j].name = SeedMenu[j - x].name
                      /\ rows'[j].kind # "restaurant"
                      /\ rows'[j].parent = x + SeedMenu[j - x].parent
    <3>1. \A j \in DOMAIN rows' : j = x => ~(j <= Len(rows)) /\ j - Len(rows) = 1
      BY <1>0
    <3> QED BY <1>1, <3>1 DEF new
  <2>1. j \in Nat
    BY <1>1, Seqs
  <2>2. j - Len(rows) \in DOMAIN new /\ rows'[j] = new[j - Len(rows)]
    BY <1>1 DEF new
  <2>3. j - Len(rows) # 1 /\ (j - Len(rows)) - 1 = j - x
    BY <1>0, <2>1
  <2> QED BY <1>5, <2>2, <2>3
<1> SUFFICES ASSUME NEW k \in Kind, NEW s \in Nat, NEW n \in Name
             PROVE  Owned(Bear(rows', k, s, n), req', Writers(req', k, s, n))
  BY DEF NamesInv
<1> DEFINE B == Bear(rows, k, s, n)
           C == Bear(rows', k, s, n)
           W == Writers(req, k, s, n)
           W2 == Writers(req', k, s, n)
<1>7. Owned(B, req, W)
  BY DEF NamesInv
<1>8. \A q \in W2 : q \in W /\ req'[q].id = req[q].id
  BY <1>1, <1>2, <1>3 DEF Writers, WillWrite, Seeding
<1>9. \A j \in C : j \in DOMAIN rows => j \in B
  BY <1>1, <1>0 DEF Bear
<1>10. CASE k = "restaurant"
  <2>1. CASE s = 0 /\ n = SeedRows[m].name
    <3>1. C \in SUBSET (B \cup {x})
      BY <1>6, <1>9, <1>10 DEF Bear
    <3>2. p \in W
      BY <1>1, <1>10, <2>1 DEF Writers, WillWrite, Seeding
    <3>3. p \notin W2
      <4>1. r.missing \subseteq DOMAIN SeedRows
        BY <1>0, <1>1 DEF ReqOK, Seeding
      <4> QED BY <1>1, <1>2, <1>3, <1>4, <2>1, <4>1 DEF Writers, WillWrite
    <3>4. r.id \notin B \ {x}
      BY <1>0, <1>1 DEF Bear
    <3> HIDE DEF B, C, W, W2, x
    <3>5. Owned(C, req', W2)
      <4>1. Adds(B, C, x, req, req', W, W2, p)
        BY <1>7, <1>8, <3>1, <3>2, <3>3, <3>4 DEF Adds
      <4> QED BY <4>1, OwnedMore
    <3> QED BY <3>5 DEF C, W2
  <2>2. CASE ~(s = 0 /\ n = SeedRows[m].name)
    <3>1. new[1].name = SeedRows[m].name /\ new[1].parent = 0
      BY <1>5 DEF NewRow
    <3>2. C \in SUBSET B
      BY <1>6, <1>9, <1>10, <2>2, <3>1 DEF Bear
    <3> HIDE DEF B, C, W, W2
    <3>3. Owned(C, req', W2)
      BY <1>7, <1>8, <3>2, OwnedLess
    <3> QED BY <3>3 DEF C, W2
  <2> QED BY <2>1, <2>2
<1>11. CASE k # "restaurant"
  <2>0. new[1].kind = "restaurant"
    BY <1>5 DEF NewRow
  <2>1. CASE s <= Len(rows)
    <3>1. \A j \in C : j \in DOMAIN rows
      BY <1>0, <1>4, <1>6, <1>11, <2>0, <2>1 DEF Bear
    <3>2. C \in SUBSET B
      BY <1>9, <3>1
    <3> HIDE DEF B, C, W, W2
    <3>3. Owned(C, req', W2)
      BY <1>7, <1>8, <3>2, OwnedLess
    <3> QED BY <3>3 DEF C, W2
  <2>2. CASE ~(s <= Len(rows))
    <3>0. \A i \in DOMAIN rows : rows[i].parent <= Len(rows)
      BY DEF BaseInv, RowsOK
    <3>1. B = {}
      BY <2>2, <3>0 DEF Bear
    <3>2. \A j \in C : /\ j - x \in DOMAIN SeedMenu /\ k = SeedMenu[j - x].kind
                       /\ n = SeedMenu[j - x].name /\ s = x + SeedMenu[j - x].parent
                       /\ j \in Nat
      <4> SUFFICES ASSUME NEW j \in C
                   PROVE  /\ j - x \in DOMAIN SeedMenu /\ k = SeedMenu[j - x].kind
                          /\ n = SeedMenu[j - x].name /\ s = x + SeedMenu[j - x].parent
                          /\ j \in Nat
        OBVIOUS
      <4>1. j \in DOMAIN rows' /\ j \notin DOMAIN rows
        BY <1>9, <3>1 DEF Bear
      <4>2. rows'[j].kind = k /\ rows'[j].name = n /\ rows'[j].parent = s
        BY DEF Bear
      <4>3. j \in Nat
        BY <1>1, <4>1, Seqs
      <4> QED BY <1>6, <1>11, <2>0, <4>1, <4>2, <4>3
    <3>3. \A i, j \in DOMAIN SeedMenu :
            /\ SeedMenu[i].kind = SeedMenu[j].kind /\ SeedMenu[i].name = SeedMenu[j].name
            /\ SeedMenu[i].parent = SeedMenu[j].parent
            => SeedMenu[i] = SeedMenu[j]
      BY <1>4
    <3>4. \A i, j \in C : i = j
      <4> SUFFICES ASSUME NEW i \in C, NEW j \in C PROVE i = j
        OBVIOUS
      <4>1. SeedMenu[i - x].parent = SeedMenu[j - x].parent
        BY <1>0, <1>4, <3>2
      <4>2. i - x = j - x
        BY <1>4, <3>2, <3>3, <4>1
      <4> QED BY <1>0, <3>2, <4>2
    <3>5. p \notin W2
      BY <1>2, <1>3, <1>11 DEF Writers, WillWrite
    <3> HIDE DEF C, W2
    <3>6. Owned(C, req', W2)
      BY <3>4, <3>5, OwnedOne
    <3> QED BY <3>6 DEF C, W2
  <2> QED BY <1>0, <2>1, <2>2
<1> QED
  BY <1>10, <1>11

LEMMA NamesInit == Init => NamesInv
<1> SUFFICES ASSUME Init, NEW k \in Kind, NEW s \in Nat, NEW n \in Name
             PROVE  Owned(Bear(rows, k, s, n), req, Writers(req, k, s, n))
  BY DEF NamesInv
<1>1. PICK f \in [DOMAIN rows -> Proc] : \A i, j \in DOMAIN rows :
         /\ f[i] = f[j] /\ ~rows[i].deleted /\ ~rows[j].deleted
         /\ <<rows[i].kind, rows[i].parent, rows[i].name>>
            = <<rows[j].kind, rows[j].parent, rows[j].name>>
         => i = j
  BY InitRowsAssumption DEF Init
<1>2. Writers(req, k, s, n) = {}
  <2>1. Unchecked(Idle)
    BY DEF Unchecked, Idle
  <2> QED BY <2>1, UncheckedQuiet DEF Init, Writers
<1> DEFINE B == Bear(rows, k, s, n)
           g == [i \in B |-> f[i]]
<1>3. B \subseteq DOMAIN rows
  BY DEF Bear
<1>4. \A i, j \in B : f[i] = f[j] => i = j
  BY <1>1 DEF Bear
<1> HIDE DEF B
<1>5. g \in [B -> Proc] /\ \A i \in B : g[i] = f[i]
  BY <1>1, <1>3
<1> HIDE DEF g
<1>6. Owned(B, req, {})
  BY <1>4, <1>5 DEF Owned
<1> QED
  BY <1>2, <1>6 DEF B

\* For any number of processes, no more rows of one parent bear a name than
\* requests may run at the same time.
THEOREM NamesOfProcesses == Spec => []NamesBounded
<1>1. BaseInv /\ NamesInv /\ [Next]_vars => NamesInv'
  <2> SUFFICES ASSUME BaseInv, NamesInv, [Next]_vars PROVE NamesInv'
    OBVIOUS
  <2>1. CASE UNCHANGED vars
    BY <2>1 DEF vars, NamesInv, Bear, Writers
  <2> QED BY <2>1, NamesOther, NamesWrite, NamesSeeded DEF Next, Seed
<1>2. BaseInv /\ NamesInv => NamesBounded
  <2> SUFFICES ASSUME BaseInv, NamesInv, NEW i \in DOMAIN rows
               PROVE  Cardinality(Bearing(rows[i].kind, rows[i].parent, rows[i].name))
                        <= Cardinality(Proc)
    BY DEF NamesBounded
  <2>1. rows[i].kind \in Kind /\ rows[i].parent \in Nat /\ rows[i].name \in Name
    <3>1. rows[i] \in Row
      BY PicTypes, Seqs
    <3> QED BY <3>1 DEF Row
  <2> DEFINE B == Bearing(rows[i].kind, rows[i].parent, rows[i].name)
  <2>2. B = Bear(rows, rows[i].kind, rows[i].parent, rows[i].name)
    BY DEF Bearing, Bear, Live, Rows
  <2>3. PICK f \in [B -> Proc] : \A a, b \in B : f[a] = f[b] => a = b
    BY <2>1, <2>2 DEF NamesInv, Owned
  <2> HIDE DEF B
  <2>4. f \in Injection(B, Proc)
    BY <2>3 DEF Injection, IsInjective
  <2>5. Cardinality(B) <= Cardinality(Proc)
    BY <2>4, CatalogAssumption, FS_Injection
  <2> QED BY <2>5 DEF B
<1> QED
  BY <1>1, <1>2, NamesInit, Base, PTL DEF Spec
-----------------------------------------------------------------------------
(***************************************************************************)
(* Lists.  What one statement has read is compared with what the other     *)
(* would read now: each write since then makes a difference of one row, and *)
(* is counted while a list is being read.                                  *)
(***************************************************************************)
\* The rows that a list asks for.
Matches(r, row) ==
  /\ row.kind = r.kind
  /\ ~row.deleted
  /\ r.kind = "restaurant" => /\ Asked(r.country, {row.country})
                              /\ Asked(r.search, {row.name, row.country})
  /\ r.kind # "restaurant" => /\ Asked(r.parent, {row.parent})
                              /\ Asked(r.search, {row.name})

ListedIn(r, rs) == {i \in DOMAIN rs : Matches(r, rs[i])}

\* What a request has read, when the table is rs and w rows have been written.
ListOK(r, rs, w) ==
  /\ r.pc \notin {"list", "answer"} => r.read = {}
  /\ r.pc \notin {"list", "detail", "answer"} => r.caller = None
  /\ r.caller # None => r.kind = "restaurant" /\ r.country = r.caller
  /\ r.read # {} => r.seen <= w
  /\ r.pc = "detail" => r.page = Idle.page
  /\ r.pc = "list" /\ "data" \in r.read =>
       Distance(PageSize(Cardinality(ListedIn(r, rs)), r.page), Cardinality(r.data))
         <= w - r.seen
  /\ r.pc = "list" /\ "total" \in r.read =>
       Distance(Cardinality(ListedIn(r, rs)), r.total) <= w - r.seen
  /\ r.pc = "answer" => /\ "data" \in r.read
                        /\ Distance(PageSize(r.total, r.page), Cardinality(r.data))
                             <= w - r.seen
  /\ "data" \in r.read =>
       /\ IsFiniteSet(r.data)
       /\ r.data \subseteq DOMAIN rs
       /\ r.caller # None =>
            \A i \in r.data : rs[i].country = r.caller \/ w > r.seen

ListInv == \A p \in Proc : ListOK(req[p], rows, writes)

\* The rows that either statement of a list finds, as a set over any table.
LEMMA ListedMatch ==
  ASSUME NEW r, r.kind \in Kind
  PROVE  Listed(r) = ListedIn(r, rows)
<1>1. Live(r.kind) = {i \in DOMAIN rows : rows[i].kind = r.kind /\ ~rows[i].deleted}
  BY DEF Live, Rows
<1>2. CASE r.kind = "restaurant"
  <2>1. Listed(r) = RestaurantsListed(r)
    BY <1>2 DEF Listed
  <2> QED BY <1>1, <1>2, <2>1 DEF ListedIn, Matches, RestaurantsListed
<1>3. CASE r.kind = "category"
  <2>1. Listed(r) = CategoriesListed(r)
    BY <1>3 DEF Listed
  <2> QED BY <1>1, <1>3, <2>1 DEF ListedIn, Matches, CategoriesListed
<1>4. CASE r.kind = "item"
  <2>1. Listed(r) = ItemsListed(r)
    BY <1>4 DEF Listed
  <2> QED BY <1>1, <1>4, <2>1 DEF ListedIn, Matches, ItemsListed
<1> QED
  BY <1>2, <1>3, <1>4 DEF Kind

\* The rows of a table, and those that a list asks for, are finitely many.
LEMMA ListedFinite ==
  ASSUME NEW rs \in Seq(Row), NEW r
  PROVE  /\ IsFiniteSet(DOMAIN rs) /\ IsFiniteSet(ListedIn(r, rs))
         /\ Cardinality(ListedIn(r, rs)) \in Nat /\ ListedIn(r, rs) \subseteq DOMAIN rs
<1>1. DOMAIN rs = 1..Len(rs) /\ Len(rs) \in Nat
  BY Seqs
<1>2. IsFiniteSet(DOMAIN rs)
  BY <1>1, FS_Interval
<1>3. ListedIn(r, rs) \in SUBSET DOMAIN rs
  BY DEF ListedIn
<1>4. IsFiniteSet(ListedIn(r, rs))
  BY <1>2, <1>3, FS_Subset
<1> QED
  BY <1>2, <1>3, <1>4, FS_CardinalityType

\* Two sets that differ in the elements of D at most differ by no more in size.
LEMMA CountMoves ==
  ASSUME NEW S, NEW T, NEW D, IsFiniteSet(S), IsFiniteSet(T), IsFiniteSet(D),
         S \subseteq T \cup D, T \subseteq S \cup D
  PROVE  Distance(Cardinality(S), Cardinality(T)) <= Cardinality(D)
<1>1. ASSUME NEW A, NEW B, IsFiniteSet(A), IsFiniteSet(B), A \subseteq B \cup D
      PROVE  Cardinality(A) <= Cardinality(B) + Cardinality(D)
  <2>1. /\ IsFiniteSet(B \cup D)
        /\ Cardinality(B \cup D)
             = Cardinality(B) + Cardinality(D) - Cardinality(B \cap D)
    BY <1>1, FS_Union
  <2>2. Cardinality(A) <= Cardinality(B \cup D)
    BY <1>1, <2>1, FS_Subset
  <2>3. IsFiniteSet(B \cap D)
    BY <1>1, FS_Subset
  <2>4. /\ Cardinality(A) \in Nat /\ Cardinality(B) \in Nat /\ Cardinality(D) \in Nat
        /\ Cardinality(B \cap D) \in Nat /\ Cardinality(B \cup D) \in Nat
    BY <1>1, <2>1, <2>3, FS_CardinalityType
  <2> QED BY <2>1, <2>2, <2>4
<1>2. /\ Cardinality(S) <= Cardinality(T) + Cardinality(D)
      /\ Cardinality(T) <= Cardinality(S) + Cardinality(D)
  BY <1>1
<1>3. Cardinality(S) \in Nat /\ Cardinality(T) \in Nat /\ Cardinality(D) \in Nat
  BY FS_CardinalityType
<1> QED
  BY <1>2, <1>3 DEF Distance

\* Pages of lists that differ by k rows differ by no more than k rows.
LEMMA PageMoves ==
  ASSUME NEW page \in Page, NEW m \in Nat, NEW n \in Nat
  PROVE  /\ PageSize(m, page) \in Nat
         /\ Distance(PageSize(m, page), PageSize(n, page)) <= Distance(m, n)
<1>0. page.skip \in Nat /\ page.limit \in Nat
  BY DEF Page
<1> DEFINE rest(k) == IF k < page.skip THEN 0 ELSE k - page.skip
<1>1. rest(m) \in Nat /\ rest(n) \in Nat /\ Distance(rest(m), rest(n)) <= Distance(m, n)
  BY <1>0 DEF Distance
<1>2. \A k : PageSize(k, page) = IF rest(k) < page.limit THEN rest(k) ELSE page.limit
  BY DEF PageSize
<1>3. \A x, y \in Nat :
        Distance(IF x < page.limit THEN x ELSE page.limit, IF y < page.limit THEN y ELSE page.limit)
          <= Distance(x, y)
  BY <1>0 DEF Distance
<1>4. Distance(PageSize(m, page), PageSize(n, page)) <= Distance(rest(m), rest(n))
  BY <1>1, <1>2, <1>3
<1>5. /\ Distance(rest(m), rest(n)) \in Nat /\ Distance(m, n) \in Nat
      /\ Distance(PageSize(m, page), PageSize(n, page)) \in Nat /\ PageSize(m, page) \in Nat
  BY <1>0, <1>1, <1>2 DEF Distance
<1> HIDE DEF rest
<1> QED
  BY <1>1, <1>4, <1>5

LEMMA Triangle ==
  ASSUME NEW a \in Nat, NEW b \in Nat, NEW c \in Nat
  PROVE  /\ Distance(a, b) \in Nat /\ Distance(a, a) = 0
         /\ Distance(a, b) = Distance(b, a)
         /\ Distance(a, c) <= Distance(a, b) + Distance(b, c)
  BY DEF Distance

\* A list that has been read so far, after n more rows, those of D, are written.
LEMMA ListMoves ==
  ASSUME NEW r \in Request, NEW rs \in Seq(Row), NEW after \in Seq(Row), NEW w \in Nat,
         NEW D, NEW n \in Nat, IsFiniteSet(D), Cardinality(D) = n,
         DOMAIN rs \subseteq DOMAIN after,
         \A i \in DOMAIN after \ D : i \in DOMAIN rs /\ after[i] = rs[i],
         NEW v, r.read # {} => v = w + n, ListOK(r, rs, w)
  PROVE  ListOK(r, after, v)
<1>1. /\ r.seen \in Nat /\ r.total \in Nat /\ r.page \in Page
      /\ PageSize(r.total, r.page) \in Nat
  BY PageMoves DEF Request
<1> DEFINE old == Cardinality(ListedIn(r, rs))
           new == Cardinality(ListedIn(r, after))
<1>2. old \in Nat /\ new \in Nat
  BY ListedFinite
<1>3. Distance(old, new) <= n
  <2>1. /\ ListedIn(r, rs) \subseteq ListedIn(r, after) \cup D
        /\ ListedIn(r, after) \subseteq ListedIn(r, rs) \cup D
    BY DEF ListedIn
  <2>2. IsFiniteSet(ListedIn(r, rs)) /\ IsFiniteSet(ListedIn(r, after))
    BY ListedFinite
  <2> QED BY <2>1, <2>2, CountMoves
<1>4. \A k \in Nat :
        /\ Distance(old, k) <= w - r.seen => Distance(new, k) <= (w + n) - r.seen
        /\ Distance(PageSize(old, r.page), k) <= w - r.seen =>
             Distance(PageSize(new, r.page), k) <= (w + n) - r.seen
  <2> HIDE DEF old, new
  <2>1. PageSize(old, r.page) \in Nat /\ PageSize(new, r.page) \in Nat
    BY <1>1, <1>2, PageMoves
  <2>2. Distance(PageSize(old, r.page), PageSize(new, r.page)) <= n
    <3>1. Distance(PageSize(old, r.page), PageSize(new, r.page)) <= Distance(old, new)
      BY <1>1, <1>2, PageMoves
    <3>2. Distance(old, new) \in Nat /\ Distance(PageSize(old, r.page), PageSize(new, r.page)) \in Nat
      BY <1>2, <2>1, Triangle
    <3> QED BY <1>3, <3>1, <3>2
  <2>3. ASSUME NEW a \in Nat, NEW b \in Nat, NEW k \in Nat, Distance(a, b) <= n,
               Distance(a, k) <= w - r.seen
        PROVE  Distance(b, k) <= (w + n) - r.seen
    BY <1>1, <2>3 DEF Distance
  <2> QED BY <1>2, <1>3, <2>1, <2>2, <2>3
<1>5. r.read # {} => r.seen <= w /\ v = w + n /\ r.seen <= v /\ v - r.seen >= w - r.seen
  BY <1>1 DEF ListOK
<1>6. "data" \in r.read =>
        /\ IsFiniteSet(r.data) /\ r.data \subseteq DOMAIN after
        /\ Cardinality(r.data) \in Nat
  BY FS_CardinalityType DEF ListOK
<1>7. ASSUME "data" \in r.read, r.caller # None, NEW i \in r.data
      PROVE  after[i].country = r.caller \/ v > r.seen
  <2>1. v = w + n /\ r.seen <= w /\ (rs[i].country = r.caller \/ w > r.seen)
    BY <1>5, <1>7 DEF ListOK
  <2>2. CASE n = 0
    <3>1. D = {}
      BY <2>2, FS_EmptySet
    <3> QED BY <1>1, <1>6, <1>7, <2>1, <2>2, <3>1
  <2>3. CASE n > 0
    BY <1>1, <2>1, <2>3
  <2> QED BY <2>2, <2>3
<1>8. r.pc = "list" /\ "data" \in r.read =>
        Distance(PageSize(new, r.page), Cardinality(r.data)) <= v - r.seen
  BY <1>4, <1>5, <1>6 DEF ListOK
<1>9. r.pc = "list" /\ "total" \in r.read => Distance(new, r.total) <= v - r.seen
  BY <1>1, <1>4, <1>5 DEF ListOK
<1>10. r.pc = "answer" => /\ "data" \in r.read
                          /\ Distance(PageSize(r.total, r.page), Cardinality(r.data))
                               <= v - r.seen
  <2> SUFFICES ASSUME r.pc = "answer"
               PROVE  /\ "data" \in r.read
                      /\ Distance(PageSize(r.total, r.page), Cardinality(r.data))
                           <= v - r.seen
    OBVIOUS
  <2>1. /\ "data" \in r.read
        /\ Distance(PageSize(r.total, r.page), Cardinality(r.data)) <= w - r.seen
    BY DEF ListOK
  <2>2. v = w + n /\ v - r.seen >= w - r.seen
    BY <1>5, <2>1
  <2>3. Distance(PageSize(r.total, r.page), Cardinality(r.data)) \in Nat
    BY <1>1, <1>6, <2>1, Triangle
  <2> QED BY <1>1, <2>1, <2>2, <2>3
<1> QED
  BY <1>5, <1>6, <1>7, <1>8, <1>9, <1>10 DEF ListOK

\* A request that is not one to read, or that has read nothing.
LEMMA NothingRead ==
  ASSUME NEW s, NEW rs, NEW w, s.read = {}, s.pc # "answer",
         \/ s.caller = None
         \/ s.pc \in {"list", "detail"} /\ s.kind = "restaurant" /\ s.country = s.caller,
         s.pc = "detail" => s.page = Idle.page
  PROVE  ListOK(s, rs, w)
  BY DEF ListOK

\* A step that writes no row.
LEMMA ListQuiet ==
  ASSUME BaseInv, ListInv, NEW p \in Proc, NEW s, req' = [req EXCEPT ![p] = s],
         UNCHANGED <<rows, writes>>, ListOK(s, rows, writes)
  PROVE  ListInv'
<1>1. \A q \in Proc : req'[q] = IF q = p THEN s ELSE req[q]
  BY PicTypes
<1> QED
  BY <1>1 DEF ListInv

\* A request that ends has read nothing.
LEMMA ListFinish ==
  ASSUME BaseInv, ListInv, NEW p \in Proc, Finish(p), UNCHANGED <<rows, writes>>
  PROVE  ListInv'
<1>1. ListOK(Idle, rows, writes)
  BY NothingRead DEF Idle
<1> QED
  BY <1>1, ListQuiet DEF Finish

\* A request that begins has read nothing; a list keeps to its caller's country.
LEMMA ListBegin ==
  ASSUME BaseInv, ListInv, NEW p \in Proc, Start(p) \/ StartServer(p)
  PROVE  ListInv'
<1>1. ASSUME NEW s, Begin(p, s), s.read = {}, s.pc # "answer",
             \/ s.caller = None
             \/ s.pc \in {"list", "detail"} /\ s.kind = "restaurant" /\ s.country = s.caller,
             s.pc = "detail" => s.page = Idle.page
      PROVE  ListInv'
  BY <1>1, NothingRead, ListQuiet DEF Begin
<1>2. Idle.read = {} /\ Idle.caller = None /\ Idle.kind = "restaurant"
  BY DEF Idle
<1>3. CASE CreateRestaurant(p) \/ CreateCategory(p) \/ CreateItem(p)
  BY <1>1, <1>3 DEF CreateRestaurant, CreateCategory, CreateItem, Idle
<1>4. CASE UpdateCategory(p) \/ UpdateItem(p)
  BY <1>1, <1>4 DEF UpdateCategory, UpdateItem, Idle
<1>5. CASE UpdateRestaurant(p)
  BY <1>1, <1>5 DEF UpdateRestaurant, Idle
<1>6. CASE DeleteRestaurant(p) \/ DeleteCategory(p) \/ DeleteItem(p) \/ StartServer(p)
  BY <1>1, <1>6 DEF DeleteRestaurant, DeleteCategory, DeleteItem, StartServer, Idle
<1>7. CASE ListRestaurants(p)
  <2>1. PICK c, scope, text, page :
          /\ Begin(p, [Idle EXCEPT !.pc = "list", !.country = c, !.caller = scope,
                                   !.search = text, !.page = page])
          /\ scope # None => c = scope
    BY <1>7 DEF ListRestaurants, InScope
  <2> DEFINE s == [Idle EXCEPT !.pc = "list", !.country = c, !.caller = scope,
                               !.search = text, !.page = page]
  <2>2. /\ s.pc = "list" /\ s.read = {} /\ s.kind = "restaurant"
        /\ s.country = c /\ s.caller = scope
    BY DEF Idle
  <2> HIDE DEF s
  <2> QED BY <1>1, <2>1, <2>2 DEF s
<1>8. CASE RestaurantDetail(p)
  BY <1>1, <1>8 DEF RestaurantDetail, Idle
<1>9. CASE ListCategories(p) \/ ListItems(p)
  BY <1>1, <1>9 DEF ListCategories, ListItems, Idle
<1> QED
  BY <1>3, <1>4, <1>5, <1>6, <1>7, <1>8, <1>9 DEF Start

\* Requests that are no lists go on having read nothing, or end.
LEMMA ListOther ==
  ASSUME BaseInv, ListInv, NEW p \in Proc,
         Look(p) \/ Save(p) \/ SeedFind(p) \/ SeedDone(p) \/ Fail(p)
  PROVE  ListInv'
<1> DEFINE r == req[p]
<1>1. r \in Request /\ ListOK(r, rows, writes)
  BY DEF BaseInv, TypeOK, ListInv
<1>2. ASSUME NEW s, req' = [req EXCEPT ![p] = s], UNCHANGED <<rows, writes>>,
             r.pc \notin {"list", "detail", "answer"}, s.pc \notin {"answer", "detail"},
             s.read = r.read, s.caller = r.caller
      PROVE  ListInv'
  <2>1. s.read = {} /\ s.caller = None
    BY <1>1, <1>2 DEF ListOK
  <2> HIDE DEF r
  <2> QED BY <1>2, <2>1, NothingRead, ListQuiet
<1>3. ASSUME NEW label \in PC \ {"answer", "detail"}, Goto(p, label), UNCHANGED <<rows, writes>>,
             r.pc \notin {"list", "detail", "answer"}
      PROVE  ListInv'
  <2> DEFINE s == [r EXCEPT !.pc = label]
  <2>1. s.read = r.read /\ s.caller = r.caller /\ s.pc = label
    BY <1>1 DEF Request
  <2> HIDE DEF s
  <2> QED BY <1>2, <1>3, <2>1 DEF Goto, s
<1>4. CASE FindRestaurant(p) \/ FindCategory(p)
  BY <1>3, <1>4 DEF FindRestaurant, FindCategory, PC
<1>5. CASE FindRow(p)
  <2> DEFINE row == rows[r.id]
             s == [r EXCEPT !.scope = row.parent, !.image = row.image,
                            !.pc = IF r.name # None THEN "checkName" ELSE AfterCheck(r)]
  <2>1. s.read = r.read /\ s.caller = r.caller /\ s.pc \notin {"answer", "detail"}
    BY <1>1 DEF Request, AfterCheck
  <2> HIDE DEF s
  <2> QED BY <1>2, <1>5, <2>1 DEF FindRow, s
<1>6. CASE CheckRestaurant(p) \/ CheckCategory(p) \/ CheckItem(p)
  <2>1. AfterCheck(r) \in PC \ {"answer", "detail"}
    BY DEF AfterCheck, PC
  <2> QED BY <1>3, <1>6, <2>1, ListFinish
          DEF CheckRestaurant, CheckCategory, CheckItem, CheckName
<1>7. CASE Upload(p)
  <2> DEFINE s == [r EXCEPT !.image = files + 1, !.pc = "writeFile"]
  <2>1. s.read = r.read /\ s.caller = r.caller /\ s.pc = "writeFile"
    BY <1>1 DEF Request
  <2> HIDE DEF s
  <2> QED BY <1>2, <1>7, <2>1 DEF Upload, s
<1>8. CASE WriteFile(p)
  BY <1>3, <1>8 DEF WriteFile, PC
<1>9. CASE SeedFind(p)
  <2> DEFINE i == r.place
             known == \E j \in Rows("restaurant") : rows[j].name = SeedRows[i].name
             missing == IF known THEN r.missing ELSE r.missing \cup {i}
             label == IF i = Len(SeedRows) THEN "seedCreate" ELSE "seedFind"
             s == [r EXCEPT !.missing = missing, !.place = i + 1, !.pc = label]
  <2>1. /\ r.pc = "seedFind" /\ req' = [req EXCEPT ![p] = s]
        /\ UNCHANGED <<rows, writes>>
    BY <1>9 DEF SeedFind
  <2>2. label \notin {"answer", "detail"}
    OBVIOUS
  <2> HIDE DEF missing, label
  <2>3. s.read = r.read /\ s.caller = r.caller /\ s.pc = label
    BY <1>1 DEF Request
  <2> HIDE DEF s
  <2> QED BY <1>2, <2>1, <2>2, <2>3
<1>10. CASE Refuse(p) \/ SeedDone(p) \/ Fail(p)
  BY <1>10, ListFinish DEF Refuse, SeedDone, Fail
<1> QED
  BY <1>4, <1>5, <1>6, <1>7, <1>8, <1>9, <1>10 DEF Look, Save

\* What each of the two statements of a list returns agrees with what the other has.
LEMMA ListRead ==
  ASSUME BaseInv, ListInv, NEW p \in Proc, Read(p)
  PROVE  ListInv'
<1> DEFINE r == req[p]
           found == ListedIn(r, rows)
           size == PageSize(Cardinality(found), r.page)
<1>1. /\ r \in Request /\ ListOK(r, rows, writes) /\ rows \in Seq(Row) /\ writes \in Nat
      /\ r.kind \in Kind /\ r.read \in SUBSET {"data", "total"} /\ r.total \in Nat
  BY DEF BaseInv, TypeOK, ListInv, Request
<1>0. /\ writes \in Nat /\ r.total \in Nat /\ r.page \in Page
      /\ r.seen \in Nat
  BY <1>1 DEF Request
<1>2. /\ Listed(r) = found /\ IsFiniteSet(found) /\ Cardinality(found) \in Nat
      /\ found \subseteq DOMAIN rows
  BY <1>1, ListedMatch, ListedFinite
<1>3. r.pc = "list" /\ r.caller # None => \A i \in found : rows[i].country = r.caller
  BY <1>1 DEF ListOK, ListedIn, Matches, Asked
<1>4. /\ r.caller # None => r.kind = "restaurant" /\ r.country = r.caller
      /\ r.seen \in Nat /\ (r.read # {} => r.seen <= writes)
      /\ r.pc = "list" /\ "data" \in r.read =>
           Distance(size, Cardinality(r.data)) <= writes - r.seen
      /\ r.pc = "list" /\ "total" \in r.read =>
           Distance(Cardinality(found), r.total) <= writes - r.seen
      /\ "data" \in r.read =>
           /\ IsFiniteSet(r.data) /\ r.data \subseteq DOMAIN rows
           /\ Cardinality(r.data) \in Nat
           /\ r.caller # None =>
                \A i \in r.data : rows[i].country = r.caller \/ writes > r.seen
  BY <1>1, FS_CardinalityType DEF ListOK, Request
<1>5. \A m, n \in Nat : Distance(m, m) = 0 /\ Distance(m, n) = Distance(n, m)
  BY DEF Distance
<1>6. \A f \in SUBSET {"data", "total"} :
        /\ "data" \notin f => f = {} \/ f = {"total"}
        /\ "total" \notin f => f = {} \/ f = {"data"}
  OBVIOUS
<1>11. size \in Nat /\ PageSize(r.total, r.page) \in Nat
       /\ Distance(PageSize(r.total, r.page), size) <= Distance(r.total, Cardinality(found))
  BY <1>0, <1>2, PageMoves
<1>7. CASE ReadData(p)
  <2>0. PICK page \in PagesOf(r) :
          req' = [req EXCEPT ![p] = HasRead([r EXCEPT !.data = page], "data")]
    BY <1>7 DEF ReadData
  <2> DEFINE s == HasRead([r EXCEPT !.data = page], "data")
  <2>1. /\ r.pc = "list" /\ "data" \notin r.read /\ req' = [req EXCEPT ![p] = s]
        /\ UNCHANGED <<rows, writes>>
    BY <1>7, <2>0 DEF ReadData
  <2>2. /\ s.data = page /\ s.read = r.read \cup {"data"} /\ s.total = r.total
        /\ s.seen = IF r.read = {} THEN writes ELSE r.seen
        /\ s.pc = IF r.read = {} THEN "list" ELSE "answer"
        /\ s.caller = r.caller /\ s.kind = r.kind /\ s.country = r.country
        /\ s.parent = r.parent /\ s.search = r.search
        /\ s.page = r.page
    BY <1>1 DEF HasRead, Request
  <2> HIDE DEF s
  <2>3. ListedIn(s, rows) = found /\ s.page = r.page
    BY <2>2 DEF ListedIn, Matches, PageSize
  <2>8. page \subseteq found /\ IsFiniteSet(page) /\ Cardinality(page) = size
    <3>1. page \subseteq found /\ Cardinality(page) = size
      BY <1>2 DEF PagesOf
    <3> QED BY <1>2, <3>1, FS_Subset
  <2>9. page \subseteq DOMAIN rows
    BY <1>2, <2>8
  <2>10. r.caller # None => \A i \in page : rows[i].country = r.caller
    BY <1>3, <2>1, <2>8
  <2> HIDE DEF found, size
  <2>4. ASSUME r.read = {} PROVE ListOK(s, rows, writes)
    <3>1. s.read = {"data"} /\ s.pc = "list" /\ s.seen = writes
      BY <2>2, <2>4
    <3>2. Distance(size, size) <= writes - writes
      BY <1>0, <1>11, <1>5
    <3>3. Distance(PageSize(Cardinality(ListedIn(s, rows)), s.page), Cardinality(s.data))
            <= writes - s.seen
      BY <2>2, <2>3, <2>8, <3>1, <3>2 DEF size
    <3> QED BY <1>0, <1>4, <2>2, <2>8, <2>9, <2>10, <3>1, <3>3 DEF ListOK
  <2>5. ASSUME r.read = {"total"} PROVE ListOK(s, rows, writes)
    <3>1. s.read = {"data", "total"} /\ s.pc = "answer" /\ s.seen = r.seen
      BY <2>2, <2>5
    <3>2. Distance(r.total, Cardinality(found)) <= writes - r.seen
      BY <1>0, <1>2, <1>4, <1>5, <2>1, <2>5
    <3>4. Distance(PageSize(r.total, r.page), size) <= writes - r.seen
      BY <1>0, <1>2, <1>11, <3>2 DEF Distance
    <3>3. Distance(PageSize(s.total, s.page), Cardinality(s.data)) <= writes - s.seen
      BY <2>2, <2>3, <2>8, <3>1, <3>4
    <3> QED BY <1>4, <2>2, <2>8, <2>9, <2>10, <2>5, <3>1, <3>3 DEF ListOK
  <2>6. r.read = {} \/ r.read = {"total"}
    BY <1>1, <1>6, <2>1
  <2>7. ListOK(s, rows, writes)
    BY <2>4, <2>5, <2>6
  <2> QED BY <2>1, <2>7, ListQuiet
<1>8. CASE ReadTotal(p)
  <2> DEFINE s == HasRead([r EXCEPT !.total = Count(r)], "total")
  <2>1. /\ r.pc = "list" /\ "total" \notin r.read /\ req' = [req EXCEPT ![p] = s]
        /\ UNCHANGED <<rows, writes>>
    BY <1>8 DEF ReadTotal
  <2>2. /\ s.data = r.data /\ s.read = r.read \cup {"total"} /\ s.total = Cardinality(found)
        /\ s.seen = IF r.read = {} THEN writes ELSE r.seen
        /\ s.pc = IF r.read = {} THEN "list" ELSE "answer"
        /\ s.caller = r.caller /\ s.kind = r.kind /\ s.country = r.country
        /\ s.parent = r.parent /\ s.search = r.search
        /\ s.page = r.page
    BY <1>1, <1>2 DEF HasRead, Request, Count
  <2> HIDE DEF s
  <2>3. ListedIn(s, rows) = found /\ s.page = r.page
    BY <2>2 DEF ListedIn, Matches, PageSize
  <2>8. size = PageSize(Cardinality(found), r.page)
    OBVIOUS
  <2> HIDE DEF found, size
  <2>4. ASSUME r.read = {} PROVE ListOK(s, rows, writes)
    <3>1. s.read = {"total"} /\ s.pc = "list" /\ s.seen = writes
      BY <2>2, <2>4
    <3>2. Distance(Cardinality(found), Cardinality(found)) <= writes - writes
      BY <1>0, <1>2, <1>5
    <3> QED BY <1>0, <1>4, <2>2, <2>3, <3>1, <3>2 DEF ListOK
  <2>5. ASSUME r.read = {"data"} PROVE ListOK(s, rows, writes)
    <3>1. s.read = {"data", "total"} /\ s.pc = "answer" /\ s.seen = r.seen
      BY <2>2, <2>5
    <3>2. Distance(size, Cardinality(r.data)) <= writes - r.seen
      BY <1>4, <2>1, <2>5
    <3>3. Distance(PageSize(s.total, s.page), Cardinality(s.data)) <= writes - s.seen
      BY <2>2, <2>3, <2>8, <3>1, <3>2
    <3> QED BY <1>4, <2>2, <2>5, <3>1, <3>3 DEF ListOK
  <2>6. r.read = {} \/ r.read = {"data"}
    BY <1>1, <1>6, <2>1
  <2>7. ListOK(s, rows, writes)
    BY <2>4, <2>5, <2>6
  <2> QED BY <2>1, <2>7, ListQuiet
<1>9. CASE ReadDetail(p)
  <2> DEFINE shown == {i \in Rows("restaurant") :
                         i = r.id /\ Asked(r.country, {rows[i].country})}
             s == [r EXCEPT !.data = shown, !.total = Cardinality(shown),
                            !.read = {"data", "total"}, !.seen = writes,
                            !.pc = "answer"]
  <2>1. /\ r.pc = "detail" /\ req' = [req EXCEPT ![p] = s]
        /\ UNCHANGED <<rows, writes>>
    BY <1>9 DEF ReadDetail
  <2>2. /\ s.data = shown /\ s.total = Cardinality(shown) /\ s.read = {"data", "total"}
        /\ s.seen = writes /\ s.pc = "answer" /\ s.caller = r.caller
        /\ s.kind = r.kind /\ s.country = r.country
        /\ s.page = r.page
    BY <1>1 DEF Request
  <2>3. shown \subseteq DOMAIN rows /\ \A i \in shown : Asked(r.country, {rows[i].country})
    BY DEF Rows
  <2> HIDE DEF s, shown
  <2>4. IsFiniteSet(shown) /\ Cardinality(shown) \in Nat
    BY <1>1, <2>3, ListedFinite, FS_Subset, FS_CardinalityType
  <2>8. Cardinality(shown) <= 1
    <3>1. shown \subseteq {r.id} /\ IsFiniteSet({r.id}) /\ Cardinality({r.id}) = 1
      BY FS_Singleton DEF shown
    <3> QED BY <3>1, FS_Subset
  <2>9. PageSize(s.total, s.page) = Cardinality(shown)
    BY <1>1, <2>1, <2>2, <2>4, <2>8 DEF ListOK, PageSize, Idle
  <2>5. r.caller # None => \A i \in shown : rows[i].country = r.caller
    BY <1>1, <2>1, <2>3 DEF ListOK, Asked
  <2>6. ListOK(s, rows, writes)
    BY <1>1, <2>1, <2>2, <2>3, <2>4, <2>5, <2>9 DEF ListOK, Distance
  <2> QED BY <2>1, <2>6, ListQuiet
<1>10. CASE Answer(p)
  BY <1>10, ListFinish DEF Answer
<1> QED
  BY <1>7, <1>8, <1>9, <1>10 DEF Read

\* A step that writes the rows of D, of a request that has read nothing.
LEMMA ListWrote ==
  ASSUME BaseInv, ListInv, BaseInv', NEW p \in Proc, NEW D, NEW n \in Nat, IsFiniteSet(D),
         Cardinality(D) = n, DOMAIN rows \subseteq DOMAIN rows',
         \A i \in DOMAIN rows' \ D : i \in DOMAIN rows /\ rows'[i] = rows[i],
         Wrote(n), NEW s, req' = [req EXCEPT ![p] = s], s.read = {}, s.caller = None,
         s.pc \notin {"answer", "detail"}
  PROVE  ListInv'
<1>1. /\ rows \in Seq(Row) /\ rows' \in Seq(Row) /\ writes \in Nat
      /\ \A q \in Proc : req[q] \in Request
  BY DEF BaseInv, TypeOK
<1>2. \A q \in Proc : req'[q] = IF q = p THEN s ELSE req[q]
  BY PicTypes
<1>3. ListOK(s, rows', writes')
  BY NothingRead
<1>4. \A q \in Proc : ListOK(req[q], rows', writes')
  <2> SUFFICES ASSUME NEW q \in Proc PROVE ListOK(req[q], rows', writes')
    OBVIOUS
  <2>1. ListOK(req[q], rows, writes) /\ (req[q].read # {} => writes' = writes + n)
    BY DEF ListInv, Wrote
  <2> QED BY <1>1, <2>1, ListMoves
<1> QED
  BY <1>2, <1>3, <1>4 DEF ListInv

\* Every statement that writes counts the rows that it writes.
LEMMA ListWrite ==
  ASSUME BaseInv, ListInv, BaseInv', NEW p \in Proc, Write(p) \/ SeedCreate(p)
  PROVE  ListInv'
<1> DEFINE r == req[p]
<1>1. /\ r \in Request /\ ListOK(r, rows, writes) /\ Len(rows) \in Nat
      /\ DOMAIN rows = 1..Len(rows) /\ rows \in Seq(Row) /\ rows' \in Seq(Row)
  BY PicTypes DEF BaseInv, TypeOK, ListInv
<1>2. Idle.read = {} /\ Idle.caller = None /\ Idle.pc \notin {"answer", "detail"}
  BY DEF Idle
<1>3. \A x : IsFiniteSet({x}) /\ Cardinality({x}) = 1
  BY FS_Singleton
<1>4. ASSUME NEW k \in Kind, NEW row, k = row.kind, Insert(p, k, row),
             row \in {RestaurantRow(r), CategoryRow(r), ItemRow(r)}
      PROVE  ListInv'
  <2>1. Wrote(1) /\ rows' = Append(rows, row) /\ req' = [req EXCEPT ![p] = Idle]
    BY <1>4 DEF Insert, Finish
  <2>2. row \in Row
    BY <1>4, InsertRows
  <2> DEFINE x == Len(rows) + 1
  <2>3. /\ DOMAIN rows \subseteq DOMAIN rows'
        /\ \A i \in DOMAIN rows' \ {x} : i \in DOMAIN rows /\ rows'[i] = rows[i]
    BY <1>1, <2>1, <2>2
  <2> HIDE DEF x
  <2> QED BY <1>2, <1>3, <2>1, <2>3, ListWrote
<1>5. ASSUME NEW x, NEW row, Wrote(1), rows' = [rows EXCEPT ![x] = row],
             req' = [req EXCEPT ![p] = Idle]
      PROVE  ListInv'
  <2>1. /\ DOMAIN rows \subseteq DOMAIN rows'
        /\ \A i \in DOMAIN rows' \ {x} : i \in DOMAIN rows /\ rows'[i] = rows[i]
    BY <1>1, <1>5
  <2> QED BY <1>2, <1>3, <1>5, <2>1, ListWrote
<1>6. ASSUME NEW k \in Kind, NEW row, Update(p, k, row)
      PROVE  ListInv'
  <2>1. CASE Wrote(1) /\ rows' = [rows EXCEPT ![r.id] = row]
    BY <1>5, <1>6, <2>1 DEF Update, Finish
  <2>2. CASE UNCHANGED <<rows, writes>>
    BY <1>6, <2>2, ListFinish DEF Update
  <2> QED BY <1>6, <2>1, <2>2 DEF Update
<1>7. ASSUME NEW k \in Kind, MarkDeleted(p, k)
      PROVE  ListInv'
  <2> DEFINE row == [rows[r.id] EXCEPT !.deleted = TRUE]
  <2>1. rows' = [rows EXCEPT ![r.id] = row] /\ req' = [req EXCEPT ![p] = Idle]
    BY <1>7, MarkRows
  <2> HIDE DEF row
  <2> QED BY <1>5, <1>7, <2>1 DEF MarkDeleted
<1>8. CASE SeedCreate(p)
  <2>1. PICK m \in r.missing :
           /\ Wrote(1 + Len(SeedMenu)) /\ r.pc = "seedCreate"
           /\ req' = [req EXCEPT ![p] = [r EXCEPT !.missing = @ \ {m}]]
           /\ rows' = rows \o NestedRows(m)
    BY <1>8 DEF SeedCreate
  <2> DEFINE s == [r EXCEPT !.missing = @ \ {m}]
             new == NestedRows(m)
             n == 1 + Len(SeedMenu)
             D == (Len(rows) + 1)..(Len(rows) + n)
  <2>2. s.read = {} /\ s.caller = None /\ s.pc \notin {"answer", "detail"}
    BY <1>1, <2>1 DEF ListOK, Request
  <2>3. m \in DOMAIN SeedRows
    BY <1>1, <2>1, PicTypes DEF ReqOK, Seeding
  <2>4. new \in Seq(Row) /\ Len(new) = n /\ Len(SeedMenu) \in Nat
    BY <2>3, Nested, CatalogAssumption, Seqs
  <2> HIDE DEF new, s
  <2>5. /\ Len(rows') = Len(rows) + n /\ DOMAIN rows' = 1..(Len(rows) + n)
        /\ \A i \in 1..(Len(rows) + n) :
             rows'[i] = IF i <= Len(rows) THEN rows[i] ELSE new[i - Len(rows)]
    <3>1. rows' = rows \o new
      BY <2>1 DEF new
    <3>2. /\ Len(rows \o new) = Len(rows) + Len(new)
          /\ rows \o new \in Seq(Row)
          /\ \A i \in 1..(Len(rows) + Len(new)) :
               (rows \o new)[i] = IF i <= Len(rows) THEN rows[i] ELSE new[i - Len(rows)]
      BY <1>1, <2>4, ConcatProperties
    <3> QED BY <1>1, <2>4, <3>1, <3>2, Seqs
  <2>6. /\ DOMAIN rows \subseteq DOMAIN rows'
        /\ \A i \in DOMAIN rows' \ D : i \in DOMAIN rows /\ rows'[i] = rows[i]
    <3>1. n \in Nat /\ \A i : i \in D <=> i \in (Len(rows) + 1)..(Len(rows) + n)
      BY <2>4
    <3> HIDE DEF n, D
    <3>2. DOMAIN rows \subseteq DOMAIN rows'
      BY <1>1, <2>5, <3>1
    <3>3. \A i \in DOMAIN rows' \ D : i \in 1..Len(rows)
      BY <1>1, <2>5, <3>1
    <3>4. \A i \in 1..Len(rows) : i <= Len(rows) /\ i \in 1..(Len(rows) + n)
      BY <1>1, <3>1
    <3>5. \A i \in DOMAIN rows' \ D : rows'[i] = rows[i]
      BY <2>5, <3>3, <3>4
    <3> QED BY <1>1, <3>2, <3>3, <3>5
  <2>7. IsFiniteSet(D) /\ Cardinality(D) = n /\ n \in Nat
    <3>1. n \in Nat \ {0} /\ Len(rows) + 1 \in Int /\ Len(rows) + n \in Int
      BY <1>1, <2>4
    <3> HIDE DEF n
    <3>2. /\ IsFiniteSet(D)
          /\ Cardinality(D) = IF Len(rows) + 1 > Len(rows) + n THEN 0
                              ELSE (Len(rows) + n) - (Len(rows) + 1) + 1
      BY <3>1, FS_Interval
    <3> HIDE DEF D
    <3> QED BY <1>1, <3>1, <3>2
  <2> HIDE DEF D, n
  <2> QED BY <2>1, <2>2, <2>6, <2>7, ListWrote DEF s, n
<1> QED
  BY <1>4, <1>6, <1>7, <1>8, WriteCases

\* What a list has read differs from what it would read now by no more rows than
\* were written since, in any of the three repositories.
THEOREM Lists == Spec => []ListInv
<1>1. Init => ListInv
  BY NothingRead DEF Init, ListInv, Idle
<1>2. BaseInv /\ BaseInv' /\ ListInv /\ [Next]_vars => ListInv'
  <2> SUFFICES ASSUME BaseInv, BaseInv', ListInv, [Next]_vars PROVE ListInv'
    OBVIOUS
  <2>1. CASE UNCHANGED vars
    BY <2>1 DEF vars, ListInv
  <2> QED BY <2>1, ListBegin, ListOther, ListRead, ListWrite DEF Next, Seed
<1> QED
  BY <1>1, <1>2, Base, PTL DEF Spec

\* The page of a list has the rows that its total tells, up to the rows that any requests and
\* any start of a server wrote between its two statements.
THEOREM TotalsOfLists == Spec => []TotalsAgree
<1>1. ListInv => TotalsAgree
  BY DEF ListInv, ListOK, TotalsAgree
<1> QED
  BY <1>1, Lists, PTL

\* No list and no detail shows a caller a restaurant of another country than hers.
THEOREM CountriesKept == Spec => []CountryKept
<1>1. ListInv => CountryKept
  BY DEF ListInv, ListOK, CountryKept
<1> QED
  BY <1>1, Lists, PTL
=============================================================================
