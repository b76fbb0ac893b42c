-------------------------------- MODULE Seed --------------------------------
(***************************************************************************)
(* The seed script (prisma/seed.ts) on a database that people use.  It is  *)
(* a sequence of statements, each committed alone; it may be killed after  *)
(* any of them and is then run again from the start, and between two of    *)
(* them buyers, sellers and administrators go on.                          *)
(*                                                                         *)
(* A row that is not there is Absent.  Of the fixtures' data the model     *)
(* keeps who sells what and which reviewer reviews what.                   *)
(***************************************************************************)
EXTENDS Naturals, Sequences, FiniteSets

CONSTANTS
  Sellers, Reviewers, Admin, Applicant,  \* the seeded users
  Categories, \* the seeded categories: the one's name goes with its slug
  Elsewhere,  \* a name or slug that no seeded category has
  Products,   \* Products[s]: the fixed-price products of a seller, in order
  Lot,        \* Lot[s]: his auctioned product
  Reviews,    \* pairs of a reviewer and a product, in order
  Complaint,  \* the pair of a reviewer and a product that the dispute is about
  Absent,
  FirstStock, \* what a fixed-price product starts with
  MaxRuns     \* bounds how often the script is started

SeedUsers == Sellers \union Reviewers \union {Admin, Applicant}

(* SELLERS: each entry lists his products, then his auction. *)
Goods(s) == Append(Products[s], Lot[s])
Lots == {Lot[s] : s \in Sellers}
AllGoods == UNION {{Goods(s)[n] : n \in 1 .. Len(Goods(s))} : s \in Sellers}
Pairs == {Reviews[n] : n \in 1 .. Len(Reviews)} \union {Complaint}

ASSUME SeedAssumption ==
  /\ IsFiniteSet(Sellers) /\ IsFiniteSet(Reviewers) /\ IsFiniteSet(Categories)
  /\ Applicant # Admin /\ Absent \notin {"ADMIN", "UNDER_REVIEW", "RESOLVED"}
  /\ \A s \in Sellers : Products[s] \in Seq(AllGoods)
  /\ Reviews \in Seq(Reviewers \X AllGoods) /\ Complaint \in Reviewers \X AllGoods
  /\ \A n \in 1 .. Len(Reviews) : Reviews[n] # Complaint
  /\ FirstStock \in Nat /\ MaxRuns \in Nat

VARIABLES
  role,     \* role[u]: of the User row
  profile,  \* profile[u]: status of the SellerProfile row
  product,  \* product[g]: status of the Product row
  stock,    \* stock[g]: quantityAvailable of the Inventory row
  lots,     \* lots[g]: how many auctions of g are live, and how many are over
  orders,   \* orders[x]: the seeded orders of a reviewer for a product
  reviewed, \* the pairs of an author and a product with a review
  dispute,  \* status of the dispute the complaining reviewer raised
  index,    \* the products with a search document
  categories, \* the Category rows, each a name and a slug
  at,       \* the statement the script is at; 0 when it does not run
  runs,     \* how often it was started
  kills     \* and how often it was killed

tables == << role, profile, product, stock, lots, orders, reviewed, dispute, index, categories >>
script == << at, runs, kills >>
seedVars == << tables, script >>

-----------------------------------------------------------------------------
(* The statements of main, in order *)

Flat(seqs) ==
  LET flat[n \in 0 .. Len(seqs)] == IF n = 0 THEN << >> ELSE flat[n - 1] \o seqs[n]
  IN  flat[Len(seqs)]

Each(seq, Op(_)) == Flat([n \in 1 .. Len(seq) |-> Op(seq[n])])

Do(what, whom) == [do |-> what, on |-> whom]

ProductSteps(g) ==
  << Do("product", g), Do("inventory", g) >>
    \o IF g \in Lots THEN << Do("findAuction", g), Do("auction", g) >> ELSE << >>

SellerSteps(s) ==
  << Do("seller", s), Do("profile", s) >> \o Each(Goods(s), ProductSteps)

ReviewSteps(x) == << Do("findReview", x), Do("order", x), Do("review", x) >>

DisputeSteps == << Do("findDispute", Complaint), Do("order", Complaint), Do("dispute", Complaint) >>

InOrder(S) == CHOOSE q \in [1 .. Cardinality(S) -> S] : \A u \in S : \E n \in DOMAIN q : q[n] = u

Main ==
  << Do("admin", Admin), Do("applicant", Applicant), Do("application", Applicant) >>
    \o Each(InOrder(Categories), LAMBDA c : << Do("category", c) >>)
    \o Each(InOrder(Sellers), SellerSteps)
    \o Each(InOrder(Reviewers), LAMBDA r : << Do("reviewer", r) >>)
    \o Each(Reviews, ReviewSteps)
    \o DisputeSteps
    \o Each(InOrder(AllGoods), LAMBDA g : << Do("sync", g) >>)

Runs(what) == at # 0 /\ Main[at].do = what
On == Main[at].on

Goto(n) == at' = IF n > Len(Main) THEN 0 ELSE n

(* A findFirst that finds skips the creates that hang on it. *)
Onward == Goto(at + 1) /\ UNCHANGED << runs, kills >>
Looked(found, creates) ==
  /\ Goto(IF found THEN at + 1 + creates ELSE at + 1)
  /\ UNCHANGED << runs, kills, tables >>

-----------------------------------------------------------------------------
(* The script *)

Start ==
  /\ at = 0
  /\ runs < MaxRuns
  /\ at' = 1 /\ runs' = runs + 1
  /\ UNCHANGED << kills, tables >>

Kill ==
  /\ at # 0
  /\ at' = 0 /\ kills' = kills + 1
  /\ UNCHANGED << runs, tables >>

(* upsert with update: {}, and a find before a create with a unique key. *)
Upsert_Resets(table, key, value) == [table EXCEPT ![key] = value]
Upsert(table, key, value) ==
  IF table[key] = Absent THEN [table EXCEPT ![key] = value] ELSE table

(* upsertAdmin alone changes a row that is there: the role. *)
UpsertAdmin ==
  /\ Runs("admin")
  /\ role' = [role EXCEPT ![On] = "ADMIN"]
  /\ UNCHANGED << profile, product, stock, lots, orders, reviewed, dispute, index, categories >>

UpsertUser ==
  /\ \/ Runs("applicant") /\ role' = Upsert(role, On, "CUSTOMER")
     \/ Runs("reviewer") /\ role' = Upsert(role, On, "CUSTOMER")
     \/ Runs("seller") /\ role' = Upsert(role, On, "SELLER")
  /\ UNCHANGED << profile, product, stock, lots, orders, reviewed, dispute, index, categories >>

UpsertProfile ==
  /\ \/ Runs("application") /\ profile' = Upsert(profile, On, "PENDING")
     \/ Runs("profile") /\ profile' = Upsert(profile, On, "APPROVED")
  /\ UNCHANGED << role, product, stock, lots, orders, reviewed, dispute, index, categories >>

(* A row is found by its slug; one of the same name under another slug      *)
(* makes the create fail, and the script with it.                           *)
HasSlug(c) == \E row \in categories : row.slug = c
NameTaken(c) == ~HasSlug(c) /\ \E row \in categories : row.name = c

UpsertCategory ==
  /\ Runs("category") /\ ~NameTaken(On)
  /\ categories' = IF HasSlug(On) THEN categories
                   ELSE categories \union {[name |-> On, slug |-> On]}
  /\ UNCHANGED << role, profile, product, stock, lots, orders, reviewed, dispute, index >>

Abort ==
  /\ Runs("category") /\ NameTaken(On)
  /\ at' = 0
  /\ UNCHANGED << runs, kills, tables >>

UpsertProduct ==
  /\ Runs("product")
  /\ product' = Upsert(product, On, "ACTIVE")
  /\ UNCHANGED << role, profile, stock, lots, orders, reviewed, dispute, index, categories >>

UpsertInventory ==
  /\ Runs("inventory")
  /\ stock' = Upsert(stock, On, IF On \in Lots THEN 1 ELSE FirstStock)
  /\ UNCHANGED << role, profile, product, lots, orders, reviewed, dispute, index, categories >>

(* The seeded auction takes nothing out of quantityAvailable. *)
CreateAuction ==
  /\ Runs("auction")
  /\ lots' = [lots EXCEPT ![On].live = @ + 1]
  /\ UNCHANGED << role, profile, product, stock, orders, reviewed, dispute, index, categories >>

(* The order is committed before the review or the dispute it is for. *)
CreateOrder ==
  /\ Runs("order")
  /\ orders' = [orders EXCEPT ![On] = @ + 1]
  /\ UNCHANGED << role, profile, product, stock, lots, reviewed, dispute, index, categories >>

CreateReview ==
  /\ Runs("review")
  /\ reviewed' = reviewed \union {On}
  /\ UNCHANGED << role, profile, product, stock, lots, orders, dispute, index, categories >>

CreateDispute ==
  /\ Runs("dispute")
  /\ dispute' = "UNDER_REVIEW"
  /\ UNCHANGED << role, profile, product, stock, lots, orders, reviewed, index, categories >>

(* syncProductToSearch reads the row again; a failure is a warning. *)
Sync ==
  /\ Runs("sync")
  /\ \/ product[On] = "ACTIVE" /\ index' = index \union {On}
     \/ index' = index
  /\ UNCHANGED << role, profile, product, stock, lots, orders, reviewed, dispute, categories >>

Look_Blind(x) == FALSE
Look(x) == x \in reviewed

Find ==
  \/ Runs("findAuction") /\ Looked(lots[On].live > 0, 1)
  \/ Runs("findReview") /\ Looked(Look(On), 2)
  \/ Runs("findDispute") /\ Looked(dispute # Absent, 2)

Write ==
  \/ UpsertAdmin \/ UpsertUser \/ UpsertProfile \/ UpsertCategory
  \/ UpsertProduct \/ UpsertInventory
  \/ CreateAuction \/ CreateOrder \/ CreateReview \/ CreateDispute \/ Sync

SeedStep == Find \/ (Write /\ Onward) \/ Abort

-----------------------------------------------------------------------------
(* Meanwhile, in the application *)

Sell(g) ==
  /\ product[g] = "ACTIVE" /\ stock[g] # Absent /\ stock[g] > 0
  /\ stock' = [stock EXCEPT ![g] = @ - 1]
  /\ UNCHANGED << role, profile, product, lots, orders, reviewed, dispute, index, categories >>

Archive(g) ==
  /\ product[g] = "ACTIVE"
  /\ product' = [product EXCEPT ![g] = "ARCHIVED"]
  /\ index' \in {index, index \ {g}}
  /\ UNCHANGED << role, profile, stock, lots, orders, reviewed, dispute, categories >>

(* The sweeper ends a seeded lot: nobody scheduled a job for it. *)
EndAuction(g) ==
  /\ lots[g].live > 0
  /\ lots' = [lots EXCEPT ![g] = [live |-> @.live - 1, over |-> @.over + 1]]
  /\ UNCHANGED << role, profile, product, stock, orders, reviewed, dispute, index, categories >>

(* review: approval makes the applicant a seller. *)
ReviewApplication ==
  /\ profile[Applicant] = "PENDING"
  /\ \/ /\ profile' = [profile EXCEPT ![Applicant] = "APPROVED"]
        /\ role' = [role EXCEPT ![Applicant] = "SELLER"]
     \/ profile' = [profile EXCEPT ![Applicant] = "REJECTED"] /\ role' = role
  /\ UNCHANGED << product, stock, lots, orders, reviewed, dispute, index, categories >>

(* The first seeded order of a pair can be reviewed by hand. *)
ReviewByHand(x) ==
  /\ orders[x] > 0
  /\ reviewed' = reviewed \union {x}
  /\ UNCHANGED << role, profile, product, stock, lots, orders, dispute, index, categories >>

Rule ==
  /\ dispute = "UNDER_REVIEW"
  /\ dispute' = "RESOLVED"
  /\ UNCHANGED << role, profile, product, stock, lots, orders, reviewed, index, categories >>

(* CategoriesService.create and update; names and slugs are unique. *)
CategoryRow == [name : Categories \union {Elsewhere}, slug : Categories \union {Elsewhere}]
Distinct(some) ==
  \A x, y \in some : x.name = y.name \/ x.slug = y.slug => x = y

EditCategory(old, row) ==
  /\ old \subseteq categories /\ row \notin categories
  /\ categories' = (categories \ old) \union {row}
  /\ Distinct(categories')
  /\ UNCHANGED << role, profile, product, stock, lots, orders, reviewed, dispute, index >>

CreateCategory(row) == EditCategory({}, row)
RenameCategory(old, row) == EditCategory({old}, row)

Use ==
  \/ \E g \in AllGoods : Sell(g) \/ Archive(g) \/ EndAuction(g)
  \/ ReviewApplication \/ Rule
  \/ \E x \in Pairs : ReviewByHand(x)
  \/ \E row \in CategoryRow : CreateCategory(row)
  \/ \E old \in categories, row \in CategoryRow : RenameCategory(old, row)

-----------------------------------------------------------------------------
SeedInit ==
  /\ role = [u \in SeedUsers |-> Absent]
  /\ profile = [u \in SeedUsers |-> Absent]
  /\ product = [g \in AllGoods |-> Absent]
  /\ stock = [g \in AllGoods |-> Absent]
  /\ lots = [g \in AllGoods |-> [live |-> 0, over |-> 0]]
  /\ orders = [x \in Pairs |-> 0]
  /\ reviewed = {}
  /\ dispute = Absent
  /\ index = {}
  /\ categories = {}
  /\ at = 0 /\ runs = 0 /\ kills = 0

SeedNext == Start \/ Kill \/ SeedStep \/ (Use /\ UNCHANGED script)

SeedSpec == SeedInit /\ [][SeedNext]_seedVars

-----------------------------------------------------------------------------
(* What is there stays as it is: only the administrator's role is set again. *)
Untouched ==
  /\ role[Admin] # Absent => role'[Admin] = "ADMIN"
  /\ \A u \in SeedUsers \ {Admin} : role[u] # Absent => role'[u] = role[u]
  /\ \A u \in SeedUsers : profile[u] # Absent => profile'[u] = profile[u]
  /\ \A g \in AllGoods :
       /\ product[g] # Absent => product'[g] = product[g]
       /\ stock[g] # Absent => stock'[g] = stock[g]
       /\ lots[g].live > 0 => lots'[g] = lots[g]
  /\ dispute # Absent => dispute' = dispute
  /\ categories \subseteq categories'

(* The script may be run again at any time: a statement of it changes no    *)
(* row that a person or an earlier run left (the administrator's role apart),*)
(* and a pair has more than one seeded order only for each time the script   *)
(* was killed, which is between the order and what the order is for          *)
(* (seed.ts, upsert helpers, seedReviewsForProduct, seedDispute).           *)
SafeToRepeat ==
  [][/\ at' # at => Untouched
     /\ \A x \in Pairs : orders'[x] <= 1 + kills]_seedVars

=============================================================================
