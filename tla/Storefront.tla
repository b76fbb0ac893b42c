----------------------------- MODULE Storefront -----------------------------
(***************************************************************************)
(* The catalogue with the two copies shoppers read: the Redis cache of     *)
(* product pages and of listings (ProductsService, CacheService), and the  *)
(* search index that the search-sync worker keeps (SearchSyncConsumer).    *)
(*                                                                         *)
(* Redis may fail any command: CacheService logs and goes on.  Meilisearch *)
(* may fail too, and the job is then retried after other jobs, or parked   *)
(* once its attempts are spent (QueueJob counts them).                     *)
(*                                                                         *)
(* A listing is cached under a key that holds the namespace's version, so  *)
(* only the variant under the current version is state; the others are     *)
(* orphans that expire.                                                    *)
(***************************************************************************)
EXTENDS Catalog

CONSTANTS
  Viewers,  \* reads of a page or a listing that run at once
  Workers,  \* search-sync workers, one for each instance
  NoCopy    \* no copy, no document

VARIABLES
  page,     \* page[p]: the rev cached under the key of p's page
  listing,  \* the listing cached under the current version
  version,  \* the version of the namespace
  lost,     \* Redis refused a bump of the version, and none came after it
  viewer,   \* viewer[v]: a read in progress
  index,    \* index[p]: the rev of p's search document
  work,     \* work[w]: the job worker w runs and what it is about to write
  parked,   \* the products one of whose jobs used up its attempts
  crossed   \* history: the products the last of whose jobs to start found
            \* another worker about to write an older row

cacheVars == << page, listing, version, lost, viewer >>
searchVars == << index, work, parked, crossed >>
storefrontVars == << catalogVars, cacheVars, searchVars >>

-----------------------------------------------------------------------------
(* Types *)

Revs == 0 .. MaxRev
Listings == SUBSET [product : Products, rev : Revs]

ViewerState ==
  {Free}
    \union [pc : {"versioned"}, version : Nat]
    \union [pc : {"listing"}, version : Nat, rows : Listings]
    \union [pc : {"page"}, product : Products, rev : Revs]

WorkerState ==
  {Free} \union [pc : {"syncing"}, event : Event, doc : Revs \union {NoCopy}]

StorefrontTypeOK ==
  /\ CatalogTypeOK
  /\ page \in [Products -> Revs \union {NoCopy}]
  /\ listing \in Listings \union {NoCopy}
  /\ version \in Nat
  /\ lost \in BOOLEAN
  /\ viewer \in [Viewers -> ViewerState]
  /\ index \in [Products -> Revs \union {NoCopy}]
  /\ work \in [Workers -> WorkerState]
  /\ parked \in SUBSET Products
  /\ crossed \in SUBSET Products

-----------------------------------------------------------------------------
(* Invalidation: invalidateCatalogCache after the commit *)

Left(r, what) ==
  /\ slot[r].pc = "written"
  /\ what \in slot[r].left
  /\ LET rest == slot[r].left \ {what}
     IN slot' = [slot EXCEPT ![r] =
                   IF rest = {} THEN Free ELSE [slot[r] EXCEPT !.left = rest]]
  /\ UNCHANGED << product, stock, events >>

DeletePage(r) ==
  /\ Left(r, "page")
  /\ \/ page' = [page EXCEPT ![slot[r].product] = NoCopy]
     \/ page' = page
  /\ UNCHANGED << listing, version, lost, viewer, searchVars >>

BumpListings(r) ==
  /\ Left(r, "listings")
  /\ \/ version' = version + 1 /\ listing' = NoCopy /\ lost' = FALSE
     \/ lost' = TRUE /\ UNCHANGED << version, listing >>
  /\ UNCHANGED << page, viewer, searchVars >>

Expire ==
  /\ \/ listing' = NoCopy /\ page' = page
     \/ /\ \E p \in Products : page' = [page EXCEPT ![p] = NoCopy]
        /\ listing' = listing
  /\ << page', listing' >> # << page, listing >>
  /\ UNCHANGED << catalogVars, version, lost, viewer, searchVars >>

-----------------------------------------------------------------------------
(* Reading through the cache *)

Look(v, state) == viewer' = [viewer EXCEPT ![v] = state]

(* findAllForCatalog: getVersion answers 0 when Redis fails. *)
ReadVersion(v) ==
  /\ viewer[v].pc = "idle"
  /\ \E n \in {version, 0} : Look(v, [pc |-> "versioned", version |-> n])
  /\ UNCHANGED << catalogVars, page, listing, version, lost, searchVars >>

ListedRows ==
  {[product |-> p, rev |-> product[p].rev] :
     p \in {q \in Products : product[q].status = "ACTIVE"}}

Hit(v) ==
  /\ viewer[v].pc = "versioned"
  /\ viewer[v].version = version => listing # NoCopy
  /\ Look(v, Free)
  /\ UNCHANGED << catalogVars, page, listing, version, lost, searchVars >>

ReadListing(v) ==
  /\ viewer[v].pc = "versioned"
  /\ Look(v, [pc |-> "listing", version |-> viewer[v].version, rows |-> ListedRows])
  /\ UNCHANGED << catalogVars, page, listing, version, lost, searchVars >>

(* The key holds the version read at the start. *)
ListingKeyIsCurrent_Reread(v) == TRUE
ListingKeyIsCurrent(v) == viewer[v].version = version

StoreListing(v) ==
  /\ viewer[v].pc = "listing"
  /\ \/ ListingKeyIsCurrent(v) /\ listing' = viewer[v].rows
     \/ listing' = listing
  /\ Look(v, Free)
  /\ UNCHANGED << catalogVars, page, version, lost, searchVars >>

(* findByIdForCatalog, on a miss: an archived product has a page too. *)
ReadPage(v, p) ==
  /\ viewer[v].pc = "idle"
  /\ Exists(p)
  /\ Look(v, [pc |-> "page", product |-> p, rev |-> product[p].rev])
  /\ UNCHANGED << catalogVars, page, listing, version, lost, searchVars >>

StorePage(v) ==
  /\ viewer[v].pc = "page"
  /\ \/ page' = [page EXCEPT ![viewer[v].product] = viewer[v].rev]
     \/ page' = page
  /\ Look(v, Free)
  /\ UNCHANGED << catalogVars, listing, version, lost, searchVars >>

-----------------------------------------------------------------------------
(* The search-sync worker *)

(* syncProduct reads the row again; ProductArchived deletes unseen. *)
Document_TrustsEvent(e) ==
  IF e.kind = "archived" THEN NoCopy ELSE e.id
Document(e) ==
  IF e.kind = "archived" \/ Archived(e.product)
  THEN NoCopy ELSE product[e.product].rev

(* What the last row shows, or nothing. *)
Shows(p, doc) == doc = NoCopy \/ (~Archived(p) /\ doc = product[p].rev)

(* A worker is about to write an older row of p: nothing orders the writes   *)
(* of two instances.                                                         *)
Running(w, p) == work[w].pc = "syncing" /\ work[w].event.product = p
Outdated(p) == \E u \in Workers : Running(u, p) /\ ~Shows(p, work[u].doc)

(* Retries wait out a backoff, so the order of the events is lost. *)
TakeJob(w, e) ==
  /\ work[w].pc = "idle"
  /\ e \in events
  /\ \A u \in Workers : work[u].pc = "syncing" => work[u].event # e
  /\ work' = [work EXCEPT ![w] =
                [pc |-> "syncing", event |-> e, doc |-> Document(e)]]
  /\ crossed' = IF Outdated(e.product) THEN crossed \union {e.product}
                                       ELSE crossed \ {e.product}
  /\ UNCHANGED << catalogVars, cacheVars, index, parked >>

(* The document is written, and the marker commits after it, or does not. *)
Sync(w) ==
  /\ work[w].pc = "syncing"
  /\ index' = [index EXCEPT ![work[w].event.product] = work[w].doc]
  /\ \/ events' = events \ {work[w].event}
     \/ events' = events
  /\ work' = [work EXCEPT ![w] = Free]
  /\ UNCHANGED << product, stock, slot, cacheVars, parked, crossed >>

(* What search answers of p's document: the index alone, PostgreSQL is not  *)
(* asked.                                                                   *)
SearchHits(p) == {[product |-> p, rev |-> n] : n \in {index[p]} \ {NoCopy}}

(* Meilisearch is down: the job is retried, or has no attempt left. *)
FailJob(w) ==
  /\ work[w].pc = "syncing"
  /\ \/ events' = events /\ parked' = parked
     \/ /\ events' = events \ {work[w].event}
        /\ parked' = parked \union {work[w].event.product}
  /\ work' = [work EXCEPT ![w] = Free]
  /\ UNCHANGED << product, stock, slot, cacheVars, index, crossed >>

-----------------------------------------------------------------------------
StorefrontInit ==
  /\ CatalogInit
  /\ page = [p \in Products |-> NoCopy]
  /\ listing = NoCopy
  /\ version = 0
  /\ lost = FALSE
  /\ viewer = [v \in Viewers |-> Free]
  /\ index = [p \in Products |-> IF product[p].status = "ACTIVE" THEN 0 ELSE NoCopy]
  /\ work = [w \in Workers |-> Free]
  /\ parked = {}
  /\ crossed = {}

StorefrontNext ==
  \/ CatalogNext /\ UNCHANGED << cacheVars, searchVars >>
  \/ \E r \in Slots : DeletePage(r) \/ BumpListings(r)
  \/ Expire
  \/ \E v \in Viewers :
       \/ ReadVersion(v) \/ Hit(v) \/ ReadListing(v) \/ StoreListing(v)
       \/ StorePage(v)
       \/ \E p \in Products : ReadPage(v, p)
  \/ \E w \in Workers :
       \/ \E e \in events : TakeJob(w, e)
       \/ Sync(w) \/ FailJob(w)

StorefrontSpec == StorefrontInit /\ [][StorefrontNext]_storefrontVars

-----------------------------------------------------------------------------
(* Properties *)

(* The cached listing shows every product as its last write left it, unless *)
(* a write has still to bump the version or Redis refused a bump: a reader   *)
(* overtaken by a write stores what it read where nobody looks              *)
(* (findAllForCatalog, invalidateCatalogCache).                             *)
ListingIsFresh ==
  \/ listing \in {NoCopy, ListedRows}
  \/ lost
  \/ \E r \in Slots : slot[r].pc = "written" /\ "listings" \in slot[r].left

(* Nothing of p is on its way to the index, and nothing of it was given up. *)
Handled(p) ==
  /\ \A e \in events : e.product # p
  /\ \A w \in Workers : ~Running(w, p)
  /\ p \notin parked

(* Whatever order retries leave the events in, once they are handled no     *)
(* archived product is found by a search, and no hit shows an older row     *)
(* than the last, unless the last worker to read the row did so while       *)
(* another was about to write an older one (SearchSyncConsumer.syncProduct, *)
(* SearchService.search).                                                   *)
SearchSettles ==
  \A p \in Products \ crossed : Handled(p) =>
    \A hit \in SearchHits(p) : ~Archived(p) /\ hit.rev = product[p].rev

(* The only restore by which a seller undoes a takedown is one that had     *)
(* read the row before it (ProductsService.restore, moderate).              *)
TakedownStands ==
  [][\A r \in Slots, p \in Products :
       /\ slot[r].pc = "checked" /\ slot[r].product = p
       /\ slot[r].op = "restore"
       /\ Archived(p) /\ product[p].moderated
       /\ product'[p].status = "ACTIVE" /\ slot'[r].pc = "written"
       => slot[r].seen.rev < product[p].rev /\ ~slot[r].seen.moderated]_storefrontVars

=============================================================================
