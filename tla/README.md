# A verification of the candle shop

TLA+ models of the shop's core (a Django storefront, a staff dashboard and a
REST API over one PostgreSQL database, `README.md:8`), TLC runs that check them
on small instances, and TLAPS proofs that hold for every instance. All paths
below are relative to the repository.

## The system

The program is a set of request handlers. A handler runs in one worker process,
reads and writes database rows, and shares nothing else with the other handlers
except the database, the cache and, through the browser, the session. Django runs
in autocommit: only the code inside `transaction.atomic()` is a transaction, at
READ COMMITTED, and everything a handler reads outside of it may be stale by the
time it is used. That is where nearly all of the hard behaviour comes from.

| Component | State | Operations | Correct when |
|---|---|---|---|
| Checkout (`orders/services.py`, `storefront/views.py` `checkout`, `orders/views.py` `OrderViewSet`) | `stock_quantity` of products and variants, orders and their items, the cart | read the cart; reserve each row under `FOR UPDATE`; write order and items; empty the cart; commit | no row is oversold, stock and orders balance, an order is complete or absent, requests do not block one another for ever, the order is what the cart held |
| Customer cart (`storefront/views.py` `cart_*`, `CartViewSet`, `_merge_session_cart`) | cart lines, session cart | add, update, remove, clear, merge at login | one line per product and variant, units neither invented nor brought back, an anonymous cart merged once |
| Order desk (`storefront/dashboard.py` `dashboard_order`) | an order's status, payment status, confirmation | confirm, verify or reject payment, process, ship, deliver, cancel with restock | a cancelled order is restocked, once; payment facts are not invented or lost |
| eSewa payment (`_start_esewa_payment`, `esewa_callback`, `orders/gateways/`) | payment status, `gateway_txn_id` | hand out the signed form, verify signature, ask eSewa, check amount, settle under the row lock | only paid orders are verified, each confirmed once, a transaction settles one order |
| Product editing (`_add_product`, `_edit_product`, `catalog/views.py`) | product, variants, photos, stock numbers | add, edit, synchronise variants and photos, PATCH | units are miscounted only for a known reason, one cover, ordered variants stay, an SKU names one variant |
| Sign-in, sign-up and the attempt limiter (`config/ratelimit.py`, `login_view`, `register_view`) | attempt counter and lock in the cache, the session | is_locked, register_failure, clear | guesses are bounded however requests race |
| Customer preview | one flag in a staff session | start, return | only a staff session carries it |
| Address book (`accounts/models.py` `Address.save`, `accounts/views.py`) | `is_default` | create, PATCH, delete | one default at most, none only for a reason |
| Seller profiles (`accounts/serializers.py`, `accounts/views.py`, `accounts/admin.py`, `_store_profile`, `ProductViewSet`) | one profile per user, `is_seller_approved`, the `seller` of a product | register, approve, make and delete a profile, add a product | no product loses its seller, a new store profile comes with its first product |
| Payment screenshots (`config/storage.py`, the views, `relocate_payment_screenshots.py`) | files in two roots, `payment_screenshot` | attach, serve, relocate | an order shows its own picture, no old picture is lost |
| Storefront pages (`storefront/views.py` `shop`, `detail`, `home`; `sitemaps.py`) | none; products and categories underneath | count, slice, turn the page, index | nothing is skipped or repeated without a reason, and what a sitemap names is there unless it changed since |
| Sales figures (`dashboard_report`, `dashboard_orders`) | none; orders underneath | one aggregate statement after another | the figures of a page fit together |
| Catalogue, wishlist and accounts API, SEO text, admin, JWT, settings, deployment | see "Not modelled" | single-row forms, framework code, text | - |

Interactions: checkout, the cart endpoints, the order desk and product editing
meet on the stock rows; checkout and the cart endpoints on the cart lines; the
order desk and the callback on the order row. Listings, sitemaps and sales
figures read rows that all the others write. Seller profiles meet the products at
their foreign key. The limiter, the address book and the screenshots share no
rows with the rest. The dashboard reads an order or a product, lets a person
think, and saves what it read.

The hard behaviours, each at its line, are the `hazards` of `PROJECT.json`.

## Modules

    StockLedger          what checkout promises about stock, atomically
      ^ implemented by
    Checkout             concurrent checkouts with carts and row locks
      ^ EXTENDS                 MCCheckout (instances), CheckoutProofs
    Inventory            what the shop promises when staff work on stock too
      ^ implemented by
    StockRoom            checkouts, restocks and edits on the same stock rows
      ^ EXTENDS                 MCStockRoom (instance), StockRoomProofs
    OrderDesk            staff dashboard and eSewa callbacks on placed orders
      ^ EXTENDS                 MCOrderDesk (instances), OrderDeskProofs
    CartLines            one cart row by row, the anonymous cart and the login
      ^ EXTENDS                 MCCartLines (instances), CartLinesProofs
    Catalogue            editing one product while its variants are bought
      ^ EXTENDS                 MCCatalogue (instances), CatalogueProofs
    FrontDoor            sign-in, sign-up, attempt limiter, customer preview
    AddressBook          one customer's addresses from several devices
    Screenshots          uploads, private storage, relocation
    Sellers              seller profiles and the products added under them
      ^ EXTENDS                 MCAccounts (the four side by side), AccountsProofs
    Listing              shop and category pages while staff change products
      ^ EXTENDS
    Sitemap              the sitemap, read and followed meanwhile
    SalesReport          the report and the figures above the order list
      ^ EXTENDS                 MCStorefront (the three side by side), StorefrontProofs
    RowFacts             lemmas on tables, sort orders and sums, used by the proofs

Some definitions are preceded by a variant of themselves marked "Mutant": the
same code with a plausible mistake. Nothing uses it; put in the place of the
definition, it makes a property of a run fail (`mutants` of `PROJECT.json`),
which shows that the property depends on that code.

`MCAccounts` and `MCStorefront` only put components side by side that do not
affect one another: `side` chooses at the start which of them a behaviour
exercises.

### Checkout

One worker per request in flight. `phase` follows the handler:

| phase | the handler is |
|---|---|
| idle | not serving anyone |
| read | holding the list of cart lines, before its transaction (`views.py:714`, `orders/views.py:70`) |
| reserve | in `_reserve_stock`, about to lock the next row in sorted order |
| write | done reserving, about to insert the order and delete the cart (`services.py:103-146`) |
| commit | running the deferred foreign-key checks of COMMIT |

A row is named by the pair the code sorts by, `<<product.pk, variant.pk or 0>>`;
`lines` is the cart as a quantity per row. `stock`, `orders` and `cart` are the
committed database. What a transaction has written and not committed is derived
from what it holds: a row in `locked[w]` is decremented by `lines[w]` at commit,
a cart row in `cleared[w]` is deleted at commit, and a rollback forgets both.

Locks are PostgreSQL's. `SELECT ... FOR UPDATE` (`Reserve`) conflicts with any
other lock on the row and holds until the transaction ends. The filter
`stock_quantity__gte=qty` is evaluated first on committed data, so a row that
does not cover the line is refused without waiting (`OutOfStock`), and is
evaluated again after a wait. Foreign keys are `DEFERRABLE INITIALLY DEFERRED`,
as Django creates them: `CheckForeignKey` takes `FOR KEY SHARE` on each line's
product row at commit. Only the product row matters: a variant's own row is
already locked by the same transaction, and users, sellers and categories are
never locked `FOR UPDATE`.

A crash, a form error, missing stock and a deadlock abort all undo everything:
one operator, `Rollback`.

`raced[w]` is a history variable: the cart changed since `w` read it.

Abstracted: prices, addresses and payment fields; the screenshot; the order
number (a fresh UUID). A cart line is a quantity per row: two lines for the same
row, which the database lets in when the variant is NULL, reserve the sum of
their quantities just as one line would. A line inserted while a
cart deletion waits for another checkout of the same customer counts as seen by
that deletion; both customers' requests are then `raced`. A cart insertion's own
foreign-key check, which may wait for a checkout to end, is a delay and is left
to the interleaving.

### OrderDesk

Orders start as checkout leaves them: PENDING, unpaid, stock reserved. A
dashboard POST is two steps because the code is: an unlocked read
(`OpenOrder`, `dashboard.py:717`), then a transaction that writes the four
editable columns and restocks (`SaveOrder`, `dashboard.py:741-755`). The code
allows every action in every status, and so does the model.
A callback is three: the unlocked read (`Receive`), the gateway's verdict
(`VerifyOk`, or `Abandon` for a bad signature, an unpaid or underpaid order, a
failed or timed-out status request, or a dead worker) and the transaction on the
locked row (`Settle`). `StartPayment` is checkout's last step, which hands
the signed form to the browser or is left out when the gateway is not ready;
`PayAtEsewa` is the outside world. Callbacks may come
before the payment, repeatedly, together, or never.

`restocks[o]` counts how often an order's lines went back to stock: the
quantities are fixed by then, so the count is all that matters.
`vouched`, `confirms` and `reopened` are history variables.

### CartLines

Checkout takes a cart endpoint as one committed write; this module opens it up.
The endpoints run in autocommit, so every statement is a transaction of its own:
`get_or_create` is a SELECT (`Get`), an INSERT (`Insert`) and, after an
IntegrityError, a second SELECT; the quantity is then computed in memory and
written back (`Save`). An endpoint of the storefront and the one of the API that
does the same share an action. `line` keeps every row ever inserted, by primary
key, with quantity 0 for a deleted one, so that a request that read a row can
find it gone. `UniqueViolation` is the constraint as PostgreSQL enforces it: a
NULL variant never violates it.

The anonymous cart lives in one browser's session. `StartSessionAdd` loads it,
`SaveSession` writes it back with the response. `SignIn` is Django's `login()`,
which deletes the session it loaded and continues under a new key that
the browser learns with the response (`EndMerge`); a request still holding the old
key can no longer save it. Sign-up ends in the same two calls as sign-in. In
between, `MergeEntry` takes the entries one at a time through the same `Get`,
`Insert` and `Save`. `Fail` is any request that ends in an error, also half way
through a merge.

Abstracted: the order of the entries, the stock test that refuses an item which is sold
out (an addition that does nothing), several tabs with different sessions. The
`Cart` row itself is created once per user and never deleted.

### Catalogue

One product. A page (`OpenPage`) shows the stored variants and photos; the POST
(`Submit`) is validated against the rows as they are then, without a lock; the
save is one transaction that updates the product row first, so that saves
exclude one another (`BeginSave`, `Saving`), and rereads the rows. `Buy` is a
checkout that commits an order item for a variant. The deletion of variants has
three points where an order item matters: the PROTECT query (`BeginSave`), the
DELETE that waits for a checkout holding the row (`DeleteVariants`; from then on
`Buy` waits), and the deferred foreign-key check of `Commit`. Rows
deleted stay in `variant` and `photo` with `live` false, so that stale pages and
order items can name them.

Abstracted: names, prices and the flags of a row, which no property is about; an
`sku` is the number in `<product.sku>-VNN`. The stock numbers are in `StockRoom`.

### StockRoom

`Checkout` composed with everyone else who writes `stock_quantity`. A worker has
a `job`: a checkout, a dashboard POST on an order, or a form (the edit page of a
product, an API PATCH of one row). `todo` is the rows the job will still write,
in the order the code takes them, `held` the rows it has locked, and `shared` those
it holds for a foreign-key check:

| job | rows, in which order | writes at commit |
|---|---|---|
| checkout | the lines, sorted (`services.py:42`) | stored number minus the line |
| cancellation | the items in any order, as the query at `dashboard.py:747` has none | stored number plus the line |
| form | the product, then its variants as listed (`dashboard.py:491`, `:501`), or one row | the number that was typed, or shown when the page was opened |

A checkout's COMMIT first checks the product of each of its items
(`CheckForeignKey`), as in `Checkout`: `FOR KEY SHARE` waits for a row that
another job has locked with `SELECT ... FOR UPDATE`, or with an UPDATE of a key
column, but not for an UPDATE of other columns. A cancellation never writes a key;
a form does when it saves another slug or SKU than the row has (`rekeys`), and then
both conflicts arise (`WriteConflict`, `CheckConflict`).

`OpenOrder` and `OpenForm` are the unlocked reads before, so the copies of the
order and of the numbers are stale by the time they are saved. `SaveOrder`
updates the order's row first; two saves of one order wait for each other there. A
crash, a refused form and a deadlock abort undo everything (`Drop`), since each
of these writers runs in a transaction.

`Inventory` is the abstract specification: an order takes all its lines at once,
a cancellation returns all of them at once, a count by staff touches one product
only. Carts stay in `Checkout`, the order's other columns in `OrderDesk`.

`OnHand` counts the units on the shelf and in orders; an order whose lines came
back, however often, holds none, so the units that a second return makes are seen.

### FrontDoor

A browser has one form request at a time; `request[b].step` is the point the
handler has reached between cache operations. `Attempt` is the `is_locked`
test; `Increment`, `StartWindow`, `Lock` and `Forget` are the `incr`, `set`,
`set`, `delete` of `register_failure` (`ratelimit.py:67-76`), `ClearCount` and
`ClearLock` those of `clear`. Entries expire at any time, and a restart of the
server process forgets them (the default cache lives in the process). Sign-up
signs the browser in before it clears the limiter, sign-in afterwards, as the
views do. `failures[k]` is a history variable: failed attempts in the window.

### AddressBook

One customer, several devices. `Address.save` runs outside a transaction, so its
statements interleave: `UnsetOthers` or `CheckFirst`, then `Write`, which the
partial unique index may refuse (`Refuse`). A PATCH writes back the copy it read
(`StartPatch`), and inserts again an address that was deleted meanwhile.
`abandoned` is a history variable: why there may be no default.

### Screenshots

A name is relative to a root; `row[o]` is the column, `private` and `public` are
the two roots. `StoreFile` creates the file under a name that is free in the
private root, `FinishFile` writes it, `Record` saves the row, and a request
may die after each. The relocation takes the query's rows as they were at its start
and does for each the existence tests and then `shutil.move`: a rename on one file
system (`Rename`), a copy and an unlink across two (`StartCopy`,
`FinishCopy`, `Unlink`). It may be interrupted anywhere and run again.
`contested` is a history variable: names an upload was given between the
relocation's test and its move.

### Sellers

Each worker's `job` is an addition of a product or a deletion of a profile.
`StartAdd` tests the permission and looks for the profile the product will go
under: the user's own, else the oldest (`_store_profile`, `_seller_profile`).
When there is none, `MakeProfile` inserts one, without looking again. From the
API each statement commits by itself; from the dashboard the profile is `pending`
in the transaction until `AddProduct` commits both, and a second insertion for
the same user waits (`Inserting`) and then fails (`MakeTwice`). A deletion is
three steps: Django's search for protected products (`StartDelete`), the DELETE
(`DeleteRow`), and the commit with the database's deferred foreign-key check
(`CommitDelete`). `Register` and `FinishRegistration` are the two saves of
`RegisterSerializer.create`.

Abstracted: products of one seller are one, since none is ever deleted; the look
for the user's own profile and that for the oldest are one step; what the admin's
product form can reassign is left out.

### Listing

Products are numbered by creation. A page of a listing is a COUNT and a
slice, and the visitor's next page is another such request (`walk`). Where the
ORDER BY leaves ties, any ranking that respects it may be the database's answer
to one query. Staff create, edit, withdraw and move products and switch
categories on and off meanwhile. `steady`, `removed`, `added`, `torn` and `tied`
record what changed during the walk. Search terms and price filters only narrow
a listing and are left out, and so are the home page and the rows of related
products, which are one query each.

### Sitemap

`/sitemap.xml` is put together in the order of `SITEMAPS` (`config/urls.py:15`):
Django's paginator counts the products (`CountProducts`) and takes that many, by
slug (`SliceProducts`), and then the categories are listed with a count of their
products (`ReadCategories`). `crawl` is one such response, which a crawler follows
later. Staff go on meanwhile, as in `Listing`, and `Recorded` keeps what their
changes mean to it: `steady` and `came`, the products that stayed to be named
between count and slice and those that came; `touched`, `toggled` and `left`, what
changed after it was named. Slugs are not modelled: any part of the products that
has the right size may be the first by slug. The static pages and the slug "demo"
are left out.

### SalesReport

A `page` under construction, one statement at a time, with the figures read so
far; orders are placed, cancelled and revived in between, and midnight passes.
The tables of days and of products are cut (`DayLimit`, `TopLimit`), the latter
with ties left to the database (`TopRows`). `StatsRows` is the grouping of
`_sales_stats` as the database runs it, with the creation time in the GROUP BY. `grown`, `shrunk` and `midnight` record
what happened while the page was read. The CSV export is formatting.

## Runs

| Run | Instance | Checks |
|---|---|---|
| `checkout_plain` | 2 customers, 2 workers, 3 rows, products sold one way, quantity 1, symmetry | `TypeOK`, `LedgerBalanced`, `NoWaitCycle`, `CleanCheckout`, `ImplementsLedger` |
| `checkout_mixed` | 1 customer, 2 workers, one product sold both ways, quantity 1 | `NoOversell`, `DeadlockNeedsBothWays`, `RequestsEnd` |
| `order_desk` | 1 order, 2 staff, 2 handlers, 3 posts, symmetry | `TypeOK`, `VerifiedIsBacked`, `CancelledIsRestocked`, `ConfirmedOnce`, `OnlyStaleSavesUnverify`, `OnlyStaffRevive` |
| `double_restock` | 1 order, 2 staff, 2 posts | finds `RestockOnlyIfNotCancelled` violated |
| `cart_lines` | 2 handlers, one product by itself and one variant, quantity 1, 4 requests, symmetry | `TypeOK`, `OneLinePerVariant`, `NothingInvented`, `RemovedStaysRemoved` |
| `duplicate_line` | the same, 2 requests | finds `OneLinePerProduct` violated |
| `catalogue` | 2 editors, 2 edits, up to 2 variants and 2 photos at first, 1 new variant and 1 upload per form, limit 2 photos, symmetry | `TypeOK`, `BoughtVariantsStay`, `SkuNamesOneVariant`, `OneCover`, `SavedAsListed` |
| `stock_room` | 2 workers, a plain product and one sold with and without a variant, 2 carts, 2 orders, 2 desk requests or forms | `TypeOK`, `CyclesExplained`, `MiscountsExplained`, `ImplementsInventory`, `RequestsEnd` |
| `accounts` | door: 3 browsers, 2 keys; book: 3 addresses, 3 devices; files: 2 orders, 2 workers, 3 uploads; sellers: 2 staff, 1 applicant, 2 requests, 3 profiles | `TypeOK`, `GuessesBounded`, `OneDefault`, `DefaultlessExplained`, `ServedIsOwn`, `LegacyKept`, `ProductsHaveSellers`, `ProfileComesWithProduct` |
| `relocate_again` | the same | finds `SkippedIsOwn` violated |
| `storefront` | shop and sitemap: 3 products, 2 categories, 2 changes; figures: 2 orders, 3 products, 2 days, 2 status changes | `TypeOK`, `WalkIsFair`, `SitemapIsFair`, `FiguresAgree` |
| `method_shares` | the same | finds `MethodShares` violated |

Bounds. Stock in `checkout_plain` is 2 and 1, so with two customers each able
to order a unit per checkout, both the last unit and the one before it are
contended, and the number of orders is bounded by the stock itself. Two workers
are enough for every pairwise race and a two-cycle of waits; the proofs cover
longer ones. In `checkout_mixed` one customer holds both requests, which adds
the double submit and the race on the same cart; the stock of the product row and
of its variant is 1 each, which is what the deadlock needs. Three dashboard posts
let a stale save follow a cancellation and a confirmation.

Four requests on a cart (`MaxRequests`) are two additions racing, a removal or
update against them and a merge; removals, `Clear`, `Fail` and withdrawals are
not counted. A quantity of one per request is enough to see a unit added twice,
since the units asked for are counted. Two edits (`MaxEdits`) are what
every race of `catalogue` takes: a stale page against a save. With two variants
and two photos at first, an edit can remove some and keep some. The photo limit is 2
there and the code's 8 nowhere: no guard depends on its value.

In `stock_room` the carts are two pieces of the plain product with the other's
variant, and that variant with its product by itself, so that a row may cover the
first order and not the second, a cancellation shares several rows with a checkout,
and the first cart checks a product row that the second has locked. Two orders (`MaxOrders`)
and two requests of staff (`MaxOpened`) are what a double cancellation, a stale
form and a cycle of waits take; `Counts`, what staff type, is 0 and 2, below and
above what the rows hold.

In `accounts`, two attempts lock (`MaxAttempts`; the code's 5 and 10 change
nothing but the length of a behaviour), five failures per window
(`MaxFailures`) go past what `GuessesBounded` allows three browsers, and the
keys are one of sign-in and one of sign-up. Three addresses let two devices
race over the default of a third. Three uploads (`MaxUploads`) are one that takes
a legacy name, and two for one order; two made-up names are enough for the
storage to find one free. Three profiles (`MaxProfiles`) let one be deleted and two
be made at once, or one by each user.

In `storefront`, pages of two (`PageSize`) make two pages of three products;
two of these share a price and one category is the parent of the other. Two
changes (`MaxChanges`) are one removal and one addition in a walk, or one change
between two statements of the sitemap and one after it. Two orders (`MaxOrders`) of
different totals, the first for one product and the second for three in a table of
two (`TopLimit`), with a tie at the cut, two days (`MaxDay`), a table of one day (`DayLimit`), a chart
of two (`WeekLength`) and two status changes (`MaxMoves`) let an order be
cancelled and revived between statements and midnight pass before the chart.

Deadlock checking (TLC's sense: no successor state) is off, since a shop whose
stock is sold out and carts are empty may stop, and so may orders, carts and
editors when their requests are used up.

Fairness. The `FairSpec` of `Checkout` and of `StockRoom` gives every worker strong fairness on its handler's steps.
The code has no loop that waits: a handler that can proceed does, and a
request blocked on a row lock is queued by PostgreSQL and gets the row when the
holder ends, even if others keep asking for it. A crash is never required, nor
is anything a customer or a member of staff does: a page in a browser may stay open
for ever (`Busy` leaves it out).

## Proofs

Every invariant and every action property of the passing runs is a theorem: TLC
shows it on the instance, the proof for every value of the constants. So are both
refinements.

`CheckoutProofs`, for every set of customers, workers and rows, any initial stock
and any bound on a line:

- `TypeCorrect`: `TypeOK` is inductive.
- `Oversell`: the inductive invariant is `Reserved` (a row is locked by one worker
  at most and still holds what that worker took), over `Holdings` (which
  locks each phase holds). `NoOversell` alone is not inductive: a commit
  subtracts what was checked several steps before.
- `DeadlocksNeedBothWays`, from `SortedLocks` (whatever a
  worker still wants comes after everything it holds) and `OnShelf`. At commit
  a checkout waits only for a product that is sold both ways
  (`CommitWaitsBothWays`). On a cycle without such a wait take the least
  row waited for, in the sort's order (`FirstRow`, by the well-foundedness of the
  naturals): its waiter is itself waited for because of a smaller row that it
  holds and another one wants.
- `NoCheckoutDeadlock`: the case `SoldBothWays = {}`.
- `LedgerAlwaysBalanced`: a commit moves as many units from `stock` to a new order
  as it took, and nothing else touches either. The sum over the orders grows by
  its last row (`RowFacts`).
- `Refinement`: every step but `Commit` is a stutter of the ledger, and `Commit`
  is one `Place`, covered because of `Reserved`.
- `CheckoutIsClean`, from `CartUnchanged`.

`StockRoomProofs`, for any workers, rows, carts and numbers typed. The inductive
invariant is `IInv == TypeOK /\ Reserved /\ Planned`: a locked row is locked by one
job and still covers it, and what a job holds and has yet to write is exactly the
plan it read (the cart's lines, the order's, the form's rows). `Planned` is what a
commit needs: it writes the rows in `held`, and only with `todo` empty are they the
whole of an order.

- `StockNeverOversold`, from `Reserved`.
- `CyclesAlwaysExplained`, along `DeadlocksNeedBothWays`: a checkout that waits at
  commit for another one waits for a product sold both ways
  (`CommitWaitsBothWays`), and on a cycle of checkouts without such a wait the
  least row waited for would have a smaller one that is waited for too. Its
  corollary `CyclesNeedStaff` is the case `SoldBothWays = {}`.
- `Refinement`: opening, locking and dropping are stutters of `Inventory`; a commit
  is one order, one return or one count (`CommitShows`).
- `MiscountsAlwaysExplained`: `OnHand`, units in stock and in orders together, is
  unchanged by a checkout and by the first return of an order, so a step that
  changes it is a second return, or a form's whose number is not the one in the row.

`OrderDeskProofs`, for any number of orders, staff, handlers and posts:
`TypeCorrect`, `VerifiedBacked` (the invariant `Backing` adds what the copies in
flight and a callback past verification know), `CancelledRestocked` (the
invariant adds the stale copies: a copy that reads CANCELLED was restocked),
`CallbacksConfirmOnce`, `StaleSavesUnverify` and `StaffRevive`.

`CartLinesProofs`, for any handlers, items and number of requests: `TypeCorrect`;
`VariantOnOneLine`, from the invariant `Distinct` and the lemma `LiveAfter` (a step
adds a row only where there was none); `NoLineComesBack`; and `NothingAppears`.
`RowChanges` sums up what any step does to the rows. For
`NothingAppears` no formula over the rows alone is inductive, since two
requests that overwrite each other's quantity lose units that were asked for. The
invariant `Accounted` says that accounts can be kept beside the rows, one for each,
that hold at least what the row and every pending write of it will hold, and
with the requests still under way add up to no more than was asked. Each step
shows how to keep the accounts (`BooksKept`), raise one (`BooksRaised`) or open
one (`BooksOpened`).

`CatalogueProofs`, for any editors, limits and number of edits: `TypeCorrect`;
`BoughtStay`, inductive because of the check at commit; `SkusStayApart`, from
`Apart` and `NewSkuExists` (the i-th unused number exists, is unused and
determines i, which is counted, not assumed); `CoverIsOne`, for which `FirstExists`
finds the one photo that is promoted; and `SavesAsListed`, from `SavesExclusive`
(`OneSaveAtATime`: the save that holds the product's row is the only one, so the
variants it is about to delete are still those its form does not list).

`AccountsProofs` proves the four parts of `MCAccounts` each by itself:

- Door, for any browsers, keys and limit: `DoorTypes` and `GuessesAreBounded`. Its
  invariant `AllCounted` says how far the counter can lag behind the failures: a
  browser about to start a window (`Starters`) can throw away what the others
  counted, `MaxAttempts - 1` failures at most, and each can do so once per window,
  since one that starts a window has found none.
- Book, for any devices and addresses: `BookTypes`; `DefaultIsOne`, by the partial
  index alone; and `MissingExplained`, whose invariant `Explained` is about every
  moment, not only those without a default.
- Files, for any orders, workers and names: `ServedOwn` and `LegacyStays`, from
  `FilesInv`: only legacy names are in the public root (`OnlyLegacyPublic`), the
  file being moved is still there and nobody else writes where it goes
  (`MoveAlone`), an upload owns the name it was
  given (`UploadsOwn`), a legacy name holds its own order's picture unless it is
  contested (`LegacyOwn`). `ServedIsOwn` alone is not inductive: a file is written
  two steps before the row names it.
- Sellers, for any handlers and users: `SellersStay` and `ProfilesBringProducts`,
  from `KeysApart` (no key is used twice, a profile that is not committed belongs
  to one job, a deletion holds the profile it found). The check at commit then
  makes `ProductsHaveSellers` inductive.

`StorefrontProofs` proves the three parts of `MCStorefront`:

- Listing, for any products, categories, prices and page size, and any number of
  changes. The rank of a row is one more than the number of rows ahead of it
  (`RankCountsAhead`), and then the page it is on follows from a count.
  `NobodyIsMissed` rests on `WalkGoes`: what was not shown
  has at least as many rows ahead of it as were fetched (`UnseenAreBehind`),
  what was shown has fewer (`SeenAreFetched`), and the page asked for exists
  (`PagesInRange`), each as long as nothing left, or came into, the listing.
- Sitemap, for the same: `SitemapStaysFair`, from `SitemapInv`, which follows each
  statement's result to the next. Between count and slice, what is to be named
  is what was counted and stayed, and what came (`SliceGoes`), so a slice of the
  counted size misses no more than came (`SliceNames`); what was named and not
  changed is as it was (`ProductsGo`, `LinksGo`).
- Sales figures, for any orders, products, methods, days, filters and lengths of the
  tables: `FiguresStayTrue`, from `SalesInv`, which compares what a page has
  read so far with what the same statement would read now (`Grew`: no more, unless
  an order came; no less, unless one went). The table of products adds up to
  the units where it is not full (`TopUnitsAre`). What the page adds up in groups is
  what it counted as a whole (`GroupedSum`).

`PartsApart` in each of the two: the parts share no variable, so a
behaviour of the composition is one of every part. `TypeCorrect` and all the above
therefore hold of the composition that TLC runs.

Sums. `RowFacts` does without induction over an operator: a sum
by `FoldFunction` or `MapThenSumSet` is unfolded to a recursive function that
takes the members out in a chosen order (`AddsUp`), and what is true of all such
totals is shown by induction over the subsets of one finite set, whose induction
hypothesis is a set. `SumOf` of a changed function, `TableTotal` of a longer table
and `GroupedSum` follow, and the models' sums are shown to be one of these.

Assumptions: only the named `ASSUME`s on constants. Sentinels are not members; keys
are pairs of naturals with their parent row present; the rows of
`StockRoom`, the workers of `CartLines`, the products and methods of `SalesReport`
and the browsers of `FrontDoor` are finitely many; page sizes and limits are
positive. For `NoCheckoutDeadlock` and the corollary `CyclesNeedStaff`, besides, that
no product is sold both ways (`checkout_plain` is an instance of that kind); no other
theorem needs that.

Only model-checked, and why: `RequestsEnd` of `Checkout` and of `StockRoom`, since
liveness under strong fairness needs ENABLED, which is out of the prover's reach.
The properties of the runs that expect a violation are false.

## What the checks found

Runs that find a sentence of the code's own comments, names or templates
violated:

- Two staff cancellations of one order restock it twice (`double_restock`).
- Two concurrent additions of a product without a variant leave two lines of it,
  and every later addition of that product fails (`duplicate_line`).
- The relocation takes any file of the same name for the one it moved before: a
  legacy order is then shown another customer's screenshot (`relocate_again`).
- The shares of the payment methods above the order list count one order per
  method, since the queryset's ordering joins the GROUP BY (`method_shares`).

Behaviours the models contain and the passing runs put bounds on:

- Sorting the rows prevents deadlock only when every product is sold either
  by itself or by variant. An order for a variant also locks its product's row, at
  commit and out of order. PostgreSQL then aborts one of the checkouts, nothing is
  lost, and the customer sees an error page (`checkout_mixed`).
- Cancellations and edits lock rows in orders of their own, so they can deadlock
  with checkouts and with one another; every cycle has one of them, or the
  foreign-key check of a product sold both ways, and every request still ends
  (`stock_room`).
- An edit form writes the stock number it showed, so it undoes the checkouts
  since. An order that is cancelled twice, by two requests at once or after staff
  brought it back, returns its lines twice. Units are lost or invented in no other
  way (`stock_room`).
- A sitemap can miss a product that was there all the time, when another
  came between its count and its slice, name a product without its category, and
  lead to pages that are gone by then; only what changed in between explains
  it (`storefront`).
- A callback that settles an order cancelled meanwhile records the payment, keeps
  the order cancelled and tells the customer it is confirmed. Only staff bring
  such an order back, and do not reserve its stock again (`order_desk`).
- Failures that race when a window starts are lost, so more guesses pass than the
  limit says, fewer than the limit per browser (`accounts`).
- A request that dies between its two statements, or a PATCH that saves an old
  copy, leaves a customer without a default address (`accounts`).

Behaviours the models contain that nothing in the repository rules out:

- A login form submitted twice merges the anonymous cart twice.
- Two uploads that are validated before either is saved exceed the photo limit.
- An upload is numbered from the count of the photos left, and so can come before
  one that stays.
- Concurrent additions and updates of one line lose units; `NothingInvented`
  bounds the cart from above only.
- A withdrawn variant in an anonymous cart becomes the product without a variant
  at login, and a failure half way through a merge loses the entries after it.
- Two first additions of a product that overlap make a store profile each
  (`_store_profile` looks once), which splits the single-seller store's products.
- A seller whose registration died after the account was saved has no profile, and
  adds products under the store's.
- A callback that never comes leaves the order PENDING and its stock reserved.

Met while reading, outside the models: the product page offers a product by its
own stock number and `is_available` while cart and checkout go by the variant's
number (`storefront/views.py:376`), and the admin's order form sets CANCELLED
without giving the lines back (`orders/admin.py:37`).

## Not modelled

- Settings, throttles, deployment scripts, CI: read once at start, or outside the
  program. The values a model depends on are constants.
- Django's admin: generated forms over single rows.
- JWT endpoints, edits of a profile or of one's own account: framework views,
  single-row writes.
- Wishlist: one `get_or_create` and one delete under a unique constraint without
  NULLs. The owner tests before a seller's edits: filters that change no state.
- SEO copy, schema.org data, templates, the CSV export: text.
- Product image files. A save deletes them before it commits, so a rollback leaves
  rows that name missing files; the photos of `Catalogue` are numbers.
- The database's own CHECK constraints (`catalog/models.py:77`): a second line of
  defence that the models do not rely on. `InventoryLog` (`catalog/models.py:161`)
  is a table no code writes.

## Plan

The system's parts are modelled as far as they keep state of their own, and what
the runs check of them is proved, liveness apart. What could still be added:

1. Bounds in the place of the behaviours that nothing rules out (see "What the
   checks found"): how many photos overlapping uploads can leave, how many store
   profiles overlapping first additions can make. Each needs a statement the
   code's owners agree with before a proof of it is of use.
2. The parts of a liveness argument that are safety: in `StockRoom`, that a request
   which waits has a chain of waits that ends in one which can proceed or in a
   cycle that PostgreSQL breaks.
3. The composition of `Checkout`'s carts with `StockRoom`, which would be too large
   for TLC but not for a proof.
