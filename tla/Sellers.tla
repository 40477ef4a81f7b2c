------------------------------- MODULE Sellers -------------------------------
(***************************************************************************)
(* Seller profiles and the products under them.  Sellers register through  *)
(* the API (accounts.serializers.RegisterSerializer), staff approve them   *)
(* and delete profiles (accounts.views.SellerProfileViewSet), and products *)
(* are added from the dashboard (dashboard._add_product, in a transaction) *)
(* or through the API (catalog.views.ProductViewSet, a statement at a      *)
(* time).  Whoever adds a product without having a profile uses the oldest *)
(* one there is, or makes one: "the single supplier profile".              *)
(***************************************************************************)
EXTENDS Naturals, FiniteSets

CONSTANTS Staff,       \* staff accounts
          Applicants,  \* people who may register as sellers
          Handlers,    \* concurrent requests
          NoUser,
          MaxProfiles  \* bound: profiles inserted in a behaviour

Users == Staff \cup Applicants

ASSUME SellersAssumption ==
  /\ Staff \cap Applicants = {}
  /\ NoUser \notin Users
  /\ MaxProfiles \in Nat

VARIABLES
  account,   \* where each applicant's registration is
  approved,  \* users with is_seller_approved
  profile,   \* each user's profile: primary key, 0 = none, and what made it
  products,  \* the seller, a profile's key, of each product; products that share
             \* it are one
  job,       \* each worker's request
  nextKey    \* the next primary key of a profile

sellerVars == <<account, approved, profile, products, job, nextKey>>

NoProfile == [key |-> 0, via |-> "nothing"]
NoJob == [task |-> "none", step |-> "look", user |-> NoUser, key |-> 0,
          pending |-> FALSE]

SellersInit ==
  /\ account = [u \in Applicants |-> "none"]
  /\ approved = {}
  /\ profile = [u \in Users |-> NoProfile]
  /\ products = {}
  /\ job = [w \in Handlers |-> NoJob]
  /\ nextKey = 1

ProfileKeys == {profile[u].key : u \in Users} \ {0}
Oldest == CHOOSE k \in ProfileKeys : \A l \in ProfileKeys : k <= l

Drop(w) == job' = [job EXCEPT ![w] = NoJob]

\* Another transaction has inserted a profile of u, or deleted that of key k,
\* and has not committed: a statement that meets its row waits.
Inserting(u) == \E v \in Handlers : job[v].pending /\ job[v].user = u
Deleting(k) == \E v \in Handlers : job[v].task = "delete" /\ job[v].step = "commit" /\ job[v].key = k

NewProfile(u, via) ==
  /\ nextKey <= MaxProfiles
  /\ nextKey' = nextKey + 1
  /\ profile' = [profile EXCEPT ![u] = [key |-> nextKey, via |-> via]]

-----------------------------------------------------------------------------
(* Accounts.                                                               *)

\* The user row and its profile are saved in separate statements; a request
\* that dies in between leaves a seller without a profile.
Register(u) ==
  /\ account[u] = "none"
  /\ account' = [account EXCEPT ![u] = "saved"]
  /\ UNCHANGED <<approved, profile, products, job, nextKey>>

\* get_or_create: another request of the new user may have made one already.
FinishRegistration(u) ==
  /\ account[u] = "saved"
  /\ ~Inserting(u)
  /\ account' = [account EXCEPT ![u] = "seller"]
  /\ IF profile[u] = NoProfile THEN NewProfile(u, "registration")
                               ELSE UNCHANGED <<profile, nextKey>>
  /\ UNCHANGED <<approved, products, job>>

SetApproval(u) ==
  /\ account[u] # "none"
  /\ approved' = IF u \in approved THEN approved \ {u} ELSE approved \cup {u}
  /\ UNCHANGED <<account, profile, products, job, nextKey>>

\* POST to the profile endpoint: staff only, one profile per user.
CreateOwn(u) ==
  /\ profile[u] = NoProfile
  /\ ~Inserting(u)
  /\ NewProfile(u, "api")
  /\ UNCHANGED <<account, approved, products, job>>

-----------------------------------------------------------------------------
(* Adding a product.                                                       *)

\* The user's own profile, else the oldest, else none.
Chosen(u) ==
  IF profile[u] # NoProfile THEN profile[u].key
  ELSE IF ProfileKeys = {} THEN 0 ELSE Oldest

\* IsSupplier: staff, or an approved seller.
MayAdd(u, task) == u \in Staff \/ (task = "api" /\ u \in approved)

StartAdd(w, u, task) ==
  /\ job[w] = NoJob
  /\ MayAdd(u, task)
  /\ job' = [job EXCEPT ![w] = [task |-> task, step |-> IF Chosen(u) = 0 THEN "make" ELSE "add",
                                user |-> u, key |-> Chosen(u), pending |-> FALSE]]
  /\ UNCHANGED <<account, approved, profile, products, nextKey>>

\* Mutant: the dashboard, too, commits the profile by itself.
MakeProfileAtOnce(w) ==
  LET j == job[w]
  IN /\ j.step = "make"
     /\ ~Inserting(j.user)
     /\ profile[j.user] = NoProfile
     /\ NewProfile(j.user, j.task)
     /\ job' = [job EXCEPT ![w].step = "add", ![w].key = nextKey]
     /\ UNCHANGED <<account, approved, products>>

\* No profile was found: one is inserted for this user, visible at once from
\* the API, at the end of the transaction from the dashboard.
MakeProfile(w) ==
  LET j == job[w]
  IN /\ j.step = "make"
     /\ ~Inserting(j.user)
     /\ profile[j.user] = NoProfile
     /\ IF j.task = "api"
        THEN NewProfile(j.user, "api")
        ELSE nextKey <= MaxProfiles /\ nextKey' = nextKey + 1 /\ UNCHANGED profile
     /\ job' = [job EXCEPT ![w].step = "add", ![w].key = nextKey, ![w].pending = j.task # "api"]
     /\ UNCHANGED <<account, approved, products>>

\* The user has got a profile meanwhile: IntegrityError.
MakeTwice(w) ==
  /\ job[w].step = "make"
  /\ ~Inserting(job[w].user)
  /\ profile[job[w].user] # NoProfile
  /\ Drop(w)
  /\ UNCHANGED <<account, approved, profile, products, nextKey>>

\* The product is inserted and, with a pending profile, committed; the foreign
\* key is checked then, and waits for a deletion under way.
AddProduct(w) ==
  LET j == job[w]
  IN /\ j.step = "add"
     /\ ~Deleting(j.key)
     /\ j.pending \/ j.key \in ProfileKeys
     /\ products' = products \cup {j.key}
     /\ profile' = IF j.pending
                   THEN [profile EXCEPT ![j.user] = [key |-> j.key, via |-> "dashboard"]]
                   ELSE profile
     /\ Drop(w)
     /\ UNCHANGED <<account, approved, nextKey>>

\* The chosen profile has been deleted: the foreign key refuses the product.
SellerGone(w) ==
  /\ job[w].step = "add"
  /\ ~job[w].pending /\ job[w].key \notin ProfileKeys
  /\ Drop(w)
  /\ UNCHANGED <<account, approved, profile, products, nextKey>>

\* The worker dies; a transaction is rolled back.
Crash(w) == job[w] # NoJob /\ Drop(w) /\ UNCHANGED <<account, approved, profile, products, nextKey>>

-----------------------------------------------------------------------------
(* Deleting a profile.                                                     *)

\* PROTECT: Django looks for products first, and refuses if there are any.
StartDelete(w, u) ==
  /\ job[w] = NoJob
  /\ profile[u] # NoProfile
  /\ profile[u].key \notin products
  /\ job' = [job EXCEPT ![w] = [NoJob EXCEPT !.task = "delete", !.step = "delete",
                                             !.user = u, !.key = profile[u].key]]
  /\ UNCHANGED <<account, approved, profile, products, nextKey>>

DeleteRow(w) ==
  /\ job[w].step = "delete"
  /\ ~Deleting(job[w].key)
  /\ IF job[w].key \in ProfileKeys THEN job' = [job EXCEPT ![w].step = "commit"] ELSE Drop(w)
  /\ UNCHANGED <<account, approved, profile, products, nextKey>>

\* Mutant: the column has no foreign-key constraint in the database.
NotReferenced(k) == FALSE

\* The database's own check at commit.
Referenced(k) == k \in products

CommitDelete(w) ==
  /\ job[w].step = "commit"
  /\ profile' = IF Referenced(job[w].key) THEN profile
                ELSE [profile EXCEPT ![job[w].user] = NoProfile]
  /\ Drop(w)
  /\ UNCHANGED <<account, approved, products, nextKey>>

SellersNext ==
  \/ \E u \in Applicants : Register(u) \/ FinishRegistration(u) \/ SetApproval(u)
  \/ \E u \in Staff : CreateOwn(u)
  \/ \E w \in Handlers :
       \/ \E u \in Users : \/ \E task \in {"dashboard", "api"} : StartAdd(w, u, task)
                           \/ StartDelete(w, u)
       \/ MakeProfile(w) \/ MakeTwice(w) \/ AddProduct(w) \/ SellerGone(w)
       \/ DeleteRow(w) \/ CommitDelete(w) \/ Crash(w)

SellersSpec == SellersInit /\ [][SellersNext]_sellerVars

-----------------------------------------------------------------------------
SellersTypeOK ==
  /\ account \in [Applicants -> {"none", "saved", "seller"}]
  /\ approved \subseteq Applicants
  /\ profile \in [Users -> [key : Nat, via : {"nothing", "registration", "api", "dashboard"}]]
  /\ products \subseteq Nat
  /\ job \in [Handlers -> [task : {"none", "dashboard", "api", "delete"},
                           step : {"look", "make", "add", "delete", "commit"},
                           user : Users \cup {NoUser}, key : Nat, pending : BOOLEAN]]
  /\ nextKey \in Nat

\* A product never loses its seller: neither a deletion that looked before the
\* product was added nor an addition that chose a profile before it was deleted
\* leaves it with a profile that is gone (accounts/views.py:91, catalog/models.py:46).
ProductsHaveSellers == products \subseteq ProfileKeys

\* From the dashboard a new store profile and its first product come together:
\* no crash, refused insertion or race leaves the one without the other
\* (dashboard.py:341).
ProfileComesWithProduct ==
  \A u \in Users : profile[u].via = "dashboard" => profile[u].key \in products
=============================================================================
