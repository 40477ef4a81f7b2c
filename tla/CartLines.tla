----------------------------- MODULE CartLines -----------------------------
(***************************************************************************)
(* One customer's cart, line by line.  The endpoints of storefront.views   *)
(* and CartViewSet run in autocommit: every database statement is a        *)
(* transaction of its own, and what one of them read is used by the next.  *)
(* Besides the requests of signed-in browsers there is one browser that    *)
(* fills an anonymous cart in its session and merges it on signing in.     *)
(***************************************************************************)
EXTENDS Naturals, Sequences, FiniteSets, Functions

CONSTANTS Workers,      \* concurrent request handlers
          Items,        \* <<product.pk, variant.pk>>, with 0 for "no variant"
          MaxQty,       \* bound: largest quantity of one request
          MaxRequests   \* bound: requests in a behaviour

Plain(i) == <<i[1], 0>>

ASSUME CartAssumption ==
  /\ Items \subseteq Nat \X Nat
  /\ \A i \in Items : Plain(i) \in Items
  /\ MaxQty \in Nat \ {0}
  /\ MaxRequests \in Nat
  /\ IsFiniteSet(Workers)

VARIABLES
  line,        \* every CartItem row ever inserted, by pk; quantity 0 = deleted
  session,     \* the anonymous cart, a quantity per item
  sessionKey,  \* which session the browser's cookie names
  active,      \* is_active products and variants
  job,         \* each worker's request in progress
  requests,    \* requests so far
  asked        \* history: units the cart was asked to hold, per item

vars == <<line, session, sessionKey, active, job, requests, asked>>

Quantities == [Items -> Nat]
Nothing == [i \in Items |-> 0]
Phases == {"idle", "get", "insert", "reget", "save", "session", "login", "merge"}
NoItem == <<0, 0>>
NoJob == [phase |-> "idle", item |-> NoItem, qty |-> 0, pk |-> 0,
          entries |-> Nothing, key |-> 0, login |-> FALSE]

HasVariant(i) == i[2] # 0
Sellable(i) == {i, Plain(i)} \subseteq active
Live(i) == {n \in DOMAIN line : line[n].item = i /\ line[n].quantity > 0}
Units(i) == FoldFunction(+, 0, [n \in Live(i) |-> line[n].quantity])

Init ==
  /\ line = <<>>
  /\ session = Nothing
  /\ sessionKey = 0
  /\ active = Items
  /\ job = [w \in Workers |-> NoJob]
  /\ requests = 0
  /\ asked = Nothing

Begin(w, j) ==
  /\ job[w] = NoJob
  /\ requests < MaxRequests
  /\ requests' = requests + 1
  /\ job' = [job EXCEPT ![w] = j]

\* One entry is in the cart: a merge goes on, an endpoint answers.
Finish(w) ==
  job' = [job EXCEPT ![w] = IF @.login THEN [@ EXCEPT !.phase = "merge"] ELSE NoJob]

-----------------------------------------------------------------------------
(* get_or_create, then the quantity.                                       *)

\* Mutant: the quantity is not raised to one.
StartAddUnclamped(w, i, q) ==
  /\ Sellable(i)
  /\ Begin(w, [NoJob EXCEPT !.phase = "get", !.item = i, !.qty = q - 1])
  /\ asked' = [asked EXCEPT ![i] = @ + q]
  /\ UNCHANGED <<line, session, sessionKey, active>>

\* Adding an item that is for sale.
StartAdd(w, i, q) ==
  /\ Sellable(i)
  /\ Begin(w, [NoJob EXCEPT !.phase = "get", !.item = i, !.qty = q])
  /\ asked' = [asked EXCEPT ![i] = @ + q]
  /\ UNCHANGED <<line, session, sessionKey, active>>

\* The SELECT.  One line: its quantity is increased in memory.  None: a first
\* look goes on to INSERT.  Anything else is an error.
Get(w) ==
  LET found == Live(job[w].item)
  IN /\ job[w].phase \in {"get", "reget"}
     /\ \/ \E n \in found : /\ found = {n}
                            /\ job' = [job EXCEPT ![w].phase = "save", ![w].pk = n,
                                                  ![w].qty = line[n].quantity + @]
        \/ /\ found = {}
           /\ job[w].phase = "get"
           /\ job' = [job EXCEPT ![w].phase = "insert"]
     /\ UNCHANGED <<line, session, sessionKey, active, requests, asked>>

\* Mutant: no constraint backs get_or_create.
NoConstraint(i) == FALSE

\* unique_cart_product_variant: rows whose variant is NULL are all distinct.
UniqueViolation(i) == HasVariant(i) /\ Live(i) # {}

\* The INSERT, or after an IntegrityError a second look.
Insert(w) ==
  LET j == job[w]
  IN /\ j.phase = "insert"
     /\ IF UniqueViolation(j.item)
        THEN /\ job' = [job EXCEPT ![w].phase = "reget"]
             /\ UNCHANGED line
        ELSE /\ line' = Append(line, [item |-> j.item, quantity |-> j.qty])
             /\ Finish(w)
     /\ UNCHANGED <<session, sessionKey, active, requests, asked>>

\* Mutant: save() without update_fields inserts a row that is gone.
SaveUpserts(w) ==
  /\ job[w].phase = "save"
  /\ line' = [line EXCEPT ![job[w].pk].quantity = job[w].qty]
  /\ Finish(w)
  /\ UNCHANGED <<session, sessionKey, active, requests, asked>>

\* Mutant: the total computed in memory is added to the row once more.
SaveAddsAgain(w) ==
  /\ job[w].phase = "save"
  /\ line[job[w].pk].quantity > 0
  /\ line' = [line EXCEPT ![job[w].pk].quantity = @ + job[w].qty]
  /\ Finish(w)
  /\ UNCHANGED <<session, sessionKey, active, requests, asked>>

\* The UPDATE of the quantity computed in memory; an error if the row is gone.
Save(w) ==
  /\ job[w].phase = "save"
  /\ line[job[w].pk].quantity > 0
  /\ line' = [line EXCEPT ![job[w].pk].quantity = job[w].qty]
  /\ Finish(w)
  /\ UNCHANGED <<session, sessionKey, active, requests, asked>>

\* Setting a line's quantity, read first to see that it is the customer's.
StartUpdate(w, n, q) ==
  /\ line[n].quantity > 0
  /\ Begin(w, [NoJob EXCEPT !.phase = "save", !.item = line[n].item, !.pk = n, !.qty = q])
  /\ asked' = [asked EXCEPT ![line[n].item] = @ + q]
  /\ UNCHANGED <<line, session, sessionKey, active>>

\* Removing a line, or setting its quantity to zero or less.
Remove(n) ==
  /\ line[n].quantity > 0
  /\ line' = [line EXCEPT ![n].quantity = 0]
  /\ UNCHANGED <<session, sessionKey, active, job, requests, asked>>

\* Clearing the cart, as the customer or at the end of a checkout.
Clear ==
  /\ \E n \in DOMAIN line : line[n].quantity > 0
  /\ line' = [n \in DOMAIN line |-> [line[n] EXCEPT !.quantity = 0]]
  /\ UNCHANGED <<session, sessionKey, active, job, requests, asked>>

-----------------------------------------------------------------------------
(* The anonymous cart.                                                     *)

\* The session is read, changed in memory and saved with the response.
StartSessionAdd(w, i, q) ==
  /\ Sellable(i)
  /\ Begin(w, [NoJob EXCEPT !.phase = "session", !.key = sessionKey,
                            !.entries = [session EXCEPT ![i] = @ + q]])
  /\ UNCHANGED <<line, session, sessionKey, active, asked>>

\* A session that a sign-in has replaced meanwhile cannot be saved.
SaveSession(w) ==
  /\ job[w].phase = "session"
  /\ job[w].key = sessionKey
  /\ session' = job[w].entries
  /\ job' = [job EXCEPT ![w] = NoJob]
  /\ UNCHANGED <<line, sessionKey, active, requests, asked>>

StartLogin(w) ==
  /\ Begin(w, [NoJob EXCEPT !.phase = "login", !.entries = session, !.key = sessionKey,
                            !.login = TRUE])
  /\ UNCHANGED <<line, session, sessionKey, active, asked>>

\* The password is right: login() deletes the session it had read and goes on,
\* under a key the browser does not know yet, with that session's entries.
SignIn(w) ==
  /\ job[w].phase = "login"
  /\ IF job[w].key = sessionKey
     THEN session' = Nothing /\ sessionKey' = sessionKey + 1
     ELSE UNCHANGED <<session, sessionKey>>
  /\ job' = [job EXCEPT ![w].phase = "merge"]
  /\ UNCHANGED <<line, active, requests, asked>>

\* A withdrawn product is dropped; a withdrawn variant becomes the product.
MergeEntry(w, i) ==
  LET j == job[w]
      item == IF i \in active THEN i ELSE Plain(i)
      rest == [j.entries EXCEPT ![i] = 0]
  IN /\ j.phase = "merge"
     /\ j.entries[i] > 0
     /\ IF Plain(i) \in active
        THEN /\ job' = [job EXCEPT ![w] = [j EXCEPT !.phase = "get", !.item = item,
                                                    !.qty = j.entries[i], !.entries = rest]]
             /\ asked' = [asked EXCEPT ![item] = @ + j.entries[i]]
        ELSE /\ job' = [job EXCEPT ![w].entries = rest]
             /\ UNCHANGED asked
     /\ UNCHANGED <<line, session, sessionKey, active, requests>>

\* The response names the new session, with an empty anonymous cart.
EndMerge(w) ==
  /\ job[w].phase = "merge"
  /\ job[w].entries = Nothing
  /\ session' = Nothing
  /\ sessionKey' = sessionKey + 1
  /\ job' = [job EXCEPT ![w] = NoJob]
  /\ UNCHANGED <<line, active, requests, asked>>

-----------------------------------------------------------------------------
\* The request ends in an error: two lines where one was expected, a row or a
\* session gone, a wrong password, or a dead worker.
Fail(w) ==
  /\ job[w] # NoJob
  /\ job' = [job EXCEPT ![w] = NoJob]
  /\ UNCHANGED <<line, session, sessionKey, active, requests, asked>>

\* The seller withdraws an item from sale, or offers it again.
ToggleActive(i) ==
  /\ active' = IF i \in active THEN active \ {i} ELSE active \cup {i}
  /\ UNCHANGED <<line, session, sessionKey, job, requests, asked>>

Next ==
  \/ \E w \in Workers :
       \/ \E i \in Items, q \in 1..MaxQty : StartAdd(w, i, q) \/ StartSessionAdd(w, i, q)
       \/ \E n \in DOMAIN line, q \in 1..MaxQty : StartUpdate(w, n, q)
       \/ Get(w) \/ Insert(w) \/ Save(w) \/ SaveSession(w)
       \/ StartLogin(w) \/ SignIn(w) \/ EndMerge(w) \/ Fail(w)
       \/ \E i \in Items : MergeEntry(w, i)
  \/ \E n \in DOMAIN line : Remove(n)
  \/ Clear
  \/ \E i \in Items : ToggleActive(i)

Spec == Init /\ [][Next]_vars

-----------------------------------------------------------------------------
Jobs == [phase : Phases, item : Items \cup {NoItem}, qty : Nat, pk : Nat,
         entries : Quantities, key : Nat, login : BOOLEAN]

TypeOK ==
  /\ line \in Seq([item : Items, quantity : Nat])
  /\ session \in Quantities
  /\ sessionKey \in Nat
  /\ active \subseteq Items
  /\ job \in [Workers -> Jobs]
  /\ requests \in Nat
  /\ asked \in Quantities
  /\ \A w \in Workers :
       /\ job[w].phase \in {"get", "insert", "reget"} => job[w].item \in Items /\ job[w].qty > 0
       /\ job[w].phase = "save" => job[w].pk \in DOMAIN line /\ job[w].qty > 0

\* Requests that add the same variant at once share one line: the loser of the
\* race between get_or_create's SELECT and INSERT finds the winner's row.
OneLinePerVariant == \A i \in Items : HasVariant(i) => Cardinality(Live(i)) <= 1

\* However additions, updates and merges interleave, the cart never holds more
\* of an item than it was asked to hold.
NothingInvented == \A i \in Items : Units(i) <= asked[i]

\* A line that was removed, cleared or bought stays gone: no request that read
\* it earlier brings it back (views.py:616, 650).
RemovedStaysRemoved ==
  [][\A n \in DOMAIN line : line[n].quantity = 0 => line'[n].quantity = 0]_vars

\* "unique_cart_product_variant" (orders/models.py:67): a product is on one
\* line of the cart at most, with or without a variant.
OneLinePerProduct == \A i \in Items : Cardinality(Live(i)) <= 1
=============================================================================
