----------------------------- MODULE Catalogue -----------------------------
(***************************************************************************)
(* Editing one product from the dashboard: storefront.dashboard's          *)
(* _edit_product, by several staff members at once, while customers buy    *)
(* its variants.  A page shows the stored rows; the POST that comes back   *)
(* is validated without a lock; the save is one transaction that first     *)
(* updates the product row, and so excludes the other saves.               *)
(***************************************************************************)
EXTENDS Integers, Sequences, FiniteSets

CONSTANTS Editors,     \* staff members with the edit page
          MaxPhotos,   \* photos a product may have (8 in the code)
          MaxListed,   \* bound: variants the product is added with
          MaxNew,      \* bound: new variant rows, and uploads, in one form
          MaxEdits     \* bound: edit pages opened in a behaviour

ASSUME CatalogueAssumption ==
  {MaxPhotos, MaxListed, MaxNew, MaxEdits} \subseteq Nat

VARIABLES
  variant,  \* every ProductVariant row ever inserted, by pk
  photo,    \* every ProductImage row ever inserted, by pk
  bought,   \* the variants named by order items
  job,      \* each editor's page or POST
  edits     \* edit pages opened so far

vars == <<variant, photo, bought, job, edits>>

\* sku stands for the NN of "<product.sku>-VNN".
Variants == [sku : Nat, live : BOOLEAN]
Photos == [order : Nat, cover : BOOLEAN, live : BOOLEAN]

Phases == {"idle", "shown", "checked", "saving", "unlinked"}
NoJob == [phase |-> "idle", variants |-> {}, photos |-> {}, sync |-> FALSE,
          new |-> 0, uploads |-> 0, doomed |-> {}]

LiveVariants == {n \in DOMAIN variant : variant[n].live}
LivePhotos == {n \in DOMAIN photo : photo[n].live}
Saving(e) == job[e].phase \in {"saving", "unlinked"}

\* A product as _add_product leaves it: variants numbered from 1, photos from
\* 0, the first of them the cover.
Init ==
  /\ \E v \in 0..MaxListed : variant = [n \in 1..v |-> [sku |-> n, live |-> TRUE]]
  /\ \E p \in 0..MaxPhotos :
       photo = [n \in 1..p |-> [order |-> n - 1, cover |-> n = 1, live |-> TRUE]]
  /\ bought = {}
  /\ job = [e \in Editors |-> NoJob]
  /\ edits = 0

\* A checkout of variant n commits.  While its deletion is pending, the row is
\* locked by the editor that deletes it.
Buy(n) ==
  /\ n \in LiveVariants
  /\ \A e \in Editors : job[e].phase = "unlinked" => n \notin job[e].doomed
  /\ bought' = bought \cup {n}
  /\ UNCHANGED <<variant, photo, job, edits>>

OpenPage(e) ==
  /\ job[e] = NoJob
  /\ edits < MaxEdits
  /\ edits' = edits + 1
  /\ job' = [job EXCEPT ![e].phase = "shown", ![e].variants = LiveVariants,
                        ![e].photos = LivePhotos]
  /\ UNCHANGED <<variant, photo, bought>>

\* What a valid form can hold: of the shown variants the ones the seller kept
\* and new rows, the photos ticked for removal, and uploads.
PostedRows(e) == (SUBSET job[e].variants) \X (0..MaxNew)
Forms(e) ==
  {[variants |-> rows[1], new |-> rows[2], photos |-> p, uploads |-> u, sync |-> s] :
     rows \in PostedRows(e), p \in SUBSET job[e].photos, u \in 0..MaxNew, s \in BOOLEAN}

\* The rows name variants of the product, and none that was ordered is missing.
\* Without the marker the form's variant rows are ignored.
RowsAccepted(form) ==
  IF form.sync
  THEN form.variants \subseteq LiveVariants /\ bought \cap LiveVariants \subseteq form.variants
  ELSE form.variants = {} /\ form.new = 0

\* The POST is validated against the rows as they are now.
Submit(e, form) ==
  /\ job[e].phase = "shown"
  /\ RowsAccepted(form)
  /\ Cardinality(LivePhotos \ form.photos) + form.uploads <= MaxPhotos
  /\ job' = [job EXCEPT ![e] = [phase |-> "checked", variants |-> form.variants,
                                photos |-> form.photos, sync |-> form.sync, new |-> form.new,
                                uploads |-> form.uploads, doomed |-> {}]]
  /\ UNCHANGED <<variant, photo, bought, edits>>

\* A form with errors is shown again, with its rows as they were typed and the
\* photos that are stored now.
ShowAgain(e) ==
  /\ job[e].phase = "shown"
  /\ job' = [job EXCEPT ![e].photos = LivePhotos]
  /\ UNCHANGED <<variant, photo, bought, edits>>

\* Mutant: order items cascade with their variant.
Cascades(doomed) == TRUE

\* on_delete=PROTECT, and the foreign key behind it: no order item names them.
Unprotected(doomed) == doomed \cap bought = {}

\* The variant rows the form does not list.
Doomed(e) == IF job[e].sync THEN LiveVariants \ job[e].variants ELSE {}

\* The save has the product's row lock and has looked for order items of the
\* variants it deletes.
BeginSave(e) ==
  /\ job[e].phase = "checked"
  /\ \A d \in Editors : ~Saving(d)
  /\ Unprotected(Doomed(e))
  /\ job' = [job EXCEPT ![e].phase = "saving", ![e].doomed = Doomed(e)]
  /\ UNCHANGED <<variant, photo, bought, edits>>

\* The variants' DELETE, once no checkout holds their rows.
DeleteVariants(e) ==
  /\ job[e].phase = "saving"
  /\ job' = [job EXCEPT ![e].phase = "unlinked"]
  /\ UNCHANGED <<variant, photo, bought, edits>>

\* Mutant: numbering goes on from the number of variants.
NewSkuFromCount(used, i) == Cardinality(used) + i

\* The i-th number the sequence reaches that no stored variant uses.
NewSku(used, i) ==
  CHOOSE s \in 1..(Cardinality(used) + i) :
    s \notin used /\ Cardinality({t \in 1..s : t \notin used}) = i

\* Mutant: a row whose variant is gone is skipped.
AddedOnlyNew(e) == job[e].new

\* The rows that become new variants: the new ones, and the ones whose variant
\* another editor has deleted since.
Added(e) == job[e].new + Cardinality(job[e].variants \ LiveVariants)

Synchronised(e) ==
  LET used == {variant[n].sku : n \in LiveVariants}
  IN [n \in DOMAIN variant |-> [variant[n] EXCEPT !.live = @ /\ n \notin job[e].doomed]]
       \o [i \in 1..Added(e) |-> [sku |-> NewSku(used, i), live |-> TRUE]]

\* Mutant: uploads are numbered from one too low.
AppendedOffByOne(e) ==
  LET left == LivePhotos \ job[e].photos
  IN [n \in DOMAIN photo |-> [photo[n] EXCEPT !.live = n \in left]]
       \o [i \in 1..job[e].uploads |->
             [order |-> Cardinality(left) + i - 2, cover |-> FALSE, live |-> TRUE]]

\* The rows after removals and uploads.  An upload is numbered by the count.
Appended(e) ==
  LET left == LivePhotos \ job[e].photos
  IN [n \in DOMAIN photo |-> [photo[n] EXCEPT !.live = n \in left]]
       \o [i \in 1..job[e].uploads |->
             [order |-> Cardinality(left) + i - 1, cover |-> FALSE, live |-> TRUE]]

\* Row n of p comes first by (display_order, pk) among the live ones.
First(p, n) ==
  /\ p[n].live
  /\ \A m \in DOMAIN p : p[m].live =>
       p[n].order < p[m].order \/ (p[n].order = p[m].order /\ n <= m)

\* Mutant: the cover goes to nobody.
NotCovered(p) == p

\* One cover: the first photo is promoted if none is.
Covered(p) ==
  IF \E n \in DOMAIN p : p[n].live /\ p[n].cover
  THEN p
  ELSE [n \in DOMAIN p |-> [p[n] EXCEPT !.cover = @ \/ First(p, n)]]

\* COMMIT, with the deferred check that no order item lost its variant.
Commit(e) ==
  /\ job[e].phase = "unlinked"
  /\ Unprotected(job[e].doomed)
  /\ variant' = Synchronised(e)
  /\ photo' = Covered(Appended(e))
  /\ job' = [job EXCEPT ![e] = NoJob]
  /\ UNCHANGED <<bought, edits>>

\* The seller leaves the page, the database refuses the save, or the worker dies.
Discard(e) ==
  /\ job[e] # NoJob
  /\ job' = [job EXCEPT ![e] = NoJob]
  /\ UNCHANGED <<variant, photo, bought, edits>>

Next ==
  \/ \E n \in DOMAIN variant : Buy(n)
  \/ \E e \in Editors :
       \/ OpenPage(e) \/ ShowAgain(e) \/ BeginSave(e) \/ DeleteVariants(e) \/ Commit(e) \/ Discard(e)
       \/ \E form \in Forms(e) : Submit(e, form)

Spec == Init /\ [][Next]_vars

-----------------------------------------------------------------------------
Jobs == [phase : Phases, variants : SUBSET Nat, photos : SUBSET Nat, sync : BOOLEAN,
         new : Nat, uploads : Nat, doomed : SUBSET Nat]

TypeOK ==
  /\ variant \in Seq(Variants)
  /\ photo \in Seq(Photos)
  /\ bought \subseteq DOMAIN variant
  /\ job \in [Editors -> Jobs]
  /\ edits \in Nat
  /\ \A e \in Editors : job[e].variants \subseteq DOMAIN variant
                        /\ job[e].photos \subseteq DOMAIN photo

\* A variant that was ever bought stays, whichever stale page leaves it out and
\* however the order and the save interleave (dashboard.py:461).
BoughtVariantsStay == bought \subseteq LiveVariants

\* The SKUs that edits hand out never run into the ones in use, so an SKU on an
\* order line names one variant for ever, although numbers are used again.
SkuNamesOneVariant ==
  \A m, n \in LiveVariants \cup bought : variant[m].sku = variant[n].sku => m = n

\* "Exactly one cover photo" (dashboard.py:539), as long as there is a photo.
OneCover ==
  LivePhotos # {} => \E n \in LivePhotos : {m \in LivePhotos : photo[m].cover} = {n}

\* A save leaves exactly as many variants as the form listed, even those that
\* another editor deleted after the page was shown.
SavedAsListed ==
  [][\A e \in Editors : Commit(e) /\ job[e].sync =>
       Cardinality(LiveVariants') = Cardinality(job[e].variants) + job[e].new]_vars
=============================================================================
