------------------------------- MODULE Sitemap -------------------------------
(***************************************************************************)
(* The sitemap (storefront.sitemaps, served by the view that config.urls   *)
(* hands SITEMAPS to) while staff change the catalogue.  One response is   *)
(* three statements and no transaction holds them together: Django's       *)
(* paginator counts the products and then takes that many, and the         *)
(* categories are listed after that.  A crawler follows the links later.   *)
(* The slug "demo", which is never named, is left out.                     *)
(***************************************************************************)
EXTENDS Listing

VARIABLE crawl  \* one reading of the sitemap, and what staff changed since

sitemapVars == <<listingVars, crawl>>

\* steady and came: products to be named throughout, and those that became so,
\* between count and slice; touched: changed after they were named; toggled and
\* left: categories opened or closed, or left by a product, after they were.
NoCrawl == [step |-> "off", count |-> 0, products |-> {}, categories |-> {},
            steady |-> {}, came |-> {}, touched |-> {}, toggled |-> {}, left |-> {}]

SitemapInit == ListingInit /\ crawl = NoCrawl

-----------------------------------------------------------------------------
(* What the sitemap names.                                                 *)

IndexedProducts == {p \in Products : product[p].state = "active"}

\* Mutant: the sitemap counts every product of a category.
IndexedWithAny == {c \in open : \E p \in Products : product[p].category = c}

Holding(c) == {p \in Products : Active(p) /\ product[p].category = c}
IndexedCategories == {c \in open : Holding(c) # {}}

-----------------------------------------------------------------------------
(* The response, a statement at a time.                                    *)

CountProducts ==
  /\ crawl.step = "off"
  /\ crawl' = [crawl EXCEPT !.step = "slice", !.count = Cardinality(IndexedProducts),
                            !.steady = IndexedProducts]

\* The first `count` by slug, an order that is not that of creation.
SliceProducts ==
  /\ crawl.step = "slice"
  /\ \E S \in SUBSET IndexedProducts :
       /\ Cardinality(S) <= crawl.count
       /\ Cardinality(S) = crawl.count \/ S = IndexedProducts
       /\ crawl' = [crawl EXCEPT !.step = "categories", !.products = S]

ReadCategories ==
  /\ crawl.step = "categories"
  /\ crawl' = [crawl EXCEPT !.step = "done", !.categories = IndexedCategories]

Forget == crawl.step = "done" /\ crawl' = NoCrawl

\* What a change by staff means to a sitemap read before it.
Changed == {p \in Products : product'[p] # product[p]}
Toggled == (open \ open') \cup (open' \ open)
Left == {c \in Categories : ~(Holding(c) \subseteq Holding(c)')}

Recorded ==
  crawl' = CASE crawl.step = "slice" -> [crawl EXCEPT !.steady = @ \cap IndexedProducts',
                                                      !.came = @ \cup (IndexedProducts' \ IndexedProducts)]
             [] crawl.step = "categories" -> [crawl EXCEPT !.touched = @ \cup Changed]
             [] crawl.step = "done" -> [crawl EXCEPT !.touched = @ \cup Changed, !.toggled = @ \cup Toggled,
                                                     !.left = @ \cup Left]
             [] OTHER -> crawl

SitemapNext ==
  \/ ListingNext /\ Recorded
  \/ CountProducts /\ UNCHANGED listingVars
  \/ SliceProducts /\ UNCHANGED listingVars
  \/ ReadCategories /\ UNCHANGED listingVars
  \/ Forget /\ UNCHANGED listingVars

SitemapSpec == SitemapInit /\ [][SitemapNext]_sitemapVars

-----------------------------------------------------------------------------
Crawls == [step : {"off", "slice", "categories", "done"}, count : Nat,
           products : SUBSET Products, categories : SUBSET Categories,
           steady : SUBSET Products, came : SUBSET Products, touched : SUBSET Products,
           toggled : SUBSET Categories, left : SUBSET Categories]

SitemapTypeOK == crawl \in Crawls

\* Products that stayed available are missing from a sitemap only in place of as
\* many that became so between its count and its slice.
FewAreMissed == Cardinality(crawl.steady \ crawl.products) <= Cardinality(crawl.came)

\* A named page is served, and a named category has something on it, unless
\* that very product or category changed after it was named.
LinksLead ==
  /\ \A p \in crawl.products \ crawl.touched : ProductPage(p)
  /\ \A c \in crawl.categories : /\ c \notin crawl.toggled => CategoryPage(c)
                                 /\ c \notin crawl.left => Matching(c) # {}

\* A product is named beside its category, although the two were read apart,
\* unless the product changed or the category is closed or was opened since.
NamedWithCategory ==
  \A p \in crawl.products \ crawl.touched :
    product[p].category \in open \ crawl.toggled => product[p].category \in crawl.categories

\* A sitemap put together while staff change the catalogue, and followed while
\* they go on, is wrong only as far as their changes explain (sitemaps.py:50,
\* :73, views.py:226): pages named and gone, products missed, a product without
\* its category.
SitemapIsFair == crawl.step = "done" => FewAreMissed /\ LinksLead /\ NamedWithCategory
=============================================================================
