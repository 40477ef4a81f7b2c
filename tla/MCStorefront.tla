----------------------------- MODULE MCStorefront -----------------------------
(* The pages that only read.  The sales figures share no state with the      *)
(* catalogue's listings and its sitemap, and of those two neither sees the   *)
(* other's reader: a behaviour exercises one of the three, while the others  *)
(* have no reader.  Two of three products have the same price, and one of    *)
(* the two categories is the parent of the other.  The first order is for a  *)
(* candle alone, the second for three products, of which a table of two      *)
(* leaves out one of those that sold the same.                               *)
EXTENDS Sitemap, SalesReport

MCPrice == [p \in 1..3 |-> IF p = 3 THEN 2 ELSE p]
MCCategories == {"room", "lamps"}
MCParentOf == [c \in MCCategories |-> IF c = "lamps" THEN "room" ELSE Shop]

MCTotal == [o \in 1..2 |-> o]
MCQuantity == [o \in 1..2 |-> [p \in SoldProducts |-> IF p = "candle" THEN o ELSE o - 1]]

VARIABLE side
mcVars == <<listingVars, crawl, salesVars, side>>

MCInit == /\ SitemapInit /\ SalesInit /\ side \in {"shop", "sitemap", "dashboard"}
          /\ side = "dashboard" =>
               product = [p \in Products |-> [state |-> "unborn", category |-> "room"]]
MCNext == /\ UNCHANGED side
          /\ \/ side = "shop" /\ ListingNext /\ Recorded /\ UNCHANGED salesVars
             \/ side = "sitemap" /\ UNCHANGED <<walk, salesVars>> /\ SitemapNext
             \/ side = "dashboard" /\ SalesNext /\ UNCHANGED sitemapVars
MCSpec == MCInit /\ [][MCNext]_mcVars

TypeOK == ListingTypeOK /\ SitemapTypeOK /\ SalesTypeOK
=============================================================================
