--------------------------- MODULE MC_ImageScrape ---------------------------
(***************************************************************************)
(* Three profiles of the listing.  In the distinct site every name has its *)
(* own slug; in the colliding site "Ana Pop" and "Ana-Pop" both slugify to *)
(* ana-pop: slugify folds runs of spaces and hyphens into one hyphen.  *)
(***************************************************************************)
EXTENDS ImageScrape

MCProfiles == {"/medici/ana-pop", "/medici/ion-pop", "/medici/ana-pop-2"}

MCDistinctTitle ==
  [p \in MCProfiles |-> CASE p = "/medici/ana-pop" -> "Ana Pop"
                          [] p = "/medici/ion-pop" -> "Ion Pop"
                          [] OTHER -> "Ana Pop 2"]

MCCollidingTitle ==
  [p \in MCProfiles |-> CASE p = "/medici/ana-pop" -> "Ana Pop"
                          [] p = "/medici/ion-pop" -> "Ion Pop"
                          [] OTHER -> "Ana-Pop"]

\* slugify of each title
MCSlug ==
  [t \in {"Ana Pop", "Ion Pop", "Ana Pop 2", "Ana-Pop"} |->
     CASE t = "Ana Pop" -> "ana-pop" [] t = "Ion Pop" -> "ion-pop"
       [] t = "Ana Pop 2" -> "ana-pop-2" [] OTHER -> "ana-pop"]

MCImages ==
  [p \in MCProfiles |-> IF p = "/medici/ion-pop" THEN {"original"} ELSE {"original", "300w"}]

=============================================================================
