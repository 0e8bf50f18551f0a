--------------------------- MODULE AuditAbstract ---------------------------
(***************************************************************************)
(* audit_page as crawl() relies on it, and as module Crawl models it: one  *)
(* call ends, in one step, with a record whose navigation loaded or        *)
(* failed, or with an exception, and leaves the shared tab on one of the   *)
(* pages Crawl!TabsAfter allows.  Module PageAudit implements it.          *)
(***************************************************************************)
EXTENDS Naturals, Sequences

CONSTANTS Base, Live, Other, NoHost, Paths, Root, SkipPaths, Links,
          SeedAliases, SeedNodes, Drush, Compare, Faults,
          U,          \* the url argument of audit_page
          EntryTab    \* the page the tab shows when audit_page is called

VARIABLES
  outcome,  \* "running" until the call ends; then "loaded", "failed" or "raised"
  tab       \* the page the tab shows

\* The crawl's view of one audit, with the crawl's own state held still.
C == INSTANCE Crawl WITH phase <- "running", queue <- << >>, visited <- {},
                         results <- << >>, pending <- << >>

Init == outcome = "running" /\ tab = EntryTab

\* audit_page returns its record (Crawl!Visit).
Returns ==
  /\ outcome = "running"
  /\ \E nav \in C!Navigate \ {"raised"} :
        outcome' = nav /\ tab' \in C!TabsAfter(U, nav)

\* audit_page raises (Crawl!VisitRaises); the crawl never reads the tab again.
Raises ==
  /\ outcome = "running"
  /\ \E nav \in C!Navigate : nav = "raised" \/ (nav = "loaded" /\ "evalerr" \in Faults)
  /\ outcome' = "raised"
  /\ tab' \in C!Page

Spec == Init /\ [][Returns \/ Raises]_<<outcome, tab>>

=============================================================================
