------------------------------ MODULE MC_Crawl ------------------------------
(* The crawl of the site of MCSite, for TLC. *)
EXTENDS Crawl, MCSite

=============================================================================
