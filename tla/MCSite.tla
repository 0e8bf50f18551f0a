------------------------------ MODULE MCSite ------------------------------
(***************************************************************************)
(* The small site the model-checking runs crawl and audit: a chain        *)
(* / -> /a -> /b -> /c -> /d, an admin page, a link to another site, links  *)
(* with and without the trailing slash, and drush seeds that repeat        *)
(* discovered pages.                                                       *)
(***************************************************************************)

MCPaths == {"/", "/a", "/b", "/c", "/d", "/admin"}

MCSkipPaths == {"/admin"}

Rel(p, s) == [ext |-> FALSE, path |-> p, slash |-> s]
Ext(p) == [ext |-> TRUE, path |-> p, slash |-> FALSE]

MCLinks ==
  [p \in MCPaths |->
     CASE p = "/"      -> << Rel("/a", FALSE), Rel("/admin", FALSE), Ext("/b"), Rel("/", TRUE) >>
       [] p = "/a"     -> << Rel("/b", FALSE), Rel("/", TRUE), Rel("/a", TRUE) >>
       [] p = "/b"     -> << Rel("/c", FALSE), Rel("/a", FALSE), Rel("/admin", TRUE), Ext("/") >>
       [] p = "/c"     -> << Rel("/b", TRUE), Rel("/d", FALSE), Ext("/d") >>
       [] p = "/d"     -> << Rel("/a", TRUE), Rel("/d", FALSE), Rel("/", TRUE), Rel("/c", TRUE) >>
       [] p = "/admin" -> << Rel("/c", FALSE) >>]

MCSeedAliases == << [path |-> "/b", slash |-> TRUE] >>

MCSeedNodes == << "/a", "/d" >>

=============================================================================
