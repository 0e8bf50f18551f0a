------------------------------- MODULE Crawl -------------------------------
(***************************************************************************)
(* The crawl orchestrator of the site auditor                              *)
(* (src/helper_scripts/site_auditor/auditor.py: crawl, discover_links,     *)
(* seed_urls_from_drush and the URL helpers), with audit_page seen from    *)
(* the crawl: the way its navigation ends (loaded, navigation_error, or an *)
(* exception that escapes it) and the page it leaves the shared browser    *)
(* tab on.                                                                 *)
(*                                                                         *)
(* A URL is a record of its host, its path and whether it carries a        *)
(* trailing slash: that is all normalise_url, is_internal and should_skip  *)
(* look at.  The site is a constant: the ordered anchors of every path.    *)
(***************************************************************************)
EXTENDS Naturals, Sequences

CONSTANTS
  Base,         \* host of the audited site (--url)
  Live,         \* host of the comparison site (--compare)
  Other,        \* any third-party host a page links to
  NoHost,       \* the "host" of about:blank and of a browser error page
  Paths,        \* the paths of the site
  Root,         \* the path "/"
  SkipPaths,    \* the paths should_skip matches (SKIP_PREFIXES, SKIP_EXTENSIONS)
  Links,        \* Links[p]: the anchors of page p, in document order
  SeedAliases,  \* rows of the path_alias query, in order
  SeedNodes,    \* rows of the node_field_data query, in order
  Drush,        \* TRUE iff --drush was given
  Compare,      \* TRUE iff --compare was given
  Faults        \* the failures the environment may produce

Hosts == {Base, Live, Other}

\* An anchor as written in the HTML: relative to the page's host, or to another site.
Href == [ext : BOOLEAN, path : Paths, slash : BOOLEAN]

Url == [host : Hosts, path : Paths, slash : BOOLEAN]

\* What the browser tab shows: a page of some host, or a blank/error page.
Page == [host : Hosts \cup {NoHost}, path : Paths]

\* "timeout": a goto exceeds its timeout (PlaywrightTimeoutError);
\* "neterr": a goto fails with any other Playwright error (net::ERR_...);
\* "evalerr": page.content() or page.evaluate() raises (page navigating away).
FaultKinds == {"timeout", "neterr", "evalerr"}

ASSUME ConstAssumption ==
  /\ NoHost \notin Hosts
  /\ Base # Live /\ Base # Other /\ Live # Other
  /\ Root \in Paths
  /\ SkipPaths \subseteq Paths \ {Root}
  /\ Links \in [Paths -> Seq(Href)]
  /\ SeedAliases \in Seq([path : Paths, slash : BOOLEAN])
  /\ SeedNodes \in Seq(Paths)
  /\ Drush \in BOOLEAN
  /\ Compare \in BOOLEAN
  /\ Faults \subseteq FaultKinds

VARIABLES
  phase,    \* "seeding", "running" (the while loop), "done" (browser closed), "crashed"
  queue,    \* queue: list[str]
  visited,  \* visited: set[str], of normalised URLs
  results,  \* results: list[dict], one record per audit_page call that returned
  tab,      \* the page the single browser tab shows
  pending   \* anchors of the rendered page not yet merged into the queue

vars == <<phase, queue, visited, results, tab, pending>>

Blank == [host |-> NoHost, path |-> Root]

Record == [url : Url, loaded : BOOLEAN]

-----------------------------------------------------------------------------
(* URL helpers *)

\* Mutant: normalise_url returning the URL unchanged.
NormaliseUrlKeepSlash(u) == u

\* normalise_url: url.rstrip("/")
NormaliseUrl(u) == [u EXCEPT !.slash = FALSE]

\* is_internal: no netloc other than the base's
IsInternal(u) == u.host = Base

\* should_skip: a skip prefix or a skip extension of the lower-cased path
ShouldSkip(u) == u.path \in SkipPaths

\* The page a URL names: its host and path_of(url)
PageOf(u) == [host |-> u.host, path |-> u.path]

\* a.href of an anchor on a page of host h
Resolve(h, a) == [host |-> IF a.ext THEN Other ELSE h, path |-> a.path, slash |-> a.slash]

\* document.querySelectorAll('a[href]').map(a => a.href) on the page t
Anchors(t) ==
  IF t.host = NoHost THEN << >>
  ELSE [i \in DOMAIN Links[t.path] |-> Resolve(t.host, Links[t.path][i])]

-----------------------------------------------------------------------------
(* audit_page as the crawl sees it *)

NavFaults == Faults \cap {"timeout", "neterr"}

NavResults == {"ok"} \cup NavFaults

\* The goto with wait_until="networkidle" and, only on PlaywrightTimeoutError,
\* the retry with "domcontentloaded": any other error of the first attempt
\* escapes audit_page.
Navigate ==
  { IF r1 = "ok" THEN "loaded"
    ELSE IF r1 = "neterr" THEN "raised"
    ELSE IF r2 = "ok" THEN "loaded" ELSE "failed" : r1, r2 \in NavResults }

\* The page a loaded audit leaves the tab on: the last goto is the live
\* comparison when --compare is given, the accessibility reload otherwise;
\* when it fails the tab keeps the page or shows the error page.
LastNavTarget(u) == IF Compare THEN [host |-> Live, path |-> u.path] ELSE PageOf(u)

TabsAfter(u, nav) ==
  IF nav = "loaded"
  THEN {LastNavTarget(u)} \cup (IF NavFaults # {} THEN {PageOf(u), Blank} ELSE {})
  ELSE {tab, PageOf(u), Blank}

\* discover_links: the evaluate that lists the anchors, or [] when it raises
DiscoveryResults(t) == {Anchors(t)} \cup (IF "evalerr" \in Faults THEN {<< >>} ELSE {})

-----------------------------------------------------------------------------
(* The crawl *)

AliasUrls == [i \in DOMAIN SeedAliases |->
                [host |-> Base, path |-> SeedAliases[i].path, slash |-> SeedAliases[i].slash]]

NodeUrls == [i \in DOMAIN SeedNodes |-> [host |-> Base, path |-> SeedNodes[i], slash |-> FALSE]]

Init ==
  /\ phase = "seeding"
  /\ queue = << [host |-> Base, path |-> Root, slash |-> TRUE] >>
  /\ visited = {}
  /\ results = << >>
  /\ tab = Blank
  /\ pending = << >>

\* queue.extend(seed_urls_from_drush(...)): each of the two queries may fail
\* with CalledProcessError, which only drops its rows.
Seed ==
  /\ phase = "seeding"
  /\ \E aliasOk, nodeOk \in BOOLEAN :
        queue' = queue \o (IF Drush /\ aliasOk THEN AliasUrls ELSE << >>)
                       \o (IF Drush /\ nodeOk THEN NodeUrls ELSE << >>)
  /\ phase' = "running"
  /\ UNCHANGED <<visited, results, tab, pending>>

LoopReady == phase = "running" /\ pending = << >> /\ queue # << >>

Fresh(u) == NormaliseUrl(u) \notin visited /\ ~ShouldSkip(u)

\* Mutant: the loop reads queue[0] instead of popping it before `continue`.
DiscardWithoutPop ==
  /\ LoopReady
  /\ ~Fresh(Head(queue))
  /\ UNCHANGED <<phase, queue, visited, results, tab, pending>>

\* url = queue.pop(0) is already visited or skipped: continue
Discard ==
  /\ LoopReady
  /\ ~Fresh(Head(queue))
  /\ queue' = Tail(queue)
  /\ UNCHANGED <<phase, visited, results, tab, pending>>

\* The popped URL is audited and audit_page returns a record; the crawl then
\* lists the anchors of whatever page the tab shows.
Visit ==
  /\ LoopReady
  /\ LET u == Head(queue) IN
       /\ Fresh(u)
       /\ \E nav \in Navigate \ {"raised"} :
            \E t \in TabsAfter(u, nav) :
               /\ results' = Append(results, [url |-> u, loaded |-> nav = "loaded"])
               /\ tab' = t
               /\ pending' \in DiscoveryResults(t)
       /\ visited' = visited \cup {NormaliseUrl(u)}
       /\ queue' = Tail(queue)
       /\ phase' = phase

\* audit_page raises: a non-timeout error of the first goto, or page.content()
\* failing after the navigation.  Nothing catches it: the crawl ends and the
\* records gathered so far are never exported.
VisitRaises ==
  /\ LoopReady
  /\ LET u == Head(queue) IN
       /\ Fresh(u)
       /\ \E nav \in Navigate : nav = "raised" \/ (nav = "loaded" /\ "evalerr" \in Faults)
       /\ visited' = visited \cup {NormaliseUrl(u)}
       /\ queue' = Tail(queue)
  /\ phase' = "crashed"
  /\ UNCHANGED <<results, tab, pending>>

\* Mutant: the enqueue test reads `in visited` for `not in visited`.
MergeLinkInverted ==
  /\ phase = "running"
  /\ pending # << >>
  /\ LET a == Head(pending)
         l == NormaliseUrl(a)
     IN  queue' = IF IsInternal(a) /\ ~ShouldSkip(l) /\ l \in visited
                  THEN Append(queue, l) ELSE queue
  /\ pending' = Tail(pending)
  /\ UNCHANGED <<phase, visited, results, tab>>

\* One link of discover_links' loop and of the crawl's enqueue loop: keep it
\* if internal, strip it, drop it if skipped, append it if not yet visited.
MergeLink ==
  /\ phase = "running"
  /\ pending # << >>
  /\ LET a == Head(pending)
         l == NormaliseUrl(a)
     IN  queue' = IF IsInternal(a) /\ ~ShouldSkip(l) /\ l \notin visited
                  THEN Append(queue, l) ELSE queue
  /\ pending' = Tail(pending)
  /\ UNCHANGED <<phase, visited, results, tab>>

\* while queue: ... ends; await browser.close()
Finish ==
  /\ phase = "running"
  /\ pending = << >>
  /\ queue = << >>
  /\ phase' = "done"
  /\ UNCHANGED <<queue, visited, results, tab, pending>>

Next == Seed \/ Discard \/ Visit \/ VisitRaises \/ MergeLink \/ Finish

\* One coroutine runs the loop.  The gotos and waits carry timeouts, but
\* page.content, page.evaluate and add_script_tag do not: the fairness
\* assumes the browser answers them, as a live page does.
Spec == Init /\ [][Next]_vars /\ WF_vars(Next)

-----------------------------------------------------------------------------
(* Properties *)

TypeOK ==
  /\ phase \in {"seeding", "running", "done", "crashed"}
  /\ queue \in Seq(Url)
  /\ visited \subseteq Url
  /\ results \in Seq(Record)
  /\ tab \in Page
  /\ pending \in Seq(Url)

\* Spec 3 and 8: no page (host and path, trailing slash ignored) is audited
\* twice, and unless the crawl aborted the visited set is exactly the set of
\* audited pages.  It rests on crawl()'s pop-time check of the normalised
\* URL against visited, whatever duplicates the queue holds.
AuditedOnce ==
  /\ \A i, j \in DOMAIN results : i # j => PageOf(results[i].url) # PageOf(results[j].url)
  /\ phase # "crashed" => visited = {NormaliseUrl(results[i].url) : i \in DOMAIN results}

\* Spec 1 and 4.4: when the crawl completes, every in-scope internal link on
\* every page it loaded has been visited, i.e. discover_links ran on the
\* audited page and its links reached the queue.
DiscoveryComplete ==
  phase = "done" =>
    \A i \in DOMAIN results :
      results[i].loaded =>
        LET t == PageOf(results[i].url) IN
          \A k \in DOMAIN Anchors(t) :
             LET l == NormaliseUrl(Anchors(t)[k]) IN
               IsInternal(l) /\ ~ShouldSkip(l) => l \in visited

\* Spec 7: nothing in the crawl is process-fatal; a failing page only
\* yields a navigation_error record.
NoAbort == phase # "crashed"

\* Spec 7: the crawl always completes (or aborts): duplicates in the queue
\* and links back to visited pages never keep crawl()'s loop running.
Termination == <>(phase \in {"done", "crashed"})

=============================================================================
