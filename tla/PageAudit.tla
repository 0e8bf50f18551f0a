----------------------------- MODULE PageAudit -----------------------------
(***************************************************************************)
(* One call of audit_page (src/helper_scripts/site_auditor/auditor.py,     *)
(* lines 187-405) on the crawl's single page object: its phases in code    *)
(* order, the page it leaves the tab on, the console listener that fills  *)
(* js_errors, and the async on_response handlers that fill request_sizes  *)
(* while the call goes on.  Measurements (timings, SEO, images, layout)    *)
(* are left out: only whether each phase ran and how it ended is kept.     *)
(***************************************************************************)
EXTENDS Naturals, Sequences

CONSTANTS Base, Live, Other, NoHost, Paths, Root, SkipPaths, Links,
          SeedAliases, SeedNodes, Drush, Compare, Faults,
          U,             \* the url argument
          EntryTab,      \* the page the tab shows when the call starts
          PriorAudits,   \* audit_page calls made before on the same page object
          PageErrors,    \* TRUE iff the audited pages log a console error when they load
          MaxResponses   \* bound on the responses one navigation receives

VARIABLES
  pc,         \* where audit_page is: see Phases
  tab,        \* the page the tab shows
  viewport,   \* the page's viewport size
  listeners,  \* listeners registered on the page object, by every call so far
  jsErrors,   \* js_errors: the loads whose console errors on_console appended
  recErrors,  \* result["errors"]
  observed,   \* responses received by the page during the navigation phase
  pendingH,   \* on_response tasks of this call still awaiting all_headers()
  sizes,      \* len(request_sizes)
  rec,        \* the other fields of the record the crawl sees
  vp          \* index into VIEWPORTS of the responsive loop

\* Crawl's view of the page (its helpers), with the crawl's own state held still.
C == INSTANCE Crawl WITH phase <- "running", queue <- << >>, visited <- {},
                         results <- << >>, pending <- << >>

ASSUME PageAssumption ==
  /\ U \in C!Url /\ EntryTab \in C!Page /\ Root \in Paths
  /\ PriorAudits \in Nat /\ PageErrors \in BOOLEAN /\ MaxResponses \in Nat \ {0}

vars == <<pc, tab, viewport, listeners, jsErrors, recErrors, observed, pendingH, sizes, rec, vp>>

Phases == {"nav", "fallback", "measure", "content", "images", "viewport", "axe", "live",
           "returned", "raised"}

Done == {"returned", "raised"}

\* VIEWPORTS and the size the sweep resets to
VpSize == << "375x812", "768x1024", "1440x900" >>
VpLoad == << "vp375", "vp768", "vp1440" >>
Desktop == "1440x900"

\* What the primary navigation and the later gotos load
Loads == {"primary", "axe", "live"} \cup {VpLoad[i] : i \in 1 .. 3}
LivePage == [host |-> Live, path |-> U.path]

\* The page a failed goto leaves the tab on: unchanged, partly loaded, or the error page.
AfterFailedGoto(target) == {tab, target, C!Blank}

\* A goto that completes: the tab shows the target, and its console errors
\* reach on_console (still registered: nothing removes it).
Loaded(target, load) ==
  /\ tab' = target
  /\ jsErrors' = IF PageErrors THEN jsErrors \cup {load} ELSE jsErrors

\* Responses received during a navigation attempt each start an on_response task.
Respond(lo) ==
  \E k \in lo .. MaxResponses :
     /\ observed' = observed + k
     /\ pendingH' = pendingH + k

\* The page object after page.on(...) three times (lines 193-233).
Init ==
  /\ pc = "nav"
  /\ tab = EntryTab
  /\ viewport = IF PriorAudits = 0 THEN "1280x720" ELSE Desktop
  /\ listeners = 3 * (PriorAudits + 1)
  /\ jsErrors = {}
  /\ recErrors = {}
  /\ observed = 0
  /\ pendingH = 0
  /\ sizes = 0
  /\ rec = [nav |-> "none", requests |-> 0, a11y |-> "none", live |-> "none"]
  /\ vp = 1

-----------------------------------------------------------------------------
(* Navigation (lines 236-252) *)

\* The networkidle goto, or the domcontentloaded retry, loads the page.
GotoLoads ==
  /\ pc \in {"nav", "fallback"}
  /\ Respond(1)
  /\ Loaded(C!PageOf(U), "primary")
  /\ rec' = [rec EXCEPT !.nav = "loaded"]
  /\ pc' = "measure"
  /\ UNCHANGED <<viewport, listeners, recErrors, sizes, vp>>

\* The networkidle goto times out (PlaywrightTimeoutError): retry.
GotoTimesOut ==
  /\ pc = "nav"
  /\ "timeout" \in Faults
  /\ Respond(0)
  /\ tab' \in AfterFailedGoto(C!PageOf(U))
  /\ pc' = "fallback"
  /\ UNCHANGED <<viewport, listeners, jsErrors, recErrors, sizes, rec, vp>>

\* Any other error of the networkidle goto is not caught.
GotoRaises ==
  /\ pc = "nav"
  /\ "neterr" \in Faults
  /\ tab' \in {tab, C!Blank}
  /\ pc' = "raised"
  /\ UNCHANGED <<viewport, listeners, jsErrors, recErrors, observed, pendingH, sizes, rec, vp>>

\* Mutant: the failed retry records the error but does not return.
FallbackFailsNoReturn ==
  /\ pc = "fallback"
  /\ C!NavFaults # {}
  /\ tab' \in AfterFailedGoto(C!PageOf(U))
  /\ recErrors' = recErrors \cup {"navigation_error"}
  /\ rec' = [rec EXCEPT !.nav = "failed"]
  /\ pc' = "measure"
  /\ UNCHANGED <<viewport, listeners, jsErrors, observed, pendingH, sizes, vp>>

\* The retry fails too: a navigation_error record is returned at once.
FallbackFails ==
  /\ pc = "fallback"
  /\ C!NavFaults # {}
  /\ tab' \in AfterFailedGoto(C!PageOf(U))
  /\ recErrors' = recErrors \cup {"navigation_error"}
  /\ rec' = [rec EXCEPT !.nav = "failed"]
  /\ pc' = "returned"
  /\ UNCHANGED <<viewport, listeners, jsErrors, observed, pendingH, sizes, vp>>

\* load_ms, request_count = len(request_sizes), TTFB and CLS (absorbed failures).
Measure ==
  /\ pc = "measure"
  /\ rec' = [rec EXCEPT !.requests = sizes]
  /\ pc' = "content"
  /\ UNCHANGED <<tab, viewport, listeners, jsErrors, recErrors, observed, pendingH, sizes, vp>>

-----------------------------------------------------------------------------
(* SEO, images and the error log (lines 281-328) *)

\* html = await page.content(), outside any try.
ContentRaises ==
  /\ pc = "content"
  /\ "evalerr" \in Faults
  /\ pc' = "raised"
  /\ UNCHANGED <<tab, viewport, listeners, jsErrors, recErrors, observed, pendingH, sizes, rec, vp>>

\* SEO parsing and the image audit, then result["errors"].extend(js_errors).
ContentAndErrors ==
  /\ pc = "content"
  /\ recErrors' = recErrors \cup jsErrors
  /\ pc' = "viewport"
  /\ UNCHANGED <<tab, viewport, listeners, jsErrors, observed, pendingH, sizes, rec, vp>>

-----------------------------------------------------------------------------
(* Responsive sweep and reset (lines 331-372) *)

\* set_viewport_size, outside any try, raises (in the loop or at the reset).
ResizeRaises ==
  /\ pc = "viewport"
  /\ "evalerr" \in Faults
  /\ pc' = "raised"
  /\ UNCHANGED <<tab, viewport, listeners, jsErrors, recErrors, observed, pendingH, sizes, rec, vp>>

\* One viewport: resize, then the domcontentloaded goto loads the page; the
\* layout probes and the screenshot only fill responsive_issues.
ViewportLoads ==
  /\ pc = "viewport"
  /\ vp <= Len(VpSize)
  /\ viewport' = VpSize[vp]
  /\ Loaded(C!PageOf(U), VpLoad[vp])
  /\ vp' = vp + 1
  /\ UNCHANGED <<pc, listeners, recErrors, observed, pendingH, sizes, rec>>

\* One viewport: resize, the goto fails, `continue`.
ViewportGotoFails ==
  /\ pc = "viewport"
  /\ vp <= Len(VpSize)
  /\ C!NavFaults # {}
  /\ viewport' = VpSize[vp]
  /\ tab' \in AfterFailedGoto(C!PageOf(U))
  /\ vp' = vp + 1
  /\ UNCHANGED <<pc, listeners, jsErrors, recErrors, observed, pendingH, sizes, rec>>

\* After the loop: set_viewport_size(1440, 900).
ResetViewport ==
  /\ pc = "viewport"
  /\ vp > Len(VpSize)
  /\ viewport' = Desktop
  /\ pc' = "axe"
  /\ UNCHANGED <<tab, listeners, jsErrors, recErrors, observed, pendingH, sizes, rec, vp>>

-----------------------------------------------------------------------------
(* Accessibility and live comparison (lines 374-405) *)

\* After the accessibility phase: the live comparison with --compare
\* (line 391), the return of the record without it.
Comparing == IF Compare THEN "live" ELSE "returned"

\* The axe goto loads; injecting and running axe may still fail (axe_error).
AxeLoads ==
  /\ pc = "axe"
  /\ Loaded(C!PageOf(U), "axe")
  /\ \E r \in IF Faults = {} THEN {"ok"} ELSE {"ok", "error"} : rec' = [rec EXCEPT !.a11y = r]
  /\ pc' = Comparing
  /\ UNCHANGED <<viewport, listeners, recErrors, observed, pendingH, sizes, vp>>

\* The axe goto fails: one axe_error entry.
AxeGotoFails ==
  /\ pc = "axe"
  /\ C!NavFaults # {}
  /\ tab' \in AfterFailedGoto(C!PageOf(U))
  /\ rec' = [rec EXCEPT !.a11y = "error"]
  /\ pc' = Comparing
  /\ UNCHANGED <<viewport, listeners, jsErrors, recErrors, observed, pendingH, sizes, vp>>

\* The networkidle goto to compare_base + path loads: live_comparison timings.
LiveLoads ==
  /\ pc = "live"
  /\ Compare
  /\ Loaded(LivePage, "live")
  /\ rec' = [rec EXCEPT !.live = "ok"]
  /\ pc' = "returned"
  /\ UNCHANGED <<viewport, listeners, recErrors, observed, pendingH, sizes, vp>>

\* The live goto fails: live_comparison = {"error": ...}.
LiveFails ==
  /\ pc = "live"
  /\ Compare
  /\ C!NavFaults # {}
  /\ tab' \in AfterFailedGoto(LivePage)
  /\ rec' = [rec EXCEPT !.live = "error"]
  /\ pc' = "returned"
  /\ UNCHANGED <<viewport, listeners, jsErrors, recErrors, observed, pendingH, sizes, vp>>

-----------------------------------------------------------------------------
(* The response handlers (lines 225-231), running between the call's awaits *)

\* One on_response task gets its headers and stores the size, or all_headers()
\* raises (the response is gone) and the except drops it.
HandleResponse ==
  /\ pendingH > 0
  /\ pendingH' = pendingH - 1
  /\ \/ sizes' = sizes + 1
     \/ "evalerr" \in Faults /\ sizes' = sizes
  /\ UNCHANGED <<pc, tab, viewport, listeners, jsErrors, recErrors, observed, rec, vp>>

Next ==
  \/ GotoLoads \/ GotoTimesOut \/ GotoRaises \/ FallbackFails \/ Measure
  \/ ContentRaises \/ ContentAndErrors
  \/ ResizeRaises \/ ViewportLoads \/ ViewportGotoFails \/ ResetViewport
  \/ AxeLoads \/ AxeGotoFails \/ LiveLoads \/ LiveFails
  \/ HandleResponse

\* One coroutine and its scheduled handler tasks.  No fairness: only
\* safety is checked of a call (page.content, page.evaluate and
\* add_script_tag have no timeout, so nothing obliges a call to end).
Spec == Init /\ [][Next]_vars

-----------------------------------------------------------------------------
(* Properties *)

TypeOK ==
  /\ pc \in Phases
  /\ tab \in C!Page
  /\ viewport \in {"1280x720", Desktop} \cup {VpSize[i] : i \in 1 .. 3}
  /\ listeners \in Nat
  /\ jsErrors \subseteq Loads
  /\ recErrors \subseteq Loads \cup {"navigation_error"}
  /\ observed \in Nat /\ pendingH \in Nat /\ sizes \in Nat
  /\ rec \in [nav : {"none", "loaded", "failed"}, requests : Nat,
              a11y : {"none", "ok", "error"}, live : {"none", "ok", "error"}]
  /\ vp \in 1 .. Len(VpSize) + 1

\* The refinement mapping: until the call ends the crawl sees nothing of it.
Outcome == CASE pc = "raised" -> "raised" [] pc = "returned" -> rec.nav [] OTHER -> "running"
TabSeen == IF pc \in Done THEN tab ELSE EntryTab

A == INSTANCE AuditAbstract WITH outcome <- Outcome, tab <- TabSeen

\* audit_page implements what module Crawl assumes of it: every way the
\* call ends, and every page its gotos (responsive, axe, live) leave the
\* shared tab on, is one Crawl!Visit or Crawl!VisitRaises allows.
RefinesCrawlView == A!Spec

\* Spec 4.3.2: request_count counts every response of the navigation; the
\* on_response tasks race the read of request_sizes at line 251.
RequestsAccounted ==
  pc = "returned" /\ rec.nav = "loaded" => rec.requests = observed

\* Spec 4.3.6: console errors of every load of the call (the viewport
\* re-navigations included) reach the record; js_errors is copied at line 328.
ErrorLogComplete ==
  pc = "returned" /\ rec.nav = "loaded" => jsErrors \subseteq recErrors

\* Spec 4.3: the listeners are attached for the duration of the call only;
\* the page.on calls of lines 220-233 have no matching remove_listener.
ListenersDetached ==
  pc \in Done => listeners = 3 * PriorAudits

=============================================================================
