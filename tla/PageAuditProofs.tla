-------------------------- MODULE PageAuditProofs --------------------------
(***************************************************************************)
(* Proofs about one call of audit_page (module PageAudit), for every page, *)
(* every entry tab and every set of failures: the type invariant, and that *)
(* the call implements the abstract audit module Crawl relies on           *)
(* (RefinesCrawlView).                                                     *)
(***************************************************************************)
EXTENDS PageAudit, TLAPS

\* The pages the gotos of the call target, and the error page, are pages.
LEMMA TargetsArePages ==
  C!PageOf(U) \in C!Page /\ C!Blank \in C!Page /\ LivePage \in C!Page
BY PageAssumption DEF C!PageOf, C!Blank, C!Page, C!Url, C!Hosts, LivePage

\* A failed goto leaves the tab on a page.
LEMMA AfterFailedGotoType ==
  ASSUME NEW target \in C!Page, tab \in C!Page
  PROVE  AfterFailedGoto(target) \subseteq C!Page
BY TargetsArePages DEF AfterFailedGoto

-----------------------------------------------------------------------------
(* Type correctness *)

LEMMA InitTypeOK == Init => TypeOK
BY PageAssumption DEF Init, TypeOK, Phases, Desktop

LEMMA NextTypeOK == TypeOK /\ [Next]_vars => TypeOK'
<1> SUFFICES ASSUME TypeOK, [Next]_vars PROVE TypeOK'
  OBVIOUS
<1> USE TargetsArePages
<1>1. CASE GotoLoads
  BY <1>1 DEF GotoLoads, Respond, Loaded, TypeOK, Loads, Phases
<1>2. CASE GotoTimesOut
  BY <1>2, AfterFailedGotoType DEF GotoTimesOut, Respond, TypeOK, Phases
<1>3. CASE GotoRaises
  BY <1>3 DEF GotoRaises, TypeOK, Phases
<1>4. CASE FallbackFails
  BY <1>4, AfterFailedGotoType DEF FallbackFails, TypeOK, Phases
<1>5. CASE Measure
  BY <1>5 DEF Measure, TypeOK, Phases
<1>6. CASE ContentRaises
  BY <1>6 DEF ContentRaises, TypeOK, Phases
<1>7. CASE ContentAndErrors
  BY <1>7 DEF ContentAndErrors, TypeOK, Phases
<1>8. CASE ResizeRaises
  BY <1>8 DEF ResizeRaises, TypeOK, Phases
<1>9. CASE ViewportLoads
  <2>1. vp \in 1 .. 3
    BY <1>9 DEF ViewportLoads, TypeOK, VpSize
  <2>2. VpLoad[vp] \in Loads /\ VpSize[vp] \in {VpSize[i] : i \in 1 .. 3}
    BY <2>1 DEF Loads
  <2>3. QED
    BY <1>9, <2>1, <2>2 DEF ViewportLoads, Loaded, TypeOK, VpSize
<1>10. CASE ViewportGotoFails
  BY <1>10, AfterFailedGotoType DEF ViewportGotoFails, TypeOK, VpSize
<1>11. CASE ResetViewport
  BY <1>11 DEF ResetViewport, TypeOK, Phases, Desktop
<1>12. CASE AxeLoads
  BY <1>12 DEF AxeLoads, Loaded, TypeOK, Loads, Phases, Comparing
<1>13. CASE AxeGotoFails
  BY <1>13, AfterFailedGotoType DEF AxeGotoFails, TypeOK, Phases, Comparing
<1>14. CASE LiveLoads
  BY <1>14 DEF LiveLoads, Loaded, TypeOK, Loads, Phases
<1>15. CASE LiveFails
  BY <1>15, AfterFailedGotoType DEF LiveFails, TypeOK, Phases
<1>16. CASE HandleResponse
  BY <1>16 DEF HandleResponse, TypeOK
<1>17. CASE UNCHANGED vars
  BY <1>17 DEF vars, TypeOK
<1>18. QED
  BY <1>1, <1>2, <1>3, <1>4, <1>5, <1>6, <1>7, <1>8, <1>9, <1>10, <1>11,
     <1>12, <1>13, <1>14, <1>15, <1>16, <1>17 DEF Next

\* Every state of a call is well typed.
THEOREM PageTypeCorrect == Spec => []TypeOK
BY InitTypeOK, NextTypeOK, PTL DEF Spec

-----------------------------------------------------------------------------
(* Refinement of the abstract audit *)

\* The phases between the loaded navigation and the return of the record.
Loaded_ == {"measure", "content", "viewport", "axe", "live"}

\* RefinesCrawlView is not inductive: the abstract step that ends the call
\* needs to know, in the state before it, that a retry happens only when
\* gotos can time out, that the measuring phases follow a loaded
\* navigation, and which page the tab can show in each phase.
IInv ==
  /\ TypeOK
  /\ pc = "nav" => tab = EntryTab
  /\ pc = "fallback" => "timeout" \in Faults /\ tab \in {EntryTab, C!PageOf(U), C!Blank}
  /\ pc \in Loaded_ =>
        /\ rec.nav = "loaded"
        /\ tab = C!PageOf(U) \/ (C!NavFaults # {} /\ tab = C!Blank)
  /\ pc = "live" => Compare

LEMMA InitIInv == Init => IInv
BY InitTypeOK DEF Init, IInv, Loaded_

\* A step that neither starts nor ends in Done is invisible to the crawl.
LEMMA InnerStep ==
  ASSUME pc \notin Done, pc' \notin Done
  PROVE  UNCHANGED <<Outcome, TabSeen>>
BY DEF Outcome, TabSeen, Done

LEMMA NextIInv == IInv /\ [Next]_vars => IInv'
<1> SUFFICES ASSUME IInv, [Next]_vars PROVE IInv'
  OBVIOUS
<1>0. TypeOK'
  BY NextTypeOK DEF IInv
<1> USE <1>0 DEF IInv, Loaded_
<1>1. CASE GotoLoads
  BY <1>1 DEF GotoLoads, Loaded, TypeOK
<1>2. CASE GotoTimesOut
  BY <1>2 DEF GotoTimesOut, AfterFailedGoto
<1>3. CASE GotoRaises
  BY <1>3 DEF GotoRaises
<1>4. CASE FallbackFails
  BY <1>4 DEF FallbackFails
<1>5. CASE Measure
  BY <1>5 DEF Measure, TypeOK
<1>6. CASE ContentRaises
  BY <1>6 DEF ContentRaises
<1>7. CASE ContentAndErrors
  BY <1>7 DEF ContentAndErrors
<1>8. CASE ResizeRaises
  BY <1>8 DEF ResizeRaises
<1>9. CASE ViewportLoads
  BY <1>9 DEF ViewportLoads, Loaded
<1>10. CASE ViewportGotoFails
  BY <1>10 DEF ViewportGotoFails, AfterFailedGoto
<1>11. CASE ResetViewport
  BY <1>11 DEF ResetViewport
<1>12. CASE AxeLoads
  BY <1>12 DEF AxeLoads, Loaded, Comparing, TypeOK
<1>13. CASE AxeGotoFails
  BY <1>13 DEF AxeGotoFails, AfterFailedGoto, Comparing, TypeOK
<1>14. CASE LiveLoads
  BY <1>14 DEF LiveLoads, Loaded
<1>15. CASE LiveFails
  BY <1>15 DEF LiveFails
<1>16. CASE HandleResponse
  BY <1>16 DEF HandleResponse
<1>17. CASE UNCHANGED vars
  BY <1>17 DEF vars
<1>18. QED
  BY <1>1, <1>2, <1>3, <1>4, <1>5, <1>6, <1>7, <1>8, <1>9, <1>10, <1>11,
     <1>12, <1>13, <1>14, <1>15, <1>16, <1>17 DEF Next

\* Ways a navigation of the abstract audit can end, as Crawl!Navigate
\* enumerates them from the results of the goto and of its retry.
LEMMA NavigateLoaded == "loaded" \in A!C!Navigate
<1>1. "ok" \in A!C!NavResults
  BY DEF A!C!NavResults
<1>2. QED
  BY <1>1 DEF A!C!Navigate

LEMMA NavigateFailed ==
  ASSUME "timeout" \in Faults
  PROVE  "failed" \in A!C!Navigate
<1>1. "timeout" \in A!C!NavResults
  BY DEF A!C!NavResults, A!C!NavFaults
<1>2. QED
  BY <1>1 DEF A!C!Navigate

LEMMA NavigateRaised ==
  ASSUME "neterr" \in Faults
  PROVE  "raised" \in A!C!Navigate
<1>1. "neterr" \in A!C!NavResults
  BY DEF A!C!NavResults, A!C!NavFaults
<1>2. QED
  BY <1>1 DEF A!C!Navigate

\* A call that returns a loaded record leaving the tab where the last goto
\* put it is an abstract Returns step.
LEMMA ReturnsLoaded ==
  ASSUME pc \notin Done, pc' = "returned", rec'.nav = "loaded",
         tab' \in A!C!TabsAfter(U, "loaded")
  PROVE  A!Returns
BY NavigateLoaded DEF A!Returns, Outcome, TabSeen, Done

\* A call that raises, after a navigation that could end that way, is an
\* abstract Raises step.
LEMMA RaisesStep ==
  ASSUME pc \notin Done, pc' = "raised", tab' \in C!Page,
         \E nav \in A!C!Navigate : nav = "raised" \/ (nav = "loaded" /\ "evalerr" \in Faults)
  PROVE  A!Raises
BY DEF A!Raises, Outcome, TabSeen, Done, C!Page, A!C!Page, C!Hosts, A!C!Hosts

LEMMA StepRefines ==
  IInv /\ [Next]_vars => [A!Returns \/ A!Raises]_<<Outcome, TabSeen>>
<1> SUFFICES ASSUME IInv, [Next]_vars
             PROVE  [A!Returns \/ A!Raises]_<<Outcome, TabSeen>>
  OBVIOUS
<1>a. TypeOK'
  BY NextTypeOK DEF IInv
<1> USE DEF IInv, Loaded_
<1>b. A!C!TabsAfter(U, "loaded") =
        {A!C!LastNavTarget(U)} \cup (IF C!NavFaults # {} THEN {C!PageOf(U), C!Blank} ELSE {})
  BY DEF A!C!TabsAfter, A!C!NavFaults, C!NavFaults, A!C!PageOf, C!PageOf, A!C!Blank, C!Blank
<1>1. CASE GotoLoads \/ GotoTimesOut \/ Measure \/ ContentAndErrors
             \/ ViewportLoads \/ ViewportGotoFails \/ ResetViewport
  BY <1>1, InnerStep DEF GotoLoads, GotoTimesOut, Measure, ContentAndErrors,
                         ViewportLoads, ViewportGotoFails, ResetViewport, Done
<1>2. CASE GotoRaises
  BY <1>2, <1>a, NavigateRaised, RaisesStep DEF GotoRaises, Done, TypeOK
<1>3. CASE FallbackFails
  <2>1. "failed" \in A!C!Navigate
    BY <1>3, NavigateFailed DEF FallbackFails
  <2>2. tab' \in A!C!TabsAfter(U, "failed")
    BY <1>3 DEF FallbackFails, AfterFailedGoto, A!C!TabsAfter, TabSeen, Done,
                A!C!PageOf, C!PageOf, A!C!Blank, C!Blank
  <2>3. A!Returns
    BY <1>3, <2>1, <2>2 DEF FallbackFails, A!Returns, Outcome, TabSeen, Done
  <2>4. QED
    BY <2>3
<1>4. CASE ContentRaises \/ ResizeRaises
  BY <1>4, <1>a, NavigateLoaded, RaisesStep DEF ContentRaises, ResizeRaises, Done, TypeOK
<1>5. CASE AxeLoads
  <2>1. CASE Compare
    BY <1>5, <2>1, InnerStep DEF AxeLoads, Comparing, Done
  <2>2. CASE ~Compare
    <3>1. tab' \in A!C!TabsAfter(U, "loaded")
      BY <1>5, <1>b, <2>2 DEF AxeLoads, Loaded, A!C!LastNavTarget, C!PageOf, A!C!PageOf
    <3>2. QED
      BY <1>5, <2>2, <3>1, ReturnsLoaded DEF AxeLoads, Comparing, Done
  <2>3. QED
    BY <2>1, <2>2
<1>6. CASE AxeGotoFails
  <2>1. CASE Compare
    BY <1>6, <2>1, InnerStep DEF AxeGotoFails, Comparing, Done
  <2>2. CASE ~Compare
    <3>1. tab' \in A!C!TabsAfter(U, "loaded")
      BY <1>6, <1>b, <2>2 DEF AxeGotoFails, AfterFailedGoto, A!C!LastNavTarget,
                              C!PageOf, A!C!PageOf
    <3>2. QED
      BY <1>6, <2>2, <3>1, ReturnsLoaded DEF AxeGotoFails, Comparing, Done
  <2>3. QED
    BY <2>1, <2>2
<1>7. CASE LiveLoads
  <2>1. tab' \in A!C!TabsAfter(U, "loaded")
    BY <1>7, <1>b DEF LiveLoads, Loaded, LivePage, A!C!LastNavTarget
  <2>2. QED
    BY <1>7, <2>1, ReturnsLoaded DEF LiveLoads, Done
<1>8. CASE LiveFails
  <2>1. tab' \in A!C!TabsAfter(U, "loaded")
    BY <1>8, <1>b DEF LiveFails, AfterFailedGoto, LivePage, A!C!LastNavTarget
  <2>2. QED
    BY <1>8, <2>1, ReturnsLoaded DEF LiveFails, Done
<1>9. CASE HandleResponse \/ UNCHANGED vars
  BY <1>9 DEF HandleResponse, vars, Outcome, TabSeen
<1>10. QED
  BY <1>1, <1>2, <1>3, <1>4, <1>5, <1>6, <1>7, <1>8, <1>9 DEF Next

\* Every behaviour of audit_page is a behaviour of the abstract audit that
\* module Crawl assumes: the call ends in one visible step, with a record
\* whose navigation loaded or failed or with an exception the navigation
\* allows, and leaves the shared tab on a page Crawl!TabsAfter allows.
THEOREM Refinement == Spec => RefinesCrawlView
<1>1. Init => A!Init
  BY DEF Init, A!Init, Outcome, TabSeen, Done
<1>2. Spec => []IInv
  BY InitIInv, NextIInv, PTL DEF Spec
<1>3. QED
  BY <1>1, <1>2, StepRefines, PTL DEF Spec, RefinesCrawlView, A!Spec

====
