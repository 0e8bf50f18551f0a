---------------------------- MODULE CrawlProofs ----------------------------
(***************************************************************************)
(* Proofs about the crawl orchestrator (module Crawl), for every site,     *)
(* every seed list and every set of failures: the type invariant, and     *)
(* that no page is audited twice (AuditedOnce); and, on a site where no    *)
(* navigation or evaluate fails and without --compare, that a completed    *)
(* crawl has visited every in-scope link of every page it loaded          *)
(* (DiscoveryComplete).                                                    *)
(***************************************************************************)
EXTENDS Crawl, SequenceTheorems, TLAPS

-----------------------------------------------------------------------------
(* Lemmas about the URL helpers *)

\* normalise_url keeps a URL a URL.
LEMMA NormaliseUrlType ==
  ASSUME NEW u \in Url
  PROVE  NormaliseUrl(u) \in Url
BY DEF NormaliseUrl, Url

\* Two URLs with the same normalised form name the same page: the key of
\* the visited set loses nothing but the trailing slash.
LEMMA NormaliseUrlPage ==
  ASSUME NEW u \in Url, NEW v \in Url, NormaliseUrl(u) = NormaliseUrl(v)
  PROVE  PageOf(u) = PageOf(v)
<1>1. NormaliseUrl(u).host = u.host /\ NormaliseUrl(u).path = u.path
  BY DEF NormaliseUrl, Url
<1>2. NormaliseUrl(v).host = v.host /\ NormaliseUrl(v).path = v.path
  BY DEF NormaliseUrl, Url
<1>3. QED
  BY <1>1, <1>2 DEF PageOf

\* The anchors of any page the tab can show are URLs.
LEMMA AnchorsType ==
  ASSUME NEW t \in Page
  PROVE  Anchors(t) \in Seq(Url)
<1>1. CASE t.host = NoHost
  BY <1>1 DEF Anchors
<1>2. CASE t.host # NoHost
  <2>1. t.host \in Hosts
    BY <1>2 DEF Page
  <2>2. Links[t.path] \in Seq(Href)
    BY ConstAssumption DEF Page
  <2>6. Len(Links[t.path]) \in Nat /\ DOMAIN Links[t.path] = 1 .. Len(Links[t.path])
    BY <2>2, LenProperties
  <2>7. \A i \in DOMAIN Links[t.path] : Links[t.path][i] \in Href
    BY <2>2, <2>6, ElementOfSeq
  <2>3. \A a \in Href : Resolve(t.host, a) \in Url
    BY <2>1 DEF Resolve, Href, Url, Hosts
  <2>4. [i \in DOMAIN Links[t.path] |-> Resolve(t.host, Links[t.path][i])] \in Seq(Url)
    BY <2>3, <2>6, <2>7
  <2>5. QED
    BY <1>2, <2>4 DEF Anchors
<1>3. QED
  BY <1>1, <1>2

\* Every page the tab can be left on after an audit is a page.
LEMMA TabsAfterType ==
  ASSUME NEW u \in Url, NEW nav, tab \in Page
  PROVE  TabsAfter(u, nav) \subseteq Page
<1>1. PageOf(u) \in Page /\ Blank \in Page
  BY ConstAssumption DEF PageOf, Url, Page, Blank, Hosts
<1>2. LastNavTarget(u) \in Page
  BY <1>1 DEF LastNavTarget, Page, Url, Hosts
<1>3. QED
  BY <1>1, <1>2 DEF TabsAfter

\* The seed lists are lists of URLs.
LEMMA SeedsType == AliasUrls \in Seq(Url) /\ NodeUrls \in Seq(Url)
<1>1. AliasUrls \in Seq(Url)
  <2>2. Len(SeedAliases) \in Nat /\ DOMAIN SeedAliases = 1 .. Len(SeedAliases)
    BY ConstAssumption, LenProperties
  <2>4. \A i \in DOMAIN SeedAliases : SeedAliases[i] \in [path : Paths, slash : BOOLEAN]
    BY <2>2, ConstAssumption, ElementOfSeq
  <2>1. \A i \in DOMAIN SeedAliases :
           [host |-> Base, path |-> SeedAliases[i].path, slash |-> SeedAliases[i].slash] \in Url
    BY <2>4 DEF Url, Hosts
  <2>5. AliasUrls \in [1 .. Len(SeedAliases) -> Url]
    BY <2>1, <2>2 DEF AliasUrls
  <2>3. QED
    BY <2>2, <2>5
<1>2. NodeUrls \in Seq(Url)
  <2>2. Len(SeedNodes) \in Nat /\ DOMAIN SeedNodes = 1 .. Len(SeedNodes)
    BY ConstAssumption, LenProperties
  <2>4. \A i \in DOMAIN SeedNodes : SeedNodes[i] \in Paths
    BY <2>2, ConstAssumption, ElementOfSeq
  <2>1. \A i \in DOMAIN SeedNodes : [host |-> Base, path |-> SeedNodes[i], slash |-> FALSE] \in Url
    BY <2>4 DEF Url, Hosts
  <2>5. NodeUrls \in [1 .. Len(SeedNodes) -> Url]
    BY <2>1, <2>2 DEF NodeUrls
  <2>3. QED
    BY <2>2, <2>5
<1>3. QED
  BY <1>1, <1>2

-----------------------------------------------------------------------------
(* Type correctness *)

LEMMA InitTypeOK == Init => TypeOK
BY ConstAssumption DEF Init, TypeOK, Url, Hosts, Page, Blank

LEMMA NextTypeOK == TypeOK /\ [Next]_vars => TypeOK'
<1> SUFFICES ASSUME TypeOK, [Next]_vars PROVE TypeOK'
  OBVIOUS
<1>1. CASE Seed
  <2>1. queue' \in Seq(Url)
    BY <1>1, SeedsType DEF Seed, TypeOK
  <2>2. QED
    BY <1>1, <2>1 DEF Seed, TypeOK
<1>2. CASE Discard
  BY <1>2 DEF Discard, LoopReady, TypeOK
<1>3. CASE Visit
  <2> DEFINE u == Head(queue)
  <2>1. u \in Url
    BY <1>3 DEF Visit, LoopReady, TypeOK
  <2>2. PICK nav \in Navigate \ {"raised"} :
               \E t \in TabsAfter(u, nav) :
                  /\ results' = Append(results, [url |-> u, loaded |-> nav = "loaded"])
                  /\ tab' = t
                  /\ pending' \in DiscoveryResults(t)
    BY <1>3 DEF Visit
  <2>9. PICK t \in TabsAfter(u, nav) :
               /\ results' = Append(results, [url |-> u, loaded |-> nav = "loaded"])
               /\ tab' = t
               /\ pending' \in DiscoveryResults(t)
    BY <2>2
  <2>3. t \in Page
    BY <2>1, TabsAfterType DEF TypeOK
  <2>4. pending' \in Seq(Url)
    <3>1. Anchors(t) \in Seq(Url)
      BY <2>3, AnchorsType
    <3>2. pending' = Anchors(t) \/ pending' = << >>
      BY <2>9 DEF DiscoveryResults
    <3>3. QED
      BY <3>1, <3>2, EmptySeq
  <2>5. results' \in Seq(Record)
    BY <2>1, <2>9 DEF TypeOK, Record
  <2>6. visited' \subseteq Url /\ queue' \in Seq(Url)
    BY <1>3, <2>1, NormaliseUrlType DEF Visit, LoopReady, TypeOK
  <2>7. QED
    BY <1>3, <2>9, <2>3, <2>4, <2>5, <2>6 DEF Visit, TypeOK
<1>4. CASE VisitRaises
  <2>1. Head(queue) \in Url
    BY <1>4 DEF VisitRaises, LoopReady, TypeOK
  <2>2. QED
    BY <1>4, <2>1, NormaliseUrlType DEF VisitRaises, LoopReady, TypeOK
<1>5. CASE MergeLink
  <2>1. Head(pending) \in Url
    BY <1>5 DEF MergeLink, TypeOK
  <2>2. queue' \in Seq(Url)
    BY <1>5, <2>1, NormaliseUrlType DEF MergeLink, TypeOK
  <2>3. QED
    BY <1>5, <2>2 DEF MergeLink, TypeOK
<1>6. CASE Finish
  BY <1>6 DEF Finish, TypeOK
<1>7. CASE UNCHANGED vars
  BY <1>7 DEF vars, TypeOK
<1>8. QED
  BY <1>1, <1>2, <1>3, <1>4, <1>5, <1>6, <1>7 DEF Next

\* The crawl's state always has the shape of the code's data.
THEOREM TypeCorrect == Spec => []TypeOK
BY InitTypeOK, NextTypeOK, PTL DEF Spec

-----------------------------------------------------------------------------
(* No page is audited twice *)

\* The visited-set key of the i-th record.
Key(i) == NormaliseUrl(results[i].url)

AuditedKeys == {Key(i) : i \in DOMAIN results}

\* The strengthening of AuditedOnce that a step preserves: every record's
\* key is in visited (so the pop-time check rejects it again), keys are
\* distinct, and nothing but a crashed audit adds a key without a record.
IInv ==
  /\ TypeOK
  /\ AuditedKeys \subseteq visited
  /\ \A i, j \in DOMAIN results : i # j => Key(i) # Key(j)
  /\ phase # "crashed" => visited \subseteq AuditedKeys

LEMMA InitIInv == Init => IInv
BY InitTypeOK DEF Init, IInv, AuditedKeys, Key

\* A step that leaves results and visited alone and never enters "crashed".
LEMMA QuietStep ==
  ASSUME IInv, TypeOK', UNCHANGED <<results, visited>>,
         phase # "crashed", phase' # "crashed"
  PROVE  IInv'
BY DEF IInv, AuditedKeys, Key, NormaliseUrl

LEMMA NextIInv == IInv /\ [Next]_vars => IInv'
<1> SUFFICES ASSUME IInv, [Next]_vars PROVE IInv'
  OBVIOUS
<1>0. TypeOK'
  BY NextTypeOK DEF IInv
<1>1. CASE Seed
  BY <1>0, <1>1, QuietStep DEF Seed, IInv, TypeOK
<1>2. CASE Discard
  BY <1>0, <1>2, QuietStep DEF Discard, LoopReady
<1>3. CASE Visit
  <2> DEFINE u == Head(queue)
             k == NormaliseUrl(u)
             n == Len(results)
  <2>1. u \in Url /\ k \notin visited
    BY <1>3 DEF Visit, LoopReady, Fresh, IInv, TypeOK
  <2>11. PICK nav \in Navigate \ {"raised"} :
               results' = Append(results, [url |-> u, loaded |-> nav = "loaded"])
    BY <1>3 DEF Visit
  <2> DEFINE rec == [url |-> u, loaded |-> nav = "loaded"]
  <2>2. rec \in Record /\ results' = Append(results, rec) /\ rec.url = u
    BY <2>1, <2>11 DEF Record
  <2>3. /\ n \in Nat
        /\ DOMAIN results = 1 .. n
        /\ DOMAIN results' = 1 .. n + 1
        /\ \A i \in 1 .. n : results'[i] = results[i]
        /\ results'[n + 1] = rec
    BY <2>2, AppendProperties DEF IInv, TypeOK
  <2>12. ASSUME NEW i \in 1 .. n PROVE Key(i)' = Key(i)
    <3>1. results'[i] = results[i]
      BY <2>3
    <3>2. QED
      BY <3>1 DEF Key
  <2>13. ASSUME NEW m, m = n + 1 PROVE Key(m)' = k
    <3>1. results'[m].url = u
      BY <2>2, <2>3, <2>13
    <3>2. QED
      BY <3>1 DEF Key
  <2>4. /\ \A i \in 1 .. n : Key(i)' = Key(i)
        /\ \A m \in {n + 1} : Key(m)' = k
    BY <2>12, <2>13
  <2>5. visited' = visited \cup {k} /\ phase' = phase
    BY <1>3 DEF Visit
  <2>6. AuditedKeys' = AuditedKeys \cup {k}
    BY <2>3, <2>4 DEF AuditedKeys
  <2>7. (AuditedKeys \subseteq visited)'
    BY <2>5, <2>6 DEF IInv
  <2>8. (\A i, j \in DOMAIN results : i # j => Key(i) # Key(j))'
    BY <2>1, <2>3, <2>4 DEF IInv, AuditedKeys
  <2>9. (phase # "crashed" => visited \subseteq AuditedKeys)'
    BY <2>5, <2>6 DEF IInv
  <2>10. QED
    BY <1>0, <2>7, <2>8, <2>9 DEF IInv
<1>4. CASE VisitRaises
  <2>1. visited \subseteq visited' /\ UNCHANGED results
    BY <1>4 DEF VisitRaises
  <2>2. QED
    BY <1>0, <1>4, <2>1 DEF VisitRaises, IInv, AuditedKeys, Key
<1>5. CASE MergeLink
  BY <1>0, <1>5, QuietStep DEF MergeLink
<1>6. CASE Finish
  BY <1>0, <1>6, QuietStep DEF Finish
<1>7. CASE UNCHANGED vars
  BY <1>0, <1>7 DEF vars, IInv, AuditedKeys, Key
<1>8. QED
  BY <1>1, <1>2, <1>3, <1>4, <1>5, <1>6, <1>7 DEF Next

LEMMA IInvAuditedOnce == IInv => AuditedOnce
<1> SUFFICES ASSUME IInv PROVE AuditedOnce
  OBVIOUS
<1>0. results \in Seq(Record)
  BY DEF IInv, TypeOK
<1>1. \A i \in DOMAIN results : results[i].url \in Url
  <2>1. DOMAIN results = 1 .. Len(results)
    BY <1>0, LenProperties
  <2>2. \A i \in DOMAIN results : results[i] \in Record
    BY <1>0, <2>1, ElementOfSeq
  <2>3. QED
    BY <2>2 DEF Record
<1>2. ASSUME NEW i \in DOMAIN results, NEW j \in DOMAIN results, i # j
      PROVE  PageOf(results[i].url) # PageOf(results[j].url)
  <2>1. NormaliseUrl(results[i].url) # NormaliseUrl(results[j].url)
    BY <1>2 DEF IInv, Key
  <2>2. results[i].url \in Url /\ results[j].url \in Url
    BY <1>1, <1>2
  <2>3. SUFFICES ASSUME PageOf(results[i].url) = PageOf(results[j].url) PROVE FALSE
    OBVIOUS
  <2>4. NormaliseUrl(results[i].url) = NormaliseUrl(results[j].url)
    BY <2>2, <2>3 DEF PageOf, NormaliseUrl, Url
  <2>5. QED
    BY <2>1, <2>4
<1>3. phase # "crashed" => visited = {NormaliseUrl(results[i].url) : i \in DOMAIN results}
  BY DEF IInv, AuditedKeys, Key
<1>4. QED
  BY <1>2, <1>3 DEF AuditedOnce

\* Spec 8: for every site, seed list and set of failures, no page is ever
\* audited twice and, until an audit raises, the visited set is exactly the
\* set of audited pages (crawl()'s pop-time check on the normalised URL).
THEOREM AuditedOnceHolds == Spec => []AuditedOnce
BY InitIInv, NextIInv, IInvAuditedOnce, PTL DEF Spec

-----------------------------------------------------------------------------
(* Every link of a loaded page is discovered *)

\* The premises: every navigation and every evaluate succeeds, and no
\* comparison site is audited, so the tab stays on the audited page.
CrawlPremises == Faults = {} /\ Compare = FALSE

\* The crawl's enqueue test (lines 380-384): internal and not skipped.
InScope(l) == IsInternal(l) /\ ~ShouldSkip(l)

\* The anchors of the page of the i-th record.
LinksOf(i) == Anchors(PageOf(results[i].url))

\* An anchor is accounted for: out of scope, visited, waiting in the
\* queue, or still to be merged from the rendered page.
Reached(a) ==
  LET l == NormaliseUrl(a) IN
    \/ ~InScope(l)
    \/ l \in visited
    \/ \E j \in DOMAIN queue : queue[j] = l
    \/ \E j \in DOMAIN pending : pending[j] = a

\* The inductive strengthening of DiscoveryComplete.
DInv ==
  /\ TypeOK
  /\ phase = "seeding" => results = << >>
  /\ phase = "done" => queue = << >> /\ pending = << >>
  /\ \A i \in DOMAIN results :
       results[i].loaded => \A k \in DOMAIN LinksOf(i) : Reached(LinksOf(i)[k])

\* normalise_url is idempotent: a stripped URL strips to itself.
LEMMA NormaliseUrlIdem ==
  ASSUME NEW u \in Url
  PROVE  NormaliseUrl(u) \in Url /\ NormaliseUrl(NormaliseUrl(u)) = NormaliseUrl(u)
BY DEF NormaliseUrl, Url

\* The anchors of an audited page are URLs.
LEMMA LinksOfType ==
  ASSUME TypeOK, NEW i \in DOMAIN results
  PROVE  \A k \in DOMAIN LinksOf(i) : LinksOf(i)[k] \in Url
<1>1. results[i] \in Record
  BY ElementOfSeq DEF TypeOK
<1>2. PageOf(results[i].url) \in Page
  BY <1>1, ConstAssumption DEF Record, PageOf, Url, Page, Hosts
<1>3. LinksOf(i) \in Seq(Url)
  BY <1>2, AnchorsType DEF LinksOf
<1>4. QED
  BY <1>3, ElementOfSeq

\* Popping the head of the queue (Discard, Visit, VisitRaises) loses no
\* anchor: the head it drops is visited or skipped once the step is done.
LEMMA PopReached ==
  ASSUME TypeOK, queue # << >>, queue' = Tail(queue), pending = << >>,
         visited \subseteq visited',
         NormaliseUrl(Head(queue)) \in visited' \/ ShouldSkip(Head(queue)),
         NEW a \in Url, Reached(a)
  PROVE  Reached(a)'
<1> DEFINE l == NormaliseUrl(a)
<1>1. l \in Url /\ NormaliseUrl(l) = l
  BY NormaliseUrlIdem
<1>2. queue \in Seq(Url)
  BY DEF TypeOK
<1>3. CASE ~InScope(l) \/ l \in visited
  BY <1>3 DEF Reached
<1>4. CASE \E j \in DOMAIN queue : queue[j] = l
  <2>1. PICK j \in DOMAIN queue : queue[j] = l
    BY <1>4
  <2>2. CASE j = 1
    <3>1. Head(queue) = l
      BY <2>1, <2>2
    <3>2. l \in visited' \/ ~InScope(l)
      BY <1>1, <3>1 DEF InScope
    <3>3. QED
      BY <3>2 DEF Reached
  <2>3. CASE j # 1
    <3>1. /\ Len(Tail(queue)) = Len(queue) - 1
          /\ \A i \in 1 .. Len(Tail(queue)) : Tail(queue)[i] = queue[i + 1]
      BY <1>2, HeadTailProperties
    <3>2. j - 1 \in DOMAIN queue' /\ queue'[j - 1] = l
      BY <1>2, <2>1, <2>3, <3>1
    <3>3. QED
      BY <3>2 DEF Reached
  <2>4. QED
    BY <2>2, <2>3
<1>5. QED
  BY <1>3, <1>4 DEF Reached

\* Merging one discovered link (MergeLink) loses no anchor: the merged
\* one is queued unless it is out of scope or already visited.
LEMMA MergeReached ==
  ASSUME TypeOK, MergeLink, NEW a \in Url, Reached(a)
  PROVE  Reached(a)'
<1> DEFINE b == Head(pending)
           m == NormaliseUrl(b)
           l == NormaliseUrl(a)
<1>1. pending \in Seq(Url) /\ pending # << >> /\ queue \in Seq(Url)
  BY DEF TypeOK, MergeLink
<1>2. b \in Url /\ m \in Url
  BY <1>1, HeadTailProperties, NormaliseUrlIdem
<1>3. /\ visited' = visited /\ pending' = Tail(pending)
      /\ queue' = IF IsInternal(b) /\ ~ShouldSkip(m) /\ m \notin visited
                  THEN Append(queue, m) ELSE queue
  BY DEF MergeLink
<1>4. /\ \A j \in DOMAIN queue : j \in DOMAIN queue' /\ queue'[j] = queue[j]
      /\ (IsInternal(b) /\ ~ShouldSkip(m) /\ m \notin visited) =>
            Len(queue) + 1 \in DOMAIN queue' /\ queue'[Len(queue) + 1] = m
  BY <1>1, <1>2, <1>3, AppendProperties
<1>5. /\ Len(Tail(pending)) = Len(pending) - 1
      /\ \A i \in 1 .. Len(Tail(pending)) : Tail(pending)[i] = pending[i + 1]
  BY <1>1, HeadTailProperties
<1>6. CASE ~InScope(l) \/ l \in visited \/ \E j \in DOMAIN queue : queue[j] = l
  BY <1>3, <1>4, <1>6 DEF Reached
<1>7. CASE \E j \in DOMAIN pending : pending[j] = a
  <2>1. PICK j \in DOMAIN pending : pending[j] = a
    BY <1>7
  <2>2. CASE j = 1
    <3>1. b = a /\ m = l
      BY <2>1, <2>2
    <3>2. IsInternal(b) <=> IsInternal(m)
      BY <1>2 DEF IsInternal, NormaliseUrl, Url
    <3>3. QED
      BY <1>3, <1>4, <3>1, <3>2 DEF Reached, InScope
  <2>3. CASE j # 1
    <3>1. j - 1 \in DOMAIN pending' /\ pending'[j - 1] = a
      BY <1>1, <1>3, <1>5, <2>1, <2>3
    <3>2. QED
      BY <3>1 DEF Reached
  <2>4. QED
    BY <2>2, <2>3
<1>8. QED
  BY <1>6, <1>7 DEF Reached

LEMMA InitDInv == Init => DInv
BY InitTypeOK DEF Init, DInv

\* Under the premises an audit loads its page, leaves the tab on it and
\* discover_links returns all of its anchors.
LEMMA VisitLoads ==
  ASSUME CrawlPremises, Visit
  PROVE  /\ results' = Append(results, [url |-> Head(queue), loaded |-> TRUE])
         /\ pending' = Anchors(PageOf(Head(queue)))
<1> DEFINE u == Head(queue)
<1>1. Navigate = {"loaded"}
  BY DEF CrawlPremises, Navigate, NavResults, NavFaults
<1>2. TabsAfter(u, "loaded") = {PageOf(u)}
  BY DEF CrawlPremises, TabsAfter, LastNavTarget, NavFaults
<1>3. DiscoveryResults(PageOf(u)) = {Anchors(PageOf(u))}
  BY DEF CrawlPremises, DiscoveryResults
<1>4. QED
  BY <1>1, <1>2, <1>3 DEF Visit

\* A step that leaves the records alone, does not end the loop and keeps
\* every anchor accounted for preserves DInv.
LEMMA KeepReached ==
  ASSUME DInv, TypeOK', results' = results, phase' \notin {"done", "seeding"},
         \A a \in Url : Reached(a) => Reached(a)'
  PROVE  DInv'
<1>1. ASSUME NEW i \in DOMAIN results', results'[i].loaded
      PROVE  (\A k \in DOMAIN LinksOf(i) : Reached(LinksOf(i)[k]))'
  <2>1. i \in DOMAIN results /\ results[i].loaded /\ (LinksOf(i))' = LinksOf(i)
    BY <1>1 DEF LinksOf
  <2>2. \A k \in DOMAIN LinksOf(i) : Reached(LinksOf(i)[k])
    BY <2>1 DEF DInv
  <2>3. \A k \in DOMAIN LinksOf(i) : LinksOf(i)[k] \in Url
    BY <2>1, LinksOfType DEF DInv
  <2>4. QED
    BY <2>1, <2>2, <2>3
<1>2. QED
  BY <1>1 DEF DInv

LEMMA NextDInv ==
  ASSUME CrawlPremises
  PROVE  DInv /\ [Next]_vars => DInv'
<1> SUFFICES ASSUME DInv, [Next]_vars PROVE DInv'
  OBVIOUS
<1>0. TypeOK /\ TypeOK'
  BY NextTypeOK DEF DInv
<1>1. CASE Seed
  BY <1>0, <1>1 DEF Seed, DInv
<1>2. CASE Discard
  <2>1. ~Fresh(Head(queue)) /\ queue # << >> /\ pending = << >>
        /\ queue' = Tail(queue) /\ UNCHANGED <<phase, visited, results>>
    BY <1>2 DEF Discard, LoopReady
  <2>2. NormaliseUrl(Head(queue)) \in visited \/ ShouldSkip(Head(queue))
    BY <2>1 DEF Fresh
  <2>3. ASSUME NEW a \in Url, Reached(a) PROVE Reached(a)'
    BY <1>0, <2>1, <2>2, <2>3, PopReached
  <2>4. phase' \notin {"done", "seeding"}
    BY <1>2 DEF Discard, LoopReady
  <2>5. QED
    BY <1>0, <2>1, <2>3, <2>4, KeepReached
<1>3. CASE VisitRaises
  <2>1. /\ queue # << >> /\ pending = << >> /\ phase' = "crashed"
        /\ queue' = Tail(queue) /\ UNCHANGED results
        /\ visited' = visited \cup {NormaliseUrl(Head(queue))}
    BY <1>3 DEF VisitRaises, LoopReady
  <2>2. ASSUME NEW a \in Url, Reached(a) PROVE Reached(a)'
    BY <1>0, <2>1, <2>2, PopReached
  <2>3. QED
    BY <1>0, <2>1, <2>2, KeepReached
<1>4. CASE MergeLink
  <2>1. ASSUME NEW a \in Url, Reached(a) PROVE Reached(a)'
    BY <1>0, <1>4, <2>1, MergeReached
  <2>2. UNCHANGED results /\ phase' = "running"
    BY <1>4 DEF MergeLink
  <2>3. QED
    BY <1>0, <2>1, <2>2, KeepReached
<1>5. CASE Finish
  <2>1. UNCHANGED <<queue, visited, results, pending>> /\ queue = << >> /\ pending = << >>
    BY <1>5 DEF Finish
  <2>2. \A i \in DOMAIN results : LinksOf(i)' = LinksOf(i)
    BY <2>1 DEF LinksOf
  <2>3. \A a : Reached(a)' = Reached(a)
    BY <2>1 DEF Reached
  <2>4. QED
    BY <1>0, <1>5, <2>1, <2>2, <2>3 DEF Finish, DInv
<1>6. CASE Visit
  <2> DEFINE u == Head(queue)
             n == Len(results)
             rec == [url |-> u, loaded |-> TRUE]
  <2>1. /\ queue # << >> /\ pending = << >> /\ phase = "running"
        /\ queue' = Tail(queue) /\ phase' = phase
        /\ visited' = visited \cup {NormaliseUrl(u)}
    BY <1>6 DEF Visit, LoopReady
  <2>2. results' = Append(results, rec) /\ pending' = Anchors(PageOf(u))
    BY <1>6, VisitLoads
  <2>3. u \in Url /\ results \in Seq(Record)
    BY <1>0, <2>1, HeadTailProperties DEF TypeOK
  <2>4. rec \in Record
    BY <2>3 DEF Record
  <2>5. /\ DOMAIN results' = 1 .. n + 1
        /\ \A i \in 1 .. n : results'[i] = results[i]
        /\ results'[n + 1] = rec
    BY <2>2, <2>3, <2>4, AppendProperties
  <2>6. ASSUME NEW i \in 1 .. n
        PROVE  (results[i].loaded => \A k \in DOMAIN LinksOf(i) : Reached(LinksOf(i)[k]))'
    <3>1. LinksOf(i)' = LinksOf(i) /\ i \in DOMAIN results
      BY <2>3, <2>5 DEF LinksOf
    <3>2. QED
      BY <1>0, <2>1, <2>5, <3>1, PopReached, LinksOfType DEF DInv
  <2>7. ASSUME NEW m, m = n + 1
        PROVE  (\A k \in DOMAIN LinksOf(m) : Reached(LinksOf(m)[k]))'
    <3>1. (LinksOf(m))' = pending'
      BY <2>2, <2>5, <2>7 DEF LinksOf
    <3>2. QED
      BY <3>1 DEF Reached
  <2>8. ASSUME NEW i \in DOMAIN results'
        PROVE  (results[i].loaded => \A k \in DOMAIN LinksOf(i) : Reached(LinksOf(i)[k]))'
    <3>1. CASE i \in 1 .. n
      BY <2>6, <3>1
    <3>2. CASE i = n + 1
      BY <2>7, <3>2
    <3>3. QED
      BY <2>3, <2>5, <3>1, <3>2
  <2>9. QED
    BY <1>0, <2>1, <2>8 DEF DInv
<1>7. CASE UNCHANGED vars
  BY <1>0, <1>7 DEF vars, DInv, LinksOf, Reached
<1>8. QED
  BY <1>1, <1>2, <1>3, <1>4, <1>5, <1>6, <1>7 DEF Next

LEMMA DInvComplete == DInv => DiscoveryComplete
BY DEF DInv, DiscoveryComplete, Reached, InScope, LinksOf

\* Spec 1 and 4.4: on a site where every navigation and every evaluate
\* succeeds and no comparison site is given, a crawl that completes has
\* visited every in-scope internal link of every page it loaded: each
\* anchor discover_links returns (lines 300-322) is queued by crawl()
\* (lines 380-384) unless visited, and the loop only ends on an empty queue.
THEOREM DiscoveryCompleteHolds ==
  ASSUME CrawlPremises
  PROVE  Spec => []DiscoveryComplete
BY InitDInv, NextDInv, DInvComplete, PTL DEF Spec

=============================================================================
