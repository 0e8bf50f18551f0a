------------------------------ MODULE Workflow ------------------------------
(***************************************************************************)
(* The three-command pipeline of                                           *)
(* src/helper_scripts/python_scrape/workflow.py, with the user in the      *)
(* loop: extract-urls writes doctor_urls.txt from the saved listing, the   *)
(* user saves the profile of the i-th printed URL as doctor_i.html (or     *)
(* pastes one through add-manual), and parse-all pairs the i-th file of    *)
(* the sorted directory with the i-th URL and writes the JSON and CSV.     *)
(* The i-th URL of the sorted listing is the number i; a saved file holds  *)
(* the profile of one of them.                                             *)
(***************************************************************************)
EXTENDS Naturals, FiniteSets, Sequences

CONSTANTS
  NUrls,    \* distinct profile urls on the listing page
  Careful,  \* TRUE iff the user numbers files as the instructions say, with no gap
  Faults    \* {"parse"} iff a profile file may fail to parse

\* NUrls is at least 1, Careful is Boolean, Faults is a subset of {"parse"}.

Numbers == 1 .. NUrls

VARIABLES
  listing,    \* doctors_listing.html has been saved
  urlsSaved,  \* doctor_urls.txt exists
  urls,       \* its lines
  html,       \* html[n]: the profile saved as doctor_n.html, 0 if there is none
  json        \* doctors_complete.json (and the CSV): the url and profile of each record

vars == <<listing, urlsSaved, urls, html, json>>

Files == {n \in Numbers : html[n] # 0}

\* The digits of a file number, as in its name doctor_<n>.html.
Digits(n) == IF n < 10 THEN << n >> ELSE << n \div 10, n % 10 >>

\* Path order of two file names: "doctor_1.html" < "doctor_10.html" < "doctor_2.html",
\* since "." sorts before every digit.
NameLess(a, b) ==
  LET s == Digits(a)
      t == Digits(b)
  IN \/ Len(s) < Len(t) /\ s = SubSeq(t, 1, Len(s))
     \/ \E k \in 1 .. Len(s) : k <= Len(t) /\ SubSeq(s, 1, k - 1) = SubSeq(t, 1, k - 1)
                               /\ s[k] < t[k]

\* The place of file n in sorted(glob('doctor_*.html')), from 1.
Position(n) == Cardinality({m \in Files : NameLess(m, n)}) + 1

\* The url parse-all gives the i-th sorted file: urls[i], or a made-up doctor-<i> url.
UrlAt(i) == IF i <= Len(urls) THEN [listed |-> TRUE, n |-> urls[i]]
            ELSE [listed |-> FALSE, n |-> i]

\* DoctorListingParser.extract_doctor_urls: the listing's /medici/<name>
\* links, made absolute, given a trailing slash, deduplicated and sorted.
ListingUrls == [i \in Numbers |-> i]

Init ==
  /\ listing = FALSE
  /\ urlsSaved = FALSE
  /\ urls = << >>
  /\ html = [n \in Numbers |-> 0]
  /\ json = {}

\* The user saves the listing page as doctors_listing.html.
SaveListing ==
  /\ ~listing
  /\ listing' = TRUE
  /\ UNCHANGED <<urlsSaved, urls, html, json>>

\* extract-urls: the listing's profile urls, deduplicated, sorted, written
\* one per line; without the listing it returns [] and writes nothing.
ExtractUrls ==
  /\ IF listing
     THEN /\ urlsSaved' = TRUE
          /\ urls' = ListingUrls
     ELSE UNCHANGED <<urlsSaved, urls>>
  /\ UNCHANGED <<listing, html, json>>

\* The user saves the profile of url n as doctor_n.html; a careful user
\* saves them in order, one that had to skip a page leaves a gap.
SaveHtml ==
  /\ \E n \in Numbers :
       /\ html[n] = 0
       /\ Careful => n = Cardinality(Files) + 1
       /\ html' = [html EXCEPT ![n] = n]
  /\ UNCHANGED <<listing, urlsSaved, urls, json>>

\* add-manual: the pasted profile is written to doctor_<count+1>.html,
\* replacing a file of that name if there is one.
AddManual ==
  /\ Cardinality(Files) < NUrls
  /\ LET next == Cardinality(Files) + 1
     IN \E k \in Numbers :
          /\ Careful => k = next
          /\ html' = [html EXCEPT ![next] = k]
  /\ UNCHANGED <<listing, urlsSaved, urls, json>>

\* parse-all: the sorted doctor_*.html files, the i-th paired with urls[i];
\* a file that fails to parse is left out; JSON and CSV are rewritten.
ParseAll ==
  /\ urlsSaved
  /\ Files # {}
  /\ \E ok \in SUBSET Files :
       /\ "parse" \notin Faults => ok = Files
       /\ json' = {[url |-> UrlAt(Position(n)), profile |-> html[n]] : n \in ok}
  /\ UNCHANGED <<listing, urlsSaved, urls, html>>

Next == SaveListing \/ ExtractUrls \/ SaveHtml \/ AddManual \/ ParseAll

\* Each command is run by hand; nothing obliges the user to run the next one.
Spec == Init /\ [][Next]_vars

-----------------------------------------------------------------------------

TypeOK ==
  /\ listing \in BOOLEAN /\ urlsSaved \in BOOLEAN
  /\ urls \in Seq(Numbers)
  /\ html \in [Numbers -> 0 .. NUrls]
  /\ json \subseteq [url : [listed : {TRUE, FALSE}, n : Nat], profile : Numbers]

\* Every record parse-all writes with a listed url carries the profile of
\* that url: what "Name them as doctor_1.html, doctor_2.html" (line 85)
\* and the pairing by sorted position (lines 113-130) promise together.
ProfilesMatchUrls ==
  \A r \in json : r.url.listed => r.url.n = r.profile

\* add-manual never replaces a saved profile: the file it numbers
\* count+1 (lines 182-185) is a new one.
KeepsSavedProfiles ==
  [][\A n \in Files : html'[n] = html[n]]_html

=============================================================================
