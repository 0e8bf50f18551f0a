----------------------------- MODULE DoctorCLI -----------------------------
(***************************************************************************)
(* The interactive menu of                                                 *)
(* src/helper_scripts/python_scrape/nord_doctor_scraper_final.py: a loop   *)
(* over eight choices that collect URLs and parsed doctors in memory and   *)
(* export them on request.  Lists are abstracted to how many times each    *)
(* url occurs in them; a parsed doctor is the url it was parsed from.      *)
(***************************************************************************)
EXTENDS Naturals

CONSTANTS
  Urls,       \* profile urls the user may type or the files may hold
  Inputs,     \* what the user may type at a URL prompt: Urls and a non-http word
  Stems,      \* the urls of the *.html files of the directory option 3 reads
  CwdFile,    \* the urls of ./doctor_urls.txt, the file option 2 reads by default
  Faults,     \* {"parse"} iff a profile may fail to parse
  MaxCount    \* bound on how often one url occurs in a list

\* Urls is a subset of Inputs, Stems and CwdFile of Urls, Faults of {"parse"}.

VARIABLES
  pc,        \* "menu" while the loop runs; "exited", "interrupted" or "crashed" after
  urls,      \* self.doctor_urls
  urlsFile,  \* output_dir/doctor_urls.txt
  doctors,   \* self.doctors
  exported   \* output_dir/doctors.json and doctors_drupal.csv

vars == <<pc, urls, urlsFile, doctors, exported>>

None == [u \in Urls |-> 0]

\* A list extended by one occurrence of each url of S.
Extend(b, S) == [u \in Urls |-> IF u \in S THEN b[u] + 1 ELSE b[u]]

\* Room for one more occurrence of each url of S.
Room(b, S) == \A u \in S : b[u] < MaxCount

\* The urls a parse of the files of S yields: all, or those that do not raise.
Parsed(S) == IF "parse" \in Faults THEN SUBSET S ELSE {S}

\* The lists start empty; the files in output_dir are those an earlier
\* session left there, if any.
Init ==
  /\ pc = "menu"
  /\ urls = None
  /\ urlsFile \in [Urls -> 0 .. MaxCount]
  /\ doctors = None
  /\ exported \in [Urls -> 0 .. MaxCount]

\* Choice 1: the http urls typed until an empty line, then the whole list
\* is written to doctor_urls.txt.
EnterUrls ==
  /\ pc = "menu"
  /\ \E typed \in SUBSET Inputs :
       /\ Room(urls, typed \cap Urls)
       /\ urls' = Extend(urls, typed \cap Urls)
       /\ urlsFile' = urls'
  /\ UNCHANGED <<pc, doctors, exported>>

\* Choice 2: the http lines of a file are appended; a missing file is reported.
\* An empty path reads ./doctor_urls.txt, not the file choice 1 writes.
LoadUrls ==
  /\ pc = "menu"
  /\ \E file \in {[u \in Urls |-> IF u \in CwdFile THEN 1 ELSE 0], urlsFile} :
       /\ \A u \in Urls : urls[u] + file[u] <= MaxCount
       /\ urls' = [u \in Urls |-> urls[u] + file[u]]
  /\ UNCHANGED <<pc, urlsFile, doctors, exported>>

\* Choice 3: every *.html file is parsed and appended, a failing one skipped;
\* a missing or empty directory is reported.
ParseDirectory ==
  /\ pc = "menu"
  /\ Stems # {}
  /\ \E ok \in Parsed(Stems) :
       /\ Room(doctors, ok)
       /\ doctors' = Extend(doctors, ok)
  /\ UNCHANGED <<pc, urls, urlsFile, exported>>

\* Choice 4: a typed url and pasted HTML; a non-http url, empty HTML or a
\* parse error leaves the list as it is.
AddSingleDoctor ==
  /\ pc = "menu"
  /\ \E u \in Urls :
       /\ Room(doctors, {u})
       /\ doctors' \in {Extend(doctors, ok) : ok \in Parsed({u})}
  /\ UNCHANGED <<pc, urls, urlsFile, exported>>

\* Choice 6: self.download_images does not exist; the AttributeError leaves
\* menu() and main(), which only catches KeyboardInterrupt.
DownloadImages ==
  /\ pc = "menu"
  /\ pc' = "crashed"
  /\ UNCHANGED <<urls, urlsFile, doctors, exported>>

\* Choice 7: with at least one doctor, JSON and CSV are rewritten with all of them.
ExportData ==
  /\ pc = "menu"
  /\ doctors # None
  /\ exported' = doctors
  /\ UNCHANGED <<pc, urls, urlsFile, doctors>>

\* Choice 8.
Exit ==
  /\ pc = "menu"
  /\ pc' = "exited"
  /\ UNCHANGED <<urls, urlsFile, doctors, exported>>

\* Ctrl-C at any prompt: main() prints that the data has been saved.
Interrupt ==
  /\ pc = "menu"
  /\ pc' = "interrupted"
  /\ UNCHANGED <<urls, urlsFile, doctors, exported>>

Next ==
  \/ EnterUrls \/ LoadUrls \/ ParseDirectory \/ AddSingleDoctor
  \/ DownloadImages \/ ExportData \/ Exit \/ Interrupt

\* The user drives every step.
Spec == Init /\ [][Next]_vars

-----------------------------------------------------------------------------

TypeOK ==
  /\ pc \in {"menu", "exited", "interrupted", "crashed"}
  /\ urls \in [Urls -> 0 .. 2 * MaxCount]
  /\ urlsFile \in [Urls -> 0 .. 2 * MaxCount]
  /\ doctors \in [Urls -> 0 .. MaxCount]
  /\ exported \in [Urls -> 0 .. MaxCount]

MenuNeverRaises ==
  pc # "crashed"

=============================================================================
