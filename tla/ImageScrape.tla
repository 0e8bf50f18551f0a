---------------------------- MODULE ImageScrape ----------------------------
(***************************************************************************)
(* The profile scraper of src/content_scraper/scrape.py, run again and     *)
(* again by hand: main() fetches the listing, parses every profile, and    *)
(* download_images() stores each image under images/<slug>/<descriptor>,   *)
(* skipping a file that already exists; doctors.json is written once, at   *)
(* the end.  The image files persist across runs, the JSON is rewritten.   *)
(* A profile's name, its slug and its images are constants; a file's       *)
(* contents are abstracted to whose image it holds and whether it is whole.*)
(***************************************************************************)
EXTENDS Naturals, FiniteSets

CONSTANTS
  Profiles,   \* the profile urls the listing links to
  Title,      \* Title[p]: the h1 text of profile p ("" when it has none)
  Slug,       \* Slug[t]: slugify(t), for every title
  Images,     \* Images[p]: the descriptors of profile p's src and srcset entries
  Faults,     \* which failures the network and the operator may cause
  MaxRuns     \* bound on the number of runs of main()

FaultKinds == {"fetch", "status", "stream", "kill"}

ASSUME ImageAssumption ==
  /\ IsFiniteSet(Profiles) /\ Profiles # {} /\ "none" \notin Profiles
  /\ Title \in [Profiles -> DOMAIN Slug]
  /\ Faults \subseteq FaultKinds
  /\ MaxRuns \in Nat

Descs == UNION {Images[p] : p \in Profiles}
Slugs == {Slug[Title[p]] : p \in Profiles}

\* A file on disk: the profile whose image was streamed into it, and whether the stream ended.
File == [owner : Profiles, whole : BOOLEAN]
NoFile == [owner |-> "none", whole |-> FALSE]

VARIABLES
  pc,      \* "idle" between runs, "profiles" in the main loop, "download" in download_images
  disk,    \* disk[s][d]: the file images/s/d.<ext>
  json,    \* doctors.json: the url and field_image of each doctor, empty before any run ends
  links,   \* the profile links main() has not parsed yet
  doctors, \* all_doctors: the profiles parsed so far, with their saved images
  cur,     \* the profile download_images works for
  todo,    \* its image entries not yet handled
  saved,   \* saved_images: the descriptors recorded for it so far
  runs     \* runs of main() started

vars == <<pc, disk, json, links, doctors, cur, todo, saved, runs>>

\* The directory download_images uses for profile p (lines 83-84).
DirOf(p) == Slug[Title[p]]

\* The entry of all_doctors for profile p: its url and field_image, descriptor -> directory.
Entry(p, ds) == [url |-> p, images |-> [d \in ds |-> DirOf(p)]]

Init ==
  /\ pc = "idle"
  /\ disk = [s \in Slugs |-> [d \in Descs |-> NoFile]]
  /\ json = {}
  /\ links = {}
  /\ doctors = {}
  /\ cur = CHOOSE p \in Profiles : TRUE
  /\ todo = {}
  /\ saved = {}
  /\ runs = 0

\* main(): the listing is fetched and its profile links collected into a set.
Start ==
  /\ pc = "idle"
  /\ runs < MaxRuns
  /\ links' = Profiles
  /\ doctors' = {}
  /\ runs' = runs + 1
  /\ pc' = "profiles"
  /\ UNCHANGED <<disk, json, cur, todo, saved>>

\* parse_profile(link): requests.get raises and the profile is dropped (None).
ProfileFails ==
  /\ pc = "profiles"
  /\ "fetch" \in Faults
  /\ \E p \in links : links' = links \ {p}
  /\ UNCHANGED <<pc, disk, json, doctors, cur, todo, saved, runs>>

\* parse_profile(link): name, speciality and image entries, then download_images.
ProfileParsed ==
  /\ pc = "profiles"
  /\ \E p \in links :
       /\ links' = links \ {p}
       /\ cur' = p
       /\ todo' = Images[p]
  /\ saved' = {}
  /\ pc' = "download"
  /\ UNCHANGED <<disk, json, doctors, runs>>

\* Mutant: the skip test looks at the doctor's directory, not at the file.
DownloadCachedDir ==
  /\ pc = "download"
  /\ \E d \in todo :
       /\ \E e \in Descs : disk[DirOf(cur)][e] # NoFile
       /\ todo' = todo \ {d}
       /\ saved' = saved \cup {d}
  /\ UNCHANGED <<pc, disk, json, links, doctors, cur, runs>>

\* os.path.exists(filepath): the file is recorded and not downloaded again.
DownloadCached ==
  /\ pc = "download"
  /\ \E d \in todo :
       /\ disk[DirOf(cur)][d] # NoFile
       /\ todo' = todo \ {d}
       /\ saved' = saved \cup {d}
  /\ UNCHANGED <<pc, disk, json, links, doctors, cur, runs>>

\* The image is fetched: status 200 streams it into the file and records it;
\* another status writes nothing; a stream error leaves a partial file and
\* the except moves on without recording it.
Download ==
  /\ pc = "download"
  /\ \E d \in todo :
       /\ disk[DirOf(cur)][d] = NoFile
       /\ todo' = todo \ {d}
       /\ \/ /\ disk' = [disk EXCEPT ![DirOf(cur)][d] = [owner |-> cur, whole |-> TRUE]]
             /\ saved' = saved \cup {d}
          \/ /\ "status" \in Faults
             /\ UNCHANGED <<disk, saved>>
          \/ /\ "stream" \in Faults
             /\ disk' = [disk EXCEPT ![DirOf(cur)][d] = [owner |-> cur, whole |-> FALSE]]
             /\ saved' = saved
  /\ UNCHANGED <<pc, json, links, doctors, cur, runs>>

\* download_images returns; the accordions are parsed and the doctor appended.
ProfileDone ==
  /\ pc = "download"
  /\ todo = {}
  /\ doctors' = doctors \cup {Entry(cur, saved)}
  /\ pc' = "profiles"
  /\ UNCHANGED <<disk, json, links, cur, todo, saved, runs>>

\* Every link parsed: doctors.json is rewritten with all_doctors.
WriteJson ==
  /\ pc = "profiles"
  /\ links = {}
  /\ json' = doctors
  /\ pc' = "idle"
  /\ UNCHANGED <<disk, links, doctors, cur, todo, saved, runs>>

\* The run is killed (Ctrl-C, a crash, a reboot), possibly in the middle of
\* streaming a file; all_doctors is lost, the files written so far stay.
Killed ==
  /\ pc \in {"profiles", "download"}
  /\ "kill" \in Faults
  /\ \/ UNCHANGED disk
     \/ /\ pc = "download"
        /\ \E d \in todo :
             /\ disk[DirOf(cur)][d] = NoFile
             /\ disk' = [disk EXCEPT ![DirOf(cur)][d] = [owner |-> cur, whole |-> FALSE]]
  /\ pc' = "idle"
  /\ UNCHANGED <<json, links, doctors, cur, todo, saved, runs>>

Next ==
  \/ Start \/ ProfileFails \/ ProfileParsed
  \/ DownloadCached \/ Download \/ ProfileDone \/ WriteJson \/ Killed

\* requests.get has no timeout, so nothing forces a run to end; only the
\* safety of what a run leaves behind is checked.
Spec == Init /\ [][Next]_vars

-----------------------------------------------------------------------------

TypeOK ==
  /\ pc \in {"idle", "profiles", "download"}
  /\ disk \in [Slugs -> [Descs -> File \cup {NoFile}]]
  /\ links \subseteq Profiles
  /\ cur \in Profiles /\ todo \subseteq Descs /\ saved \subseteq Descs
  /\ runs \in 0 .. MaxRuns

\* Every image path doctors.json gives a doctor names a file that holds
\* that doctor's image, not a missing file nor another doctor's: what the
\* exists-check of lines 108-110 and the status check of line 114 decide.
ImagesOwnedByDoctor ==
  \A e \in json : \A d \in DOMAIN e.images : disk[e.images[d]][d].owner = e.url

\* Every image path doctors.json gives a doctor names a whole file that
\* holds that doctor's image: the exists-check of lines 108-110 trusts any
\* file it finds, from a run that broke off or from another doctor whose
\* name slugifies alike.
ImagesAreOwn ==
  \A e \in json : \A d \in DOMAIN e.images :
       disk[e.images[d]][d] = [owner |-> e.url, whole |-> TRUE]

=============================================================================
