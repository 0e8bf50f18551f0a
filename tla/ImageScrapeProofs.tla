------------------------- MODULE ImageScrapeProofs -------------------------
(***************************************************************************)
(* Proofs about the profile scraper (module ImageScrape), for every set of *)
(* profiles, titles, images and failures, and any number of runs: the      *)
(* type invariant, and that doctors.json only points at files holding the *)
(* doctor's own image when no two names slugify alike.                     *)
(***************************************************************************)
EXTENDS ImageScrape, TLAPS

\* No two doctors get the same images/<slug> directory.
DistinctSlugs == \A p, q \in Profiles : DirOf(p) = DirOf(q) => p = q

\* Every file of disk dk holds the image of a doctor of its directory.
Owned(dk) ==
  \A s \in Slugs, d \in Descs :
     dk[s][d] # NoFile => dk[s][d].owner \in Profiles /\ DirOf(dk[s][d].owner) = s

\* An entry of all_doctors or of doctors.json: a profile, and for each
\* descriptor it records the doctor's directory, in which that file exists.
GoodEntry(e, dk) ==
  /\ e.url \in Profiles
  /\ DOMAIN e.images \subseteq Descs
  /\ \A d \in DOMAIN e.images : e.images[d] = DirOf(e.url) /\ dk[DirOf(e.url)][d] # NoFile

\* Files are only ever added: no step removes or empties one.
Grows(dk, dk2) == \A s \in Slugs, d \in Descs : dk[s][d] # NoFile => dk2[s][d] # NoFile

\* ImagesOwnedByDoctor is not inductive: the step that writes doctors.json
\* needs every entry of all_doctors to point at existing files, that needs
\* every descriptor of saved_images to name one, and a file's owner must
\* be a doctor of that directory.
IInv ==
  /\ TypeOK
  /\ Owned(disk)
  /\ \A e \in json \cup doctors : GoodEntry(e, disk)
  /\ pc = "download" => \A d \in saved : d \in Descs /\ disk[DirOf(cur)][d] # NoFile

LEMMA DirOfSlug ==
  ASSUME NEW p \in Profiles
  PROVE  DirOf(p) \in Slugs
BY DEF DirOf, Slugs

LEMMA ImagesDescs ==
  ASSUME NEW p \in Profiles
  PROVE  Images[p] \subseteq Descs
BY DEF Descs

\* Streaming an image of doctor p into a missing file of p's directory,
\* whole or not, keeps the disk typed and owned, and only adds that file.
LEMMA StoreFile ==
  ASSUME NEW dk \in [Slugs -> [Descs -> File \cup {NoFile}]], Owned(dk),
         NEW p \in Profiles, NEW d \in Descs, NEW w \in BOOLEAN,
         NEW dk2, dk2 = [dk EXCEPT ![DirOf(p)][d] = [owner |-> p, whole |-> w]]
  PROVE  /\ dk2 \in [Slugs -> [Descs -> File \cup {NoFile}]]
         /\ Owned(dk2)
         /\ Grows(dk, dk2)
         /\ dk2[DirOf(p)][d] # NoFile
<1>1. DirOf(p) \in Slugs
  BY DirOfSlug
<1>2. [owner |-> p, whole |-> w] \in File /\ [owner |-> p, whole |-> w] # NoFile
  BY ImageAssumption DEF File, NoFile
<1>3. QED
  BY <1>1, <1>2 DEF Owned, Grows

\* An entry stays good while files are only added.
LEMMA EntryGrows ==
  ASSUME NEW e, NEW dk, NEW dk2, GoodEntry(e, dk), Grows(dk, dk2)
  PROVE  GoodEntry(e, dk2)
BY DirOfSlug DEF GoodEntry, Grows

LEMMA InitIInv == Init => IInv
<1> SUFFICES ASSUME Init PROVE IInv
  OBVIOUS
<1>1. (CHOOSE p \in Profiles : TRUE) \in Profiles
  BY ImageAssumption
<1>2. Owned(disk)
  BY DEF Init, Owned
<1>3. QED
  BY <1>1, <1>2, ImageAssumption DEF Init, IInv, TypeOK, File, NoFile

\* A step that leaves the disk, the JSON, all_doctors and saved_images alone.
LEMMA QuietStep ==
  ASSUME IInv, TypeOK', UNCHANGED <<disk, json, doctors, saved>>,
         pc' = "download" => pc = "download" /\ cur' = cur
  PROVE  IInv'
BY DEF IInv, Owned, GoodEntry

\* The step that preserves the invariant, one case per action.
LEMMA NextIInv == IInv /\ [Next]_vars => IInv'
<1> SUFFICES ASSUME IInv, [Next]_vars PROVE IInv'
  OBVIOUS
<1>0. /\ disk \in [Slugs -> [Descs -> File \cup {NoFile}]]
      /\ cur \in Profiles /\ todo \subseteq Descs /\ saved \subseteq Descs
      /\ Owned(disk)
      /\ \A e \in json \cup doctors : GoodEntry(e, disk)
  BY DEF IInv, TypeOK
<1>1. CASE Start
  BY <1>1, QuietStep, ImageAssumption DEF Start, IInv, TypeOK
<1>2. CASE ProfileFails
  BY <1>2, QuietStep DEF ProfileFails, IInv, TypeOK
<1>3. CASE ProfileParsed
  <2>1. TypeOK'
    BY <1>3, ImagesDescs DEF ProfileParsed, IInv, TypeOK
  <2>2. QED
    BY <1>3, <2>1 DEF ProfileParsed, IInv, Owned, GoodEntry
<1>4. CASE DownloadCached
  <2>1. TypeOK'
    BY <1>4 DEF DownloadCached, IInv, TypeOK
  <2>2. PICK d \in todo : /\ disk[DirOf(cur)][d] # NoFile
                          /\ todo' = todo \ {d} /\ saved' = saved \cup {d}
    BY <1>4 DEF DownloadCached
  <2>3. \A x \in saved' : x \in Descs /\ disk'[DirOf(cur')][x] # NoFile
    BY <1>0, <1>4, <2>2 DEF DownloadCached, IInv
  <2>4. QED
    BY <1>0, <1>4, <2>1, <2>3 DEF DownloadCached, IInv
<1>5. CASE Download
  <2>1. PICK d \in todo :
          /\ disk[DirOf(cur)][d] = NoFile
          /\ todo' = todo \ {d}
          /\ \/ /\ disk' = [disk EXCEPT ![DirOf(cur)][d] = [owner |-> cur, whole |-> TRUE]]
                /\ saved' = saved \cup {d}
             \/ /\ "status" \in Faults
                /\ UNCHANGED <<disk, saved>>
             \/ /\ "stream" \in Faults
                /\ disk' = [disk EXCEPT ![DirOf(cur)][d] = [owner |-> cur, whole |-> FALSE]]
                /\ saved' = saved
    BY <1>5 DEF Download
  <2>2. d \in Descs
    BY <1>0, <2>1
  <2>3. pc = "download" /\ pc' = "download" /\ cur' = cur
        /\ UNCHANGED <<json, links, doctors, runs>>
    BY <1>5 DEF Download
  <2>4. CASE disk' = [disk EXCEPT ![DirOf(cur)][d] = [owner |-> cur, whole |-> TRUE]]
             /\ saved' = saved \cup {d}
    <3>1. /\ disk' \in [Slugs -> [Descs -> File \cup {NoFile}]]
          /\ Owned(disk') /\ Grows(disk, disk') /\ disk'[DirOf(cur)][d] # NoFile
      BY <1>0, <2>2, <2>4, StoreFile
    <3>2. \A e \in json' \cup doctors' : GoodEntry(e, disk')
      BY <1>0, <2>3, <3>1, EntryGrows
    <3>3. \A x \in saved' : x \in Descs /\ disk'[DirOf(cur')][x] # NoFile
      BY <1>0, <2>2, <2>3, <2>4, <3>1, DirOfSlug DEF IInv, Grows
    <3>4. QED
      BY <2>1, <2>2, <2>3, <2>4, <3>1, <3>2, <3>3 DEF IInv, TypeOK
  <2>5. CASE "status" \in Faults /\ UNCHANGED <<disk, saved>>
    BY <2>1, <2>3, <2>5, QuietStep DEF IInv, TypeOK
  <2>6. CASE disk' = [disk EXCEPT ![DirOf(cur)][d] = [owner |-> cur, whole |-> FALSE]]
             /\ saved' = saved
    <3>1. /\ disk' \in [Slugs -> [Descs -> File \cup {NoFile}]]
          /\ Owned(disk') /\ Grows(disk, disk') /\ disk'[DirOf(cur)][d] # NoFile
      BY <1>0, <2>2, <2>6, StoreFile
    <3>2. \A e \in json' \cup doctors' : GoodEntry(e, disk')
      BY <1>0, <2>3, <3>1, EntryGrows
    <3>3. \A x \in saved' : x \in Descs /\ disk'[DirOf(cur')][x] # NoFile
      BY <1>0, <2>3, <2>6, <3>1, DirOfSlug DEF IInv, Grows
    <3>4. QED
      BY <2>1, <2>2, <2>3, <2>6, <3>1, <3>2, <3>3 DEF IInv, TypeOK
  <2>7. QED
    BY <2>1, <2>4, <2>5, <2>6
<1>6. CASE ProfileDone
  <2>1. GoodEntry(Entry(cur, saved), disk)
    BY <1>6, <1>0 DEF ProfileDone, IInv, GoodEntry, Entry
  <2>2. TypeOK'
    BY <1>6 DEF ProfileDone, IInv, TypeOK
  <2>3. QED
    BY <1>6, <1>0, <2>1, <2>2 DEF ProfileDone, IInv
<1>7. CASE WriteJson
  <2>1. TypeOK'
    BY <1>7 DEF WriteJson, IInv, TypeOK
  <2>2. QED
    BY <1>7, <1>0, <2>1 DEF WriteJson, IInv
<1>8. CASE Killed
  <2>1. pc' = "idle" /\ UNCHANGED <<json, links, doctors, cur, todo, saved, runs>>
    BY <1>8 DEF Killed
  <2>2. CASE UNCHANGED disk
    BY <1>8, <2>1, <2>2, QuietStep DEF IInv, TypeOK, Killed
  <2>3. CASE ~UNCHANGED disk
    <3>1. PICK d \in todo :
            disk' = [disk EXCEPT ![DirOf(cur)][d] = [owner |-> cur, whole |-> FALSE]]
      BY <1>8, <2>3 DEF Killed
    <3>2. /\ disk' \in [Slugs -> [Descs -> File \cup {NoFile}]]
          /\ Owned(disk') /\ Grows(disk, disk')
      BY <1>0, <3>1, StoreFile
    <3>3. \A e \in json' \cup doctors' : GoodEntry(e, disk')
      BY <1>0, <2>1, <3>2, EntryGrows
    <3>4. QED
      BY <1>8, <2>1, <3>2, <3>3 DEF IInv, TypeOK, Killed
  <2>4. QED
    BY <2>2, <2>3
<1>9. CASE UNCHANGED vars
  BY <1>9, QuietStep DEF vars, IInv, TypeOK
<1>10. QED
  BY <1>1, <1>2, <1>3, <1>4, <1>5, <1>6, <1>7, <1>8, <1>9 DEF Next

\* With distinct slugs, an entry whose files exist points at files its
\* own doctor's image went into.
LEMMA IInvOwned == DistinctSlugs /\ IInv => ImagesOwnedByDoctor
<1> SUFFICES ASSUME DistinctSlugs, IInv, NEW e \in json, NEW d \in DOMAIN e.images
             PROVE  disk[e.images[d]][d].owner = e.url
  BY DEF ImagesOwnedByDoctor
<1>1. GoodEntry(e, disk)
  BY DEF IInv
<1>2. /\ e.url \in Profiles /\ d \in Descs /\ e.images[d] = DirOf(e.url)
      /\ disk[DirOf(e.url)][d] # NoFile
  BY <1>1 DEF GoodEntry
<1>3. DirOf(e.url) \in Slugs
  BY <1>2, DirOfSlug
<1>4. disk[DirOf(e.url)][d].owner \in Profiles
      /\ DirOf(disk[DirOf(e.url)][d].owner) = DirOf(e.url)
  BY <1>2, <1>3 DEF IInv, Owned
<1>5. QED
  BY <1>2, <1>4 DEF DistinctSlugs

\* Every state of the scraper, over any number of runs, is well typed.
THEOREM ImageTypeCorrect == Spec => []TypeOK
<1>1. IInv => TypeOK
  BY DEF IInv
<1>2. QED
  BY InitIInv, NextIInv, <1>1, PTL DEF Spec

\* When no two doctors' names slugify to the same directory, every image
\* path doctors.json records for a doctor names a file holding that
\* doctor's image, over any number of runs, failed downloads and kills:
\* the exists-check of lines 108-110 only ever finds the doctor's own file.
THEOREM ImagesOwned == DistinctSlugs => (Spec => []ImagesOwnedByDoctor)
<1> SUFFICES ASSUME DistinctSlugs PROVE Spec => []ImagesOwnedByDoctor
  OBVIOUS
<1>1. IInv => ImagesOwnedByDoctor
  BY IInvOwned
<1>2. QED
  BY InitIInv, NextIInv, <1>1, PTL DEF Spec

====
