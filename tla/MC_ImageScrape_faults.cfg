\* Distinct names, every failure, two runs: each recorded image is the doctor's own.
CONSTANTS
  Profiles <- MCProfiles
  Title <- MCDistinctTitle
  Slug <- MCSlug
  Images <- MCImages
  Faults = {"fetch", "status", "stream", "kill"}
  MaxRuns = 2
SPECIFICATION Spec
INVARIANT ImagesOwnedByDoctor
CHECK_DEADLOCK FALSE
