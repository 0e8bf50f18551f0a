\* Distinct names, a stream may break: a rerun records the partial file.
CONSTANTS
  Profiles <- MCProfiles
  Title <- MCDistinctTitle
  Slug <- MCSlug
  Images <- MCImages
  Faults = {"stream"}
  MaxRuns = 2
SPECIFICATION Spec
INVARIANT ImagesAreOwn
CHECK_DEADLOCK FALSE
