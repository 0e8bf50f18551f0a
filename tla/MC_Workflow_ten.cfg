\* Ten profiles saved as instructed: doctor_10.html sorts before doctor_2.html.
CONSTANTS
  NUrls = 10
  Careful = TRUE
  Faults = {}
SPECIFICATION Spec
INVARIANT ProfilesMatchUrls
