\* Every fault, a title inside another and a term inside another: is every
\* doctor counted as updated updated?
CONSTANTS
  Nodes <- MCNodes
  Terms <- MCTerms
  Rows <- MCRowsPrefix
  Matches <- MCMatches
  Suggest <- MCSuggest
  MaxRows = 2
  Faults = {"page", "nolink", "nomatch"}
SPECIFICATION Spec
INVARIANT SuccessMeansUpdated
CHECK_DEADLOCK FALSE
