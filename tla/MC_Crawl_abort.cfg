\* Network errors on navigation (connection refused, DNS): only those.
CONSTANTS
  Base = Base
  Live = Live
  Other = Other
  NoHost = NoHost
  Paths <- MCPaths
  Root = "/"
  SkipPaths <- MCSkipPaths
  Links <- MCLinks
  SeedAliases <- MCSeedAliases
  SeedNodes <- MCSeedNodes
  Drush = TRUE
  Compare = FALSE
  Faults = {"neterr"}
SPECIFICATION Spec
INVARIANT NoAbort
CHECK_DEADLOCK FALSE
