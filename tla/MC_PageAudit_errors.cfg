\* No failures: does the record keep every console error?
CONSTANTS
  Base = Base
  Live = Live
  Other = Other
  NoHost = NoHost
  Paths <- MCPaths
  Root = "/"
  SkipPaths <- MCSkipPaths
  Links <- MCLinks
  SeedAliases <- MCSeedAliases
  SeedNodes <- MCSeedNodes
  Drush = TRUE
  Compare = FALSE
  Faults = {}
  U <- MCU
  EntryTab <- MCEntryTab
  PriorAudits = 0
  PageErrors = TRUE
  MaxResponses = 2
SPECIFICATION Spec
INVARIANT ErrorLogComplete
CHECK_DEADLOCK FALSE
