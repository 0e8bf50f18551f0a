\* No failures: does request_count count the navigation's responses?
CONSTANTS
  Base = Base
  Live = Live
  Other = Other
  NoHost = NoHost
  Paths <- MCPaths
  Root = "/"
  SkipPaths <- MCSkipPaths
  Links <- MCLinks
  SeedAliases <- MCSeedAliases
  SeedNodes <- MCSeedNodes
  Drush = TRUE
  Compare = FALSE
  Faults = {}
  U <- MCU
  EntryTab <- MCEntryTab
  PriorAudits = 0
  PageErrors = TRUE
  MaxResponses = 2
SPECIFICATION Spec
INVARIANT RequestsAccounted
CHECK_DEADLOCK FALSE
