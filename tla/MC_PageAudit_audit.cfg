\* A later audit with --compare, every failure enabled.
CONSTANTS
  Base = Base
  Live = Live
  Other = Other
  NoHost = NoHost
  Paths <- MCPaths
  Root = "/"
  SkipPaths <- MCSkipPaths
  Links <- MCLinks
  SeedAliases <- MCSeedAliases
  SeedNodes <- MCSeedNodes
  Drush = TRUE
  Compare = TRUE
  Faults = {"timeout", "neterr", "evalerr"}
  U <- MCU
  EntryTab <- MCEntryTab
  PriorAudits = 1
  PageErrors = TRUE
  MaxResponses = 2
SPECIFICATION Spec
PROPERTY RefinesCrawlView
CHECK_DEADLOCK FALSE
