\* A site that always loads, audited with --compare: discovery runs on the live page.
CONSTANTS
  Base = Base
  Live = Live
  Other = Other
  NoHost = NoHost
  Paths <- MCPaths
  Root = "/"
  SkipPaths <- MCSkipPaths
  Links <- MCLinks
  SeedAliases <- MCSeedAliases
  SeedNodes <- MCSeedNodes
  Drush = TRUE
  Compare = TRUE
  Faults = {}
SPECIFICATION Spec
INVARIANT DiscoveryComplete
CHECK_DEADLOCK FALSE
