\* A site that always loads: no failure, drush seeding, no comparison site.
CONSTANTS
  Base = Base
  Live = Live
  Other = Other
  NoHost = NoHost
  Paths <- MCPaths
  Root = "/"
  SkipPaths <- MCSkipPaths
  Links <- MCLinks
  SeedAliases <- MCSeedAliases
  SeedNodes <- MCSeedNodes
  Drush = TRUE
  Compare = FALSE
  Faults = {}
SPECIFICATION Spec
INVARIANT DiscoveryComplete
CHECK_DEADLOCK FALSE
