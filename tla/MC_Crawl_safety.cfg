\* Every failure enabled, drush seeding, no comparison site.
CONSTANTS
  Base = Base
  Live = Live
  Other = Other
  NoHost = NoHost
  Paths <- MCPaths
  Root = "/"
  SkipPaths <- MCSkipPaths
  Links <- MCLinks
  SeedAliases <- MCSeedAliases
  SeedNodes <- MCSeedNodes
  Drush = TRUE
  Compare = FALSE
  Faults = {"timeout", "neterr", "evalerr"}
SPECIFICATION Spec
INVARIANT AuditedOnce
PROPERTY Termination
CHECK_DEADLOCK FALSE
