\* Three processes, two projects, up to four changes.
CONSTANTS
  Projects = {default, shop}
  Processes = {server, cli, server2}
  Nobody = Nobody
  NoProject = NoProject
  NoRow = NoRow
  MaxRows = 4
SPECIFICATION MCFairSpec
INVARIANTS OneRowPerChange ChainsVerify
PROPERTIES Atomic EveryWriteEnds
CHECK_DEADLOCK FALSE
