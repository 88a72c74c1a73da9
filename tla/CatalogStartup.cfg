SPECIFICATION FairSpec
CONSTANTS
  Pod = {p1, p2}
  NoPod = NoPod
  Plugin = {model, mcp, agent}
  Reconnectable = {model, mcp}
  Migrations = 2
  Types = 1
  Rows = 2
  MaxWipes = 1
  MaxFaults = 1
INVARIANTS TypeOK SchemaComplete NoStaleIngest
PROPERTIES Recovers
CHECK_DEADLOCK FALSE
