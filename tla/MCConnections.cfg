SPECIFICATION MCSpec
CONSTANTS
  c1 = c1
  c2 = c2
  Clients = {c1, c2}
  k1 = k1
  Controllers = {k1}
  WarmConnections = 1
  MaxOpenConns = 3
  MaxIdleConns <- KeepsNoIdle
  MaxRetries = 1
  MaxStarts = 1
  r1 = r1
  r2 = r2
  r3 = r3
  Runners = {r1, r2, r3}
  Versions = {1, 2, 3}
  Registered <- TwoReleases
  NoDown = {2}
  MaxConns = 4
INVARIANTS WarmBounded RecordedInOrder TableTellsSchema
PROPERTIES ExecServed OpReturns
