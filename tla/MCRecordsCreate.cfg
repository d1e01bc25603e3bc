SPECIFICATION Spec
CONSTANTS
  c1 = c1
  c2 = c2
  Clients = {c1, c2}
  BatchSize = 2
  Seeded = 1
  MaxId = 3
  MaxModels = 3
  MaxCalls = 2
PROPERTY CreatedHasID
CHECK_DEADLOCK FALSE
