SPECIFICATION TickingSpec
CONSTANTS
  c1 = c1
  c2 = c2
  Clients = {c1, c2}
  k1 = k1
  Controllers = {k1}
  WarmConnections = 1
  MaxOpenConns = 10
  MaxIdleConns = 2
  MaxRetries = 1
  MaxStarts = 1
PROPERTY SurplusCloses
