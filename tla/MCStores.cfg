SPECIFICATION MCSpec
CONSTANTS
  w1 = w1
  w2 = w2
  w3 = w3
  s1 = s1
  s2 = s2
  Writers = {w1, w2, w3}
  Stores = {s1, s2}
  StoreOf <- MCStoreOf
  NoWriter = NoWriter
  EventTypes = {"renamed"}
  Handled = {}
  SnapshotInterval = 2
  AppliesOnRaise = TRUE
  MaxEvents = 3
  r1 = r1
  r2 = r2
  u1 = u1
  Readers = {r1, r2}
  Updaters = {u1}
  Tables = {"users", "posts"}
  Queries <- DistinctKeys
  MaxEntries = 2
  TTL = 0
  MaxWrites = 1
  MaxTime = 1
  MaxOrder = 4
SYMMETRY Perms
INVARIANTS
  StateIsReplay
  NoEventStoredTwice
  CacheBounded
  AnswersTheQuery
  InvalidationHolds
PROPERTIES ImplementsLog
