SPECIFICATION QuerySpec
CONSTANTS
  r1 = r1
  r2 = r2
  u1 = u1
  Readers = {r1, r2}
  Updaters = {u1}
  Tables = {"users", "posts"}
  Queries <- RunTogether
  MaxEntries = 2
  TTL = 0
  MaxWrites = 1
  MaxTime = 1
  MaxOrder = 4
INVARIANT AnswersTheQuery
