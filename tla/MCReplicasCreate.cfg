SPECIFICATION ReplicaSpec
CONSTANTS
  Users = {u1, u2}
  ReplicaCounts = {0, 1, 2}
  Wrap = 3
  MaxWrites = 2
  MaxReads = 4
INVARIANT WritesGoToPrimary
CHECK_DEADLOCK FALSE
