SPECIFICATION UpSpec
CONSTANTS
  UpIds = {0, 1, 3}
  Emails = {"a", "c"}
  UpBatch = 2
  MaxUpModels = 3
PROPERTY UpdateWhereHolds
CHECK_DEADLOCK FALSE
