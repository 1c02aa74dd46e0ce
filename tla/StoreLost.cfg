SPECIFICATION StoreSpec
CONSTANTS
  Payloads = {v1, v2}
  Current = 2
  Newest = 3
  Trials <- RenameAfterLoss
  Absent = Absent
  Corrupt = Corrupt
  Torn = Torn
PROPERTIES
  LastValueSurvives
