SPECIFICATION Spec
CONSTANTS
  None = None
  Models = {1}
  OldModels = {1, 2}
  Other = 3
  Hour = 2
  Retention = 2
  Midnights = {3}
  Ranges <- MCRanges
  BatchSize = 1
  PageSize = 1
  Readers = {r1}
  Histories <- MCHistories
  MaxTime = 4
  MaxDuration = 1
  MaxEvents = 2
INVARIANTS HourlyTellsAll DeletedBelowCutoff OverviewExact PagesTellSnapshot
PROPERTIES RetentionGoesOn
CHECK_DEADLOCK FALSE
