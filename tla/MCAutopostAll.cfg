CONSTANTS
  NumProducts = 2
  Tasks = {t1, t2}
  Day = 2
  MultiMin = 1
  MultiMax = 2
  KeepStep = 1
  MaxKeep = 2
  MaxInterval = 2
  NoRepeat = 1
  Gap = 1
  Changed = {"new_keep", "new_multi", "interval_mins", "autopost_enabled", "night_end"}
  Defaults <- Row
  Pinned = {2}
  MaxOps = 1
  MaxFaults = 1
  NoSettings = NoSettings
  NoTask = NoTask
SPECIFICATION FairSpec
INVARIANTS
  CacheIsTheRow
  ScheduleFollowsSettings
PROPERTIES
  AutopostIsAllowed
  ShopKeepsPosting
  EventuallyRanked
CHECK_DEADLOCK FALSE
