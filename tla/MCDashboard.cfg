CONSTANTS
  Clients = {c1, c2}
  SubscriberBuffer = 2
  MaxRows = 2
  Handlers = {h1, h2}
  Originals <- MCOriginals
  Capture = TRUE
  SinkCap = 2
  MaxClock = 1
  Calls = {r1, r2}
  Days <- MCDays
  Flags <- MCFlags
  MaxEdits = 2
  Den = 2
  Writers = {w1, w2}
  Edits <- MCEdits
  HandEdits <- MCHandEdits
  MaxHand = 1
  MaxMtime = 1
  Billed <- MCBilled
  Calendar <- MCCalendar
  Bodies <- MCBodies
  Caps <- MCCaps
  TailCap = 9
  MaxWrite = 2
  Kinds <- MCKinds
  Gap = 1
  NullWindow = 0
  Backdate = 1
  BatchSize = 2
  MaxCalls = 3
  MaxTime = 1
  MaxPurges = 1
  MaxFaults = 0
SPECIFICATION DashboardSpec
INVARIANT FeedHasNoGap
INVARIANT ClosedOnce
INVARIANT EventsFollowCommits
INVARIANT ReplyNamesItsReplay
INVARIANT OneRowPerReplay
INVARIANT ReloadTakesEffect
INVARIANT LoaderServesTheFile
INVARIANT EditsSurvive
INVARIANT CostHonest
INVARIANT UsageExact
INVARIANT PagesPartition
INVARIANT ReportsAgree
PROPERTY ReplyAlwaysComes
CHECK_DEADLOCK FALSE
