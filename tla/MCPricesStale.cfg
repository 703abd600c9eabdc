CONSTANTS
  Den = 2
  Writers = {w1, w2}
  Edits <- MCEdits
  HandEdits <- MCHandEdits
  MaxHand = 1
  MaxMtime = 1
  Billed <- MCBilled
  Calendar <- MCCalendar
SPECIFICATION PriceSpec
INVARIANT OneStaleTable
CHECK_DEADLOCK FALSE
