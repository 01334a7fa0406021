CONSTANTS
  NR_WP = 3
  Exps = {one, other}
  LongExps = {}
  Vals = {0, 1}
  NoExp = NoExp
  Unterminated = Unterminated
  MaxSi = 1
  LOG_MAX = 0
  MaxLen = 1
  BUF = 0
  Readings <- MCTwoReadings
SPECIFICATION FairSpec
INVARIANTS
  ContinueStopsForReason
PROPERTIES
  WatchStopsLoop CommandsReturn
\* The process may exit or die.
CHECK_DEADLOCK FALSE
