CONSTANTS
  NR_WP = 3
  Exps = {short, long}
  LongExps = {long}
  Vals = {0, 1}
  Readings <- MCReadings
  NoExp = NoExp
  Unterminated = Unterminated
  NULL = NULL
SPECIFICATION Spec
INVARIANTS TypeOK ListsPartition DeathsAtLimits
PROPERTY PoolSpec
\* The process may die.
CHECK_DEADLOCK FALSE
