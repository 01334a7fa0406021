CONSTANTS
  NR_WP = 2
  Exps = {short, long}
  LongExps = {long}
  Vals = {0, 1}
  NoExp = NoExp
  Unterminated = Unterminated
  MaxSi = 2
  LOG_MAX = 1
  MaxLen = 1
  BUF = 1
  Readings <- MCReadings
SPECIFICATION Spec
INVARIANTS
  TypeOK RunningInCpuExec SiCount TraceFits
PROPERTIES
  VerdictIsFinal
\* The process may exit or die.
CHECK_DEADLOCK FALSE
