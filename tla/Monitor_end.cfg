CONSTANTS
  NR_WP = 2
  Exps = {short}
  LongExps = {}
  Vals = {0, 1}
  NoExp = NoExp
  Unterminated = Unterminated
  MaxSi = 2
  LOG_MAX = 1
  MaxLen = 1
  BUF = 2
  Readings <- MCReadings
SPECIFICATION Spec
PROPERTIES
  EndIsFinal
\* The process may exit or die.
CHECK_DEADLOCK FALSE
