CONSTANTS
  LEN = 3
  CODES = 2
  Scancodes = {0, 1, 3}
  Mapped = {1}
  Quit = Quit
  NoEvent = NoEvent
  MaxPress = 4
SPECIFICATION FairSpec
INVARIANTS
  TypeOK InOrder PromptKeysDropped OverflowOnlyWhenFull
PROPERTIES
  FifoSpec EventsPolled
\* The process may exit or die.
CHECK_DEADLOCK FALSE
