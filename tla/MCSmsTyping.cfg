CONSTANTS
  Keywords <- MCLetters
  Numbers <- MCLimits
  MaxCount = 2
  MaxWords = 5
  MaxGreeting = 3
SPECIFICATION Spec
INVARIANTS
  TypeOK
  NothingDropped
  OneNumberOneBucket
  HelpUnderstood
PROPERTIES
  FirstReadingStands
CHECK_DEADLOCK FALSE
