CONSTANTS
  Keywords <- MCExampleLetters
  Numbers <- MCExampleNumbers
  MaxCount = 500
  MaxWords = 6
  MaxGreeting = 0
SPECIFICATION Spec
INVARIANTS
  NudgeExampleUnderstood
CHECK_DEADLOCK FALSE
