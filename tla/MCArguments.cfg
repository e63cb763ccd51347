\* Up to five arguments of up to two bytes, where two addresses fill a page.
SPECIFICATION RewindSpec
CONSTANTS
  Chars <- OneChar
  MaxArgs = 5
  MaxLen = 2
  PageWords = 2
INVARIANTS
  SameArguments
  FailsOnlyIfFull
CHECK_DEADLOCK FALSE
