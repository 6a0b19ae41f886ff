\* Codes of three bits, which the table has used up after four codes.
CONSTANTS
  W = 2
  MaxBits = 3
  Alphabet = {0, 1}
  MaxLength = 7
  MaxCommands = 2
SPECIFICATION CompressSpec
CHECK_DEADLOCK FALSE
INVARIANTS
  ComesBack
