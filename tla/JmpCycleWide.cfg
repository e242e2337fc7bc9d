CONSTANTS
  Operands <- MCOperands
  Dests <- MCDests
  Games <- MCWideGames
SPECIFICATION Spec
PROPERTIES AllJumpsKnown
CHECK_DEADLOCK FALSE
