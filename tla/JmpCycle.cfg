CONSTANTS
  Operands <- MCOperands
  Dests <- MCDests
  Games <- MCGames
SPECIFICATION Spec
INVARIANTS TypeOK  TableExact
 
CHECK_DEADLOCK FALSE
