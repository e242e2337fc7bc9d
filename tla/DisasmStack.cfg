CONSTANTS
  Base <- MCBase
  Top <- MCTop
  Programs <- MCTailPrograms
SPECIFICATION Spec
INVARIANTS JumpsExplored
CHECK_DEADLOCK FALSE
