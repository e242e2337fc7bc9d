CONSTANTS
  Base <- MCBase
  Top <- MCTop
  Programs <- MCPrograms
SPECIFICATION Spec
INVARIANTS TypeOK JumpStackFits MarksAgree NothingForgotten
PROPERTIES DecodesOnlyCode Terminates
CHECK_DEADLOCK FALSE
