SPECIFICATION SlackSpec
CONSTANTS
  Messages <- MCMessages
  SectionText = 8
  BlocksPerMessage = 6
  ActionsElements = 2
  SelectOptions = 2
  MaxLines = 5
  MaxQuestions = 2
  MaxOptions = 3
CHECK_DEADLOCK FALSE
INVARIANTS
  ShowsTheBody OptionsAreReachable
