SPECIFICATION LiveSpec
CONSTANTS
  Servers = {a, b}
INVARIANTS
  AnswerOfSettled
PROPERTIES
  AnswerFollows
