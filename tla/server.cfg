SPECIFICATION MCSpec
CONSTANTS
  NULL = NULL
  eager = eager
  modest = modest
  chopped = chopped
  brief = brief
  Conn = {eager, modest, chopped, brief}
  Script <- MCScript
  Unit <- MCUnit
  MayReset = {brief}
  MailboxSize = 2
  BacklogSize = 1
  BufferSize = 2
  Nested <- MCNested
INVARIANTS ServerInv NeverStranded AnswersFramed AllAnswered
PROPERTIES ImplementsStream ConnectionsEnd
CHECK_DEADLOCK FALSE
