SPECIFICATION FairSpec
CONSTANTS
  NULL = NULL
  eager = eager
  modest = modest
  chopped = chopped
  brief = brief
  Conn = {eager, brief}
  Script <- HastyScript
  Unit <- MCUnit
  MayReset = {}
  MailboxSize = 2
  BacklogSize = 1
  BufferSize = 2
  Nested <- MCNested
PROPERTIES ConnectionsEnd
CHECK_DEADLOCK FALSE
