SPECIFICATION Spec
CONSTANTS
  RxDescs = 3
  Buffers = {b1, b2, b3}
  NoBuffer = none
  GoodFrame = {f}
  BadFrame = {e}
  Owned = own
  Cleared = cleared
  TxDescs = 3
  a = a
  b = b
  c = c
  Packets = {a, b}
  Frags <- MCFrags
  Slow = {b}
  Copies = {c}
  NoPacket = none
INVARIANTS RxInv TxInv RefsCounted SentFromLivePackets
PROPERTIES RxImplementsFifo TxImplementsFifo OutputReturns
