SPECIFICATION ServedSpec
CONSTANTS
  RxDescs = 3
  Buffers = {b1, b2, b3}
  NoBuffer = none
  GoodFrame = {f}
  BadFrame = {e}
  Owned = own
  Cleared = cleared
PROPERTIES RingRefills
