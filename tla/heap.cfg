SPECIFICATION Spec
CONSTANTS
  End = 104
  Wanted = {0, 4, 12}
  Slots = 5
INVARIANTS HeapInv HeapTiled TableTracks IntegrityHolds
PROPERTIES ImplementsAllocator
