CONSTANTS
  PagesPerRegion = 2
  Bases <- Places
  Page <- PagesOfPlaces
  Class = {0, 1}
  NoClass = NoClass
  BlockSize <- SmallAndLarge
  Room = 9
  MaskBits = 6
  Size = {2, 3}
  MinSize = 2
SPECIFICATION SlabSpec
INVARIANTS SlabTypeOK BlockAssertsHold HeadersConsistent PageAssertsHold PagesAccounted
PROPERTIES ImplementsHeap SupplyAsAssumed
CHECK_DEADLOCK FALSE
