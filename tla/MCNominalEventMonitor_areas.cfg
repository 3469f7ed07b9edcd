CONSTANTS
  whole = whole
  early = early
  late = late
  Events = {whole, early, late}
  Whole = whole
  Begin <- MCBegin
  End <- MCEnd
  Infinity = 100
  NoMain = NoMain
  Mains = {whole, late}
  Tolerance = 0
  MaxTime = 3
  MaxPauses = 2
CHECK_DEADLOCK FALSE
SPECIFICATION FairSpec
INVARIANTS
  TypeOK
  AnchorsInStep
PROPERTIES
  NeverEarly
  AnchorsFire
  PresentationEnds
