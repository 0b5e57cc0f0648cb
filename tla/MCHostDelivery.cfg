SPECIFICATION DFairSpec
CONSTANTS
  MetaKeys = {}
  NoFrame = NoFrame
  EffectCap = 1
  MaxEffects = 1
  MaxBatch = 2
  MaxRevision = 3
INVARIANTS  FrameAvailable
PROPERTIES PubSpec IntentsReduced
CHECK_DEADLOCK FALSE
