SPECIFICATION FairSpec
CONSTANTS
  MetaKeys = {title}
  NoFrame = NoFrame
  EffectCap = 2
  MaxEffects = 1
  MaxBatch = 2
  MaxRevision = 3
INVARIANTS
  WakeTokenExact
  EffectsInOrder
  SkippedFramesCovered
  ClosedAfterDrain

  
  
CHECK_DEADLOCK FALSE
