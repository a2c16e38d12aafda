SPECIFICATION FairSpec
CONSTANTS
  Cameras = {front}
  Sets = 1
  Losses = 1
  Budget <- MCBudget
INVARIANT InStepAtRest
PROPERTIES ClosedOff Repaired
