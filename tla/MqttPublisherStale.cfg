SPECIFICATION Spec
CONSTANTS
  Cameras = {front}
  Sets = 2
  Losses = 0
  Budget <- MCBudget
INVARIANT RepublishesCurrent
