SPECIFICATION LifeSpec
CONSTANTS
  Actions = {a1, a2, a3}
  Capacity = 1
  Failures = 1
  Losses = 1
  Budget <- MCBudget
INVARIANTS DirtyOrShown NoneForgotten OneMessageEach FinalAttempt
PROPERTIES ActionsShown Exits
