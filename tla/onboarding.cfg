SPECIFICATION Spec
CONSTANTS
  Account = {a1, a2}
  NoOne = NoOne
  MaxPresses = 3
  MaxForms = 2
  MaxLost = 1
  MaxRefusals = 1
  MaxKills = 1
SYMMETRY AccountSymmetry
INVARIANTS TypeOK AnswersAreTrue OneProfileEach OneThingAtATime ScreenMatchesSession SdkFollowsSession OnlyInterruptionSkipsProfile NothingForgotten
CHECK_DEADLOCK FALSE
