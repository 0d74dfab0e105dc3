SPECIFICATION Spec
CONSTANTS
  Intents = {"small", "large"}
  MaxCalls = 2
  LosesAnswers = TRUE
INVARIANT LandableIsUnconfirmed
