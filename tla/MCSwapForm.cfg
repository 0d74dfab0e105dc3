SPECIFICATION Spec
CONSTANTS
  Intents = {"small", "large"}
  MaxCalls = 2
  LosesAnswers = FALSE
INVARIANTS TypeOK OfferIsSafe DepositAfterApproval
PROPERTIES NoSecondDeposit BatchWaitEnds
