CONSTANTS
    Null = Null
    Calls <- MCCalls
    Answers <- MCAnswers
    MaxCalls = 2
    Wide = FALSE
SPECIFICATION Spec
INVARIANTS TypeOK ResponseMatchesCall ReadBack CleanStop OneInFlight
PROPERTIES ImplementsLink OwnerReturns DriverEnds
