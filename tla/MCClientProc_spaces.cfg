CONSTANTS
    Null = Null
    Calls <- MCCalls
    Answers <- MCAnswers
    MaxCalls = 2
    Wide = TRUE
SPECIFICATION Spec
INVARIANTS ReadBack
