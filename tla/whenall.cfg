SPECIFICATION FairSpec
CONSTANT N = 3
CHECK_DEADLOCK FALSE
INVARIANTS
    OutcomeHonest
    LastChildCompletes
PROPERTIES
    FirstFailureDecides
    FailureEndsAll
