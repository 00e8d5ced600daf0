SPECIFICATION FairSpec
CONSTANTS
    Mode <- MCMode
    MaxMessages = 3
    MaxCalls = 2
    MaxTurns = 2
INVARIANTS ResultsInOrder RequestsAreComplete OneMessagePerTurn
PROPERTIES ImplementsInbox RunsEnd
CHECK_DEADLOCK FALSE
