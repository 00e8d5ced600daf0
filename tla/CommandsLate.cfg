SPECIFICATION Spec
CONSTANTS
    c1 = c1
    c2 = c2
    c3 = c3
    r1 = r1
    Sent <- AllRequests
    brief = brief
    none = none
    NoCommand = none
    NoRequest = none
    NoPayload = none
    Ids = {c1}
    MaxEpisodes = 1
    Steps = 1
    MaxActive = 1
    QueueLimit = 1
    Payloads = {brief}
    ValidPayloads = {brief}
    DurationOf <- MCDurationOf
    NamedIntents = {1}
    NamedRevisions = {1}
INVARIANTS ClosedRunsAnswerAll
CHECK_DEADLOCK FALSE
