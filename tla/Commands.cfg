SPECIFICATION FairSpec
CONSTANTS
    c1 = c1
    c2 = c2
    c3 = c3
    r1 = r1
    Sent <- CompetingEdits
    brief = brief
    none = none
    NoCommand = none
    NoRequest = none
    NoPayload = none
    Ids = {c1, c2, c3, r1}
    MaxEpisodes = 2
    Steps = 2
    MaxActive = 1
    QueueLimit = 2
    Payloads = {brief}
    ValidPayloads = {brief}
    DurationOf <- MCDurationOf
    NamedIntents = {1}
    NamedRevisions = {1}
INVARIANTS RevisionsHaveOneAuthor EditsAreOfTheirEpisode
PROPERTIES EachCommandOnce FinishedRunsTakeNoEdits ClosedIntentsStayClosed CommandsAreAnswered
CHECK_DEADLOCK FALSE
