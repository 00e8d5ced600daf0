SPECIFICATION FairSpec
CONSTANTS
    f1 = f1
    none = none
    Feedback = {f1}
    NoItem = none
    MaxJobs = 2
    MaxEpisodes = 2
    EventBudget = 1
    Prompts = 2
    MaxFailures = 1
    MaxBeats = 2
INVARIANTS TypeOK QuietBetweenJobs FeedbackIsDelivered DisposedSessionsAreStale
PROPERTIES CompletedIsWhole JobsAreReported
CHECK_DEADLOCK FALSE
