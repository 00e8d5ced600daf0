SPECIFICATION Spec
CONSTANTS
    risky = risky
    far = far
    north = north
    south = south
    none = none
    NoSelection = none
    NoItem = none
    NoRun = none
    NoPlan = none
    MaxRuns = 2
    MaxPlans = 2
    MaxItems = 2
    MaxJobs = 2
    MaxFeedback = 2
    UsedModes <- AllModes
    Selections <- FarToo
    Risky <- RiskySelections
    Domains <- BothDomains
    DomainOf <- DomainOfFar
INVARIANTS TypeOK OneRunAtATime EndedRunsAreDone EarlyAnswersAreApproved GrantedPlansAreBacked InputHeldOnce
PROPERTIES DecisionsAreFinal ReportedRunsReturnInput
