SPECIFICATION Spec
CONSTANTS
    risky = risky
    far = far
    north = north
    south = south
    none = none
    NoSelection = none
    NoItem = none
    NoRun = none
    NoPlan = none
    MaxRuns = 1
    MaxPlans = 1
    MaxItems = 1
    MaxJobs = 1
    MaxFeedback = 1
    UsedModes <- RequestOnly
    Selections <- OneSelection
    Risky <- OneSelection
    Domains <- BothDomains
    DomainOf <- DomainOfOne
PROPERTIES OnlyApprovedIsCommitted
