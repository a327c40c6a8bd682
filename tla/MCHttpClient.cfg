SPECIFICATION Spec
CONSTANTS
    h1 = h1
    h2 = h2
    h3 = h3
    Hosts <- MCHosts
    MaxRetries = 2
    RedirectCap = 2
INVARIANTS
    TypeOK
    SendBudget
    HostConfinement
    RedirectStripsRequest
    RetriesSpentBeforeFailure
PROPERTIES
    EventuallyReturns
