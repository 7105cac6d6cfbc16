SPECIFICATION Spec
CONSTANTS
    Source = {s1}
    Target = {"a", "b"}
    Password = {"p", "q"}
    Works <- MCWorks
    NoRow = NoRow
    NoPassword = NoPassword
    MaxOps = 3
    MaxForms = 1
    MaxLoads = 3
    MaxInFlight = 2
    MaxFailures = 1
INVARIANTS
    PageConsistent
    ReadyWasTested
PROPERTY
    EnabledOnPurpose
CHECK_DEADLOCK FALSE
