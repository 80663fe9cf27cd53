CONSTANTS
    p1 = p1
    p2 = p2
    c1 = c1
    c2 = c2
    c3 = c3
    NoClient = NoClient
    Processes = {p1, p2}
    Clients = {c1, c2, c3}
    ProcOf <- MCProcOf
    Inputs <- MCInputs
    Persistent = TRUE
    KeyRank <- MCKeyRank
SPECIFICATION PatientSpec
INVARIANTS TypeOK MutualExclusion NothingLeaks
PROPERTIES SomeoneProceeds
