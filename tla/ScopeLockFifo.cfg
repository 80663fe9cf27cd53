CONSTANTS
    p1 = p1
    p2 = p2
    c1 = c1
    c2 = c2
    c3 = c3
    NoClient = NoClient
    Processes = {p1}
    Clients = {c1, c2, c3}
    ProcOf <- MCOneProcess
    Inputs <- MCInputs
    Persistent = FALSE
    KeyRank <- MCKeyRank
SPECIFICATION FairSpec
PROPERTIES NoOvertaking NoStarvation
