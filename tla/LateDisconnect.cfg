SPECIFICATION FairTransportSpec
CONSTANTS
    c1 = c1
    w1 = w1
    p1 = p1
    p2 = p2
    ctl = ctl
    ctl2 = ctl2
    t1 = t1
    r1 = r1
    Targets = {t1}
    Contents <- TwoContents
    Critics = {c1}
    Capabilities <- OneCapability
    Workers = {w1}
    Boots = {p1, p2}
    Requests = {r1}
    Policies <- OnePolicy
    Terms <- OneTerm
    FindingInputs <- Statements
    EvidenceInputs <- Witness
    Limits <- TransportLimits
    MaxEpoch = 1
    MaxTargetGeneration = 2
    MaxCriticGeneration = 1
    MaxBootOrder = 3
    MaxAssignments = 2
    Peers = {p1, p2, ctl, ctl2}
    Processes = {p1, p2}
    Controllers = {ctl, ctl2}
    Identity <- TwoIncarnations
    Orders = {"AssignCritics", "Shutdown"}
    MaxServiced = 2
    Slices <- JustTwins
CHECK_DEADLOCK FALSE
PROPERTY FencesExactIncarnation
