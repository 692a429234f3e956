SPECIFICATION Spec
CONSTANTS
    c1 = c1
    c2 = c2
    c3 = c3
    w1 = w1
    w2 = w2
    w3 = w3
    b1 = b1
    b2 = b2
    t1 = t1
    r1 = r1
    Targets = {t1}
    Contents <- TwoContents
    Critics = {c1}
    Capabilities <- OneCapability
    Workers = {w1, w2}
    Boots = {b1, b2}
    Requests = {r1}
    Policies <- PlainPolicy
    Terms <- OneTerm
    FindingInputs <- JustPass
    EvidenceInputs <- NoEvidence
    Limits <- SmallLimits
    MaxEpoch = 2
    MaxTargetGeneration = 2
    MaxCriticGeneration = 2
    MaxBootOrder = 4
    MaxAssignments = 2
SYMMETRY Interchangeable
INVARIANTS
    OneVoicePerCritic
    IncumbentIsNewest
    OneSeatPerCritic
PROPERTIES
    LostVoiceForcesRevalidation
    KeepsItsPromise
