SPECIFICATION SpecTracked
CONSTANTS
    c1 = c1
    c2 = c2
    c3 = c3
    w1 = w1
    w2 = w2
    w3 = w3
    b1 = b1
    b2 = b2
    t1 = t1
    r1 = r1
    Targets = {t1}
    Contents <- OneContent
    Critics = {c1, c2}
    Capabilities <- OneCapability
    Workers = {w1, w2}
    Boots = {b1}
    Requests = {r1}
    Policies <- DebatePolicy
    Terms <- OneTerm
    FindingInputs <- PassOrFail
    EvidenceInputs <- NoEvidence
    Limits <- DebateLimits
    MaxEpoch = 2
    MaxTargetGeneration = 1
    MaxCriticGeneration = 1
    MaxBootOrder = 3
    MaxAssignments = 1
INVARIANT
    RecoveredReviewWaitsForReassignment
