SPECIFICATION SpecReviews
CONSTANTS
    c1 = c1
    c2 = c2
    c3 = c3
    w1 = w1
    w2 = w2
    w3 = w3
    b1 = b1
    b2 = b2
    t1 = t1
    r1 = r1
    Targets = {t1}
    Contents <- TwoContents
    Critics = {c1, c2}
    Capabilities <- OneCapability
    Workers = {w1, w2}
    Boots = {b1, b2}
    Requests = {r1}
    Policies <- ThreePolicies
    Terms <- OneTerm
    FindingInputs <- Cited
    EvidenceInputs <- Verified
    Limits <- ReviewLimits
    MaxEpoch = 2
    MaxTargetGeneration = 2
    MaxCriticGeneration = 1
    MaxBootOrder = 4
    MaxAssignments = 2
ACTION_CONSTRAINT InReviewSlice
INVARIANTS
    TypeOK
    ChallengesAccountForFindings
    OverlookedAreContested
    AuthorityTracksTarget
    StaleTargetSilent
    NoSelfContradiction
PROPERTIES
    OutcomesAreFinal
    RetiredFindingsStayRetired
    CommitIsRepeatable
