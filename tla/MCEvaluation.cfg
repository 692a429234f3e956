SPECIFICATION Spec
CONSTANTS
    Critics <- MCCritics
    RoleOf <- MCRoleOf
    Mortal <- MCMortal
    Policies <- MCPolicies
    FindingChoices <- MCFindingChoices
    MaxFindings = 3
INVARIANTS
    PassIsEarned
    DisagreementNeverPasses
    RolesBypassedOnlyByCounting
    ReplacedProcessIsForgotten
PROPERTY
    EchoesCarryNoWeight
CHECK_DEADLOCK FALSE
