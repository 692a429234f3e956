------------------------------- MODULE Policy -------------------------------
(***************************************************************************)
(* Review specifications (ReviewSpec, include/critic_fabric/policy.hpp and *)
(* src/policy.cpp): the built-in one, what validation accepts, and the     *)
(* weight a specification gives a critic.  A specification is a record     *)
(* with the fields of DefaultSpec; the fields nothing reads (retry limits, *)
(* abstention and persistence flags, warn_threshold, names) are left out.  *)
(***************************************************************************)
EXTENDS Lifecycle, Integers, Sequences

AggregationPolicies ==
    {"AllRequiredPass", "AnyCriticalFail", "QuorumPass", "WeightedReview",
     "RequiredRolePass", "MajorityWithConstraints", "ConsensusThreshold",
     "PolicyTable"}

DisagreementPolicies ==
    {"ReportAndFail", "ReportAndWarn", "ThresholdThenFail", "Escalate"}

DuplicatePolicies == {"Reject", "IdempotentIgnore", "KeepDistinct"}

ChallengePolicies == {"Disabled", "AllowOneRound", "AllowBoundedRounds"}

PredicateKinds ==
    {"ExactTargetGenerationMatch", "TargetDigestMatch", "RequiredEvidencePresent",
     "EvidenceIntegrityVerified", "EvidenceProvenanceKnown", "RequiredRolePresent",
     "MinimumIndependentCriticIdentities", "RequiredVerifierPass",
     "NoCriticalFailFindings", "CriticGenerationCurrent", "WorkerBootCurrent",
     "CoordinatorEpochCurrent", "RequiredCategoriesCovered", "QuorumSatisfied",
     "ConfidenceNotAuthoritative"}

\* Severity, by rank: Info, Low, Medium, High, Critical.
Severities == 1 .. 5

MaxReviewRounds == 64    \* kHardMaxReviewRounds

NoEntries == [x \in {} |-> 0]

Mandatory(kind, parameter) ==
    [kind |-> kind, mandatory |-> TRUE, parameter |-> parameter]

\* default_review_spec
DefaultSpec ==
    [requiredRoles         |-> {"GeneralCritic"},
     rolesThatMustPass     |-> {},
     minCriticCount        |-> 1,
     requiredCriticCount   |-> 1,
     quorum                |-> 1,
     requiredMinCategories |-> NoEntries,
     requiredCategories    |-> {},
     maxCriticalFails      |-> 0,
     failThreshold         |-> 5,
     warnCountsAsFailure   |-> FALSE,
     unknownCountsAsFailure |-> FALSE,
     aggregation           |-> "AllRequiredPass",
     disagreement          |-> "ReportAndFail",
     disagreementThreshold |-> 1,
     duplicates            |-> "Reject",
     challenges            |-> "AllowOneRound",
     maxChallengeRounds    |-> 1,
     maxReviewRounds       |-> 3,
     weights               |-> NoEntries,
     defaultWeight         |-> 1,
     predicates            |->
        <<Mandatory("ExactTargetGenerationMatch", 0), Mandatory("TargetDigestMatch", 0),
          Mandatory("RequiredEvidencePresent", 1), Mandatory("EvidenceIntegrityVerified", 0),
          Mandatory("EvidenceProvenanceKnown", 0), Mandatory("RequiredRolePresent", 0),
          Mandatory("MinimumIndependentCriticIdentities", 1),
          Mandatory("RequiredVerifierPass", 0), Mandatory("NoCriticalFailFindings", 0),
          Mandatory("CriticGenerationCurrent", 0), Mandatory("WorkerBootCurrent", 0),
          Mandatory("CoordinatorEpochCurrent", 0), Mandatory("RequiredCategoriesCovered", 0),
          Mandatory("QuorumSatisfied", 0), Mandatory("ConfidenceNotAuthoritative", 0)>>,
     policyTable           |-> <<>>,
     consensusBasisPoints  |-> 6700]

\* The bounds on challenge rounds each challenge policy accepts.
RoundsAllowed(policy) ==
    CASE policy = "Disabled"      -> {0}
      [] policy = "AllowOneRound" -> {1}
      [] OTHER                    -> Nat \ {0}

\* PolicyTableRow
PolicyRow ==
    [outcome : Outcomes, minSeverity : Severities, maxSeverity : Severities,
     minCount : Nat \ {0}, disposition : Dispositions]

\* validate_review_spec, part by part, with the types the decoder has already
\* checked.
ValidCounts(spec) ==
    /\ spec.minCriticCount \in Nat \ {0}
    /\ spec.requiredCriticCount \in 0 .. spec.minCriticCount
    /\ spec.quorum \in 0 .. spec.minCriticCount
    /\ spec.requiredCriticCount > 0 =>
         \/ spec.requiredRoles # {}
         \/ spec.requiredCategories # {}
         \/ DOMAIN spec.requiredMinCategories # {}

ValidRounds(spec) ==
    /\ spec.maxReviewRounds \in 1 .. MaxReviewRounds
    /\ spec.challenges \in ChallengePolicies
    /\ spec.maxChallengeRounds \in RoundsAllowed(spec.challenges)

ValidAggregation(spec) ==
    /\ spec.consensusBasisPoints \in 0 .. 10000
    /\ spec.aggregation \in AggregationPolicies
    /\ spec.aggregation = "ConsensusThreshold" => spec.consensusBasisPoints # 0
    /\ spec.aggregation = "PolicyTable" => spec.policyTable # <<>>
    /\ spec.disagreement \in DisagreementPolicies
    /\ spec.disagreementThreshold \in Nat
    /\ spec.duplicates \in DuplicatePolicies

ValidWeights(spec) ==
    /\ spec.defaultWeight \in Nat \ {0}
    /\ \A c \in DOMAIN spec.weights : spec.weights[c] \in Nat \ {0}

ValidPredicates(spec) ==
    /\ Len(spec.predicates) <= 64
    /\ \A i \in DOMAIN spec.predicates : spec.predicates[i].kind \in PredicateKinds

ValidTable(spec) ==
    /\ spec.policyTable \in Seq(PolicyRow)
    /\ \A i \in DOMAIN spec.policyTable :
         spec.policyTable[i].minSeverity <= spec.policyTable[i].maxSeverity

ValidSpec(spec) ==
    /\ ValidCounts(spec)
    /\ ValidRounds(spec)
    /\ ValidAggregation(spec)
    /\ ValidWeights(spec)
    /\ ValidPredicates(spec)
    /\ ValidTable(spec)

\* weight_of: validated tables hold no zero.
WeightOf(spec, critic) ==
    IF critic \in DOMAIN spec.weights THEN spec.weights[critic] ELSE spec.defaultWeight

=============================================================================
