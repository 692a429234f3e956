---------------------------- MODULE MCEvaluation ----------------------------
(***************************************************************************)
(* An instance of Verdicts for TLC: three critics under specifications     *)
(* that use every aggregation and every disagreement policy.               *)
(***************************************************************************)
EXTENDS Verdicts

MCCritics == {"c1", "c2", "c3"}

\* c1 and c2 hold the two roles most specifications require, c3 is extra.
MCRoleOf == [c1 |-> "GeneralCritic", c2 |-> "FactChecker", c3 |-> "LogicCritic"]

MCMortal == {"c1", "c3"}

\* Quorum, roles and critics count; evidence and challenges do not.
Lenient ==
    [DefaultSpec EXCEPT
        !.requiredRoles = {"GeneralCritic", "FactChecker"},
        !.requiredCriticCount = 2, !.minCriticCount = 2, !.quorum = 2,
        !.weights = [c1 |-> 2], !.consensusBasisPoints = 6000,
        !.disagreement = "ThresholdThenFail", !.disagreementThreshold = 2,
        !.predicates = <<Mandatory("CoordinatorEpochCurrent", 0)>>]

Strict ==
    [Lenient EXCEPT !.predicates = DefaultSpec.predicates, !.disagreement = "ReportAndFail",
                    !.rolesThatMustPass = {"FactChecker"}, !.maxCriticalFails = 1]

Table ==
    <<[outcome |-> "Fail", minSeverity |-> 3, maxSeverity |-> 5, minCount |-> 1,
       disposition |-> "Fail"],
      [outcome |-> "Pass", minSeverity |-> 1, maxSeverity |-> 5, minCount |-> 2,
       disposition |-> "Pass"]>>

\* One critic decides, the dissent of another is tolerated, and the specification
\* counts findings by category.
Single ==
    [Lenient EXCEPT !.requiredRoles = {}, !.requiredCriticCount = 0, !.minCriticCount = 1,
                    !.quorum = 1, !.aggregation = "QuorumPass"]

MCPolicies ==
    {[Lenient EXCEPT !.aggregation = p] : p \in AggregationPolicies \ {"PolicyTable"}}
    \cup {[Lenient EXCEPT !.aggregation = "PolicyTable", !.policyTable = Table]}
    \cup {[Lenient EXCEPT !.disagreement = d] : d \in DisagreementPolicies}
    \cup {[Lenient EXCEPT !.requiredRoles = {"GeneralCritic"}, !.requiredCriticCount = 1]}
    \cup {Strict, [Strict EXCEPT !.unknownCountsAsFailure = TRUE,
                                 !.requiredCategories = {"General"},
                                 !.aggregation = "MajorityWithConstraints"]}
    \cup {Single, [Single EXCEPT !.requiredMinCategories = [General |-> 2],
                                 !.predicates = <<Mandatory("RequiredCategoriesCovered", 0)>>]}

Say(c, o, s, e) == [critic |-> c, outcome |-> o, severity |-> s, evidence |-> <<e>>]

\* Every outcome, both sides of the failure threshold, a critic that can
\* contradict itself, and evidence nobody verified.
MCFindingChoices ==
    {Say(c, o, 1, 1) : c \in MCCritics, o \in {"Pass", "Fail"}}
    \cup {Say("c1", "Pass", 1, 2), Say("c2", "Fail", 5, 1), Say("c2", "Unknown", 1, 1),
          Say("c3", "Warn", 1, 1)}

=============================================================================
