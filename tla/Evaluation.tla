----------------------------- MODULE Evaluation -----------------------------
(***************************************************************************)
(* evaluate_review (src/evaluation.cpp): the pure function that turns the  *)
(* durable state of one review and a detached view of live authority into  *)
(* a disposition.  An input `in' is a record                               *)
(*                                                                         *)
(*   spec         the review specification (see Policy)                    *)
(*   review       [state, targetGeneration, digest, authorityCurrent]      *)
(*   assignments  [critic, ordinal, criticGeneration, worker, boot, role,  *)
(*                 required, weight, active]; ordinal orders the           *)
(*                 assignments of one critic                               *)
(*   findings     [id, critic, criticGeneration, worker, boot,             *)
(*                 targetGeneration, category, severity, outcome,          *)
(*                 evidence, state]; evidence is a sequence of ids         *)
(*   evidences    [id, verified, provenanceKnown]                          *)
(*   challenges   [resolved, outcome]                                      *)
(*   authority    [targetGeneration, digest, criticGeneration, incumbent]; *)
(*                the last two are partial functions of the critic.        *)
(*                                                                         *)
(* Severities are their ranks 1..5.  Explanation text, notes and digests   *)
(* are left out: they do not influence the disposition.                    *)
(***************************************************************************)
EXTENDS Policy, FiniteSets, FiniteSetsExt, Functions

-----------------------------------------------------------------------------
(* 1. Findings that count under current authority.                         *)

\* Mutant: any incarnation of the incumbent worker will do.
BoundToWorkerOnly(in, x) ==
    /\ x.critic \in DOMAIN in.authority.criticGeneration
    /\ in.authority.criticGeneration[x.critic] = x.criticGeneration
    /\ x.critic \in DOMAIN in.authority.incumbent
    /\ in.authority.incumbent[x.critic].worker = x.worker

BoundToAuthority(in, x) ==
    /\ x.critic \in DOMAIN in.authority.criticGeneration
    /\ in.authority.criticGeneration[x.critic] = x.criticGeneration
    /\ x.critic \in DOMAIN in.authority.incumbent
    /\ in.authority.incumbent[x.critic] = [worker |-> x.worker, boot |-> x.boot]

CountedFindings(in) ==
    {f \in in.findings :
        /\ f.targetGeneration = in.review.targetGeneration
        /\ f.state = "Current"
        /\ BoundToAuthority(in, f)}

-----------------------------------------------------------------------------
(* 2. One vote per logical critic.  The metadata comes from the critic's   *)
(* last assignment; a critic without one has an unassigned vote.           *)

AssignmentsOf(in, c) == {a \in in.assignments : a.critic = c}

LastAssignment(in, c) ==
    CHOOSE a \in AssignmentsOf(in, c) :
        \A b \in AssignmentsOf(in, c) : b.ordinal <= a.ordinal

Dominant(outcomes) ==
    IF {"Pass", "Fail"} \subseteq outcomes THEN "Unknown"    \* conflicted
    ELSE IF "Fail" \in outcomes THEN "Fail"
    ELSE IF "Warn" \in outcomes THEN "Warn"
    ELSE IF "Pass" \in outcomes THEN "Pass"
    ELSE "Unknown"

Assigned(in, c) == AssignmentsOf(in, c) # {} /\ LastAssignment(in, c).active

Votes(in, counted) ==
    LET Voters == {c \in {a.critic : a \in in.assignments} : Assigned(in, c)}
    IN  [c \in Voters |->
            [role     |-> LastAssignment(in, c).role,
             required |-> LastAssignment(in, c).required,
             weight   |-> LastAssignment(in, c).weight,
             dominant |-> Dominant({f.outcome : f \in {g \in counted : g.critic = c}})]]

-----------------------------------------------------------------------------
(* 3 - 5. What the predicates and the aggregation read.                    *)

Referenced(counted) == UNION {Range(f.evidence) : f \in counted}

\* Mutant: the denominator counts decisive findings.
DenominatorOfFindings(counted, decisive) ==
    Cardinality({f \in counted : f.outcome \in DecisiveOutcomes})

\* The quorum denominator counts critics, not findings.
Denominator(counted, decisive) == Cardinality(decisive)

\* disagreement.disagreeing_critic_count
Disagreeing(votes, decisive) ==
    LET With(o)  == Cardinality({c \in decisive : votes[c].dominant = o})
        sides    == {o \in DecisiveOutcomes : With(o) > 0}
        leaders  == {o \in sides : \A p \in sides : With(p) <= With(o)}
    IN  CASE Cardinality(sides) <= 1   -> 0
          [] Cardinality(leaders) > 1  -> Cardinality(decisive)
          [] OTHER -> Cardinality(decisive) - With(CHOOSE o \in leaders : TRUE)

\* What is read off the counted findings and the votes.
Tallied(in, counted, votes) ==
    LET decisive  == {c \in DOMAIN votes : votes[c].dominant \in DecisiveOutcomes}
        known     == {e \in in.evidences : e.id \in Referenced(counted)}
        covered   == {r \in in.spec.requiredRoles :
                         \E c \in decisive : votes[c].role = r}
        n         == Denominator(counted, decisive)
    IN  [counted      |-> counted,
         votes        |-> votes,
         decisive     |-> decisive,
         missing      |-> Referenced(counted) \ {e.id : e \in in.evidences},
         usable       |-> {e \in known : e.verified /\ e.provenanceKnown},
         unverified   |-> {e \in known : ~e.verified},
         unknownProvenance |-> {e \in known : ~e.provenanceKnown},
         uncovered    |-> in.spec.requiredRoles \ covered,
         quorumMet    |-> /\ n >= in.spec.quorum
                          /\ n >= in.spec.minCriticCount
                          /\ Cardinality(covered) >= in.spec.requiredCriticCount
                          /\ covered = in.spec.requiredRoles,
         criticalFails |-> Cardinality({f \in counted :
                              f.outcome = "Fail" /\ f.severity >= in.spec.failThreshold}),
         disagreeing  |-> Disagreeing(votes, decisive),
         unresolved   |-> {ch \in in.challenges :
                              ~ch.resolved \/ ch.outcome = "Unresolved"}]

Tally(in) ==
    LET counted == CountedFindings(in) IN Tallied(in, counted, Votes(in, counted))

-----------------------------------------------------------------------------
(* 6. Hard predicates, in declared order.                                  *)

OrDefault(parameter, default) == IF parameter # 0 THEN parameter ELSE default

ActiveAssignments(in) == {a \in in.assignments : a.active}

DecisiveIn(t, category) ==
    {f \in t.counted : f.category = category /\ f.outcome \in DecisiveOutcomes}

Satisfied(in, t, p) ==
    CASE p.kind = "ExactTargetGenerationMatch" ->
            /\ in.review.targetGeneration = in.authority.targetGeneration
            /\ \A f \in in.findings : f.targetGeneration = in.review.targetGeneration
      [] p.kind = "TargetDigestMatch" -> in.review.digest = in.authority.digest
      [] p.kind = "RequiredEvidencePresent" ->
            /\ Cardinality(t.usable) >= OrDefault(p.parameter, 1)
            /\ t.missing = {}
      [] p.kind = "EvidenceIntegrityVerified" -> t.unverified = {} /\ t.missing = {}
      [] p.kind = "EvidenceProvenanceKnown" -> t.unknownProvenance = {} /\ t.missing = {}
      [] p.kind = "RequiredRolePresent" -> t.uncovered = {}
      [] p.kind = "MinimumIndependentCriticIdentities" ->
            Cardinality(t.decisive) >= OrDefault(p.parameter, in.spec.minCriticCount)
      [] p.kind = "RequiredVerifierPass" ->
            \A r \in in.spec.rolesThatMustPass :
                /\ \E c \in t.decisive : t.votes[c].role = r
                /\ \A c \in t.decisive : t.votes[c].role = r => t.votes[c].dominant # "Fail"
      [] p.kind = "NoCriticalFailFindings" ->
            t.criticalFails <= OrDefault(p.parameter, in.spec.maxCriticalFails)
      [] p.kind = "CriticGenerationCurrent" ->
            \A a \in ActiveAssignments(in) :
                /\ a.critic \in DOMAIN in.authority.criticGeneration
                /\ in.authority.criticGeneration[a.critic] = a.criticGeneration
      [] p.kind = "WorkerBootCurrent" ->
            \A a \in ActiveAssignments(in) :
                /\ a.critic \in DOMAIN in.authority.incumbent
                /\ in.authority.incumbent[a.critic] = [worker |-> a.worker, boot |-> a.boot]
      [] p.kind = "CoordinatorEpochCurrent" -> in.review.authorityCurrent
      [] p.kind = "RequiredCategoriesCovered" ->
            /\ \A k \in DOMAIN in.spec.requiredMinCategories :
                Cardinality(DecisiveIn(t, k)) >= in.spec.requiredMinCategories[k]
            /\ \A k \in in.spec.requiredCategories : DecisiveIn(t, k) # {}
      [] p.kind = "QuorumSatisfied" -> t.quorumMet
      [] OTHER -> TRUE     \* ConfidenceNotAuthoritative: validated specs never grant it

\* The disposition a failed mandatory predicate forces (its ErrorCode, mapped
\* by the switch on primary_rejection).
HardDisposition(kind) ==
    CASE kind \in {"ExactTargetGenerationMatch", "TargetDigestMatch",
                   "CriticGenerationCurrent", "WorkerBootCurrent",
                   "CoordinatorEpochCurrent"}      -> "RevalidationRequired"
      [] kind \in {"RequiredEvidencePresent", "EvidenceIntegrityVerified",
                   "EvidenceProvenanceKnown",
                   "RequiredCategoriesCovered"}    -> "InsufficientEvidence"
      [] kind \in {"RequiredRolePresent", "MinimumIndependentCriticIdentities",
                   "QuorumSatisfied"}              -> "QuorumNotReached"
      [] kind = "RequiredVerifierPass"             -> "RequiredCriticFailed"
      [] OTHER                                     -> "Fail"

\* Positions of the mandatory predicates that fail.
FailedMandatory(in, t) ==
    {i \in DOMAIN in.spec.predicates :
        /\ in.spec.predicates[i].mandatory
        /\ ~Satisfied(in, t, in.spec.predicates[i])}

HardInvalid(in, t) == FailedMandatory(in, t) # {} \/ ~in.review.authorityCurrent

Rejected(in, t) ==
    LET failed == FailedMandatory(in, t)
        first  == CHOOSE i \in failed : \A j \in failed : i <= j
    IN  IF failed = {} THEN "RevalidationRequired"
                       ELSE HardDisposition(in.spec.predicates[first].kind)

-----------------------------------------------------------------------------
(* 8. The aggregation policies, over the decisive votes.                   *)

VotesFor(t, o) == {c \in t.decisive : t.votes[c].dominant = o}

WeightFor(t, o) ==
    LET Weight(c) == t.votes[c].weight IN MapThenSumSet(Weight, VotesFor(t, o))

FailOrWarn(in) == IF in.spec.warnCountsAsFailure THEN "Fail" ELSE "Warn"

PassUnlessWarned(t) == IF VotesFor(t, "Warn") # {} THEN "Warn" ELSE "Pass"

AllRequiredPass(in, t) ==
    IF ~t.quorumMet THEN "QuorumNotReached"
    ELSE IF VotesFor(t, "Fail") # {} THEN "Fail"
    ELSE IF VotesFor(t, "Warn") # {} THEN FailOrWarn(in)
    ELSE IF \A c \in t.decisive : t.votes[c].required => t.votes[c].dominant = "Pass" THEN "Pass"
    ELSE "InsufficientEvidence"

AnyCriticalFail(in, t) ==
    IF ~t.quorumMet THEN "QuorumNotReached"
    ELSE IF VotesFor(t, "Fail") # {} THEN "Fail"
    ELSE IF VotesFor(t, "Warn") # {} THEN FailOrWarn(in)
    ELSE "Pass"

QuorumPass(in, t) ==
    IF Cardinality(VotesFor(t, "Pass")) >= in.spec.quorum THEN "Pass"
    ELSE IF Cardinality(VotesFor(t, "Fail")) >= in.spec.quorum THEN "Fail"
    ELSE "QuorumNotReached"

WeightedReview(in, t) ==
    LET pass == WeightFor(t, "Pass")
        fail == WeightFor(t, "Fail")
        warn == WeightFor(t, "Warn")
    IN  IF ~t.quorumMet THEN "QuorumNotReached"
        ELSE IF fail > pass THEN "Fail"
        ELSE IF pass > fail + warn THEN "Pass"
        ELSE IF pass = fail /\ fail > 0 THEN "Tie"
        ELSE "Warn"

RequiredRolePass(in, t) ==
    IF \E c \in VotesFor(t, "Fail") : t.votes[c].role \in in.spec.requiredRoles THEN "Fail"
    ELSE IF ~t.quorumMet THEN "QuorumNotReached"
    ELSE IF \A r \in in.spec.requiredRoles :
            \E c \in VotesFor(t, "Pass") : t.votes[c].role = r THEN PassUnlessWarned(t)
    ELSE "InsufficientEvidence"

\* Mutant: a majority is enough, whoever is missing.
MajorityUnconstrained(in, t) ==
    IF Cardinality(VotesFor(t, "Pass")) * 2 > Cardinality(t.decisive) THEN PassUnlessWarned(t)
    ELSE IF Cardinality(VotesFor(t, "Fail")) * 2 > Cardinality(t.decisive) THEN "Fail"
    ELSE "Tie"

MajorityWithConstraints(in, t) ==
    IF ~t.quorumMet THEN "QuorumNotReached"
    ELSE IF Cardinality(VotesFor(t, "Pass")) * 2 > Cardinality(t.decisive) THEN PassUnlessWarned(t)
    ELSE IF Cardinality(VotesFor(t, "Fail")) * 2 > Cardinality(t.decisive) THEN "Fail"
    ELSE "Tie"

\* The threshold is rounded up to whole critics.
ConsensusThreshold(in, t) ==
    LET scaled == Cardinality(t.decisive) * in.spec.consensusBasisPoints
        needed == (scaled \div 10000) + (IF scaled % 10000 # 0 THEN 1 ELSE 0)
        Reaches(o) == Cardinality(VotesFor(t, o)) >= needed /\ VotesFor(t, o) # {}
    IN  IF Reaches("Pass") THEN PassUnlessWarned(t)
        ELSE IF Reaches("Fail") THEN "Fail"
        ELSE "Disagreement"

\* A row looks at the counted findings of its outcome: how many there are and
\* the worst severity among them.
Matches(t, row) ==
    LET said  == {f \in t.counted : f.outcome = row.outcome}
        worst == IF said = {} THEN 1 ELSE Max({f.severity : f \in said})
    IN  Cardinality(said) >= row.minCount /\ worst \in row.minSeverity .. row.maxSeverity

MatchingRows(in, t) ==
    {i \in DOMAIN in.spec.policyTable : Matches(t, in.spec.policyTable[i])}

\* The first matching row wins.
PolicyTable(in, t) ==
    IF MatchingRows(in, t) = {} THEN "InsufficientEvidence"
    ELSE in.spec.policyTable[Min(MatchingRows(in, t))].disposition

Aggregated(in, t) ==
    IF t.decisive = {} THEN "InsufficientEvidence"
    ELSE IF HardInvalid(in, t) THEN Rejected(in, t)
    ELSE IF in.spec.aggregation = "PolicyTable" THEN PolicyTable(in, t)
    ELSE IF t.criticalFails > in.spec.maxCriticalFails THEN "Fail"
    ELSE IF in.spec.aggregation = "AllRequiredPass" THEN AllRequiredPass(in, t)
    ELSE IF in.spec.aggregation = "AnyCriticalFail" THEN AnyCriticalFail(in, t)
    ELSE IF in.spec.aggregation = "QuorumPass" THEN QuorumPass(in, t)
    ELSE IF in.spec.aggregation = "WeightedReview" THEN WeightedReview(in, t)
    ELSE IF in.spec.aggregation = "RequiredRolePass" THEN RequiredRolePass(in, t)
    ELSE IF in.spec.aggregation = "MajorityWithConstraints" THEN MajorityWithConstraints(in, t)
    ELSE ConsensusThreshold(in, t)

-----------------------------------------------------------------------------
(* 9. Disagreement, open challenges and UNKNOWN on top of the aggregate.   *)

\* Mutant: only inconclusive aggregates are re-expressed.
UnderDisagreementUnlessPass(in, t, d) ==
    IF t.disagreeing = 0 \/ d \notin {"QuorumNotReached", "Tie", "InsufficientEvidence", "Warn"}
    THEN d
    ELSE IF in.spec.disagreement = "ReportAndWarn" THEN "Warn" ELSE "Disagreement"

UnderDisagreementPolicy(in, t, d) ==
    IF \/ t.disagreeing = 0
       \/ d \notin {"Pass", "QuorumNotReached", "Tie", "InsufficientEvidence", "Warn"}
    THEN d
    ELSE CASE in.spec.disagreement = "ReportAndWarn" -> "Warn"
           [] /\ in.spec.disagreement = "ThresholdThenFail"
              /\ t.disagreeing < in.spec.disagreementThreshold -> d
           [] OTHER -> "Disagreement"

\* Mutant: open challenges do not block a PASS.
SettledDespiteChallenges(in, t, d) ==
    IF d = "Pass" /\ HardInvalid(in, t) THEN "Fail" ELSE d

Settled(in, t, d) ==
    IF d # "Pass" THEN d
    ELSE IF t.unresolved # {} THEN "Disagreement"
    ELSE IF /\ in.spec.unknownCountsAsFailure
            /\ \E f \in t.counted : f.outcome = "Unknown" THEN "Fail"
    ELSE IF HardInvalid(in, t) THEN "Fail"
    ELSE "Pass"

Evaluate(in) ==
    LET t == Tally(in)
    IN  IF in.review.state \in {"Cancelled", "Superseded", "RevalidationRequired"}
        THEN in.review.state
        ELSE Settled(in, t, UnderDisagreementPolicy(in, t, Aggregated(in, t)))

=============================================================================
