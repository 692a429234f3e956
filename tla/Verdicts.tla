------------------------------- MODULE Verdicts -------------------------------
(***************************************************************************)
(* evaluate_review, driven through the inputs the coordinator can give it: *)
(* a review whose critics are all seated receives findings in any order,   *)
(* a critic's process is replaced, a challenge is opened and answered.     *)
(* Every state is one input of the pure function; the properties say what  *)
(* its dispositions promise, and relate those of neighbouring inputs.      *)
(*                                                                         *)
(* The driver models no code of its own: its steps change an input the way *)
(* the calls of the coordinator of the same names do.                      *)
(***************************************************************************)
EXTENDS Evaluation

CONSTANTS Critics,
          RoleOf,         \* the role each critic is seated in
          Mortal,         \* the critics whose process may be replaced
          Policies,       \* the specifications to evaluate under
          FindingChoices, \* [critic, outcome, severity, evidence] a critic can publish
          MaxFindings     \* bound: findings published

\* declare_review refuses a specification that is not valid.
ASSUME VerdictsAssumption ==
    /\ IsFiniteSet(Critics)
    /\ Mortal \subseteq Critics
    /\ \A spec \in Policies : ValidSpec(spec)
    /\ \A k \in FindingChoices : k.critic \in Critics /\ k.outcome \in Outcomes

VARIABLES policy,      \* the specification of the review
          findings,
          challenges,
          boot           \* the boot of each critic's incumbent

vars == <<policy, findings, challenges, boot>>

-----------------------------------------------------------------------------
(* The input.                                                              *)

Worker(c) == [worker |-> c, boot |-> boot[c]]

\* The seat of critic c follows its incumbent.
Seat(c) ==
    [critic |-> c, ordinal |-> 1, criticGeneration |-> 1, worker |-> c, boot |-> boot[c],
     role |-> RoleOf[c], required |-> RoleOf[c] \in policy.requiredRoles,
     weight |-> WeightOf(policy, c), active |-> TRUE]

\* The input with the findings fs.
InputWith(fs) ==
    [spec        |-> policy,
     review      |-> [state |-> "Assigned", target |-> "t", targetGeneration |-> 1,
                      digest |-> "d", authorityCurrent |-> TRUE],
     assignments |-> {Seat(c) : c \in Critics},
     findings    |-> fs,
     evidences   |-> {[id |-> 1, verified |-> TRUE, provenanceKnown |-> TRUE],
                      [id |-> 2, verified |-> FALSE, provenanceKnown |-> TRUE]},
     challenges  |-> challenges,
     authority   |-> [targetGeneration |-> 1, digest |-> "d",
                      criticGeneration |-> [c \in Critics |-> 1],
                      incumbent |-> [c \in Critics |-> Worker(c)]]]

Input == InputWith(findings)

-----------------------------------------------------------------------------
(* Steps.                                                                  *)

Copies(k) == {f \in findings : f.id[1] = k}

\* The finding choice k, said once more by the incumbent.
Published(k) ==
    [id |-> <<k, Cardinality(Copies(k)) + 1>>, critic |-> k.critic, criticGeneration |-> 1,
     worker |-> k.critic, boot |-> boot[k.critic], targetGeneration |-> 1,
     category |-> "General", severity |-> k.severity, outcome |-> k.outcome,
     evidence |-> k.evidence, state |-> "Current"]

Publish(k) ==
    /\ Cardinality(findings) < MaxFindings
    /\ findings' = findings \cup {Published(k)}
    /\ UNCHANGED <<policy, challenges, boot>>

\* A new incarnation of critic c becomes its incumbent.
Reincarnate(c) ==
    /\ boot[c] = "old"
    /\ boot' = [boot EXCEPT ![c] = "new"]
    /\ UNCHANGED <<policy, findings, challenges>>

Challenge ==
    /\ challenges = {} /\ findings # {}
    /\ challenges' = {[resolved |-> FALSE, outcome |-> "Unresolved"]}
    /\ UNCHANGED <<policy, findings, boot>>

Answer(outcome) ==
    /\ \E ch \in challenges : ~ch.resolved
    /\ challenges' = {[resolved |-> TRUE, outcome |-> outcome]}
    /\ UNCHANGED <<policy, findings, boot>>

Init ==
    /\ policy \in Policies
    /\ findings = {}
    /\ challenges = {}
    /\ boot = [c \in Critics |-> "old"]

Next ==
    \/ \E k \in FindingChoices : Publish(k)
    \/ \E c \in Mortal : Reincarnate(c)
    \/ Challenge
    \/ \E outcome \in {"Unresolved", "Upheld"} : Answer(outcome)

Spec == Init /\ [][Next]_vars

-----------------------------------------------------------------------------
(* Properties.                                                             *)

\* f was said by the process that is current now.
Live(f) == boot[f.critic] = f.boot

Said(c) == {f.outcome : f \in {g \in findings : g.critic = c /\ Live(g)}}

\* Critics that said exactly the outcome o through their current process.
Unanimous(o) == {c \in Critics : Said(c) = {o}}

\* README "Quorum semantics" and "Challenge and rebuttal": a PASS rests on a
\* decisive finding of a process that is current now, meets every mandatory
\* predicate and hides no open challenge.
PassIsEarned ==
    Evaluate(Input) = "Pass" =>
        /\ \E f \in findings : Live(f) /\ f.outcome \in DecisiveOutcomes
        /\ \A ch \in challenges : ch.resolved /\ ch.outcome # "Unresolved"
        /\ \A i \in DOMAIN policy.predicates :
              policy.predicates[i].mandatory =>
                  Satisfied(Input, Tally(Input), policy.predicates[i])

\* The critics that are of one mind, and not of the mind o.
Dissenters(o) == (UNION {Unanimous(p) : p \in DecisiveOutcomes}) \ Unanimous(o)

\* README "Disagreement": critics that contradict each other never add up to
\* a PASS, unless the specification tolerates as many dissenters as there are,
\* seen from one of the camps.
DisagreementNeverPasses ==
    /\ Unanimous("Pass") # {}
    /\ Unanimous("Fail") # {}
    /\ Evaluate(Input) = "Pass"
    => /\ policy.disagreement = "ThresholdThenFail"
       /\ \E o \in DecisiveOutcomes : Cardinality(Dissenters(o)) < policy.disagreementThreshold

\* The specification counts findings, and not only critics.
CountsFindings ==
    policy.aggregation = "PolicyTable" \/ DOMAIN policy.requiredMinCategories # {}

\* README "Quorum semantics": one logical critic contributes one vote however
\* often it repeats itself.  Repetitions count only where the specification
\* counts findings (policy table rows, category minimums, critical fails).
EchoesCarryNoWeight ==
    [][\A k \in FindingChoices :
          /\ Publish(k)
          /\ k.outcome # "Fail"
          /\ ~CountsFindings
          /\ \E f \in Copies(k) : Live(f)
          => Evaluate(Input') = Evaluate(Input)]_vars

\* README "Incumbency versus liveness": what a replaced process said does not
\* count.  After a replacement the disposition is the one the review would
\* have had without the findings of the old process.
ReplacedProcessIsForgotten ==
    \A c \in Critics : boot[c] = "new" =>
        Evaluate(Input) =
        Evaluate(InputWith({f \in findings : f.critic = c => f.boot = "new"}))

\* README "Critic model": "required roles must each produce a decisive finding
\* before a PASS-class disposition is possible".  The aggregation policies that
\* only count (QUORUM_PASS, CONSENSUS_THRESHOLD, POLICY_TABLE) do not keep this;
\* every other one does, also where no predicate names the roles.
RolesBypassedOnlyByCounting ==
    /\ Evaluate(Input) = "Pass"
    /\ policy.aggregation \notin {"QuorumPass", "ConsensusThreshold", "PolicyTable"}
    => \A r \in policy.requiredRoles :
          \E f \in findings :
              Live(f) /\ RoleOf[f.critic] = r /\ f.outcome \in DecisiveOutcomes

=============================================================================
