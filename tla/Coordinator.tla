----------------------------- MODULE Coordinator -----------------------------
(***************************************************************************)
(* The review coordinator of Critic Fabric (src/coordinator.cpp): who may  *)
(* speak for a critic, which reviews are open, what their critics said,    *)
(* and when a review becomes an authoritative decision.                    *)
(*                                                                         *)
(* Every mutating call of the coordinator runs under commit_mutex_, so one *)
(* call is one action.  A call that the code refuses changes nothing and   *)
(* has no action.  The maps of the code (targets_, critics_, workers_,     *)
(* incumbents_, reviews_) are functions whose DOMAIN is the set of known   *)
(* identities.  Simplifications:                                           *)
(*                                                                         *)
(*  - A review is named by its ReviewRequestId (review_requests_ is one to *)
(*    one).  Its generation is 1 for ever, and the copies of the review's  *)
(*    immutable bindings in a message are left out: they must equal the    *)
(*    review's own.  Finding and challenge generations are determined by   *)
(*    the identity they accompany and are left out too.                    *)
(*  - An assignment is (critic, ordinal): ordinals grow like the           *)
(*    allocated identities.  Findings, evidence and challenges are         *)
(*    numbered 1, 2, ... per review.                                       *)
(*  - Payloads, provenance text, confidence and size limits on strings   *)
(*    are left out.  A digest is the content it is computed from.          *)
(*  - authoritative is ready /\ healthy, which is how the code sets it.    *)
(***************************************************************************)
EXTENDS Evaluation

CONSTANTS
    Targets, Contents,          \* contents: [class, payload, reviewable]
    Critics, Capabilities,      \* [roles, classes, categories, evidence]
    Workers, Boots,
    Requests,                   \* review request identities
    Policies,                   \* validated review specifications
    Terms,                      \* terms of an assignment: [role, required]
    FindingInputs,              \* [category, severity, outcome, evidence, explanation]
    EvidenceInputs,             \* [verified, provenanceKnown]
    Limits,                     \* RuntimeLimits, see LimitsAssumption
    MaxEpoch, MaxTargetGeneration, MaxCriticGeneration, MaxBootOrder,
    MaxAssignments              \* bound: assignments per critic and review

LimitNames ==
    {"retainedTargets", "workerConnections", "concurrentReviews",
     "retainedReviews", "criticsPerReview", "findingsPerReview",
     "evidencePerReview", "evidencePerFinding", "challengesPerReview"}

\* RuntimeLimits::clamp_to_hard_ceiling: no limit is zero.
ASSUME LimitsAssumption == Limits \in [LimitNames -> Nat \ {0}]

\* declare_review refuses a specification that is not valid.
ASSUME PoliciesAssumption == \A spec \in Policies : ValidSpec(spec)

ASSUME BoundsAssumption ==
    {MaxEpoch, MaxTargetGeneration, MaxCriticGeneration, MaxBootOrder,
     MaxAssignments} \subseteq Nat \ {0}

\* A finding cites evidence by identity, in a list.
ASSUME InputsAssumption ==
    /\ \A input \in FindingInputs : input.evidence \in Seq(Nat \ {0})
    /\ \A input \in EvidenceInputs : {input.verified, input.provenanceKnown} \subseteq BOOLEAN

VARIABLES
    epoch,          \* epoch_
    targets,        \* targets_: [generation, content]
    critics,        \* critics_: [generation, capability]
    workers,        \* workers_: [boot, critic, criticGeneration, ready, healthy, bootOrder]
    incumbents,     \* incumbents_: the worker that speaks for a critic
    nextBootOrder,  \* next_boot_order_
    reviews         \* reviews_: ReviewSlot, see Review

registry == <<targets, critics, workers, incumbents, nextBootOrder>>
vars == <<epoch, targets, critics, workers, incumbents, nextBootOrder, reviews>>

-----------------------------------------------------------------------------
(* Types.                                                                  *)

Epochs            == 1 .. MaxEpoch
TargetGenerations == 1 .. MaxTargetGeneration
CriticGenerations == 1 .. MaxCriticGeneration
BootOrders        == 1 .. MaxBootOrder
Ids               == Nat \ {0}
Digests           == {[class |-> k.class, payload |-> k.payload] : k \in Contents}

Target == [generation : TargetGenerations, content : Contents]
Critic == [generation : CriticGenerations, capability : Capabilities]
Worker == [boot : Boots, critic : Critics, criticGeneration : CriticGenerations,
           ready : BOOLEAN, healthy : BOOLEAN, bootOrder : BootOrders]

Assignment ==
    [critic : Critics, ordinal : 1 .. MaxAssignments,
     criticGeneration : CriticGenerations, worker : Workers, boot : Boots,
     role : {k.role : k \in Terms}, required : BOOLEAN, weight : Nat, active : BOOLEAN]

\* evidence is the list the record holds, cited the one its digest covers.
Finding ==
    [id : Ids, critic : Critics, criticGeneration : CriticGenerations,
     assignment : 1 .. MaxAssignments, worker : Workers, boot : Boots,
     targetGeneration : TargetGenerations,
     category : {i.category : i \in FindingInputs},
     severity : {i.severity : i \in FindingInputs},
     outcome : {i.outcome : i \in FindingInputs},
     evidence : Seq(Ids), cited : Seq(Ids),
     explanation : {i.explanation : i \in FindingInputs}, state : FindingStates]

\* finding is the finding it is bound to, or NoId.
Evidence ==
    [id : Ids, critic : Critics, criticGeneration : CriticGenerations,
     finding : Nat, verified : BOOLEAN, provenanceKnown : BOOLEAN]

Challenge ==
    [id : Ids, finding : Ids, challenger : Critics, resolved : BOOLEAN,
     outcome : ChallengeOutcomes]

Decision == [disposition : Dispositions,
             findings : SUBSET (Ids \X FindingStates), evidences : SUBSET Ids]
NoDecision == [disposition |-> "None", findings |-> {}, evidences |-> {}]

Review ==
    [spec : Policies, state : ReviewStates, disposition : Dispositions,
     target : Targets, targetGeneration : TargetGenerations, digest : Digests,
     authorityCurrent : BOOLEAN, roundsUsed : Nat,
     assignments : SUBSET Assignment, findings : SUBSET Finding,
     evidences : SUBSET Evidence, challenges : SUBSET Challenge,
     decision : Decision]

\* A map with keys in K and values in V.
IsMap(f, K, V) ==
    /\ f = [k \in DOMAIN f |-> f[k]]
    /\ DOMAIN f \subseteq K
    /\ \A k \in DOMAIN f : f[k] \in V

Put(f, k, v) == [x \in DOMAIN f \cup {k} |-> IF x = k THEN v ELSE f[x]]

-----------------------------------------------------------------------------
(* Authority.                                                              *)

Digest(content) == [class |-> content.class, payload |-> content.payload]

Authoritative(w) == workers[w].ready /\ workers[w].healthy

TargetCurrent(rev) == targets[rev.target].generation = rev.targetGeneration

\* Mutant: a registered worker will do, whoever has replaced it since.
BoundWithoutIncumbency(x) ==
    /\ x.critic \in DOMAIN critics
    /\ critics[x.critic].generation = x.criticGeneration
    /\ x.worker \in DOMAIN workers
    /\ workers[x.worker].boot = x.boot
    /\ workers[x.worker].critic = x.critic
    /\ workers[x.worker].criticGeneration = x.criticGeneration

\* x names a critic, its generation, a worker and that worker's boot: all are
\* current, and the worker is the incumbent of the critic.
BindingCurrent(x) ==
    /\ x.critic \in DOMAIN critics
    /\ critics[x.critic].generation = x.criticGeneration
    /\ x.worker \in DOMAIN workers
    /\ workers[x.worker].boot = x.boot
    /\ workers[x.worker].critic = x.critic
    /\ workers[x.worker].criticGeneration = x.criticGeneration
    /\ x.critic \in DOMAIN incumbents
    /\ incumbents[x.critic] = x.worker

ActiveOf(rev, c) == {a \in rev.assignments : a.critic = c /\ a.active}

\* find_active_assignment_locked: the first in identity order.
ActiveAssignment(rev, c) ==
    CHOOSE a \in ActiveOf(rev, c) :
        \A b \in ActiveOf(rev, c) : a.ordinal <= b.ordinal

\* The authority context of a critic's message (AuthorityContext).
Messages ==
    [epoch : Epochs, review : Requests, critic : Critics,
     criticGeneration : CriticGenerations, worker : Workers, boot : Boots]

\* check_authority_locked
CheckAuthority(m) ==
    /\ m.epoch = epoch
    /\ m.review \in DOMAIN reviews
    /\ reviews[m.review].state \in AcceptsCriticInput
    /\ TargetCurrent(reviews[m.review])
    /\ BindingCurrent(m)
    /\ Authoritative(m.worker)
    /\ ActiveOf(reviews[m.review], m.critic) # {}
    /\ LET a == ActiveAssignment(reviews[m.review], m.critic) IN
         /\ a.worker = m.worker
         /\ a.boot = m.boot
         /\ a.criticGeneration = m.criticGeneration

-----------------------------------------------------------------------------
(* What withdrawing authority does to the reviews.                         *)

\* revalidate_review_locked
Revalidate(rev) ==
    IF rev.state \in TerminalStates THEN rev
    ELSE [rev EXCEPT !.state = "RevalidationRequired",
                     !.disposition = "RevalidationRequired",
                     !.authorityCurrent = FALSE]

\* Mutants: the review forgets to revalidate, or to deactivate.
RetireQuietly(rev, retired) ==
    [rev EXCEPT !.assignments =
        {IF a \in retired THEN [a EXCEPT !.active = FALSE] ELSE a : a \in @}]

RetireInPlace(rev, retired) == IF retired = {} THEN rev ELSE Revalidate(rev)

\* Deactivate assignments; a review that loses one must be revalidated.
Retire(rev, retired) ==
    IF retired = {} THEN rev
    ELSE Revalidate([rev EXCEPT !.assignments =
            {IF a \in retired THEN [a EXCEPT !.active = FALSE] ELSE a : a \in @}])

\* assignment_is_discharged
Discharged(rev, a) ==
    \E f \in rev.findings :
        /\ f.critic = a.critic
        /\ f.assignment = a.ordinal
        /\ f.state \in CurrentFindingStates

\* The workers of ws a fence acts on; for the others it returns early.
Fenceable(ws) == {w \in ws \cap DOMAIN workers : workers[w].ready \/ workers[w].healthy}

\* The assignments fence_worker_locked retires when it fences the workers ws.
Abandoned(rev, ws) ==
    {a \in rev.assignments :
        /\ a.active
        /\ \E w \in ws : a.worker = w /\ a.boot = workers[w].boot
        /\ ~Discharged(rev, a)}

\* The fenced records keep their boot order, so that the incumbency rule of
\* apply_entry_locked leaves incumbents_ alone when it sees them again.
Silenced(ws) ==
    [w \in DOMAIN workers |->
        IF w \in ws THEN [workers[w] EXCEPT !.ready = FALSE, !.healthy = FALSE]
                    ELSE workers[w]]

\* Mutants: challenged and upheld findings, or closed reviews, are passed over;
\* or a closed review is closed again.
SupersedeUncontested(rev) ==
    LET closed == [rev EXCEPT
            !.authorityCurrent = FALSE,
            !.findings = {IF f.state = "Current"
                          THEN [f EXCEPT !.state = "Invalidated"] ELSE f : f \in @}]
    IN  IF rev.state \in TerminalStates THEN closed
        ELSE [closed EXCEPT !.state = "Superseded", !.disposition = "Superseded"]

SupersedeOpen(rev) ==
    IF rev.state \in TerminalStates THEN rev
    ELSE [rev EXCEPT
            !.state = "Superseded", !.disposition = "Superseded", !.authorityCurrent = FALSE,
            !.findings = {IF f.state \in CurrentFindingStates
                          THEN [f EXCEPT !.state = "Invalidated"] ELSE f : f \in @}]

SupersedeClosed(rev) ==
    [rev EXCEPT
        !.state = "Superseded", !.disposition = "Superseded", !.authorityCurrent = FALSE,
        !.findings = {IF f.state \in CurrentFindingStates
                      THEN [f EXCEPT !.state = "Invalidated"] ELSE f : f \in @}]

\* supersede_reviews_for_target_locked, for one review of the old generation
Supersede(rev) ==
    LET closed == [rev EXCEPT
            !.authorityCurrent = FALSE,
            !.findings = {IF f.state \in CurrentFindingStates
                          THEN [f EXCEPT !.state = "Invalidated"] ELSE f : f \in @}]
    IN  IF rev.state \in TerminalStates THEN closed
        ELSE [closed EXCEPT !.state = "Superseded", !.disposition = "Superseded"]

-----------------------------------------------------------------------------
(* Targets.  supersede_target is register_target of a reviewable content.  *)

RegisterTarget(e, t, content) ==
    /\ e = epoch
    /\ t \notin DOMAIN targets
    /\ Cardinality(DOMAIN targets) < Limits.retainedTargets
    /\ targets' = Put(targets, t, [generation |-> 1, content |-> content])
    /\ UNCHANGED <<epoch, critics, workers, incumbents, nextBootOrder, reviews>>

\* register_target with changed content: the generation advances and every
\* review of the previous one is closed.
AdvanceTarget(e, t, content) ==
    /\ e = epoch
    /\ t \in DOMAIN targets
    /\ content # targets[t].content
    /\ targets[t].generation < MaxTargetGeneration
    /\ targets' = Put(targets, t, [generation |-> targets[t].generation + 1,
                                   content    |-> content])
    /\ reviews' = [r \in DOMAIN reviews |->
            IF reviews[r].target = t /\ TargetCurrent(reviews[r])
            THEN Supersede(reviews[r]) ELSE reviews[r]]
    /\ UNCHANGED <<epoch, critics, workers, incumbents, nextBootOrder>>

-----------------------------------------------------------------------------
(* Critics and the worker incarnations that serve them.                    *)

ValidCapability(capability) ==
    /\ capability.roles # {}
    /\ capability.classes # {}
    /\ capability.categories # {}

RegisterCritic(e, c, capability) ==
    /\ e = epoch
    /\ ValidCapability(capability)
    /\ c \notin DOMAIN critics
    /\ critics' = Put(critics, c, [generation |-> 1, capability |-> capability])
    /\ UNCHANGED <<epoch, targets, workers, incumbents, nextBootOrder, reviews>>

WorkersOf(c) == {w \in DOMAIN workers : workers[w].critic = c}

\* register_critic of a changed implementation: its workers are fenced and
\* its assignments are retired, discharged or not.
AdvanceCritic(e, c, capability, advance) ==
    /\ e = epoch
    /\ ValidCapability(capability)
    /\ c \in DOMAIN critics
    /\ advance \/ capability # critics[c].capability
    /\ critics[c].generation < MaxCriticGeneration
    /\ critics' = Put(critics, c, [generation |-> critics[c].generation + 1,
                                   capability |-> capability])
    /\ LET fenced == Fenceable(WorkersOf(c)) IN
         /\ workers' = Silenced(fenced)
         /\ reviews' = [r \in DOMAIN reviews |->
                Retire(reviews[r], Abandoned(reviews[r], fenced) \cup ActiveOf(reviews[r], c))]
    /\ UNCHANGED <<epoch, targets, incumbents, nextBootOrder>>

\* Mutant: the first worker to serve a critic keeps it.
IncumbentForEver(c, w, ws) ==
    IF c \in DOMAIN incumbents THEN incumbents ELSE Put(incumbents, c, w)

\* The rule of apply_entry_locked for a WorkerRegistered entry, which has
\* already entered worker w into the map ws.
IncumbentAfter(c, w, ws) ==
    IF c \in DOMAIN incumbents /\ ws[w].bootOrder <= ws[incumbents[c]].bootOrder
    THEN incumbents ELSE Put(incumbents, c, w)

\* A worker that comes back under another boot, and every other incarnation
\* that serves the same critic, is fenced.
RegisterWorker(e, w, boot, c, generation) ==
    /\ e = epoch
    /\ c \in DOMAIN critics
    /\ critics[c].generation = generation
    /\ \/ w \in DOMAIN workers /\ workers[w].boot # boot
       \/ w \notin DOMAIN workers /\ Cardinality(DOMAIN workers) < Limits.workerConnections
    /\ nextBootOrder < MaxBootOrder
    /\ nextBootOrder' = nextBootOrder + 1
    /\ LET competing == {v \in WorkersOf(c) \ {w} : Authoritative(v)}
           fenced    == Fenceable({w} \cup competing)
       IN  /\ workers' = Put(Silenced(fenced), w,
                  [boot |-> boot, critic |-> c, criticGeneration |-> generation,
                   ready |-> FALSE, healthy |-> FALSE, bootOrder |-> nextBootOrder])
           /\ reviews' = [r \in DOMAIN reviews |->
                  Retire(reviews[r], Abandoned(reviews[r], fenced))]
    /\ incumbents' = IncumbentAfter(c, w, workers')
    /\ UNCHANGED <<epoch, targets, critics>>

\* A declaration that is not ready withdraws the worker's authority and leaves
\* its assignments alone.
DeclareReadiness(e, x, ready, healthy, evidence) ==
    /\ e = epoch
    /\ BindingCurrent(x)
    /\ ready => evidence = critics[x.critic].capability.evidence
    /\ workers' = [workers EXCEPT ![x.worker].ready = ready, ![x.worker].healthy = healthy]
    /\ UNCHANGED <<epoch, targets, critics, incumbents, nextBootOrder, reviews>>

Fence(ws) ==
    /\ workers' = Silenced(ws)
    /\ reviews' = [r \in DOMAIN reviews |-> Retire(reviews[r], Abandoned(reviews[r], ws))]
    /\ UNCHANGED <<epoch, targets, critics, incumbents, nextBootOrder>>

FenceWorker(w) == w \in DOMAIN workers /\ Fence(Fenceable({w}))

FenceCritic(c) == c \in DOMAIN critics /\ Fence(Fenceable(WorkersOf(c)))

-----------------------------------------------------------------------------
(* Declaring a review and assigning its critics.                           *)

OpenReviews == {r \in DOMAIN reviews : reviews[r].state \notin TerminalStates}

DeclareReview(e, r, t, generation, spec) ==
    /\ e = epoch
    /\ r \notin DOMAIN reviews
    /\ t \in DOMAIN targets
    /\ targets[t].generation = generation
    /\ targets[t].content.reviewable
    /\ Cardinality(OpenReviews) < Limits.concurrentReviews
    /\ Cardinality(DOMAIN reviews) < Limits.retainedReviews
    /\ reviews' = Put(reviews, r,
            [spec |-> spec, state |-> "Declared", disposition |-> "None",
             target |-> t, targetGeneration |-> generation,
             digest |-> Digest(targets[t].content),
             authorityCurrent |-> TRUE, roundsUsed |-> 0,
             assignments |-> {}, findings |-> {}, evidences |-> {},
             challenges |-> {}, decision |-> NoDecision])
    /\ UNCHANGED <<epoch, registry>>

AssignmentRequests ==
    [critic : Critics, criticGeneration : CriticGenerations, worker : Workers,
     boot : Boots, terms : Terms]

Assignable(rev, q) ==
    /\ BindingCurrent(q)
    /\ Authoritative(q.worker)
    /\ ActiveOf(rev, q.critic) = {}
    /\ LET capability == critics[q.critic].capability IN
         /\ q.terms.role \in capability.roles
         /\ targets[rev.target].content.class \in capability.classes
         /\ DOMAIN rev.spec.requiredMinCategories \subseteq capability.categories
    /\ Cardinality({a \in rev.assignments : a.critic = q.critic}) < MaxAssignments

Granted(rev, q) ==
    [critic           |-> q.critic,
     ordinal          |-> Cardinality({a \in rev.assignments : a.critic = q.critic}) + 1,
     criticGeneration |-> q.criticGeneration,
     worker           |-> q.worker,
     boot             |-> q.boot,
     role             |-> q.terms.role,
     required         |-> q.terms.required \/ q.terms.role \in rev.spec.requiredRoles,
     weight           |-> WeightOf(rev.spec, q.critic),
     active           |-> TRUE]

\* A batch is granted whole or refused whole.
AssignCritics(e, r, batch) ==
    /\ e = epoch
    /\ reviews[r].state \notin TerminalStates
    /\ TargetCurrent(reviews[r])
    /\ IsFiniteSet(batch) /\ batch # {}
    /\ \A p, q \in batch : p.critic = q.critic => p = q
    /\ Cardinality({a \in reviews[r].assignments : a.active}) + Cardinality(batch)
            <= Limits.criticsPerReview
    /\ \A q \in batch : Assignable(reviews[r], q)
    /\ LET rev     == reviews[r]
           granted == [rev EXCEPT !.assignments = @ \cup {Granted(rev, q) : q \in batch}]
       IN  reviews' = [reviews EXCEPT ![r] =
                IF rev.state \in {"Declared", "Assigning", "RevalidationRequired"}
                THEN [granted EXCEPT !.state = "Assigned", !.disposition = "None",
                                     !.authorityCurrent = TRUE]
                ELSE granted]
    /\ UNCHANGED <<epoch, registry>>

-----------------------------------------------------------------------------
(* Critic output.  NoId stands for an absent finding identity.             *)

NoId == 0

Fresh(records) == Cardinality(records) + 1

FindingOf(rev, id) == CHOOSE f \in rev.findings : f.id = id

\* Mutants: retired findings are included, or only the last finding is.
OwnFindings(rev, c) == {f \in rev.findings : f.critic = c}

OwnLast(rev, c) ==
    {f \in OwnFindings(rev, c) :
        f.state \in CurrentFindingStates /\ \A g \in OwnFindings(rev, c) : g.id <= f.id}

OwnCurrent(rev, c) ==
    {f \in rev.findings : f.critic = c /\ f.state \in CurrentFindingStates}

SetState(findings, id, state) ==
    {IF f.id = id THEN [f EXCEPT !.state = state] ELSE f : f \in findings}

\* Applying EvidenceRecorded also lists the evidence on the finding it names.
SubmitEvidence(m, input, finding) ==
    /\ CheckAuthority(m)
    /\ LET rev == reviews[m.review]
           id  == Fresh(rev.evidences)
       IN  /\ Cardinality(rev.evidences) < Limits.evidencePerReview
           /\ finding # NoId => \E f \in OwnCurrent(rev, m.critic) : f.id = finding
           /\ reviews' = [reviews EXCEPT ![m.review] =
                [rev EXCEPT
                    !.evidences = @ \cup
                        {[id |-> id, critic |-> m.critic, criticGeneration |-> m.criticGeneration,
                          finding |-> finding, verified |-> input.verified,
                          provenanceKnown |-> input.provenanceKnown]},
                    !.findings = {IF f.id = finding THEN [f EXCEPT !.evidence = Append(@, id)]
                                                    ELSE f : f \in @}]]
    /\ UNCHANGED <<epoch, registry>>

\* Evidence a finding of message m may cite.
Citable(rev, m) ==
    {e.id : e \in {x \in rev.evidences :
        /\ x.critic = m.critic
        /\ x.criticGeneration = m.criticGeneration
        /\ x.finding # NoId => FindingOf(rev, x.finding).critic = m.critic}}

\* compute_finding_digest covers the evidence cited at submission, not what
\* SubmitEvidence adds to the finding later.
SameDigest(f, m, assignment, input) ==
    /\ f.critic = m.critic
    /\ f.criticGeneration = m.criticGeneration
    /\ f.assignment = assignment.ordinal
    /\ f.category = input.category
    /\ f.severity = input.severity
    /\ f.outcome = input.outcome
    /\ f.cited = input.evidence
    /\ f.explanation = input.explanation

\* same_evidence_set: the sorted lists are equal, repetitions included.
SameEvidence(s, t) ==
    \A x \in Range(s) \cup Range(t) :
        Cardinality({i \in DOMAIN s : s[i] = x}) = Cardinality({i \in DOMAIN t : t[i] = x})

Contradicts(f, input) ==
    /\ f.category = input.category
    /\ SameEvidence(f.evidence, input.evidence)
    /\ {f.outcome, input.outcome} \subseteq DecisiveOutcomes
    /\ f.outcome # input.outcome

SubmitFinding(m, input, supersedes) ==
    /\ CheckAuthority(m)
    /\ LET rev        == reviews[m.review]
           assignment == ActiveAssignment(rev, m.critic)
           own        == OwnCurrent(rev, m.critic)
           finding    ==
             [id |-> Fresh(rev.findings), critic |-> m.critic,
              criticGeneration |-> m.criticGeneration, assignment |-> assignment.ordinal,
              worker |-> m.worker, boot |-> m.boot,
              targetGeneration |-> rev.targetGeneration,
              category |-> input.category, severity |-> input.severity,
              outcome |-> input.outcome, evidence |-> input.evidence,
              cited |-> input.evidence, explanation |-> input.explanation,
              state |-> "Current"]
           recorded   ==
             [rev EXCEPT
                !.findings = SetState(@, supersedes, "Superseded") \cup {finding},
                !.evidences = {IF e.id \in Range(input.evidence) /\ e.finding = NoId
                               THEN [e EXCEPT !.finding = finding.id] ELSE e : e \in @}]
       IN  /\ Len(input.evidence) <= Limits.evidencePerFinding
           /\ Cardinality(rev.findings) < Limits.findingsPerReview
           /\ Range(input.evidence) \subseteq Citable(rev, m)
           /\ \A f \in own : ~Contradicts(f, input)
           /\ \/ rev.spec.duplicates = "KeepDistinct"
              \/ \A f \in own : ~SameDigest(f, m, assignment, input)
           /\ supersedes # NoId => \E f \in own : f.id = supersedes
           /\ reviews' = [reviews EXCEPT ![m.review] =
                IF rev.state \in {"Assigned", "Reviewing"}
                THEN [recorded EXCEPT !.state = "FindingsReceived", !.disposition = "None",
                                      !.authorityCurrent = TRUE]
                ELSE recorded]
    /\ UNCHANGED <<epoch, registry>>

SubmitChallenge(m, id) ==
    /\ CheckAuthority(m)
    /\ LET rev == reviews[m.review]
           challenged == [rev EXCEPT
                !.challenges = @ \cup
                    {[id |-> Fresh(rev.challenges), finding |-> id,
                      challenger |-> m.critic, resolved |-> FALSE, outcome |-> "Unresolved"]},
                !.findings = SetState(@, id, "Challenged")]
       IN  /\ rev.spec.challenges # "Disabled"
           /\ Cardinality(rev.challenges) < Limits.challengesPerReview
           /\ \E f \in rev.findings :
                 f.id = id /\ f.state \in CurrentFindingStates /\ f.critic # m.critic
           /\ Cardinality({ch \in rev.challenges : ch.finding = id}) < rev.spec.maxChallengeRounds
           /\ reviews' = [reviews EXCEPT ![m.review] =
                IF rev.state # "Challenged"
                THEN [challenged EXCEPT !.state = "Challenged", !.disposition = "None",
                                        !.authorityCurrent = TRUE]
                ELSE challenged]
    /\ UNCHANGED <<epoch, registry>>

\* Mutants: the outcome is stored as the state; an open question upholds.
OutcomeAsState(outcome) == outcome

UpheldUnlessDecided(outcome) ==
    CASE outcome \in {"Modified", "Superseded"} -> "Superseded"
      [] outcome = "Invalidated"                -> "Invalidated"
      [] OTHER                                  -> "Upheld"

AfterRebuttal(outcome) ==
    CASE outcome = "Upheld"                     -> "Upheld"
      [] outcome \in {"Modified", "Superseded"} -> "Superseded"
      [] outcome = "Invalidated"                -> "Invalidated"
      [] OTHER                                  -> "Challenged"

\* A challenge is answered once, so max_rebuttals_per_challenge never bites.
SubmitRebuttal(m, id, outcome) ==
    /\ CheckAuthority(m)
    /\ LET rev == reviews[m.review] IN
        /\ rev.spec.challenges # "Disabled"
        /\ \E challenge \in rev.challenges :
            /\ challenge.id = id
            /\ ~challenge.resolved
            /\ \E f \in OwnCurrent(rev, m.critic) : f.id = challenge.finding
            /\ reviews' = [reviews EXCEPT ![m.review] =
                 [rev EXCEPT
                    !.challenges = (@ \ {challenge}) \cup
                        {[challenge EXCEPT !.resolved = TRUE, !.outcome = outcome]},
                    !.findings = SetState(@, challenge.finding, AfterRebuttal(outcome)),
                    !.state = "Evaluating", !.disposition = "None", !.authorityCurrent = TRUE,
                    !.roundsUsed = @ + 1]]
    /\ UNCHANGED <<epoch, registry>>

-----------------------------------------------------------------------------
(* The authoritative result.                                               *)

\* Mutant: a process that has been fenced is no incumbent for the evaluation.
EvaluationInputOfTheLive(rev) ==
    [spec        |-> rev.spec,
     review      |-> [state |-> rev.state, targetGeneration |-> rev.targetGeneration,
                      digest |-> rev.digest, authorityCurrent |-> rev.authorityCurrent],
     assignments |-> rev.assignments,
     findings    |-> rev.findings,
     evidences   |-> rev.evidences,
     challenges  |-> rev.challenges,
     authority   |->
        [targetGeneration |-> targets[rev.target].generation,
         digest           |-> Digest(targets[rev.target].content),
         criticGeneration |-> [c \in DOMAIN critics |-> critics[c].generation],
         incumbent        |-> [c \in {d \in DOMAIN incumbents : Authoritative(incumbents[d])} |->
                                [worker |-> incumbents[c],
                                 boot   |-> workers[incumbents[c]].boot]]]]

\* build_evaluation_input_locked and build_authority_view_locked
EvaluationInput(rev) ==
    [spec        |-> rev.spec,
     review      |-> [state |-> rev.state, targetGeneration |-> rev.targetGeneration,
                      digest |-> rev.digest, authorityCurrent |-> rev.authorityCurrent],
     assignments |-> rev.assignments,
     findings    |-> rev.findings,
     evidences   |-> rev.evidences,
     challenges  |-> rev.challenges,
     authority   |->
        [targetGeneration |-> targets[rev.target].generation,
         digest           |-> Digest(targets[rev.target].content),
         criticGeneration |-> [c \in DOMAIN critics |-> critics[c].generation],
         incumbent        |-> [c \in DOMAIN incumbents |->
                                [worker |-> incumbents[c],
                                 boot   |-> workers[incumbents[c]].boot]]]]

\* What compute_decision_digest covers: the disposition and the evidence basis.
Resolve(rev) ==
    [disposition |-> Evaluate(EvaluationInput(rev)),
     findings    |-> {<<f.id, f.state>> : f \in rev.findings},
     evidences   |-> {e.id : e \in rev.evidences}]

\* Mutant: a committed review needs no authority any more.
CommitAndRelease(e, r) ==
    /\ e = epoch
    /\ reviews[r].state \notin TerminalStates \cup {"RevalidationRequired"}
    /\ reviews[r].decision = NoDecision
    /\ reviews' = [reviews EXCEPT ![r] =
         [@ EXCEPT !.state = "Committed",
                   !.decision = Resolve(reviews[r]),
                   !.disposition = Resolve(reviews[r]).disposition,
                   !.authorityCurrent = FALSE]]
    /\ UNCHANGED <<epoch, registry>>

\* Mutant: a review that waits for revalidation is decided all the same.
CommitUnrevalidated(e, r) ==
    /\ e = epoch
    /\ reviews[r].state \notin TerminalStates
    /\ reviews[r].decision = NoDecision
    /\ reviews' = [reviews EXCEPT ![r] =
         [@ EXCEPT !.state = "Committed",
                   !.decision = Resolve(reviews[r]),
                   !.disposition = Resolve(reviews[r]).disposition,
                   !.authorityCurrent = TRUE]]
    /\ UNCHANGED <<epoch, registry>>

\* Mutant: the state of the review is consulted, the recorded decision is not.
CommitAgain(e, r) ==
    /\ e = epoch
    /\ reviews[r].state \notin TerminalStates \cup {"RevalidationRequired"}
    /\ reviews' = [reviews EXCEPT ![r] =
         [@ EXCEPT !.state = "Committed",
                   !.decision = Resolve(reviews[r]),
                   !.disposition = Resolve(reviews[r]).disposition,
                   !.authorityCurrent = TRUE]]
    /\ UNCHANGED <<epoch, registry>>

\* A repeated commit returns the decision or ConflictingReviewCommit; either
\* way nothing changes.
CommitReview(e, r) ==
    /\ e = epoch
    /\ reviews[r].state \notin TerminalStates \cup {"RevalidationRequired"}
    /\ reviews[r].decision = NoDecision
    /\ reviews' = [reviews EXCEPT ![r] =
         [@ EXCEPT !.state = "Committed",
                   !.decision = Resolve(reviews[r]),
                   !.disposition = Resolve(reviews[r]).disposition,
                   !.authorityCurrent = TRUE]]
    /\ UNCHANGED <<epoch, registry>>

CancelReview(e, r) ==
    /\ e = epoch
    /\ reviews[r].state \notin TerminalStates
    /\ reviews' = [reviews EXCEPT ![r] =
         [@ EXCEPT !.state = "Cancelled", !.disposition = "Cancelled",
                   !.authorityCurrent = FALSE]]
    /\ UNCHANGED <<epoch, registry>>

-----------------------------------------------------------------------------
(* start: the journal of a coordinator that stopped or crashed between two *)
(* calls is replayed.  Live authority is gone; open reviews must be        *)
(* revalidated (is_recoverable_review_state names the terminal states).    *)

Restart ==
    /\ epoch < MaxEpoch
    /\ epoch' = epoch + 1
    /\ workers' = Silenced(DOMAIN workers)
    /\ reviews' = [r \in DOMAIN reviews |-> Revalidate(reviews[r])]
    /\ UNCHANGED <<targets, critics, incumbents, nextBootOrder>>

-----------------------------------------------------------------------------

EmptyMap == [x \in {} |-> x]

Init ==
    /\ epoch = 1
    /\ targets = EmptyMap
    /\ critics = EmptyMap
    /\ workers = EmptyMap
    /\ incumbents = EmptyMap
    /\ nextBootOrder = 1
    /\ reviews = EmptyMap

\* Identities a message can name: those handed out so far.
Named(records) == {x.id : x \in records}

Control ==
    \E e \in Epochs :
        \/ \E t \in Targets, content \in Contents :
              RegisterTarget(e, t, content) \/ AdvanceTarget(e, t, content)
        \/ \E c \in Critics, capability \in Capabilities :
              \/ RegisterCritic(e, c, capability)
              \/ \E advance \in BOOLEAN : AdvanceCritic(e, c, capability, advance)
        \/ \E r \in Requests, t \in Targets, g \in TargetGenerations, spec \in Policies :
              DeclareReview(e, r, t, g, spec)
        \/ \E r \in DOMAIN reviews :
              \/ \E batch \in SUBSET {q \in AssignmentRequests : Assignable(reviews[r], q)} :
                    AssignCritics(e, r, batch)
              \/ CommitReview(e, r)
              \/ CancelReview(e, r)

Incarnation ==
    \/ \E e \in Epochs, w \in Workers, boot \in Boots, c \in Critics, g \in CriticGenerations :
          \/ RegisterWorker(e, w, boot, c, g)
          \/ \E ready, healthy \in BOOLEAN, k \in Capabilities :
                DeclareReadiness(e, [worker |-> w, boot |-> boot, critic |-> c,
                                     criticGeneration |-> g], ready, healthy, k.evidence)
    \/ \E w \in Workers : FenceWorker(w)
    \/ \E c \in Critics : FenceCritic(c)

Output ==
    \E m \in {x \in Messages : CheckAuthority(x)} :
        LET rev == reviews[m.review] IN
        \/ \E input \in EvidenceInputs, f \in Named(rev.findings) \cup {NoId} :
              SubmitEvidence(m, input, f)
        \/ \E input \in FindingInputs, f \in Named(rev.findings) \cup {NoId} :
              SubmitFinding(m, input, f)
        \/ \E f \in Named(rev.findings) : SubmitChallenge(m, f)
        \/ \E ch \in Named(rev.challenges), outcome \in ChallengeOutcomes :
              SubmitRebuttal(m, ch, outcome)

Next == Control \/ Incarnation \/ Output \/ Restart

Spec == Init /\ [][Next]_vars

-----------------------------------------------------------------------------
(* Type invariant.                                                         *)

\* The data structures keep their shape: a worker that is an incumbent and a
\* target that is reviewed are known (check_authority_locked and the evaluation
\* look them up without asking), and every review holds finitely many records.
RegistryTypeOK ==
    /\ epoch \in Epochs
    /\ IsMap(targets, Targets, Target)
    /\ IsMap(critics, Critics, Critic)
    /\ IsMap(workers, Workers, Worker)
    /\ IsMap(incumbents, Critics, DOMAIN workers)
    /\ nextBootOrder \in BootOrders

FiniteRecords(rev) ==
    /\ IsFiniteSet(rev.assignments)
    /\ IsFiniteSet(rev.findings)
    /\ IsFiniteSet(rev.evidences)
    /\ IsFiniteSet(rev.challenges)

ReviewsTypeOK ==
    /\ IsMap(reviews, Requests, Review)
    /\ \A r \in DOMAIN reviews :
          reviews[r].target \in DOMAIN targets /\ FiniteRecords(reviews[r])

TypeOK == RegistryTypeOK /\ ReviewsTypeOK

-----------------------------------------------------------------------------
(* Safety.                                                                 *)

Withdrawn == {"RevalidationRequired", "Cancelled", "Superseded"}

\* README "Review target model": a review speaks with authority exactly while it is
\* open or committed and its target is at the generation it reviewed.  Every
\* path that takes the authority away, and every one that gives it back
\* (assignment, finding, challenge, rebuttal, commit), keeps to this.
AuthorityTracksTarget ==
    \A r \in DOMAIN reviews :
        reviews[r].authorityCurrent <=>
            reviews[r].state \notin Withdrawn /\ TargetCurrent(reviews[r])

\* README "Review target model": once the target has moved on, the review is closed
\* and none of its findings still asserts anything.
StaleTargetSilent ==
    \A r \in DOMAIN reviews : ~TargetCurrent(reviews[r]) =>
        /\ reviews[r].state \in TerminalStates
        /\ \A f \in reviews[r].findings : f.state \notin CurrentFindingStates

\* README "Critic model": a worker that may speak is the incumbent of its
\* critic and serves the critic's current generation, so that a critic never
\* has two voices (register_worker, register_critic, declare_readiness).
OneVoicePerCritic ==
    \A w \in DOMAIN workers : Authoritative(w) =>
        /\ workers[w].critic \in DOMAIN incumbents
        /\ incumbents[workers[w].critic] = w
        /\ workers[w].critic \in DOMAIN critics
        /\ critics[workers[w].critic].generation = workers[w].criticGeneration

\* No registered incarnation of a critic is newer than its incumbent, also
\* after workers have moved between critics: the comparison of boot orders in
\* apply_entry_locked cannot hand the critic back to an older process.
IncumbentIsNewest ==
    \A w \in DOMAIN workers :
        /\ workers[w].critic \in DOMAIN incumbents
        /\ workers[w].bootOrder <= workers[incumbents[workers[w].critic]].bootOrder

\* README "Quorum semantics": an active assignment is the critic's newest in
\* the review, the only active one, and of the critic's current generation.
\* The evaluation relies on it: it reads a critic's seat from its last
\* assignment.
OneSeatPerCritic ==
    \A r \in DOMAIN reviews : \A a \in reviews[r].assignments : a.active =>
        /\ critics[a.critic].generation = a.criticGeneration
        /\ \A b \in reviews[r].assignments :
              b.critic = a.critic /\ b # a => b.ordinal < a.ordinal

\* README "Authoritative review commit": a review is committed if and only if
\* a decision is recorded, and it reports that decision's disposition.
CommittedMeansDecided ==
    \A r \in DOMAIN reviews :
        /\ reviews[r].state = "Committed" <=> reviews[r].decision # NoDecision
        /\ reviews[r].state = "Committed" =>
              reviews[r].disposition = reviews[r].decision.disposition

\* README "Challenge and rebuttal": a finding stands challenged or upheld only
\* if a challenge of it says so.  A challenged one has a challenge without a
\* resolution, which keeps the review from passing.
ChallengesAccountForFindings ==
    \A r \in DOMAIN reviews : \A f \in reviews[r].findings :
        /\ f.state = "Challenged" => \E ch \in reviews[r].challenges :
              ch.finding = f.id /\ (~ch.resolved \/ ch.outcome = "Unresolved")
        /\ f.state = "Upheld" => \E ch \in reviews[r].challenges :
              ch.finding = f.id /\ ch.resolved /\ ch.outcome = "Upheld"

\* README "Incumbency versus liveness": a finding that still asserts something and
\* comes from the incumbent counts in the evaluation, whether the process is alive
\* or has been fenced since.  Only a finding that has been challenged is left out.
OverlookedAreContested ==
    \A r \in DOMAIN reviews : \A f \in reviews[r].findings :
        /\ f.state \in CurrentFindingStates
        /\ BindingCurrent(f)
        /\ f \notin CountedFindings(EvaluationInput(reviews[r]))
        => \E ch \in reviews[r].challenges : ch.finding = f.id

\* README "Finding model": a critic never holds contradictory decisive
\* findings on one evidence list, whatever it submits, supersedes or attaches.
NoSelfContradiction ==
    \A r \in DOMAIN reviews : \A f, g \in reviews[r].findings :
        f.critic = g.critic /\ {f.state, g.state} \subseteq CurrentFindingStates
            => ~Contradicts(f, g)

-----------------------------------------------------------------------------
(* What a step may never do.                                               *)

\* README "Authoritative review commit": a closed review stays as it closed.
\* Only its claim to be current may still be withdrawn.
OutcomesAreFinal ==
    [][\A r \in DOMAIN reviews : reviews[r].state \in TerminalStates =>
          /\ reviews'[r].state = reviews[r].state
          /\ reviews'[r].disposition = reviews[r].disposition
          /\ reviews'[r].decision = reviews[r].decision
          /\ reviews'[r].authorityCurrent => reviews[r].authorityCurrent]_vars

\* README "Finding model": a superseded or invalidated finding never asserts
\* anything again, and no finding disappears.
RetiredFindingsStayRetired ==
    [][\A r \in DOMAIN reviews : \A f \in reviews[r].findings :
          \E g \in reviews'[r].findings :
              /\ g.id = f.id
              /\ f.state \notin CurrentFindingStates => g.state = f.state]_vars

\* README "Determinism": committing a review and then evaluating it again
\* gives the same result, so a repeated commit returns the decision instead of
\* ConflictingReviewCommit.
CommitIsRepeatable ==
    [][\A r \in DOMAIN reviews :
          reviews'[r].decision # reviews[r].decision =>
              /\ UNCHANGED registry
              /\ Resolve(reviews'[r]) = reviews'[r].decision]_vars

Speaking(a) == BindingCurrent(a) /\ Authoritative(a.worker)

\* README "Worker death and reincarnation": a step that replaces or retires a
\* process which could still speak for its open assignment takes the
\* assignment away and sends the review to revalidation.
LostVoiceForcesRevalidation ==
    [][\A r \in OpenReviews : \A a \in reviews[r].assignments :
          a.active /\ ~Discharged(reviews[r], a) /\ Speaking(a) /\ ~(BindingCurrent(a))' =>
              /\ reviews'[r].state = "RevalidationRequired"
              /\ [a EXCEPT !.active = FALSE] \in reviews'[r].assignments]_vars

=============================================================================
