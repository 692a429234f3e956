---------------------------- MODULE MCCoordinator ----------------------------
(***************************************************************************)
(* Instances of Coordinator for TLC.  Authority.cfg explores registration, *)
(* replacement, fencing and restart from the empty coordinator; the other  *)
(* configurations start from a review whose critics are all assigned and   *)
(* ready, a state a coordinator reaches by legal calls (Prepared).         *)
(***************************************************************************)
EXTENDS CoordinatorRefinement, TLC

CONSTANTS c1, c2, c3, w1, w2, w3, b1, b2, t1, r1

Content(payload) == [class |-> "Code", payload |-> payload, reviewable |-> TRUE]

OneContent == {Content("old")}
TwoContents == {Content("old"), Content("new")}

Skill == [roles |-> {"GeneralCritic"}, classes |-> {"Code"}, categories |-> {"General"},
          evidence |-> "proof"]
OneCapability == {Skill}

OneTerm == {[role |-> "GeneralCritic", required |-> FALSE]}

Say(outcome, evidence) ==
    [category |-> "General", severity |-> 3, outcome |-> outcome,
     evidence |-> evidence, explanation |-> "text"]

JustPass == {Say("Pass", <<>>)}
PassOrFail == {Say("Pass", <<>>), Say("Fail", <<>>)}
Cited == {Say(o, e) : o \in {"Pass", "Fail"}, e \in {<<>>, <<1>>, <<1, 2>>}}
NoEvidence == {}
Verified == {[verified |-> TRUE, provenanceKnown |-> TRUE]}

\* One decisive critic is enough, and no predicate asks for evidence.
Plain ==
    [DefaultSpec EXCEPT !.predicates =
        <<Mandatory("ExactTargetGenerationMatch", 0), Mandatory("TargetDigestMatch", 0),
          Mandatory("CriticGenerationCurrent", 0), Mandatory("WorkerBootCurrent", 0),
          Mandatory("CoordinatorEpochCurrent", 0), Mandatory("QuorumSatisfied", 0)>>]

PlainPolicy == {Plain}

\* Challenges go on for as long as nobody stops them.
DebatePolicy == {[Plain EXCEPT !.challenges = "AllowBoundedRounds", !.maxChallengeRounds = 2]}

EvidencePolicy == {[Plain EXCEPT !.duplicates = "KeepDistinct",
                                 !.predicates = DefaultSpec.predicates]}

SmallLimits ==
    [retainedTargets |-> 1, workerConnections |-> 2, concurrentReviews |-> 1,
     retainedReviews |-> 1, criticsPerReview |-> 2, findingsPerReview |-> 1,
     evidencePerReview |-> 1, evidencePerFinding |-> 1, challengesPerReview |-> 1]

DebateLimits == [SmallLimits EXCEPT !.findingsPerReview = 2, !.challengesPerReview = 2,
                                   !.workerConnections = 3]
RecoveryLimits == [SmallLimits EXCEPT !.findingsPerReview = 2]
ReviewLimits == [SmallLimits EXCEPT !.findingsPerReview = 3, !.evidencePerReview = 2,
                                    !.evidencePerFinding = 2, !.challengesPerReview = 2]
-----------------------------------------------------------------------------

\* Every critic that server knows has one worker, ready, and sits on the review r1.
Prepared(server, boot, content, spec) ==
    LET Serving == DOMAIN server
        order   == CHOOSE f \in [Serving -> 1 .. Cardinality(Serving)] : IsInjective(f)
    IN  /\ epoch = 1
        /\ targets = [t \in {t1} |-> [generation |-> 1, content |-> content]]
        /\ critics = [c \in Serving |-> [generation |-> 1, capability |-> Skill]]
        /\ workers = [w \in {server[c] : c \in Serving} |->
             LET c == CHOOSE x \in Serving : server[x] = w IN
             [boot |-> boot, critic |-> c, criticGeneration |-> 1, ready |-> TRUE,
              healthy |-> TRUE, bootOrder |-> order[c]]]
        /\ incumbents = server
        /\ nextBootOrder = Cardinality(Serving) + 1
        /\ reviews = [r \in {r1} |->
             [spec |-> spec, state |-> "Assigned", disposition |-> "None", target |-> t1,
              targetGeneration |-> 1, digest |-> Digest(content), authorityCurrent |-> TRUE,
              roundsUsed |-> 0,
              assignments |-> {[critic |-> c, ordinal |-> 1, criticGeneration |-> 1,
                                worker |-> server[c], boot |-> boot, role |-> "GeneralCritic",
                                required |-> TRUE, weight |-> 1, active |-> TRUE] : c \in Serving},
              findings |-> {}, evidences |-> {}, challenges |-> {}, decision |-> NoDecision]]

Server == [c \in Critics |-> CASE c = c1 -> w1 [] c = c2 -> w2 [] OTHER -> w3]

SpecPrepared ==
    /\ \E spec \in Policies : Prepared(Server, b1, Content("old"), spec)
    /\ [][Next]_vars

-----------------------------------------------------------------------------
(* Reviews.cfg: three slices, told apart by the policy of the review.      *)

Alone == [c \in {c1} |-> w1]

Debated == CHOOSE spec \in DebatePolicy : TRUE
Evidenced == CHOOSE spec \in EvidencePolicy : TRUE

ThreePolicies == {Plain, Debated, Evidenced}

SpecReviews ==
    /\ \/ \E spec \in {Plain, Debated} : Prepared(Server, b1, Content("old"), spec)
       \/ Prepared(Alone, b1, Content("old"), Evidenced)
    /\ [][Next]_vars

SameProcesses == UNCHANGED <<epoch, targets, critics, nextBootOrder>>

\* Findings that pass, at most one challenge of them, and everything that
\* takes authority away.  Of the two processes only w1 is replaced or fenced
\* while the coordinator runs.
Recovering(rev) ==
    /\ DOMAIN critics' = DOMAIN critics
    /\ epoch' = epoch /\ workers'[w2] # workers[w2] => Authoritative(w2)'
    /\ rev.evidences = {} /\ Cardinality(rev.challenges) <= 1
    /\ Cardinality(rev.findings) <= 2
    /\ \A f \in rev.findings : f.outcome = "Pass"

\* Two findings and up to two challenges, while processes come and go.
Debating(rev) ==
    /\ SameProcesses
    /\ rev.evidences = {} /\ Cardinality(rev.findings) <= 2
    /\ \A a \in rev.assignments : a.ordinal = 1

InReviewSlice ==
    \A r \in DOMAIN reviews' :
        LET rev == reviews'[r] IN
        CASE rev.spec = Plain   -> Recovering(rev)
          [] rev.spec = Debated -> Debating(rev)
          [] OTHER              -> SameProcesses

Interchangeable == Permutations(Workers) \cup Permutations(Boots)

=============================================================================
