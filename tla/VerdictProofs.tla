---------------------------- MODULE VerdictProofs ----------------------------
(***************************************************************************)
(* Theorems about the verdicts of a review as its findings, processes and  *)
(* challenges change (module Verdicts): each rests on a fact about         *)
(* evaluate_review for every input (EvaluationProofs) and on the shape of  *)
(* the inputs the driver reaches.                                          *)
(***************************************************************************)
EXTENDS Verdicts, EvaluationProofs

-----------------------------------------------------------------------------
(* The shape of the inputs.                                                *)

\* A finding repeats one of the choices, and comes from some process of its
\* critic about the reviewed generation.
Repeats(f) ==
    /\ f.id[1] \in FindingChoices
    /\ f.critic = f.id[1].critic
    /\ f.outcome = f.id[1].outcome
    /\ f.severity = f.id[1].severity
    /\ f.evidence = f.id[1].evidence
    /\ f.category = "General"
    /\ f.criticGeneration = 1
    /\ f.worker = f.critic
    /\ f.targetGeneration = 1
    /\ f.state = "Current"

Shape ==
    /\ policy \in Policies
    /\ boot \in [Critics -> {"old", "new"}]
    /\ \A f \in findings : Repeats(f)

\* Every step keeps the shape.
LEMMA ShapeKept == Shape /\ [Next]_vars => Shape'
<1> SUFFICES ASSUME Shape, [Next]_vars PROVE Shape'
  OBVIOUS
<1>1. CASE UNCHANGED vars
  BY <1>1 DEF Shape, Repeats, vars
<1>2. ASSUME NEW k \in FindingChoices, Publish(k) PROVE Shape'
  <2>1. Repeats(Published(k))
    BY DEF Repeats, Published
  <2> QED BY <1>2, <2>1 DEF Publish, Shape, Repeats
<1>3. ASSUME NEW c \in Mortal, Reincarnate(c) PROVE Shape'
  BY <1>3 DEF Reincarnate, Shape, Repeats
<1>4. CASE Challenge \/ \E outcome \in {"Unresolved", "Upheld"} : Answer(outcome)
  BY <1>4 DEF Challenge, Answer, Shape, Repeats
<1> QED
  BY <1>1, <1>2, <1>3, <1>4 DEF Next

LEMMA Shaped == Spec => []Shape
<1>1. Init => Shape
  BY DEF Init, Shape
<1> QED
  BY <1>1, ShapeKept, PTL DEF Spec

\* The findings that count are those of the processes that are current now.
LEMMA CountedAreLive ==
    ASSUME boot \in [Critics -> {"old", "new"}], NEW fs, \A f \in fs : Repeats(f)
    PROVE  CountedFindings(InputWith(fs)) = {f \in fs : Live(f)}
<1>1. ASSUME NEW f \in fs
      PROVE  BoundToAuthority(InputWith(fs), f) <=> Live(f)
  <2>1. f.critic \in Critics /\ f.criticGeneration = 1 /\ f.worker = f.critic
    BY VerdictsAssumption DEF Repeats
  <2>2. /\ InputWith(fs).authority.criticGeneration = [c \in Critics |-> 1]
        /\ InputWith(fs).authority.incumbent = [c \in Critics |-> Worker(c)]
    BY DEF InputWith
  <2>3. BoundToAuthority(InputWith(fs), f) <=>
            Worker(f.critic) = [worker |-> f.worker, boot |-> f.boot]
    BY <2>1, <2>2 DEF BoundToAuthority
  <2> QED BY <2>1, <2>3 DEF Worker, Live
<1>2. InputWith(fs).findings = fs /\ InputWith(fs).review.targetGeneration = 1
  BY DEF InputWith
<1> QED
  BY <1>1, <1>2 DEF CountedFindings, Repeats

\* Each critic votes what its current process has said, from its own seat.
LEMMA VoteOfCritic ==
    ASSUME NEW fs, NEW counted, NEW c \in Critics
    PROVE  /\ c \in DOMAIN Votes(InputWith(fs), counted)
           /\ Votes(InputWith(fs), counted)[c].role = RoleOf[c]
           /\ Votes(InputWith(fs), counted)[c].dominant =
                 Dominant({f.outcome : f \in {g \in counted : g.critic = c}})
<1> DEFINE in == InputWith(fs)
<1>1. in.assignments = {Seat(d) : d \in Critics}
  BY DEF InputWith
<1>2. \A d : Seat(d).critic = d /\ Seat(d).active /\ Seat(d).role = RoleOf[d]
             /\ Seat(d).ordinal = 1
  BY DEF Seat
<1> HIDE DEF in
<1>3. AssignmentsOf(in, c) = {Seat(c)}
  BY <1>1, <1>2 DEF AssignmentsOf
<1>4. LastAssignment(in, c) = Seat(c)
  BY <1>2, <1>3 DEF LastAssignment
<1>5. Assigned(in, c) /\ c \in {a.critic : a \in in.assignments}
  BY <1>1, <1>2, <1>3, <1>4 DEF Assigned
<1> QED
  BY <1>2, <1>4, <1>5 DEF Votes, in

\* Only critics vote.
LEMMA VotersAreCritics ==
    ASSUME NEW fs, NEW counted
    PROVE  DOMAIN Votes(InputWith(fs), counted) \subseteq Critics
<1>1. InputWith(fs).assignments = {Seat(d) : d \in Critics}
  BY DEF InputWith
<1>2. \A d : Seat(d).critic = d
  BY DEF Seat
<1> QED
  BY <1>1, <1>2 DEF Votes

\* The votes and who casts a decisive one, read off the input.
LEMMA TallyOfInput ==
    ASSUME Shape
    PROVE  /\ Tally(Input).decisive =
                 {c \in Critics : Dominant(Said(c)) \in DecisiveOutcomes}
           /\ \A c \in Critics : /\ Tally(Input).votes[c].role = RoleOf[c]
                                 /\ Tally(Input).votes[c].dominant = Dominant(Said(c))
           /\ Tally(Input).disagreeing =
                 Disagreeing(Tally(Input).votes, Tally(Input).decisive)
<1> DEFINE counted == CountedFindings(Input)
           votes   == Votes(Input, counted)
<1>1. counted = {f \in findings : Live(f)}
  BY CountedAreLive DEF Shape, Input
<1>2. \A c : {f.outcome : f \in {g \in counted : g.critic = c}} = Said(c)
  BY <1>1 DEF Said
<1> HIDE DEF counted
<1>3. \A c \in Critics : /\ c \in DOMAIN votes
                         /\ votes[c].role = RoleOf[c]
                         /\ votes[c].dominant = Dominant(Said(c))
  BY <1>2, VoteOfCritic DEF Input
<1>4. DOMAIN votes \subseteq Critics
  BY VotersAreCritics DEF Input
<1>5. Tally(Input) = Tallied(Input, counted, votes)
  BY DEF Tally, counted
<1> HIDE DEF votes
<1>6. /\ Tally(Input).votes = votes
      /\ Tally(Input).decisive = {c \in DOMAIN votes : votes[c].dominant \in DecisiveOutcomes}
      /\ Tally(Input).disagreeing = Disagreeing(votes, Tally(Input).decisive)
  BY <1>5 DEF Tallied
<1>7. {c \in DOMAIN votes : votes[c].dominant \in DecisiveOutcomes} =
      {c \in Critics : Dominant(Said(c)) \in DecisiveOutcomes}
  BY <1>3, <1>4
<1> QED
  BY <1>3, <1>6, <1>7

-----------------------------------------------------------------------------
(* A PASS is earned.                                                       *)

\* The specification of the input is valid.
LEMMA PolicyIsValid ==
    ASSUME Shape
    PROVE  ValidSpec(policy) /\ Input.spec = policy
  BY VerdictsAssumption DEF Shape, Input, InputWith

\* README "Quorum semantics" and "Challenge and rebuttal": under every valid
\* specification a PASS rests on a decisive finding of a process that is
\* current now, meets every mandatory predicate and hides no open challenge.
THEOREM PassEarned == Spec => []PassIsEarned
<1>1. ASSUME Shape, Evaluate(Input) = "Pass"
      PROVE  /\ \E f \in findings : Live(f) /\ f.outcome \in DecisiveOutcomes
             /\ \A ch \in challenges : ch.resolved /\ ch.outcome # "Unresolved"
             /\ \A i \in DOMAIN policy.predicates :
                   policy.predicates[i].mandatory =>
                       Satisfied(Input, Tally(Input), policy.predicates[i])
  <2>1. /\ ~HardInvalid(Input, Tally(Input))
        /\ Tally(Input).unresolved = {}
        /\ Tally(Input).decisive # {}
    BY <1>1, PassIsClean, PolicyIsValid
  <2>2. \E f \in findings : Live(f) /\ f.outcome \in DecisiveOutcomes
    <3>1. PICK c \in Tally(Input).decisive : TRUE
      BY <2>1
    <3>2. \E f \in CountedFindings(Input) : f.outcome \in DecisiveOutcomes
      BY DecisiveVoteIsSaid
    <3>3. CountedFindings(Input) = {f \in findings : Live(f)}
      BY <1>1, CountedAreLive DEF Shape, Input
    <3> QED BY <3>2, <3>3
  <2>3. \A ch \in challenges : ch.resolved /\ ch.outcome # "Unresolved"
    <3>1. Tally(Input).unresolved =
            {ch \in Input.challenges : ~ch.resolved \/ ch.outcome = "Unresolved"}
      BY DEF Tally, Tallied
    <3>2. Input.challenges = challenges
      BY DEF Input, InputWith
    <3> QED BY <2>1, <3>1, <3>2
  <2>4. \A i \in DOMAIN policy.predicates :
            policy.predicates[i].mandatory =>
                Satisfied(Input, Tally(Input), policy.predicates[i])
    <3>1. FailedMandatory(Input, Tally(Input)) = {}
      BY <2>1 DEF HardInvalid
    <3>2. Input.spec = policy
      BY <1>1, PolicyIsValid
    <3> QED BY <3>1, <3>2 DEF FailedMandatory
  <2> QED BY <2>2, <2>3, <2>4
<1>2. Shape => PassIsEarned
  BY <1>1 DEF PassIsEarned
<1> QED
  BY <1>2, Shaped, PTL

\* README "Critic model": under every valid specification whose aggregation does
\* more than count, a PASS has heard a current process in each required role.
THEOREM RolesHeard == Spec => []RolesBypassedOnlyByCounting
<1>1. ASSUME Shape, Evaluate(Input) = "Pass", policy.aggregation \notin CountingPolicies,
             NEW r \in policy.requiredRoles
      PROVE  \E f \in findings :
                Live(f) /\ RoleOf[f.critic] = r /\ f.outcome \in DecisiveOutcomes
  <2>1. PICK c \in Tally(Input).decisive : Tally(Input).votes[c].role = r
    BY <1>1, RequiredRolesAreHeard, PolicyIsValid
  <2>2. PICK f \in CountedFindings(Input) : f.critic = c /\ f.outcome \in DecisiveOutcomes
    BY DecisiveVoteIsSaid
  <2>3. CountedFindings(Input) = {g \in findings : Live(g)}
    BY <1>1, CountedAreLive DEF Shape, Input
  <2>4. RoleOf[c] = r
    BY <1>1, <2>1, TallyOfInput
  <2> QED BY <2>2, <2>3, <2>4
<1>2. Shape => RolesBypassedOnlyByCounting
  BY <1>1 DEF RolesBypassedOnlyByCounting, CountingPolicies
<1> QED
  BY <1>2, Shaped, PTL

-----------------------------------------------------------------------------
(* Dissent.                                                                *)

\* A critic of one decisive mind votes for it.
LEMMA UnanimousVote ==
    ASSUME NEW o \in DecisiveOutcomes, NEW c \in Unanimous(o)
    PROVE  c \in Critics /\ Dominant(Said(c)) = o
  BY DEF Unanimous, Dominant, DecisiveOutcomes

\* README "Disagreement": critics that contradict each other never add up to a
\* PASS, unless the specification tolerates as many dissenters as there are.
THEOREM DissentIsHeard == Spec => []DisagreementNeverPasses
<1>1. ASSUME Shape, Unanimous("Pass") # {}, Unanimous("Fail") # {}, Evaluate(Input) = "Pass"
      PROVE  /\ policy.disagreement = "ThresholdThenFail"
             /\ \E o \in DecisiveOutcomes :
                   Cardinality(Dissenters(o)) < policy.disagreementThreshold
  <2> DEFINE votes    == Tally(Input).votes
             decisive == Tally(Input).decisive
             n        == Tally(Input).disagreeing
             Outside(o) == {c \in decisive : votes[c].dominant # o}
  <2>1. /\ decisive = {c \in Critics : Dominant(Said(c)) \in DecisiveOutcomes}
        /\ \A c \in Critics : votes[c].dominant = Dominant(Said(c))
        /\ n = Disagreeing(votes, decisive)
    BY <1>1, TallyOfInput
  <2>2. /\ n = 0 \/ /\ policy.disagreement = "ThresholdThenFail"
                    /\ n < policy.disagreementThreshold
    BY <1>1, PassIsAggregated, PolicyIsValid
  <2> HIDE DEF votes, decisive, n
  <2>3. \A o \in DecisiveOutcomes : \A c \in Unanimous(o) :
            c \in decisive /\ votes[c].dominant = o
    BY <2>1, UnanimousVote
  <2>4. IsFiniteSet(decisive)
    BY <2>1, VerdictsAssumption, FS_Subset
  <2>5. PICK a \in Unanimous("Pass"), b \in Unanimous("Fail") : TRUE
    BY <1>1
  <2>6. /\ a \in decisive /\ b \in decisive
        /\ votes[a].dominant # votes[b].dominant
    BY <2>3, <2>5 DEF DecisiveOutcomes
  <2>7. \A c \in decisive : votes[c].dominant \in DecisiveOutcomes
    BY <2>1
  <2>8. /\ n \in Nat \ {0}
        /\ \E o \in DecisiveOutcomes : Cardinality(Outside(o)) <= n
    BY <2>1, <2>4, <2>6, <2>7, DisagreementIsCounted
  <2>9. PICK o \in DecisiveOutcomes : Cardinality(Outside(o)) <= n
    BY <2>8
  <2>10. Cardinality(Dissenters(o)) <= Cardinality(Outside(o))
         /\ Cardinality(Dissenters(o)) \in Nat /\ Cardinality(Outside(o)) \in Nat
    <3>1. Dissenters(o) \subseteq Outside(o)
      <4> SUFFICES ASSUME NEW c \in Dissenters(o) PROVE c \in Outside(o)
        OBVIOUS
      <4>1. PICK p \in DecisiveOutcomes : c \in Unanimous(p)
        BY DEF Dissenters
      <4>2. p # o
        BY <4>1 DEF Dissenters
      <4> QED BY <2>3, <4>1, <4>2
    <3>2. IsFiniteSet(Outside(o))
      BY <2>4, FS_Subset
    <3> HIDE DEF Outside
    <3>3. IsFiniteSet(Dissenters(o))
      BY <3>1, <3>2, FS_Subset
    <3> QED BY <3>1, <3>2, <3>3, FS_Subset, FS_CardinalityType
  <2>11. policy.disagreement = "ThresholdThenFail" /\ n < policy.disagreementThreshold
    BY <2>2, <2>8
  <2>12. policy.disagreementThreshold \in Nat
    BY <1>1, PolicyIsValid, ValidAggregationPolicy
  <2> HIDE DEF Outside
  <2>13. Cardinality(Dissenters(o)) < policy.disagreementThreshold
    BY <2>8, <2>9, <2>10, <2>11, <2>12
  <2> QED BY <2>11, <2>13
<1>2. Shape => DisagreementNeverPasses
  BY <1>1 DEF DisagreementNeverPasses
<1> QED
  BY <1>2, Shaped, PTL

-----------------------------------------------------------------------------
(* Replaced processes and repetitions.                                     *)

\* Inputs of the driver differ in their findings only, all of which are about the
\* reviewed generation.
LEMMA InputsDifferInFindings ==
    ASSUME NEW fs, NEW gs, \A f \in fs \cup gs : Repeats(f)
    PROVE  /\ SameButFindings(InputWith(fs), InputWith(gs))
           /\ AllOfTheTarget(InputWith(fs)) <=> AllOfTheTarget(InputWith(gs))
<1>1. SameButFindings(InputWith(fs), InputWith(gs))
  BY DEF SameButFindings, InputWith
<1>2. \A hs : /\ InputWith(hs).findings = hs
              /\ InputWith(hs).review.targetGeneration = 1
  BY DEF InputWith
<1> QED
  BY <1>1, <1>2 DEF AllOfTheTarget, Repeats

\* README "Incumbency versus liveness": what a replaced process said has no part
\* in the disposition, whatever the specification.
THEOREM ReplacedForgotten == Spec => []ReplacedProcessIsForgotten
<1>1. ASSUME Shape, NEW c \in Critics, boot[c] = "new"
      PROVE  Evaluate(Input) =
             Evaluate(InputWith({f \in findings : f.critic = c => f.boot = "new"}))
  <2> DEFINE fs == {f \in findings : f.critic = c => f.boot = "new"}
  <2>1. \A f \in findings \cup fs : Repeats(f)
    BY <1>1 DEF Shape
  <2>2. {f \in findings : Live(f)} = {f \in fs : Live(f)}
    BY <1>1 DEF Live
  <2> HIDE DEF fs
  <2>3. /\ CountedFindings(InputWith(findings)) = {f \in findings : Live(f)}
        /\ CountedFindings(InputWith(fs)) = {f \in fs : Live(f)}
    BY <1>1, <2>1, CountedAreLive DEF Shape
  <2>4. /\ SameButFindings(InputWith(findings), InputWith(fs))
        /\ AllOfTheTarget(InputWith(findings)) <=> AllOfTheTarget(InputWith(fs))
    BY <2>1, InputsDifferInFindings
  <2>5. Evaluate(InputWith(findings)) = Evaluate(InputWith(fs))
    BY <2>2, <2>3, <2>4, UncountedHaveNoSay
  <2> QED BY <2>5 DEF Input, fs
<1>2. Shape => ReplacedProcessIsForgotten
  BY <1>1 DEF ReplacedProcessIsForgotten
<1> QED
  BY <1>2, Shaped, PTL

\* A repetition of what the current process has said changes no disposition.
LEMMA EchoIsSilent ==
    ASSUME Shape, NEW k \in FindingChoices, k.outcome # "Fail", ~CountsFindings,
           NEW f \in Copies(k), Live(f)
    PROVE  Evaluate(InputWith(findings \cup {Published(k)})) = Evaluate(Input)
<1> DEFINE p  == Published(k)
           fs == findings \cup {p}
           s  == CountedFindings(InputWith(findings))
           r  == CountedFindings(InputWith(fs))
<1>1. /\ Repeats(p) /\ Live(p)
      /\ p.critic = k.critic /\ p.outcome = k.outcome /\ p.evidence = k.evidence
      /\ p.category = "General"
  BY DEF Repeats, Published, Live
<1>2. /\ f \in findings /\ Repeats(f)
      /\ f.critic = k.critic /\ f.outcome = k.outcome /\ f.evidence = k.evidence
      /\ f.category = "General"
  BY DEF Copies, Shape, Repeats
<1> HIDE DEF p
<1>3. \A g \in findings \cup fs : Repeats(g)
  BY <1>1 DEF Shape
<1>4. s = {g \in findings : Live(g)} /\ r = {g \in fs : Live(g)}
  BY <1>3, CountedAreLive DEF Shape
<1>5. r = s \cup {p} /\ f \in s
  BY <1>1, <1>2, <1>4
<1>6. /\ SameButFindings(InputWith(findings), InputWith(fs))
      /\ AllOfTheTarget(InputWith(findings)) <=> AllOfTheTarget(InputWith(fs))
  BY <1>3, InputsDifferInFindings
<1>7. InputWith(findings).spec = policy
  BY DEF InputWith
<1> HIDE DEF fs, s, r
<1>8. \A c : OutcomesSaid(s, c) = OutcomesSaid(r, c)
  BY <1>1, <1>2, <1>5 DEF OutcomesSaid
<1>9. Referenced(s) = Referenced(r)
  BY <1>1, <1>2, <1>5 DEF Referenced
<1>10. CriticalFails(InputWith(findings), s) = CriticalFails(InputWith(findings), r)
  BY <1>1, <1>5 DEF CriticalFails
<1>11. SameReading(InputWith(findings), s, r)
  BY <1>1, <1>2, <1>5, <1>7 DEF SameReading, CountsFindings
<1>12. Evaluate(InputWith(findings)) = Evaluate(InputWith(fs))
  BY <1>6, <1>8, <1>9, <1>10, <1>11, RepetitionIsNoArgument DEF s, r
<1> QED
  BY <1>12 DEF Input, fs, p

\* README "Quorum semantics": one logical critic contributes one vote however
\* often it repeats itself, under every specification that counts no findings.
THEOREM EchoesCount == Spec => EchoesCarryNoWeight
<1>1. ASSUME Shape, [Next]_vars, NEW k \in FindingChoices, Publish(k), k.outcome # "Fail",
             ~CountsFindings, NEW f \in Copies(k), Live(f)
      PROVE  Evaluate(Input') = Evaluate(Input)
  <2>1. Input' = InputWith(findings \cup {Published(k)})
    BY <1>1 DEF Publish, Input, InputWith, Seat, Worker
  <2> QED BY <1>1, <2>1, EchoIsSilent
<1>2. Shape /\ [Next]_vars =>
        \A k \in FindingChoices :
          /\ Publish(k)
          /\ k.outcome # "Fail"
          /\ ~CountsFindings
          /\ \E f \in Copies(k) : Live(f)
          => Evaluate(Input') = Evaluate(Input)
  BY <1>1
<1> QED
  BY <1>2, Shaped, PTL DEF EchoesCarryNoWeight, Spec

=============================================================================
