--------------------------- MODULE EvaluationProofs ---------------------------
(***************************************************************************)
(* Theorems about evaluate_review (module Evaluation) for every input.     *)
(***************************************************************************)
EXTENDS Evaluation, WellFoundedInduction, FiniteSetTheorems, TLAPS

-----------------------------------------------------------------------------
(* Least elements: the "first" row, predicate and assignment of the code.  *)

\* Every non-empty set of naturals has a least element, so the CHOOSE of a
\* first row or assignment picks a member of the set.
LEMMA LeastNatural ==
    ASSUME NEW S \in SUBSET Nat, S # {}
    PROVE  \E x \in S : \A y \in S : x <= y
<1> DEFINE Less == {ss \in Nat \X Nat : ss[1] < ss[2]}
<1>1. IsWellFoundedOn(Less, Nat)
  BY NatLessThanWellFounded, Zenon DEF OpToRel
<1>2. PICK x \in S : \A y \in S : ~(<<y, x>> \in Less)
  <2> HIDE DEF Less
  <2> QED BY <1>1, WFMin
<1>3. \A y \in S : ~(y < x)
  BY <1>2
<1> QED
  BY <1>3

-----------------------------------------------------------------------------
(* The result.                                                             *)

\* A matching row of a valid policy table names a disposition.
LEMMA PolicyTableType ==
    ASSUME NEW in, NEW t, ValidSpec(in.spec)
    PROVE  PolicyTable(in, t) \in Dispositions
<1> DEFINE rows == MatchingRows(in, t)
<1>1. PolicyTable(in, t) = IF rows = {} THEN "InsufficientEvidence"
                           ELSE in.spec.policyTable[Min(rows)].disposition
  BY DEF PolicyTable
<1>2. in.spec.policyTable \in Seq(PolicyRow)
  <2>1. ValidTable(in.spec)
    BY DEF ValidSpec
  <2> QED BY <2>1 DEF ValidTable
<1>3. rows \subseteq DOMAIN in.spec.policyTable
  BY DEF MatchingRows
<1> HIDE DEF rows
<1>4. CASE rows = {}
  BY <1>1, <1>4 DEF Dispositions
<1>5. CASE rows # {}
  <2>1. DOMAIN in.spec.policyTable \subseteq Nat
    BY <1>2
  <2>2. \E x \in rows : \A y \in rows : x <= y
    BY <1>3, <1>5, <2>1, LeastNatural
  <2>3. Min(rows) \in rows
    BY <2>2 DEF Min
  <2>4. in.spec.policyTable[Min(rows)] \in PolicyRow
    BY <1>2, <1>3, <2>3
  <2> QED
    BY <1>1, <1>5, <2>4 DEF PolicyRow
<1> QED
  BY <1>4, <1>5

\* evaluate_review always returns one of the dispositions of ReviewDisposition.
THEOREM EvaluateType ==
    ASSUME NEW in, ValidSpec(in.spec)
    PROVE  Evaluate(in) \in Dispositions
<1> DEFINE t == Tally(in)
           a == Aggregated(in, t)
           d == UnderDisagreementPolicy(in, t, a)
<1>1. PolicyTable(in, t) \in Dispositions
  BY PolicyTableType
<1>2. Evaluate(in) = IF in.review.state \in {"Cancelled", "Superseded", "RevalidationRequired"}
                     THEN in.review.state ELSE Settled(in, t, d)
  BY DEF Evaluate
<1> HIDE DEF t
<1>3. Rejected(in, t) \in Dispositions
  BY DEF Rejected, HardDisposition, Dispositions
<1>4. /\ AllRequiredPass(in, t) \in Dispositions
      /\ AnyCriticalFail(in, t) \in Dispositions
  BY DEF AllRequiredPass, AnyCriticalFail, FailOrWarn, Dispositions
<1>5. /\ QuorumPass(in, t) \in Dispositions
      /\ WeightedReview(in, t) \in Dispositions
  BY DEF QuorumPass, WeightedReview, Dispositions
<1>6. /\ RequiredRolePass(in, t) \in Dispositions
      /\ MajorityWithConstraints(in, t) \in Dispositions
      /\ ConsensusThreshold(in, t) \in Dispositions
  BY DEF RequiredRolePass, MajorityWithConstraints, ConsensusThreshold, PassUnlessWarned,
         Dispositions
<1>7. a \in Dispositions
  <2>1. "InsufficientEvidence" \in Dispositions /\ "Fail" \in Dispositions
    BY DEF Dispositions
  <2> QED
    BY <1>1, <1>3, <1>4, <1>5, <1>6, <2>1 DEF Aggregated
<1> HIDE DEF a
<1>8. d \in Dispositions
  BY <1>7 DEF UnderDisagreementPolicy, Dispositions
<1> HIDE DEF d
<1>9. Settled(in, t, d) \in Dispositions
  BY <1>8 DEF Settled, Dispositions
<1> QED
  BY <1>2, <1>9 DEF Dispositions

\* README "Quorum semantics" and "Challenge and rebuttal", for every review and
\* every valid specification: a PASS hides no failed mandatory predicate, no
\* lost authority, no open challenge, and does not come from silence.
THEOREM PassIsClean ==
    ASSUME NEW in, ValidSpec(in.spec), Evaluate(in) = "Pass"
    PROVE  /\ ~HardInvalid(in, Tally(in))
           /\ Tally(in).unresolved = {}
           /\ Tally(in).decisive # {}
<1> DEFINE t == Tally(in)
           a == Aggregated(in, t)
           d == UnderDisagreementPolicy(in, t, a)
<1>1. Settled(in, t, d) = "Pass"
  BY DEF Evaluate
<1> HIDE DEF t, a, d
<1>2. d = "Pass" /\ t.unresolved = {} /\ ~HardInvalid(in, t)
  BY <1>1 DEF Settled
<1>3. a = "Pass"
  BY <1>2 DEF d, UnderDisagreementPolicy
<1>4. t.decisive # {}
  BY <1>3 DEF a, Aggregated
<1> QED
  BY <1>2, <1>4 DEF t

-----------------------------------------------------------------------------
(* What the result does not depend on.                                     *)

\* The input in, for a review in the given state.
InState(in, state) ==
    [spec        |-> in.spec,
     review      |-> [state |-> state, targetGeneration |-> in.review.targetGeneration,
                      digest |-> in.review.digest,
                      authorityCurrent |-> in.review.authorityCurrent],
     assignments |-> in.assignments,
     findings    |-> in.findings,
     evidences   |-> in.evidences,
     challenges  |-> in.challenges,
     authority   |-> in.authority]

\* The state of the review counts no finding and no vote.
LEMMA TallyOfAnyState ==
    ASSUME NEW in, NEW x, NEW y
    PROVE  Tally(InState(in, x)) = Tally(InState(in, y))
<1>1. CountedFindings(InState(in, x)) = CountedFindings(InState(in, y))
  BY DEF CountedFindings, BoundToAuthority, InState
<1>2. \A counted : Votes(InState(in, x), counted) = Votes(InState(in, y), counted)
  BY DEF Votes, Assigned, LastAssignment, AssignmentsOf, InState
<1>3. \A counted, votes :
        Tallied(InState(in, x), counted, votes) = Tallied(InState(in, y), counted, votes)
  BY DEF Tallied, InState
<1> QED
  BY <1>1, <1>2, <1>3 DEF Tally

\* It satisfies no predicate ...
LEMMA RejectedInAnyState ==
    ASSUME NEW in, NEW x, NEW y, NEW t
    PROVE  /\ HardInvalid(InState(in, x), t) <=> HardInvalid(InState(in, y), t)
           /\ Rejected(InState(in, x), t) = Rejected(InState(in, y), t)
<1> DEFINE First(S) == CHOOSE i \in S : \A j \in S : i <= j
<1>1. \A p : Satisfied(InState(in, x), t, p) <=> Satisfied(InState(in, y), t, p)
  BY DEF Satisfied, ActiveAssignments, InState
<1>2. InState(in, x).spec = InState(in, y).spec
  BY DEF InState
<1>3. FailedMandatory(InState(in, x), t) = FailedMandatory(InState(in, y), t)
  BY <1>1, <1>2 DEF FailedMandatory
<1>4. HardInvalid(InState(in, x), t) <=> HardInvalid(InState(in, y), t)
  BY <1>3 DEF HardInvalid, InState
<1>5. \A i : Rejected(i, t) =
        IF FailedMandatory(i, t) = {} THEN "RevalidationRequired"
        ELSE HardDisposition(i.spec.predicates[First(FailedMandatory(i, t))].kind)
  BY DEF Rejected
<1> HIDE DEF First
<1> QED
  BY <1>2, <1>3, <1>4, <1>5

\* ... and no aggregation looks at it.
LEMMA AggregatedInAnyState ==
    ASSUME NEW in, NEW x, NEW y, NEW t
    PROVE  Aggregated(InState(in, x), t) = Aggregated(InState(in, y), t)
<1>1. PolicyTable(InState(in, x), t) = PolicyTable(InState(in, y), t)
  <2>1. MatchingRows(InState(in, x), t) = MatchingRows(InState(in, y), t)
    BY DEF MatchingRows, InState
  <2> QED BY <2>1 DEF PolicyTable, InState
<1>2. /\ AllRequiredPass(InState(in, x), t) = AllRequiredPass(InState(in, y), t)
      /\ AnyCriticalFail(InState(in, x), t) = AnyCriticalFail(InState(in, y), t)
      /\ QuorumPass(InState(in, x), t) = QuorumPass(InState(in, y), t)
      /\ WeightedReview(InState(in, x), t) = WeightedReview(InState(in, y), t)
      /\ RequiredRolePass(InState(in, x), t) = RequiredRolePass(InState(in, y), t)
      /\ MajorityWithConstraints(InState(in, x), t) = MajorityWithConstraints(InState(in, y), t)
      /\ ConsensusThreshold(InState(in, x), t) = ConsensusThreshold(InState(in, y), t)
  BY DEF AllRequiredPass, AnyCriticalFail, QuorumPass, WeightedReview, RequiredRolePass,
         MajorityWithConstraints, ConsensusThreshold, FailOrWarn, InState
<1>3. InState(in, x).spec = InState(in, y).spec
  BY DEF InState
<1> QED
  BY <1>1, <1>2, <1>3, RejectedInAnyState DEF Aggregated

\* README "Determinism": as long as a review is neither withdrawn nor waiting for
\* revalidation, evaluate_review gives the same result in every state of it.
THEOREM StateIsNoArgument ==
    ASSUME NEW in, NEW x, NEW y,
           {x, y} \cap {"Cancelled", "Superseded", "RevalidationRequired"} = {}
    PROVE  Evaluate(InState(in, x)) = Evaluate(InState(in, y))
<1> DEFINE t == Tally(InState(in, x))
           a == Aggregated(InState(in, x), t)
<1>1. t = Tally(InState(in, y))
  BY TallyOfAnyState
<1> HIDE DEF t
<1>2. a = Aggregated(InState(in, y), t)
  BY AggregatedInAnyState
<1> HIDE DEF a
<1>3. InState(in, x).spec = InState(in, y).spec
  BY DEF InState
<1>4. \A d : /\ UnderDisagreementPolicy(InState(in, x), t, d) =
                UnderDisagreementPolicy(InState(in, y), t, d)
             /\ Settled(InState(in, x), t, d) = Settled(InState(in, y), t, d)
  BY <1>3, RejectedInAnyState DEF UnderDisagreementPolicy, Settled
<1>5. /\ InState(in, x).review.state = x
      /\ InState(in, y).review.state = y
  BY DEF InState
<1>6. /\ Evaluate(InState(in, x)) =
         Settled(InState(in, x), t, UnderDisagreementPolicy(InState(in, x), t, a))
      /\ Evaluate(InState(in, y)) =
         Settled(InState(in, y), t, UnderDisagreementPolicy(InState(in, y), t, a))
  BY <1>1, <1>2, <1>5 DEF Evaluate, t, a
<1> QED
  BY <1>4, <1>6

-----------------------------------------------------------------------------
(* What a PASS says of the votes.                                          *)

\* A critic votes decisively only for an outcome it has said.
LEMMA DominantIsSaid ==
    ASSUME NEW S, Dominant(S) \in DecisiveOutcomes
    PROVE  Dominant(S) \in S
  BY DEF Dominant, DecisiveOutcomes

\* A decisive vote rests on a finding that counts.
LEMMA DecisiveVoteIsSaid ==
    ASSUME NEW in, NEW c \in Tally(in).decisive
    PROVE  \E f \in CountedFindings(in) :
              /\ f.critic = c
              /\ f.outcome = Tally(in).votes[c].dominant
              /\ f.outcome \in DecisiveOutcomes
<1> DEFINE counted == CountedFindings(in)
           votes   == Votes(in, counted)
           said    == {f.outcome : f \in {g \in counted : g.critic = c}}
<1>1. Tally(in) = Tallied(in, counted, votes)
  BY DEF Tally
<1> HIDE DEF votes
<1>2. /\ Tally(in).votes = votes
      /\ Tally(in).decisive =
            {d \in DOMAIN votes : votes[d].dominant \in DecisiveOutcomes}
  BY <1>1 DEF Tallied
<1>3. c \in DOMAIN votes /\ votes[c].dominant \in DecisiveOutcomes
  BY <1>2
<1>4. votes[c].dominant = Dominant(said)
  BY <1>3 DEF votes, Votes
<1>5. Dominant(said) \in said
  BY <1>3, <1>4, DominantIsSaid
<1> QED
  BY <1>2, <1>3, <1>4, <1>5

\* The aggregate under a PASS is a PASS, and the votes either agree or the
\* specification tolerates that many dissenters.
LEMMA PassIsAggregated ==
    ASSUME NEW in, Evaluate(in) = "Pass"
    PROVE  /\ Aggregated(in, Tally(in)) = "Pass"
           /\ \/ Tally(in).disagreeing = 0
              \/ /\ in.spec.disagreement = "ThresholdThenFail"
                 /\ Tally(in).disagreeing < in.spec.disagreementThreshold
<1> DEFINE t == Tally(in)
           a == Aggregated(in, t)
           d == UnderDisagreementPolicy(in, t, a)
<1>1. Settled(in, t, d) = "Pass"
  BY DEF Evaluate
<1> HIDE DEF t, a, d
<1>2. d = "Pass"
  BY <1>1 DEF Settled
<1>3. /\ a = "Pass"
      /\ \/ t.disagreeing = 0
         \/ /\ in.spec.disagreement = "ThresholdThenFail"
            /\ t.disagreeing < in.spec.disagreementThreshold
  BY <1>2 DEF d, UnderDisagreementPolicy
<1> QED
  BY <1>3 DEF t, a

\* A valid specification names an aggregation policy, and tolerates a number
\* of dissenters.
LEMMA ValidAggregationPolicy ==
    ASSUME NEW spec, ValidSpec(spec)
    PROVE  /\ spec.aggregation \in AggregationPolicies
           /\ spec.disagreementThreshold \in Nat
<1>1. ValidAggregation(spec)
  BY DEF ValidSpec
<1> QED
  BY <1>1 DEF ValidAggregation

CountingPolicies == {"QuorumPass", "ConsensusThreshold", "PolicyTable"}

\* README "Critic model", for every review and every valid specification: under
\* an aggregation that does more than count, a PASS has heard a decisive vote
\* for each required role, whether or not a predicate names the roles.
THEOREM RequiredRolesAreHeard ==
    ASSUME NEW in, ValidSpec(in.spec), Evaluate(in) = "Pass",
           in.spec.aggregation \notin CountingPolicies
    PROVE  \A r \in in.spec.requiredRoles :
              \E c \in Tally(in).decisive : Tally(in).votes[c].role = r
<1> DEFINE t       == Tally(in)
           covered == {r \in in.spec.requiredRoles :
                          \E c \in t.decisive : t.votes[c].role = r}
<1>1. t.quorumMet => covered = in.spec.requiredRoles
  BY DEF Tally, Tallied
<1>2. Aggregated(in, t) = "Pass"
  BY PassIsAggregated
<1> HIDE DEF t
<1>3. Rejected(in, t) # "Pass"
  BY DEF Rejected, HardDisposition
<1>4. in.spec.aggregation \in {"AllRequiredPass", "AnyCriticalFail", "WeightedReview",
                               "RequiredRolePass", "MajorityWithConstraints"}
  BY ValidAggregationPolicy DEF AggregationPolicies, CountingPolicies
<1>5. \/ AllRequiredPass(in, t) = "Pass"
      \/ AnyCriticalFail(in, t) = "Pass"
      \/ WeightedReview(in, t) = "Pass"
      \/ RequiredRolePass(in, t) = "Pass"
      \/ MajorityWithConstraints(in, t) = "Pass"
  BY <1>2, <1>3, <1>4 DEF Aggregated
<1>6. t.quorumMet
  BY <1>5 DEF AllRequiredPass, AnyCriticalFail, WeightedReview, RequiredRolePass,
              MajorityWithConstraints
<1> QED
  BY <1>1, <1>6 DEF t

-----------------------------------------------------------------------------
(* Disagreement.                                                           *)

\* When two critics vote for different outcomes, those that are counted as
\* disagreeing are at least all critics outside one of the camps, and some.
LEMMA DisagreementIsCounted ==
    ASSUME NEW votes, NEW decisive, IsFiniteSet(decisive),
           \A c \in decisive : votes[c].dominant \in DecisiveOutcomes,
           NEW a \in decisive, NEW b \in decisive, votes[a].dominant # votes[b].dominant
    PROVE  /\ Disagreeing(votes, decisive) \in Nat \ {0}
           /\ \E o \in DecisiveOutcomes :
                 Cardinality({c \in decisive : votes[c].dominant # o})
                     <= Disagreeing(votes, decisive)
<1> DEFINE Camp(o)    == {c \in decisive : votes[c].dominant = o}
           Outside(o) == {c \in decisive : votes[c].dominant # o}
           With(o)    == Cardinality(Camp(o))
           sides      == {o \in DecisiveOutcomes : With(o) > 0}
           leaders    == {o \in sides : \A p \in sides : With(p) <= With(o)}
           n          == Cardinality(decisive)
<1>1. Disagreeing(votes, decisive) =
        CASE Cardinality(sides) <= 1   -> 0
          [] Cardinality(leaders) > 1  -> n
          [] OTHER -> n - With(CHOOSE o \in leaders : TRUE)
  BY DEF Disagreeing
<1>2. \A o : /\ IsFiniteSet(Camp(o)) /\ IsFiniteSet(Outside(o))
             /\ Cardinality(Camp(o)) \in Nat /\ Cardinality(Outside(o)) \in Nat
             /\ Cardinality(Outside(o)) <= n
  <2> TAKE o
  <2>1. Camp(o) \in SUBSET decisive /\ Outside(o) \in SUBSET decisive
    OBVIOUS
  <2> HIDE DEF Camp, Outside
  <2> QED BY <2>1, FS_Subset, FS_CardinalityType
<1>3. \A o : Cardinality(Outside(o)) = n - With(o)
  <2> TAKE o
  <2>1. Outside(o) = decisive \ Camp(o)
    OBVIOUS
  <2>2. Camp(o) \subseteq decisive
    OBVIOUS
  <2>3. decisive \cap Camp(o) = Camp(o)
    BY <2>2
  <2> HIDE DEF Camp, Outside
  <2> QED BY <2>1, <2>3, FS_Difference
<1>4. n \in Nat /\ n # 0
  BY FS_CardinalityType, FS_EmptySet
<1>5. \A c \in decisive : With(votes[c].dominant) > 0
  <2> TAKE c \in decisive
  <2>1. Camp(votes[c].dominant) # {}
    OBVIOUS
  <2>2. IsFiniteSet(Camp(votes[c].dominant)) /\ Cardinality(Camp(votes[c].dominant)) \in Nat
    BY <1>2
  <2> HIDE DEF Camp
  <2>3. Cardinality(Camp(votes[c].dominant)) # 0
    BY <2>1, <2>2, FS_EmptySet
  <2> QED BY <2>2, <2>3
<1>6. votes[a].dominant \in sides /\ votes[b].dominant \in sides
  BY <1>5
<1>7. IsFiniteSet(DecisiveOutcomes)
  <2>1. DecisiveOutcomes = ({"Pass"} \cup {"Fail"}) \cup {"Warn"}
    BY DEF DecisiveOutcomes
  <2> QED BY <2>1, FS_Singleton, FS_AddElement
<1>8. IsFiniteSet(sides) /\ Cardinality(sides) \in Nat
  BY <1>7, FS_Subset, FS_CardinalityType
<1>9. ~(Cardinality(sides) <= 1)
  <2>1. Cardinality(sides) # 0
    BY <1>6, <1>8, FS_EmptySet
  <2>2. Cardinality(sides) # 1
    BY <1>6, <1>8, FS_Singleton
  <2> QED BY <1>8, <2>1, <2>2
<1>10. CASE Cardinality(leaders) > 1
  <2>1. Disagreeing(votes, decisive) = n
    BY <1>1, <1>9, <1>10
  <2>2. Cardinality(Outside("Pass")) <= n
    BY <1>2
  <2> QED BY <1>4, <2>1, <2>2 DEF DecisiveOutcomes
<1>11. CASE ~(Cardinality(leaders) > 1)
  <2> DEFINE o == CHOOSE x \in leaders : TRUE
  <2>1. leaders # {}
    <3> DEFINE counts == {With(p) : p \in sides}
               top    == {m \in Nat : \A p \in sides : With(p) <= m}
    <3>1. \A p \in sides : With(p) \in Nat /\ With(p) <= n
      <4> TAKE p \in sides
      <4>1. Cardinality(Outside(p)) \in Nat /\ With(p) \in Nat
        BY <1>2
      <4>2. Cardinality(Outside(p)) = n - With(p)
        BY <1>3
      <4> HIDE DEF Outside, With, n
      <4> QED BY <1>4, <4>1, <4>2
    <3>2. n \in top
      BY <1>4, <3>1
    <3>3. PICK m \in top : \A k \in top : m <= k
      BY <3>2, LeastNatural
    <3>4. ASSUME \A p \in sides : With(p) # m PROVE FALSE
      <4>1. \A p \in sides : With(p) <= m - 1
        BY <3>1, <3>3, <3>4
      <4>2. m - 1 \in Nat
        BY <1>6, <3>1, <3>3, <4>1
      <4>3. m - 1 \in top
        BY <4>1, <4>2
      <4> QED BY <3>3, <4>3
    <3> QED BY <3>3, <3>4
  <2>2. o \in leaders
    BY <2>1
  <2>3. o \in DecisiveOutcomes
    BY <2>2
  <2>4. Disagreeing(votes, decisive) = n - With(o)
    BY <1>1, <1>9, <1>11
  <2>5. Disagreeing(votes, decisive) = Cardinality(Outside(o))
    BY <1>3, <2>4
  <2>6. Outside(o) # {}
    BY <1>6
  <2>7. Cardinality(Outside(o)) \in Nat \ {0}
    BY <1>2, <2>6, FS_EmptySet
  <2>8. Cardinality(Outside(o)) <= Disagreeing(votes, decisive)
    <3> DEFINE k == Cardinality(Outside(o))
    <3>1. Disagreeing(votes, decisive) = k /\ k \in Nat
      BY <2>5, <2>7
    <3> HIDE DEF k
    <3>2. k <= Disagreeing(votes, decisive)
      BY <3>1
    <3> QED BY <3>2 DEF k
  <2>9. Disagreeing(votes, decisive) \in Nat \ {0}
    BY <2>5, <2>7
  <2> HIDE DEF o
  <2> QED BY <2>3, <2>8, <2>9
<1> QED
  BY <1>10, <1>11

-----------------------------------------------------------------------------
(* What the result reads of the findings.                                  *)

SameButFindings(x, y) ==
    /\ x.spec = y.spec
    /\ x.review = y.review
    /\ x.assignments = y.assignments
    /\ x.evidences = y.evidences
    /\ x.challenges = y.challenges
    /\ x.authority = y.authority

\* Everything that is read off the findings but the findings themselves.
SameBasis(t, u) ==
    /\ t.votes = u.votes
    /\ t.decisive = u.decisive
    /\ t.missing = u.missing
    /\ t.usable = u.usable
    /\ t.unverified = u.unverified
    /\ t.unknownProvenance = u.unknownProvenance
    /\ t.uncovered = u.uncovered
    /\ t.quorumMet <=> u.quorumMet
    /\ t.criticalFails = u.criticalFails
    /\ t.disagreeing = u.disagreeing
    /\ t.unresolved = u.unresolved

OutcomesSaid(fs, c) == {f.outcome : f \in {g \in fs : g.critic = c}}

CriticalFails(in, fs) == {f \in fs : f.outcome = "Fail" /\ f.severity >= in.spec.failThreshold}

\* What is looked up in the counted findings themselves: whether there is an
\* UNKNOWN, and which categories are spoken of.  Their number matters only to
\* policy tables and category minimums.
SameReading(in, s, t) ==
    /\ (\E f \in s : f.outcome = "Unknown") <=> (\E f \in t : f.outcome = "Unknown")
    /\ \A k : (\E f \in s : f.category = k /\ f.outcome \in DecisiveOutcomes) <=>
              (\E f \in t : f.category = k /\ f.outcome \in DecisiveOutcomes)
    /\ \/ s = t
       \/ in.spec.aggregation # "PolicyTable" /\ DOMAIN in.spec.requiredMinCategories = {}

AllOfTheTarget(in) ==
    \A f \in in.findings : f.targetGeneration = in.review.targetGeneration

\* The votes are a matter of who is assigned and which outcomes each has said.
LEMMA VotesReadOutcomes ==
    ASSUME NEW x, NEW y, x.assignments = y.assignments, NEW s, NEW t,
           \A c : OutcomesSaid(s, c) = OutcomesSaid(t, c)
    PROVE  Votes(x, s) = Votes(y, t)
<1>1. \A c : /\ AssignmentsOf(x, c) = AssignmentsOf(y, c)
             /\ LastAssignment(x, c) = LastAssignment(y, c)
             /\ Assigned(x, c) <=> Assigned(y, c)
  BY DEF AssignmentsOf, LastAssignment, Assigned
<1>2. \A in, fs : Votes(in, fs) =
        [c \in {d \in {a.critic : a \in in.assignments} : Assigned(in, d)} |->
            [role     |-> LastAssignment(in, c).role,
             required |-> LastAssignment(in, c).required,
             weight   |-> LastAssignment(in, c).weight,
             dominant |-> Dominant(OutcomesSaid(fs, c))]]
  BY DEF Votes, OutcomesSaid
<1> QED
  BY <1>1, <1>2

\* Findings that say the same and cite the same give the same basis.
LEMMA TalliesAgree ==
    ASSUME NEW x, NEW y, SameButFindings(x, y), NEW s, NEW t, NEW votes,
           Referenced(s) = Referenced(t), CriticalFails(x, s) = CriticalFails(x, t)
    PROVE  SameBasis(Tallied(x, s, votes), Tallied(y, t, votes))
<1> DEFINE decisive == {c \in DOMAIN votes : votes[c].dominant \in DecisiveOutcomes}
           Known(E, R) == {e \in E : e.id \in R}
           Missing(E, R) == R \ {e.id : e \in E}
           Usable(E, R) == {e \in Known(E, R) : e.verified /\ e.provenanceKnown}
           Unverified(E, R) == {e \in Known(E, R) : ~e.verified}
           Unknown(E, R) == {e \in Known(E, R) : ~e.provenanceKnown}
           Covered(spec) == {r \in spec.requiredRoles : \E c \in decisive : votes[c].role = r}
           Uncovered(spec) == spec.requiredRoles \ Covered(spec)
           QuorumMet(spec) ==
              /\ Cardinality(decisive) >= spec.quorum
              /\ Cardinality(decisive) >= spec.minCriticCount
              /\ Cardinality(Covered(spec)) >= spec.requiredCriticCount
              /\ Covered(spec) = spec.requiredRoles
           Unresolved(C) == {ch \in C : ~ch.resolved \/ ch.outcome = "Unresolved"}
<1>1. \A in, fs :
        /\ Tallied(in, fs, votes).votes = votes
        /\ Tallied(in, fs, votes).decisive = decisive
        /\ Tallied(in, fs, votes).disagreeing = Disagreeing(votes, decisive)
        /\ Tallied(in, fs, votes).criticalFails = Cardinality(CriticalFails(in, fs))
        /\ Tallied(in, fs, votes).unresolved = Unresolved(in.challenges)
  BY DEF Tallied, CriticalFails
<1>2. \A in, fs :
        /\ Tallied(in, fs, votes).missing = Missing(in.evidences, Referenced(fs))
        /\ Tallied(in, fs, votes).usable = Usable(in.evidences, Referenced(fs))
        /\ Tallied(in, fs, votes).unverified = Unverified(in.evidences, Referenced(fs))
        /\ Tallied(in, fs, votes).unknownProvenance = Unknown(in.evidences, Referenced(fs))
  BY DEF Tallied
<1>3. \A in, fs :
        /\ Tallied(in, fs, votes).uncovered = Uncovered(in.spec)
        /\ Tallied(in, fs, votes).quorumMet = QuorumMet(in.spec)
  BY DEF Tallied, Denominator
<1>4. CriticalFails(y, t) = CriticalFails(x, t)
  BY DEF CriticalFails, SameButFindings
<1> DEFINE a == Tallied(x, s, votes)
           b == Tallied(y, t, votes)
<1> HIDE DEF decisive, Missing, Usable, Unverified, Unknown, Uncovered, QuorumMet,
            Unresolved, a, b
<1>5. /\ a.votes = b.votes /\ a.decisive = b.decisive
      /\ a.disagreeing = b.disagreeing /\ a.unresolved = b.unresolved
  BY <1>1 DEF a, b, SameButFindings
<1>6. a.criticalFails = b.criticalFails
  <2>1. a.criticalFails = Cardinality(CriticalFails(x, s))
    BY <1>1 DEF a
  <2>2. b.criticalFails = Cardinality(CriticalFails(y, t))
    BY <1>1 DEF b
  <2> QED BY <1>4, <2>1, <2>2
<1>7. /\ a.missing = b.missing /\ a.usable = b.usable /\ a.unverified = b.unverified
      /\ a.unknownProvenance = b.unknownProvenance
  BY <1>2 DEF a, b, SameButFindings
<1>8. a.uncovered = b.uncovered /\ a.quorumMet = b.quorumMet
  BY <1>3 DEF a, b, SameButFindings
<1> QED
  BY <1>5, <1>6, <1>7, <1>8 DEF SameBasis, a, b

\* Each predicate is met by both or by neither.
LEMMA SatisfiedAgree ==
    ASSUME NEW x, NEW y, SameButFindings(x, y), AllOfTheTarget(x) <=> AllOfTheTarget(y),
           NEW t, NEW u, SameBasis(t, u), SameReading(x, t.counted, u.counted), NEW p
    PROVE  Satisfied(x, t, p) <=> Satisfied(y, u, p)
<1>1. \A k : DecisiveIn(t, k) # {} <=> DecisiveIn(u, k) # {}
  BY DEF DecisiveIn, SameReading
<1>2. \/ DOMAIN x.spec.requiredMinCategories = {}
      \/ \A k : DecisiveIn(t, k) = DecisiveIn(u, k)
  BY DEF DecisiveIn, SameReading
<1>3. ActiveAssignments(x) = ActiveAssignments(y)
  BY DEF ActiveAssignments, SameButFindings
<1>4. CASE p.kind = "ExactTargetGenerationMatch"
  BY <1>4 DEF Satisfied, SameButFindings, AllOfTheTarget
<1>5. CASE p.kind = "RequiredCategoriesCovered"
  BY <1>1, <1>2, <1>5 DEF Satisfied, SameButFindings
<1>6. CASE p.kind \in {"TargetDigestMatch", "CoordinatorEpochCurrent", "CriticGenerationCurrent",
                       "WorkerBootCurrent"}
  BY <1>3, <1>6 DEF Satisfied, SameButFindings
<1>7. CASE p.kind \in {"RequiredEvidencePresent", "EvidenceIntegrityVerified",
                       "EvidenceProvenanceKnown", "RequiredRolePresent", "QuorumSatisfied"}
  BY <1>7 DEF Satisfied, SameButFindings, SameBasis
<1>8. CASE p.kind \in {"MinimumIndependentCriticIdentities", "RequiredVerifierPass",
                       "NoCriticalFailFindings"}
  BY <1>8 DEF Satisfied, SameButFindings, SameBasis
<1> DEFINE kinds == {"ExactTargetGenerationMatch", "RequiredCategoriesCovered",
                     "TargetDigestMatch", "CoordinatorEpochCurrent", "CriticGenerationCurrent",
                     "WorkerBootCurrent", "RequiredEvidencePresent",
                     "EvidenceIntegrityVerified", "EvidenceProvenanceKnown",
                     "RequiredRolePresent", "QuorumSatisfied",
                     "MinimumIndependentCriticIdentities", "RequiredVerifierPass",
                     "NoCriticalFailFindings"}
<1>9. CASE p.kind \notin kinds
  BY <1>9 DEF Satisfied
<1> QED
  BY <1>4, <1>5, <1>6, <1>7, <1>8, <1>9

\* No aggregation but a policy table looks at the findings.
LEMMA AggregatedAgree ==
    ASSUME NEW x, NEW y, SameButFindings(x, y), AllOfTheTarget(x) <=> AllOfTheTarget(y),
           NEW t, NEW u, SameBasis(t, u), SameReading(x, t.counted, u.counted)
    PROVE  /\ HardInvalid(x, t) <=> HardInvalid(y, u)
           /\ Aggregated(x, t) = Aggregated(y, u)
<1>1. x.spec = y.spec /\ x.review = y.review
  BY DEF SameButFindings
<1>2. \A p : Satisfied(x, t, p) <=> Satisfied(y, u, p)
  BY SatisfiedAgree
<1>3. FailedMandatory(x, t) = FailedMandatory(y, u)
  BY <1>1, <1>2 DEF FailedMandatory
<1>4. HardInvalid(x, t) <=> HardInvalid(y, u)
  BY <1>1, <1>3 DEF HardInvalid
<1>5. Rejected(x, t) = Rejected(y, u)
  <2> DEFINE First(S) == CHOOSE i \in S : \A j \in S : i <= j
  <2>1. \A in, v : Rejected(in, v) =
          IF FailedMandatory(in, v) = {} THEN "RevalidationRequired"
          ELSE HardDisposition(in.spec.predicates[First(FailedMandatory(in, v))].kind)
    BY DEF Rejected
  <2> HIDE DEF First
  <2> QED BY <1>1, <1>3, <2>1
<1>6. \A o : VotesFor(t, o) = VotesFor(u, o)
  BY DEF VotesFor, SameBasis
<1>7. \A o : WeightFor(t, o) = WeightFor(u, o)
  <2>1. t.votes = u.votes
    BY DEF SameBasis
  <2> QED BY <1>6, <2>1 DEF WeightFor
<1>8. PassUnlessWarned(t) = PassUnlessWarned(u) /\ FailOrWarn(x) = FailOrWarn(y)
  BY <1>1, <1>6 DEF PassUnlessWarned, FailOrWarn
<1>9. t.decisive = u.decisive /\ t.votes = u.votes /\ (t.quorumMet <=> u.quorumMet)
      /\ t.criticalFails = u.criticalFails
  BY DEF SameBasis
<1>10. /\ AllRequiredPass(x, t) = AllRequiredPass(y, u)
       /\ AnyCriticalFail(x, t) = AnyCriticalFail(y, u)
       /\ QuorumPass(x, t) = QuorumPass(y, u)
  BY <1>1, <1>6, <1>8, <1>9 DEF AllRequiredPass, AnyCriticalFail, QuorumPass
<1>11. WeightedReview(x, t) = WeightedReview(y, u)
  BY <1>7, <1>9 DEF WeightedReview
<1>12. /\ RequiredRolePass(x, t) = RequiredRolePass(y, u)
       /\ MajorityWithConstraints(x, t) = MajorityWithConstraints(y, u)
  BY <1>1, <1>6, <1>8, <1>9 DEF RequiredRolePass, MajorityWithConstraints
<1>13. ConsensusThreshold(x, t) = ConsensusThreshold(y, u)
  BY <1>1, <1>6, <1>8, <1>9 DEF ConsensusThreshold
<1>14. x.spec.aggregation = "PolicyTable" => PolicyTable(x, t) = PolicyTable(y, u)
  <2> SUFFICES ASSUME x.spec.aggregation = "PolicyTable"
               PROVE  PolicyTable(x, t) = PolicyTable(y, u)
    OBVIOUS
  <2>1. t.counted = u.counted
    BY DEF SameReading
  <2>2. \A row : Matches(t, row) <=> Matches(u, row)
    BY <2>1 DEF Matches
  <2>3. MatchingRows(x, t) = MatchingRows(y, u)
    BY <1>1, <2>2 DEF MatchingRows
  <2> QED BY <1>1, <2>3 DEF PolicyTable
<1>15. Aggregated(x, t) = Aggregated(y, u)
  BY <1>1, <1>4, <1>5, <1>9, <1>10, <1>11, <1>12, <1>13, <1>14 DEF Aggregated
<1> QED
  BY <1>4, <1>15

\* README "Quorum semantics": the disposition is the same for all findings that
\* say the same through their critics and cite the same evidence, however often
\* they say it, unless the specification counts findings.
THEOREM RepetitionIsNoArgument ==
    ASSUME NEW x, NEW y, SameButFindings(x, y), AllOfTheTarget(x) <=> AllOfTheTarget(y),
           \A c : OutcomesSaid(CountedFindings(x), c) = OutcomesSaid(CountedFindings(y), c),
           Referenced(CountedFindings(x)) = Referenced(CountedFindings(y)),
           CriticalFails(x, CountedFindings(x)) = CriticalFails(x, CountedFindings(y)),
           SameReading(x, CountedFindings(x), CountedFindings(y))
    PROVE  Evaluate(x) = Evaluate(y)
<1> DEFINE s == CountedFindings(x)
           r == CountedFindings(y)
           v == Votes(x, s)
           t == Tally(x)
           u == Tally(y)
           a == Aggregated(x, t)
           d == UnderDisagreementPolicy(x, t, a)
<1>1. v = Votes(y, r)
  BY VotesReadOutcomes DEF SameButFindings
<1>2. t = Tallied(x, s, v) /\ u = Tallied(y, r, v)
  BY <1>1 DEF Tally
<1>3. t.counted = s /\ u.counted = r
  BY <1>2 DEF Tallied
<1> HIDE DEF v, t, u
<1>4. SameBasis(t, u)
  BY <1>2, TalliesAgree
<1>5. SameReading(x, t.counted, u.counted)
  BY <1>3
<1>6. (HardInvalid(x, t) <=> HardInvalid(y, u)) /\ a = Aggregated(y, u)
  BY <1>4, <1>5, AggregatedAgree
<1> HIDE DEF s, r, a
<1>7. x.spec = y.spec /\ x.review = y.review
  BY DEF SameButFindings
<1>8. t.disagreeing = u.disagreeing /\ t.unresolved = u.unresolved
  BY <1>4 DEF SameBasis
<1>9. d = UnderDisagreementPolicy(y, u, a)
  BY <1>7, <1>8 DEF UnderDisagreementPolicy
<1> HIDE DEF d
<1>10. (\E f \in t.counted : f.outcome = "Unknown") <=> (\E f \in u.counted : f.outcome = "Unknown")
  BY <1>5 DEF SameReading
<1>11. Settled(x, t, d) = Settled(y, u, d)
  BY <1>6, <1>7, <1>8, <1>10 DEF Settled
<1>12. /\ Evaluate(x) =
            IF x.review.state \in {"Cancelled", "Superseded", "RevalidationRequired"}
            THEN x.review.state ELSE Settled(x, t, d)
       /\ Evaluate(y) =
            IF y.review.state \in {"Cancelled", "Superseded", "RevalidationRequired"}
            THEN y.review.state ELSE Settled(y, u, d)
  BY <1>6, <1>9 DEF Evaluate, t, u, a, d
<1> QED
  BY <1>7, <1>11, <1>12

\* README "Incumbency versus liveness": a finding that does not count under
\* current authority has no say, as long as it is about the reviewed generation.
THEOREM UncountedHaveNoSay ==
    ASSUME NEW x, NEW y, SameButFindings(x, y), AllOfTheTarget(x) <=> AllOfTheTarget(y),
           CountedFindings(x) = CountedFindings(y)
    PROVE  Evaluate(x) = Evaluate(y)
  BY RepetitionIsNoArgument DEF SameReading

=============================================================================
