----------------------------- MODULE RecordProofs -----------------------------
(***************************************************************************)
(* Theorems about the records of a review: a closed review stays as it     *)
(* closed, a retired finding stays retired, a critic never holds two       *)
(* seats, and loses one with the process that held it; and about what      *)
(* critics say on a review and what is decided on it: decisions,           *)
(* challenges and contradictions.  Every call rewrites a review in one of  *)
(* a few ways (Rewrites); the latter theorems look at these ways only.     *)
(* Last, what a reader is told of a review (CoordinatorRefinement): every  *)
(* call maps to a step of ReviewAuthority, or to no step at all.           *)
(***************************************************************************)
EXTENDS CoordinatorRefinement, ReviewProofs

-----------------------------------------------------------------------------
(* Closed reviews.                                                         *)

\* What OutcomesAreFinal asks of one review.
Final(rev, new) ==
    rev.state \in TerminalStates =>
        /\ new.state = rev.state
        /\ new.disposition = rev.disposition
        /\ new.decision = rev.decision
        /\ new.authorityCurrent => rev.authorityCurrent

AllFinal == \A r \in DOMAIN reviews : Final(reviews[r], reviews'[r])

\* Revalidating and retiring leave a closed review alone but for its seats, and
\* superseding one takes its claim away.
LEMMA WithdrawalFinal ==
    ASSUME NEW rev \in Review
    PROVE  /\ Final(rev, Revalidate(rev))
           /\ \A retired : Final(rev, Retire(rev, retired))
           /\ Final(rev, Supersede(rev))
<1>1. Final(rev, Revalidate(rev))
  BY DEF Final, Revalidate
<1>2. ASSUME NEW retired
      PROVE  Final(rev, Retire(rev, retired))
  <2> DEFINE S   == {IF a \in retired THEN [a EXCEPT !.active = FALSE] ELSE a
                       : a \in rev.assignments}
             new == [rev EXCEPT !.assignments = S]
  <2>1. Retire(rev, retired) = IF retired = {} THEN rev ELSE Revalidate(new)
    BY DEF Retire
  <2> HIDE DEF S
  <2>2. /\ new.state = rev.state /\ new.disposition = rev.disposition
        /\ new.decision = rev.decision /\ new.authorityCurrent = rev.authorityCurrent
    BY DEF Review
  <2> HIDE DEF new
  <2>3. rev.state \in TerminalStates => Revalidate(new) = new
    BY <2>2 DEF Revalidate
  <2> QED BY <2>1, <2>2, <2>3 DEF Final
<1>3. Final(rev, Supersede(rev))
  BY DEF Final, Supersede, Review
<1> QED
  BY <1>1, <1>2, <1>3

\* A call that rewrites a review which is open closes nothing again.
LEMMA OpenIsRewritten ==
    ASSUME NEW r \in DOMAIN reviews, NEW new, reviews' = [reviews EXCEPT ![r] = new],
           reviews[r].state \notin TerminalStates
    PROVE  AllFinal
<1>1. \A x \in DOMAIN reviews \ {r} : reviews'[x] = reviews[x]
  OBVIOUS
<1> QED
  BY <1>1 DEF AllFinal, Final

\* No call touches the outcome of a closed review.
LEMMA FinalStep == TypeOK /\ [Next]_vars => AllFinal
<1> SUFFICES ASSUME TypeOK, [Next]_vars PROVE AllFinal
  OBVIOUS
<1>1. ASSUME \A r \in DOMAIN reviews :
               \/ reviews'[r] = reviews[r]
               \/ reviews'[r] = Revalidate(reviews[r])
               \/ reviews'[r] = Supersede(reviews[r])
               \/ \E retired : reviews'[r] = Retire(reviews[r], retired)
      PROVE  AllFinal
  <2>1. \A r \in DOMAIN reviews : Final(reviews[r], reviews[r])
    BY DEF Final
  <2> QED BY <1>1, <2>1, ReviewLookups, WithdrawalFinal DEF AllFinal
<1>2. ASSUME UNCHANGED reviews
      PROVE  AllFinal
  BY <1>1, <1>2
<1>3. CASE Control
  <2>1. ASSUME NEW e, NEW t, NEW content,
               RegisterTarget(e, t, content) \/ AdvanceTarget(e, t, content)
        PROVE  AllFinal
    BY <1>1, <2>1 DEF RegisterTarget, AdvanceTarget
  <2>2. ASSUME NEW e, NEW c, NEW capability, RegisterCritic(e, c, capability)
        PROVE  AllFinal
    BY <1>2, <2>2 DEF RegisterCritic
  <2>3. ASSUME NEW e, NEW c, NEW capability, NEW advance,
               AdvanceCritic(e, c, capability, advance)
        PROVE  AllFinal
    BY <1>1, <2>3 DEF AdvanceCritic
  <2>4. ASSUME NEW e, NEW r, NEW t, NEW g, NEW spec, DeclareReview(e, r, t, g, spec)
        PROVE  AllFinal
    BY <1>1, <2>4 DEF DeclareReview, Put
  <2>5. ASSUME NEW e, NEW r \in DOMAIN reviews, NEW batch, AssignCritics(e, r, batch)
        PROVE  AllFinal
    <3>1. \E new : reviews' = [reviews EXCEPT ![r] = new]
      BY <2>5 DEF AssignCritics
    <3> QED BY <2>5, <3>1, OpenIsRewritten DEF AssignCritics
  <2>6. ASSUME NEW e, NEW r \in DOMAIN reviews, CommitReview(e, r) \/ CancelReview(e, r)
        PROVE  AllFinal
    <3>1. \E new : reviews' = [reviews EXCEPT ![r] = new]
      BY <2>6 DEF CommitReview, CancelReview
    <3> QED BY <2>6, <3>1, OpenIsRewritten DEF CommitReview, CancelReview
  <2> QED
    BY <1>3, <2>1, <2>2, <2>3, <2>4, <2>5, <2>6 DEF Control
<1>4. CASE Incarnation
  <2>1. ASSUME NEW e, NEW w, NEW boot, NEW c, NEW g, RegisterWorker(e, w, boot, c, g)
        PROVE  AllFinal
    BY <1>1, <2>1 DEF RegisterWorker
  <2>2. ASSUME NEW e, NEW x, NEW ready, NEW healthy, NEW evidence,
               DeclareReadiness(e, x, ready, healthy, evidence)
        PROVE  AllFinal
    BY <1>2, <2>2 DEF DeclareReadiness
  <2>3. ASSUME NEW ws, Fence(ws)
        PROVE  AllFinal
    BY <1>1, <2>3 DEF Fence
  <2> QED
    BY <1>4, <2>1, <2>2, <2>3 DEF Incarnation, FenceWorker, FenceCritic
<1>5. CASE Output
  <2>1. ASSUME NEW m, CheckAuthority(m), \E new : reviews' = [reviews EXCEPT ![m.review] = new]
        PROVE  AllFinal
    <3>1. m.review \in DOMAIN reviews /\ reviews[m.review].state \notin TerminalStates
      BY <2>1 DEF CheckAuthority, AcceptsCriticInput, TerminalStates
    <3> QED BY <2>1, <3>1, OpenIsRewritten
  <2>2. \A m, input, f : SubmitEvidence(m, input, f) => AllFinal
    BY <2>1 DEF SubmitEvidence
  <2>3. ASSUME NEW m, NEW input, NEW f, SubmitFinding(m, input, f)
        PROVE  AllFinal
    <3> DEFINE rev == reviews[m.review]
               Recorded(findings, evidences) ==
                  [rev EXCEPT !.findings = findings, !.evidences = evidences]
               New(recorded) ==
                  IF rev.state \in {"Assigned", "Reviewing"}
                  THEN [recorded EXCEPT !.state = "FindingsReceived", !.disposition = "None",
                                        !.authorityCurrent = TRUE]
                  ELSE recorded
    <3>1. PICK findings, evidences :
            reviews' = [reviews EXCEPT ![m.review] = New(Recorded(findings, evidences))]
      BY <2>3 DEF SubmitFinding
    <3>2. CheckAuthority(m)
      BY <2>3 DEF SubmitFinding
    <3> HIDE DEF New, Recorded
    <3> QED BY <2>1, <3>1, <3>2
  <2>4. \A m, f : SubmitChallenge(m, f) => AllFinal
    BY <2>1 DEF SubmitChallenge
  <2>5. \A m, ch, outcome : SubmitRebuttal(m, ch, outcome) => AllFinal
    BY <2>1 DEF SubmitRebuttal
  <2> QED
    BY <1>5, <2>2, <2>3, <2>4, <2>5 DEF Output
<1>6. CASE Restart
  BY <1>1, <1>6 DEF Restart
<1>7. CASE UNCHANGED vars
  BY <1>2, <1>7 DEF vars
<1> QED
  BY <1>3, <1>4, <1>5, <1>6, <1>7 DEF Next

\* README "Authoritative review commit": no call, no restart and no message that
\* comes late rewrites the outcome of a closed review.
THEOREM OutcomesFinal == Spec => OutcomesAreFinal
<1>1. TypeOK /\ [Next]_vars =>
        [\A r \in DOMAIN reviews : reviews[r].state \in TerminalStates =>
            /\ reviews'[r].state = reviews[r].state
            /\ reviews'[r].disposition = reviews[r].disposition
            /\ reviews'[r].decision = reviews[r].decision
            /\ reviews'[r].authorityCurrent => reviews[r].authorityCurrent]_vars
  BY FinalStep DEF AllFinal, Final
<1> QED
  BY <1>1, TypeCorrect, PTL DEF Spec, OutcomesAreFinal

-----------------------------------------------------------------------------
(* Retired findings.                                                       *)

\* The records of a review are numbered 1, 2, ...: a fresh number is fresh, and
\* no two records share one.
Numbered(S) ==
    /\ IsFiniteSet(S)
    /\ \A x \in S : x.id \in 1 .. Cardinality(S)
    /\ \A x, y \in S : x.id = y.id => x = y

FindingsNumbered == \A r \in DOMAIN reviews : Numbered(reviews[r].findings)

\* What RetiredFindingsStayRetired asks of the findings of one review.
StayRetired(S, T) ==
    \A f \in S : \E g \in T :
        /\ g.id = f.id
        /\ f.state \notin CurrentFindingStates => g.state = f.state

\* Rewriting findings one by one keeps their numbers apart.
LEMMA NumberedImage ==
    ASSUME NEW S, Numbered(S), NEW F, F = [x \in S |-> F[x]],
           \A x \in S : F[x].id = x.id
    PROVE  Numbered({F[x] : x \in S}) /\ Cardinality({F[x] : x \in S}) = Cardinality(S)
<1> DEFINE T == {F[x] : x \in S}
<1>1. F \in Surjection(S, T)
  <2>1. F \in [S -> T]
    OBVIOUS
  <2> QED BY <2>1 DEF Surjection
<1>2. F \in Injection(S, T)
  <2>1. F \in [S -> T]
    OBVIOUS
  <2>2. \A x, y \in S : F[x] = F[y] => x = y
    BY DEF Numbered
  <2> HIDE DEF T
  <2> QED BY <2>1, <2>2 DEF Injection, IsInjective
<1>3. IsFiniteSet(T) /\ Cardinality(T) = Cardinality(S)
  <2>1. IsFiniteSet(S)
    BY DEF Numbered
  <2> HIDE DEF T
  <2> QED BY <1>1, <1>2, <2>1, FS_Surjection
<1>4. \A y \in T : \E x \in S : y = F[x] /\ y.id = x.id
  OBVIOUS
<1> HIDE DEF T
<1>5. \A y \in T : y.id \in 1 .. Cardinality(T)
  BY <1>3, <1>4 DEF Numbered
<1>6. \A y, z \in T : y.id = z.id => y = z
  BY <1>4 DEF Numbered
<1> QED
  BY <1>3, <1>5, <1>6 DEF Numbered, T

\* A record with the next number is another record.
LEMMA NumberedMore ==
    ASSUME NEW S, Numbered(S), NEW x, x.id = Fresh(S)
    PROVE  Numbered(S \cup {x})
<1>1. IsFiniteSet(S) /\ Cardinality(S) \in Nat
  BY FS_CardinalityType DEF Numbered
<1>2. \A y \in S : y.id \in 1 .. Cardinality(S) /\ y.id # x.id
  BY <1>1 DEF Numbered, Fresh
<1>3. IsFiniteSet(S \cup {x}) /\ Cardinality(S \cup {x}) = Cardinality(S) + 1
  BY <1>1, <1>2, FS_AddElement
<1>4. \A y \in S \cup {x} : y.id \in 1 .. Cardinality(S \cup {x})
  BY <1>1, <1>2, <1>3 DEF Fresh
<1>5. \A y, z \in S \cup {x} : y.id = z.id => y = z
  BY <1>2 DEF Numbered
<1> QED
  BY <1>3, <1>4, <1>5 DEF Numbered

\* Marking a finding that still asserts something, or none, revives nobody.
LEMMA MarkingRetires ==
    ASSUME NEW S \in SUBSET Finding, Numbered(S), NEW id, NEW state,
           id # NoId => \E f \in S : f.id = id /\ f.state \in CurrentFindingStates
    PROVE  /\ Numbered(SetState(S, id, state))
           /\ StayRetired(S, SetState(S, id, state))
           /\ Cardinality(SetState(S, id, state)) = Cardinality(S)
<1> DEFINE F == [f \in S |-> IF f.id = id THEN [f EXCEPT !.state = state] ELSE f]
           T == {F[f] : f \in S}
<1>1. SetState(S, id, state) = T
  BY DEF SetState
<1>2. \A f \in S : F[f].id = f.id
  BY DEF Finding
<1>3. \A f \in S : f.id = id => f.state \in CurrentFindingStates
  <2>1. \A f \in S : f.id # NoId
    BY DEF Finding, Ids, NoId
  <2> QED BY <2>1 DEF Numbered
<1>4. F = [f \in S |-> F[f]]
  OBVIOUS
<1>5. Numbered(T) /\ Cardinality(T) = Cardinality(S)
  <2> HIDE DEF F
  <2> QED BY <1>2, <1>4, NumberedImage
<1>6. StayRetired(S, T)
  <2>1. \A f \in S : F[f] \in T /\ (f.state \notin CurrentFindingStates => F[f] = f)
    BY <1>3
  <2> HIDE DEF F
  <2> QED BY <1>2, <2>1 DEF StayRetired
<1> QED
  BY <1>1, <1>5, <1>6

\* What every call does to the findings of a review it rewrites.
Moved(rev, new) == Numbered(new.findings) /\ StayRetired(rev.findings, new.findings)

AllMoved == \A r \in DOMAIN reviews : Moved(reviews[r], reviews'[r])

\* Findings left alone.
LEMMA MovedNowhere ==
    ASSUME NEW rev, NEW new, Numbered(rev.findings), new.findings = rev.findings
    PROVE  Moved(rev, new)
  BY DEF Moved, StayRetired

\* Revalidating and retiring leave findings alone; superseding a review retires
\* those that still assert something.
LEMMA WithdrawalMoves ==
    ASSUME NEW rev \in Review, Numbered(rev.findings)
    PROVE  /\ Moved(rev, Revalidate(rev))
           /\ \A retired : Moved(rev, Retire(rev, retired))
           /\ Moved(rev, Supersede(rev))
<1>1. \A x \in Review : Revalidate(x).findings = x.findings
  BY DEF Revalidate, Review
<1>2. ASSUME NEW retired
      PROVE  Retire(rev, retired).findings = rev.findings
  <2> DEFINE S   == {IF a \in retired THEN [a EXCEPT !.active = FALSE] ELSE a
                       : a \in rev.assignments}
             new == [rev EXCEPT !.assignments = S]
  <2>1. Retire(rev, retired) = IF retired = {} THEN rev ELSE Revalidate(new)
    BY DEF Retire
  <2>2. S \subseteq Assignment
    BY DeactivatedType
  <2> HIDE DEF S
  <2>3. new \in Review /\ new.findings = rev.findings
    BY <2>2 DEF Review
  <2> QED BY <1>1, <2>1, <2>3
<1>3. Moved(rev, Supersede(rev))
  <2> DEFINE F == [f \in rev.findings |-> IF f.state \in CurrentFindingStates
                                          THEN [f EXCEPT !.state = "Invalidated"] ELSE f]
             T == {F[f] : f \in rev.findings}
             closed == {IF f.state \in CurrentFindingStates
                        THEN [f EXCEPT !.state = "Invalidated"] ELSE f : f \in rev.findings}
  <2>1. Supersede(rev).findings = closed
    <3> HIDE DEF closed
    <3>1. Supersede(rev) =
            LET c == [rev EXCEPT !.authorityCurrent = FALSE, !.findings = closed]
            IN  IF rev.state \in TerminalStates THEN c
                ELSE [c EXCEPT !.state = "Superseded", !.disposition = "Superseded"]
      BY DEF Supersede, closed
    <3> QED BY <3>1 DEF Review
  <2>2. closed = T
    OBVIOUS
  <2>3. \A f \in rev.findings :
          F[f].id = f.id /\ (f.state \notin CurrentFindingStates => F[f].state = f.state)
    BY DEF Review, Finding
  <2>4. F = [f \in rev.findings |-> F[f]]
    OBVIOUS
  <2> HIDE DEF F, closed
  <2>5. Numbered(T)
    BY <2>3, <2>4, NumberedImage
  <2>6. StayRetired(rev.findings, T)
    BY <2>3 DEF StayRetired
  <2> QED BY <2>1, <2>2, <2>5, <2>6 DEF Moved
<1> QED
  BY <1>1, <1>2, <1>3, MovedNowhere

\* A call on one review.
LEMMA OneMoves ==
    ASSUME FindingsNumbered, NEW r \in DOMAIN reviews, NEW new,
           reviews' = [reviews EXCEPT ![r] = new], Moved(reviews[r], new)
    PROVE  AllMoved /\ DOMAIN reviews' = DOMAIN reviews
<1>1. reviews'[r] = new /\ \A x \in DOMAIN reviews \ {r} : reviews'[x] = reviews[x]
  OBVIOUS
<1>2. \A x \in DOMAIN reviews : Numbered(reviews[x].findings)
  BY DEF FindingsNumbered
<1> QED
  BY <1>1, <1>2, MovedNowhere DEF AllMoved

\* Evidence extends the list of one finding and touches no state.
LEMMA SubmitEvidenceMoves ==
    ASSUME TypeOK, FindingsNumbered, NEW m, NEW input, NEW finding,
           SubmitEvidence(m, input, finding)
    PROVE  AllMoved /\ DOMAIN reviews' = DOMAIN reviews
<1> DEFINE rev == reviews[m.review]
           id  == Fresh(rev.evidences)
           F   == [f \in rev.findings |->
                     IF f.id = finding THEN [f EXCEPT !.evidence = Append(@, id)] ELSE f]
           T   == {F[f] : f \in rev.findings}
<1>1. m.review \in DOMAIN reviews /\ rev \in Review /\ Numbered(rev.findings)
  BY ReviewLookups DEF SubmitEvidence, CheckAuthority, FindingsNumbered
<1>2. T = {IF f.id = finding THEN [f EXCEPT !.evidence = Append(@, id)] ELSE f
             : f \in rev.findings}
  OBVIOUS
<1>3. PICK evidences :
        reviews' = [reviews EXCEPT ![m.review] =
                      [rev EXCEPT !.evidences = evidences, !.findings = T]]
  BY <1>2 DEF SubmitEvidence
<1> DEFINE new == [rev EXCEPT !.evidences = evidences, !.findings = T]
<1>4. \A f \in rev.findings : F[f].id = f.id /\ F[f].state = f.state
  BY <1>1 DEF Review, Finding
<1>5. F = [f \in rev.findings |-> F[f]]
  OBVIOUS
<1> HIDE DEF F
<1>6. Numbered(T) /\ StayRetired(rev.findings, T)
  <2>1. Numbered(T)
    <3> HIDE DEF rev
    <3> QED BY <1>1, <1>4, <1>5, NumberedImage
  <2>2. StayRetired(rev.findings, T)
    BY <1>4 DEF StayRetired
  <2> QED BY <2>1, <2>2
<1> HIDE DEF T
<1>7. new.findings = T
  BY <1>1 DEF Review
<1>8. Moved(rev, new)
  BY <1>6, <1>7 DEF Moved
<1> HIDE DEF new
<1> QED
  BY <1>1, <1>3, <1>8, OneMoves DEF new

\* A finding is added with the next number, and retires at most one of its
\* critic's that still asserts something.
LEMMA SubmitFindingMoves ==
    ASSUME TypeOK, FindingsNumbered, NEW m, NEW input, NEW supersedes,
           SubmitFinding(m, input, supersedes)
    PROVE  AllMoved /\ DOMAIN reviews' = DOMAIN reviews
<1> DEFINE rev  == reviews[m.review]
           kept == SetState(rev.findings, supersedes, "Superseded")
           Recorded(finding, evidences) ==
              [rev EXCEPT !.findings = kept \cup {finding}, !.evidences = evidences]
           New(recorded) ==
              IF rev.state \in {"Assigned", "Reviewing"}
              THEN [recorded EXCEPT !.state = "FindingsReceived", !.disposition = "None",
                                    !.authorityCurrent = TRUE]
              ELSE recorded
<1>1. m.review \in DOMAIN reviews /\ rev \in Review /\ Numbered(rev.findings)
  BY ReviewLookups DEF SubmitFinding, CheckAuthority, FindingsNumbered
<1>2. PICK finding, evidences :
        /\ finding.id = Fresh(rev.findings)
        /\ reviews' = [reviews EXCEPT ![m.review] = New(Recorded(finding, evidences))]
  <2> DEFINE assignment == ActiveAssignment(rev, m.critic)
             finding ==
               [id |-> Fresh(rev.findings), critic |-> m.critic,
                criticGeneration |-> m.criticGeneration, assignment |-> assignment.ordinal,
                worker |-> m.worker, boot |-> m.boot,
                targetGeneration |-> rev.targetGeneration,
                category |-> input.category, severity |-> input.severity,
                outcome |-> input.outcome, evidence |-> input.evidence,
                cited |-> input.evidence, explanation |-> input.explanation,
                state |-> "Current"]
             evidences == {IF e.id \in Range(input.evidence) /\ e.finding = NoId
                           THEN [e EXCEPT !.finding = finding.id] ELSE e : e \in rev.evidences}
  <2>1. reviews' = [reviews EXCEPT ![m.review] = New(Recorded(finding, evidences))]
    BY DEF SubmitFinding
  <2>2. finding.id = Fresh(rev.findings)
    OBVIOUS
  <2> HIDE DEF finding, evidences, New, Recorded
  <2> QED BY <2>1, <2>2
<1>3. supersedes # NoId =>
        \E f \in rev.findings : f.id = supersedes /\ f.state \in CurrentFindingStates
  BY DEF SubmitFinding, OwnCurrent
<1>4. /\ Numbered(kept)
      /\ StayRetired(rev.findings, kept)
      /\ Cardinality(kept) = Cardinality(rev.findings)
  <2>1. rev.findings \in SUBSET Finding
    BY <1>1 DEF Review
  <2> QED BY <1>1, <1>3, <2>1, MarkingRetires
<1> HIDE DEF kept
<1>5. Numbered(kept \cup {finding})
  BY <1>2, <1>4, NumberedMore DEF Fresh
<1>6. StayRetired(rev.findings, kept \cup {finding})
  BY <1>4 DEF StayRetired
<1> DEFINE new == New(Recorded(finding, evidences))
<1>7. new.findings = kept \cup {finding}
  BY <1>1 DEF Review
<1>8. Moved(rev, new)
  BY <1>5, <1>6, <1>7 DEF Moved
<1> HIDE DEF new
<1> QED
  BY <1>1, <1>2, <1>8, OneMoves DEF new

\* A challenge marks a finding that still asserts something.
LEMMA SubmitChallengeMoves ==
    ASSUME TypeOK, FindingsNumbered, NEW m, NEW id, SubmitChallenge(m, id)
    PROVE  AllMoved /\ DOMAIN reviews' = DOMAIN reviews
<1> DEFINE rev    == reviews[m.review]
           marked == SetState(rev.findings, id, "Challenged")
           Challenged(challenges) ==
              [rev EXCEPT !.challenges = challenges, !.findings = marked]
           New(challenged) ==
              IF rev.state # "Challenged"
              THEN [challenged EXCEPT !.state = "Challenged", !.disposition = "None",
                                      !.authorityCurrent = TRUE]
              ELSE challenged
<1>1. m.review \in DOMAIN reviews /\ rev \in Review /\ Numbered(rev.findings)
  BY ReviewLookups DEF SubmitChallenge, CheckAuthority, FindingsNumbered
<1>2. PICK challenges : reviews' = [reviews EXCEPT ![m.review] = New(Challenged(challenges))]
  BY DEF SubmitChallenge
<1>3. \E f \in rev.findings : f.id = id /\ f.state \in CurrentFindingStates
  BY DEF SubmitChallenge
<1>4. Numbered(marked) /\ StayRetired(rev.findings, marked)
  <2>1. rev.findings \in SUBSET Finding
    BY <1>1 DEF Review
  <2> QED BY <1>1, <1>3, <2>1, MarkingRetires
<1> HIDE DEF marked
<1> DEFINE new == New(Challenged(challenges))
<1>5. new.findings = marked
  BY <1>1 DEF Review
<1>6. Moved(rev, new)
  BY <1>4, <1>5 DEF Moved
<1> HIDE DEF new
<1> QED
  BY <1>1, <1>2, <1>6, OneMoves DEF new

\* So does a rebuttal, whatever it makes of the finding.
LEMMA SubmitRebuttalMoves ==
    ASSUME TypeOK, FindingsNumbered, NEW m, NEW id, NEW outcome, SubmitRebuttal(m, id, outcome)
    PROVE  AllMoved /\ DOMAIN reviews' = DOMAIN reviews
<1> DEFINE rev == reviews[m.review]
           Marked(ch) == SetState(rev.findings, ch.finding, AfterRebuttal(outcome))
           New(challenges, findings, rounds) ==
              [rev EXCEPT !.challenges = challenges, !.findings = findings,
                          !.state = "Evaluating", !.disposition = "None",
                          !.authorityCurrent = TRUE, !.roundsUsed = rounds]
<1>1. m.review \in DOMAIN reviews /\ rev \in Review /\ Numbered(rev.findings)
  BY ReviewLookups DEF SubmitRebuttal, CheckAuthority, FindingsNumbered
<1>2. PICK ch \in rev.challenges :
        /\ \E f \in OwnCurrent(rev, m.critic) : f.id = ch.finding
        /\ reviews' = [reviews EXCEPT ![m.review] =
             New((rev.challenges \ {ch}) \cup
                    {[ch EXCEPT !.resolved = TRUE, !.outcome = outcome]},
                 Marked(ch), rev.roundsUsed + 1)]
  BY DEF SubmitRebuttal
<1>3. Numbered(Marked(ch)) /\ StayRetired(rev.findings, Marked(ch))
  <2>1. rev.findings \in SUBSET Finding
    BY <1>1 DEF Review
  <2>2. \E f \in rev.findings : f.id = ch.finding /\ f.state \in CurrentFindingStates
    BY <1>2 DEF OwnCurrent
  <2> QED BY <1>1, <2>1, <2>2, MarkingRetires
<1> HIDE DEF Marked
<1> DEFINE new == New((rev.challenges \ {ch}) \cup
                        {[ch EXCEPT !.resolved = TRUE, !.outcome = outcome]},
                      Marked(ch), rev.roundsUsed + 1)
<1>4. new.findings = Marked(ch)
  BY <1>1 DEF Review
<1>5. Moved(rev, new)
  BY <1>3, <1>4 DEF Moved
<1> HIDE DEF new
<1> QED
  BY <1>1, <1>2, <1>5, OneMoves DEF new

\* A call that leaves the findings of its review alone.
LEMMA OneMovesNothing ==
    ASSUME FindingsNumbered, NEW r \in DOMAIN reviews, NEW new,
           reviews' = [reviews EXCEPT ![r] = new], new.findings = reviews[r].findings
    PROVE  AllMoved /\ DOMAIN reviews' = DOMAIN reviews
  BY OneMoves, MovedNowhere DEF FindingsNumbered

\* Every step keeps the numbers apart and the retired findings retired.
LEMMA MovesStep == TypeOK /\ FindingsNumbered /\ [Next]_vars => AllMoved /\ FindingsNumbered'
<1> SUFFICES ASSUME TypeOK, FindingsNumbered, [Next]_vars
             PROVE  AllMoved /\ FindingsNumbered'
  OBVIOUS
<1>1. ASSUME AllMoved, DOMAIN reviews' = DOMAIN reviews
      PROVE  FindingsNumbered'
  BY <1>1 DEF AllMoved, Moved, FindingsNumbered
<1>2. ASSUME \A r \in DOMAIN reviews :
               \/ reviews'[r] = reviews[r]
               \/ reviews'[r] = Revalidate(reviews[r])
               \/ reviews'[r] = Supersede(reviews[r])
               \/ \E retired : reviews'[r] = Retire(reviews[r], retired)
      PROVE  AllMoved
  BY <1>2, ReviewLookups, WithdrawalMoves, MovedNowhere DEF AllMoved, FindingsNumbered
<1>3. ASSUME UNCHANGED reviews
      PROVE  AllMoved /\ FindingsNumbered'
  BY <1>1, <1>2, <1>3
<1>4. CASE Control
  <2>1. ASSUME NEW e, NEW t, NEW content,
               RegisterTarget(e, t, content) \/ AdvanceTarget(e, t, content)
        PROVE  AllMoved /\ FindingsNumbered'
    BY <1>1, <1>2, <1>3, <2>1 DEF RegisterTarget, AdvanceTarget
  <2>2. ASSUME NEW e, NEW c, NEW capability, RegisterCritic(e, c, capability)
        PROVE  AllMoved /\ FindingsNumbered'
    BY <1>3, <2>2 DEF RegisterCritic
  <2>3. ASSUME NEW e, NEW c, NEW capability, NEW advance,
               AdvanceCritic(e, c, capability, advance)
        PROVE  AllMoved /\ FindingsNumbered'
    BY <1>1, <1>2, <2>3 DEF AdvanceCritic
  <2>4. ASSUME NEW e, NEW r, NEW t, NEW g, NEW spec, DeclareReview(e, r, t, g, spec)
        PROVE  AllMoved /\ FindingsNumbered'
    <3>1. /\ DOMAIN reviews' = DOMAIN reviews \cup {r}
          /\ r \notin DOMAIN reviews
          /\ \A x \in DOMAIN reviews : reviews'[x] = reviews[x]
          /\ reviews'[r].findings = {}
      BY <2>4 DEF DeclareReview, Put
    <3>2. AllMoved
      BY <1>2, <3>1
    <3>3. Numbered({})
      BY FS_EmptySet DEF Numbered
    <3> QED BY <3>1, <3>2, <3>3 DEF FindingsNumbered
  <2>5. ASSUME NEW e, NEW r \in DOMAIN reviews, NEW batch, AssignCritics(e, r, batch)
        PROVE  AllMoved /\ FindingsNumbered'
    <3> DEFINE rev == reviews[r]
               New(assignments) ==
                  LET granted == [rev EXCEPT !.assignments = assignments]
                  IN  IF rev.state \in {"Declared", "Assigning", "RevalidationRequired"}
                      THEN [granted EXCEPT !.state = "Assigned", !.disposition = "None",
                                           !.authorityCurrent = TRUE]
                      ELSE granted
    <3>1. PICK assignments : reviews' = [reviews EXCEPT ![r] = New(assignments)]
      BY <2>5 DEF AssignCritics
    <3>2. New(assignments).findings = rev.findings
      BY ReviewLookups DEF Review
    <3> HIDE DEF New
    <3> QED BY <1>1, <3>1, <3>2, OneMovesNothing
  <2>6. ASSUME NEW e, NEW r \in DOMAIN reviews, CommitReview(e, r) \/ CancelReview(e, r)
        PROVE  AllMoved /\ FindingsNumbered'
    <3> DEFINE rev == reviews[r]
               New(state, decision, disposition, current) ==
                  [rev EXCEPT !.state = state, !.decision = decision,
                              !.disposition = disposition, !.authorityCurrent = current]
    <3>1. PICK state, decision, disposition, current :
            reviews' = [reviews EXCEPT ![r] = New(state, decision, disposition, current)]
      <4>1. rev \in Review
        BY ReviewLookups
      <4>2. CASE CommitReview(e, r)
        BY <4>2 DEF CommitReview
      <4>3. CASE CancelReview(e, r)
        <5>1. [rev EXCEPT !.state = "Cancelled", !.disposition = "Cancelled",
                          !.authorityCurrent = FALSE]
                = New("Cancelled", rev.decision, "Cancelled", FALSE)
          BY <4>1 DEF Review
        <5> QED BY <4>3, <5>1 DEF CancelReview
      <4> QED BY <2>6, <4>2, <4>3
    <3>2. New(state, decision, disposition, current).findings = rev.findings
      BY ReviewLookups DEF Review
    <3> HIDE DEF New
    <3> QED BY <1>1, <3>1, <3>2, OneMovesNothing
  <2> QED
    BY <1>4, <2>1, <2>2, <2>3, <2>4, <2>5, <2>6 DEF Control
<1>5. CASE Incarnation
  <2>1. ASSUME NEW e, NEW w, NEW boot, NEW c, NEW g, RegisterWorker(e, w, boot, c, g)
        PROVE  AllMoved /\ FindingsNumbered'
    BY <1>1, <1>2, <2>1 DEF RegisterWorker
  <2>2. ASSUME NEW e, NEW x, NEW ready, NEW healthy, NEW evidence,
               DeclareReadiness(e, x, ready, healthy, evidence)
        PROVE  AllMoved /\ FindingsNumbered'
    BY <1>3, <2>2 DEF DeclareReadiness
  <2>3. ASSUME NEW ws, Fence(ws)
        PROVE  AllMoved /\ FindingsNumbered'
    BY <1>1, <1>2, <2>3 DEF Fence
  <2> QED
    BY <1>5, <2>1, <2>2, <2>3 DEF Incarnation, FenceWorker, FenceCritic
<1>6. CASE Output
  <2> DEFINE Good == AllMoved /\ DOMAIN reviews' = DOMAIN reviews
  <2>1. \A m, input, f : SubmitEvidence(m, input, f) => Good
    BY SubmitEvidenceMoves
  <2>2. \A m, input, f : SubmitFinding(m, input, f) => Good
    BY SubmitFindingMoves
  <2>3. \A m, f : SubmitChallenge(m, f) => Good
    BY SubmitChallengeMoves
  <2>4. \A m, ch, outcome : SubmitRebuttal(m, ch, outcome) => Good
    BY SubmitRebuttalMoves
  <2>5. Good
    <3> HIDE DEF Good
    <3> QED BY <1>6, <2>1, <2>2, <2>3, <2>4 DEF Output
  <2> QED BY <1>1, <2>5
<1>7. CASE Restart
  BY <1>1, <1>2, <1>7 DEF Restart
<1>8. CASE UNCHANGED vars
  BY <1>3, <1>8 DEF vars
<1> QED
  BY <1>4, <1>5, <1>6, <1>7, <1>8 DEF Next

\* The numbers of findings are apart in every run.
LEMMA NumbersApart == Spec => [](TypeOK /\ FindingsNumbered)
<1>1. Init => FindingsNumbered
  BY DEF Init, EmptyMap, FindingsNumbered
<1> QED
  BY <1>1, TypeInit, TypeStep, MovesStep, PTL DEF Spec

\* README "Finding model": whatever critics submit, challenge and answer, and
\* whatever replaces them, a superseded or invalidated finding is never revived
\* and no finding disappears.
THEOREM RetiredStay == Spec => RetiredFindingsStayRetired
<1>1. TypeOK /\ FindingsNumbered /\ [Next]_vars =>
        [\A r \in DOMAIN reviews : \A f \in reviews[r].findings :
            \E g \in reviews'[r].findings :
                /\ g.id = f.id
                /\ f.state \notin CurrentFindingStates => g.state = f.state]_vars
  BY MovesStep DEF AllMoved, Moved, StayRetired
<1> QED
  BY <1>1, NumbersApart, PTL DEF Spec, RetiredFindingsStayRetired

-----------------------------------------------------------------------------
(* Seats: the assignments of a review.                                     *)

SeatsOf(S, c) == {a \in S : a.critic = c}

\* The seats of a critic are numbered 1, 2, ... and no two of them alike.
SeatsNumbered(S) ==
    /\ IsFiniteSet(S)
    /\ \A a \in S : a.ordinal \in 1 .. Cardinality(SeatsOf(S, a.critic))
    /\ \A a, b \in S : a.critic = b.critic /\ a.ordinal = b.ordinal => a = b

\* What OneSeatPerCritic says of the assignments of one review.
NewestOnly(S) ==
    \A a \in S : a.active =>
        \A b \in S : b.critic = a.critic /\ b # a => b.ordinal < a.ordinal

Seated(S) == SeatsNumbered(S) /\ NewestOnly(S)

\* The seats of one critic are finitely many.
LEMMA SeatsFinite ==
    ASSUME NEW S, IsFiniteSet(S), NEW c
    PROVE  IsFiniteSet(SeatsOf(S, c)) /\ Cardinality(SeatsOf(S, c)) \in Nat
<1>1. SeatsOf(S, c) \subseteq S
  BY DEF SeatsOf
<1> QED
  BY <1>1, FS_Subset, FS_CardinalityType

\* Rewriting seats one by one, none to an active one, leaves every critic as many
\* seats, with their numbers.
LEMMA RewrittenSeats ==
    ASSUME NEW S, Seated(S), NEW F, NEW T, IsFiniteSet(T),
           \A b \in T : \E a \in S : b = F[a],
           \A a \in S : /\ F[a] \in T
                        /\ F[a].critic = a.critic
                        /\ F[a].ordinal = a.ordinal
                        /\ F[a].active => a.active
    PROVE  Seated(T)
<1>1. IsFiniteSet(S)
  BY DEF Seated, SeatsNumbered
<1>2. ASSUME NEW c
      PROVE  Cardinality(SeatsOf(T, c)) = Cardinality(SeatsOf(S, c))
  <2> DEFINE A == SeatsOf(S, c)
             B == SeatsOf(T, c)
             G == [a \in A |-> F[a]]
  <2>1. \A a \in A : a \in S /\ a.critic = c
    BY DEF SeatsOf
  <2>2. \A b \in B : b \in T /\ b.critic = c
    BY DEF SeatsOf
  <2>3. G \in [A -> B]
    BY <2>1 DEF SeatsOf
  <2>4. \A b \in B : \E a \in A : G[a] = b
    BY <2>2 DEF SeatsOf
  <2>5. \A x, y \in A : G[x] = G[y] => x = y
    BY <2>1 DEF Seated, SeatsNumbered
  <2>6. IsFiniteSet(A)
    BY <1>1, SeatsFinite
  <2> HIDE DEF A, B, G
  <2>7. G \in Surjection(A, B) /\ G \in Injection(A, B)
    BY <2>3, <2>4, <2>5 DEF Surjection, Injection, IsInjective
  <2>8. Cardinality(B) = Cardinality(A)
    BY <2>6, <2>7, FS_Surjection
  <2> QED BY <2>8 DEF A, B
<1>3. SeatsNumbered(T)
  <2>1. \A b \in T : b.ordinal \in 1 .. Cardinality(SeatsOf(T, b.critic))
    BY <1>2 DEF Seated, SeatsNumbered
  <2>2. \A a, b \in T : a.critic = b.critic /\ a.ordinal = b.ordinal => a = b
    BY DEF Seated, SeatsNumbered
  <2> QED BY <2>1, <2>2 DEF SeatsNumbered
<1>4. NewestOnly(T)
  <2> SUFFICES ASSUME NEW x \in T, x.active, NEW y \in T, y.critic = x.critic, y # x
               PROVE  y.ordinal < x.ordinal
    BY DEF NewestOnly
  <2>1. PICK a \in S : x = F[a]
    OBVIOUS
  <2>2. PICK b \in S : y = F[b]
    OBVIOUS
  <2>3. a.active /\ b.critic = a.critic /\ b # a
    BY <2>1, <2>2
  <2>4. b.ordinal < a.ordinal
    BY <2>3 DEF Seated, NewestOnly
  <2> QED BY <2>1, <2>2, <2>4
<1> QED
  BY <1>3, <1>4 DEF Seated

\* Taking seats away does.
LEMMA RetiredSeats ==
    ASSUME NEW S \in SUBSET Assignment, Seated(S), NEW retired
    PROVE  Seated({IF a \in retired THEN [a EXCEPT !.active = FALSE] ELSE a : a \in S})
<1> DEFINE F == [a \in S |-> IF a \in retired THEN [a EXCEPT !.active = FALSE] ELSE a]
<1>1. \A a \in S : /\ F[a].critic = a.critic
                   /\ F[a].ordinal = a.ordinal
                   /\ F[a].active => a.active
  BY DEF Assignment
<1>2. F = [a \in S |-> F[a]]
  OBVIOUS
<1> DEFINE T == {F[a] : a \in S}
<1>3. {IF a \in retired THEN [a EXCEPT !.active = FALSE] ELSE a : a \in S} = T
  OBVIOUS
<1>4. (\A b \in T : \E a \in S : b = F[a]) /\ \A a \in S : F[a] \in T
  OBVIOUS
<1>5. IsFiniteSet(T)
  <2>1. IsFiniteSet(S)
    BY DEF Seated, SeatsNumbered
  <2> HIDE DEF F
  <2> QED BY <1>2, <2>1, FiniteImage
<1> HIDE DEF F, T
<1>6. /\ \A b \in T : \E a \in S : b = F[a]
      /\ \A a \in S : /\ F[a] \in T
                      /\ F[a].critic = a.critic
                      /\ F[a].ordinal = a.ordinal
                      /\ F[a].active => a.active
  BY <1>1, <1>4
<1>7. Seated(T)
  BY ONLY Seated(S), <1>5, <1>6, RewrittenSeats
<1> QED
  BY <1>3, <1>7

\* Granting seats to critics that hold none gives each its next number.
LEMMA GrantedSeats ==
    ASSUME NEW rev \in Review, Seated(rev.assignments), NEW batch, IsFiniteSet(batch),
           \A p, q \in batch : p.critic = q.critic => p = q,
           \A q \in batch : ActiveOf(rev, q.critic) = {}
    PROVE  Seated(rev.assignments \cup {Granted(rev, q) : q \in batch})
<1> DEFINE S == rev.assignments
           G == [q \in batch |-> Granted(rev, q)]
           N == {G[q] : q \in batch}
           T == S \cup N
<1>1. T = rev.assignments \cup {Granted(rev, q) : q \in batch}
  OBVIOUS
<1>2. IsFiniteSet(S) /\ S \subseteq Assignment
  BY DEF Seated, SeatsNumbered, Review
<1>3. \A q \in batch : /\ G[q].critic = q.critic
                       /\ G[q].ordinal = Cardinality(SeatsOf(S, q.critic)) + 1
                       /\ G[q].active = TRUE
  BY DEF Granted, SeatsOf
<1>4. \A n \in N : \E q \in batch : n = G[q]
  OBVIOUS
<1>5. \A q \in batch : \A a \in S : a.critic = q.critic => ~a.active
  BY DEF ActiveOf
<1>6. G = [q \in batch |-> G[q]]
  OBVIOUS
<1>7. IsFiniteSet(T)
  <2>1. IsFiniteSet(N)
    <3> HIDE DEF G
    <3> QED BY <1>6, FiniteImage
  <2> HIDE DEF N, S
  <2> QED BY <1>2, <2>1, FS_Union
<1> HIDE DEF G, S
<1>8. \A a \in S : a.ordinal \in 1 .. Cardinality(SeatsOf(S, a.critic))
  BY DEF Seated, SeatsNumbered, S
<1>9. \A c : Cardinality(SeatsOf(S, c)) \in Nat /\ IsFiniteSet(SeatsOf(S, c))
  BY <1>2, SeatsFinite
<1>10. ASSUME NEW q \in batch
       PROVE  Cardinality(SeatsOf(T, q.critic)) = Cardinality(SeatsOf(S, q.critic)) + 1
  <2>1. SeatsOf(T, q.critic) = SeatsOf(S, q.critic) \cup {G[q]}
    <3>1. \A n \in N : n.critic = q.critic => n = G[q]
      BY <1>3, <1>4
    <3>2. G[q] \in N /\ G[q].critic = q.critic
      BY <1>3
    <3> HIDE DEF N
    <3> QED BY <3>1, <3>2 DEF SeatsOf
  <2>2. G[q] \notin SeatsOf(S, q.critic)
    <3>1. SUFFICES ASSUME G[q] \in S PROVE FALSE
      BY DEF SeatsOf
    <3>2. G[q].ordinal \in 1 .. Cardinality(SeatsOf(S, q.critic))
      BY <1>3, <1>8, <3>1
    <3> QED BY <1>3, <1>9, <3>2
  <2> QED BY <1>9, <2>1, <2>2, FS_AddElement
<1>11. ASSUME NEW a \in S, \A q \in batch : q.critic # a.critic
       PROVE  SeatsOf(T, a.critic) = SeatsOf(S, a.critic)
  <2>1. \A n \in N : n.critic # a.critic
    BY <1>3, <1>4, <1>11
  <2> HIDE DEF N
  <2> QED BY <2>1 DEF SeatsOf
<1>12. \A a \in T : a.ordinal \in 1 .. Cardinality(SeatsOf(T, a.critic))
  <2> SUFFICES ASSUME NEW a \in T
               PROVE  a.ordinal \in 1 .. Cardinality(SeatsOf(T, a.critic))
    OBVIOUS
  <2>1. CASE a \in N
    <3>1. PICK q \in batch : a = G[q]
      BY <1>4, <2>1
    <3> QED BY <1>3, <1>9, <1>10, <3>1
  <2>2. CASE a \in S /\ \E q \in batch : q.critic = a.critic
    <3>1. PICK q \in batch : q.critic = a.critic
      BY <2>2
    <3>2. Cardinality(SeatsOf(T, a.critic)) = Cardinality(SeatsOf(S, a.critic)) + 1
      BY <1>10, <3>1
    <3> QED BY <1>8, <1>9, <2>2, <3>2
  <2>3. CASE a \in S /\ \A q \in batch : q.critic # a.critic
    BY <1>8, <1>11, <2>3
  <2> QED BY <2>1, <2>2, <2>3
<1>13. \A q \in batch : \A a \in S : a.critic = q.critic => a.ordinal < G[q].ordinal
  BY <1>3, <1>8, <1>9
<1>14. \A a, b \in T : a.critic = b.critic /\ a.ordinal = b.ordinal => a = b
  <2>1. \A a, b \in S : a.critic = b.critic /\ a.ordinal = b.ordinal => a = b
    BY DEF Seated, SeatsNumbered, S
  <2>2. \A a \in S, n \in N : a.critic = n.critic => a.ordinal # n.ordinal
    BY <1>2, <1>3, <1>4, <1>8, <1>9
  <2>3. \A m, n \in N : m.critic = n.critic => m = n
    BY <1>3, <1>4
  <2> QED BY <2>1, <2>2, <2>3
<1>15. NewestOnly(T)
  <2> SUFFICES ASSUME NEW a \in T, a.active, NEW b \in T, b.critic = a.critic, b # a
               PROVE  b.ordinal < a.ordinal
    BY DEF NewestOnly
  <2>1. CASE a \in N
    <3>1. PICK q \in batch : a = G[q]
      BY <1>4, <2>1
    <3>2. b \in S
      BY <1>3, <1>4, <3>1
    <3> QED BY <1>3, <1>13, <3>1, <3>2
  <2>2. CASE a \in S
    <3>1. b \in S
      BY <1>3, <1>4, <1>5, <2>2
    <3> QED BY <2>2, <3>1 DEF Seated, NewestOnly, S
  <2> QED BY <2>1, <2>2
<1>16. SeatsNumbered(T)
  BY <1>7, <1>12, <1>14 DEF SeatsNumbered
<1> QED
  BY <1>1, <1>15, <1>16 DEF Seated

-----------------------------------------------------------------------------
(* Every call keeps the critics on one seat.                               *)

\* An active seat is of its critic's current generation.
SeatsCurrent(S) ==
    \A a \in S : a.active =>
        a.critic \in DOMAIN critics /\ critics[a.critic].generation = a.criticGeneration

SeatInv == \A r \in DOMAIN reviews :
              Seated(reviews[r].assignments) /\ SeatsCurrent(reviews[r].assignments)

\* Retiring and revalidating retire seats and grant none.
Emptied(S, T) ==
    \/ T = S
    \/ \E retired : T = {IF a \in retired THEN [a EXCEPT !.active = FALSE] ELSE a : a \in S}

\* Withdrawals reach the seats of a review one by one.
LEMMA WithdrawalEmpties ==
    ASSUME NEW rev \in Review
    PROVE  /\ Revalidate(rev).assignments = rev.assignments
           /\ Supersede(rev).assignments = rev.assignments
           /\ \A retired : Retire(rev, retired).assignments =
                 {IF a \in retired THEN [a EXCEPT !.active = FALSE] ELSE a
                    : a \in rev.assignments}
<1>1. \A x \in Review : Revalidate(x).assignments = x.assignments
  BY DEF Revalidate, Review
<1>2. Supersede(rev).assignments = rev.assignments
  <2> DEFINE C == {IF f.state \in CurrentFindingStates
                   THEN [f EXCEPT !.state = "Invalidated"] ELSE f : f \in rev.findings}
  <2>1. Supersede(rev) =
          LET c == [rev EXCEPT !.authorityCurrent = FALSE, !.findings = C]
          IN  IF rev.state \in TerminalStates THEN c
              ELSE [c EXCEPT !.state = "Superseded", !.disposition = "Superseded"]
    BY DEF Supersede
  <2> HIDE DEF C
  <2> QED BY <2>1 DEF Review
<1>3. ASSUME NEW retired
      PROVE  Retire(rev, retired).assignments =
               {IF a \in retired THEN [a EXCEPT !.active = FALSE] ELSE a : a \in rev.assignments}
  <2> DEFINE S   == {IF a \in retired THEN [a EXCEPT !.active = FALSE] ELSE a
                       : a \in rev.assignments}
             new == [rev EXCEPT !.assignments = S]
  <2>1. Retire(rev, retired) = IF retired = {} THEN rev ELSE Revalidate(new)
    BY DEF Retire
  <2>2. S \subseteq Assignment
    BY DeactivatedType
  <2>3. retired = {} => S = rev.assignments
    OBVIOUS
  <2> HIDE DEF S
  <2>4. new \in Review /\ new.assignments = S
    BY <2>2 DEF Review
  <2>5. Retire(rev, retired).assignments = S
    BY <1>1, <2>1, <2>3, <2>4
  <2> QED BY <2>5 DEF S
<1> QED
  BY <1>1, <1>2, <1>3

\* Emptied seats keep the review seated.
LEMMA EmptiedSeated ==
    ASSUME NEW S \in SUBSET Assignment, Seated(S), NEW T, Emptied(S, T)
    PROVE  Seated(T)
  BY RetiredSeats DEF Emptied

\* A step that only empties seats, while the critics they are of stay as they are.
LEMMA EmptyingStep ==
    ASSUME TypeOK, SeatInv, DOMAIN reviews' = DOMAIN reviews,
           \A r \in DOMAIN reviews :
              Emptied(reviews[r].assignments, reviews'[r].assignments),
           \A c \in DOMAIN critics : c \in DOMAIN critics' /\
              (critics'[c].generation = critics[c].generation
               \/ \A r \in DOMAIN reviews : \A a \in reviews'[r].assignments :
                     a.critic = c => ~a.active)
    PROVE  SeatInv'
<1> SUFFICES ASSUME NEW r \in DOMAIN reviews
             PROVE  Seated(reviews'[r].assignments) /\ SeatsCurrent(reviews[r].assignments)'
  BY DEF SeatInv
<1> DEFINE S == reviews[r].assignments
           T == reviews'[r].assignments
<1>1. S \in SUBSET Assignment /\ Seated(S) /\ SeatsCurrent(S)
  BY ReviewLookups DEF SeatInv, Review
<1>2. Emptied(S, T)
  OBVIOUS
<1>3. Seated(T)
  <2> HIDE DEF S, T
  <2> QED BY <1>1, <1>2, EmptiedSeated
<1>4. \A b \in T : b.active => \E a \in S : a.active /\ a = b
  BY <1>1, <1>2 DEF Emptied, Assignment
<1>5. ASSUME NEW b \in T, b.active
      PROVE  b.critic \in DOMAIN critics' /\ critics'[b.critic].generation = b.criticGeneration
  BY <1>1, <1>4, <1>5 DEF SeatsCurrent
<1> QED
  BY <1>3, <1>5 DEF SeatsCurrent


\* The withdrawals of one step, on every review.
LEMMA WithdrawalsEmpty ==
    ASSUME TypeOK,
           \A r \in DOMAIN reviews :
              \/ reviews'[r] = reviews[r]
              \/ reviews'[r] = Revalidate(reviews[r])
              \/ reviews'[r] = Supersede(reviews[r])
              \/ \E retired : reviews'[r] = Retire(reviews[r], retired)
    PROVE  \A r \in DOMAIN reviews :
              Emptied(reviews[r].assignments, reviews'[r].assignments)
<1> SUFFICES ASSUME NEW r \in DOMAIN reviews
             PROVE  Emptied(reviews[r].assignments, reviews'[r].assignments)
  OBVIOUS
<1>1. reviews[r] \in Review
  BY ReviewLookups
<1>2. CASE reviews'[r] \in {reviews[r], Revalidate(reviews[r]), Supersede(reviews[r])}
  BY <1>1, <1>2, WithdrawalEmpties DEF Emptied
<1>3. CASE \E retired : reviews'[r] = Retire(reviews[r], retired)
  <2>1. PICK retired : reviews'[r] = Retire(reviews[r], retired)
    BY <1>3
  <2>2. reviews'[r].assignments =
          {IF a \in retired THEN [a EXCEPT !.active = FALSE] ELSE a
             : a \in reviews[r].assignments}
    BY <1>1, <2>1, WithdrawalEmpties
  <2> QED BY <2>2 DEF Emptied
<1> QED
  BY <1>2, <1>3

\* A withdrawal that leaves the critics as they are.
LEMMA WithdrawalSeats ==
    ASSUME TypeOK, SeatInv, UNCHANGED critics, DOMAIN reviews' = DOMAIN reviews,
           \A r \in DOMAIN reviews :
              \/ reviews'[r] = reviews[r]
              \/ reviews'[r] = Revalidate(reviews[r])
              \/ reviews'[r] = Supersede(reviews[r])
              \/ \E retired : reviews'[r] = Retire(reviews[r], retired)
    PROVE  SeatInv'
  BY WithdrawalsEmpty, EmptyingStep

\* A new implementation of a critic empties every seat the critic holds.
LEMMA AdvanceCriticSeats ==
    ASSUME TypeOK, SeatInv, NEW e, NEW c, NEW capability, NEW advance,
           AdvanceCritic(e, c, capability, advance)
    PROVE  SeatInv'
<1> DEFINE Gone(r) == Abandoned(reviews[r], Fenceable(WorkersOf(c))) \cup ActiveOf(reviews[r], c)
<1>1. /\ DOMAIN reviews' = DOMAIN reviews
      /\ \A r \in DOMAIN reviews : reviews'[r] = Retire(reviews[r], Gone(r))
  BY DEF AdvanceCritic
<1>2. \A r \in DOMAIN reviews : ActiveOf(reviews[r], c) \subseteq Gone(r)
  OBVIOUS
<1> HIDE DEF Gone
<1>3. \A r \in DOMAIN reviews : Emptied(reviews[r].assignments, reviews'[r].assignments)
  BY <1>1, WithdrawalsEmpty
<1>4. ASSUME NEW r \in DOMAIN reviews
      PROVE  \A a \in reviews'[r].assignments : a.critic = c => ~a.active
  <2>1. reviews'[r].assignments =
          {IF a \in Gone(r) THEN [a EXCEPT !.active = FALSE] ELSE a
             : a \in reviews[r].assignments}
    BY <1>1, ReviewLookups, WithdrawalEmpties
  <2>2. reviews[r].assignments \subseteq Assignment
    BY ReviewLookups DEF Review
  <2> QED BY <1>2, <2>1, <2>2 DEF ActiveOf, Assignment
<1>5. \A d \in DOMAIN critics : d \in DOMAIN critics' /\
        (critics'[d].generation = critics[d].generation
         \/ \A r \in DOMAIN reviews : \A a \in reviews'[r].assignments :
               a.critic = d => ~a.active)
  <2>1. \A d \in DOMAIN critics :
          d \in DOMAIN critics' /\ (d # c => critics'[d] = critics[d])
    BY DEF AdvanceCritic, Put
  <2> QED BY <1>4, <2>1
<1> QED
  BY <1>1, <1>3, <1>5, EmptyingStep

\* A call on one review that leaves its seats in order.
LEMMA OneSeated ==
    ASSUME SeatInv, UNCHANGED critics, NEW r \in DOMAIN reviews, NEW new,
           reviews' = [reviews EXCEPT ![r] = new],
           Seated(new.assignments), SeatsCurrent(new.assignments)
    PROVE  SeatInv'
<1>1. /\ DOMAIN reviews' = DOMAIN reviews
      /\ reviews'[r] = new
      /\ \A x \in DOMAIN reviews \ {r} : reviews'[x] = reviews[x]
  OBVIOUS
<1>2. \A x \in DOMAIN reviews :
        Seated(reviews'[x].assignments) /\ SeatsCurrent(reviews'[x].assignments)
  BY <1>1 DEF SeatInv
<1>3. \A S : SeatsCurrent(S) => \A a \in S : a.active =>
        a.critic \in DOMAIN critics' /\ critics'[a.critic].generation = a.criticGeneration
  BY DEF SeatsCurrent
<1> QED
  BY <1>1, <1>2, <1>3 DEF SeatInv, SeatsCurrent

\* A call on one review that grants and takes no seat.
LEMMA SeatsLeftAlone ==
    ASSUME SeatInv, UNCHANGED critics, NEW r \in DOMAIN reviews, NEW new,
           reviews' = [reviews EXCEPT ![r] = new],
           new.assignments = reviews[r].assignments
    PROVE  SeatInv'
  BY OneSeated DEF SeatInv

\* A declared review has no seats yet.
LEMMA DeclareReviewSeats ==
    ASSUME SeatInv, NEW e, NEW r, NEW t, NEW g, NEW spec, DeclareReview(e, r, t, g, spec)
    PROVE  SeatInv'
<1>1. /\ UNCHANGED critics
      /\ DOMAIN reviews' = DOMAIN reviews \cup {r}
      /\ r \notin DOMAIN reviews
      /\ \A x \in DOMAIN reviews : reviews'[x] = reviews[x]
      /\ reviews'[r].assignments = {}
  BY DEF DeclareReview, Put, registry
<1>2. Seated({}) /\ SeatsCurrent({})'
  BY FS_EmptySet DEF Seated, SeatsNumbered, NewestOnly, SeatsCurrent
<1> QED
  BY <1>1, <1>2 DEF SeatInv, SeatsCurrent

\* A batch seats critics that hold no seat, under their current generation.
LEMMA AssignCriticsSeats ==
    ASSUME TypeOK, SeatInv, NEW e, NEW r \in DOMAIN reviews, NEW batch,
           AssignCritics(e, r, batch)
    PROVE  SeatInv'
<1> DEFINE rev == reviews[r]
           S == rev.assignments \cup {Granted(rev, q) : q \in batch}
           New(assignments) ==
              LET granted == [rev EXCEPT !.assignments = assignments]
              IN  IF rev.state \in {"Declared", "Assigning", "RevalidationRequired"}
                  THEN [granted EXCEPT !.state = "Assigned", !.disposition = "None",
                                       !.authorityCurrent = TRUE]
                  ELSE granted
<1>1. rev \in Review /\ Seated(rev.assignments) /\ SeatsCurrent(rev.assignments)
  BY ReviewLookups DEF SeatInv
<1>2. /\ IsFiniteSet(batch)
      /\ \A p, q \in batch : p.critic = q.critic => p = q
      /\ \A q \in batch : Assignable(rev, q)
      /\ UNCHANGED critics
  BY DEF AssignCritics, registry
<1>3. reviews' = [reviews EXCEPT ![r] = New(S)]
  BY DEF AssignCritics
<1>4. \A q \in batch : ActiveOf(rev, q.critic) = {} /\ BindingCurrent(q)
  BY <1>2 DEF Assignable
<1>5. Seated(S)
  <2> HIDE DEF rev
  <2> QED BY <1>1, <1>2, <1>4, GrantedSeats
<1>6. \A q \in batch : /\ Granted(rev, q).critic = q.critic
                       /\ Granted(rev, q).criticGeneration = q.criticGeneration
  BY DEF Granted
<1>7. SeatsCurrent(S)
  <2> SUFFICES ASSUME NEW a \in S, a.active
               PROVE  /\ a.critic \in DOMAIN critics
                      /\ critics[a.critic].generation = a.criticGeneration
    BY DEF SeatsCurrent
  <2>1. CASE a \in rev.assignments
    BY <1>1, <2>1 DEF SeatsCurrent
  <2>2. CASE \E q \in batch : a = Granted(rev, q)
    BY <1>4, <1>6, <2>2 DEF BindingCurrent
  <2> QED BY <2>1, <2>2
<1>8. New(S).assignments = S
  <2> HIDE DEF S
  <2> QED BY <1>1 DEF Review
<1> DEFINE new == New(S)
<1>9. Seated(new.assignments) /\ SeatsCurrent(new.assignments)
  BY <1>5, <1>7, <1>8
<1>10. reviews' = [reviews EXCEPT ![r] = new]
  BY <1>3
<1> HIDE DEF new
<1> QED
  BY <1>2, <1>9, <1>10, OneSeated

\* What critics say changes nobody's seat.
LEMMA OutputSeats ==
    ASSUME TypeOK, SeatInv, Output
    PROVE  SeatInv'
<1>1. ASSUME NEW m, CheckAuthority(m), UNCHANGED critics,
             \E new : /\ reviews' = [reviews EXCEPT ![m.review] = new]
                      /\ new.assignments = reviews[m.review].assignments
      PROVE  SeatInv'
  BY <1>1, SeatsLeftAlone DEF CheckAuthority
<1>2. ASSUME NEW m, NEW input, NEW finding, SubmitEvidence(m, input, finding)
      PROVE  SeatInv'
  <2> DEFINE rev == reviews[m.review]
             New(evidences, findings) ==
                [rev EXCEPT !.evidences = evidences, !.findings = findings]
  <2>1. PICK evidences, findings :
          reviews' = [reviews EXCEPT ![m.review] = New(evidences, findings)]
    BY <1>2 DEF SubmitEvidence
  <2>2. CheckAuthority(m) /\ UNCHANGED critics
    BY <1>2 DEF SubmitEvidence, registry
  <2>3. New(evidences, findings).assignments = rev.assignments
    BY <2>2, ReviewLookups DEF Review, CheckAuthority
  <2> HIDE DEF New
  <2> QED BY <1>1, <2>1, <2>2, <2>3
<1>3. ASSUME NEW m, NEW input, NEW supersedes, SubmitFinding(m, input, supersedes)
      PROVE  SeatInv'
  <2> DEFINE rev == reviews[m.review]
             Recorded(findings, evidences) ==
                [rev EXCEPT !.findings = findings, !.evidences = evidences]
             New(recorded) ==
                IF rev.state \in {"Assigned", "Reviewing"}
                THEN [recorded EXCEPT !.state = "FindingsReceived", !.disposition = "None",
                                      !.authorityCurrent = TRUE]
                ELSE recorded
  <2>1. PICK findings, evidences :
          reviews' = [reviews EXCEPT ![m.review] = New(Recorded(findings, evidences))]
    BY <1>3 DEF SubmitFinding
  <2>2. CheckAuthority(m) /\ UNCHANGED critics
    BY <1>3 DEF SubmitFinding, registry
  <2>3. New(Recorded(findings, evidences)).assignments = rev.assignments
    BY <2>2, ReviewLookups DEF Review, CheckAuthority
  <2> HIDE DEF New, Recorded
  <2> QED BY <1>1, <2>1, <2>2, <2>3
<1>4. ASSUME NEW m, NEW id, SubmitChallenge(m, id)
      PROVE  SeatInv'
  <2> DEFINE rev == reviews[m.review]
             Recorded(challenges, findings) ==
                [rev EXCEPT !.challenges = challenges, !.findings = findings]
             New(challenged) ==
                IF rev.state # "Challenged"
                THEN [challenged EXCEPT !.state = "Challenged", !.disposition = "None",
                                        !.authorityCurrent = TRUE]
                ELSE challenged
  <2>1. PICK challenges, findings :
          reviews' = [reviews EXCEPT ![m.review] = New(Recorded(challenges, findings))]
    BY <1>4 DEF SubmitChallenge
  <2>2. CheckAuthority(m) /\ UNCHANGED critics
    BY <1>4 DEF SubmitChallenge, registry
  <2>3. New(Recorded(challenges, findings)).assignments = rev.assignments
    BY <2>2, ReviewLookups DEF Review, CheckAuthority
  <2> HIDE DEF New, Recorded
  <2> QED BY <1>1, <2>1, <2>2, <2>3
<1>5. ASSUME NEW m, NEW id, NEW outcome, SubmitRebuttal(m, id, outcome)
      PROVE  SeatInv'
  <2> DEFINE rev == reviews[m.review]
             New(challenges, findings, rounds) ==
                [rev EXCEPT !.challenges = challenges, !.findings = findings,
                            !.state = "Evaluating", !.disposition = "None",
                            !.authorityCurrent = TRUE, !.roundsUsed = rounds]
  <2>1. PICK ch \in rev.challenges :
          reviews' = [reviews EXCEPT ![m.review] =
            New((rev.challenges \ {ch}) \cup
                   {[ch EXCEPT !.resolved = TRUE, !.outcome = outcome]},
                SetState(rev.findings, ch.finding, AfterRebuttal(outcome)),
                rev.roundsUsed + 1)]
    BY <1>5 DEF SubmitRebuttal
  <2>2. CheckAuthority(m) /\ UNCHANGED critics
    BY <1>5 DEF SubmitRebuttal, registry
  <2>3. \A challenges, findings, rounds :
          New(challenges, findings, rounds).assignments = rev.assignments
    BY <2>2, ReviewLookups DEF Review, CheckAuthority
  <2> DEFINE new == New((rev.challenges \ {ch}) \cup
                          {[ch EXCEPT !.resolved = TRUE, !.outcome = outcome]},
                        SetState(rev.findings, ch.finding, AfterRebuttal(outcome)),
                        rev.roundsUsed + 1)
  <2>4. new.assignments = rev.assignments
    BY <2>3
  <2>5. reviews' = [reviews EXCEPT ![m.review] = new]
    BY <2>1
  <2> HIDE DEF new
  <2> QED BY <1>1, <2>2, <2>4, <2>5
<1> QED
  BY <1>2, <1>3, <1>4, <1>5 DEF Output

\* Every step keeps every critic on one seat.
LEMMA SeatStep == TypeOK /\ SeatInv /\ [Next]_vars => SeatInv'
<1> SUFFICES ASSUME TypeOK, SeatInv, [Next]_vars PROVE SeatInv'
  OBVIOUS
<1>1. ASSUME UNCHANGED <<critics, reviews>> PROVE SeatInv'
  BY <1>1, WithdrawalSeats
<1>2. CASE Control
  <2>1. ASSUME NEW e, NEW t, NEW content,
               RegisterTarget(e, t, content) \/ AdvanceTarget(e, t, content)
        PROVE  SeatInv'
    BY <1>1, <2>1, WithdrawalSeats DEF RegisterTarget, AdvanceTarget
  <2>2. ASSUME NEW e, NEW c, NEW capability, RegisterCritic(e, c, capability)
        PROVE  SeatInv'
    <3>1. /\ UNCHANGED reviews
          /\ \A d \in DOMAIN critics : d \in DOMAIN critics' /\ critics'[d] = critics[d]
      BY <2>2 DEF RegisterCritic, Put
    <3>2. \A r \in DOMAIN reviews : Emptied(reviews[r].assignments, reviews'[r].assignments)
      BY <3>1 DEF Emptied
    <3> QED BY <3>1, <3>2, EmptyingStep
  <2>3. ASSUME NEW e, NEW c, NEW capability, NEW advance,
               AdvanceCritic(e, c, capability, advance)
        PROVE  SeatInv'
    BY <2>3, AdvanceCriticSeats
  <2>4. ASSUME NEW e, NEW r, NEW t, NEW g, NEW spec, DeclareReview(e, r, t, g, spec)
        PROVE  SeatInv'
    BY <2>4, DeclareReviewSeats
  <2>5. ASSUME NEW e, NEW r \in DOMAIN reviews, NEW batch, AssignCritics(e, r, batch)
        PROVE  SeatInv'
    BY <2>5, AssignCriticsSeats
  <2>6. ASSUME NEW e, NEW r \in DOMAIN reviews, CommitReview(e, r) \/ CancelReview(e, r)
        PROVE  SeatInv'
    <3>1. UNCHANGED critics
      BY <2>6 DEF CommitReview, CancelReview, registry
    <3>2. CASE CommitReview(e, r)
      <4> DEFINE New(decision, disposition) ==
                   [reviews[r] EXCEPT !.state = "Committed", !.decision = decision,
                                      !.disposition = disposition, !.authorityCurrent = TRUE]
      <4>1. PICK decision, disposition :
              reviews' = [reviews EXCEPT ![r] = New(decision, disposition)]
        BY <3>2 DEF CommitReview
      <4>2. New(decision, disposition).assignments = reviews[r].assignments
        BY ReviewLookups DEF Review
      <4> HIDE DEF New
      <4> QED BY <3>1, <4>1, <4>2, SeatsLeftAlone
    <3>3. CASE CancelReview(e, r)
      <4> DEFINE new == [reviews[r] EXCEPT !.state = "Cancelled", !.disposition = "Cancelled",
                                           !.authorityCurrent = FALSE]
      <4>1. reviews' = [reviews EXCEPT ![r] = new]
        BY <3>3 DEF CancelReview
      <4>2. new.assignments = reviews[r].assignments
        BY ReviewLookups DEF Review
      <4> HIDE DEF new
      <4> QED BY <3>1, <4>1, <4>2, SeatsLeftAlone
    <3> QED BY <2>6, <3>2, <3>3
  <2> QED
    BY <1>2, <2>1, <2>2, <2>3, <2>4, <2>5, <2>6 DEF Control
<1>3. CASE Incarnation
  <2>1. ASSUME NEW e, NEW w, NEW boot, NEW c, NEW g, RegisterWorker(e, w, boot, c, g)
        PROVE  SeatInv'
    BY <2>1, WithdrawalSeats DEF RegisterWorker
  <2>2. ASSUME NEW e, NEW x, NEW ready, NEW healthy, NEW evidence,
               DeclareReadiness(e, x, ready, healthy, evidence)
        PROVE  SeatInv'
    BY <1>1, <2>2 DEF DeclareReadiness
  <2>3. ASSUME NEW ws, Fence(ws)
        PROVE  SeatInv'
    BY <2>3, WithdrawalSeats DEF Fence
  <2> QED
    BY <1>3, <2>1, <2>2, <2>3 DEF Incarnation, FenceWorker, FenceCritic
<1>4. CASE Output
  BY <1>4, OutputSeats
<1>5. CASE Restart
  BY <1>5, WithdrawalSeats DEF Restart
<1>6. CASE UNCHANGED vars
  BY <1>1, <1>6 DEF vars
<1> QED
  BY <1>2, <1>3, <1>4, <1>5, <1>6 DEF Next

\* README "Quorum semantics": whatever is assigned, retired, fenced and
\* registered, an active assignment is its critic's newest and only active one,
\* of the critic's current generation.
THEOREM OneSeat == Spec => []OneSeatPerCritic
<1>1. Init => SeatInv
  BY DEF Init, EmptyMap, SeatInv
<1>2. SeatInv => OneSeatPerCritic
  BY DEF SeatInv, Seated, NewestOnly, SeatsCurrent, OneSeatPerCritic
<1> QED
  BY <1>1, <1>2, TypeInit, TypeStep, SeatStep, PTL DEF Spec

-----------------------------------------------------------------------------
(* A seat whose process can no longer speak.                               *)

\* What the review of seat a looks like once the seat is taken away.
TakenAway(r, a) ==
    /\ reviews'[r].state = "RevalidationRequired"
    /\ [a EXCEPT !.active = FALSE] \in reviews'[r].assignments

\* Retiring a seat of an open review sends the review to revalidation.
LEMMA RetiredIsTakenAway ==
    ASSUME TypeOK, NEW r \in OpenReviews, NEW retired, NEW a \in reviews[r].assignments,
           a \in retired, reviews'[r] = Retire(reviews[r], retired)
    PROVE  TakenAway(r, a)
<1> DEFINE rev == reviews[r]
           S == {IF b \in retired THEN [b EXCEPT !.active = FALSE] ELSE b : b \in rev.assignments}
           new == [rev EXCEPT !.assignments = S]
<1>1. rev \in Review /\ rev.state \notin TerminalStates
  BY ReviewLookups DEF OpenReviews
<1>2. [a EXCEPT !.active = FALSE] \in S
  OBVIOUS
<1>3. reviews'[r] = Revalidate(new)
  BY DEF Retire
<1> HIDE DEF S
<1>4. new.state = rev.state /\ new.assignments = S
  BY <1>1 DEF Review
<1>5. reviews'[r] = [new EXCEPT !.state = "RevalidationRequired",
                                !.disposition = "RevalidationRequired",
                                !.authorityCurrent = FALSE]
  BY <1>1, <1>3, <1>4 DEF Revalidate
<1>6. reviews'[r].state = "RevalidationRequired" /\ reviews'[r].assignments = S
  BY <1>1, <1>5 DEF Review
<1> QED
  BY <1>2, <1>6 DEF TakenAway

\* Only what the registry says of a's critic, worker and incumbent makes a
\* binding current.
LEMMA BindingStays ==
    ASSUME NEW a, BindingCurrent(a),
           a.critic \in DOMAIN critics', a.worker \in DOMAIN workers',
           a.critic \in DOMAIN incumbents',
           critics'[a.critic].generation = critics[a.critic].generation,
           workers'[a.worker].boot = workers[a.worker].boot,
           workers'[a.worker].critic = workers[a.worker].critic,
           workers'[a.worker].criticGeneration = workers[a.worker].criticGeneration,
           incumbents'[a.critic] = incumbents[a.critic]
    PROVE  (BindingCurrent(a))'
  BY DEF BindingCurrent

\* The only seats a new generation of a critic unbinds are the critic's, and it
\* takes all of them away.
LEMMA AdvanceCriticTakesAway ==
    ASSUME TypeOK, NEW e, NEW c, NEW capability, NEW advance,
           AdvanceCritic(e, c, capability, advance),
           NEW r \in OpenReviews, NEW a \in reviews[r].assignments, a.active,
           BindingCurrent(a), ~(BindingCurrent(a))'
    PROVE  TakenAway(r, a)
<1> DEFINE fenced == Fenceable(WorkersOf(c))
<1>1. /\ workers' = Silenced(fenced)
      /\ UNCHANGED incumbents
      /\ DOMAIN critics' = DOMAIN critics \cup {c}
      /\ \A d \in DOMAIN critics : d # c => critics'[d] = critics[d]
      /\ reviews'[r] =
            Retire(reviews[r], Abandoned(reviews[r], fenced) \cup ActiveOf(reviews[r], c))
  BY DEF AdvanceCritic, Put, OpenReviews
<1> HIDE DEF fenced
<1>2. /\ DOMAIN workers' = DOMAIN workers
      /\ \A w \in DOMAIN workers :
            /\ workers'[w].boot = workers[w].boot
            /\ workers'[w].critic = workers[w].critic
            /\ workers'[w].criticGeneration = workers[w].criticGeneration
  BY <1>1, SilencedWorkers DEF TypeOK, RegistryTypeOK
<1>3. a.critic = c
  BY <1>1, <1>2, BindingStays DEF BindingCurrent
<1>4. a \in ActiveOf(reviews[r], c)
  BY <1>3 DEF ActiveOf
<1> QED
  BY <1>1, <1>4, RetiredIsTakenAway

\* A registration unbinds the seats of the incarnation it replaces and of the
\* incumbent it succeeds; those that could speak are fenced, and lose them.
LEMMA RegisterWorkerTakesAway ==
    ASSUME TypeOK, NEW e, NEW w, NEW boot, NEW c, NEW g, RegisterWorker(e, w, boot, c, g),
           NEW r \in OpenReviews, NEW a \in reviews[r].assignments, a.active,
           ~Discharged(reviews[r], a), Speaking(a), ~(BindingCurrent(a))'
    PROVE  TakenAway(r, a)
<1> DEFINE competing == {v \in WorkersOf(c) \ {w} : Authoritative(v)}
           fenced == Fenceable({w} \cup competing)
           entered == [boot |-> boot, critic |-> c, criticGeneration |-> g,
                       ready |-> FALSE, healthy |-> FALSE, bootOrder |-> nextBootOrder]
<1>1. /\ workers' = Put(Silenced(fenced), w, entered)
      /\ UNCHANGED critics
      /\ incumbents' = IncumbentAfter(c, w, workers')
      /\ reviews'[r] = Retire(reviews[r], Abandoned(reviews[r], fenced))
  BY DEF RegisterWorker, OpenReviews
<1>2. BindingCurrent(a) /\ a.worker \in DOMAIN workers /\ Authoritative(a.worker)
  BY DEF Speaking, BindingCurrent
<1>3. a.worker \in {w} \cup competing
  <2>1. CASE a.worker # w
    <3>1. /\ a.worker \in DOMAIN workers'
          /\ workers'[a.worker].boot = workers[a.worker].boot
          /\ workers'[a.worker].critic = workers[a.worker].critic
          /\ workers'[a.worker].criticGeneration = workers[a.worker].criticGeneration
      <4> HIDE DEF fenced, entered
      <4>1. /\ DOMAIN Silenced(fenced) = DOMAIN workers
            /\ Silenced(fenced)[a.worker].boot = workers[a.worker].boot
            /\ Silenced(fenced)[a.worker].critic = workers[a.worker].critic
            /\ Silenced(fenced)[a.worker].criticGeneration = workers[a.worker].criticGeneration
        BY <1>2, SilencedWorkers DEF TypeOK, RegistryTypeOK
      <4>2. /\ DOMAIN workers' = DOMAIN Silenced(fenced) \cup {w}
            /\ workers'[a.worker] = Silenced(fenced)[a.worker]
        BY <1>1, <1>2, <2>1, <4>1 DEF Put
      <4> QED BY <1>2, <4>1, <4>2
    <3>2. a.critic = c
      <4>1. ASSUME a.critic # c PROVE FALSE
        <5>1. a.critic \in DOMAIN incumbents' /\ incumbents'[a.critic] = incumbents[a.critic]
          BY <1>1, <1>2, <4>1 DEF IncumbentAfter, Put, BindingCurrent
        <5> QED BY <1>1, <1>2, <3>1, <5>1, BindingStays DEF BindingCurrent
      <4> QED BY <4>1
    <3> QED BY <1>2, <2>1, <3>2 DEF WorkersOf, BindingCurrent
  <2> QED BY <2>1
<1>4. a.worker \in fenced
  <2> HIDE DEF competing
  <2> QED BY <1>2, <1>3 DEF Fenceable, Authoritative
<1> HIDE DEF fenced
<1>5. a \in Abandoned(reviews[r], fenced)
  BY <1>2, <1>4 DEF Abandoned, BindingCurrent
<1> QED
  BY <1>1, <1>5, RetiredIsTakenAway

\* No other step unbinds a process.
LEMMA OthersKeepBindings ==
    ASSUME TypeOK, NEW a, BindingCurrent(a),
           \/ UNCHANGED <<critics, workers, incumbents>>
           \/ \E e, c, capability : RegisterCritic(e, c, capability)
           \/ \E e, x, ready, healthy, evidence : DeclareReadiness(e, x, ready, healthy, evidence)
           \/ \E ws : workers' = Silenced(ws) /\ UNCHANGED <<critics, incumbents>>
    PROVE  (BindingCurrent(a))'
<1>1. CASE UNCHANGED <<critics, workers, incumbents>>
  BY <1>1 DEF BindingCurrent
<1>2. ASSUME NEW e, NEW c, NEW capability, RegisterCritic(e, c, capability)
      PROVE  (BindingCurrent(a))'
  BY <1>2 DEF RegisterCritic, Put, BindingCurrent
<1>3. ASSUME NEW e, NEW x, NEW ready, NEW healthy, NEW evidence,
             DeclareReadiness(e, x, ready, healthy, evidence)
      PROVE  (BindingCurrent(a))'
  <2>1. /\ workers' = [workers EXCEPT ![x.worker].ready = ready, ![x.worker].healthy = healthy]
        /\ UNCHANGED <<critics, incumbents>>
    BY <1>3 DEF DeclareReadiness
  <2>2. a.worker \in DOMAIN workers /\ workers[a.worker] \in Worker
    BY DEF BindingCurrent, TypeOK, RegistryTypeOK, IsMap
  <2>3. /\ a.worker \in DOMAIN workers'
        /\ workers'[a.worker].boot = workers[a.worker].boot
        /\ workers'[a.worker].critic = workers[a.worker].critic
        /\ workers'[a.worker].criticGeneration = workers[a.worker].criticGeneration
    BY <2>1, <2>2 DEF Worker
  <2> QED BY <2>1, <2>3, BindingStays DEF BindingCurrent
<1>4. ASSUME NEW ws, workers' = Silenced(ws), UNCHANGED <<critics, incumbents>>
      PROVE  (BindingCurrent(a))'
  BY <1>4, SilencedWorkers, BindingStays DEF BindingCurrent, TypeOK, RegistryTypeOK
<1> QED
  BY <1>1, <1>2, <1>3, <1>4

\* README "Worker death and reincarnation": whatever replaces or retires a
\* process that could still speak for its open assignment takes the assignment
\* away and sends the review to revalidation.
THEOREM LostVoice == Spec => LostVoiceForcesRevalidation
<1> DEFINE Loses(r, a) ==
        a.active /\ ~Discharged(reviews[r], a) /\ Speaking(a) /\ ~(BindingCurrent(a))'
<1>1. ASSUME TypeOK, [Next]_vars, NEW r \in OpenReviews, NEW a \in reviews[r].assignments,
             Loses(r, a)
      PROVE  TakenAway(r, a)
  <2>1. BindingCurrent(a)
    BY <1>1 DEF Speaking
  <2>2. ASSUME NEW e, NEW c, NEW capability, NEW advance,
               AdvanceCritic(e, c, capability, advance)
        PROVE  TakenAway(r, a)
    BY <1>1, <2>1, <2>2, AdvanceCriticTakesAway
  <2>3. ASSUME NEW e, NEW w, NEW boot, NEW c, NEW g, RegisterWorker(e, w, boot, c, g)
        PROVE  TakenAway(r, a)
    BY <1>1, <2>3, RegisterWorkerTakesAway
  <2>4. ASSUME \/ UNCHANGED <<critics, workers, incumbents>>
               \/ \E e, c, capability : RegisterCritic(e, c, capability)
               \/ \E e, x, ready, healthy, evidence :
                      DeclareReadiness(e, x, ready, healthy, evidence)
               \/ \E ws : workers' = Silenced(ws) /\ UNCHANGED <<critics, incumbents>>
        PROVE  FALSE
    BY <1>1, <2>1, <2>4, OthersKeepBindings
  <2>5. CASE Incarnation
    <3>1. ASSUME NEW ws, Fence(ws) PROVE FALSE
      BY <2>4, <3>1 DEF Fence
    <3> QED
      BY <2>3, <2>4, <2>5, <3>1 DEF Incarnation, FenceWorker, FenceCritic
  <2>6. CASE Restart
    BY <2>4, <2>6 DEF Restart
  <2>7. CASE UNCHANGED vars
    BY <2>4, <2>7 DEF vars, registry
  <2>8. CASE \E e, t, content : RegisterTarget(e, t, content) \/ AdvanceTarget(e, t, content)
    BY <2>4, <2>8 DEF RegisterTarget, AdvanceTarget
  <2>9. CASE UNCHANGED <<epoch, registry>>
    BY <2>4, <2>9 DEF registry
  <2> QED
    BY <1>1, <2>2, <2>4, <2>5, <2>6, <2>7, <2>8, <2>9, RegistrySteps
<1> HIDE DEF Loses
<1>2. TypeOK /\ [Next]_vars =>
        \A r \in OpenReviews : \A a \in reviews[r].assignments : Loses(r, a) => TakenAway(r, a)
  BY <1>1
<1>3. ASSUME TypeOK, [Next]_vars PROVE
        \A r \in OpenReviews : \A a \in reviews[r].assignments :
          a.active /\ ~Discharged(reviews[r], a) /\ Speaking(a) /\ ~(BindingCurrent(a))' =>
              /\ reviews'[r].state = "RevalidationRequired"
              /\ [a EXCEPT !.active = FALSE] \in reviews'[r].assignments
  BY <1>2, <1>3 DEF Loses, TakenAway
<1> QED
  BY <1>3, TypeInit, TypeStep, PTL DEF Spec, LostVoiceForcesRevalidation

-----------------------------------------------------------------------------
(* The ways to rewrite a review.                                           *)

\* The decision is left alone, as is the generation it would be about, and the
\* review is neither closed nor reopened by being committed.
Undecided(rev, new) ==
    /\ new.decision = rev.decision
    /\ new.targetGeneration = rev.targetGeneration
    /\ \/ new.state = rev.state /\ new.disposition = rev.disposition
       \/ rev.state \notin TerminalStates /\ new.state # "Committed"

SaysTheSame(rev, new) ==
    /\ new.findings = rev.findings
    /\ new.evidences = rev.evidences
    /\ new.challenges = rev.challenges

Decides(rev, new) ==
    /\ rev.decision = NoDecision
    /\ rev.state \notin TerminalStates \cup {"RevalidationRequired"}
    /\ new.state = "Committed"
    /\ new.decision = Resolve(rev)
    /\ new.disposition = new.decision.disposition
    /\ new.authorityCurrent = TRUE
    /\ new.spec = rev.spec
    /\ new.target = rev.target
    /\ new.targetGeneration = rev.targetGeneration
    /\ new.digest = rev.digest
    /\ new.assignments = rev.assignments
    /\ UNCHANGED registry

Silences(rev, new) ==
    /\ new.findings = {IF f.state \in CurrentFindingStates
                       THEN [f EXCEPT !.state = "Invalidated"] ELSE f : f \in rev.findings}
    /\ new.evidences = rev.evidences
    /\ new.challenges = rev.challenges

EvidenceAdded(rev, new, e, finding) ==
    /\ e.id = Fresh(rev.evidences)
    /\ new.evidences = rev.evidences \cup {e}
    /\ new.findings = {IF f.id = finding THEN [f EXCEPT !.evidence = Append(@, e.id)]
                                         ELSE f : f \in rev.findings}
    /\ new.challenges = rev.challenges

AddsEvidence(rev, new) == \E e, finding : EvidenceAdded(rev, new, e, finding)

FindingAdded(rev, new, finding, superseded, cited) ==
    /\ finding.id = Fresh(rev.findings)
    /\ finding.state = "Current"
    /\ finding.targetGeneration = rev.targetGeneration
    /\ Range(finding.evidence) \subseteq {e.id : e \in rev.evidences}
    /\ \A f \in OwnCurrent(rev, finding.critic) : ~Contradicts(f, finding)
    /\ new.findings = SetState(rev.findings, superseded, "Superseded") \cup {finding}
    /\ new.evidences = {IF e.id \in cited /\ e.finding = NoId
                        THEN [e EXCEPT !.finding = finding.id] ELSE e : e \in rev.evidences}
    /\ new.challenges = rev.challenges

AddsFinding(rev, new) ==
    \E finding, superseded, cited : FindingAdded(rev, new, finding, superseded, cited)

AddsChallenge(rev, new) ==
    \E ch :
        /\ ~ch.resolved
        /\ \E f \in rev.findings : f.id = ch.finding /\ f.state \in CurrentFindingStates
        /\ new.findings = SetState(rev.findings, ch.finding, "Challenged")
        /\ new.challenges = rev.challenges \cup {ch}
        /\ new.evidences = rev.evidences

AnswersChallenge(rev, new) ==
    \E ch \in rev.challenges, outcome \in ChallengeOutcomes :
        /\ \E f \in rev.findings : f.id = ch.finding /\ f.state \in CurrentFindingStates
        /\ new.findings = SetState(rev.findings, ch.finding, AfterRebuttal(outcome))
        /\ new.challenges = (rev.challenges \ {ch}) \cup
                               {[ch EXCEPT !.resolved = TRUE, !.outcome = outcome]}
        /\ new.evidences = rev.evidences

Rewrites(rev, new) ==
    \/ Decides(rev, new) /\ SaysTheSame(rev, new)
    \/ /\ Undecided(rev, new)
       /\ \/ SaysTheSame(rev, new)
          \/ Silences(rev, new)
          \/ AddsEvidence(rev, new)
          \/ AddsFinding(rev, new)
          \/ AddsChallenge(rev, new)
          \/ AnswersChallenge(rev, new)

\* A review nobody has said anything on.
Blank(rev) ==
    /\ rev.state = "Declared" /\ rev.decision = NoDecision
    /\ rev.findings = {} /\ rev.evidences = {} /\ rev.challenges = {}

\* What a step does to the reviews.
RewritesAll ==
    /\ DOMAIN reviews \subseteq DOMAIN reviews'
    /\ \A r \in DOMAIN reviews' :
          \/ r \in DOMAIN reviews /\ Rewrites(reviews[r], reviews'[r])
          \/ r \notin DOMAIN reviews /\ Blank(reviews'[r])

-----------------------------------------------------------------------------
(* Every step rewrites reviews in these ways.                              *)

\* A review left alone.
LEMMA Unwritten ==
    ASSUME NEW rev
    PROVE  Rewrites(rev, rev)
  BY DEF Rewrites, Undecided, SaysTheSame

\* Withdrawals decide nothing.
LEMMA WithdrawalRewrites ==
    ASSUME NEW rev \in Review
    PROVE  /\ Rewrites(rev, Revalidate(rev))
           /\ \A retired : Rewrites(rev, Retire(rev, retired))
           /\ Rewrites(rev, Supersede(rev))
<1>1. ASSUME NEW x \in Review
      PROVE  SaysTheSame(x, Revalidate(x)) /\ Undecided(x, Revalidate(x))
  BY DEF Revalidate, Review, SaysTheSame, Undecided
<1>2. ASSUME NEW retired
      PROVE  Rewrites(rev, Retire(rev, retired))
  <2> DEFINE S   == {IF a \in retired THEN [a EXCEPT !.active = FALSE] ELSE a
                       : a \in rev.assignments}
             new == [rev EXCEPT !.assignments = S]
  <2>1. Retire(rev, retired) = IF retired = {} THEN rev ELSE Revalidate(new)
    BY DEF Retire
  <2>2. S \subseteq Assignment
    BY DeactivatedType
  <2> HIDE DEF S
  <2>3. /\ new \in Review /\ SaysTheSame(rev, new)
        /\ new.state = rev.state /\ new.disposition = rev.disposition
        /\ new.decision = rev.decision /\ new.targetGeneration = rev.targetGeneration
    BY <2>2 DEF Review, SaysTheSame
  <2> HIDE DEF new
  <2>4. SaysTheSame(rev, Revalidate(new)) /\ Undecided(rev, Revalidate(new))
    BY <1>1, <2>3 DEF SaysTheSame, Undecided
  <2> QED BY <2>1, <2>4, Unwritten DEF Rewrites
<1>3. Rewrites(rev, Supersede(rev))
  <2> DEFINE closed == {IF f.state \in CurrentFindingStates
                        THEN [f EXCEPT !.state = "Invalidated"] ELSE f : f \in rev.findings}
  <2>1. Supersede(rev) =
          LET c == [rev EXCEPT !.authorityCurrent = FALSE, !.findings = closed]
          IN  IF rev.state \in TerminalStates THEN c
              ELSE [c EXCEPT !.state = "Superseded", !.disposition = "Superseded"]
    BY DEF Supersede
  <2> HIDE DEF closed
  <2>2. /\ Supersede(rev).findings = closed
        /\ Supersede(rev).evidences = rev.evidences
        /\ Supersede(rev).challenges = rev.challenges
        /\ Undecided(rev, Supersede(rev))
    BY <2>1 DEF Review, Undecided
  <2>3. Silences(rev, Supersede(rev))
    BY <2>2 DEF Silences, closed
  <2> QED BY <2>2, <2>3 DEF Rewrites
<1> QED
  BY <1>1, <1>2, <1>3 DEF Rewrites

\* A step made of withdrawals.
LEMMA WithdrawalsRewrite ==
    ASSUME TypeOK, DOMAIN reviews' = DOMAIN reviews,
           \A r \in DOMAIN reviews :
              \/ reviews'[r] = reviews[r]
              \/ reviews'[r] = Revalidate(reviews[r])
              \/ reviews'[r] = Supersede(reviews[r])
              \/ \E retired : reviews'[r] = Retire(reviews[r], retired)
    PROVE  RewritesAll
  BY ReviewLookups, WithdrawalRewrites, Unwritten DEF RewritesAll

\* A call on one review.
LEMMA OneRewritten ==
    ASSUME NEW r \in DOMAIN reviews, NEW new,
           reviews' = [reviews EXCEPT ![r] = new], Rewrites(reviews[r], new)
    PROVE  RewritesAll
<1>1. /\ DOMAIN reviews' = DOMAIN reviews
      /\ reviews'[r] = new
      /\ \A x \in DOMAIN reviews \ {r} : reviews'[x] = reviews[x]
  OBVIOUS
<1> QED
  BY <1>1, Unwritten DEF RewritesAll

\* declare_review
LEMMA DeclareReviewRewrites ==
    ASSUME NEW e, NEW r, NEW t, NEW g, NEW spec, DeclareReview(e, r, t, g, spec)
    PROVE  RewritesAll
<1>1. /\ DOMAIN reviews' = DOMAIN reviews \cup {r}
      /\ r \notin DOMAIN reviews
      /\ \A x \in DOMAIN reviews : reviews'[x] = reviews[x]
      /\ Blank(reviews'[r])
  BY DEF DeclareReview, Put, Blank
<1> QED
  BY <1>1, Unwritten DEF RewritesAll

\* assign_critics
LEMMA AssignCriticsRewrites ==
    ASSUME TypeOK, NEW e, NEW r \in DOMAIN reviews, NEW batch, AssignCritics(e, r, batch)
    PROVE  RewritesAll
<1> DEFINE rev == reviews[r]
           New(assignments) ==
              LET granted == [rev EXCEPT !.assignments = assignments]
              IN  IF rev.state \in {"Declared", "Assigning", "RevalidationRequired"}
                  THEN [granted EXCEPT !.state = "Assigned", !.disposition = "None",
                                       !.authorityCurrent = TRUE]
                  ELSE granted
<1>1. PICK assignments : reviews' = [reviews EXCEPT ![r] = New(assignments)]
  BY DEF AssignCritics
<1>2. rev.state \notin TerminalStates
  BY DEF AssignCritics
<1>3. SaysTheSame(rev, New(assignments)) /\ Undecided(rev, New(assignments))
  BY <1>2, ReviewLookups DEF Review, SaysTheSame, Undecided
<1> HIDE DEF New
<1> QED
  BY <1>1, <1>3, OneRewritten DEF Rewrites

\* commit_review
LEMMA CommitReviewRewrites ==
    ASSUME TypeOK, NEW e, NEW r \in DOMAIN reviews, CommitReview(e, r)
    PROVE  RewritesAll
<1> DEFINE rev == reviews[r]
           decision == Resolve(rev)
           new == [rev EXCEPT !.state = "Committed", !.decision = decision,
                              !.disposition = decision.disposition, !.authorityCurrent = TRUE]
<1>1. /\ reviews' = [reviews EXCEPT ![r] = new]
      /\ rev.decision = NoDecision
      /\ rev.state \notin TerminalStates \cup {"RevalidationRequired"}
      /\ UNCHANGED registry
  BY DEF CommitReview
<1>2. decision = Resolve(rev)
  OBVIOUS
<1> HIDE DEF decision
<1>3. SaysTheSame(rev, new) /\ Decides(rev, new)
  BY <1>1, <1>2, ReviewLookups DEF Review, SaysTheSame, Decides
<1> HIDE DEF new
<1> QED
  BY <1>1, <1>3, OneRewritten DEF Rewrites

\* cancel_review
LEMMA CancelReviewRewrites ==
    ASSUME TypeOK, NEW e, NEW r \in DOMAIN reviews, CancelReview(e, r)
    PROVE  RewritesAll
<1> DEFINE rev == reviews[r]
           new == [rev EXCEPT !.state = "Cancelled", !.disposition = "Cancelled",
                              !.authorityCurrent = FALSE]
<1>1. reviews' = [reviews EXCEPT ![r] = new] /\ rev.state \notin TerminalStates
  BY DEF CancelReview
<1>2. SaysTheSame(rev, new) /\ Undecided(rev, new)
  BY <1>1, ReviewLookups DEF Review, SaysTheSame, Undecided
<1> HIDE DEF new
<1> QED
  BY <1>1, <1>2, OneRewritten DEF Rewrites

\* A critic's message reaches an open review that is known.
LEMMA SpokenTo ==
    ASSUME TypeOK, NEW m, CheckAuthority(m)
    PROVE  /\ m.review \in DOMAIN reviews
           /\ reviews[m.review] \in Review
           /\ reviews[m.review].state \notin TerminalStates
  BY ReviewLookups DEF CheckAuthority, AcceptsCriticInput, TerminalStates

\* submit_evidence
LEMMA SubmitEvidenceRewrites ==
    ASSUME TypeOK, NEW m, NEW input, NEW finding, SubmitEvidence(m, input, finding)
    PROVE  RewritesAll
<1> DEFINE rev == reviews[m.review]
           id  == Fresh(rev.evidences)
           e   == [id |-> id, critic |-> m.critic, criticGeneration |-> m.criticGeneration,
                   finding |-> finding, verified |-> input.verified,
                   provenanceKnown |-> input.provenanceKnown]
           T   == {IF f.id = finding THEN [f EXCEPT !.evidence = Append(@, id)]
                                     ELSE f : f \in rev.findings}
           E   == rev.evidences \cup {e}
           new == [rev EXCEPT !.evidences = E, !.findings = T]
<1>1. m.review \in DOMAIN reviews /\ rev \in Review
  BY SpokenTo DEF SubmitEvidence
<1>2. reviews' = [reviews EXCEPT ![m.review] = new]
  BY DEF SubmitEvidence
<1>3. e.id = id
  OBVIOUS
<1> HIDE DEF T, E, e
<1>4. /\ new.evidences = E /\ new.findings = T /\ new.challenges = rev.challenges
      /\ Undecided(rev, new)
  BY <1>1 DEF Review, Undecided
<1>5. AddsEvidence(rev, new)
  <2>1. T = {IF f.id = finding THEN [f EXCEPT !.evidence = Append(@, e.id)]
                               ELSE f : f \in rev.findings}
    BY <1>3 DEF T
  <2>2. E = rev.evidences \cup {e}
    BY DEF E
  <2>3. e.id = Fresh(rev.evidences)
    BY <1>3
  <2> HIDE DEF new, rev, id
  <2>4. EvidenceAdded(rev, new, e, finding)
    BY <1>4, <2>1, <2>2, <2>3, Zenon DEF EvidenceAdded
  <2> QED BY <2>4 DEF AddsEvidence
<1> HIDE DEF new
<1> QED
  BY <1>1, <1>2, <1>4, <1>5, OneRewritten DEF Rewrites

\* submit_finding
LEMMA SubmitFindingRewrites ==
    ASSUME TypeOK, NEW m, NEW input, NEW supersedes, SubmitFinding(m, input, supersedes)
    PROVE  RewritesAll
<1> DEFINE rev == reviews[m.review]
           assignment == ActiveAssignment(rev, m.critic)
           finding ==
             [id |-> Fresh(rev.findings), critic |-> m.critic,
              criticGeneration |-> m.criticGeneration, assignment |-> assignment.ordinal,
              worker |-> m.worker, boot |-> m.boot,
              targetGeneration |-> rev.targetGeneration,
              category |-> input.category, severity |-> input.severity,
              outcome |-> input.outcome, evidence |-> input.evidence,
              cited |-> input.evidence, explanation |-> input.explanation,
              state |-> "Current"]
           T == SetState(rev.findings, supersedes, "Superseded") \cup {finding}
           E == {IF e.id \in Range(input.evidence) /\ e.finding = NoId
                 THEN [e EXCEPT !.finding = finding.id] ELSE e : e \in rev.evidences}
           recorded == [rev EXCEPT !.findings = T, !.evidences = E]
           new == IF rev.state \in {"Assigned", "Reviewing"}
                  THEN [recorded EXCEPT !.state = "FindingsReceived", !.disposition = "None",
                                        !.authorityCurrent = TRUE]
                  ELSE recorded
<1>1. m.review \in DOMAIN reviews /\ rev \in Review /\ rev.state \notin TerminalStates
  BY SpokenTo DEF SubmitFinding
<1>2. reviews' = [reviews EXCEPT ![m.review] = new]
  BY DEF SubmitFinding
<1>3. Range(input.evidence) \subseteq {e.id : e \in rev.evidences}
  BY DEF SubmitFinding, Citable
<1>4. \A f \in OwnCurrent(rev, m.critic) : ~Contradicts(f, input)
  BY DEF SubmitFinding
<1>5. /\ finding.id = Fresh(rev.findings) /\ finding.state = "Current"
      /\ finding.critic = m.critic /\ finding.evidence = input.evidence
      /\ finding.category = input.category /\ finding.outcome = input.outcome
      /\ finding.targetGeneration = rev.targetGeneration
  OBVIOUS
<1> HIDE DEF finding
<1>6. \A f \in OwnCurrent(rev, finding.critic) : ~Contradicts(f, finding)
  BY <1>4, <1>5 DEF Contradicts
<1> HIDE DEF T, E
<1>7. /\ new.evidences = E /\ new.findings = T /\ new.challenges = rev.challenges
      /\ Undecided(rev, new)
  BY <1>1 DEF Review, Undecided
<1> HIDE DEF new
<1>8. AddsFinding(rev, new)
  <2>1. T = SetState(rev.findings, supersedes, "Superseded") \cup {finding}
    BY DEF T
  <2>2. E = {IF e.id \in Range(input.evidence) /\ e.finding = NoId
             THEN [e EXCEPT !.finding = finding.id] ELSE e : e \in rev.evidences}
    BY Zenon DEF E
  <2> DEFINE cited == Range(input.evidence)
  <2>3. E = {IF e.id \in cited /\ e.finding = NoId
             THEN [e EXCEPT !.finding = finding.id] ELSE e : e \in rev.evidences}
    BY <2>2
  <2>4. Range(finding.evidence) \subseteq {e.id : e \in rev.evidences}
    BY <1>3, <1>5
  <2> HIDE DEF cited, rev
  <2>5. FindingAdded(rev, new, finding, supersedes, cited)
    BY <1>5, <1>6, <1>7, <2>1, <2>3, <2>4, Zenon DEF FindingAdded
  <2> QED BY <2>5 DEF AddsFinding
<1> QED
  BY <1>1, <1>2, <1>7, <1>8, OneRewritten DEF Rewrites

\* submit_challenge
LEMMA SubmitChallengeRewrites ==
    ASSUME TypeOK, NEW m, NEW id, SubmitChallenge(m, id)
    PROVE  RewritesAll
<1> DEFINE rev == reviews[m.review]
           ch  == [id |-> Fresh(rev.challenges), finding |-> id, challenger |-> m.critic,
                   resolved |-> FALSE, outcome |-> "Unresolved"]
           T   == SetState(rev.findings, id, "Challenged")
           C   == rev.challenges \cup {ch}
           challenged == [rev EXCEPT !.challenges = C, !.findings = T]
           new == IF rev.state # "Challenged"
                  THEN [challenged EXCEPT !.state = "Challenged", !.disposition = "None",
                                          !.authorityCurrent = TRUE]
                  ELSE challenged
<1>1. m.review \in DOMAIN reviews /\ rev \in Review /\ rev.state \notin TerminalStates
  BY SpokenTo DEF SubmitChallenge
<1>2. reviews' = [reviews EXCEPT ![m.review] = new]
  BY DEF SubmitChallenge
<1>3. \E f \in rev.findings : f.id = id /\ f.state \in CurrentFindingStates
  BY DEF SubmitChallenge
<1>4. ch.finding = id /\ ~ch.resolved
  OBVIOUS
<1> HIDE DEF T, C, ch
<1>5. /\ new.challenges = C /\ new.findings = T /\ new.evidences = rev.evidences
      /\ Undecided(rev, new)
  BY <1>1 DEF Review, Undecided
<1> HIDE DEF new
<1>6. AddsChallenge(rev, new)
  BY <1>3, <1>4, <1>5 DEF AddsChallenge, T, C
<1> QED
  BY <1>1, <1>2, <1>5, <1>6, OneRewritten DEF Rewrites

\* submit_rebuttal
LEMMA SubmitRebuttalRewrites ==
    ASSUME TypeOK, NEW m, NEW id, NEW outcome \in ChallengeOutcomes,
           SubmitRebuttal(m, id, outcome)
    PROVE  RewritesAll
<1> DEFINE rev == reviews[m.review]
           T(ch) == SetState(rev.findings, ch.finding, AfterRebuttal(outcome))
           C(ch) == (rev.challenges \ {ch}) \cup
                       {[ch EXCEPT !.resolved = TRUE, !.outcome = outcome]}
           New(challenges, findings, rounds) ==
              [rev EXCEPT !.challenges = challenges, !.findings = findings,
                          !.state = "Evaluating", !.disposition = "None",
                          !.authorityCurrent = TRUE, !.roundsUsed = rounds]
<1>1. m.review \in DOMAIN reviews /\ rev \in Review /\ rev.state \notin TerminalStates
  BY SpokenTo DEF SubmitRebuttal
<1>2. PICK ch \in rev.challenges :
        /\ \E f \in OwnCurrent(rev, m.critic) : f.id = ch.finding
        /\ reviews' = [reviews EXCEPT ![m.review] = New(C(ch), T(ch), rev.roundsUsed + 1)]
  BY DEF SubmitRebuttal
<1>3. \E f \in rev.findings : f.id = ch.finding /\ f.state \in CurrentFindingStates
  BY <1>2 DEF OwnCurrent
<1> DEFINE new == New(C(ch), T(ch), rev.roundsUsed + 1)
<1>4. /\ new.challenges = C(ch) /\ new.findings = T(ch) /\ new.evidences = rev.evidences
      /\ Undecided(rev, new)
  <2> HIDE DEF C, T
  <2> QED BY <1>1 DEF Review, Undecided
<1>5. reviews' = [reviews EXCEPT ![m.review] = new]
  BY <1>2
<1> HIDE DEF new
<1>6. AnswersChallenge(rev, new)
  BY <1>3, <1>4 DEF AnswersChallenge
<1> QED
  BY <1>1, <1>4, <1>5, <1>6, OneRewritten DEF Rewrites

\* Every step rewrites reviews in one of the ways above.
LEMMA StepRewrites == TypeOK /\ [Next]_vars => RewritesAll
<1> SUFFICES ASSUME TypeOK, [Next]_vars PROVE RewritesAll
  OBVIOUS
<1>1. ASSUME UNCHANGED reviews PROVE RewritesAll
  BY <1>1, WithdrawalsRewrite
<1>2. CASE Control
  <2>1. ASSUME NEW e, NEW t, NEW content,
               RegisterTarget(e, t, content) \/ AdvanceTarget(e, t, content)
        PROVE  RewritesAll
    BY <1>1, <2>1, WithdrawalsRewrite DEF RegisterTarget, AdvanceTarget
  <2>2. ASSUME NEW e, NEW c, NEW capability, RegisterCritic(e, c, capability)
        PROVE  RewritesAll
    BY <1>1, <2>2 DEF RegisterCritic
  <2>3. ASSUME NEW e, NEW c, NEW capability, NEW advance,
               AdvanceCritic(e, c, capability, advance)
        PROVE  RewritesAll
    BY <2>3, WithdrawalsRewrite DEF AdvanceCritic
  <2>4. ASSUME NEW e, NEW r, NEW t, NEW g, NEW spec, DeclareReview(e, r, t, g, spec)
        PROVE  RewritesAll
    BY <2>4, DeclareReviewRewrites
  <2>5. ASSUME NEW e, NEW r \in DOMAIN reviews, NEW batch, AssignCritics(e, r, batch)
        PROVE  RewritesAll
    BY <2>5, AssignCriticsRewrites
  <2>6. ASSUME NEW e, NEW r \in DOMAIN reviews, CommitReview(e, r) \/ CancelReview(e, r)
        PROVE  RewritesAll
    BY <2>6, CommitReviewRewrites, CancelReviewRewrites
  <2> QED
    BY <1>2, <2>1, <2>2, <2>3, <2>4, <2>5, <2>6 DEF Control
<1>3. CASE Incarnation
  <2>1. ASSUME NEW e, NEW w, NEW boot, NEW c, NEW g, RegisterWorker(e, w, boot, c, g)
        PROVE  RewritesAll
    BY <2>1, WithdrawalsRewrite DEF RegisterWorker
  <2>2. ASSUME NEW e, NEW x, NEW ready, NEW healthy, NEW evidence,
               DeclareReadiness(e, x, ready, healthy, evidence)
        PROVE  RewritesAll
    BY <1>1, <2>2 DEF DeclareReadiness
  <2>3. ASSUME NEW ws, Fence(ws)
        PROVE  RewritesAll
    BY <2>3, WithdrawalsRewrite DEF Fence
  <2> QED
    BY <1>3, <2>1, <2>2, <2>3 DEF Incarnation, FenceWorker, FenceCritic
<1>4. CASE Output
  <2>1. \A m, input, f : SubmitEvidence(m, input, f) => RewritesAll
    BY SubmitEvidenceRewrites
  <2>2. \A m, input, f : SubmitFinding(m, input, f) => RewritesAll
    BY SubmitFindingRewrites
  <2>3. \A m, f : SubmitChallenge(m, f) => RewritesAll
    BY SubmitChallengeRewrites
  <2>4. \A m, ch : \A outcome \in ChallengeOutcomes : SubmitRebuttal(m, ch, outcome) => RewritesAll
    BY SubmitRebuttalRewrites
  <2> HIDE DEF RewritesAll
  <2> QED BY <1>4, <2>1, <2>2, <2>3, <2>4 DEF Output
<1>5. CASE Restart
  BY <1>5, WithdrawalsRewrite DEF Restart
<1>6. CASE UNCHANGED vars
  BY <1>1, <1>6 DEF vars
<1> QED
  BY <1>2, <1>3, <1>4, <1>5, <1>6 DEF Next

-----------------------------------------------------------------------------
(* Decisions.                                                              *)

\* Where no critic has said anything there is a disposition all the same.
LEMMA SilenceIsNamed ==
    ASSUME NEW in, in.findings = {}
    PROVE  Evaluate(in) # "None"
<1> DEFINE t == Tally(in)
           a == Aggregated(in, t)
           d == UnderDisagreementPolicy(in, t, a)
<1>1. CountedFindings(in) = {}
  BY DEF CountedFindings
<1>2. \A c \in DOMAIN t.votes : t.votes[c].dominant = "Unknown"
  <2>1. t.votes = Votes(in, {})
    BY <1>1 DEF Tally, Tallied
  <2>2. \A c \in DOMAIN Votes(in, {}) : Votes(in, {})[c].dominant = Dominant({})
    BY DEF Votes
  <2>3. Dominant({}) = "Unknown"
    BY DEF Dominant
  <2> QED BY <2>1, <2>2, <2>3
<1>3. t.decisive = {}
  <2>1. t.decisive = {c \in DOMAIN t.votes : t.votes[c].dominant \in DecisiveOutcomes}
    BY DEF Tally, Tallied
  <2> QED BY <1>2, <2>1 DEF DecisiveOutcomes
<1> HIDE DEF t
<1>4. a = "InsufficientEvidence"
  BY <1>3 DEF Aggregated
<1> HIDE DEF a
<1>5. d # "None"
  BY <1>4 DEF UnderDisagreementPolicy
<1> HIDE DEF d
<1>6. Settled(in, t, d) # "None"
  BY <1>5 DEF Settled
<1>7. Evaluate(in) = IF in.review.state \in {"Cancelled", "Superseded", "RevalidationRequired"}
                     THEN in.review.state ELSE Settled(in, t, d)
  BY DEF Evaluate, t, a, d
<1> QED
  BY <1>6, <1>7

\* A decision is never mistaken for none.
LEMMA DecisionIsSome ==
    ASSUME NEW rev
    PROVE  Resolve(rev) # NoDecision
<1>1. CASE rev.findings = {}
  <2>1. EvaluationInput(rev).findings = {}
    BY <1>1 DEF EvaluationInput
  <2>2. Resolve(rev).disposition # "None"
    BY <2>1, SilenceIsNamed DEF Resolve
  <2> QED BY <2>2 DEF NoDecision
<1>2. CASE rev.findings # {}
  <2>1. Resolve(rev).findings = {<<f.id, f.state>> : f \in rev.findings}
    BY DEF Resolve
  <2>2. NoDecision.findings = {}
    BY DEF NoDecision
  <2> QED BY <1>2, <2>1, <2>2
<1> QED
  BY <1>1, <1>2

DecisionAgrees(rev) ==
    /\ rev.state = "Committed" <=> rev.decision # NoDecision
    /\ rev.state = "Committed" => rev.disposition = rev.decision.disposition

DecisionsAgree == \A r \in DOMAIN reviews : DecisionAgrees(reviews[r])

\* A review and its decision agree however the review is rewritten.
LEMMA RewritingAgrees ==
    ASSUME NEW rev, NEW new, DecisionAgrees(rev), Rewrites(rev, new)
    PROVE  DecisionAgrees(new)
<1>1. CASE Undecided(rev, new)
  BY <1>1 DEF Undecided, DecisionAgrees, TerminalStates
<1>2. CASE Decides(rev, new)
  BY <1>2, DecisionIsSome DEF Decides, DecisionAgrees
<1> QED
  BY <1>1, <1>2 DEF Rewrites

\* README "Authoritative review commit": for all policies and whatever is
\* found, a review is committed if and only if a decision is recorded, and it
\* reports that decision's disposition.
THEOREM DecidedIsCommitted == Spec => []CommittedMeansDecided
<1>1. Init => DecisionsAgree
  BY DEF Init, EmptyMap, DecisionsAgree
<1>2. TypeOK /\ DecisionsAgree /\ [Next]_vars => DecisionsAgree'
  <2> SUFFICES ASSUME DecisionsAgree, RewritesAll PROVE DecisionsAgree'
    BY StepRewrites
  <2>1. \A rev : Blank(rev) => DecisionAgrees(rev)
    BY DEF Blank, DecisionAgrees
  <2> QED BY <2>1, RewritingAgrees DEF RewritesAll, DecisionsAgree
<1>3. DecisionsAgree => CommittedMeansDecided
  BY DEF DecisionsAgree, DecisionAgrees, CommittedMeansDecided
<1> QED
  BY <1>1, <1>2, <1>3, TypeInit, TypeStep, PTL DEF Spec

-----------------------------------------------------------------------------
(* Challenges.                                                             *)

\* x and y are the same statement, except for what has become of it.
SameStatement(x, y) ==
    /\ x.id = y.id
    /\ x.critic = y.critic
    /\ x.category = y.category
    /\ x.outcome = y.outcome
    /\ x.evidence = y.evidence
    /\ x.targetGeneration = y.targetGeneration

\* What SetState yields, finding by finding.
LEMMA MarkedOnes ==
    ASSUME NEW S \in SUBSET Finding, NEW id, NEW state
    PROVE  \A y \in SetState(S, id, state) : \E x \in S :
              /\ SameStatement(x, y)
              /\ y.state = IF x.id = id THEN state ELSE x.state
<1> DEFINE F(f) == IF f.id = id THEN [f EXCEPT !.state = state] ELSE f
<1>1. SetState(S, id, state) = {F(f) : f \in S}
  BY DEF SetState
<1>2. \A f \in S : SameStatement(f, F(f)) /\ F(f).state = IF f.id = id THEN state ELSE f.state
  BY DEF Finding, SameStatement
<1> HIDE DEF F
<1> QED
  BY <1>1, <1>2

\* And what superseding a review yields.
LEMMA SilencedOnes ==
    ASSUME NEW rev \in Review, NEW new, Silences(rev, new)
    PROVE  \A y \in new.findings : \E x \in rev.findings :
              /\ SameStatement(x, y)
              /\ y.state = IF x.state \in CurrentFindingStates THEN "Invalidated" ELSE x.state
<1> DEFINE F(f) == IF f.state \in CurrentFindingStates
                   THEN [f EXCEPT !.state = "Invalidated"] ELSE f
<1>1. new.findings = {F(f) : f \in rev.findings}
  BY DEF Silences
<1>2. \A f \in rev.findings : SameStatement(f, F(f)) /\
        F(f).state = IF f.state \in CurrentFindingStates THEN "Invalidated" ELSE f.state
  BY DEF Review, Finding, SameStatement
<1> HIDE DEF F
<1> QED
  BY <1>1, <1>2

\* Finding f stands as some challenge of it says.
Explained(f, challenges) ==
    /\ f.state = "Challenged" => \E ch \in challenges :
          ch.finding = f.id /\ (~ch.resolved \/ ch.outcome = "Unresolved")
    /\ f.state = "Upheld" => \E ch \in challenges :
          ch.finding = f.id /\ ch.resolved /\ ch.outcome = "Upheld"

Accounted(rev) == \A f \in rev.findings : Explained(f, rev.challenges)

\* A finding stays explained under its number and state while challenges are added.
LEMMA ExplainedStill ==
    ASSUME NEW x, NEW y, NEW C, NEW D, Explained(x, C), C \subseteq D,
           y.id = x.id, y.state = x.state
    PROVE  Explained(y, D)
  BY DEF Explained

\* Findings stay explained however the review is rewritten.
LEMMA RewritingAccounts ==
    ASSUME NEW rev \in Review, NEW new, Accounted(rev), Rewrites(rev, new)
    PROVE  Accounted(new)
<1> USE DEF Accounted
<1>1. CASE SaysTheSame(rev, new)
  BY <1>1 DEF SaysTheSame
<1>2. CASE Silences(rev, new)
  <2> SUFFICES ASSUME NEW y \in new.findings PROVE Explained(y, new.challenges)
    OBVIOUS
  <2>1. PICK x \in rev.findings :
          /\ SameStatement(x, y)
          /\ y.state = IF x.state \in CurrentFindingStates THEN "Invalidated" ELSE x.state
    BY <1>2, SilencedOnes
  <2>2. CASE x.state \in CurrentFindingStates
    BY <2>1, <2>2 DEF Explained
  <2>3. CASE x.state \notin CurrentFindingStates
    BY <1>2, <2>1, <2>3, ExplainedStill DEF Silences, SameStatement
  <2> QED BY <2>2, <2>3
<1>3. CASE AddsEvidence(rev, new)
  <2>1. PICK e, finding : EvidenceAdded(rev, new, e, finding)
    BY <1>3 DEF AddsEvidence
  <2> DEFINE F(f) == IF f.id = finding THEN [f EXCEPT !.evidence = Append(@, e.id)] ELSE f
  <2>2. new.findings = {F(f) : f \in rev.findings} /\ new.challenges = rev.challenges
    BY <2>1, Zenon DEF EvidenceAdded
  <2>3. \A f \in rev.findings : F(f).id = f.id /\ F(f).state = f.state
    BY DEF Review, Finding
  <2> HIDE DEF F
  <2> QED BY <2>2, <2>3, ExplainedStill
<1>4. CASE AddsFinding(rev, new)
  <2>1. PICK finding, superseded, cited : FindingAdded(rev, new, finding, superseded, cited)
    BY <1>4 DEF AddsFinding
  <2> DEFINE kept == SetState(rev.findings, superseded, "Superseded")
  <2>2. /\ new.findings = kept \cup {finding}
        /\ finding.state = "Current"
        /\ new.challenges = rev.challenges
    BY <2>1 DEF FindingAdded
  <2>3. \A y \in kept : \E x \in rev.findings :
          SameStatement(x, y) /\ y.state = IF x.id = superseded THEN "Superseded" ELSE x.state
    BY MarkedOnes DEF Review
  <2> HIDE DEF kept
  <2>4. ASSUME NEW y \in kept PROVE Explained(y, rev.challenges)
    <3>1. PICK x \in rev.findings :
            SameStatement(x, y) /\ y.state = IF x.id = superseded THEN "Superseded" ELSE x.state
      BY <2>3, <2>4
    <3>2. CASE x.id = superseded
      BY <3>1, <3>2 DEF Explained
    <3>3. CASE x.id # superseded
      BY <3>1, <3>3, ExplainedStill DEF SameStatement
    <3> QED BY <3>2, <3>3
  <2>5. Explained(finding, rev.challenges)
    BY <2>2 DEF Explained
  <2> QED BY <2>2, <2>4, <2>5
<1>5. CASE AddsChallenge(rev, new)
  <2>1. PICK ch :
          /\ ~ch.resolved
          /\ new.findings = SetState(rev.findings, ch.finding, "Challenged")
          /\ new.challenges = rev.challenges \cup {ch}
    BY <1>5 DEF AddsChallenge
  <2> SUFFICES ASSUME NEW y \in new.findings PROVE Explained(y, new.challenges)
    OBVIOUS
  <2>2. PICK x \in rev.findings :
          SameStatement(x, y) /\ y.state = IF x.id = ch.finding THEN "Challenged" ELSE x.state
    BY <2>1, MarkedOnes DEF Review
  <2>3. CASE x.id = ch.finding
    BY <2>1, <2>2, <2>3 DEF Explained, SameStatement
  <2>4. CASE x.id # ch.finding
    BY <2>1, <2>2, <2>4, ExplainedStill DEF SameStatement
  <2> QED BY <2>3, <2>4
<1>6. CASE AnswersChallenge(rev, new)
  <2>1. PICK ch \in rev.challenges, outcome \in ChallengeOutcomes :
          /\ new.findings = SetState(rev.findings, ch.finding, AfterRebuttal(outcome))
          /\ new.challenges = (rev.challenges \ {ch}) \cup
                                 {[ch EXCEPT !.resolved = TRUE, !.outcome = outcome]}
    BY <1>6 DEF AnswersChallenge
  <2> DEFINE answered == [ch EXCEPT !.resolved = TRUE, !.outcome = outcome]
  <2>2. answered.finding = ch.finding /\ answered.resolved /\ answered.outcome = outcome
    BY DEF Review, Challenge
  <2>3. new.challenges = (rev.challenges \ {ch}) \cup {answered}
    BY <2>1
  <2> HIDE DEF answered
  <2> SUFFICES ASSUME NEW y \in new.findings PROVE Explained(y, new.challenges)
    OBVIOUS
  <2>4. PICK x \in rev.findings :
          /\ SameStatement(x, y)
          /\ y.state = IF x.id = ch.finding THEN AfterRebuttal(outcome) ELSE x.state
    BY <2>1, MarkedOnes DEF Review
  <2>5. CASE x.id = ch.finding
    <3>1. /\ AfterRebuttal(outcome) = "Upheld" => outcome = "Upheld"
          /\ AfterRebuttal(outcome) = "Challenged" =>
               outcome \notin {"Upheld", "Modified", "Superseded", "Invalidated"}
      BY DEF AfterRebuttal
    <3>2. outcome \in ChallengeOutcomes => 
            (AfterRebuttal(outcome) = "Challenged" => outcome = "Unresolved")
      BY <3>1 DEF ChallengeOutcomes
    <3> QED BY <2>2, <2>3, <2>4, <2>5, <3>1, <3>2 DEF Explained, SameStatement
  <2>6. CASE x.id # ch.finding
    BY <2>3, <2>4, <2>6 DEF Explained, SameStatement
  <2> QED BY <2>5, <2>6
<1> QED
  BY <1>1, <1>2, <1>3, <1>4, <1>5, <1>6 DEF Rewrites

\* README "Challenge and rebuttal": for all critics and whatever is answered, a
\* finding under challenge has a challenge still open or left unresolved, and
\* an upheld one a challenge that was answered by upholding it.
THEOREM ChallengesAreKept == Spec => []ChallengesAccountForFindings
<1> DEFINE AllAccounted == \A r \in DOMAIN reviews : Accounted(reviews[r])
<1>1. Init => AllAccounted
  BY DEF Init, EmptyMap
<1>2. TypeOK /\ AllAccounted /\ [Next]_vars => AllAccounted'
  <2> SUFFICES ASSUME TypeOK, AllAccounted, RewritesAll PROVE AllAccounted'
    BY StepRewrites
  <2>1. \A rev : Blank(rev) => Accounted(rev)
    BY DEF Blank, Accounted
  <2>2. \A r \in DOMAIN reviews : reviews[r] \in Review
    BY ReviewLookups
  <2> QED BY <2>1, <2>2, RewritingAccounts DEF RewritesAll
<1>3. AllAccounted => ChallengesAccountForFindings
  BY DEF Accounted, Explained, ChallengesAccountForFindings
<1> QED
  BY <1>1, <1>2, <1>3, TypeInit, TypeStep, PTL DEF Spec

-----------------------------------------------------------------------------
(* Contradictions.                                                         *)

Catalogue(rev) == {e.id : e \in rev.evidences}

\* Findings cite evidence of the review, numbered apart.
Cites(rev) ==
    /\ Numbered(rev.evidences)
    /\ \A f \in rev.findings : Range(f.evidence) \subseteq Catalogue(rev)

\* No critic holds two findings that contradict each other.
Consistent(findings) ==
    \A f, g \in findings :
        f.critic = g.critic /\ {f.state, g.state} \subseteq CurrentFindingStates
            => ~Contradicts(f, g)

Coherent(rev) == Cites(rev) /\ Consistent(rev.findings)

\* Contradicting is mutual, and between what is said, not what became of it.
LEMMA SameClash ==
    ASSUME NEW f, NEW g, NEW x, NEW y,
           f.category = x.category, f.evidence = x.evidence, f.outcome = x.outcome,
           g.category = y.category, g.evidence = y.evidence, g.outcome = y.outcome,
           Contradicts(x, y)
    PROVE  Contradicts(f, g) /\ Contradicts(g, f)
<1>1. SameEvidence(y.evidence, x.evidence)
  BY DEF Contradicts, SameEvidence
<1> QED
  BY <1>1 DEF Contradicts

\* Evidence listed on one finding and not on another sets the two apart.
LEMMA ListedApart ==
    ASSUME NEW s \in Seq(Nat), NEW t \in Seq(Nat), NEW k \in Nat, k \notin Range(t)
    PROVE  ~SameEvidence(Append(s, k), t)
<1> DEFINE u == Append(s, k)
           I == {i \in DOMAIN u : u[i] = k}
           J == {i \in DOMAIN t : t[i] = k}
<1>1. Len(s) + 1 \in DOMAIN u /\ u[Len(s) + 1] = k /\ DOMAIN u = 1 .. Len(s) + 1
  OBVIOUS
<1>2. J = {}
  BY DEF Range
<1>3. I # {} /\ IsFiniteSet(I)
  <2>1. I \subseteq 1 .. Len(s) + 1 /\ Len(s) + 1 \in I
    BY <1>1
  <2>2. IsFiniteSet(1 .. Len(s) + 1)
    BY FS_Interval
  <2> QED BY <2>1, <2>2, FS_Subset
<1>4. k \in Range(u)
  BY <1>1 DEF Range
<1> HIDE DEF I, J, u
<1>5. Cardinality(I) # Cardinality(J)
  BY <1>2, <1>3, FS_EmptySet
<1> QED
  BY <1>4, <1>5 DEF SameEvidence, I, J, u

\* Findings of a review that say what they said, and assert nothing they had
\* ceased to assert, contradict each other no more than before.
LEMMA ConsistentStill ==
    ASSUME NEW S, NEW T, Consistent(S),
           \A y \in T : \E x \in S :
              SameStatement(x, y) /\
              (y.state \in CurrentFindingStates => x.state \in CurrentFindingStates)
    PROVE  Consistent(T)
<1> SUFFICES ASSUME NEW f \in T, NEW g \in T, f.critic = g.critic,
                    f.state \in CurrentFindingStates, g.state \in CurrentFindingStates,
                    Contradicts(f, g)
             PROVE  FALSE
  BY DEF Consistent
<1>1. PICK x \in S : SameStatement(x, f) /\ x.state \in CurrentFindingStates
  OBVIOUS
<1>2. PICK y \in S : SameStatement(y, g) /\ y.state \in CurrentFindingStates
  OBVIOUS
<1>3. Contradicts(x, y) /\ x.critic = y.critic
  BY <1>1, <1>2, SameClash DEF SameStatement
<1> QED
  BY <1>1, <1>2, <1>3 DEF Consistent

\* Where findings say what they said, they cite what they cited.
LEMMA CitesStill ==
    ASSUME NEW rev, NEW new, Cites(rev), new.evidences = rev.evidences,
           \A y \in new.findings : \E x \in rev.findings : SameStatement(x, y)
    PROVE  Cites(new)
  BY DEF Cites, Catalogue, SameStatement

\* Evidence added to a review.
LEMMA EvidenceCoheres ==
    ASSUME NEW rev \in Review, NEW new, Numbered(rev.findings), Coherent(rev),
           NEW e, NEW finding, EvidenceAdded(rev, new, e, finding)
    PROVE  Coherent(new)
<1> DEFINE k    == e.id
           F(f) == IF f.id = finding THEN [f EXCEPT !.evidence = Append(@, k)] ELSE f
<1>1. new.findings = {F(f) : f \in rev.findings}
  BY Zenon DEF EvidenceAdded
<1>2. new.evidences = rev.evidences \cup {e} /\ e.id = Fresh(rev.evidences)
  BY DEF EvidenceAdded
<1>3. Numbered(rev.evidences)
  BY DEF Coherent, Cites
<1>4. k \in Nat /\ k \notin Catalogue(rev)
  <2>1. Cardinality(rev.evidences) \in Nat
    BY <1>3, FS_CardinalityType DEF Numbered
  <2>2. \A x \in rev.evidences : x.id \in 1 .. Cardinality(rev.evidences)
    BY <1>3 DEF Numbered
  <2> QED BY <1>2, <2>1, <2>2 DEF Fresh, Catalogue
<1>5. ASSUME NEW f \in rev.findings
      PROVE  /\ F(f).critic = f.critic /\ F(f).category = f.category
             /\ F(f).outcome = f.outcome /\ F(f).state = f.state
             /\ f.id # finding => F(f).evidence = f.evidence
             /\ f.id = finding => F(f).evidence = Append(f.evidence, k)
             /\ f.evidence \in Seq(Nat)
  BY DEF Review, Finding, Ids
<1> HIDE DEF F
<1>6. Cites(new)
  <2>1. Numbered(new.evidences)
    BY <1>2, <1>3, NumberedMore
  <2>2. Catalogue(new) = Catalogue(rev) \cup {k}
    BY <1>2 DEF Catalogue
  <2>3. ASSUME NEW f \in rev.findings
        PROVE  Range(F(f).evidence) \subseteq Catalogue(new)
    <3>1. Range(f.evidence) \subseteq Catalogue(rev)
      BY DEF Coherent, Cites
    <3>2. CASE f.id # finding
      BY <1>5, <2>2, <3>1, <3>2
    <3>3. CASE f.id = finding
      <4>1. Range(Append(f.evidence, k)) \subseteq Range(f.evidence) \cup {k}
        BY <1>5 DEF Range
      <4> QED BY <1>5, <2>2, <3>1, <3>3, <4>1
    <3> QED BY <3>2, <3>3
  <2> QED BY <1>1, <2>1, <2>3 DEF Cites
<1>7. ASSUME NEW f \in rev.findings, NEW g \in rev.findings, f.critic = g.critic,
             f.state \in CurrentFindingStates, g.state \in CurrentFindingStates,
             Contradicts(F(f), F(g))
      PROVE  FALSE
  <2>1. ~Contradicts(f, g)
    BY <1>7 DEF Coherent, Consistent
  <2>2. k \notin Range(f.evidence) /\ k \notin Range(g.evidence)
    BY <1>4 DEF Coherent, Cites
  <2>3. CASE f.id # finding /\ g.id # finding
    BY <1>5, <1>7, <2>1, <2>3, SameClash
  <2>4. CASE f.id = finding /\ g.id = finding
    <3>1. f = g
      BY <2>4 DEF Numbered
    <3> QED BY <1>7, <3>1 DEF Contradicts
  <2>5. CASE f.id = finding /\ g.id # finding
    <3>1. SameEvidence(Append(f.evidence, k), g.evidence)
      BY <1>5, <1>7, <2>5 DEF Contradicts
    <3> QED BY <1>4, <1>5, <2>2, <3>1, ListedApart
  <2>6. CASE f.id # finding /\ g.id = finding
    <3>1. Contradicts(F(g), F(f))
      BY <1>7, SameClash
    <3>2. SameEvidence(Append(g.evidence, k), f.evidence)
      BY <1>5, <2>6, <3>1 DEF Contradicts
    <3> QED BY <1>4, <1>5, <2>2, <3>2, ListedApart
  <2> QED BY <2>3, <2>4, <2>5, <2>6
<1>8. Consistent(new.findings)
  BY <1>1, <1>5, <1>7 DEF Consistent
<1> QED
  BY <1>6, <1>8 DEF Coherent

\* A finding added to a review.
LEMMA FindingCoheres ==
    ASSUME NEW rev \in Review, NEW new, Coherent(rev),
           NEW finding, NEW superseded, NEW cited,
           FindingAdded(rev, new, finding, superseded, cited)
    PROVE  Coherent(new)
<1> DEFINE kept == SetState(rev.findings, superseded, "Superseded")
           G(e) == IF e.id \in cited /\ e.finding = NoId
                   THEN [e EXCEPT !.finding = finding.id] ELSE e
           bind == [e \in rev.evidences |-> G(e)]
<1>1. new.findings = kept \cup {finding} /\ finding.state = "Current"
  BY DEF FindingAdded
<1>2. new.evidences = {bind[e] : e \in rev.evidences}
  <2>1. new.evidences = {G(e) : e \in rev.evidences}
    BY Zenon DEF FindingAdded
  <2> HIDE DEF G
  <2> QED BY <2>1
<1>3. \A e \in rev.evidences : bind[e].id = e.id
  BY DEF Review, Evidence
<1>4. bind = [e \in rev.evidences |-> bind[e]]
  OBVIOUS
<1> HIDE DEF bind
<1>5. Numbered(new.evidences) /\ Catalogue(new) = Catalogue(rev)
  <2>1. Numbered(rev.evidences)
    BY DEF Coherent, Cites
  <2>2. Numbered({bind[e] : e \in rev.evidences})
    BY <1>3, <1>4, <2>1, NumberedImage
  <2>3. Catalogue(new) = Catalogue(rev)
    BY <1>2, <1>3 DEF Catalogue
  <2> QED BY <1>2, <2>2, <2>3
<1>6. \A y \in kept : \E x \in rev.findings :
        /\ SameStatement(x, y)
        /\ y.state = IF x.id = superseded THEN "Superseded" ELSE x.state
  BY MarkedOnes DEF Review
<1> HIDE DEF kept
<1>7. \A y \in kept : \E x \in rev.findings :
        /\ SameStatement(x, y)
        /\ y.state \in CurrentFindingStates => x.state \in CurrentFindingStates
  BY <1>6 DEF CurrentFindingStates
<1>8. Cites(new)
  <2>1. Range(finding.evidence) \subseteq Catalogue(rev)
    BY DEF FindingAdded, Catalogue
  <2>2. \A y \in kept : Range(y.evidence) \subseteq Catalogue(rev)
    BY <1>7 DEF Coherent, Cites, SameStatement
  <2> QED BY <1>1, <1>5, <2>1, <2>2 DEF Cites
<1>9. Consistent(kept)
  BY <1>7, ConsistentStill DEF Coherent
<1>10. ASSUME NEW y \in kept, y.critic = finding.critic, y.state \in CurrentFindingStates
       PROVE  ~Contradicts(y, finding) /\ ~Contradicts(finding, y)
  <2>1. PICK x \in rev.findings : SameStatement(x, y) /\ x.state \in CurrentFindingStates
    BY <1>7, <1>10
  <2>2. ~Contradicts(x, finding)
    BY <1>10, <2>1 DEF FindingAdded, OwnCurrent, SameStatement
  <2> QED BY <2>1, <2>2, SameClash DEF SameStatement
<1>11. ~Contradicts(finding, finding)
  BY DEF Contradicts
<1>12. Consistent(new.findings)
  BY <1>1, <1>9, <1>10, <1>11 DEF Consistent
<1> QED
  BY <1>8, <1>12 DEF Coherent

\* A review stays coherent however it is rewritten.
LEMMA RewritingCoheres ==
    ASSUME NEW rev \in Review, NEW new, Numbered(rev.findings), Coherent(rev),
           Rewrites(rev, new)
    PROVE  Coherent(new)
<1>1. ASSUME new.evidences = rev.evidences,
             \A y \in new.findings : \E x \in rev.findings :
                SameStatement(x, y) /\
                (y.state \in CurrentFindingStates => x.state \in CurrentFindingStates)
      PROVE  Coherent(new)
  BY <1>1, CitesStill, ConsistentStill DEF Coherent
<1>2. ASSUME NEW id, NEW state, new.evidences = rev.evidences,
             \E f \in rev.findings : f.id = id /\ f.state \in CurrentFindingStates,
             new.findings = SetState(rev.findings, id, state)
      PROVE  Coherent(new)
  <2>1. \A x \in rev.findings : x.id = id => x.state \in CurrentFindingStates
    BY <1>2 DEF Numbered
  <2>2. \A y \in new.findings : \E x \in rev.findings :
          SameStatement(x, y) /\ y.state = IF x.id = id THEN state ELSE x.state
    BY <1>2, MarkedOnes DEF Review
  <2> QED BY <1>1, <1>2, <2>1, <2>2
<1>3. CASE SaysTheSame(rev, new)
  BY <1>3 DEF SaysTheSame, Coherent, Cites, Catalogue
<1>4. CASE Silences(rev, new)
  <2>1. "Invalidated" \notin CurrentFindingStates
    BY DEF CurrentFindingStates
  <2>2. new.evidences = rev.evidences
    BY <1>4 DEF Silences
  <2> QED BY <1>1, <1>4, <2>1, <2>2, SilencedOnes
<1>5. CASE AddsEvidence(rev, new)
  BY <1>5, EvidenceCoheres DEF AddsEvidence
<1>6. CASE AddsFinding(rev, new)
  BY <1>6, FindingCoheres DEF AddsFinding
<1>7. CASE AddsChallenge(rev, new)
  BY <1>2, <1>7 DEF AddsChallenge
<1>8. CASE AnswersChallenge(rev, new)
  BY <1>2, <1>8 DEF AnswersChallenge
<1> QED
  BY <1>3, <1>4, <1>5, <1>6, <1>7, <1>8 DEF Rewrites

\* README "Finding model": for all inputs, a critic never holds contradictory
\* decisive findings on one evidence list, whatever it submits, supersedes or
\* attaches later.
THEOREM NoCriticContradictsItself == Spec => []NoSelfContradiction
<1> DEFINE AllCoherent == \A r \in DOMAIN reviews : Coherent(reviews[r])
<1>1. Init => AllCoherent
  BY DEF Init, EmptyMap
<1>2. TypeOK /\ FindingsNumbered /\ AllCoherent /\ [Next]_vars => AllCoherent'
  <2> SUFFICES ASSUME TypeOK, FindingsNumbered, AllCoherent, RewritesAll PROVE AllCoherent'
    BY StepRewrites
  <2>1. \A rev : Blank(rev) => Coherent(rev)
    <3>1. Numbered({})
      BY FS_EmptySet DEF Numbered
    <3> QED BY <3>1 DEF Blank, Coherent, Cites, Consistent
  <2>2. \A r \in DOMAIN reviews : reviews[r] \in Review /\ Numbered(reviews[r].findings)
    BY ReviewLookups DEF FindingsNumbered
  <2> QED BY <2>1, <2>2, RewritingCoheres DEF RewritesAll
<1>3. AllCoherent => NoSelfContradiction
  BY DEF Coherent, Consistent, NoSelfContradiction
<1> QED
  BY <1>1, <1>2, <1>3, NumbersApart, PTL DEF Spec

-----------------------------------------------------------------------------
(* What the evaluation makes of it.                                        *)

\* Every finding is about the generation its review is about.
AboutTheTarget(rev) == \A f \in rev.findings : f.targetGeneration = rev.targetGeneration

\* However a review is rewritten, its findings are about what it is about.
LEMMA RewritingStaysAbout ==
    ASSUME NEW rev \in Review, NEW new, AboutTheTarget(rev), Rewrites(rev, new)
    PROVE  AboutTheTarget(new)
<1>1. new.targetGeneration = rev.targetGeneration
  BY DEF Rewrites, Undecided, Decides
<1>2. ASSUME \A y \in new.findings : \E x \in rev.findings :
                x.targetGeneration = y.targetGeneration
      PROVE  AboutTheTarget(new)
  BY <1>1, <1>2 DEF AboutTheTarget
<1>3. CASE SaysTheSame(rev, new)
  BY <1>2, <1>3 DEF SaysTheSame
<1>4. CASE Silences(rev, new)
  BY <1>2, <1>4, SilencedOnes DEF SameStatement
<1>5. CASE AddsEvidence(rev, new)
  <2>1. PICK e, finding : EvidenceAdded(rev, new, e, finding)
    BY <1>5 DEF AddsEvidence
  <2> DEFINE F(f) == IF f.id = finding THEN [f EXCEPT !.evidence = Append(@, e.id)] ELSE f
  <2>2. new.findings = {F(f) : f \in rev.findings}
    BY <2>1, Zenon DEF EvidenceAdded
  <2>3. \A f \in rev.findings : F(f).targetGeneration = f.targetGeneration
    BY DEF Review, Finding
  <2> HIDE DEF F
  <2> QED BY <1>2, <2>2, <2>3
<1>6. CASE AddsFinding(rev, new)
  <2>1. PICK finding, superseded, cited : FindingAdded(rev, new, finding, superseded, cited)
    BY <1>6 DEF AddsFinding
  <2>2. \A y \in SetState(rev.findings, superseded, "Superseded") : \E x \in rev.findings :
          x.targetGeneration = y.targetGeneration
    BY MarkedOnes DEF Review, SameStatement
  <2> QED BY <1>1, <2>1, <2>2 DEF FindingAdded, AboutTheTarget
<1>7. ASSUME NEW id, NEW state, new.findings = SetState(rev.findings, id, state)
      PROVE  AboutTheTarget(new)
  BY <1>2, <1>7, MarkedOnes DEF Review, SameStatement
<1> QED
  BY <1>3, <1>4, <1>5, <1>6, <1>7 DEF Rewrites, AddsChallenge, AnswersChallenge

\* A finding about the target's generation from the incumbent counts unless it
\* was challenged.
LEMMA UnchallengedCount ==
    ASSUME NEW rev, AboutTheTarget(rev), NEW f \in rev.findings, BindingCurrent(f),
           f.state = "Current"
    PROVE  f \in CountedFindings(EvaluationInput(rev))
<1> DEFINE in == EvaluationInput(rev)
<1>1. /\ in.findings = rev.findings
      /\ in.review.targetGeneration = rev.targetGeneration
      /\ in.authority.criticGeneration = [c \in DOMAIN critics |-> critics[c].generation]
      /\ in.authority.incumbent = [c \in DOMAIN incumbents |->
            [worker |-> incumbents[c], boot |-> workers[incumbents[c]].boot]]
  BY DEF EvaluationInput
<1> HIDE DEF in
<1>2. BoundToAuthority(in, f)
  BY <1>1 DEF BoundToAuthority, BindingCurrent
<1> QED
  BY <1>1, <1>2 DEF CountedFindings, AboutTheTarget, in

\* README "Incumbency versus liveness": for all policies and debates, a finding of the
\* incumbent that still asserts something counts, alive or fenced, unless it
\* has been challenged.
THEOREM OnlyContestedAreOverlooked == Spec => []OverlookedAreContested
<1> DEFINE AllAbout == \A r \in DOMAIN reviews : AboutTheTarget(reviews[r])
<1>1. Init => AllAbout
  BY DEF Init, EmptyMap
<1>2. TypeOK /\ AllAbout /\ [Next]_vars => AllAbout'
  <2> SUFFICES ASSUME TypeOK, AllAbout, RewritesAll PROVE AllAbout'
    BY StepRewrites
  <2>1. \A rev : Blank(rev) => AboutTheTarget(rev)
    BY DEF Blank, AboutTheTarget
  <2>2. \A r \in DOMAIN reviews : reviews[r] \in Review
    BY ReviewLookups
  <2> QED BY <2>1, <2>2, RewritingStaysAbout DEF RewritesAll
<1>3. AllAbout /\ ChallengesAccountForFindings => OverlookedAreContested
  <2> SUFFICES ASSUME AllAbout, ChallengesAccountForFindings, NEW r \in DOMAIN reviews,
                      NEW f \in reviews[r].findings, f.state \in CurrentFindingStates,
                      BindingCurrent(f), f \notin CountedFindings(EvaluationInput(reviews[r]))
               PROVE  \E ch \in reviews[r].challenges : ch.finding = f.id
    BY DEF OverlookedAreContested
  <2>1. f.state # "Current"
    BY UnchallengedCount
  <2> QED BY <2>1 DEF CurrentFindingStates, ChallengesAccountForFindings
<1> QED
  BY <1>1, <1>2, <1>3, ChallengesAreKept, TypeInit, TypeStep, PTL DEF Spec

\* The decision on an authoritative review is the one its evaluation gives again.
LEMMA DecidingRepeats ==
    ASSUME NEW rev \in Review, NEW new, rev.authorityCurrent, SaysTheSame(rev, new),
           Decides(rev, new)
    PROVE  Resolve(new) = new.decision
<1> DEFINE in == EvaluationInput(rev)
<1>1. rev.authorityCurrent = TRUE
  BY DEF Review
<1>2. EvaluationInput(new) = InState(in, "Committed")
  BY <1>1 DEF EvaluationInput, InState, SaysTheSame, Decides
<1>3. in = InState(in, rev.state)
  BY DEF EvaluationInput, InState
<1>4. {rev.state, "Committed"} \cap {"Cancelled", "Superseded", "RevalidationRequired"} = {}
  BY DEF Decides, TerminalStates
<1> HIDE DEF in
<1>5. Evaluate(in) = Evaluate(EvaluationInput(new))
  BY <1>2, <1>3, <1>4, StateIsNoArgument
<1> QED
  BY <1>5 DEF Resolve, Decides, SaysTheSame, in

\* README "Determinism": for all policies and debates, evaluating a review again
\* once it is committed gives the decision that was committed.
THEOREM CommitRepeats == Spec => CommitIsRepeatable
<1>1. AuthorityInv /\ [Next]_vars =>
        [\A r \in DOMAIN reviews :
            reviews'[r].decision # reviews[r].decision =>
                /\ UNCHANGED registry
                /\ Resolve(reviews'[r]) = reviews'[r].decision]_vars
  <2> SUFFICES ASSUME AuthorityInv, RewritesAll, NEW r \in DOMAIN reviews,
                      reviews'[r].decision # reviews[r].decision
               PROVE  /\ UNCHANGED registry
                      /\ Resolve(reviews'[r]) = reviews'[r].decision
    BY StepRewrites DEF AuthorityInv
  <2>1. Decides(reviews[r], reviews'[r]) /\ SaysTheSame(reviews[r], reviews'[r])
    BY DEF RewritesAll, Rewrites, Undecided
  <2>2. reviews[r].authorityCurrent
    BY <2>1 DEF Decides, AuthorityInv, AuthorityTracksTarget, StaleTargetSilent, Withdrawn,
                TerminalStates
  <2>3. reviews[r] \in Review
    BY ReviewLookups DEF AuthorityInv
  <2> QED BY <2>1, <2>2, <2>3, DecidingRepeats DEF Decides
<1> QED
  BY <1>1, AuthoritySafe, PTL DEF Spec, CommitIsRepeatable

-----------------------------------------------------------------------------
(* One review, seen through the refinement mapping.                        *)

AsEntry(rev) ==
    [object        |-> rev.target,
     generation    |-> rev.targetGeneration,
     status        |-> Status(rev),
     verdict       |-> Verdict(rev),
     authoritative |-> rev.authorityCurrent]

Suspended(entry) == [entry EXCEPT !.status = "waiting", !.authoritative = FALSE]

\* What a well-typed review maps to is an entry of the abstract ledger.
LEMMA EntryType ==
    ASSUME NEW rev \in Review
    PROVE  AsEntry(rev) \in Promise!Entry
<1>1. Status(rev) \in Promise!Statuses
  BY Zenon DEF Status, Promise!Statuses
<1>2. Verdict(rev) \in Dispositions \cup {"None"}
  <2>1. rev.disposition \in Dispositions
    BY DEF Review
  <2> QED BY <2>1, Zenon DEF Verdict
<1>3. rev.target \in Targets /\ rev.targetGeneration \in Nat /\ rev.authorityCurrent \in BOOLEAN
  BY DEF Review, TargetGenerations
<1> QED
  BY <1>1, <1>2, <1>3 DEF AsEntry, Promise!Entry

\* Entries with the same fields are the same.
LEMMA SameEntry ==
    ASSUME NEW x \in Promise!Entry, NEW y \in Promise!Entry,
           x.object = y.object, x.generation = y.generation, x.status = y.status,
           x.verdict = y.verdict, x.authoritative = y.authoritative
    PROVE  x = y
  BY DEF Promise!Entry

\* The fields of what the abstract updates make of an entry.
LEMMA SuspendedFields ==
    ASSUME NEW entry \in Promise!Entry
    PROVE  /\ Suspended(entry) \in Promise!Entry
           /\ Suspended(entry).object = entry.object
           /\ Suspended(entry).generation = entry.generation
           /\ Suspended(entry).status = "waiting"
           /\ Suspended(entry).verdict = entry.verdict
           /\ Suspended(entry).authoritative = FALSE
<1>1. "waiting" \in Promise!Statuses
  BY DEF Promise!Statuses
<1> QED
  BY <1>1 DEF Promise!Entry, Suspended

\* The same of the entry of a target's last generation.
LEMMA OutdatedFields ==
    ASSUME NEW entry \in Promise!Entry
    PROVE  /\ Promise!Outdate(entry) \in Promise!Entry
           /\ Promise!Outdate(entry).object = entry.object
           /\ Promise!Outdate(entry).generation = entry.generation
           /\ entry.status \in {"open", "waiting"}
                => Promise!Outdate(entry).status = "withdrawn"
           /\ entry.status \notin {"open", "waiting"}
                => Promise!Outdate(entry).status = entry.status
           /\ Promise!Outdate(entry).verdict = entry.verdict
           /\ Promise!Outdate(entry).authoritative = FALSE
<1>1. "withdrawn" \in Promise!Statuses
  BY DEF Promise!Statuses
<1> QED
  BY <1>1 DEF Promise!Entry, Promise!Outdate, Promise!Undecided

\* The fields of an entry.
LEMMA EntryFields ==
    \A rev :
        /\ AsEntry(rev).object = rev.target
        /\ AsEntry(rev).generation = rev.targetGeneration
        /\ AsEntry(rev).status = Status(rev)
        /\ AsEntry(rev).verdict = Verdict(rev)
        /\ AsEntry(rev).authoritative = rev.authorityCurrent
  BY DEF AsEntry

\* The ledger is the reviews seen one by one.
LEMMA LedgerEntries == \A revs : Ledger(revs) = [r \in DOMAIN revs |-> AsEntry(revs[r])]
  BY DEF Ledger, AsEntry

\* The abstract map of generations is that of the targets.
LEMMA GenerationsSeen ==
    ASSUME NEW r \in DOMAIN reviews, reviews[r].target \in DOMAIN targets
    PROVE  Promise!Current(AsEntry(reviews[r])) <=> TargetCurrent(reviews[r])
  BY DEF Promise!Current, AsEntry, TargetCurrent

\* The statuses the guards of the abstract actions ask about.
LEMMA StatusIs ==
    ASSUME NEW rev
    PROVE  /\ rev.state \notin TerminalStates => Status(rev) \in {"open", "waiting"}
           /\ rev.state \notin TerminalStates \cup {"RevalidationRequired"}
                => Status(rev) = "open"
           /\ rev.state = "RevalidationRequired" => Status(rev) = "waiting"
           /\ rev.state \notin TerminalStates => Verdict(rev) = "None"
  BY Zenon DEF Status, Verdict, TerminalStates

\* Revalidation keeps the type.
LEMMA RevalidateType == \A rev \in Review : Revalidate(rev) \in Review
<1>1. "RevalidationRequired" \in ReviewStates /\ "RevalidationRequired" \in Dispositions
  BY DEF ReviewStates, Dispositions
<1> QED
  BY <1>1 DEF Revalidate, Review

\* Revalidation suspends an open review and leaves a closed one.
LEMMA RevalidateSeen ==
    ASSUME NEW rev \in Review
    PROVE  \/ Revalidate(rev) = rev
           \/ /\ rev.state \notin TerminalStates
              /\ AsEntry(Revalidate(rev)) = Suspended(AsEntry(rev))
<1> SUFFICES ASSUME rev.state \notin TerminalStates
             PROVE  AsEntry(Revalidate(rev)) = Suspended(AsEntry(rev))
  BY DEF Revalidate
<1> DEFINE new == [rev EXCEPT !.state = "RevalidationRequired",
                              !.disposition = "RevalidationRequired",
                              !.authorityCurrent = FALSE]
<1>1. Revalidate(rev) = new
  BY DEF Revalidate
<1>2. /\ new.state = "RevalidationRequired"
      /\ new.target = rev.target
      /\ new.targetGeneration = rev.targetGeneration
      /\ new.authorityCurrent = FALSE
  BY DEF Review
<1> HIDE DEF new
<1>3. Status(new) = "waiting" /\ Verdict(new) = "None" /\ Verdict(rev) = "None"
  <2>1. new.state \notin TerminalStates
    BY <1>2 DEF TerminalStates
  <2> QED BY <1>2, <2>1, StatusIs
<1>4. new \in Review
  BY <1>1, RevalidateType
<1>5. AsEntry(new) \in Promise!Entry /\ AsEntry(rev) \in Promise!Entry
  BY <1>4, EntryType
<1>6. AsEntry(new) = Suspended(AsEntry(rev))
  <2> DEFINE x == AsEntry(new)
             y == Suspended(AsEntry(rev))
  <2>1. x \in Promise!Entry /\ y \in Promise!Entry
    BY <1>5, SuspendedFields
  <2>2. /\ x.object = rev.target /\ x.generation = rev.targetGeneration
        /\ x.status = "waiting" /\ x.verdict = "None" /\ x.authoritative = FALSE
    BY <1>2, <1>3, EntryFields
  <2>3. /\ y.object = rev.target /\ y.generation = rev.targetGeneration
        /\ y.status = "waiting" /\ y.verdict = "None" /\ y.authoritative = FALSE
    BY <1>3, <1>5, SuspendedFields, EntryFields
  <2> HIDE DEF x, y
  <2>4. x = y
    BY <2>1, <2>2, <2>3, SameEntry
  <2> QED BY <2>4 DEF x, y
<1> QED
  BY <1>1, <1>6

\* So does retiring assignments.
LEMMA RetireSeen ==
    ASSUME NEW rev \in Review, NEW retired
    PROVE  \/ Retire(rev, retired) = rev
           \/ AsEntry(Retire(rev, retired)) = AsEntry(rev)
           \/ /\ rev.state \notin TerminalStates
              /\ AsEntry(Retire(rev, retired)) = Suspended(AsEntry(rev))
<1> SUFFICES ASSUME retired # {}
             PROVE  \/ AsEntry(Retire(rev, retired)) = AsEntry(rev)
                    \/ /\ rev.state \notin TerminalStates
                       /\ AsEntry(Retire(rev, retired)) = Suspended(AsEntry(rev))
  BY DEF Retire
<1> DEFINE new == [rev EXCEPT !.assignments =
                     {IF a \in retired THEN [a EXCEPT !.active = FALSE] ELSE a : a \in @}]
<1>1. Retire(rev, retired) = Revalidate(new)
  BY DEF Retire
<1>2. new \in Review
  <2>1. \A a \in rev.assignments :
           (IF a \in retired THEN [a EXCEPT !.active = FALSE] ELSE a) \in Assignment
    BY DEF Review, Assignment
  <2> QED BY <2>1 DEF Review
<1>3. /\ new.state = rev.state
      /\ new.target = rev.target
      /\ new.targetGeneration = rev.targetGeneration
      /\ new.authorityCurrent = rev.authorityCurrent
      /\ new.disposition = rev.disposition
  BY DEF Review
<1> HIDE DEF new
<1>4. AsEntry(new) = AsEntry(rev)
  BY <1>3, Zenon DEF AsEntry, Status, Verdict
<1> QED
  BY <1>1, <1>2, <1>3, <1>4, RevalidateSeen

\* Closing a review on its target's next generation.
LEMMA SupersedeSeen ==
    ASSUME NEW rev \in Review, FiniteRecords(rev)
    PROVE  AsEntry(Supersede(rev)) = Promise!Outdate(AsEntry(rev))
<1> DEFINE closed == [rev EXCEPT
              !.authorityCurrent = FALSE,
              !.findings = {IF f.state \in CurrentFindingStates
                            THEN [f EXCEPT !.state = "Invalidated"] ELSE f : f \in @}]
           new == IF rev.state \in TerminalStates THEN closed
                  ELSE [closed EXCEPT !.state = "Superseded", !.disposition = "Superseded"]
<1>1. Supersede(rev) = new
  BY DEF Supersede
<1>2. /\ new.target = rev.target
      /\ new.targetGeneration = rev.targetGeneration
      /\ new.authorityCurrent = FALSE
      /\ rev.state \in TerminalStates
            => new.state = rev.state /\ new.disposition = rev.disposition
      /\ rev.state \notin TerminalStates => new.state = "Superseded"
  BY DEF Review
<1>3. new \in Review
  BY <1>1, SupersedeKeeps DEF Kept
<1> HIDE DEF new
<1>4. AsEntry(new) \in Promise!Entry /\ AsEntry(rev) \in Promise!Entry
  BY <1>3, EntryType
<1> DEFINE x == AsEntry(new)
           y == Promise!Outdate(AsEntry(rev))
<1>5. x \in Promise!Entry /\ y \in Promise!Entry
  BY <1>4, OutdatedFields
<1>6. /\ x.object = rev.target /\ x.generation = rev.targetGeneration
      /\ x.status = Status(new) /\ x.verdict = Verdict(new) /\ x.authoritative = FALSE
  BY <1>2, EntryFields
<1>7. /\ y.object = rev.target /\ y.generation = rev.targetGeneration
      /\ Status(rev) \in {"open", "waiting"} => y.status = "withdrawn"
      /\ Status(rev) \notin {"open", "waiting"} => y.status = Status(rev)
      /\ y.verdict = Verdict(rev) /\ y.authoritative = FALSE
  BY <1>4, OutdatedFields, EntryFields
<1> HIDE DEF x, y
<1>8. x.status = y.status /\ x.verdict = y.verdict
  <2>1. CASE rev.state \in TerminalStates
    <3>1. Status(new) = Status(rev) /\ Verdict(new) = Verdict(rev)
      BY <1>2, <2>1, Zenon DEF Status, Verdict
    <3>2. Status(rev) \notin {"open", "waiting"}
      BY <2>1, SMT DEF Status, TerminalStates
    <3> QED BY <1>6, <1>7, <3>1, <3>2
  <2>2. CASE rev.state \notin TerminalStates
    <3>1. Status(new) = "withdrawn" /\ Verdict(new) = "None"
      BY <1>2, <2>2, SMT DEF Status, Verdict, TerminalStates
    <3>2. Status(rev) \in {"open", "waiting"} /\ Verdict(rev) = "None"
      BY <2>2, StatusIs
    <3> QED BY <1>6, <1>7, <3>1, <3>2
  <2> QED BY <2>1, <2>2
<1>9. x = y
  BY <1>5, <1>6, <1>7, <1>8, SameEntry
<1> QED
  BY <1>1, <1>9 DEF x, y

-----------------------------------------------------------------------------
(* Calls, seen through the refinement mapping.                             *)

\* A step of the abstract specification, or none.
Seen == [Promise!AuthorityNext]_(Promise!view)

\* The abstract ledger before and after a step.
LEMMA LedgerStep ==
    /\ Ledger(reviews) = [r \in DOMAIN reviews |-> AsEntry(reviews[r])]
    /\ Ledger(reviews)' = [r \in DOMAIN reviews' |-> AsEntry(reviews'[r])]
  BY DEF Ledger, AsEntry, Status, Verdict

\* A call that changes no target changes no abstract generation.
LEMMA GenerationsKept ==
    ASSUME UNCHANGED targets
    PROVE  [t \in DOMAIN targets |-> targets[t].generation]'
             = [t \in DOMAIN targets |-> targets[t].generation]
  OBVIOUS

\* A call that changes neither target nor review is invisible.
LEMMA Invisible == UNCHANGED <<targets, reviews>> => Seen
  BY LedgerStep, GenerationsKept DEF Seen, Promise!view

\* Whatever leaves the entries alone is invisible too.
LEMMA NothingSeen ==
    ASSUME UNCHANGED targets, Ledger(reviews)' = Ledger(reviews)
    PROVE  Seen
  BY GenerationsKept DEF Seen, Promise!view

\* Replacing, retiring and restarting suspend the reviews they reach.
LEMMA WithdrawalsSeen ==
    ASSUME AuthorityInv, UNCHANGED targets, DOMAIN reviews' = DOMAIN reviews,
           \A r \in DOMAIN reviews :
              \/ reviews'[r] = Revalidate(reviews[r])
              \/ \E retired : reviews'[r] = Retire(reviews[r], retired)
    PROVE  Seen
<1> DEFINE names == {r \in DOMAIN reviews : AsEntry(reviews'[r]) # AsEntry(reviews[r])}
<1>1. \A r \in names :
        /\ reviews[r].state \notin TerminalStates
        /\ AsEntry(reviews'[r]) = Suspended(AsEntry(reviews[r]))
  BY ReviewLookups, RevalidateSeen, RetireSeen DEF AuthorityInv
<1>2. \A r \in names : Ledger(reviews)[r].status \in Promise!Undecided
  BY <1>1, LedgerStep, StatusIs, EntryFields DEF Promise!Undecided
<1>3. Ledger(reviews)' = [r \in DOMAIN Ledger(reviews) |->
         IF r \in names THEN Suspended(Ledger(reviews)[r]) ELSE Ledger(reviews)[r]]
  BY <1>1, LedgerStep
<1>4. names \in SUBSET DOMAIN Ledger(reviews)
  BY LedgerStep
<1> HIDE DEF names
<1>5. Promise!Suspend(names)
  BY <1>2, <1>3, GenerationsKept DEF Promise!Suspend, Suspended
<1> QED
  BY <1>4, <1>5 DEF Seen, Promise!AuthorityNext

\* A call on one review.
LEMMA OneEntry ==
    ASSUME AuthorityInv, NEW r \in DOMAIN reviews, NEW new,
           reviews' = [reviews EXCEPT ![r] = new]
    PROVE  /\ r \in DOMAIN Ledger(reviews)
           /\ Ledger(reviews)[r] = AsEntry(reviews[r])
           /\ Ledger(reviews)' = [Ledger(reviews) EXCEPT ![r] = AsEntry(new)]
<1>1. DOMAIN reviews' = DOMAIN reviews /\ reviews'[r] = new
      /\ \A x \in DOMAIN reviews \ {r} : reviews'[x] = reviews[x]
  OBVIOUS
<1> QED
  BY <1>1, LedgerStep

\* The entry of the review a call is about, afterwards.
LEMMA EntryAfter ==
    ASSUME AuthorityInv, TypeOK', NEW r \in DOMAIN reviews, NEW new,
           reviews' = [reviews EXCEPT ![r] = new]
    PROVE  /\ reviews[r] \in Review /\ new \in Review
           /\ AsEntry(reviews[r]) \in Promise!Entry
           /\ AsEntry(new) \in Promise!Entry
<1>1. reviews[r] \in Review
  BY ReviewLookups DEF AuthorityInv
<1>2. new \in Review
  <2>1. r \in DOMAIN reviews' /\ reviews'[r] = new
    OBVIOUS
  <2> QED BY <2>1 DEF TypeOK, ReviewsTypeOK, IsMap
<1> QED
  BY <1>1, <1>2, EntryType

\* A call that moves an open review on, or leaves its state and authority alone,
\* takes it up again if it waited and is invisible if it did not.
LEMMA TakenUp ==
    ASSUME AuthorityInv, TypeOK', UNCHANGED targets, NEW r \in DOMAIN reviews, NEW new,
           reviews' = [reviews EXCEPT ![r] = new],
           reviews[r].state \notin TerminalStates,
           new.target = reviews[r].target,
           new.targetGeneration = reviews[r].targetGeneration,
           \/ /\ new.authorityCurrent = TRUE
              /\ new.state \notin TerminalStates \cup {"RevalidationRequired"}
           \/ /\ new.authorityCurrent = reviews[r].authorityCurrent
              /\ new.state = reviews[r].state
    PROVE  Seen
<1> DEFINE rev == reviews[r]
           x   == AsEntry(new)
           y   == AsEntry(rev)
<1>1. x \in Promise!Entry /\ y \in Promise!Entry
  BY EntryAfter
<1>2. /\ r \in DOMAIN Ledger(reviews)
      /\ Ledger(reviews)[r] = y
      /\ Ledger(reviews)' = [Ledger(reviews) EXCEPT ![r] = x]
      /\ Ledger(reviews) = [n \in DOMAIN Ledger(reviews) |-> Ledger(reviews)[n]]
  BY OneEntry, LedgerStep
<1>3. Verdict(new) = "None" /\ Verdict(rev) = "None"
  BY StatusIs
<1>4. CASE x.status = y.status /\ x.authoritative = y.authoritative
  <2>1. x = y
    BY <1>1, <1>3, <1>4, SameEntry, EntryFields
  <2> HIDE DEF x, y
  <2>2. Ledger(reviews)' = Ledger(reviews)
    BY <1>2, <2>1
  <2> QED BY <2>2, NothingSeen
<1>5. CASE ~(x.status = y.status /\ x.authoritative = y.authoritative)
  <2>1. new.state # rev.state \/ new.authorityCurrent # rev.authorityCurrent
    BY <1>5, EntryFields, Zenon DEF Status
  <2>2. Status(new) = "open" /\ new.authorityCurrent = TRUE
    BY <2>1, StatusIs
  <2>3. rev.state = "RevalidationRequired"
    <3>1. SUFFICES ASSUME rev.state # "RevalidationRequired" PROVE FALSE
      OBVIOUS
    <3>2. Status(rev) = "open"
      BY <3>1, StatusIs
    <3>3. rev.authorityCurrent = TRUE
      <4>1. rev.state \notin Withdrawn
        BY <3>1 DEF Withdrawn, TerminalStates
      <4>2. rev.authorityCurrent \in BOOLEAN
        BY EntryAfter DEF Review
      <4> QED BY <4>1, <4>2, OpenIsCurrent DEF AuthorityInv, AuthorityTracksTarget
    <3> QED BY <1>5, <2>2, <3>2, <3>3, EntryFields
  <2>4. y.status = "waiting"
    BY <2>3, StatusIs, EntryFields
  <2>5. Promise!Current(y)
    BY OpenIsCurrent, ReviewLookups, GenerationsSeen DEF AuthorityInv
  <2>6. x.status = "open" /\ x.authoritative = TRUE
        /\ x.object = y.object /\ x.generation = y.generation /\ x.verdict = y.verdict
    BY <1>3, <2>2, EntryFields
  <2> HIDE DEF x, y
  <2> DEFINE resumed == [y EXCEPT !.status = "open", !.authoritative = TRUE]
  <2>7. resumed \in Promise!Entry
        /\ resumed.status = "open" /\ resumed.authoritative = TRUE
        /\ resumed.object = y.object /\ resumed.generation = y.generation
        /\ resumed.verdict = y.verdict
    BY <1>1 DEF Promise!Entry, Promise!Statuses
  <2> HIDE DEF resumed
  <2>8. x = resumed
    BY <1>1, <2>6, <2>7, SameEntry
  <2> USE DEF resumed
  <2>9. Ledger(reviews)' = [Ledger(reviews) EXCEPT ![r].status = "open",
                                                   ![r].authoritative = TRUE]
    <3> DEFINE L == Ledger(reviews)
    <3>1. L = [n \in DOMAIN L |-> L[n]] /\ r \in DOMAIN L /\ L[r] = y
      BY <1>2
    <3>2. Ledger(reviews)' = [L EXCEPT ![r] = resumed]
      BY <1>2, <2>8
    <3> HIDE DEF L
    <3>3. [L EXCEPT ![r] = resumed]
            = [L EXCEPT ![r].status = "open", ![r].authoritative = TRUE]
      BY <1>1, <3>1 DEF Promise!Entry
    <3> QED BY <3>2, <3>3 DEF L
  <2>10. Promise!Resume(r)
    BY <1>2, <2>4, <2>5, <2>9, GenerationsKept DEF Promise!Resume
  <2> QED BY <1>2, <2>10 DEF Seen, Promise!AuthorityNext
<1> QED
  BY <1>4, <1>5

\* A commit is the decision, a cancellation the withdrawal.
LEMMA ClosingSeen ==
    ASSUME AuthorityInv, TypeOK', NEW e, NEW r \in DOMAIN reviews,
           CommitReview(e, r) \/ CancelReview(e, r)
    PROVE  Seen
<1> DEFINE rev      == reviews[r]
           decision == Resolve(rev)
           L        == Ledger(reviews)
           y        == AsEntry(rev)
<1>1. rev \in Review /\ UNCHANGED targets /\ y \in Promise!Entry
  BY ReviewLookups, EntryType DEF AuthorityInv, CommitReview, CancelReview, registry
<1>2. TargetCurrent(rev)
  BY OpenIsCurrent DEF CommitReview, CancelReview
<1>3. Promise!Current(y)
  BY <1>2, ReviewLookups, GenerationsSeen DEF AuthorityInv
<1>4. CASE CommitReview(e, r)
  <2> DEFINE new == [rev EXCEPT !.state = "Committed", !.decision = decision,
                                !.disposition = decision.disposition,
                                !.authorityCurrent = TRUE]
             verdict == decision.disposition
             decided == [y EXCEPT !.status = "decided", !.verdict = verdict,
                                  !.authoritative = TRUE]
             x == AsEntry(new)
  <2>1. reviews' = [reviews EXCEPT ![r] = new]
    BY <1>4 DEF CommitReview
  <2>2. verdict \in Dispositions
    BY <1>1, ReviewLookups, ResolveType DEF AuthorityInv, Decision
  <2>3. y.status = "open"
    BY <1>4, StatusIs, EntryFields DEF CommitReview
  <2> HIDE DEF decision
  <2>4. new.target = rev.target /\ new.targetGeneration = rev.targetGeneration
        /\ new.state = "Committed" /\ new.disposition = verdict
        /\ new.authorityCurrent = TRUE
    BY <1>1 DEF Review
  <2> HIDE DEF new, verdict
  <2>5. /\ r \in DOMAIN L /\ L[r] = y
        /\ Ledger(reviews)' = [L EXCEPT ![r] = x]
        /\ L = [n \in DOMAIN L |-> L[n]]
        /\ x \in Promise!Entry
    BY <2>1, OneEntry, LedgerStep, EntryAfter
  <2>6. Status(new) = "decided" /\ Verdict(new) = verdict
    BY <2>4, Zenon DEF Status, Verdict
  <2>7. x.object = y.object /\ x.generation = y.generation /\ x.status = "decided"
        /\ x.verdict = verdict /\ x.authoritative = TRUE
    BY <2>4, <2>6, EntryFields
  <2>8. decided \in Promise!Entry
        /\ decided.object = y.object /\ decided.generation = y.generation
        /\ decided.status = "decided" /\ decided.verdict = verdict
        /\ decided.authoritative = TRUE
    BY <1>1, <2>2 DEF Promise!Entry, Promise!Statuses
  <2> HIDE DEF x, y, L, decided
  <2>9. x = decided
    BY <2>5, <2>7, <2>8, SameEntry
  <2>10. [L EXCEPT ![r] = decided]
           = [L EXCEPT ![r].status = "decided", ![r].verdict = verdict,
                       ![r].authoritative = TRUE]
    BY <1>1, <2>5 DEF decided, Promise!Entry
  <2>11. Promise!Decide(r, verdict)
    BY <1>1, <1>3, <2>3, <2>5, <2>9, <2>10, GenerationsKept DEF Promise!Decide, L
  <2> QED BY <2>2, <2>5, <2>11 DEF Seen, Promise!AuthorityNext, L
<1>5. CASE CancelReview(e, r)
  <2> DEFINE new == [rev EXCEPT !.state = "Cancelled", !.disposition = "Cancelled",
                                !.authorityCurrent = FALSE]
             withdrawn == [y EXCEPT !.status = "withdrawn", !.authoritative = FALSE]
             x == AsEntry(new)
  <2>1. reviews' = [reviews EXCEPT ![r] = new]
    BY <1>5 DEF CancelReview
  <2>2. y.status \in Promise!Undecided /\ Verdict(rev) = "None"
    BY <1>5, StatusIs, EntryFields DEF CancelReview, Promise!Undecided
  <2>3. new.target = rev.target /\ new.targetGeneration = rev.targetGeneration
        /\ new.state = "Cancelled" /\ new.authorityCurrent = FALSE
    BY <1>1 DEF Review
  <2> HIDE DEF new
  <2>4. /\ r \in DOMAIN L /\ L[r] = y
        /\ Ledger(reviews)' = [L EXCEPT ![r] = x]
        /\ L = [n \in DOMAIN L |-> L[n]]
        /\ x \in Promise!Entry
    BY <2>1, OneEntry, LedgerStep, EntryAfter
  <2>5. Status(new) = "withdrawn" /\ Verdict(new) = "None"
    BY <2>3, SMT DEF Status, Verdict, TerminalStates
  <2>6. x.object = y.object /\ x.generation = y.generation /\ x.status = "withdrawn"
        /\ x.verdict = y.verdict /\ x.authoritative = FALSE
    BY <2>2, <2>3, <2>5, EntryFields
  <2>7. withdrawn \in Promise!Entry
        /\ withdrawn.object = y.object /\ withdrawn.generation = y.generation
        /\ withdrawn.status = "withdrawn" /\ withdrawn.verdict = y.verdict
        /\ withdrawn.authoritative = FALSE
    BY <1>1 DEF Promise!Entry, Promise!Statuses
  <2> HIDE DEF x, y, L, withdrawn
  <2>8. x = withdrawn
    BY <2>4, <2>6, <2>7, SameEntry
  <2>9. [L EXCEPT ![r] = withdrawn]
           = [L EXCEPT ![r].status = "withdrawn", ![r].authoritative = FALSE]
    BY <1>1, <2>4 DEF withdrawn, Promise!Entry
  <2>10. Promise!Withdraw(r)
    BY <1>1, <2>2, <2>4, <2>8, <2>9, GenerationsKept DEF Promise!Withdraw, L
  <2> QED BY <2>4, <2>10 DEF Seen, Promise!AuthorityNext, L
<1> QED
  BY <1>4, <1>5

\* A review is opened for the generation its target has now.
LEMMA DeclareReviewSeen ==
    ASSUME TypeOK, NEW e, NEW r \in Requests, NEW t \in Targets, NEW g, NEW spec,
           DeclareReview(e, r, t, g, spec)
    PROVE  Seen
<1> DEFINE entry == [object |-> t, generation |-> g, status |-> "open", verdict |-> "None",
                     authoritative |-> TRUE]
<1>1. /\ UNCHANGED targets
      /\ t \in DOMAIN targets
      /\ targets[t].generation = g
      /\ r \notin DOMAIN reviews
      /\ DOMAIN reviews' = DOMAIN reviews \cup {r}
      /\ \A x \in DOMAIN reviews : reviews'[x] = reviews[x]
      /\ reviews'[r].target = t
      /\ reviews'[r].targetGeneration = g
      /\ reviews'[r].state = "Declared"
      /\ reviews'[r].authorityCurrent = TRUE
  BY DEF DeclareReview, Put, registry
<1>2. reviews'[r].state \notin TerminalStates \cup {"RevalidationRequired"}
  BY <1>1 DEF TerminalStates
<1>3. AsEntry(reviews'[r]) = entry
  BY <1>1, <1>2, StatusIs DEF AsEntry
<1> HIDE DEF entry
<1>4. Ledger(reviews)' = Promise!Entered(Ledger(reviews), r, entry)
  BY <1>1, <1>3, LedgerStep DEF Promise!Entered
<1>5. Promise!Open(r, t)
  BY <1>1, <1>4, LedgerStep, GenerationsKept DEF Promise!Open, entry
<1> QED
  BY <1>5 DEF Seen, Promise!AuthorityNext

\* A target appears in its first generation.
LEMMA RegisterTargetSeen ==
    ASSUME NEW e, NEW t \in Targets, NEW content, RegisterTarget(e, t, content)
    PROVE  Seen
<1>1. /\ UNCHANGED reviews
      /\ t \notin DOMAIN targets
      /\ DOMAIN targets' = DOMAIN targets \cup {t}
      /\ targets'[t].generation = 1
      /\ \A u \in DOMAIN targets : targets'[u] = targets[u]
  BY DEF RegisterTarget, Put
<1> DEFINE generation == [u \in DOMAIN targets |-> targets[u].generation]
<1>2. generation' = [u \in DOMAIN targets' |-> targets'[u].generation]
  OBVIOUS
<1>3. generation' = Promise!Entered(generation, t, 1)
  BY <1>1, <1>2 DEF Promise!Entered
<1>4. Ledger(reviews)' = Ledger(reviews)
  BY <1>1, LedgerStep
<1>5. Promise!Appear(t)
  BY <1>1, <1>3, <1>4 DEF Promise!Appear
<1> QED
  BY <1>5 DEF Seen, Promise!AuthorityNext

\* A target moves on.  Its reviews of earlier generations are closed and without
\* authority already, so that outdating them again changes nothing.
LEMMA AdvanceTargetSeen ==
    ASSUME AuthorityInv, NEW e, NEW t \in Targets, NEW content, AdvanceTarget(e, t, content)
    PROVE  Seen
<1> DEFINE generation == [u \in DOMAIN targets |-> targets[u].generation]
<1>1. /\ t \in DOMAIN targets
      /\ DOMAIN targets' = DOMAIN targets
      /\ targets'[t].generation = targets[t].generation + 1
      /\ \A u \in DOMAIN targets \ {t} : targets'[u] = targets[u]
  BY DEF AdvanceTarget, Put
<1>2. generation' = [generation EXCEPT ![t] = @ + 1]
  <2>1. generation' = [u \in DOMAIN targets' |-> targets'[u].generation]
    OBVIOUS
  <2> QED BY <1>1, <2>1
<1>3. /\ DOMAIN reviews' = DOMAIN reviews
      /\ \A r \in DOMAIN reviews :
            reviews'[r] = IF reviews[r].target = t /\ TargetCurrent(reviews[r])
                          THEN Supersede(reviews[r]) ELSE reviews[r]
  BY DEF AdvanceTarget
<1>4. ASSUME NEW r \in DOMAIN reviews
      PROVE  AsEntry(reviews'[r]) = IF reviews[r].target = t
                                    THEN Promise!Outdate(AsEntry(reviews[r]))
                                    ELSE AsEntry(reviews[r])
  <2> DEFINE rev == reviews[r]
             y   == AsEntry(rev)
             o   == Promise!Outdate(y)
  <2>1. rev \in Review /\ FiniteRecords(rev) /\ y \in Promise!Entry
    BY ReviewLookups, EntryType DEF AuthorityInv
  <2>2. CASE rev.target = t /\ TargetCurrent(rev)
    BY <1>3, <2>1, <2>2, SupersedeSeen
  <2>3. CASE rev.target = t /\ ~TargetCurrent(rev)
    <3>1. rev.state \in TerminalStates /\ rev.authorityCurrent = FALSE
      <4>1. rev.authorityCurrent \in BOOLEAN
        BY <2>1 DEF Review
      <4> QED BY <2>3, <4>1 DEF AuthorityInv, AuthorityTracksTarget, StaleTargetSilent
    <3>2. Status(rev) \notin {"open", "waiting"}
      BY <3>1, SMT DEF Status, TerminalStates
    <3>3. /\ o \in Promise!Entry
          /\ o.object = y.object /\ o.generation = y.generation
          /\ o.status = y.status /\ o.verdict = y.verdict
          /\ o.authoritative = y.authoritative
      BY <2>1, <3>1, <3>2, OutdatedFields, EntryFields
    <3> HIDE DEF o, y
    <3>4. o = y
      BY <2>1, <3>3, SameEntry
    <3> QED BY <1>3, <2>3, <3>4 DEF o, y
  <2>4. CASE rev.target # t
    BY <1>3, <2>4
  <2> QED BY <2>2, <2>3, <2>4
<1>5. Ledger(reviews)' = [r \in DOMAIN Ledger(reviews) |->
         IF Ledger(reviews)[r].object = t THEN Promise!Outdate(Ledger(reviews)[r])
                                          ELSE Ledger(reviews)[r]]
  BY <1>3, <1>4, LedgerStep, EntryFields
<1>6. t \in DOMAIN generation
  BY <1>1
<1>7. Promise!Advance(t)
  BY <1>2, <1>5, <1>6 DEF Promise!Advance
<1> QED
  BY <1>7 DEF Seen, Promise!AuthorityNext

\* Assignment takes up a review that waits.
LEMMA AssignCriticsSeen ==
    ASSUME AuthorityInv, TypeOK', NEW e, NEW r \in DOMAIN reviews, NEW batch,
           AssignCritics(e, r, batch)
    PROVE  Seen
<1> DEFINE rev     == reviews[r]
           added   == {Granted(rev, q) : q \in batch}
           granted == [rev EXCEPT !.assignments = @ \cup added]
           new     == IF rev.state \in {"Declared", "Assigning", "RevalidationRequired"}
                      THEN [granted EXCEPT !.state = "Assigned", !.disposition = "None",
                                           !.authorityCurrent = TRUE]
                      ELSE granted
<1>1. /\ rev \in Review
      /\ rev.state \notin TerminalStates
      /\ UNCHANGED targets
      /\ reviews' = [reviews EXCEPT ![r] = new]
  BY ReviewLookups DEF AuthorityInv, AssignCritics, registry
<1> HIDE DEF rev, added
<1>2. /\ new.target = rev.target
      /\ new.targetGeneration = rev.targetGeneration
      /\ \/ /\ new.authorityCurrent = TRUE
            /\ new.state \notin TerminalStates \cup {"RevalidationRequired"}
         \/ new.authorityCurrent = rev.authorityCurrent /\ new.state = rev.state
  BY <1>1 DEF Review, TerminalStates
<1> HIDE DEF new
<1> QED BY <1>1, <1>2, TakenUp DEF rev

\* What a critic submits, by what it does to state and authority.
LEMMA OutputSeen ==
    ASSUME AuthorityInv, TypeOK', NEW m, CheckAuthority(m), UNCHANGED targets, NEW new,
           reviews' = [reviews EXCEPT ![m.review] = new],
           new.target = reviews[m.review].target,
           new.targetGeneration = reviews[m.review].targetGeneration,
           \/ /\ new.authorityCurrent = TRUE
              /\ new.state \notin TerminalStates \cup {"RevalidationRequired"}
           \/ /\ new.authorityCurrent = reviews[m.review].authorityCurrent
              /\ new.state = reviews[m.review].state
    PROVE  Seen
<1>1. m.review \in DOMAIN reviews /\ reviews[m.review].state \notin TerminalStates
  BY DEF CheckAuthority, AcceptsCriticInput, TerminalStates
<1> QED
  BY <1>1, TakenUp

\* Evidence is invisible.
LEMMA SubmitEvidenceSeen ==
    ASSUME AuthorityInv, TypeOK', NEW m, NEW input, NEW finding,
           SubmitEvidence(m, input, finding)
    PROVE  Seen
<1>1. CheckAuthority(m) /\ UNCHANGED targets
  BY DEF SubmitEvidence, registry
<1> DEFINE rev == reviews[m.review]
<1>2. PICK evidences, findings :
        reviews' = [reviews EXCEPT ![m.review] =
                      [rev EXCEPT !.evidences = evidences, !.findings = findings]]
  BY DEF SubmitEvidence
<1>3. rev \in Review
  BY <1>1, ReviewLookups DEF AuthorityInv, CheckAuthority
<1> DEFINE new == [rev EXCEPT !.evidences = evidences, !.findings = findings]
<1>4. /\ new.target = rev.target
      /\ new.targetGeneration = rev.targetGeneration
      /\ new.authorityCurrent = rev.authorityCurrent
      /\ new.state = rev.state
  BY <1>3 DEF Review
<1> HIDE DEF new
<1> QED
  BY <1>1, <1>2, <1>4, OutputSeen DEF new

\* A finding is invisible: it does not take up a review that waits.
LEMMA SubmitFindingSeen ==
    ASSUME AuthorityInv, TypeOK', NEW m, NEW input, NEW supersedes,
           SubmitFinding(m, input, supersedes)
    PROVE  Seen
<1>1. CheckAuthority(m) /\ UNCHANGED targets
  BY DEF SubmitFinding, registry
<1> DEFINE rev == reviews[m.review]
           Recorded(findings, evidences) ==
              [rev EXCEPT !.findings = findings, !.evidences = evidences]
           New(recorded) ==
              IF rev.state \in {"Assigned", "Reviewing"}
              THEN [recorded EXCEPT !.state = "FindingsReceived", !.disposition = "None",
                                    !.authorityCurrent = TRUE]
              ELSE recorded
<1>2. PICK findings, evidences :
        reviews' = [reviews EXCEPT ![m.review] = New(Recorded(findings, evidences))]
  BY DEF SubmitFinding
<1>3. rev \in Review
  BY <1>1, ReviewLookups DEF AuthorityInv, CheckAuthority
<1> DEFINE new == New(Recorded(findings, evidences))
<1>4. /\ new.target = rev.target
      /\ new.targetGeneration = rev.targetGeneration
      /\ \/ /\ new.authorityCurrent = TRUE
            /\ new.state \notin TerminalStates \cup {"RevalidationRequired"}
         \/ new.authorityCurrent = rev.authorityCurrent /\ new.state = rev.state
  BY <1>3 DEF Review, TerminalStates
<1> HIDE DEF new
<1> QED
  BY <1>1, <1>2, <1>4, OutputSeen DEF new

\* A challenge takes up a review that waits.
LEMMA SubmitChallengeSeen ==
    ASSUME AuthorityInv, TypeOK', NEW m, NEW id, SubmitChallenge(m, id)
    PROVE  Seen
<1>1. CheckAuthority(m) /\ UNCHANGED targets
  BY DEF SubmitChallenge, registry
<1> DEFINE rev == reviews[m.review]
           Challenged(challenges, findings) ==
              [rev EXCEPT !.challenges = challenges, !.findings = findings]
           New(challenged) ==
              IF rev.state # "Challenged"
              THEN [challenged EXCEPT !.state = "Challenged", !.disposition = "None",
                                      !.authorityCurrent = TRUE]
              ELSE challenged
<1>2. PICK challenges, findings :
        reviews' = [reviews EXCEPT ![m.review] = New(Challenged(challenges, findings))]
  BY DEF SubmitChallenge
<1>3. rev \in Review
  BY <1>1, ReviewLookups DEF AuthorityInv, CheckAuthority
<1> DEFINE new == New(Challenged(challenges, findings))
<1>4. /\ new.target = rev.target
      /\ new.targetGeneration = rev.targetGeneration
      /\ \/ /\ new.authorityCurrent = TRUE
            /\ new.state \notin TerminalStates \cup {"RevalidationRequired"}
         \/ new.authorityCurrent = rev.authorityCurrent /\ new.state = rev.state
  BY <1>3 DEF Review, TerminalStates
<1> HIDE DEF new
<1> QED
  BY <1>1, <1>2, <1>4, OutputSeen DEF new

\* So does a rebuttal.
LEMMA SubmitRebuttalSeen ==
    ASSUME AuthorityInv, TypeOK', NEW m, NEW id, NEW outcome, SubmitRebuttal(m, id, outcome)
    PROVE  Seen
<1>1. CheckAuthority(m) /\ UNCHANGED targets
  BY DEF SubmitRebuttal, registry
<1> DEFINE rev == reviews[m.review]
           New(challenges, findings, rounds) ==
              [rev EXCEPT !.challenges = challenges, !.findings = findings,
                          !.state = "Evaluating", !.disposition = "None",
                          !.authorityCurrent = TRUE, !.roundsUsed = rounds]
           Answered(ch) == [ch EXCEPT !.resolved = TRUE, !.outcome = outcome]
           After(ch) == New((rev.challenges \ {ch}) \cup {Answered(ch)},
                            SetState(rev.findings, ch.finding, AfterRebuttal(outcome)),
                            rev.roundsUsed + 1)
<1>2. PICK ch \in rev.challenges : reviews' = [reviews EXCEPT ![m.review] = After(ch)]
  BY DEF SubmitRebuttal
<1>3. rev \in Review
  BY <1>1, ReviewLookups DEF AuthorityInv, CheckAuthority
<1> DEFINE new == After(ch)
<1>4. /\ new.target = rev.target
      /\ new.targetGeneration = rev.targetGeneration
      /\ new.authorityCurrent = TRUE
      /\ new.state \notin TerminalStates \cup {"RevalidationRequired"}
  BY <1>3 DEF Review, TerminalStates
<1> HIDE DEF new
<1> QED
  BY <1>1, <1>2, <1>4, OutputSeen DEF new

-----------------------------------------------------------------------------
(* The refinement.                                                         *)

\* The empty coordinator has promised nothing.
LEMMA InitSeen == Init => Promise!AuthorityInit
  BY DEF Init, EmptyMap, Ledger, Promise!AuthorityInit

\* Every step maps to a step or to none.
LEMMA StepSeen == AuthorityInv /\ [Next]_vars => Seen
<1> SUFFICES ASSUME AuthorityInv, [Next]_vars PROVE Seen
  OBVIOUS
<1>1. TypeOK /\ TypeOK'
  BY TypeStep DEF AuthorityInv
<1>2. CASE Control
  <2>1. ASSUME NEW e, NEW t \in Targets, NEW content, RegisterTarget(e, t, content)
        PROVE  Seen
    BY <2>1, RegisterTargetSeen
  <2>2. ASSUME NEW e, NEW c, NEW capability, RegisterCritic(e, c, capability)
        PROVE  Seen
    BY <2>2, Invisible DEF RegisterCritic
  <2>3. ASSUME NEW e, NEW t \in Targets, NEW content, AdvanceTarget(e, t, content)
        PROVE  Seen
    BY <2>3, AdvanceTargetSeen
  <2>4. ASSUME NEW e, NEW c, NEW capability, NEW advance,
               AdvanceCritic(e, c, capability, advance)
        PROVE  Seen
    BY <2>4, WithdrawalsSeen DEF AdvanceCritic
  <2>5. ASSUME NEW e, NEW r \in Requests, NEW t \in Targets, NEW g, NEW spec,
               DeclareReview(e, r, t, g, spec)
        PROVE  Seen
    BY <1>1, <2>5, DeclareReviewSeen
  <2>6. ASSUME NEW e, NEW r \in DOMAIN reviews, NEW batch, AssignCritics(e, r, batch)
        PROVE  Seen
    BY <1>1, <2>6, AssignCriticsSeen
  <2>7. ASSUME NEW e, NEW r \in DOMAIN reviews, CommitReview(e, r) \/ CancelReview(e, r)
        PROVE  Seen
    BY <1>1, <2>7, ClosingSeen
  <2> QED
    BY <1>2, <2>1, <2>2, <2>3, <2>4, <2>5, <2>6, <2>7 DEF Control
<1>3. CASE Incarnation
  <2>1. ASSUME NEW e, NEW w, NEW boot, NEW c, NEW g, RegisterWorker(e, w, boot, c, g)
        PROVE  Seen
    BY <2>1, WithdrawalsSeen DEF RegisterWorker
  <2>2. ASSUME NEW e, NEW x, NEW ready, NEW healthy, NEW evidence,
               DeclareReadiness(e, x, ready, healthy, evidence)
        PROVE  Seen
    BY <2>2, Invisible DEF DeclareReadiness
  <2>3. ASSUME NEW ws, Fence(ws)
        PROVE  Seen
    BY <2>3, WithdrawalsSeen DEF Fence
  <2> QED
    BY <1>3, <2>1, <2>2, <2>3 DEF Incarnation, FenceWorker, FenceCritic
<1>4. CASE Output
  <2>1. \A m, input, f : SubmitEvidence(m, input, f) => Seen
    BY <1>1, SubmitEvidenceSeen
  <2>2. \A m, input, f : SubmitFinding(m, input, f) => Seen
    BY <1>1, SubmitFindingSeen
  <2>3. \A m, f : SubmitChallenge(m, f) => Seen
    BY <1>1, SubmitChallengeSeen
  <2>4. \A m, ch, outcome : SubmitRebuttal(m, ch, outcome) => Seen
    BY <1>1, SubmitRebuttalSeen
  <2> QED
    BY <1>4, <2>1, <2>2, <2>3, <2>4 DEF Output
<1>5. CASE Restart
  BY <1>5, WithdrawalsSeen DEF Restart
<1>6. CASE UNCHANGED vars
  BY <1>6, Invisible DEF vars
<1> QED
  BY <1>2, <1>3, <1>4, <1>5, <1>6 DEF Next

\* README "Review lifecycle", "Authoritative review commit": the coordinator
\* keeps its promise, whatever it is asked and however often it restarts.
THEOREM PromiseKept == Spec => KeepsItsPromise
<1>1. AuthorityInv /\ [Next]_vars => [Promise!AuthorityNext]_(Promise!view)
  BY StepSeen DEF Seen
<1> QED
  BY <1>1, InitSeen, AuthoritySafe, PTL DEF Spec, KeepsItsPromise, Promise!AuthoritySpec

=============================================================================
