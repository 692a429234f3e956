---------------------------- MODULE ReplayProofs ----------------------------
(***************************************************************************)
(* Theorems about what the journal yields when it is replayed (module      *)
(* DurableCoordinator): between calls it is what the memory holds, and a   *)
(* start from a journal no call has torn is a restart that loses nothing.  *)
(*                                                                         *)
(* A list of entries leads from one store to another when each entry,      *)
(* applied in turn, does, and every store in between is in order           *)
(* (Replayed).  The entries of a call are cut into blocks: those about one *)
(* review (Told), the fences (Fenced), and the records that come first or  *)
(* last.  Blocks whose order is left open lead from the union of some to   *)
(* the union of one more, so that any order will do.  Then call by call:   *)
(* what it writes leads from the journal to the memory it leaves.          *)
(***************************************************************************)
EXTENDS DurableProofs

-----------------------------------------------------------------------------
(* Replaying a list of entries.                                            *)

\* A review of well-formed records of the critics D, which their numbers tell apart.
Kempt(rev, D) ==
    /\ rev \in Review
    /\ Numbered(rev.findings)
    /\ Numbered(rev.evidences)
    /\ Numbered(rev.challenges)
    /\ Seated(rev.assignments)
    /\ \A a \in rev.assignments : a.critic \in D

Sound(store) ==
    /\ Shape(store)
    /\ store.reviews = [r \in DOMAIN store.reviews |-> store.reviews[r]]
    /\ \A r \in DOMAIN store.reviews : Kempt(store.reviews[r], DOMAIN store.critics)
    /\ \A w \in DOMAIN store.workers : store.workers[w].critic \in DOMAIN store.critics

\* The entries s lead from one store to another: f holds the stores between.
Leads(f, s, old, new) ==
    /\ f[0] = old
    /\ f[Len(s)] = new
    /\ \A i \in 0 .. Len(s) : Sound(f[i])
    /\ \A i \in 1 .. Len(s) : f[i] = Applied(f[i-1], s[i])

Replayed(s, old, new) == s \in Seq(Entries) /\ \E f : Leads(f, s, old, new)

LEMMA ReplayedNone ==
    ASSUME NEW store, Sound(store)
    PROVE  Replayed(<<>>, store, store)
<1>1. Leads([i \in 0 .. 0 |-> store], <<>>, store, store)
  BY DEF Leads
<1> QED
  BY <1>1 DEF Replayed

LEMMA ReplayedNoneOnly ==
    ASSUME NEW old, NEW new, Replayed(<<>>, old, new)
    PROVE  new = old /\ Sound(old)
  BY DEF Replayed, Leads

LEMMA ReplayedOne ==
    ASSUME NEW store, NEW x \in Entries, Sound(store), Sound(Applied(store, x))
    PROVE  Replayed(<<x>>, store, Applied(store, x))
<1> DEFINE f == [i \in 0 .. 1 |-> IF i = 0 THEN store ELSE Applied(store, x)]
<1>1. /\ Len(<<x>>) = 1 /\ <<x>>[1] = x /\ <<x>> \in Seq(Entries)
      /\ f[0] = store /\ f[1] = Applied(store, x)
  OBVIOUS
<1> HIDE DEF f
<1>2. \A i \in 0 .. 1 : Sound(f[i])
  BY <1>1
<1>3. \A i \in 1 .. 1 : f[i] = Applied(f[i-1], <<x>>[i])
  BY <1>1
<1>4. Leads(f, <<x>>, store, Applied(store, x))
  BY <1>1, <1>2, <1>3 DEF Leads
<1> QED
  BY <1>1, <1>4 DEF Replayed

LEMMA ReplayedBoth ==
    ASSUME NEW s, NEW t, NEW old, NEW mid, NEW new,
           Replayed(s, old, mid), Replayed(t, mid, new)
    PROVE  Replayed(s \o t, old, new)
<1>1. s \in Seq(Entries) /\ t \in Seq(Entries)
  BY DEF Replayed
<1>2. PICK f : Leads(f, s, old, mid)
  BY DEF Replayed
<1>3. PICK g : Leads(g, t, mid, new)
  BY DEF Replayed
<1> DEFINE m == Len(s)
           n == Len(t)
           h == [i \in 0 .. m + n |-> IF i <= m THEN f[i] ELSE g[i - m]]
<1>4. /\ m \in Nat /\ n \in Nat /\ s \o t \in Seq(Entries) /\ Len(s \o t) = m + n
      /\ \A i \in 1 .. m : (s \o t)[i] = s[i]
      /\ \A i \in 1 .. m + n : ~(i <= m) => (s \o t)[i] = t[i - m]
  BY <1>1
<1>5. \A i \in 0 .. m : h[i] = f[i]
  BY <1>4
<1>6. \A i \in m .. m + n : h[i] = g[i - m]
  BY <1>2, <1>3, <1>4 DEF Leads
<1> HIDE DEF h
<1>7. \A i \in 0 .. m + n : Sound(h[i])
  <2>1. TAKE i \in 0 .. m + n
  <2>2. CASE i <= m
    BY <1>2, <1>4, <1>5, <2>2 DEF Leads
  <2>3. CASE ~(i <= m)
    <3>1. i \in m .. m + n /\ i - m \in 0 .. n
      BY <1>4, <2>3
    <3> QED BY <1>3, <1>6, <3>1 DEF Leads
  <2> QED BY <2>2, <2>3
<1>8. \A i \in 1 .. m + n : h[i] = Applied(h[i-1], (s \o t)[i])
  <2>1. TAKE i \in 1 .. m + n
  <2>2. CASE i <= m
    <3>1. i \in 1 .. m /\ i \in 0 .. m /\ i - 1 \in 0 .. m
      BY <1>4, <2>2
    <3> QED BY <1>2, <1>4, <1>5, <3>1 DEF Leads
  <2>3. CASE ~(i <= m)
    <3>1. i \in m .. m + n /\ i - 1 \in m .. m + n /\ i - m \in 1 .. n
          /\ (i - 1) - m = (i - m) - 1
      BY <1>4, <2>3
    <3>2. h[i] = g[i - m] /\ h[i-1] = g[(i - m) - 1] /\ (s \o t)[i] = t[i - m]
      BY <1>4, <1>6, <2>3, <3>1
    <3>3. g[i - m] = Applied(g[(i - m) - 1], t[i - m])
      BY <1>3, <3>1 DEF Leads
    <3> QED BY <3>2, <3>3
  <2> QED BY <2>2, <2>3
<1>9. h[0] = old /\ h[m + n] = new
  <2>1. 0 \in 0 .. m /\ m + n \in m .. m + n /\ (m + n) - m = n
    BY <1>4
  <2> QED BY <1>2, <1>3, <1>5, <1>6, <2>1 DEF Leads
<1>10. Leads(h, s \o t, old, new)
  BY <1>4, <1>7, <1>8, <1>9 DEF Leads
<1> QED
  BY <1>4, <1>10 DEF Replayed

\* The first entry takes a sound store to a sound store, and the others go on.
LEMMA ReplayedTail ==
    ASSUME NEW s, s # <<>>, NEW old, NEW new, Replayed(s, old, new)
    PROVE  /\ Sound(old) /\ Sound(Applied(old, Head(s)))
           /\ Replayed(Tail(s), Applied(old, Head(s)), new)
<1>1. s \in Seq(Entries)
  BY DEF Replayed
<1>2. PICK f : Leads(f, s, old, new)
  BY DEF Replayed
<1> DEFINE n == Len(s)
           g == [i \in 0 .. n - 1 |-> f[i + 1]]
<1>3. /\ n \in Nat /\ n >= 1 /\ Head(s) = s[1] /\ Tail(s) \in Seq(Entries)
      /\ Len(Tail(s)) = n - 1
      /\ \A i \in 1 .. n - 1 : Tail(s)[i] = s[i + 1]
  BY <1>1
<1>4. f[0] = old /\ f[1] = Applied(old, Head(s)) /\ Sound(f[0]) /\ Sound(f[1])
  <2>1. 0 \in 0 .. n /\ 1 \in 0 .. n /\ 1 \in 1 .. n /\ 1 - 1 = 0
    BY <1>3
  <2> QED BY <1>2, <1>3, <2>1 DEF Leads
<1>5. \A i \in 0 .. n - 1 : g[i] = f[i + 1]
  OBVIOUS
<1> HIDE DEF g
<1>6. \A i \in 0 .. n - 1 : Sound(g[i])
  <2>1. \A i \in 0 .. n - 1 : i + 1 \in 0 .. n
    BY <1>3
  <2> QED BY <1>2, <1>5, <2>1 DEF Leads
<1>7. \A i \in 1 .. n - 1 : g[i] = Applied(g[i-1], Tail(s)[i])
  <2>1. TAKE i \in 1 .. n - 1
  <2>2. i \in 0 .. n - 1 /\ i - 1 \in 0 .. n - 1 /\ i + 1 \in 1 .. n
        /\ (i - 1) + 1 = i /\ (i + 1) - 1 = i
    BY <1>3
  <2>3. f[i + 1] = Applied(f[(i + 1) - 1], s[i + 1])
    BY <1>2, <2>2 DEF Leads
  <2> QED BY <1>3, <1>5, <2>2, <2>3
<1>8. g[0] = f[1] /\ g[n - 1] = new
  <2>1. 0 \in 0 .. n - 1 /\ n - 1 \in 0 .. n - 1 /\ 0 + 1 = 1 /\ (n - 1) + 1 = n
    BY <1>3
  <2> QED BY <1>2, <1>5, <2>1 DEF Leads
<1>9. Leads(g, Tail(s), f[1], new)
  BY <1>3, <1>6, <1>7, <1>8 DEF Leads
<1> QED
  BY <1>3, <1>4, <1>9 DEF Replayed

LEMMA ReplayedSound ==
    ASSUME NEW s, NEW old, NEW new, Replayed(s, old, new)
    PROVE  s \in Seq(Entries) /\ Sound(old) /\ Sound(new)
<1>1. PICK f : Leads(f, s, old, new)
  BY DEF Replayed
<1>2. s \in Seq(Entries) /\ Len(s) \in Nat
  BY DEF Replayed
<1>3. 0 \in 0 .. Len(s) /\ Len(s) \in 0 .. Len(s)
  BY <1>2
<1> QED
  BY <1>1, <1>2, <1>3 DEF Leads

-----------------------------------------------------------------------------
(* Entries about a review that fit it keep its records well-formed.        *)

LEMMA KemptRecords ==
    ASSUME NEW rev, NEW D, Kempt(rev, D)
    PROVE  rev \in Review /\ FiniteRecords(rev)
  BY DEF Kempt, FiniteRecords, Numbered, Seated, SeatsNumbered

Fits(rev, D, x) ==
    /\ x \in Amendment \cup Ruling
    /\ x.type = "AssignmentsAdded" =>
          Seated(rev.assignments \cup x.value) /\ \A a \in x.value : a.critic \in D
    /\ x.type = "AssignmentUpdated" => ~x.value.active
    /\ x.type = "FindingRecorded" => x.value.id = Fresh(rev.findings)
    /\ x.type = "EvidenceRecorded" => x.value.id = Fresh(rev.evidences)
    /\ x.type = "ChallengeRecorded" =>
          x.value.id = Fresh(rev.challenges) \/ \E ch \in rev.challenges : ch.id = x.value.id

LEMMA AmendedKempt ==
    ASSUME NEW rev, NEW D, Kempt(rev, D), NEW x, Fits(rev, D, x)
    PROVE  Kempt(Amended(rev, x), D)
<1> DEFINE new == Amended(rev, x)
<1> SUFFICES Kempt(new, D)
  OBVIOUS
<1>1. /\ rev \in Review /\ FiniteRecords(rev)
      /\ Numbered(rev.findings) /\ Numbered(rev.evidences) /\ Numbered(rev.challenges)
      /\ Seated(rev.assignments) /\ \A a \in rev.assignments : a.critic \in D
  BY KemptRecords DEF Kempt
<1>2. new \in Review
  BY <1>1, AmendedKeeps DEF Fits, Kept
<1>3. x \in Amendment \cup Ruling
  BY DEF Fits
<1>4. CASE x \in About("AssignmentsAdded", {S \in SUBSET Assignment : IsFiniteSet(S)})
  <2>1. x.type = "AssignmentsAdded"
    BY <1>4 DEF About
  <2>2. new = [rev EXCEPT !.assignments = @ \cup x.value]
    BY <2>1 DEF Amended
  <2>3. /\ new.findings = rev.findings /\ new.evidences = rev.evidences
        /\ new.challenges = rev.challenges
        /\ new.assignments = rev.assignments \cup x.value
    BY <1>1, <2>2 DEF Review
  <2>4. Seated(rev.assignments \cup x.value) /\ \A a \in x.value : a.critic \in D
    BY <2>1 DEF Fits
  <2> HIDE DEF new
  <2> QED BY <1>1, <1>2, <2>3, <2>4 DEF Kempt
<1>5. CASE x \in About("AssignmentUpdated", Assignment)
  <2>1. x.type = "AssignmentUpdated" /\ x.value \in Assignment /\ ~x.value.active
    BY <1>5 DEF About, Fits
  <2> DEFINE F == [a \in rev.assignments |->
                     IF a.critic = x.value.critic /\ a.ordinal = x.value.ordinal
                     THEN x.value ELSE a]
             T == {F[a] : a \in rev.assignments}
  <2>2. new = [rev EXCEPT !.assignments = T]
    BY <2>1 DEF Amended
  <2>3. /\ new.findings = rev.findings /\ new.evidences = rev.evidences
        /\ new.challenges = rev.challenges /\ new.assignments = T
    BY <1>1, <2>2 DEF Review
  <2>4. \A a \in rev.assignments : /\ F[a] \in T
                                   /\ F[a].critic = a.critic
                                   /\ F[a].ordinal = a.ordinal
                                   /\ F[a].active => a.active
    BY <2>1
  <2>5. \A b \in T : \E a \in rev.assignments : b = F[a]
    OBVIOUS
  <2>6. IsFiniteSet(T)
    <3>1. F = [a \in rev.assignments |-> F[a]]
      OBVIOUS
    <3> HIDE DEF F
    <3> QED BY <1>1, <3>1, FiniteImage DEF FiniteRecords
  <2> HIDE DEF F, T, new
  <2>7. Seated(T)
    BY <1>1, <2>4, <2>5, <2>6, RewrittenSeats
  <2>8. \A b \in T : b.critic \in D
    BY <1>1, <2>4, <2>5
  <2> QED BY <1>1, <1>2, <2>3, <2>7, <2>8 DEF Kempt
<1>6. CASE x \in About("FindingRecorded", Finding)
  <2>1. x.type = "FindingRecorded" /\ x.value \in Finding /\ x.value.id = Fresh(rev.findings)
    BY <1>6 DEF About, Fits
  <2> DEFINE F == [e \in rev.evidences |->
                     IF e.id \in Range(x.value.evidence) /\ e.finding = NoId
                     THEN [e EXCEPT !.finding = x.value.id] ELSE e]
             T == {F[e] : e \in rev.evidences}
  <2>2. new = [rev EXCEPT !.findings = @ \cup {x.value}, !.evidences = T]
    BY <2>1 DEF Amended
  <2>3. \A e \in rev.evidences : F[e].id = e.id
    BY <1>1 DEF Review, Evidence
  <2>4. F = [e \in rev.evidences |-> F[e]]
    OBVIOUS
  <2>5. Numbered(T)
    <3> HIDE DEF F
    <3> QED BY <1>1, <2>3, <2>4, NumberedImage
  <2> HIDE DEF F, T
  <2>6. /\ new.findings = rev.findings \cup {x.value} /\ new.evidences = T
        /\ new.challenges = rev.challenges /\ new.assignments = rev.assignments
    BY <1>1, <2>2 DEF Review
  <2>7. Numbered(rev.findings \cup {x.value})
    BY <1>1, <2>1, NumberedMore
  <2> HIDE DEF new
  <2> QED BY <1>1, <1>2, <2>5, <2>6, <2>7 DEF Kempt
<1>7. CASE x \in About("FindingStateChanged", [id : Ids, state : FindingStates])
  <2>1. x.type = "FindingStateChanged"
    BY <1>7 DEF About
  <2> DEFINE F == [f \in rev.findings |->
                     IF f.id = x.value.id THEN [f EXCEPT !.state = x.value.state] ELSE f]
             T == {F[f] : f \in rev.findings}
  <2>2. new = [rev EXCEPT !.findings = T]
    BY <2>1 DEF Amended, SetState
  <2>3. \A f \in rev.findings : F[f].id = f.id
    BY <1>1 DEF Review, Finding
  <2>4. F = [f \in rev.findings |-> F[f]]
    OBVIOUS
  <2>5. Numbered(T)
    <3> HIDE DEF F
    <3> QED BY <1>1, <2>3, <2>4, NumberedImage
  <2> HIDE DEF F, T
  <2>6. /\ new.findings = T /\ new.evidences = rev.evidences
        /\ new.challenges = rev.challenges /\ new.assignments = rev.assignments
    BY <1>1, <2>2 DEF Review
  <2> HIDE DEF new
  <2> QED BY <1>1, <1>2, <2>5, <2>6 DEF Kempt
<1>8. CASE x \in About("EvidenceRecorded", Evidence)
  <2>1. x.type = "EvidenceRecorded" /\ x.value \in Evidence /\ x.value.id = Fresh(rev.evidences)
    BY <1>8 DEF About, Fits
  <2> DEFINE F == [f \in rev.findings |->
                     IF f.id = x.value.finding
                     THEN [f EXCEPT !.evidence = Append(@, x.value.id)] ELSE f]
             T == {F[f] : f \in rev.findings}
  <2>2. new = [rev EXCEPT !.evidences = @ \cup {x.value}, !.findings = T]
    BY <2>1 DEF Amended
  <2>3. \A f \in rev.findings : F[f].id = f.id
    BY <1>1 DEF Review, Finding
  <2>4. F = [f \in rev.findings |-> F[f]]
    OBVIOUS
  <2>5. Numbered(T)
    <3> HIDE DEF F
    <3> QED BY <1>1, <2>3, <2>4, NumberedImage
  <2> HIDE DEF F, T
  <2>6. /\ new.evidences = rev.evidences \cup {x.value} /\ new.findings = T
        /\ new.challenges = rev.challenges /\ new.assignments = rev.assignments
    BY <1>1, <2>2 DEF Review
  <2>7. Numbered(rev.evidences \cup {x.value})
    BY <1>1, <2>1, NumberedMore
  <2> HIDE DEF new
  <2> QED BY <1>1, <1>2, <2>5, <2>6, <2>7 DEF Kempt
<1>9. CASE x \in About("ChallengeRecorded", Challenge)
  <2>1. x.type = "ChallengeRecorded" /\ x.value \in Challenge
    BY <1>9 DEF About
  <2> DEFINE T == {ch \in rev.challenges : ch.id # x.value.id} \cup {x.value}
  <2>2. new = [rev EXCEPT !.challenges = T]
    BY <2>1 DEF Amended
  <2>3. /\ new.findings = rev.findings /\ new.evidences = rev.evidences
        /\ new.challenges = T /\ new.assignments = rev.assignments
    BY <1>1, <2>2 DEF Review
  <2>4. Numbered(T)
    <3>1. CASE x.value.id = Fresh(rev.challenges)
      <4>1. Cardinality(rev.challenges) \in Nat
        BY <1>1, FS_CardinalityType DEF Numbered
      <4>2. \A ch \in rev.challenges : ch.id # x.value.id
        BY <1>1, <3>1, <4>1 DEF Numbered, Fresh
      <4>3. T = rev.challenges \cup {x.value}
        BY <4>2
      <4> QED BY <1>1, <3>1, <4>3, NumberedMore
    <3>2. CASE \E ch \in rev.challenges : ch.id = x.value.id
      <4> DEFINE F == [ch \in rev.challenges |-> IF ch.id = x.value.id THEN x.value ELSE ch]
                 U == {F[ch] : ch \in rev.challenges}
      <4>1. T = U
        BY <3>2
      <4>2. \A ch \in rev.challenges : F[ch].id = ch.id
        OBVIOUS
      <4>3. F = [ch \in rev.challenges |-> F[ch]]
        OBVIOUS
      <4>4. Numbered(U)
        <5> HIDE DEF F
        <5> QED BY <1>1, <4>2, <4>3, NumberedImage
      <4> QED BY <4>1, <4>4
    <3> QED BY <2>1, <3>1, <3>2 DEF Fits
  <2> HIDE DEF T, new
  <2> QED BY <1>1, <1>2, <2>3, <2>4 DEF Kempt
<1>10. CASE x \in About("ReviewStateChanged", StateRecord)
  <2>1. x.type = "ReviewStateChanged"
    BY <1>10 DEF About
  <2>2. new = [rev EXCEPT !.state = x.value.state, !.disposition = x.value.disposition,
                          !.authorityCurrent = x.value.authorityCurrent,
                          !.roundsUsed = x.value.roundsUsed]
    BY <2>1 DEF Amended
  <2>3. /\ new.findings = rev.findings /\ new.evidences = rev.evidences
        /\ new.challenges = rev.challenges /\ new.assignments = rev.assignments
    BY <1>1, <2>2 DEF Review
  <2> HIDE DEF new
  <2> QED BY <1>1, <1>2, <2>3 DEF Kempt
<1>11. CASE x \in Ruling
  <2>1. x.type = "DecisionCommitted"
    BY <1>11 DEF Ruling, About
  <2>2. new = [rev EXCEPT !.decision = x.value]
    BY <2>1 DEF Amended
  <2>3. /\ new.findings = rev.findings /\ new.evidences = rev.evidences
        /\ new.challenges = rev.challenges /\ new.assignments = rev.assignments
    BY <1>1, <2>2 DEF Review
  <2> HIDE DEF new
  <2> QED BY <1>1, <1>2, <2>3 DEF Kempt
<1> QED
  BY <1>3, <1>4, <1>5, <1>6, <1>7, <1>8, <1>9, <1>10, <1>11 DEF Amendment

-----------------------------------------------------------------------------
(* Entries about one review.                                               *)

With(store, r, rev) == [store EXCEPT !.reviews[r] = rev]

LEMMA KemptMore ==
    ASSUME NEW rev, NEW D, Kempt(rev, D), NEW E, D \subseteq E
    PROVE  Kempt(rev, E)
  BY DEF Kempt

LEMMA WithReviews ==
    ASSUME NEW store, Sound(store), NEW r \in DOMAIN store.reviews, NEW rev
    PROVE  With(store, r, rev).reviews = [store.reviews EXCEPT ![r] = rev]
  BY DEF With, Sound, Shape

LEMMA WithFields ==
    ASSUME NEW store, Sound(store), NEW r \in DOMAIN store.reviews, NEW rev
    PROVE  LET new == With(store, r, rev) IN
           /\ Shape(new)
           /\ new.epoch = store.epoch /\ new.targets = store.targets
           /\ new.critics = store.critics /\ new.workers = store.workers
           /\ new.incumbents = store.incumbents
           /\ DOMAIN new.reviews = DOMAIN store.reviews
           /\ new.reviews[r] = rev
           /\ \A q \in DOMAIN store.reviews : q # r => new.reviews[q] = store.reviews[q]
<1> DEFINE revs == [store.reviews EXCEPT ![r] = rev]
<1>1. /\ With(store, r, rev) = [store EXCEPT !.reviews = revs]
      /\ DOMAIN revs = DOMAIN store.reviews /\ revs[r] = rev
      /\ \A q \in DOMAIN store.reviews : q # r => revs[q] = store.reviews[q]
  BY DEF With
<1> HIDE DEF revs
<1>2. /\ [store EXCEPT !.reviews = revs].reviews = revs
      /\ Shape([store EXCEPT !.reviews = revs])
  BY DEF Sound, Shape
<1> QED
  BY <1>1, <1>2 DEF Sound, Shape, revs

LEMMA WithSound ==
    ASSUME NEW store, Sound(store), NEW r \in DOMAIN store.reviews,
           NEW rev, Kempt(rev, DOMAIN store.critics)
    PROVE  Sound(With(store, r, rev))
<1> DEFINE new == With(store, r, rev)
<1>1. /\ Shape(new) /\ new.critics = store.critics /\ new.workers = store.workers
      /\ new.reviews = [store.reviews EXCEPT ![r] = rev]
      /\ DOMAIN new.reviews = DOMAIN store.reviews
      /\ new.reviews[r] = rev
      /\ \A q \in DOMAIN store.reviews : q # r => new.reviews[q] = store.reviews[q]
  BY WithFields, WithReviews
<1>2. new.reviews = [q \in DOMAIN new.reviews |-> new.reviews[q]]
  BY <1>1
<1>3. \A q \in DOMAIN new.reviews : Kempt(new.reviews[q], DOMAIN new.critics)
  BY <1>1 DEF Sound
<1>4. \A w \in DOMAIN new.workers : new.workers[w].critic \in DOMAIN new.critics
  BY <1>1 DEF Sound
<1> HIDE DEF new
<1>5. Sound(new)
  BY <1>1, <1>2, <1>3, <1>4 DEF Sound
<1> QED
  BY <1>5 DEF new

\* A store is told apart by its fields.
LEMMA SameStore ==
    ASSUME NEW a, NEW b, Shape(a), Shape(b), a.epoch = b.epoch, a.targets = b.targets,
           a.critics = b.critics, a.workers = b.workers, a.incumbents = b.incumbents,
           a.reviews = b.reviews
    PROVE  a = b
  BY DEF Shape

LEMMA WithTwice ==
    ASSUME NEW store, Sound(store), NEW r \in DOMAIN store.reviews, NEW a, NEW b
    PROVE  /\ With(store, r, store.reviews[r]) = store
           /\ With(With(store, r, a), r, b) = With(store, r, b)
<1>1. [store.reviews EXCEPT ![r] = store.reviews[r]] = store.reviews
  BY DEF Sound
<1>2. With(store, r, store.reviews[r]) = store
  BY <1>1, WithFields, WithReviews, SameStore DEF Sound
<1> DEFINE revs == store.reviews
<1>3. [[revs EXCEPT ![r] = a] EXCEPT ![r] = b] = [revs EXCEPT ![r] = b]
  OBVIOUS
<1>4. With(With(store, r, a), r, b) = With(store, r, b)
  <2> DEFINE one == [revs EXCEPT ![r] = a]
             two == [one EXCEPT ![r] = b]
             mid == [store EXCEPT !.reviews = one]
  <2>1. With(store, r, a) = mid /\ mid.reviews = one
    BY DEF With, Sound, Shape
  <2>2. With(mid, r, b) = [mid EXCEPT !.reviews = two]
    BY <2>1 DEF With
  <2>3. [mid EXCEPT !.reviews = two] = [store EXCEPT !.reviews = two]
    <3> HIDE DEF one, two
    <3> QED BY DEF Sound, Shape
  <2>4. With(store, r, b) = [store EXCEPT !.reviews = two]
    BY <1>3 DEF With
  <2> QED BY <2>1, <2>2, <2>3, <2>4
<1> QED
  BY <1>2, <1>4

LEMMA AmendmentKinds ==
    ASSUME NEW x \in Amendment \cup Ruling
    PROVE  x \in Entries /\ x.type \notin Global \cup {"ReviewDeclared"}
  BY DEF Amendment, Ruling, About, Entries, Plain, Global

LEMMA AmendedStore ==
    ASSUME NEW store, Sound(store), NEW x \in Amendment \cup Ruling,
           x.id \in DOMAIN store.reviews
    PROVE  Applied(store, x) = With(store, x.id, Amended(store.reviews[x.id], x))
<1> DEFINE new == Applied(store, x)
           rev == Amended(store.reviews[x.id], x)
           oth == With(store, x.id, rev)
<1>1. x.type \notin Global \cup {"ReviewDeclared"}
  BY AmendmentKinds
<1>2. /\ Shape(new) /\ new.epoch = store.epoch /\ new.targets = store.targets
      /\ new.critics = store.critics /\ new.workers = store.workers
      /\ new.incumbents = store.incumbents
      /\ new.reviews = [store.reviews EXCEPT ![x.id] = rev]
  BY <1>1, AppliedFields DEF Global, Sound
<1>3. /\ Shape(oth) /\ oth.epoch = store.epoch /\ oth.targets = store.targets
      /\ oth.critics = store.critics /\ oth.workers = store.workers
      /\ oth.incumbents = store.incumbents
      /\ oth.reviews = [store.reviews EXCEPT ![x.id] = rev]
  BY WithFields, WithReviews
<1> HIDE DEF new, oth, rev
<1>4. new = oth
  BY <1>2, <1>3, SameStore
<1> QED
  BY <1>4 DEF new, oth, rev

LEMMA FitsMore ==
    ASSUME NEW rev, NEW D, NEW x, Fits(rev, D, x), NEW E, D \subseteq E
    PROVE  Fits(rev, E, x)
  BY DEF Fits

\* Wherever review r stands at a, replaying s leaves it at b, and all else as it is.
Told(s, r, a, b) ==
    \A store :
        /\ Sound(store) /\ DOMAIN critics \subseteq DOMAIN store.critics
        /\ r \in DOMAIN store.reviews /\ store.reviews[r] = a
        => Replayed(s, store, With(store, r, b))

LEMMA ToldNone ==
    ASSUME NEW r, NEW a
    PROVE  Told(<<>>, r, a, a)
  BY WithTwice, ReplayedNone DEF Told

LEMMA ToldOne ==
    ASSUME NEW r, NEW a, NEW x, x.id = r, Fits(a, DOMAIN critics, x)
    PROVE  Told(<<x>>, r, a, Amended(a, x))
<1> SUFFICES ASSUME NEW store, Sound(store), DOMAIN critics \subseteq DOMAIN store.critics,
                    r \in DOMAIN store.reviews, store.reviews[r] = a
             PROVE  Replayed(<<x>>, store, With(store, r, Amended(a, x)))
  BY DEF Told
<1>1. x \in Amendment \cup Ruling /\ x \in Entries
  BY AmendmentKinds DEF Fits
<1>2. Kempt(Amended(a, x), DOMAIN store.critics)
  BY FitsMore, AmendedKempt DEF Sound
<1>3. Applied(store, x) = With(store, r, Amended(a, x))
  BY <1>1, AmendedStore
<1>4. Sound(Applied(store, x))
  BY <1>2, <1>3, WithSound
<1> QED
  BY <1>1, <1>3, <1>4, ReplayedOne

LEMMA ToldBoth ==
    ASSUME NEW s, NEW t, NEW r, NEW a, NEW b, NEW c, Told(s, r, a, b), Told(t, r, b, c)
    PROVE  Told(s \o t, r, a, c)
<1> SUFFICES ASSUME NEW store, Sound(store), DOMAIN critics \subseteq DOMAIN store.critics,
                    r \in DOMAIN store.reviews, store.reviews[r] = a
             PROVE  Replayed(s \o t, store, With(store, r, c))
  BY DEF Told
<1> DEFINE mid == With(store, r, b)
<1>1. Replayed(s, store, mid)
  BY DEF Told
<1>2. Sound(mid)
  BY <1>1, ReplayedSound
<1>3. /\ mid.critics = store.critics
      /\ DOMAIN mid.reviews = DOMAIN store.reviews /\ mid.reviews[r] = b
  BY WithFields
<1>4. With(mid, r, c) = With(store, r, c)
  BY WithTwice
<1> HIDE DEF mid
<1>5. Replayed(t, mid, With(mid, r, c))
  BY <1>2, <1>3 DEF Told
<1> QED
  BY <1>1, <1>4, <1>5, ReplayedBoth

-----------------------------------------------------------------------------
(* Entries and lists of entries that are emitted in some order.            *)

LEMMA ListedOnce ==
    ASSUME NEW S, IsFiniteSet(S)
    PROVE  LET s == SetToSeq(S) IN
           /\ s \in Seq(S)
           /\ Len(s) = Cardinality(S)
           /\ \A i, j \in 1 .. Len(s) : s[i] = s[j] => i = j
           /\ \A x \in S : \E i \in 1 .. Len(s) : s[i] = x
<1> DEFINE n == Cardinality(S)
<1>1. n \in Nat /\ ExistsBijection(1 .. n, S)
  BY FS_CardinalityType
<1>2. \E f \in [1 .. n -> S] : IsInjective(f)
  BY <1>1 DEF ExistsBijection, Bijection, Injection, IsInjective
<1>3. SetToSeq(S) \in [1 .. n -> S] /\ IsInjective(SetToSeq(S))
  BY <1>2 DEF SetToSeq
<1>4. SetToSeq(S) \in Seq(S) /\ Len(SetToSeq(S)) = n
  BY ListedSet
<1>5. \A i, j \in 1 .. n : SetToSeq(S)[i] = SetToSeq(S)[j] => i = j
  BY <1>3 DEF IsInjective
<1> QED
  BY <1>4, <1>5, ListedAll

\* A set listed one element at a time: what is listed after i elements.
SoFar(s, i) == {s[j] : j \in 1 .. i}

LEMMA SoFarGrows ==
    ASSUME NEW S, IsFiniteSet(S), NEW s, s = SetToSeq(S)
    PROVE  /\ s \in Seq(S) /\ Len(s) \in Nat /\ Len(s) = Cardinality(S)
           /\ SoFar(s, 0) = {}
           /\ SoFar(s, Len(s)) = S
           /\ \A i \in 0 .. Len(s) : SoFar(s, i) \in SUBSET S
           /\ \A i \in 1 .. Len(s) :
                 /\ s[i] \in S \ SoFar(s, i - 1)
                 /\ SoFar(s, i) = SoFar(s, i - 1) \cup {s[i]}
<1>1. /\ s \in Seq(S) /\ Len(s) \in Nat /\ Len(s) = Cardinality(S)
      /\ \A i, j \in 1 .. Len(s) : s[i] = s[j] => i = j
      /\ \A x \in S : \E i \in 1 .. Len(s) : s[i] = x
  BY ListedOnce, FS_CardinalityType
<1>2. \A i \in 1 .. Len(s) : s[i] \in S
  BY <1>1
<1>3. SoFar(s, 0) = {}
  BY DEF SoFar
<1>4. \A i \in 0 .. Len(s) : SoFar(s, i) \in SUBSET S
  BY <1>1, <1>2 DEF SoFar
<1>5. SoFar(s, Len(s)) = S
  BY <1>1, <1>2 DEF SoFar
<1>6. ASSUME NEW i \in 1 .. Len(s)
      PROVE  s[i] \notin SoFar(s, i - 1) /\ SoFar(s, i) = SoFar(s, i - 1) \cup {s[i]}
  <2>1. \A j \in 1 .. i - 1 : j \in 1 .. Len(s) /\ j # i
    BY <1>1
  <2>2. s[i] \notin SoFar(s, i - 1)
    BY <1>1, <2>1 DEF SoFar
  <2>3. \A j : j \in 1 .. i <=> j \in 1 .. i - 1 \/ j = i
    BY <1>1
  <2>4. SoFar(s, i) = SoFar(s, i - 1) \cup {s[i]}
    BY <2>3 DEF SoFar
  <2> QED BY <2>2, <2>4
<1> QED
  BY <1>1, <1>2, <1>3, <1>4, <1>5, <1>6

\* Entries that can be replayed in every order.
LEMMA ReplayedEach ==
    ASSUME NEW S \in SUBSET Entries, IsFiniteSet(S), NEW g,
           \A T \in SUBSET S : Sound(g[T]),
           \A T \in SUBSET S : \A x \in S \ T : g[T \cup {x}] = Applied(g[T], x)
    PROVE  Replayed(SetToSeq(S), g[{}], g[S])
<1> DEFINE s == SetToSeq(S)
           f == [i \in 0 .. Len(s) |-> g[SoFar(s, i)]]
<1>1. /\ s \in Seq(S) /\ Len(s) \in Nat
      /\ SoFar(s, 0) = {}
      /\ SoFar(s, Len(s)) = S
      /\ \A i \in 0 .. Len(s) : SoFar(s, i) \in SUBSET S
      /\ \A i \in 1 .. Len(s) :
            /\ s[i] \in S \ SoFar(s, i - 1)
            /\ SoFar(s, i) = SoFar(s, i - 1) \cup {s[i]}
  BY SoFarGrows
<1>2. \A i \in 0 .. Len(s) : f[i] = g[SoFar(s, i)]
  OBVIOUS
<1> HIDE DEF s, f
<1>3. f[0] = g[{}] /\ f[Len(s)] = g[S]
  <2>1. 0 \in 0 .. Len(s) /\ Len(s) \in 0 .. Len(s)
    BY <1>1
  <2>2. f[0] = g[SoFar(s, 0)] /\ f[Len(s)] = g[SoFar(s, Len(s))]
    BY <1>2, <2>1
  <2> QED BY <1>1, <2>2
<1>4. ASSUME NEW i \in 0 .. Len(s)
      PROVE  Sound(f[i])
  <2>1. SoFar(s, i) \in SUBSET S
    BY <1>1
  <2> QED BY <1>2, <2>1
<1>5. \A i \in 1 .. Len(s) : f[i] = Applied(f[i-1], s[i])
  <2>1. TAKE i \in 1 .. Len(s)
  <2>2. i \in 0 .. Len(s) /\ i - 1 \in 0 .. Len(s)
    BY <1>1
  <2>3. /\ SoFar(s, i - 1) \in SUBSET S /\ s[i] \in S \ SoFar(s, i - 1)
        /\ SoFar(s, i) = SoFar(s, i - 1) \cup {s[i]}
    BY <1>1, <2>2
  <2>4. g[SoFar(s, i - 1) \cup {s[i]}] = Applied(g[SoFar(s, i - 1)], s[i])
    BY <2>3
  <2> QED BY <1>2, <2>2, <2>3, <2>4
<1>6. s \in Seq(Entries)
  BY <1>1
<1>7. Leads(f, s, g[{}], g[S])
  BY <1>3, <1>4, <1>5 DEF Leads
<1>8. Replayed(s, g[{}], g[S])
  BY <1>6, <1>7 DEF Replayed
<1> QED
  BY <1>8 DEF s

LEMMA EachNone ==
    ASSUME NEW f, DOMAIN f = {}
    PROVE  Each(f) = <<>>
<1>1. Each(f) = SetToSeq({})
  BY DEF Each
<1>2. SetToSeq({}) \in Seq({}) /\ Len(SetToSeq({})) = 0
  BY ListedOnce, FS_EmptySet
<1> QED
  BY <1>1, <1>2

LEMMA EachOne ==
    ASSUME NEW f, NEW x, \E k \in DOMAIN f : TRUE, \A k \in DOMAIN f : f[k] = x
    PROVE  Each(f) = <<x>>
<1>1. Each(f) = SetToSeq({x})
  BY DEF Each
<1>2. SetToSeq({x}) \in Seq({x}) /\ Len(SetToSeq({x})) = 1
  BY ListedOnce, FS_Singleton
<1>3. SetToSeq({x})[1] = x
  BY <1>2
<1> QED
  BY <1>1, <1>2, <1>3

\* Lists that can be replayed in every order.
LEMMA ReplayedJoined ==
    ASSUME NEW f, f = [k \in DOMAIN f |-> f[k]], IsFiniteSet(DOMAIN f), NEW g, Sound(g[{}]),
           \A T \in SUBSET DOMAIN f : \A k \in DOMAIN f \ T : Replayed(f[k], g[T], g[T \cup {k}])
    PROVE  Replayed(Joined(f), g[{}], g[DOMAIN f])
<1> DEFINE S == DOMAIN f
           s == SetToSeq(S)
           n == Cardinality(S)
           lists == [i \in 1 .. n |-> f[s[i]]]
<1>1. /\ s \in Seq(S) /\ n \in Nat /\ Len(s) = n
      /\ SoFar(s, 0) = {}
      /\ SoFar(s, n) = S
      /\ \A i \in 0 .. n : SoFar(s, i) \in SUBSET S
      /\ \A i \in 1 .. n :
            /\ s[i] \in S \ SoFar(s, i - 1)
            /\ SoFar(s, i) = SoFar(s, i - 1) \cup {s[i]}
  BY SoFarGrows
<1>2. Joined(f) = FlattenSeq(lists)
  BY DEF Joined
<1> HIDE DEF s, n
<1>3. Len(lists) = n /\ \A i \in 1 .. n : lists[i] = f[s[i]]
  BY <1>1
<1> HIDE DEF lists
<1>4. ASSUME NEW i \in 1 .. n
      PROVE  Replayed(lists[i], g[SoFar(s, i - 1)], g[SoFar(s, i)])
  <2>1. i - 1 \in 0 .. n
    BY <1>1
  <2>2. SoFar(s, i - 1) \in SUBSET S /\ s[i] \in S \ SoFar(s, i - 1)
    BY <1>1, <2>1
  <2> QED BY <1>1, <1>3, <2>2
<1>5. CASE n = 0
  <2>1. FlattenSeq(lists) = <<>>
    BY <1>3, <1>5 DEF FlattenSeq, lists
  <2> QED BY <1>1, <1>2, <1>5, <2>1, ReplayedNone
<1>6. CASE n # 0
  <2> DEFINE F == CHOOSE h : RunningJoins(lists, h, n)
             Bad == {i \in 1 .. n : ~Replayed(F[i], g[{}], g[SoFar(s, i)])}
  <2>1. FlattenSeq(lists) = F[n]
    BY <1>3, <1>6 DEF FlattenSeq, RunningJoins
  <2>2. \A i \in 1 .. n : F[i] = IF i = 1 THEN lists[i] ELSE F[i-1] \o lists[i]
    <3>1. RunningJoins(lists, F, n)
      BY <1>1, RunningJoinsExist
    <3> HIDE DEF F
    <3> QED BY <3>1 DEF RunningJoins
  <2> HIDE DEF F
  <2>3. ASSUME Bad # {} PROVE FALSE
    <3>1. PICK i \in Bad : \A j \in Bad : i <= j
      <4>1. Bad \in SUBSET Nat
        BY <1>1
      <4> HIDE DEF Bad
      <4> QED BY <2>3, <4>1, LeastNatural
    <3>2. i \in 1 .. n /\ i \in Nat /\ ~Replayed(F[i], g[{}], g[SoFar(s, i)])
      BY <1>1, <3>1
    <3>3. i # 1
      <4>1. SUFFICES ASSUME i = 1 PROVE FALSE
        OBVIOUS
      <4>2. F[i] = lists[i] /\ i - 1 = 0
        BY <2>2, <3>2, <4>1
      <4>3. Replayed(lists[i], g[SoFar(s, i - 1)], g[SoFar(s, i)])
        BY <1>4, <3>2
      <4> QED BY <1>1, <3>2, <4>2, <4>3
    <3>4. i - 1 \in 1 .. n /\ ~(i <= i - 1)
      BY <1>1, <3>2, <3>3
    <3>5. Replayed(F[i-1], g[{}], g[SoFar(s, i - 1)])
      BY <3>1, <3>4
    <3>6. F[i] = F[i-1] \o lists[i]
      BY <2>2, <3>2, <3>3
    <3>7. Replayed(lists[i], g[SoFar(s, i - 1)], g[SoFar(s, i)])
      BY <1>4, <3>2
    <3> QED BY <3>2, <3>5, <3>6, <3>7, ReplayedBoth
  <2>4. n \in 1 .. n
    BY <1>1, <1>6
  <2> QED BY <1>1, <1>2, <2>1, <2>3, <2>4
<1> QED
  BY <1>5, <1>6

\* Reviews that are told of one by one.
Rewritten(store, R, new) ==
    [store EXCEPT !.reviews = [r \in DOMAIN store.reviews |->
                                 IF r \in R THEN new[r] ELSE store.reviews[r]]]

LEMMA RewrittenFields ==
    ASSUME NEW store, Sound(store), NEW R, NEW new
    PROVE  LET nxt == Rewritten(store, R, new) IN
           /\ Shape(nxt)
           /\ nxt.epoch = store.epoch /\ nxt.targets = store.targets
           /\ nxt.critics = store.critics /\ nxt.workers = store.workers
           /\ nxt.incumbents = store.incumbents
           /\ nxt.reviews = [r \in DOMAIN store.reviews |->
                               IF r \in R THEN new[r] ELSE store.reviews[r]]
<1> DEFINE revs == [r \in DOMAIN store.reviews |-> IF r \in R THEN new[r] ELSE store.reviews[r]]
<1>1. Rewritten(store, R, new) = [store EXCEPT !.reviews = revs]
  BY DEF Rewritten
<1> HIDE DEF revs
<1>2. /\ [store EXCEPT !.reviews = revs].reviews = revs
      /\ Shape([store EXCEPT !.reviews = revs])
  BY DEF Sound, Shape
<1> QED
  BY <1>1, <1>2 DEF Sound, Shape, revs

LEMMA RewrittenSound ==
    ASSUME NEW store, Sound(store), NEW R, NEW new,
           \A r \in R \cap DOMAIN store.reviews : Kempt(new[r], DOMAIN store.critics)
    PROVE  Sound(Rewritten(store, R, new))
<1> DEFINE nxt == Rewritten(store, R, new)
<1>1. /\ Shape(nxt) /\ nxt.critics = store.critics /\ nxt.workers = store.workers
      /\ nxt.reviews = [r \in DOMAIN store.reviews |->
                          IF r \in R THEN new[r] ELSE store.reviews[r]]
  BY RewrittenFields
<1> HIDE DEF nxt
<1>2. /\ DOMAIN nxt.reviews = DOMAIN store.reviews
      /\ \A r \in DOMAIN nxt.reviews :
            nxt.reviews[r] = IF r \in R THEN new[r] ELSE store.reviews[r]
  BY <1>1
<1>3. \A r \in DOMAIN nxt.reviews : Kempt(nxt.reviews[r], DOMAIN nxt.critics)
  BY <1>1, <1>2 DEF Sound
<1>4. \A w \in DOMAIN nxt.workers : nxt.workers[w].critic \in DOMAIN nxt.critics
  BY <1>1 DEF Sound
<1>5. nxt.reviews = [r \in DOMAIN nxt.reviews |-> nxt.reviews[r]]
  BY <1>1
<1>6. Sound(nxt)
  BY <1>1, <1>3, <1>4, <1>5 DEF Sound
<1> QED
  BY <1>6 DEF nxt

LEMMA JoinedTold ==
    ASSUME NEW f, f = [r \in DOMAIN f |-> f[r]], IsFiniteSet(DOMAIN f),
           NEW store, Sound(store), DOMAIN critics \subseteq DOMAIN store.critics,
           DOMAIN f \subseteq DOMAIN store.reviews, NEW new,
           \A r \in DOMAIN f : Kempt(new[r], DOMAIN critics),
           \A r \in DOMAIN f : Told(f[r], r, store.reviews[r], new[r])
    PROVE  Replayed(Joined(f), store, Rewritten(store, DOMAIN f, new))
<1> DEFINE g == [T \in SUBSET DOMAIN f |-> Rewritten(store, T, new)]
<1>1. ASSUME NEW T \in SUBSET DOMAIN f
      PROVE  g[T] = Rewritten(store, T, new) /\ Sound(g[T])
  BY RewrittenSound, KemptMore
<1>2. g[{}] = store
  <2>1. [r \in DOMAIN store.reviews |-> IF r \in {} THEN new[r] ELSE store.reviews[r]]
           = store.reviews
    BY DEF Sound
  <2>2. {} \in SUBSET DOMAIN f /\ g[{}] = Rewritten(store, {}, new)
    OBVIOUS
  <2>3. Rewritten(store, {}, new) = store
    BY <2>1, RewrittenFields, SameStore DEF Sound
  <2> QED BY <2>2, <2>3
<1>3. ASSUME NEW T \in SUBSET DOMAIN f, NEW r \in DOMAIN f \ T
      PROVE  Replayed(f[r], g[T], g[T \cup {r}])
  <2> DEFINE a == Rewritten(store, T, new)
             b == Rewritten(store, T \cup {r}, new)
             c == With(a, r, new[r])
  <2>1. g[T] = a /\ g[T \cup {r}] = b /\ Sound(a)
    BY <1>1
  <2>2. /\ Shape(a) /\ a.epoch = store.epoch /\ a.targets = store.targets
        /\ a.critics = store.critics /\ a.workers = store.workers
        /\ a.incumbents = store.incumbents
        /\ a.reviews = [q \in DOMAIN store.reviews |->
                          IF q \in T THEN new[q] ELSE store.reviews[q]]
    BY RewrittenFields
  <2>3. /\ Shape(b) /\ b.epoch = store.epoch /\ b.targets = store.targets
        /\ b.critics = store.critics /\ b.workers = store.workers
        /\ b.incumbents = store.incumbents
        /\ b.reviews = [q \in DOMAIN store.reviews |->
                          IF q \in T \cup {r} THEN new[q] ELSE store.reviews[q]]
    BY RewrittenFields
  <2> HIDE DEF a, b, g
  <2>4. r \in DOMAIN a.reviews /\ a.reviews[r] = store.reviews[r]
    BY <2>2
  <2>5. Replayed(f[r], a, c)
    BY <2>1, <2>2, <2>4 DEF Told
  <2>6. /\ Shape(c) /\ c.epoch = a.epoch /\ c.targets = a.targets
        /\ c.critics = a.critics /\ c.workers = a.workers
        /\ c.incumbents = a.incumbents
        /\ c.reviews = [a.reviews EXCEPT ![r] = new[r]]
    BY <2>1, <2>4, WithFields, WithReviews
  <2> HIDE DEF c
  <2>7. c.reviews = b.reviews
    BY <2>2, <2>3, <2>6
  <2>8. c = b
    BY <2>2, <2>3, <2>6, <2>7, SameStore
  <2> QED BY <2>1, <2>5, <2>8
<1>4. g[DOMAIN f] = Rewritten(store, DOMAIN f, new)
  OBVIOUS
<1> HIDE DEF g
<1>5. \A T \in SUBSET DOMAIN f : \A r \in DOMAIN f \ T : Replayed(f[r], g[T], g[T \cup {r}])
  BY <1>3
<1>6. Replayed(Joined(f), g[{}], g[DOMAIN f])
  BY <1>2, <1>5, ReplayedJoined
<1> QED
  BY <1>2, <1>4, <1>6

\* Entries about one review that can be replayed in every order.
LEMMA ToldEach ==
    ASSUME NEW r, NEW S \in SUBSET (Amendment \cup Ruling), IsFiniteSet(S),
           \A x \in S : x.id = r, NEW g,
           \A T \in SUBSET S : Kempt(g[T], DOMAIN critics),
           \A T \in SUBSET S : \A x \in S \ T : g[T \cup {x}] = Amended(g[T], x)
    PROVE  Told(SetToSeq(S), r, g[{}], g[S])
<1> SUFFICES ASSUME NEW store, Sound(store), DOMAIN critics \subseteq DOMAIN store.critics,
                    r \in DOMAIN store.reviews, store.reviews[r] = g[{}]
             PROVE  Replayed(SetToSeq(S), store, With(store, r, g[S]))
  BY DEF Told
<1> DEFINE G == [T \in SUBSET S |-> With(store, r, g[T])]
<1>1. S \in SUBSET Entries
  BY AmendmentKinds
<1>2. ASSUME NEW T \in SUBSET S
      PROVE  G[T] = With(store, r, g[T]) /\ Sound(G[T])
  <2>1. Kempt(g[T], DOMAIN store.critics)
    BY KemptMore
  <2> QED BY <2>1, WithSound
<1>3. ASSUME NEW T \in SUBSET S, NEW x \in S \ T
      PROVE  G[T \cup {x}] = Applied(G[T], x)
  <2> DEFINE mid == With(store, r, g[T])
  <2>1. mid.reviews[r] = g[T] /\ r \in DOMAIN mid.reviews /\ Sound(mid)
    <3>1. mid.reviews[r] = g[T] /\ DOMAIN mid.reviews = DOMAIN store.reviews
      BY WithFields
    <3>2. G[T] = mid /\ Sound(G[T])
      BY <1>2
    <3> HIDE DEF mid, G
    <3> QED BY <3>1, <3>2
  <2>2. With(mid, r, g[T \cup {x}]) = With(store, r, g[T \cup {x}])
    BY WithTwice
  <2>3. g[T \cup {x}] = Amended(g[T], x) /\ x \in Amendment \cup Ruling /\ x.id = r
    OBVIOUS
  <2>4. G[T] = mid /\ G[T \cup {x}] = With(store, r, g[T \cup {x}])
    OBVIOUS
  <2> HIDE DEF mid, G
  <2>5. Applied(mid, x) = With(mid, r, Amended(g[T], x))
    BY <2>1, <2>3, AmendedStore
  <2> QED BY <2>2, <2>3, <2>4, <2>5
<1>4. G[{}] = store
  BY WithTwice
<1>5. G[S] = With(store, r, g[S])
  OBVIOUS
<1> HIDE DEF G
<1>6. /\ \A T \in SUBSET S : Sound(G[T])
      /\ \A T \in SUBSET S : \A x \in S \ T : G[T \cup {x}] = Applied(G[T], x)
  BY <1>2, <1>3
<1>7. Replayed(SetToSeq(S), G[{}], G[S])
  BY <1>1, <1>6, ReplayedEach
<1> QED
  BY <1>4, <1>5, <1>7

-----------------------------------------------------------------------------
(* Seats that are taken away.                                              *)

\* The seats of a review without those of X.
Seats(rev, X) == {IF a \in X THEN [a EXCEPT !.active = FALSE] ELSE a : a \in rev.assignments}

SeatsLeft(base, rev, X) == [base EXCEPT !.assignments = Seats(rev, X)]

SeatUpdate(r, a) == Entry("AssignmentUpdated", r, [a EXCEPT !.active = FALSE])

LEMMA SeatsKempt ==
    ASSUME NEW rev, NEW D, Kempt(rev, D), NEW base, Kempt(base, D), NEW X
    PROVE  /\ Kempt([base EXCEPT !.assignments = Seats(rev, X)], D)
           /\ Seats(rev, {}) = rev.assignments
<1> DEFINE T == Seats(rev, X)
           new == [base EXCEPT !.assignments = T]
<1>1. rev \in Review /\ rev.assignments \in SUBSET Assignment /\ base \in Review
  BY DEF Kempt, Review
<1>2. T \in SUBSET Assignment
  BY <1>1 DEF Seats, Assignment
<1>3. Seated(T)
  BY <1>1, RetiredSeats DEF Seats, Kempt
<1>4. \A a \in T : a.critic \in D
  <2>1. \A a \in Assignment : [a EXCEPT !.active = FALSE].critic = a.critic
    BY DEF Assignment
  <2> QED BY <1>1, <2>1 DEF Seats, Kempt
<1> HIDE DEF T
<1>5. /\ new \in Review /\ new.assignments = T /\ new.findings = base.findings
      /\ new.evidences = base.evidences /\ new.challenges = base.challenges
  BY <1>1, <1>2 DEF Review
<1>6. Kempt(new, D)
  <2> HIDE DEF new
  <2> QED BY <1>3, <1>4, <1>5 DEF Kempt
<1>7. Seats(rev, {}) = rev.assignments
  BY DEF Seats
<1> QED
  BY <1>6, <1>7 DEF T

\* Updating one more seat takes it away.
LEMMA SeatUpdated ==
    ASSUME NEW rev, NEW D, Kempt(rev, D), NEW base \in Review, NEW r,
           NEW X, base.assignments = Seats(rev, X), NEW a \in rev.assignments
    PROVE  Amended(base, SeatUpdate(r, a)) = SeatsLeft(base, rev, X \cup {a})
<1> DEFINE x == SeatUpdate(r, a)
           off == [a EXCEPT !.active = FALSE]
           S == {IF b.critic = off.critic /\ b.ordinal = off.ordinal THEN off ELSE b
                   : b \in base.assignments}
<1>1. x.type = "AssignmentUpdated" /\ x.value = off
  BY DEF SeatUpdate, Entry
<1>2. Amended(base, x) = [base EXCEPT !.assignments = S]
  <2> HIDE DEF x, off
  <2> QED BY <1>1 DEF Amended
<1>3. rev.assignments \in SUBSET Assignment
  BY DEF Kempt, Review
<1> DEFINE F == [b \in rev.assignments |-> IF b \in X THEN [b EXCEPT !.active = FALSE] ELSE b]
           G == [b \in rev.assignments |->
                   IF b \in X \cup {a} THEN [b EXCEPT !.active = FALSE] ELSE b]
<1>4. off.critic = a.critic /\ off.ordinal = a.ordinal
  BY <1>3 DEF Assignment
<1>5. \A b \in rev.assignments : F[b].critic = b.critic /\ F[b].ordinal = b.ordinal
  BY <1>3 DEF Assignment
<1>6. \A b \in rev.assignments : b.critic = a.critic /\ b.ordinal = a.ordinal => b = a
  BY DEF Kempt, Seated, SeatsNumbered
<1>7. base.assignments = {F[b] : b \in rev.assignments}
  BY DEF Seats
<1>8. Seats(rev, X \cup {a}) = {G[b] : b \in rev.assignments}
  BY DEF Seats
<1>9. G[a] = off /\ \A b \in rev.assignments : b # a => G[b] = F[b]
  OBVIOUS
<1> HIDE DEF F, G, off
<1>10. \A b \in rev.assignments :
          (IF F[b].critic = off.critic /\ F[b].ordinal = off.ordinal THEN off ELSE F[b]) = G[b]
  BY <1>4, <1>5, <1>6, <1>9
<1>11. S = {G[b] : b \in rev.assignments}
  BY <1>7, <1>10
<1> HIDE DEF S, x
<1> QED
  BY <1>2, <1>8, <1>11 DEF x, SeatsLeft

\* The updates of the seats A, in whatever order, take these seats away.
LEMMA VacatedTold ==
    ASSUME NEW rev, Kempt(rev, DOMAIN critics), NEW base, Kempt(base, DOMAIN critics),
           NEW X, base.assignments = Seats(rev, X), NEW A \in SUBSET rev.assignments,
           NEW r \in Requests
    PROVE  Told(Each([a \in A |-> SeatUpdate(r, a)]), r, base,
                [base EXCEPT !.assignments = Seats(rev, X \cup A)])
<1> DEFINE S == {SeatUpdate(r, a) : a \in A}
           Gone(T) == {a \in A : SeatUpdate(r, a) \in T}
           g == [T \in SUBSET S |-> [base EXCEPT !.assignments = Seats(rev, X \cup Gone(T))]]
<1>1. /\ rev \in Review /\ base \in Review /\ FiniteRecords(rev)
      /\ rev.assignments \in SUBSET Assignment
  BY KemptRecords DEF Kempt, Review
<1>2. ASSUME NEW a \in A
      PROVE  SeatUpdate(r, a) \in Amendment \cup Ruling /\ SeatUpdate(r, a).id = r
  <2>1. [a EXCEPT !.active = FALSE] \in Assignment
    BY <1>1 DEF Assignment
  <2> QED BY <2>1 DEF SeatUpdate, Entry, Amendment, About
<1>3. S \in SUBSET (Amendment \cup Ruling) /\ \A x \in S : x.id = r
  BY <1>2
<1>4. IsFiniteSet(S)
  <2>1. IsFiniteSet(A)
    BY <1>1, FS_Subset DEF FiniteRecords
  <2> DEFINE f == [a \in A |-> SeatUpdate(r, a)]
  <2>2. f = [a \in A |-> f[a]] /\ S = {f[a] : a \in A}
    OBVIOUS
  <2> HIDE DEF f, S
  <2> QED BY <2>1, <2>2, FiniteImage
<1>5. \A T \in SUBSET S : g[T] = [base EXCEPT !.assignments = Seats(rev, X \cup Gone(T))]
  OBVIOUS
<1>6. ASSUME NEW T \in SUBSET S
      PROVE  Kempt(g[T], DOMAIN critics)
  BY <1>5, SeatsKempt
<1>7. ASSUME NEW a \in A, NEW b \in A, SeatUpdate(r, a) = SeatUpdate(r, b)
      PROVE  a = b
  <2>1. [a EXCEPT !.active = FALSE] = [b EXCEPT !.active = FALSE]
    BY <1>7 DEF SeatUpdate, Entry
  <2>2. a.critic = b.critic /\ a.ordinal = b.ordinal
    BY <1>1, <2>1 DEF Assignment
  <2> QED BY <2>2 DEF Kempt, Seated, SeatsNumbered
<1>8. ASSUME NEW T \in SUBSET S, NEW x \in S \ T
      PROVE  g[T \cup {x}] = Amended(g[T], x)
  <2>1. PICK a \in A : x = SeatUpdate(r, a)
    OBVIOUS
  <2>2. Gone(T \cup {x}) = Gone(T) \cup {a}
    BY <1>7, <2>1
  <2>3. T \cup {x} \in SUBSET S
    OBVIOUS
  <2> DEFINE mid == g[T]
             now == X \cup Gone(T)
  <2>4. /\ mid = [base EXCEPT !.assignments = Seats(rev, now)]
        /\ g[T \cup {x}] = [base EXCEPT !.assignments = Seats(rev, now \cup {a})]
    <3>1. X \cup Gone(T \cup {x}) = now \cup {a}
      BY <2>2
    <3> HIDE DEF Gone, g
    <3> QED BY <1>5, <2>3, <3>1
  <2>5. mid \in Review
    BY <1>6 DEF Kempt
  <2> HIDE DEF g, Gone, mid, now
  <2>6. mid.assignments = Seats(rev, now)
    BY <1>1, <2>4 DEF Review
  <2>7. Amended(mid, x) = [mid EXCEPT !.assignments = Seats(rev, now \cup {a})]
    <3>1. a \in rev.assignments
      OBVIOUS
    <3>2. Amended(mid, SeatUpdate(r, a)) = SeatsLeft(mid, rev, now \cup {a})
      BY <2>5, <2>6, <3>1, SeatUpdated
    <3> QED BY <2>1, <3>2 DEF SeatsLeft
  <2>8. [mid EXCEPT !.assignments = Seats(rev, now \cup {a})]
          = [base EXCEPT !.assignments = Seats(rev, now \cup {a})]
    BY <1>1, <2>4 DEF Review
  <2> QED BY <2>4, <2>7, <2>8 DEF mid
<1>9. g[{}] = base
  <2>1. Gone({}) = {} /\ X \cup {} = X
    OBVIOUS
  <2>2. g[{}] = [base EXCEPT !.assignments = Seats(rev, X)]
    BY <1>5, <2>1
  <2> HIDE DEF g
  <2> QED BY <1>1, <2>2 DEF Review
<1>10. g[S] = [base EXCEPT !.assignments = Seats(rev, X \cup A)]
  <2>1. Gone(S) = A
    OBVIOUS
  <2> HIDE DEF Gone
  <2> QED BY <1>5, <2>1
<1>11. Each([a \in A |-> SeatUpdate(r, a)]) = SetToSeq(S)
  BY DEF Each
<1> HIDE DEF S, g
<1>12. /\ \A T \in SUBSET S : Kempt(g[T], DOMAIN critics)
       /\ \A T \in SUBSET S : \A x \in S \ T : g[T \cup {x}] = Amended(g[T], x)
  BY <1>6, <1>8
<1>13. Told(SetToSeq(S), r, g[{}], g[S])
  BY <1>3, <1>4, <1>12, ToldEach
<1> QED
  BY <1>9, <1>10, <1>11, <1>13

\* A review brought to the state of another.
Stated(mid, rev) ==
    [mid EXCEPT !.state = rev.state, !.disposition = rev.disposition,
                !.authorityCurrent = rev.authorityCurrent, !.roundsUsed = rev.roundsUsed]

LEMMA StateAmended ==
    ASSUME NEW mid, NEW r, NEW rev
    PROVE  Amended(mid, StateEntry(r, rev)) = Stated(mid, rev)
  BY DEF Amended, StateEntry, Entry, Stated

LEMMA StateFits ==
    ASSUME NEW a, NEW D, NEW r, NEW rev, StateEntry(r, rev) \in Amendment
    PROVE  Fits(a, D, StateEntry(r, rev)) /\ StateEntry(r, rev).id = r
  BY DEF Fits, StateEntry, Entry

LEMMA RetireKempt ==
    ASSUME NEW rev, NEW D, Kempt(rev, D), NEW R
    PROVE  Kempt(Retire(rev, R), D) /\ Retire(rev, R).assignments = Seats(rev, R)
<1> DEFINE mid == [rev EXCEPT !.assignments = Seats(rev, R)]
<1>1. rev \in Review
  BY DEF Kempt
<1>2. Kempt(mid, D) /\ Seats(rev, {}) = rev.assignments
  BY SeatsKempt
<1>3. CASE R = {}
  BY <1>2, <1>3 DEF Retire
<1>4. CASE R # {}
  <2>1. mid \in Review /\ mid.assignments = Seats(rev, R)
    BY <1>1, <1>2 DEF Kempt, Review
  <2>2. Retire(rev, R) = Revalidate(mid)
    BY <1>4 DEF Retire, Seats
  <2> HIDE DEF mid
  <2> DEFINE new == Revalidate(mid)
  <2>3. /\ new \in Review /\ new.assignments = mid.assignments
        /\ new.findings = mid.findings /\ new.evidences = mid.evidences
        /\ new.challenges = mid.challenges
    BY <2>1 DEF Revalidate, Review, ReviewStates, Dispositions
  <2> HIDE DEF new
  <2>4. Kempt(new, D)
    BY <1>2, <2>3 DEF Kempt
  <2> QED BY <2>1, <2>2, <2>3, <2>4 DEF new
<1> QED
  BY <1>3, <1>4

\* Taking the seats A away, from a review that has lost the seats R.
LEMMA RetiredTold ==
    ASSUME TypeOK, NEW r \in DOMAIN reviews, Kempt(reviews[r], DOMAIN critics),
           NEW R, NEW A \in SUBSET reviews[r].assignments
    PROVE  Told(RetiredEntries(r, A), r, Retire(reviews[r], R), Retire(reviews[r], R \cup A))
<1> DEFINE rev == reviews[r]
           base == Retire(rev, R)
           mid == [base EXCEPT !.assignments = Seats(rev, R \cup A)]
           new == Retire(rev, R \cup A)
           x == StateEntry(r, Revalidate(rev))
           updates == Each([a \in A |-> SeatUpdate(r, a)])
<1>1. rev \in Review /\ r \in Requests
  BY DEF TypeOK, ReviewsTypeOK, IsMap
<1>2. CASE A = {}
  <2>1. R \cup A = R /\ RetiredEntries(r, A) = <<>>
    BY <1>2 DEF RetiredEntries
  <2> QED BY <2>1, ToldNone
<1>3. CASE A # {}
  <2>1. Kempt(base, DOMAIN critics) /\ base.assignments = Seats(rev, R)
    BY RetireKempt
  <2>2. Told(updates, r, base, mid)
    BY <1>1, <2>1, VacatedTold
  <2>3. new = Revalidate([rev EXCEPT !.assignments = Seats(rev, R \cup A)])
    BY <1>3 DEF Retire, Seats
  <2>4. base = IF R = {} THEN rev ELSE Revalidate([rev EXCEPT !.assignments = Seats(rev, R)])
    BY DEF Retire, Seats
  <2>5. RetiredEntries(r, A) = updates \o (IF rev.state \in TerminalStates THEN <<>> ELSE <<x>>)
    BY <1>3 DEF RetiredEntries, SeatUpdate
  <2> HIDE DEF base, new, updates
  <2>6. CASE rev.state \in TerminalStates
    <3>1. mid = new
      BY <1>1, <2>3, <2>4, <2>6 DEF Revalidate, Review
    <3>2. RetiredEntries(r, A) = updates \o <<>>
      BY <2>5, <2>6
    <3>3. Told(<<>>, r, mid, mid)
      BY ToldNone
    <3> HIDE DEF mid
    <3> QED BY <2>2, <3>1, <3>2, <3>3, ToldBoth DEF base, new
  <2>7. CASE rev.state \notin TerminalStates
    <3>1. Amended(mid, x) = Stated(mid, Revalidate(rev))
      BY StateAmended
    <3>2. Amended(mid, x) = new
      <4> DEFINE U == Seats(rev, R \cup A)
                 V == Seats(rev, R)
                 W == "RevalidationRequired"
      <4>1. /\ Revalidate(rev).state = W /\ Revalidate(rev).disposition = W
            /\ Revalidate(rev).authorityCurrent = FALSE
            /\ Revalidate(rev).roundsUsed = rev.roundsUsed
        BY <1>1, <2>7 DEF Revalidate, Review
      <4>2. \A T : Revalidate([rev EXCEPT !.assignments = T]) =
                     [rev EXCEPT !.assignments = T, !.state = W, !.disposition = W,
                                 !.authorityCurrent = FALSE]
        BY <1>1, <2>7 DEF Revalidate, Review
      <4>3. new = [rev EXCEPT !.assignments = U, !.state = W, !.disposition = W,
                              !.authorityCurrent = FALSE]
        BY <2>3, <4>2
      <4>4. base = rev \/ base = [rev EXCEPT !.assignments = V, !.state = W, !.disposition = W,
                                             !.authorityCurrent = FALSE]
        BY <2>4, <4>2
      <4>5. mid = [base EXCEPT !.assignments = U]
        OBVIOUS
      <4>6. Stated(mid, Revalidate(rev)) =
              [mid EXCEPT !.state = W, !.disposition = W, !.authorityCurrent = FALSE,
                          !.roundsUsed = rev.roundsUsed]
        BY <4>1 DEF Stated
      <4>7. rev \in Review
        BY <1>1
      <4> HIDE DEF mid, x, U, V, rev
      <4>8. CASE base = rev
        <5>1. [rev EXCEPT !.assignments = U, !.state = W, !.disposition = W,
                          !.authorityCurrent = FALSE, !.roundsUsed = rev.roundsUsed] = new
          BY <4>3, <4>7 DEF Review
        <5> QED BY <3>1, <4>5, <4>6, <4>7, <4>8, <5>1 DEF Review
      <4>9. CASE base # rev
        <5>1. base = [rev EXCEPT !.assignments = V, !.state = W, !.disposition = W,
                                 !.authorityCurrent = FALSE]
          BY <4>4, <4>9
        <5>2. mid = [rev EXCEPT !.assignments = U, !.state = W, !.disposition = W,
                                !.authorityCurrent = FALSE]
          BY <4>5, <4>7, <5>1 DEF Review
        <5>3. mid = new
          BY <4>3, <5>2
        <5> QED BY <3>1, <4>6, <4>7, <5>2, <5>3 DEF Review
      <4> QED BY <4>8, <4>9
    <3>3. x \in Amendment
      BY WithdrawalEntries
    <3>4. Told(<<x>>, r, mid, new)
      BY <3>2, <3>3, StateFits, ToldOne
    <3>5. RetiredEntries(r, A) = updates \o <<x>>
      BY <2>5, <2>7
    <3> HIDE DEF mid, x
    <3> QED BY <2>2, <3>4, <3>5, ToldBoth DEF base, new
  <2> QED BY <2>6, <2>7
<1> QED
  BY <1>2, <1>3

-----------------------------------------------------------------------------
(* Fences.                                                                 *)

\* Lists none of which says anything, and one list alone.
LEMMA JoinedNothing ==
    ASSUME NEW f, f = [k \in DOMAIN f |-> f[k]], IsFiniteSet(DOMAIN f),
           \A k \in DOMAIN f : f[k] = <<>>, NEW store, Sound(store)
    PROVE  Replayed(Joined(f), store, store)
<1> DEFINE g == [T \in SUBSET DOMAIN f |-> store]
<1>1. \A T \in SUBSET DOMAIN f : g[T] = store /\ \A k \in DOMAIN f \ T : g[T \cup {k}] = store
  OBVIOUS
<1>2. g[{}] = store /\ g[DOMAIN f] = store
  OBVIOUS
<1> HIDE DEF g
<1>3. \A T \in SUBSET DOMAIN f : \A k \in DOMAIN f \ T : Replayed(f[k], g[T], g[T \cup {k}])
  BY <1>1, ReplayedNone
<1>4. Replayed(Joined(f), g[{}], g[DOMAIN f])
  BY <1>2, <1>3, ReplayedJoined
<1> QED
  BY <1>2, <1>4

LEMMA JoinedAlone ==
    ASSUME NEW f, f = [k \in DOMAIN f |-> f[k]], NEW c, DOMAIN f = {c},
           NEW old, NEW new, Replayed(f[c], old, new)
    PROVE  Replayed(Joined(f), old, new)
<1> DEFINE g == [T \in SUBSET {c} |-> IF T = {} THEN old ELSE new]
<1>1. g[{}] = old /\ g[{c}] = new
  OBVIOUS
<1>2. Sound(old)
  BY ReplayedSound
<1> HIDE DEF g
<1>3. ASSUME NEW T \in SUBSET DOMAIN f, NEW k \in DOMAIN f \ T
      PROVE  Replayed(f[k], g[T], g[T \cup {k}])
  <2>1. k = c /\ T = {} /\ T \cup {k} = {c}
    OBVIOUS
  <2> QED BY <1>1, <2>1
<1>4. IsFiniteSet(DOMAIN f)
  BY FS_Singleton
<1>5. Replayed(Joined(f), g[{}], g[DOMAIN f])
  BY <1>1, <1>2, <1>3, <1>4, ReplayedJoined
<1> QED
  BY <1>1, <1>5

\* Entries that are not about a review.
LEMMA AppliedGlobal ==
    ASSUME NEW store, Shape(store), NEW x, x.type \in Global \cup {"ReviewDeclared"}
    PROVE  LET new == Applied(store, x) IN
           /\ Shape(new)
           /\ new.epoch = IF x.type = "EpochEstablished" THEN x.value ELSE store.epoch
           /\ new.targets = IF x.type = "TargetRegistered" THEN Put(store.targets, x.id, x.value)
                            ELSE store.targets
           /\ new.critics = IF x.type = "CriticRegistered" THEN Put(store.critics, x.id, x.value)
                            ELSE store.critics
           /\ new.workers = IF x.type = "WorkerRegistered" THEN Put(store.workers, x.id, x.value)
                            ELSE store.workers
           /\ new.incumbents =
                IF x.type = "WorkerRegistered"
                THEN Heir(store.incumbents, x.value.critic, x.id, Put(store.workers, x.id, x.value))
                ELSE store.incumbents
           /\ new.reviews = IF x.type = "ReviewDeclared" THEN Put(store.reviews, x.id, x.value)
                            ELSE store.reviews
<1> DEFINE new == Applied(store, x)
<1>1. new.reviews = IF x.type = "ReviewDeclared" THEN Put(store.reviews, x.id, x.value)
                    ELSE IF x.type \in Global \/ x.id \notin DOMAIN store.reviews THEN store.reviews
                    ELSE [store.reviews EXCEPT ![x.id] = Amended(@, x)]
  BY AppliedFields
<1>2. new.reviews = IF x.type = "ReviewDeclared" THEN Put(store.reviews, x.id, x.value)
                    ELSE store.reviews
  BY <1>1
<1>3. /\ Shape(new)
      /\ new.epoch = IF x.type = "EpochEstablished" THEN x.value ELSE store.epoch
      /\ new.targets = IF x.type = "TargetRegistered" THEN Put(store.targets, x.id, x.value)
                       ELSE store.targets
      /\ new.critics = IF x.type = "CriticRegistered" THEN Put(store.critics, x.id, x.value)
                       ELSE store.critics
      /\ new.workers = IF x.type = "WorkerRegistered" THEN Put(store.workers, x.id, x.value)
                       ELSE store.workers
      /\ new.incumbents =
           IF x.type = "WorkerRegistered"
           THEN Heir(store.incumbents, x.value.critic, x.id, Put(store.workers, x.id, x.value))
           ELSE store.incumbents
      /\ new.reviews = IF x.type = "ReviewDeclared" THEN Put(store.reviews, x.id, x.value)
                       ELSE IF x.type \in Global \/ x.id \notin DOMAIN store.reviews THEN store.reviews
                       ELSE [store.reviews EXCEPT ![x.id] = Amended(@, x)]
  BY AppliedFields
<1> QED
  BY <1>2, <1>3

\* A store with the incumbents and the reviews of the memory, and its processes.
FenceBase(base) ==
    /\ Sound(base)
    /\ DOMAIN critics \subseteq DOMAIN base.critics
    /\ base.reviews = reviews
    /\ base.incumbents = incumbents
    /\ base.workers = [w \in DOMAIN workers |-> base.workers[w]]
    /\ \A w \in DOMAIN workers :
          /\ base.workers[w].bootOrder = workers[w].bootOrder
          /\ base.workers[w].critic = workers[w].critic

AllKempt == \A r \in DOMAIN reviews : Kempt(reviews[r], DOMAIN critics)

\* What is lost when the workers K are fenced, and the store that says so.
Lost(r, K) == UNION {GivenUp(r, w) : w \in Fenceable(K)}

FencedWorkers(base, K) ==
    [v \in DOMAIN workers |-> IF v \in Fenceable(K) THEN Silenced({v})[v] ELSE base.workers[v]]

FencedReviews(K) == [r \in DOMAIN reviews |-> Retire(reviews[r], Lost(r, K))]

Fenced(base, K) ==
    [epoch |-> base.epoch, targets |-> base.targets, critics |-> base.critics,
     workers |-> FencedWorkers(base, K), incumbents |-> incumbents, reviews |-> FencedReviews(K)]

LEMMA FencedFields ==
    ASSUME NEW base, FenceBase(base), NEW K
    PROVE  LET new == Fenced(base, K) IN
           /\ Shape(new)
           /\ new.epoch = base.epoch /\ new.targets = base.targets
           /\ new.critics = base.critics /\ new.incumbents = incumbents
           /\ new.workers = FencedWorkers(base, K)
           /\ new.reviews = FencedReviews(K)
  BY DEF Fenced, Shape

\* The record of a fenced worker is that worker's, and is silent.
LEMMA SilencedRecord ==
    ASSUME TypeOK, NEW w \in DOMAIN workers
    PROVE  LET v == Silenced({w})[w] IN
           /\ v = [workers[w] EXCEPT !.ready = FALSE, !.healthy = FALSE]
           /\ v \in Worker /\ v.critic = workers[w].critic
           /\ v.bootOrder = workers[w].bootOrder /\ ~v.ready /\ ~v.healthy
<1>1. workers[w] \in Worker
  BY DEF TypeOK, RegistryTypeOK, IsMap
<1>2. Silenced({w})[w] = [workers[w] EXCEPT !.ready = FALSE, !.healthy = FALSE]
  BY DEF Silenced
<1> QED
  BY <1>1, <1>2 DEF Worker

LEMMA FencedRecords ==
    ASSUME TypeOK, NEW base, FenceBase(base), NEW K
    PROVE  /\ DOMAIN FencedWorkers(base, K) = DOMAIN workers
           /\ \A w \in DOMAIN workers :
                 /\ FencedWorkers(base, K)[w].bootOrder = workers[w].bootOrder
                 /\ FencedWorkers(base, K)[w].critic = workers[w].critic
  BY SilencedRecord DEF FencedWorkers, FenceBase

LEMMA FencedSound ==
    ASSUME TypeOK, AllKempt, NEW base, FenceBase(base), NEW K
    PROVE  Sound(Fenced(base, K))
<1> DEFINE new == Fenced(base, K)
<1>1. /\ Shape(new) /\ new.critics = base.critics
      /\ new.workers = FencedWorkers(base, K) /\ new.reviews = FencedReviews(K)
  BY FencedFields
<1> HIDE DEF new
<1>2. /\ new.reviews = [r \in DOMAIN new.reviews |-> new.reviews[r]]
      /\ DOMAIN new.reviews = DOMAIN reviews
      /\ \A r \in DOMAIN reviews : new.reviews[r] = Retire(reviews[r], Lost(r, K))
  BY <1>1 DEF FencedReviews
<1>3. \A r \in DOMAIN reviews : Kempt(Retire(reviews[r], Lost(r, K)), DOMAIN base.critics)
  BY RetireKempt, KemptMore DEF AllKempt, FenceBase
<1>4. \A w \in DOMAIN workers : workers[w].critic \in DOMAIN base.critics
  BY DEF FenceBase, Sound
<1>5. \A w \in DOMAIN new.workers : new.workers[w].critic \in DOMAIN base.critics
  BY <1>1, <1>4, FencedRecords
<1>6. Sound(new)
  BY <1>1, <1>2, <1>3, <1>5 DEF Sound
<1> QED
  BY <1>6 DEF new

LEMMA FencedNone ==
    ASSUME NEW base, FenceBase(base)
    PROVE  Fenced(base, {}) = base
<1>1. Fenceable({}) = {}
  BY DEF Fenceable
<1>2. FencedWorkers(base, {}) = base.workers
  BY <1>1 DEF FencedWorkers, FenceBase
<1>3. \A r : Lost(r, {}) = {}
  BY <1>1 DEF Lost
<1>4. \A r \in DOMAIN reviews : Retire(reviews[r], Lost(r, {})) = reviews[r]
  BY <1>3 DEF Retire
<1>5. base.reviews = [r \in DOMAIN reviews |-> reviews[r]]
  BY DEF FenceBase, Sound
<1>6. FencedReviews({}) = base.reviews
  BY <1>4, <1>5 DEF FencedReviews
<1> QED
  BY <1>2, <1>6, FencedFields, SameStore DEF FenceBase, Sound

\* A worker that is not to be fenced changes nothing, and one that is adds to what is lost.
LEMMA OneMoreFenced ==
    ASSUME NEW w \in DOMAIN workers, NEW K
    PROVE  /\ Fenceable({w}) = {} => Fenceable(K \cup {w}) = Fenceable(K)
           /\ Fenceable({w}) # {} => /\ Fenceable(K \cup {w}) = Fenceable(K) \cup {w}
                                     /\ \A r : Lost(r, K \cup {w}) = Lost(r, K) \cup GivenUp(r, w)
<1>1. Fenceable({w}) = {} => Fenceable(K \cup {w}) = Fenceable(K)
  BY DEF Fenceable
<1>2. Fenceable({w}) # {} => Fenceable(K \cup {w}) = Fenceable(K) \cup {w}
  BY DEF Fenceable
<1>3. ASSUME Fenceable({w}) # {}, NEW r
      PROVE  Lost(r, K \cup {w}) = Lost(r, K) \cup GivenUp(r, w)
  BY <1>2, <1>3 DEF Lost
<1> QED
  BY <1>1, <1>2, <1>3

\* What is written of one fence leads from a store with the fences K to that with one more.
LEMMA FenceReplayed ==
    ASSUME TypeOK, RegistryInv, FiniteMaps, AllKempt, NEW base, FenceBase(base),
           NEW K, NEW w \in DOMAIN workers
    PROVE  Replayed(FenceEntries(w), Fenced(base, K), Fenced(base, K \cup {w}))
<1> DEFINE a == Fenced(base, K)
           b == Fenced(base, K \cup {w})
<1>1. Sound(a) /\ Sound(b)
  BY FencedSound
<1>2. CASE Fenceable({w}) = {}
  <2>1. Fenceable(K \cup {w}) = Fenceable(K)
    BY <1>2, OneMoreFenced
  <2>2. FencedWorkers(base, K \cup {w}) = FencedWorkers(base, K)
    BY <2>1 DEF FencedWorkers
  <2>3. \A r : Lost(r, K \cup {w}) = Lost(r, K)
    BY <2>1 DEF Lost
  <2>4. FencedReviews(K \cup {w}) = FencedReviews(K)
    BY <2>3 DEF FencedReviews
  <2>5. a = b
    BY <2>2, <2>4 DEF Fenced
  <2>6. FenceEntries(w) = <<>>
    BY <1>2 DEF FenceEntries
  <2> HIDE DEF a, b
  <2>7. Replayed(FenceEntries(w), a, b)
    BY <1>1, <2>5, <2>6, ReplayedNone
  <2> QED BY <2>7 DEF a, b
<1>3. CASE Fenceable({w}) # {}
  <2> DEFINE val == Silenced({w})[w]
             x == Entry("WorkerRegistered", w, val)
             mid == Applied(a, x)
             f == [r \in DOMAIN reviews |-> RetiredEntries(r, GivenUp(r, w))]
             new == [r \in DOMAIN reviews |-> Retire(reviews[r], Lost(r, K \cup {w}))]
  <2>1. /\ Fenceable(K \cup {w}) = Fenceable(K) \cup {w}
        /\ \A r : Lost(r, K \cup {w}) = Lost(r, K) \cup GivenUp(r, w)
    BY <1>3, OneMoreFenced
  <2>2. /\ val \in Worker /\ val.critic = workers[w].critic
        /\ val.bootOrder = workers[w].bootOrder
    BY SilencedRecord
  <2>3. x \in Entries /\ x.type = "WorkerRegistered" /\ x.id = w /\ x.value = val
    <3>1. w \in Workers
      BY DEF TypeOK, RegistryTypeOK, IsMap
    <3> HIDE DEF val
    <3> QED BY <2>2, <3>1 DEF Entry, Entries, Registration
  <2>4. /\ Shape(a) /\ a.epoch = base.epoch /\ a.targets = base.targets
        /\ a.critics = base.critics /\ a.incumbents = incumbents
        /\ a.workers = FencedWorkers(base, K) /\ a.reviews = FencedReviews(K)
    BY FencedFields
  <2>5. Put(FencedWorkers(base, K), w, val) = FencedWorkers(base, K \cup {w})
    <3> HIDE DEF a, x, val, mid, f, new
    <3> QED BY <2>1 DEF Put, FencedWorkers, val
  <2> HIDE DEF a, b, x, val
  <2>6. /\ Shape(mid) /\ mid.epoch = a.epoch /\ mid.targets = a.targets
        /\ mid.critics = a.critics /\ mid.workers = FencedWorkers(base, K \cup {w})
        /\ mid.incumbents = Heir(incumbents, val.critic, w, FencedWorkers(base, K \cup {w}))
        /\ mid.reviews = FencedReviews(K)
    <3> DEFINE ws == FencedWorkers(base, K \cup {w})
    <3>1. /\ Shape(mid) /\ mid.epoch = a.epoch /\ mid.targets = a.targets
          /\ mid.critics = a.critics /\ mid.workers = Put(a.workers, x.id, x.value)
          /\ mid.incumbents = Heir(a.incumbents, x.value.critic, x.id,
                                   Put(a.workers, x.id, x.value))
          /\ mid.reviews = a.reviews
      BY <2>3, <2>4, AppliedGlobal DEF Global
    <3> HIDE DEF mid
    <3> QED BY <2>3, <2>4, <2>5, <3>1
  <2>7. mid.incumbents = incumbents
    <3>1. /\ workers[w].critic \in DOMAIN incumbents
          /\ workers[w].bootOrder <= workers[incumbents[workers[w].critic]].bootOrder
      BY DEF RegistryInv, IncumbentIsNewest
    <3>2. incumbents[workers[w].critic] \in DOMAIN workers
      BY <3>1 DEF TypeOK, RegistryTypeOK, IsMap
    <3>3. /\ FencedWorkers(base, K \cup {w})[w].bootOrder = workers[w].bootOrder
          /\ FencedWorkers(base, K \cup {w})[incumbents[workers[w].critic]].bootOrder
               = workers[incumbents[workers[w].critic]].bootOrder
      BY <3>2, FencedRecords
    <3> QED BY <2>2, <2>6, <3>1, <3>3 DEF Heir
  <2>8. /\ Shape(b) /\ b.epoch = base.epoch /\ b.targets = base.targets
        /\ b.critics = base.critics /\ b.incumbents = incumbents
        /\ b.workers = FencedWorkers(base, K \cup {w}) /\ b.reviews = FencedReviews(K \cup {w})
    BY FencedFields DEF b
  <2> HIDE DEF mid
  <2>9. Sound(mid)
    BY <1>1, <2>4, <2>6, <2>8 DEF Sound
  <2>10. /\ f = [r \in DOMAIN f |-> f[r]] /\ DOMAIN f = DOMAIN reviews
         /\ \A r \in DOMAIN reviews : /\ f[r] = RetiredEntries(r, GivenUp(r, w))
                                      /\ new[r] = Retire(reviews[r], Lost(r, K \cup {w}))
    OBVIOUS
  <2> HIDE DEF f, new
  <2>11. DOMAIN mid.reviews = DOMAIN reviews /\ \A r \in DOMAIN reviews :
            mid.reviews[r] = Retire(reviews[r], Lost(r, K))
    BY <2>6 DEF FencedReviews
  <2>12. \A r \in DOMAIN f : Kempt(new[r], DOMAIN critics)
    BY <2>10, RetireKempt DEF AllKempt
  <2>13. \A r \in DOMAIN f : Told(f[r], r, mid.reviews[r], new[r])
    <3>1. \A r \in DOMAIN reviews : GivenUp(r, w) \in SUBSET reviews[r].assignments
      BY DEF GivenUp, Abandoned
    <3>2. \A r \in DOMAIN reviews :
             Told(RetiredEntries(r, GivenUp(r, w)), r, Retire(reviews[r], Lost(r, K)),
                  Retire(reviews[r], Lost(r, K) \cup GivenUp(r, w)))
      BY <3>1, RetiredTold DEF AllKempt
    <3> QED BY <2>1, <2>10, <2>11, <3>2
  <2>14. IsFiniteSet(DOMAIN f)
    BY <2>10 DEF FiniteMaps
  <2>15. Replayed(Joined(f), mid, Rewritten(mid, DOMAIN f, new))
    <3>1. DOMAIN critics \subseteq DOMAIN mid.critics
      BY <2>4, <2>6 DEF FenceBase
    <3> QED BY <2>9, <2>10, <2>11, <2>12, <2>13, <2>14, <3>1, JoinedTold
  <2>16. Rewritten(mid, DOMAIN f, new) = b
    <3> DEFINE c == Rewritten(mid, DOMAIN f, new)
    <3>1. /\ Shape(c) /\ c.epoch = mid.epoch /\ c.targets = mid.targets
          /\ c.critics = mid.critics /\ c.workers = mid.workers /\ c.incumbents = mid.incumbents
          /\ c.reviews = [r \in DOMAIN mid.reviews |->
                            IF r \in DOMAIN f THEN new[r] ELSE mid.reviews[r]]
      BY <2>9, RewrittenFields
    <3> HIDE DEF c
    <3>2. c.reviews = b.reviews
      BY <2>8, <2>10, <2>11, <3>1 DEF FencedReviews
    <3>3. c = b
      BY <2>4, <2>6, <2>7, <2>8, <3>1, <3>2, SameStore
    <3> QED BY <3>3 DEF c
  <2>17. Replayed(<<x>>, a, mid)
    BY <1>1, <2>3, <2>9, ReplayedOne DEF mid
  <2>18. FenceEntries(w) = <<x>> \o Joined(f)
    BY <1>3 DEF FenceEntries, GivenUp, f, x, val
  <2>19. Replayed(FenceEntries(w), a, b)
    BY <2>15, <2>16, <2>17, <2>18, ReplayedBoth
  <2> QED BY <2>19 DEF a, b
<1> QED
  BY <1>2, <1>3

\* Fences in whatever order.
LEMMA FencesReplayed ==
    ASSUME TypeOK, RegistryInv, FiniteMaps, AllKempt, NEW base, FenceBase(base),
           NEW K, NEW W \in SUBSET DOMAIN workers
    PROVE  Replayed(Joined([w \in W |-> FenceEntries(w)]), Fenced(base, K), Fenced(base, K \cup W))
<1> DEFINE f == [w \in W |-> FenceEntries(w)]
           g == [T \in SUBSET W |-> Fenced(base, K \cup T)]
<1>1. /\ f = [w \in DOMAIN f |-> f[w]] /\ DOMAIN f = W
      /\ \A w \in W : f[w] = FenceEntries(w)
  OBVIOUS
<1>2. g[{}] = Fenced(base, K) /\ g[W] = Fenced(base, K \cup W)
  <2>1. K \cup {} = K
    OBVIOUS
  <2> QED BY <2>1
<1>3. IsFiniteSet(W)
  BY FS_Subset DEF FiniteMaps
<1>4. Sound(g[{}])
  BY <1>2, FencedSound
<1>5. ASSUME NEW T \in SUBSET W, NEW w \in W \ T
      PROVE  Replayed(f[w], g[T], g[T \cup {w}])
  <2>1. g[T] = Fenced(base, K \cup T) /\ g[T \cup {w}] = Fenced(base, K \cup (T \cup {w}))
    OBVIOUS
  <2>2. K \cup (T \cup {w}) = (K \cup T) \cup {w}
    OBVIOUS
  <2> HIDE DEF f, g
  <2>3. Replayed(FenceEntries(w), Fenced(base, K \cup T), Fenced(base, (K \cup T) \cup {w}))
    BY FenceReplayed
  <2> QED BY <1>1, <2>1, <2>2, <2>3
<1> HIDE DEF f, g
<1>6. Replayed(Joined(f), g[{}], g[W])
  BY <1>1, <1>3, <1>4, <1>5, ReplayedJoined
<1> QED
  BY <1>2, <1>6 DEF f

-----------------------------------------------------------------------------
(* Blocks of a call that have nothing to say.                              *)

LEMMA JoinedEmpty ==
    ASSUME NEW f, f = [k \in DOMAIN f |-> f[k]], IsFiniteSet(DOMAIN f),
           \A k \in DOMAIN f : f[k] = <<>>
    PROVE  Joined(f) = <<>>
<1> DEFINE Q == {<<>>}
<1>1. \A k \in DOMAIN f : f[k] \in Q
  OBVIOUS
<1>2. <<>> \in Q /\ \A s, t \in Q : s \o t \in Q
  OBVIOUS
<1> HIDE DEF Q
<1>3. Joined(f) \in Q
  BY <1>1, <1>2, JoinedListed
<1> QED
  BY <1>3 DEF Q

LEMMA QuietTargets ==
    ASSUME UNCHANGED targets
    PROVE  TargetEntries = <<>>
<1>1. Changed(targets, targets') = {}
  BY DEF Changed
<1> QED
  BY <1>1 DEF TargetEntries

LEMMA QuietCritics ==
    ASSUME UNCHANGED critics
    PROVE  CriticEntries = <<>>
<1> DEFINE changed == Changed(critics, critics')
           f == [c \in changed |-> Entry("CriticRegistered", c, critics'[c])]
           g == [c \in changed |-> VacatingEntries(c)]
<1>1. changed = {}
  BY DEF Changed
<1> HIDE DEF changed
<1>2. DOMAIN f = {} /\ DOMAIN g = {} /\ g = [c \in DOMAIN g |-> g[c]]
  BY <1>1
<1>3. CriticEntries = Each(f) \o Joined(g)
  BY DEF CriticEntries, changed
<1> HIDE DEF f, g
<1>4. Each(f) = <<>>
  BY <1>2, EachNone
<1>5. Joined(g) = <<>>
  BY <1>2, JoinedEmpty, FS_EmptySet
<1> QED
  BY <1>3, <1>4, <1>5

\* The processes that change, as WorkerEntries tells them apart.
ChangedWorkers == Changed(workers, workers')
FencedOnly == {w \in ChangedWorkers \cap DOMAIN workers : workers'[w] = Silenced({w})[w]}
Recast == ChangedWorkers \ FencedOnly
Reborn == {w \in Recast \cap DOMAIN workers : workers'[w].boot # workers[w].boot}

LEMMA WorkerBlocks ==
    WorkerEntries = (Joined([w \in Reborn |-> FenceEntries(w)])
                       \o Joined([w \in FencedOnly |-> FenceEntries(w)]))
                    \o Each([w \in Recast |-> Entry("WorkerRegistered", w, workers'[w])])
  BY DEF WorkerEntries, ChangedWorkers, FencedOnly, Recast, Reborn

LEMMA NoFences ==
    ASSUME NEW W, W = {}
    PROVE  Joined([w \in W |-> FenceEntries(w)]) = <<>>
<1> DEFINE f == [w \in W |-> FenceEntries(w)]
<1>1. f = [w \in DOMAIN f |-> f[w]] /\ DOMAIN f = {}
  OBVIOUS
<1> HIDE DEF f
<1>2. Joined(f) = <<>>
  BY <1>1, JoinedEmpty, FS_EmptySet
<1> QED
  BY <1>2 DEF f

LEMMA NothingRecast ==
    ASSUME Recast = {}
    PROVE  Each([w \in Recast |-> Entry("WorkerRegistered", w, workers'[w])]) = <<>>
<1> DEFINE f == [w \in Recast |-> Entry("WorkerRegistered", w, workers'[w])]
<1>1. DOMAIN f = {}
  OBVIOUS
<1> HIDE DEF f
<1>2. Each(f) = <<>>
  BY <1>1, EachNone
<1> QED
  BY <1>2 DEF f

LEMMA QuietWorkers ==
    ASSUME UNCHANGED workers
    PROVE  WorkerEntries = <<>>
<1>1. ChangedWorkers = {}
  BY DEF ChangedWorkers, Changed
<1>2. FencedOnly = {} /\ Recast = {} /\ Reborn = {}
  BY <1>1 DEF FencedOnly, Recast, Reborn
<1> QED
  <2>1. /\ Joined([w \in Reborn |-> FenceEntries(w)]) = <<>>
        /\ Joined([w \in FencedOnly |-> FenceEntries(w)]) = <<>>
    BY <1>2, NoFences
  <2>2. Each([w \in Recast |-> Entry("WorkerRegistered", w, workers'[w])]) = <<>>
    BY <1>2, NothingRecast
  <2> QED BY <2>1, <2>2, WorkerBlocks

LEMMA QuietDeclarations ==
    ASSUME DOMAIN reviews' = DOMAIN reviews
    PROVE  DeclaredEntries = <<>>
<1> DEFINE f == [r \in DOMAIN reviews' \ DOMAIN reviews |-> Entry("ReviewDeclared", r, reviews'[r])]
<1>1. DOMAIN f = {}
  OBVIOUS
<1>2. DeclaredEntries = Each(f)
  BY DEF DeclaredEntries
<1> HIDE DEF f
<1> QED
  BY <1>1, <1>2, EachNone

\* What ReviewEntries tells of, by its kinds.
Granting(r) ==
    {a \in reviews'[r].assignments : \A b \in reviews[r].assignments :
        b.critic # a.critic \/ b.ordinal # a.ordinal}
NewEvidence(r) == {e \in reviews'[r].evidences : \A d \in reviews[r].evidences : d.id # e.id}
NewChallenges(r) == reviews'[r].challenges \ reviews[r].challenges
NewFindings(r) == {f \in reviews'[r].findings : \A g \in reviews[r].findings : g.id # f.id}
Restated(r) ==
    {f \in reviews'[r].findings \ NewFindings(r) : \A g \in reviews[r].findings :
        g.id = f.id => g.state # f.state}

EvidenceTold(r)  == Each([e \in NewEvidence(r) |-> Entry("EvidenceRecorded", r, e)])
ChallengeTold(r) == Each([ch \in NewChallenges(r) |-> Entry("ChallengeRecorded", r, ch)])
StatesTold(r) ==
    Each([f \in Restated(r) |-> Entry("FindingStateChanged", r, [id |-> f.id, state |-> f.state])])
FindingTold(r)   == Each([f \in NewFindings(r) |-> Entry("FindingRecorded", r, f)])
GrantTold(r)     == IF Granting(r) = {} THEN <<>> ELSE SeatEntries(r, Granting(r))
RulingTold(r)    == IF reviews'[r].decision = reviews[r].decision THEN <<>> ELSE DecisionEntries(r)

LEMMA ReviewBlocks ==
    ASSUME NEW r
    PROVE  ReviewEntries(r) =
              (((((GrantTold(r) \o RulingTold(r)) \o EvidenceTold(r)) \o ChallengeTold(r))
                  \o StatesTold(r)) \o FindingTold(r)) \o StateNews(r)
  BY DEF ReviewEntries, GrantTold, RulingTold, EvidenceTold, ChallengeTold, StatesTold,
         FindingTold, StateNews, Granting, NewEvidence, NewChallenges, NewFindings, Restated

\* A kind of records of which there is none, or just one.
LEMMA NoneOrOne ==
    ASSUME NEW r
    PROVE  /\ NewEvidence(r) = {} => EvidenceTold(r) = <<>>
           /\ \A e : NewEvidence(r) = {e} => EvidenceTold(r) = <<Entry("EvidenceRecorded", r, e)>>
           /\ NewChallenges(r) = {} => ChallengeTold(r) = <<>>
           /\ \A c : NewChallenges(r) = {c} => ChallengeTold(r) = <<Entry("ChallengeRecorded", r, c)>>
           /\ Restated(r) = {} => StatesTold(r) = <<>>
           /\ \A f : Restated(r) = {f} => StatesTold(r) =
                 <<Entry("FindingStateChanged", r, [id |-> f.id, state |-> f.state])>>
           /\ NewFindings(r) = {} => FindingTold(r) = <<>>
           /\ \A f : NewFindings(r) = {f} => FindingTold(r) = <<Entry("FindingRecorded", r, f)>>
<1> DEFINE F == [e \in NewEvidence(r) |-> Entry("EvidenceRecorded", r, e)]
           G == [ch \in NewChallenges(r) |-> Entry("ChallengeRecorded", r, ch)]
           H == [f \in Restated(r) |-> Entry("FindingStateChanged", r, [id |-> f.id, state |-> f.state])]
           I == [f \in NewFindings(r) |-> Entry("FindingRecorded", r, f)]
<1>1. /\ DOMAIN F = NewEvidence(r) /\ \A e \in DOMAIN F : F[e] = Entry("EvidenceRecorded", r, e)
      /\ DOMAIN G = NewChallenges(r) /\ \A c \in DOMAIN G : G[c] = Entry("ChallengeRecorded", r, c)
      /\ DOMAIN H = Restated(r) /\ \A f \in DOMAIN H :
            H[f] = Entry("FindingStateChanged", r, [id |-> f.id, state |-> f.state])
      /\ DOMAIN I = NewFindings(r) /\ \A f \in DOMAIN I : I[f] = Entry("FindingRecorded", r, f)
  OBVIOUS
<1>2. /\ EvidenceTold(r) = Each(F) /\ ChallengeTold(r) = Each(G)
      /\ StatesTold(r) = Each(H) /\ FindingTold(r) = Each(I)
  BY DEF EvidenceTold, ChallengeTold, StatesTold, FindingTold
<1> HIDE DEF F, G, H, I
<1>3. \A f, k, x : DOMAIN f = {k} /\ f[k] = x => Each(f) = <<x>>
  <2>1. TAKE f, k, x
  <2>2. HAVE DOMAIN f = {k} /\ f[k] = x
  <2>3. (\E j \in DOMAIN f : TRUE) /\ \A j \in DOMAIN f : f[j] = x
    BY <2>2
  <2> QED BY <2>3, EachOne
<1>4. ASSUME NEW e, NewEvidence(r) = {e}
      PROVE  EvidenceTold(r) = <<Entry("EvidenceRecorded", r, e)>>
  BY <1>1, <1>2, <1>3, <1>4
<1>5. ASSUME NEW c, NewChallenges(r) = {c}
      PROVE  ChallengeTold(r) = <<Entry("ChallengeRecorded", r, c)>>
  BY <1>1, <1>2, <1>3, <1>5
<1>6. ASSUME NEW f, Restated(r) = {f}
      PROVE  StatesTold(r) = <<Entry("FindingStateChanged", r, [id |-> f.id, state |-> f.state])>>
  <2> DEFINE x == Entry("FindingStateChanged", r, [id |-> f.id, state |-> f.state])
  <2>1. DOMAIN H = {f} /\ H[f] = x
    BY <1>1, <1>6
  <2> HIDE DEF x
  <2>2. Each(H) = <<x>>
    BY <1>3, <2>1
  <2> QED BY <1>2, <2>2 DEF x
<1>7. ASSUME NEW f, NewFindings(r) = {f}
      PROVE  FindingTold(r) = <<Entry("FindingRecorded", r, f)>>
  BY <1>1, <1>2, <1>3, <1>7
<1>8. /\ NewEvidence(r) = {} => EvidenceTold(r) = <<>>
      /\ NewChallenges(r) = {} => ChallengeTold(r) = <<>>
      /\ Restated(r) = {} => StatesTold(r) = <<>>
      /\ NewFindings(r) = {} => FindingTold(r) = <<>>
  BY <1>1, <1>2, EachNone
<1> QED
  BY <1>4, <1>5, <1>6, <1>7, <1>8

\* Of what has not changed in a review, nothing is told.
LEMMA QuietRecords ==
    ASSUME NEW r
    PROVE  /\ reviews'[r].assignments = reviews[r].assignments => GrantTold(r) = <<>>
           /\ reviews'[r].decision = reviews[r].decision => RulingTold(r) = <<>>
           /\ reviews'[r].evidences = reviews[r].evidences => EvidenceTold(r) = <<>>
           /\ reviews'[r].challenges = reviews[r].challenges => ChallengeTold(r) = <<>>
           /\ reviews'[r].findings = reviews[r].findings =>
                 StatesTold(r) = <<>> /\ FindingTold(r) = <<>>
<1>1. ASSUME reviews'[r].assignments = reviews[r].assignments
      PROVE  GrantTold(r) = <<>>
  <2>1. Granting(r) = {}
    BY <1>1 DEF Granting
  <2> QED BY <2>1 DEF GrantTold
<1>2. reviews'[r].decision = reviews[r].decision => RulingTold(r) = <<>>
  BY DEF RulingTold
<1>3. reviews'[r].evidences = reviews[r].evidences => EvidenceTold(r) = <<>>
  BY NoneOrOne DEF NewEvidence
<1>4. reviews'[r].challenges = reviews[r].challenges => ChallengeTold(r) = <<>>
  <2>1. reviews'[r].challenges = reviews[r].challenges => NewChallenges(r) = {}
    BY DEF NewChallenges
  <2> QED BY <2>1, NoneOrOne
<1>5. ASSUME reviews'[r].findings = reviews[r].findings
      PROVE  StatesTold(r) = <<>> /\ FindingTold(r) = <<>>
  <2>1. NewFindings(r) = {}
    BY <1>5 DEF NewFindings
  <2>2. Restated(r) = {}
    BY <1>5 DEF Restated
  <2> QED BY <2>1, <2>2, NoneOrOne
<1> QED
  BY <1>1, <1>2, <1>3, <1>4, <1>5

LEMMA QuietReview ==
    ASSUME NEW r, reviews'[r] = reviews[r]
    PROVE  ReviewEntries(r) = <<>>
<1>1. /\ GrantTold(r) = <<>> /\ RulingTold(r) = <<>> /\ EvidenceTold(r) = <<>>
      /\ ChallengeTold(r) = <<>> /\ StatesTold(r) = <<>> /\ FindingTold(r) = <<>>
  BY QuietRecords
<1>2. StateNews(r) = <<>>
  BY DEF StateNews
<1> QED
  BY <1>1, <1>2, ReviewBlocks

\* The last word about a review, whose records are told of.
LEMMA StateNewsTold ==
    ASSUME TypeOK', NEW r \in DOMAIN reviews', NEW mid, Kempt(mid, DOMAIN critics),
           mid = Stated(reviews'[r], reviews[r])
    PROVE  Told(StateNews(r), r, mid, reviews'[r])
<1> DEFINE old == reviews[r]
           new == reviews'[r]
<1>1. new \in Review
  BY DEF TypeOK, ReviewsTypeOK, IsMap
<1>2. CASE StateEntry(r, new) = StateEntry(r, old)
  <2>1. /\ new.state = old.state /\ new.disposition = old.disposition
        /\ new.authorityCurrent = old.authorityCurrent /\ new.roundsUsed = old.roundsUsed
    BY <1>2 DEF StateEntry, Entry
  <2>2. mid = new
    BY <1>1, <2>1 DEF Stated, Review
  <2>3. StateNews(r) = <<>>
    BY <1>2 DEF StateNews
  <2> QED BY <2>2, <2>3, ToldNone
<1>3. CASE StateEntry(r, new) # StateEntry(r, old)
  <2> DEFINE x == StateEntry(r, new)
  <2>1. x \in Amendment
    BY ReviewNews
  <2>2. Amended(mid, x) = Stated(mid, new)
    BY StateAmended
  <2>3. Stated(mid, new) = new
    BY <1>1 DEF Stated, Review
  <2>4. Told(<<x>>, r, mid, Amended(mid, x))
    BY <2>1, StateFits, ToldOne
  <2>5. StateNews(r) = <<x>>
    BY <1>3 DEF StateNews
  <2> QED BY <2>2, <2>3, <2>4, <2>5
<1> QED
  BY <1>2, <1>3

-----------------------------------------------------------------------------
(* A call that begins when the journal is exact.                           *)

\* ReplayIsExact, of a store that replay reaches.
Agrees(end) ==
    /\ end.epoch = epoch
    /\ end.targets = targets
    /\ end.critics = critics
    /\ Cleared(end.workers) = Cleared(workers)
    /\ \A w \in DOMAIN workers : workers[w].ready => end.workers[w] = workers[w]
    /\ end.incumbents = incumbents
    /\ end.reviews = reviews

\* The same of the memory a step leaves.
Reached(end) ==
    /\ end.epoch = epoch'
    /\ end.targets = targets'
    /\ end.critics = critics'
    /\ Cleared(end.workers) = Cleared(workers')
    /\ \A w \in DOMAIN workers' : workers'[w].ready => end.workers[w] = workers'[w]
    /\ end.incumbents = incumbents'
    /\ end.reviews = reviews'

Exact ==
    /\ TypeOK
    /\ RegistryInv
    /\ FiniteMaps
    /\ StoreOK(durable)
    /\ Sound(durable)
    /\ Agrees(durable)

CallExact == \E end : Replayed(CallEntries, durable, end) /\ Reached(end)

LEMMA ExactGives ==
    ASSUME Exact
    PROVE  /\ AllKempt /\ FenceBase(durable)
           /\ Shape(durable)
           /\ durable.workers = [w \in DOMAIN workers |-> durable.workers[w]]
           /\ \A w \in DOMAIN workers :
                 /\ durable.workers[w] \in Worker
                 /\ [durable.workers[w] EXCEPT !.ready = FALSE, !.healthy = FALSE]
                      = [workers[w] EXCEPT !.ready = FALSE, !.healthy = FALSE]
                 /\ workers[w].ready => durable.workers[w] = workers[w]
<1>1. IsMap(durable.workers, Workers, Worker) /\ IsMap(workers, Workers, Worker)
  BY DEF Exact, StoreOK, TypeOK, RegistryTypeOK
<1>2. /\ DOMAIN Cleared(durable.workers) = DOMAIN durable.workers
      /\ DOMAIN Cleared(workers) = DOMAIN workers
      /\ Cleared(durable.workers) = Cleared(workers)
  BY DEF Exact, Agrees, Cleared
<1>3. DOMAIN durable.workers = DOMAIN workers
  BY <1>2
<1>4. \A w \in DOMAIN workers :
         [durable.workers[w] EXCEPT !.ready = FALSE, !.healthy = FALSE]
            = [workers[w] EXCEPT !.ready = FALSE, !.healthy = FALSE]
  <2>1. \A w \in DOMAIN workers : Cleared(durable.workers)[w] = Cleared(workers)[w]
    BY <1>2
  <2> QED BY <1>3, <2>1 DEF Cleared
<1>5. \A w \in DOMAIN workers : durable.workers[w] \in Worker /\ workers[w] \in Worker
  BY <1>1, <1>3 DEF IsMap
<1>6. \A w \in DOMAIN workers : /\ durable.workers[w].bootOrder = workers[w].bootOrder
                                /\ durable.workers[w].critic = workers[w].critic
  <2>1. TAKE w \in DOMAIN workers
  <2> DEFINE a == durable.workers[w]
             b == workers[w]
  <2>2. a \in Worker /\ b \in Worker
    BY <1>5
  <2>3. [a EXCEPT !.ready = FALSE, !.healthy = FALSE]
           = [b EXCEPT !.ready = FALSE, !.healthy = FALSE]
    BY <1>4
  <2> HIDE DEF a, b
  <2>4. /\ [a EXCEPT !.ready = FALSE, !.healthy = FALSE].bootOrder = a.bootOrder
        /\ [a EXCEPT !.ready = FALSE, !.healthy = FALSE].critic = a.critic
        /\ [b EXCEPT !.ready = FALSE, !.healthy = FALSE].bootOrder = b.bootOrder
        /\ [b EXCEPT !.ready = FALSE, !.healthy = FALSE].critic = b.critic
    BY <2>2 DEF Worker
  <2>5. a.bootOrder = b.bootOrder /\ a.critic = b.critic
    BY <2>3, <2>4
  <2> QED BY <2>5 DEF a, b
<1>7. AllKempt
  BY DEF AllKempt, Exact, Agrees, Sound
<1>8. durable.workers = [w \in DOMAIN workers |-> durable.workers[w]]
  BY <1>1, <1>3 DEF IsMap
<1>9. FenceBase(durable)
  BY <1>6, <1>8 DEF FenceBase, Exact, Agrees
<1> QED
  BY <1>4, <1>5, <1>7, <1>8, <1>9 DEF Exact, StoreOK, Agrees

\* What is recorded of the reviews, when all of it can be told.
LEMMA ReviewsReplayed ==
    ASSUME Exact, TypeOK', UNCHANGED <<epoch, registry>>, DOMAIN reviews' = DOMAIN reviews,
           \A r \in DOMAIN reviews : /\ Kempt(reviews'[r], DOMAIN critics)
                                     /\ Told(ReviewEntries(r), r, reviews[r], reviews'[r])
    PROVE  CallExact
<1> DEFINE f == [r \in DOMAIN reviews |-> ReviewEntries(r)]
           end == Rewritten(durable, DOMAIN f, reviews')
<1>1. /\ f = [r \in DOMAIN f |-> f[r]] /\ DOMAIN f = DOMAIN reviews
      /\ \A r \in DOMAIN reviews : f[r] = ReviewEntries(r)
  OBVIOUS
<1>2. CallEntries = Joined(f)
  <2>1. UNCHANGED <<targets, critics, workers>> /\ registry' = registry
    BY DEF registry
  <2>2. TargetEntries = <<>> /\ CriticEntries = <<>> /\ OfWorkers = <<>>
    BY <2>1, QuietTargets, QuietCritics, QuietWorkers DEF OfWorkers
  <2>3. DeclaredEntries = <<>>
    BY QuietDeclarations
  <2>4. Recorded = <<>> \o Joined(f)
    BY <2>1, <2>3 DEF Recorded, OfReviews
  <2> HIDE DEF f
  <2>5. Joined(f) \in Seq(Entries)
    <3>1. IsFiniteSet(DOMAIN f)
      BY <1>1 DEF Exact, FiniteMaps
    <3>2. \A r \in DOMAIN f : f[r] \in Seq(Entries)
      <4>1. \A r \in DOMAIN reviews : ReviewEntries(r) \in Seq(After)
        BY ReviewAfter DEF Exact
      <4> QED BY <1>1, <4>1, EntriesOfCalls
    <3> QED BY <1>1, <3>1, <3>2, JoinedEntries
  <2> QED BY <2>2, <2>4, <2>5, CallInBlocks
<1>3. /\ AllKempt /\ durable.reviews = reviews /\ durable.critics = critics /\ Sound(durable)
      /\ IsFiniteSet(DOMAIN f)
  BY <1>1, ExactGives DEF Exact, Agrees, FiniteMaps
<1> HIDE DEF f
<1>4. Replayed(Joined(f), durable, end)
  BY <1>1, <1>3, JoinedTold
<1>5. /\ end.epoch = durable.epoch /\ end.targets = durable.targets
      /\ end.critics = durable.critics /\ end.workers = durable.workers
      /\ end.incumbents = durable.incumbents
      /\ end.reviews = [r \in DOMAIN durable.reviews |->
                          IF r \in DOMAIN f THEN reviews'[r] ELSE durable.reviews[r]]
  BY <1>3, RewrittenFields
<1> HIDE DEF end
<1>6. end.reviews = reviews'
  <2>1. reviews' = [r \in DOMAIN reviews' |-> reviews'[r]]
    BY DEF TypeOK, ReviewsTypeOK, IsMap
  <2> QED BY <1>1, <1>3, <1>5, <2>1
<1>7. Reached(end)
  BY <1>5, <1>6 DEF Reached, Exact, Agrees, registry
<1> QED
  BY <1>2, <1>4, <1>7 DEF CallExact

\* A call on one review.
LEMMA OneReviewTold ==
    ASSUME Exact, TypeOK', UNCHANGED <<epoch, registry>>, NEW r \in DOMAIN reviews, NEW new,
           reviews' = [reviews EXCEPT ![r] = new], Kempt(new, DOMAIN critics),
           Told(ReviewEntries(r), r, reviews[r], new)
    PROVE  CallExact
<1>1. DOMAIN reviews' = DOMAIN reviews /\ reviews'[r] = new
      /\ \A q \in DOMAIN reviews : q # r => reviews'[q] = reviews[q]
  OBVIOUS
<1>2. \A q \in DOMAIN reviews : Kempt(reviews'[q], DOMAIN critics)
  BY <1>1, ExactGives DEF AllKempt
<1>3. ASSUME NEW q \in DOMAIN reviews
      PROVE  Told(ReviewEntries(q), q, reviews[q], reviews'[q])
  <2>1. CASE q = r
    BY <1>1, <2>1
  <2>2. CASE q # r
    <3>1. reviews'[q] = reviews[q] /\ ReviewEntries(q) = <<>>
      BY <1>1, <2>2, QuietReview
    <3> QED BY <3>1, ToldNone
  <2> QED BY <2>1, <2>2
<1> QED
  BY <1>1, <1>2, <1>3, ReviewsReplayed

-----------------------------------------------------------------------------
(* The calls on one review.                                                *)

\* A review that ends in another state than it was in.
LEMMA StateChangeTold ==
    ASSUME TypeOK', NEW r \in DOMAIN reviews', NEW mid, Kempt(mid, DOMAIN critics),
           StateEntry(r, reviews'[r]) # StateEntry(r, reviews[r]),
           Stated(mid, reviews'[r]) = reviews'[r]
    PROVE  Told(StateNews(r), r, mid, reviews'[r])
<1> DEFINE new == reviews'[r]
           x == StateEntry(r, new)
<1>1. x \in Amendment
  BY ReviewNews
<1>2. Amended(mid, x) = Stated(mid, new)
  BY StateAmended
<1>3. Told(<<x>>, r, mid, Amended(mid, x))
  BY <1>1, StateFits, ToldOne
<1>4. StateNews(r) = <<x>>
  BY DEF StateNews
<1> QED
  BY <1>2, <1>3, <1>4

\* Entries about one review, one after the other.
LEMMA ToldChain ==
    ASSUME NEW r, NEW s \in Seq(Amendment \cup Ruling), NEW g,
           \A i \in 1 .. Len(s) : s[i].id = r,
           \A i \in 0 .. Len(s) : Kempt(g[i], DOMAIN critics),
           \A i \in 1 .. Len(s) : g[i] = Amended(g[i-1], s[i])
    PROVE  Told(s, r, g[0], g[Len(s)])
<1> SUFFICES ASSUME NEW store, Sound(store), DOMAIN critics \subseteq DOMAIN store.critics,
                    r \in DOMAIN store.reviews, store.reviews[r] = g[0]
             PROVE  Replayed(s, store, With(store, r, g[Len(s)]))
  BY DEF Told
<1> DEFINE f == [i \in 0 .. Len(s) |-> With(store, r, g[i])]
<1>1. s \in Seq(Entries) /\ Len(s) \in Nat /\ \A i \in 1 .. Len(s) : s[i] \in Amendment \cup Ruling
  <2>1. Amendment \cup Ruling \subseteq Entries
    BY AmendmentKinds
  <2> QED BY <2>1
<1>2. \A i \in 0 .. Len(s) : f[i] = With(store, r, g[i])
  OBVIOUS
<1> HIDE DEF f
<1>3. ASSUME NEW i \in 0 .. Len(s)
      PROVE  Sound(f[i])
  <2>1. Kempt(g[i], DOMAIN store.critics)
    BY KemptMore
  <2> QED BY <1>2, <2>1, WithSound
<1>4. f[0] = store
  <2>1. f[0] = With(store, r, store.reviews[r])
    BY <1>1, <1>2
  <2> QED BY <2>1, WithTwice
<1>5. ASSUME NEW i \in 1 .. Len(s)
      PROVE  f[i] = Applied(f[i-1], s[i])
  <2> DEFINE mid == With(store, r, g[i-1])
  <2>1. i \in 0 .. Len(s) /\ i - 1 \in 0 .. Len(s)
    BY <1>1
  <2>2. f[i-1] = mid /\ Sound(f[i-1])
    BY <1>2, <1>3, <2>1
  <2>3. mid.reviews[r] = g[i-1] /\ DOMAIN mid.reviews = DOMAIN store.reviews
    BY WithFields
  <2>4. With(mid, r, g[i]) = With(store, r, g[i])
    BY WithTwice
  <2>5. s[i] \in Amendment \cup Ruling /\ s[i].id = r /\ g[i] = Amended(g[i-1], s[i])
    BY <1>1
  <2> HIDE DEF mid
  <2>6. Applied(mid, s[i]) = With(mid, r, Amended(g[i-1], s[i]))
    BY <2>2, <2>3, <2>5, AmendedStore
  <2> QED BY <1>2, <2>1, <2>2, <2>4, <2>5, <2>6
<1>6. f[Len(s)] = With(store, r, g[Len(s)])
  BY <1>1, <1>2
<1>7. Leads(f, s, store, With(store, r, g[Len(s)]))
  BY <1>3, <1>4, <1>5, <1>6 DEF Leads
<1> QED
  BY <1>1, <1>7 DEF Replayed

\* The state a review passes through, taken over by base.
Passed(base, r, state, disposition) ==
    [base EXCEPT !.state = state, !.disposition = disposition,
                 !.authorityCurrent = TRUE, !.roundsUsed = reviews[r].roundsUsed]

LEMMA PassedKempt ==
    ASSUME TypeOK, NEW r \in DOMAIN reviews, NEW base, NEW D, Kempt(base, D),
           NEW state \in ReviewStates, NEW disposition \in Dispositions
    PROVE  /\ Kempt(Passed(base, r, state, disposition), D)
           /\ Passed(base, r, state, disposition).assignments = base.assignments
<1> DEFINE new == Passed(base, r, state, disposition)
<1>1. reviews[r] \in Review /\ base \in Review
  BY DEF TypeOK, ReviewsTypeOK, IsMap, Kempt
<1>2. /\ new \in Review /\ new.assignments = base.assignments /\ new.findings = base.findings
      /\ new.evidences = base.evidences /\ new.challenges = base.challenges
  BY <1>1 DEF Review, Passed
<1> HIDE DEF new
<1>3. Kempt(new, D)
  BY <1>2 DEF Kempt
<1> QED
  BY <1>2, <1>3 DEF new

LEMMA PassedAmends ==
    ASSUME TypeOK, NEW r \in DOMAIN reviews, NEW mid, NEW state, NEW disposition
    PROVE  Amended(mid, Passing(r, state, disposition)) = Passed(mid, r, state, disposition)
<1> DEFINE rev == [reviews[r] EXCEPT !.state = state, !.authorityCurrent = TRUE,
                                     !.disposition = disposition]
<1>1. Amended(mid, Passing(r, state, disposition)) = Stated(mid, rev)
  BY StateAmended DEF Passing
<1>2. reviews[r] \in Review
  BY DEF TypeOK, ReviewsTypeOK, IsMap
<1>3. /\ rev.state = state /\ rev.disposition = disposition
      /\ rev.authorityCurrent = TRUE /\ rev.roundsUsed = reviews[r].roundsUsed
  BY <1>2 DEF Review
<1> QED
  BY <1>1, <1>3 DEF Stated, Passed

LEMMA PassedTwice ==
    ASSUME TypeOK, NEW r \in DOMAIN reviews, NEW mid \in Review, NEW s, NEW d, NEW t, NEW e
    PROVE  Passed(Passed(mid, r, s, d), r, t, e) = Passed(mid, r, t, e)
  BY DEF Passed, Review

LEMMA ThroughTold ==
    ASSUME TypeOK, NEW r \in DOMAIN reviews, NEW base, Kempt(base, DOMAIN critics),
           NEW states \in Seq(ReviewStates), states # <<>>, NEW result,
           result = [i \in DOMAIN states |-> result[i]],
           \A i \in DOMAIN states : result[i] \in Dispositions
    PROVE  Told(Through(r, states, result), r, base,
                Passed(base, r, states[Len(states)], result[Len(states)]))
<1> DEFINE n == Len(states)
           s == Through(r, states, result)
           g == [i \in 0 .. n |-> IF i = 0 THEN base ELSE Passed(base, r, states[i], result[i])]
<1>1. n \in Nat /\ n >= 1 /\ DOMAIN states = 1 .. n
  OBVIOUS
<1>2. \A i \in 1 .. n : states[i] \in ReviewStates /\ result[i] \in Dispositions
  BY <1>1
<1>3. s \in Seq(Amendment) /\ Len(s) = n /\ \A i \in 1 .. n : s[i] = Passing(r, states[i], result[i])
  <2>1. s \in Seq(Amendment)
    BY WithdrawalEntries, ThroughListed
  <2>2. DOMAIN s = 1 .. n /\ \A i \in 1 .. n : s[i] = Passing(r, states[i], result[i])
    BY <1>1 DEF Through, Passing
  <2> HIDE DEF s
  <2>3. Len(s) = n
    BY <1>1, <2>1, <2>2
  <2> QED BY <2>1, <2>2, <2>3
<1>4. g[0] = base /\ \A i \in 1 .. n : g[i] = Passed(base, r, states[i], result[i])
  BY <1>1
<1> HIDE DEF s, g, n
<1>5. ASSUME NEW i \in 0 .. n
      PROVE  Kempt(g[i], DOMAIN critics)
  <2>1. CASE i = 0
    BY <1>4, <2>1
  <2>2. CASE i # 0
    <3>1. i \in 1 .. n
      BY <1>1, <2>2
    <3>2. states[i] \in ReviewStates /\ result[i] \in Dispositions
      BY <1>2, <3>1
    <3>3. Kempt(Passed(base, r, states[i], result[i]), DOMAIN critics)
      BY <3>2, PassedKempt
    <3> QED BY <1>4, <3>1, <3>3
  <2> QED BY <2>1, <2>2
<1>6. ASSUME NEW i \in 1 .. n
      PROVE  g[i] = Amended(g[i-1], s[i])
  <2>1. Amended(g[i-1], s[i]) = Passed(g[i-1], r, states[i], result[i])
    <3>1. s[i] = Passing(r, states[i], result[i])
      BY <1>3
    <3>2. Amended(g[i-1], Passing(r, states[i], result[i])) = Passed(g[i-1], r, states[i], result[i])
      BY PassedAmends
    <3> QED BY <3>1, <3>2
  <2>2. CASE i = 1
    <3>1. g[i-1] = base
      BY <1>4, <2>2
    <3> QED BY <1>4, <2>1, <3>1
  <2>3. CASE i # 1
    <3>1. i - 1 \in 1 .. n
      BY <1>1, <2>3
    <3>2. g[i-1] = Passed(base, r, states[i-1], result[i-1])
      BY <1>4, <3>1
    <3>3. base \in Review
      BY DEF Kempt
    <3>4. Passed(g[i-1], r, states[i], result[i]) = Passed(base, r, states[i], result[i])
      BY <3>2, <3>3, PassedTwice
    <3> QED BY <1>4, <2>1, <3>4
  <2> QED BY <2>2, <2>3
<1>7. \A i \in 1 .. n : s[i].id = r
  <2>1. TAKE i \in 1 .. n
  <2>2. s[i] = Passing(r, states[i], result[i])
    BY <1>3
  <2>3. Passing(r, states[i], result[i]).id = r
    BY DEF Passing, StateEntry, Entry
  <2> QED BY <2>2, <2>3
<1>8. s \in Seq(Amendment \cup Ruling)
  BY <1>3
<1>9. Told(s, r, g[0], g[n])
  BY <1>3, <1>5, <1>6, <1>7, <1>8, ToldChain
<1>10. n \in 1 .. n
  BY <1>1
<1> QED
  BY <1>4, <1>9, <1>10 DEF s, n

\* The blocks of a review's entries, told one after the other.
LEMMA BlocksTold ==
    ASSUME NEW r, NEW a, NEW b, NEW c, NEW d, NEW e, NEW f, NEW g, NEW h,
           Told(GrantTold(r), r, a, b), Told(RulingTold(r), r, b, c),
           Told(EvidenceTold(r), r, c, d), Told(ChallengeTold(r), r, d, e),
           Told(StatesTold(r), r, e, f), Told(FindingTold(r), r, f, g),
           Told(StateNews(r), r, g, h)
    PROVE  Told(ReviewEntries(r), r, a, h)
<1>1. Told(GrantTold(r) \o RulingTold(r), r, a, c)
  BY ToldBoth
<1>2. Told((GrantTold(r) \o RulingTold(r)) \o EvidenceTold(r), r, a, d)
  BY <1>1, ToldBoth
<1>3. Told(((GrantTold(r) \o RulingTold(r)) \o EvidenceTold(r)) \o ChallengeTold(r), r, a, e)
  BY <1>2, ToldBoth
<1>4. Told((((GrantTold(r) \o RulingTold(r)) \o EvidenceTold(r)) \o ChallengeTold(r))
             \o StatesTold(r), r, a, f)
  BY <1>3, ToldBoth
<1>5. Told(((((GrantTold(r) \o RulingTold(r)) \o EvidenceTold(r)) \o ChallengeTold(r))
             \o StatesTold(r)) \o FindingTold(r), r, a, g)
  BY <1>4, ToldBoth
<1>6. Told((((((GrantTold(r) \o RulingTold(r)) \o EvidenceTold(r)) \o ChallengeTold(r))
             \o StatesTold(r)) \o FindingTold(r)) \o StateNews(r), r, a, h)
  BY <1>5, ToldBoth
<1> QED
  BY <1>6, ReviewBlocks

LEMMA CancelReviewReplayed ==
    ASSUME Exact, TypeOK', NEW e, NEW r \in DOMAIN reviews, CancelReview(e, r)
    PROVE  CallExact
<1> DEFINE old == reviews[r]
           new == [old EXCEPT !.state = "Cancelled", !.disposition = "Cancelled",
                              !.authorityCurrent = FALSE]
<1>1. old \in Review /\ Kempt(old, DOMAIN critics)
  BY ExactGives DEF AllKempt, Kempt
<1>2. reviews' = [reviews EXCEPT ![r] = new] /\ UNCHANGED <<epoch, registry>>
  BY DEF CancelReview
<1>3. reviews'[r] = new /\ r \in DOMAIN reviews'
  BY <1>2
<1>4. /\ new \in Review
      /\ new.assignments = old.assignments /\ new.findings = old.findings
      /\ new.evidences = old.evidences /\ new.challenges = old.challenges
      /\ new.decision = old.decision
  BY <1>1 DEF Review, ReviewStates, Dispositions
<1>5. old = Stated(new, old)
  BY <1>1 DEF Stated, Review
<1> HIDE DEF new
<1>6. Kempt(new, DOMAIN critics)
  BY <1>1, <1>4 DEF Kempt
<1>7. /\ GrantTold(r) = <<>> /\ RulingTold(r) = <<>> /\ EvidenceTold(r) = <<>>
      /\ ChallengeTold(r) = <<>> /\ StatesTold(r) = <<>> /\ FindingTold(r) = <<>>
  BY <1>3, <1>4, QuietRecords
<1>8. Told(StateNews(r), r, old, new)
  <2>1. Told(StateNews(r), r, old, reviews'[r])
    BY <1>1, <1>3, <1>5, StateNewsTold
  <2> QED BY <1>3, <2>1
<1> HIDE DEF old
<1>9. Told(ReviewEntries(r), r, reviews[r], new)
  BY <1>7, <1>8, ToldNone, BlocksTold DEF old
<1> QED
  BY <1>2, <1>6, <1>9, OneReviewTold

LEMMA DecisionTold ==
    ASSUME TypeOK, TypeOK', NEW r \in DOMAIN reviews, r \in DOMAIN reviews',
           Kempt(reviews[r], DOMAIN critics)
    PROVE  \E s \in ReviewStates, d \in Dispositions :
              Told(DecisionEntries(r), r, reviews[r],
                   [Passed(reviews[r], r, s, d) EXCEPT !.decision = reviews'[r].decision])
              /\ Kempt([Passed(reviews[r], r, s, d) EXCEPT !.decision = reviews'[r].decision],
                       DOMAIN critics)
<1> DEFINE old == reviews[r]
           path == PathToEvaluating(old.state) \o <<"Resolved">>
           last == Len(path) - 1
           result == [i \in DOMAIN path |-> IF i < last THEN "None" ELSE reviews'[r].disposition]
           n == Len(path)
           x == Entry("DecisionCommitted", r, reviews'[r].decision)
           mid == Passed(old, r, path[n], result[n])
           end == [mid EXCEPT !.decision = reviews'[r].decision]
<1>1. reviews'[r] \in Review
  BY DEF TypeOK, ReviewsTypeOK, IsMap
<1>2. path \in Seq(ReviewStates) /\ path # <<>> /\ n \in DOMAIN path
  <2>1. PathToEvaluating(old.state) \in Seq(ReviewStates) /\ "Resolved" \in ReviewStates
    BY PathType DEF ReviewStates
  <2> QED BY <2>1
<1>3. result = [i \in DOMAIN path |-> result[i]] /\ \A i \in DOMAIN path : result[i] \in Dispositions
  BY <1>1 DEF Review, Dispositions
<1>4. DecisionEntries(r) = Through(r, path, result) \o <<x>>
  BY DEF DecisionEntries
<1>5. path[n] \in ReviewStates /\ result[n] \in Dispositions
  BY <1>2, <1>3
<1> HIDE DEF path, result, n
<1>6. Told(Through(r, path, result), r, old, mid)
  BY <1>2, <1>3, ThroughTold DEF n
<1>7. Kempt(mid, DOMAIN critics)
  BY <1>5, PassedKempt
<1>8. x \in Ruling
  BY ReviewNews
<1>9. Fits(mid, DOMAIN critics, x) /\ x.id = r
  BY <1>8 DEF Fits, Entry
<1>10. Amended(mid, x) = end
  BY DEF Amended, Entry
<1>11. Told(<<x>>, r, mid, end)
  <2>1. Told(<<x>>, r, mid, Amended(mid, x))
    BY <1>9, ToldOne
  <2> QED BY <1>10, <2>1
<1>12. Kempt(end, DOMAIN critics)
  <2>1. Kempt(Amended(mid, x), DOMAIN critics)
    BY <1>7, <1>9, AmendedKempt
  <2> QED BY <1>10, <2>1
<1> HIDE DEF mid, x, end, old
<1>13. Told(DecisionEntries(r), r, old, end)
  BY <1>4, <1>6, <1>11, ToldBoth
<1> QED
  BY <1>5, <1>12, <1>13 DEF mid, end, old

LEMMA CommitReviewReplayed ==
    ASSUME Exact, TypeOK', NEW e, NEW r \in DOMAIN reviews, CommitReview(e, r)
    PROVE  CallExact
<1> DEFINE old == reviews[r]
           dec == Resolve(old)
           new == [old EXCEPT !.state = "Committed", !.decision = dec,
                              !.disposition = dec.disposition, !.authorityCurrent = TRUE]
<1>1. old \in Review /\ Kempt(old, DOMAIN critics)
  BY ExactGives DEF AllKempt, Kempt
<1>2. /\ reviews' = [reviews EXCEPT ![r] = new] /\ UNCHANGED <<epoch, registry>>
      /\ old.state \notin TerminalStates
  BY DEF CommitReview
<1>3. reviews'[r] = new /\ r \in DOMAIN reviews' /\ new \in Review
  <2>1. reviews'[r] = new /\ r \in DOMAIN reviews'
    BY <1>2
  <2> QED BY <2>1 DEF TypeOK, ReviewsTypeOK, IsMap
<1>4. /\ new.assignments = old.assignments /\ new.findings = old.findings
      /\ new.evidences = old.evidences /\ new.challenges = old.challenges
      /\ new.state = "Committed" /\ new.decision = dec
  BY <1>1 DEF Review
<1>5. StateEntry(r, new) # StateEntry(r, old)
  BY <1>2, <1>4 DEF StateEntry, Entry, TerminalStates
<1>6. Kempt(new, DOMAIN critics)
  <2> HIDE DEF new
  <2> QED BY <1>1, <1>3, <1>4 DEF Kempt
<1>7. /\ GrantTold(r) = <<>> /\ EvidenceTold(r) = <<>>
      /\ ChallengeTold(r) = <<>> /\ StatesTold(r) = <<>> /\ FindingTold(r) = <<>>
  BY <1>3, <1>4, QuietRecords
<1>8. CASE new.decision = old.decision
  <2>1. RulingTold(r) = <<>>
    BY <1>3, <1>8, QuietRecords
  <2>2. Stated(old, new) = new
    BY <1>1, <1>8 DEF Stated, Review
  <2>3. Told(StateNews(r), r, old, new)
    <3> HIDE DEF new
    <3> QED BY <1>1, <1>3, <1>5, <2>2, StateChangeTold
  <2> HIDE DEF new
  <2>4. Told(ReviewEntries(r), r, old, new)
    BY <1>7, <2>1, <2>3, ToldNone, BlocksTold
  <2> QED BY <1>2, <1>6, <2>4, OneReviewTold
<1>9. CASE new.decision # old.decision
  <2>1. PICK s \in ReviewStates, d \in Dispositions :
           Told(DecisionEntries(r), r, old, [Passed(old, r, s, d) EXCEPT !.decision = new.decision])
           /\ Kempt([Passed(old, r, s, d) EXCEPT !.decision = new.decision], DOMAIN critics)
    <3> HIDE DEF new
    <3> QED BY <1>1, <1>3, DecisionTold DEF Exact
  <2> DEFINE mid == [Passed(old, r, s, d) EXCEPT !.decision = new.decision]
  <2>2. Told(RulingTold(r), r, old, mid) /\ Kempt(mid, DOMAIN critics)
    BY <1>3, <1>9, <2>1 DEF RulingTold
  <2>3. Stated(mid, new) = new
    BY <1>1, <1>4 DEF Stated, Review, Passed
  <2> HIDE DEF new, mid
  <2>4. Told(StateNews(r), r, mid, new)
    BY <1>3, <1>5, <2>2, <2>3, StateChangeTold
  <2>5. Told(ReviewEntries(r), r, old, new)
    BY <1>7, <2>2, <2>4, ToldNone, BlocksTold
  <2> QED BY <1>2, <1>6, <2>5, OneReviewTold
<1> QED
  BY <1>8, <1>9

\* A review that is given the seats G.
SeatsGranted(base, G) == [base EXCEPT !.assignments = @ \cup G]

LEMMA SeatsAdded ==
    ASSUME NEW base, NEW D, Kempt(base, D), NEW r, NEW G,
           Entry("AssignmentsAdded", r, G) \in Amendment,
           Seated(base.assignments \cup G), \A a \in G : a.critic \in D
    PROVE  /\ Fits(base, D, Entry("AssignmentsAdded", r, G))
           /\ Amended(base, Entry("AssignmentsAdded", r, G)) = SeatsGranted(base, G)
           /\ Kempt(SeatsGranted(base, G), D)
<1> DEFINE x == Entry("AssignmentsAdded", r, G)
<1>1. Fits(base, D, x)
  BY DEF Fits, Entry
<1>2. Amended(base, x) = SeatsGranted(base, G)
  BY DEF Amended, Entry, SeatsGranted
<1>3. Kempt(Amended(base, x), D)
  BY <1>1, AmendedKempt
<1> QED
  BY <1>1, <1>2, <1>3

\* The batch, with the state Assigning before it or after it.
LEMMA SeatsTold ==
    ASSUME TypeOK, NEW r \in DOMAIN reviews, Kempt(reviews[r], DOMAIN critics), NEW G,
           Entry("AssignmentsAdded", r, G) \in Amendment,
           Seated(reviews[r].assignments \cup G), \A a \in G : a.critic \in DOMAIN critics
    PROVE  \E mid :
              /\ Told(SeatEntries(r, G), r, reviews[r], mid)
              /\ Kempt(mid, DOMAIN critics)
              /\ \/ mid = SeatsGranted(reviews[r], G)
                 \/ /\ reviews[r].state \in {"Declared", "RevalidationRequired"}
                    /\ mid = Passed(SeatsGranted(reviews[r], G), r, "Assigning", "None")
<1> DEFINE old == reviews[r]
           D == DOMAIN critics
           x == Entry("AssignmentsAdded", r, G)
           granted == SeatsGranted(old, G)
           assigning == Through(r, <<"Assigning">>, <<"None">>)
<1>1. /\ <<"Assigning">> \in Seq(ReviewStates) /\ <<"None">> = [i \in 1 .. 1 |-> "None"]
      /\ "Assigning" \in ReviewStates /\ "None" \in Dispositions
  BY DEF ReviewStates, Dispositions
<1>2. ASSUME NEW base, Kempt(base, D)
      PROVE  /\ Told(assigning, r, base, Passed(base, r, "Assigning", "None"))
             /\ Kempt(Passed(base, r, "Assigning", "None"), D)
             /\ Passed(base, r, "Assigning", "None").assignments = base.assignments
  <2> DEFINE states == <<"Assigning">>
             result == <<"None">>
  <2>1. /\ states \in Seq(ReviewStates) /\ states # <<>> /\ DOMAIN states = {1} /\ Len(states) = 1
        /\ result = [i \in DOMAIN states |-> result[i]]
        /\ states[1] = "Assigning" /\ result[1] = "None"
    BY <1>1
  <2> HIDE DEF states, result
  <2>2. \A i \in DOMAIN states : result[i] \in Dispositions
    BY <1>1, <2>1
  <2>3. Told(Through(r, states, result), r, base,
             Passed(base, r, states[Len(states)], result[Len(states)]))
    BY <1>2, <2>1, <2>2, ThroughTold
  <2>4. Told(Through(r, states, result), r, base, Passed(base, r, "Assigning", "None"))
    BY <2>1, <2>3
  <2> QED BY <1>1, <1>2, <2>4, PassedKempt DEF states, result
<1>3. ASSUME NEW base, Kempt(base, D), base.assignments = old.assignments
      PROVE  Told(<<x>>, r, base, SeatsGranted(base, G)) /\ Kempt(SeatsGranted(base, G), D)
  <2>1. /\ Fits(base, D, x) /\ Amended(base, x) = SeatsGranted(base, G)
        /\ Kempt(SeatsGranted(base, G), D)
    BY <1>3, SeatsAdded
  <2>2. x.id = r
    BY DEF Entry
  <2>3. Told(<<x>>, r, base, Amended(base, x))
    BY <2>1, <2>2, ToldOne
  <2> QED BY <2>1, <2>3
<1>4. SeatsGranted(Passed(old, r, "Assigning", "None"), G) = Passed(granted, r, "Assigning", "None")
  <2>1. old \in Review
    BY DEF Kempt
  <2> QED BY <2>1 DEF Passed, SeatsGranted, Review
<1>5. Kempt(old, D) /\ Told(<<x>>, r, old, granted) /\ Kempt(granted, D)
  BY <1>3
<1> HIDE DEF old, D, x, granted, assigning
<1>6. CASE old.state = "Declared"
  <2> DEFINE mid == Passed(old, r, "Assigning", "None")
  <2>1. SeatEntries(r, G) = assigning \o <<x>>
    BY <1>6 DEF SeatEntries, assigning, x, old
  <2>2. Told(assigning, r, old, mid) /\ Kempt(mid, D) /\ mid.assignments = old.assignments
    BY <1>2, <1>5
  <2> HIDE DEF mid
  <2>3. Told(<<x>>, r, mid, SeatsGranted(mid, G)) /\ Kempt(SeatsGranted(mid, G), D)
    BY <1>3, <2>2
  <2>4. Told(SeatEntries(r, G), r, old, SeatsGranted(mid, G))
    BY <2>1, <2>2, <2>3, ToldBoth
  <2> QED BY <1>4, <1>6, <2>3, <2>4 DEF mid, old, D, granted
<1>7. CASE old.state = "RevalidationRequired"
  <2> DEFINE end == Passed(granted, r, "Assigning", "None")
  <2>1. SeatEntries(r, G) = <<x>> \o assigning
    BY <1>7 DEF SeatEntries, assigning, x, old
  <2>2. Told(assigning, r, granted, end) /\ Kempt(end, D)
    BY <1>2, <1>5
  <2> HIDE DEF end
  <2>3. Told(SeatEntries(r, G), r, old, end)
    BY <1>5, <2>1, <2>2, ToldBoth
  <2> QED BY <1>7, <2>2, <2>3 DEF end, old, D, granted
<1>8. CASE old.state \notin {"Declared", "RevalidationRequired"}
  <2>1. SeatEntries(r, G) = <<x>>
    BY <1>8 DEF SeatEntries, x, old
  <2> QED BY <1>5, <2>1 DEF old, D, granted
<1> QED
  BY <1>6, <1>7, <1>8

\* The seats granted are those that are told of: their numbers are new.
LEMMA GrantsAreNew ==
    ASSUME NEW r, NEW G, reviews'[r].assignments = reviews[r].assignments \cup G,
           SeatsNumbered(reviews[r].assignments \cup G), G \cap reviews[r].assignments = {}
    PROVE  Granting(r) = G
<1> DEFINE S == reviews[r].assignments
<1>1. \A a \in G, b \in S : b.critic # a.critic \/ b.ordinal # a.ordinal
  BY DEF SeatsNumbered
<1> QED
  BY <1>1 DEF Granting

LEMMA AssignCriticsReplayed ==
    ASSUME Exact, TypeOK', NEW e, NEW r \in DOMAIN reviews, NEW batch, AssignCritics(e, r, batch)
    PROVE  CallExact
<1> DEFINE old == reviews[r]
           G == {Granted(old, q) : q \in batch}
           granted == SeatsGranted(old, G)
           moves == old.state \in {"Declared", "Assigning", "RevalidationRequired"}
           new == IF moves THEN [granted EXCEPT !.state = "Assigned", !.disposition = "None",
                                                !.authorityCurrent = TRUE]
                  ELSE granted
<1>1. old \in Review /\ Kempt(old, DOMAIN critics) /\ TypeOK
  BY ExactGives DEF AllKempt, Kempt, Exact
<1>2. /\ reviews' = [reviews EXCEPT ![r] = new] /\ UNCHANGED <<epoch, registry>>
      /\ IsFiniteSet(batch) /\ \A p, q \in batch : p.critic = q.critic => p = q
      /\ \A q \in batch : Assignable(old, q)
  BY DEF AssignCritics, SeatsGranted
<1>3. reviews'[r] = new /\ r \in DOMAIN reviews'
  BY <1>2
<1>4. /\ new.assignments = old.assignments \cup G /\ new.findings = old.findings
      /\ new.evidences = old.evidences /\ new.challenges = old.challenges
      /\ new.decision = old.decision
  BY <1>1 DEF Review, SeatsGranted
<1>5. Seated(old.assignments \cup G)
  <2>1. Seated(old.assignments) /\ \A q \in batch : ActiveOf(old, q.critic) = {}
    BY <1>1, <1>2 DEF Kempt, Assignable
  <2> QED BY <1>1, <1>2, <2>1, GrantedSeats
<1>6. \A a \in G : a.active /\ a.critic \in DOMAIN critics /\ ActiveOf(old, a.critic) = {}
  <2>1. \A q \in batch : /\ Granted(old, q).active /\ Granted(old, q).critic = q.critic
                          /\ q.critic \in DOMAIN critics /\ ActiveOf(old, q.critic) = {}
    BY <1>2 DEF Granted, Assignable, BindingCurrent
  <2> QED BY <2>1
<1>7. G \cap old.assignments = {}
  BY <1>6 DEF ActiveOf
<1>8. Granting(r) = G
  <2> HIDE DEF new, G
  <2> QED BY <1>3, <1>4, <1>5, <1>7, GrantsAreNew DEF Seated
<1>9. Entry("AssignmentsAdded", r, G) \in Amendment
  <2>1. G \in SUBSET reviews'[r].assignments
    BY <1>3, <1>4
  <2> HIDE DEF new, G
  <2> QED BY <1>3, <2>1, ReviewNews
<1>10. /\ RulingTold(r) = <<>> /\ EvidenceTold(r) = <<>>
       /\ ChallengeTold(r) = <<>> /\ StatesTold(r) = <<>> /\ FindingTold(r) = <<>>
  <2> HIDE DEF new
  <2> QED BY <1>3, <1>4, QuietRecords
<1>11. \E mid : /\ Told(GrantTold(r), r, old, mid) /\ Kempt(mid, DOMAIN critics)
                /\ \/ mid = granted
                   \/ moves /\ mid = Passed(granted, r, "Assigning", "None")
  <2>1. CASE G = {}
    <3>1. GrantTold(r) = <<>>
      BY <1>8, <2>1 DEF GrantTold
    <3>2. granted = old
      BY <1>1, <2>1 DEF SeatsGranted, Review
    <3> QED BY <1>1, <3>1, <3>2, ToldNone
  <2>2. CASE G # {}
    <3> HIDE DEF G, old
    <3>1. GrantTold(r) = SeatEntries(r, G)
      BY <1>8, <2>2 DEF GrantTold
    <3>2. \A a \in G : a.critic \in DOMAIN critics
      BY <1>6
    <3>3. PICK mid :
             /\ Told(SeatEntries(r, G), r, old, mid) /\ Kempt(mid, DOMAIN critics)
             /\ \/ mid = SeatsGranted(old, G)
                \/ /\ old.state \in {"Declared", "RevalidationRequired"}
                   /\ mid = Passed(SeatsGranted(old, G), r, "Assigning", "None")
      BY <1>1, <1>5, <1>9, <3>2, SeatsTold DEF old
    <3> QED BY <3>1, <3>3
  <2> QED BY <2>1, <2>2
<1>12. PICK mid : /\ Told(GrantTold(r), r, old, mid) /\ Kempt(mid, DOMAIN critics)
                  /\ \/ mid = granted
                     \/ moves /\ mid = Passed(granted, r, "Assigning", "None")
  BY <1>11
<1>13. Told(StateNews(r), r, mid, new) /\ Kempt(new, DOMAIN critics)
  <2>1. CASE moves
    <3>1. StateEntry(r, new) # StateEntry(r, old)
      BY <1>1, <2>1 DEF StateEntry, Entry, SeatsGranted, Review
    <3>2. Stated(mid, new) = new
      BY <1>1, <1>12, <2>1 DEF Stated, Passed, SeatsGranted, Review
    <3>3. new = [granted EXCEPT !.state = "Assigned", !.disposition = "None",
                                !.authorityCurrent = TRUE]
      BY <2>1
    <3> HIDE DEF new, moves
    <3>4. Told(StateNews(r), r, mid, new)
      BY <1>3, <1>12, <3>1, <3>2, StateChangeTold
    <3>5. Kempt(new, DOMAIN critics)
      <4>1. new \in Review
        BY <1>3 DEF TypeOK, ReviewsTypeOK, IsMap
      <4>2. \A a \in old.assignments \cup G : a.critic \in DOMAIN critics
        BY <1>1, <1>6 DEF Kempt
      <4> QED BY <1>1, <1>4, <1>5, <4>1, <4>2 DEF Kempt
    <3> QED BY <3>4, <3>5
  <2>2. CASE ~moves
    <3>1. new = granted /\ mid = new
      BY <1>12, <2>2
    <3>2. new = Stated(new, old)
      BY <1>1, <2>2 DEF Stated, SeatsGranted, Review
    <3> HIDE DEF new, granted, moves
    <3>3. Told(StateNews(r), r, new, reviews'[r])
      BY <1>3, <1>12, <3>1, <3>2, StateNewsTold
    <3> QED BY <1>3, <1>12, <3>1, <3>3
  <2> QED BY <2>1, <2>2
<1> HIDE DEF new, granted, moves
<1>14. Told(ReviewEntries(r), r, old, new)
  BY <1>10, <1>12, <1>13, ToldNone, BlocksTold
<1> QED
  BY <1>2, <1>13, <1>14, OneReviewTold

-----------------------------------------------------------------------------
(* What critics say.                                                       *)

LEMMA FreshIsNew ==
    ASSUME NEW S, Numbered(S)
    PROVE  \A x \in S : x.id # Fresh(S)
<1>1. Cardinality(S) \in Nat
  BY FS_CardinalityType DEF Numbered
<1> QED
  BY <1>1 DEF Numbered, Fresh

\* A record with a fresh number is the only new one.
LEMMA OneIsNew ==
    ASSUME NEW S, Numbered(S), NEW x, x.id = Fresh(S)
    PROVE  {y \in S \cup {x} : \A z \in S : z.id # y.id} = {x}
  BY FreshIsNew

\* A message reaches an open review, which is kempt.
LEMMA SpokenToKempt ==
    ASSUME Exact, NEW m, CheckAuthority(m)
    PROVE  /\ m.review \in DOMAIN reviews
           /\ reviews[m.review] \in Review /\ Kempt(reviews[m.review], DOMAIN critics)
           /\ reviews[m.review].state \in AcceptsCriticInput
  BY ExactGives DEF AllKempt, CheckAuthority, Kempt

LEMMA SubmitEvidenceReplayed ==
    ASSUME Exact, TypeOK', NEW m, NEW input, NEW finding, SubmitEvidence(m, input, finding)
    PROVE  CallExact
<1> DEFINE r == m.review
           old == reviews[r]
           e == [id |-> Fresh(old.evidences), critic |-> m.critic,
                 criticGeneration |-> m.criticGeneration, finding |-> finding,
                 verified |-> input.verified, provenanceKnown |-> input.provenanceKnown]
           listed == {IF f.id = finding THEN [f EXCEPT !.evidence = Append(@, e.id)] ELSE f
                        : f \in old.findings}
           new == [old EXCEPT !.evidences = @ \cup {e}, !.findings = listed]
           x == Entry("EvidenceRecorded", r, e)
<1>1. r \in DOMAIN reviews /\ old \in Review /\ Kempt(old, DOMAIN critics)
  BY SpokenToKempt DEF SubmitEvidence
<1>2. reviews' = [reviews EXCEPT ![r] = new] /\ UNCHANGED <<epoch, registry>>
  <2>1. e.id = Fresh(old.evidences)
    OBVIOUS
  <2> QED BY <2>1 DEF SubmitEvidence
<1>3. reviews'[r] = new /\ r \in DOMAIN reviews'
  BY <1>1, <1>2
<1>4. /\ new.assignments = old.assignments /\ new.findings = listed
      /\ new.evidences = old.evidences \cup {e} /\ new.challenges = old.challenges
      /\ new.decision = old.decision
      /\ e.id = Fresh(old.evidences) /\ e.finding = finding
  BY <1>1 DEF Review
<1>5. Amended(old, x) = new
  <2> HIDE DEF e
  <2> QED BY <1>4 DEF Amended, Entry
<1>6. new = Stated(new, old)
  BY <1>1 DEF Stated, Review
<1>7. \A f \in listed : \E g \in old.findings : f.id = g.id /\ f.state = g.state
  <2>1. \A f \in old.findings : f \in Finding
    BY <1>1 DEF Review
  <2>2. \A f \in Finding : /\ [f EXCEPT !.evidence = Append(@, e.id)].id = f.id
                           /\ [f EXCEPT !.evidence = Append(@, e.id)].state = f.state
    BY DEF Finding
  <2> HIDE DEF e
  <2>3. ASSUME NEW g \in old.findings
        PROVE  LET f == IF g.id = finding THEN [g EXCEPT !.evidence = Append(@, e.id)] ELSE g IN
               f.id = g.id /\ f.state = g.state
    BY <2>1, <2>2
  <2> QED BY <2>3
<1> HIDE DEF e, listed, new, x
<1>8. NewEvidence(r) = {e}
  BY <1>1, <1>3, <1>4, OneIsNew DEF NewEvidence, Kempt
<1>9. Restated(r) = {} /\ NewFindings(r) = {}
  BY <1>3, <1>4, <1>7 DEF Restated, NewFindings
<1>10. /\ EvidenceTold(r) = <<x>> /\ StatesTold(r) = <<>> /\ FindingTold(r) = <<>>
  BY <1>8, <1>9, NoneOrOne DEF x
<1>11. /\ GrantTold(r) = <<>> /\ RulingTold(r) = <<>> /\ ChallengeTold(r) = <<>>
  BY <1>3, <1>4, QuietRecords
<1>12. x \in Amendment
  BY <1>3, <1>4, ReviewNews DEF x
<1>13. Fits(old, DOMAIN critics, x) /\ x.id = r
  BY <1>4, <1>12 DEF Fits, x, Entry
<1>14. Told(EvidenceTold(r), r, old, new)
  <2>1. Told(<<x>>, r, old, Amended(old, x))
    BY <1>13, ToldOne
  <2> QED BY <1>5, <1>10, <2>1
<1>15. Kempt(new, DOMAIN critics)
  <2>1. Kempt(Amended(old, x), DOMAIN critics)
    BY <1>1, <1>13, AmendedKempt
  <2> QED BY <1>5, <2>1
<1>16. Told(StateNews(r), r, new, new)
  <2>1. Told(StateNews(r), r, new, reviews'[r])
    BY <1>3, <1>6, <1>15, StateNewsTold
  <2> QED BY <1>3, <2>1
<1> HIDE DEF old
<1>17. Told(ReviewEntries(r), r, old, new)
  BY <1>10, <1>11, <1>14, <1>16, ToldNone, BlocksTold
<1> QED
  BY <1>1, <1>2, <1>15, <1>17, OneReviewTold DEF old

\* A review one finding of which is in another state.
Marked(base, id, state) == [base EXCEPT !.findings = SetState(@, id, state)]

LEMMA SetStateRecords ==
    ASSUME NEW S \in SUBSET Finding, Numbered(S), NEW id, NEW state
    PROVE  /\ Cardinality(SetState(S, id, state)) = Cardinality(S)
           /\ \A f \in SetState(S, id, state) : \E g \in S :
                 /\ f.id = g.id
                 /\ g.id # id => f = g
                 /\ g.id = id => f = [g EXCEPT !.state = state] /\ f.state = state
           /\ \A g \in S : g.id = id => [g EXCEPT !.state = state] \in SetState(S, id, state)
           /\ (\A g \in S : g.id = id => g.state = state) => SetState(S, id, state) = S
<1> DEFINE F == [f \in S |-> IF f.id = id THEN [f EXCEPT !.state = state] ELSE f]
<1>1. \A f \in S : /\ F[f].id = f.id
                   /\ f.id # id => F[f] = f
                   /\ f.id = id => F[f] = [f EXCEPT !.state = state] /\ F[f].state = state
                   /\ f.state = state => F[f] = f
  BY DEF Finding
<1>2. SetState(S, id, state) = {F[f] : f \in S} /\ F = [f \in S |-> F[f]]
  BY DEF SetState
<1> HIDE DEF F
<1>3. Cardinality({F[f] : f \in S}) = Cardinality(S)
  BY <1>1, <1>2, NumberedImage
<1>4. ASSUME \A g \in S : g.id = id => g.state = state
      PROVE  {F[f] : f \in S} = S
  <2>1. \A f \in S : F[f] = f
    BY <1>1, <1>4
  <2> QED BY <2>1
<1> QED
  BY <1>1, <1>2, <1>3, <1>4

\* One finding is marked, and the findings F are new.
Marking(r, id, state, F) ==
    /\ reviews[r].findings \in SUBSET Finding
    /\ Numbered(reviews[r].findings)
    /\ reviews'[r].findings = SetState(reviews[r].findings, id, state) \cup F
    /\ \A f \in F, g \in reviews[r].findings : f.id # g.id

LEMMA MarkRestates ==
    ASSUME NEW r, NEW id, NEW state, NEW F, Marking(r, id, state, F)
    PROVE  /\ NewFindings(r) = F
           /\ (\A g \in reviews[r].findings : g.id = id => g.state = state) => Restated(r) = {}
           /\ \A g \in reviews[r].findings :
                 g.id = id /\ g.state # state => Restated(r) = {[g EXCEPT !.state = state]}
<1> DEFINE S == reviews[r].findings
           T == SetState(S, id, state)
           new == reviews'[r].findings
<1>1. \A f \in T : \E g \in S :
         /\ f.id = g.id
         /\ g.id # id => f = g
         /\ g.id = id => f = [g EXCEPT !.state = state] /\ f.state = state
  BY SetStateRecords DEF Marking
<1>2. \A g \in S : g.id = id => [g EXCEPT !.state = state] \in T
  BY SetStateRecords DEF Marking
<1>3. \A g, h \in S : g.id = h.id => g = h
  BY DEF Numbered, Marking
<1>4. /\ new = T \cup F /\ S \in SUBSET Finding
      /\ \A f \in F, g \in S : f.id # g.id
  BY DEF Marking
<1> HIDE DEF T, S, new
<1>5. NewFindings(r) = F
  BY <1>1, <1>4 DEF NewFindings, S, new
<1>6. Restated(r) = {f \in T : \A g \in S : g.id = f.id => g.state # f.state}
  <2>1. new \ F = T
    BY <1>1, <1>4
  <2> QED BY <1>5, <2>1 DEF Restated, S, new
<1>7. ASSUME \A g \in S : g.id = id => g.state = state
      PROVE  Restated(r) = {}
  BY <1>1, <1>6, <1>7
<1>8. ASSUME NEW g \in S, g.id = id, g.state # state
      PROVE  Restated(r) = {[g EXCEPT !.state = state]}
  <2> DEFINE x == [g EXCEPT !.state = state]
  <2>1. x \in T
    BY <1>2, <1>8
  <2>2. \A f \in T : f.id = id => f = x /\ f.state = state /\ f.id = g.id
    BY <1>1, <1>3, <1>8
  <2>3. x.id = id
    BY <1>4, <1>8 DEF Finding
  <2>4. \A f \in T : f.id # id => \E h \in S : h.id = f.id /\ h.state = f.state
    BY <1>1
  <2> HIDE DEF x
  <2>5. x \in Restated(r)
    BY <1>3, <1>6, <1>8, <2>1, <2>2, <2>3
  <2>6. \A f \in Restated(r) : f = x
    BY <1>6, <2>2, <2>4
  <2>7. Restated(r) = {x}
    BY <2>5, <2>6
  <2> QED BY <2>7 DEF x
<1> QED
  BY <1>5, <1>7, <1>8 DEF S

LEMMA MarksTold ==
    ASSUME TypeOK', NEW r \in DOMAIN reviews', Kempt(reviews[r], DOMAIN critics),
           NEW base, Kempt(base, DOMAIN critics), base.findings = reviews[r].findings,
           NEW id, NEW state, NEW F, Marking(r, id, state, F)
    PROVE  /\ NewFindings(r) = F
           /\ Told(StatesTold(r), r, base, Marked(base, id, state))
           /\ Kempt(Marked(base, id, state), DOMAIN critics)
<1> DEFINE S == reviews[r].findings
<1>1. S \in SUBSET Finding /\ Numbered(S) /\ base \in Review
  BY DEF Kempt, Review
<1>2. NewFindings(r) = F
  BY MarkRestates
<1>3. CASE \A g \in S : g.id = id => g.state = state
  <2>1. Restated(r) = {}
    BY <1>3, MarkRestates
  <2>2. StatesTold(r) = <<>>
    BY <2>1, NoneOrOne
  <2>3. Marked(base, id, state) = base
    <3>1. SetState(S, id, state) = S
      BY <1>1, <1>3, SetStateRecords
    <3> QED BY <1>1, <3>1 DEF Marked, Review
  <2> QED BY <1>2, <2>2, <2>3, ToldNone
<1>4. CASE \E g \in S : g.id = id /\ g.state # state
  <2>1. PICK g \in S : g.id = id /\ g.state # state
    BY <1>4
  <2> DEFINE f == [g EXCEPT !.state = state]
             x == Entry("FindingStateChanged", r, [id |-> f.id, state |-> f.state])
  <2>2. f.id = id /\ f.state = state
    BY <1>1, <2>1 DEF Finding
  <2>3. Restated(r) = {f}
    BY <2>1, MarkRestates
  <2>4. f \in reviews'[r].findings
    BY <2>3 DEF Restated
  <2> HIDE DEF f
  <2>5. StatesTold(r) = <<x>>
    BY <2>3, NoneOrOne
  <2>6. x \in Amendment
    BY <2>4, ReviewNews
  <2>7. Fits(base, DOMAIN critics, x) /\ x.id = r
    BY <2>6 DEF Fits, Entry
  <2>8. Amended(base, x) = Marked(base, id, state)
    BY <2>2 DEF Amended, Entry, Marked
  <2>9. Kempt(Amended(base, x), DOMAIN critics) /\ Told(<<x>>, r, base, Amended(base, x))
    BY <2>7, AmendedKempt, ToldOne
  <2> QED BY <1>2, <2>5, <2>8, <2>9
<1> QED
  BY <1>3, <1>4

\* One new finding is told of after the finding it supersedes, if any.
LEMMA FindingIsTold ==
    ASSUME TypeOK', NEW r \in DOMAIN reviews', NEW base, Kempt(base, DOMAIN critics),
           NEW finding \in reviews'[r].findings, finding.id = Fresh(base.findings),
           NewFindings(r) = {finding}
    PROVE  LET x == Entry("FindingRecorded", r, finding) IN
           /\ Told(FindingTold(r), r, base, Amended(base, x))
           /\ Kempt(Amended(base, x), DOMAIN critics)
<1> DEFINE x == Entry("FindingRecorded", r, finding)
<1>1. FindingTold(r) = <<x>>
  BY NoneOrOne
<1>2. x \in Amendment
  BY ReviewNews
<1>3. Fits(base, DOMAIN critics, x) /\ x.id = r
  BY <1>2 DEF Fits, Entry
<1> HIDE DEF x
<1>4. Told(<<x>>, r, base, Amended(base, x)) /\ Kempt(Amended(base, x), DOMAIN critics)
  BY <1>3, ToldOne, AmendedKempt
<1> QED
  BY <1>1, <1>4 DEF x

LEMMA SubmitFindingReplayed ==
    ASSUME Exact, TypeOK', NEW m, NEW input, NEW supersedes, SubmitFinding(m, input, supersedes)
    PROVE  CallExact
<1> DEFINE r == m.review
           old == reviews[r]
           finding ==
             [id |-> Fresh(old.findings), critic |-> m.critic,
              criticGeneration |-> m.criticGeneration,
              assignment |-> ActiveAssignment(old, m.critic).ordinal,
              worker |-> m.worker, boot |-> m.boot,
              targetGeneration |-> old.targetGeneration,
              category |-> input.category, severity |-> input.severity,
              outcome |-> input.outcome, evidence |-> input.evidence,
              cited |-> input.evidence, explanation |-> input.explanation,
              state |-> "Current"]
           cited == {IF e.id \in Range(input.evidence) /\ e.finding = NoId
                     THEN [e EXCEPT !.finding = finding.id] ELSE e : e \in old.evidences}
           recorded == [old EXCEPT
                          !.findings = SetState(@, supersedes, "Superseded") \cup {finding},
                          !.evidences = cited]
           moves == old.state \in {"Assigned", "Reviewing"}
           new == IF moves THEN [recorded EXCEPT !.state = "FindingsReceived", !.disposition = "None",
                                                 !.authorityCurrent = TRUE]
                  ELSE recorded
           mid == Marked(old, supersedes, "Superseded")
           x == Entry("FindingRecorded", r, finding)
<1>1. /\ r \in DOMAIN reviews /\ old \in Review /\ Kempt(old, DOMAIN critics)
      /\ Numbered(old.findings) /\ old.findings \in SUBSET Finding
      /\ old.evidences \in SUBSET Evidence
  <2>1. r \in DOMAIN reviews /\ old \in Review /\ Kempt(old, DOMAIN critics)
    BY SpokenToKempt DEF SubmitFinding
  <2> QED BY <2>1 DEF Kempt, Review
<1>2. reviews' = [reviews EXCEPT ![r] = new] /\ UNCHANGED <<epoch, registry>>
  <2>1. finding.id = Fresh(old.findings)
    OBVIOUS
  <2> QED BY <2>1 DEF SubmitFinding
<1>3. reviews'[r] = new /\ r \in DOMAIN reviews'
  BY <1>1, <1>2
<1>4. /\ new.assignments = old.assignments
      /\ new.findings = SetState(old.findings, supersedes, "Superseded") \cup {finding}
      /\ new.evidences = cited /\ new.challenges = old.challenges
      /\ new.decision = old.decision
      /\ finding.id = Fresh(old.findings) /\ finding.evidence = input.evidence
  BY <1>1 DEF Review
<1>5. mid.evidences = old.evidences /\ mid.findings = SetState(old.findings, supersedes, "Superseded")
  BY <1>1 DEF Marked, Review
<1>6. \A e \in cited : \E d \in old.evidences : e.id = d.id
  <2> HIDE DEF finding, old
  <2>1. ASSUME NEW d \in old.evidences
        PROVE  (IF d.id \in Range(input.evidence) /\ d.finding = NoId
                THEN [d EXCEPT !.finding = finding.id] ELSE d).id = d.id
    BY <1>1 DEF Evidence
  <2> QED BY <2>1
<1>7. Amended(mid, x) = recorded
  <2> HIDE DEF finding
  <2>1. /\ x.type = "FindingRecorded" /\ x.value = finding
    BY DEF Entry
  <2>2. Amended(mid, x) = [mid EXCEPT !.findings = @ \cup {finding}, !.evidences = cited]
    <3>1. {IF e.id \in Range(finding.evidence) /\ e.finding = NoId
           THEN [e EXCEPT !.finding = finding.id] ELSE e : e \in mid.evidences} = cited
      BY <1>4, <1>5
    <3> HIDE DEF x, mid, cited
    <3> QED BY <2>1, <3>1 DEF Amended
  <2> QED BY <1>1, <2>2 DEF Marked, Review
<1>8. \A f \in {finding}, g \in old.findings : f.id # g.id
  BY <1>1, <1>4, FreshIsNew
<1>9. moves => /\ StateEntry(r, new) # StateEntry(r, old)
               /\ Stated(recorded, new) = new
  <2> HIDE DEF finding, cited
  <2>1. SUFFICES ASSUME moves PROVE /\ StateEntry(r, new) # StateEntry(r, old)
                                    /\ Stated(recorded, new) = new
    OBVIOUS
  <2>2. new = [recorded EXCEPT !.state = "FindingsReceived", !.disposition = "None",
                               !.authorityCurrent = TRUE]
    BY <2>1
  <2>3. new.state = "FindingsReceived" /\ old.state # "FindingsReceived"
    BY <1>1, <2>1, <2>2 DEF Review
  <2>4. Stated(recorded, new) = new
    BY <1>1, <2>2 DEF Stated, Review
  <2> HIDE DEF new, old
  <2> QED BY <2>3, <2>4 DEF StateEntry, Entry
<1>10. ~moves => new = recorded /\ new = Stated(new, old)
  <2> HIDE DEF finding, cited
  <2>1. SUFFICES ASSUME ~moves PROVE new = Stated(new, old)
    OBVIOUS
  <2>2. new = recorded
    BY <2>1
  <2>3. recorded = Stated(recorded, old)
    BY <1>1 DEF Stated, Review
  <2> QED BY <2>2, <2>3
<1> HIDE DEF finding, cited, recorded, moves, new, mid
<1>11. /\ NewFindings(r) = {finding} /\ Told(StatesTold(r), r, old, mid)
       /\ Kempt(mid, DOMAIN critics)
  <2> DEFINE F == {finding}
  <2>1. Marking(r, supersedes, "Superseded", F)
    BY <1>1, <1>3, <1>4, <1>8 DEF Marking
  <2> HIDE DEF F
  <2>2. /\ NewFindings(r) = F /\ Told(StatesTold(r), r, old, mid)
        /\ Kempt(mid, DOMAIN critics)
    BY <1>1, <1>3, <2>1, MarksTold DEF mid
  <2> QED BY <2>2 DEF F
<1>12. Fresh(mid.findings) = Fresh(old.findings)
  BY <1>1, <1>5, SetStateRecords DEF Fresh
<1>13. finding \in reviews'[r].findings
  BY <1>3, <1>4
<1>14. Told(FindingTold(r), r, mid, recorded) /\ Kempt(recorded, DOMAIN critics)
  BY <1>3, <1>4, <1>7, <1>11, <1>12, <1>13, FindingIsTold
<1>15. EvidenceTold(r) = <<>>
  <2>1. NewEvidence(r) = {}
    BY <1>3, <1>4, <1>6 DEF NewEvidence
  <2> QED BY <2>1, NoneOrOne
<1>16. /\ GrantTold(r) = <<>> /\ RulingTold(r) = <<>> /\ ChallengeTold(r) = <<>>
  BY <1>3, <1>4, QuietRecords
<1>17. Told(StateNews(r), r, recorded, new)
  <2>1. CASE moves
    BY <1>3, <1>9, <1>14, <2>1, StateChangeTold
  <2>2. CASE ~moves
    <3>1. Told(StateNews(r), r, new, reviews'[r])
      BY <1>3, <1>10, <1>14, <2>2, StateNewsTold
    <3> QED BY <1>3, <1>10, <2>2, <3>1
  <2> QED BY <2>1, <2>2
<1>18. Kempt(new, DOMAIN critics)
  <2>1. new \in Review
    BY <1>3 DEF TypeOK, ReviewsTypeOK, IsMap
  <2>2. /\ new.findings = recorded.findings /\ new.evidences = recorded.evidences
        /\ new.challenges = recorded.challenges /\ new.assignments = recorded.assignments
    BY <1>14 DEF new, Kempt, Review
  <2> QED BY <1>14, <2>1, <2>2 DEF Kempt
<1> HIDE DEF old
<1>19. Told(ReviewEntries(r), r, old, new)
  BY <1>11, <1>14, <1>15, <1>16, <1>17, ToldNone, BlocksTold
<1> QED
  BY <1>1, <1>2, <1>18, <1>19, OneReviewTold DEF old

\* One challenge is told of, raised or resolved.
LEMMA ChallengeIsTold ==
    ASSUME TypeOK', NEW r \in DOMAIN reviews', NEW base, Kempt(base, DOMAIN critics),
           NEW c \in reviews'[r].challenges, NewChallenges(r) = {c},
           c.id = Fresh(base.challenges) \/ \E ch \in base.challenges : ch.id = c.id
    PROVE  LET x == Entry("ChallengeRecorded", r, c) IN
           /\ Told(ChallengeTold(r), r, base, Amended(base, x))
           /\ Kempt(Amended(base, x), DOMAIN critics)
<1> DEFINE x == Entry("ChallengeRecorded", r, c)
<1>1. ChallengeTold(r) = <<x>>
  BY NoneOrOne
<1>2. x \in Amendment
  BY ReviewNews
<1>3. Fits(base, DOMAIN critics, x) /\ x.id = r
  BY <1>2 DEF Fits, Entry
<1> HIDE DEF x
<1>4. Told(<<x>>, r, base, Amended(base, x)) /\ Kempt(Amended(base, x), DOMAIN critics)
  BY <1>3, ToldOne, AmendedKempt
<1> QED
  BY <1>1, <1>4 DEF x

LEMMA SubmitChallengeReplayed ==
    ASSUME Exact, TypeOK', NEW m, NEW id, SubmitChallenge(m, id)
    PROVE  CallExact
<1> DEFINE r == m.review
           old == reviews[r]
           c == [id |-> Fresh(old.challenges), finding |-> id,
                 challenger |-> m.critic, resolved |-> FALSE, outcome |-> "Unresolved"]
           challenged == [old EXCEPT !.challenges = @ \cup {c},
                                     !.findings = SetState(@, id, "Challenged")]
           moves == old.state # "Challenged"
           new == IF moves THEN [challenged EXCEPT !.state = "Challenged", !.disposition = "None",
                                                   !.authorityCurrent = TRUE]
                  ELSE challenged
           x == Entry("ChallengeRecorded", r, c)
           raised == Amended(old, x)
<1>1. /\ r \in DOMAIN reviews /\ old \in Review /\ Kempt(old, DOMAIN critics)
      /\ Numbered(old.findings) /\ old.findings \in SUBSET Finding
      /\ Numbered(old.challenges)
  <2>1. r \in DOMAIN reviews /\ old \in Review /\ Kempt(old, DOMAIN critics)
    BY SpokenToKempt DEF SubmitChallenge
  <2> QED BY <2>1 DEF Kempt, Review
<1>2. reviews' = [reviews EXCEPT ![r] = new] /\ UNCHANGED <<epoch, registry>>
  BY DEF SubmitChallenge
<1>3. reviews'[r] = new /\ r \in DOMAIN reviews'
  BY <1>1, <1>2
<1>4. /\ new.assignments = old.assignments
      /\ new.findings = SetState(old.findings, id, "Challenged")
      /\ new.evidences = old.evidences /\ new.challenges = old.challenges \cup {c}
      /\ new.decision = old.decision
      /\ c.id = Fresh(old.challenges)
  BY <1>1 DEF Review
<1>5. \A ch \in old.challenges : ch.id # c.id
  BY <1>1, <1>4, FreshIsNew
<1>6. raised = [old EXCEPT !.challenges = @ \cup {c}]
  <2>1. x.type = "ChallengeRecorded" /\ x.value = c
    BY DEF Entry
  <2>2. {ch \in old.challenges : ch.id # c.id} \cup {c} = old.challenges \cup {c}
    BY <1>5
  <2> HIDE DEF x, c
  <2> QED BY <2>1, <2>2 DEF Amended
<1>7. Marked(raised, id, "Challenged") = challenged /\ raised.findings = old.findings
  <2> HIDE DEF c, x, raised
  <2> QED BY <1>1, <1>6 DEF Marked, Review
<1>8. moves => /\ StateEntry(r, new) # StateEntry(r, old)
               /\ Stated(challenged, new) = new
  <2> HIDE DEF c
  <2>1. SUFFICES ASSUME moves PROVE /\ StateEntry(r, new) # StateEntry(r, old)
                                    /\ Stated(challenged, new) = new
    OBVIOUS
  <2>2. new = [challenged EXCEPT !.state = "Challenged", !.disposition = "None",
                                 !.authorityCurrent = TRUE]
    BY <2>1
  <2>3. new.state = "Challenged" /\ old.state # "Challenged"
    BY <1>1, <2>1, <2>2 DEF Review
  <2>4. Stated(challenged, new) = new
    BY <1>1, <2>2 DEF Stated, Review
  <2> HIDE DEF new, old
  <2> QED BY <2>3, <2>4 DEF StateEntry, Entry
<1>9. ~moves => new = challenged /\ new = Stated(new, old)
  <2> HIDE DEF c
  <2>1. SUFFICES ASSUME ~moves PROVE new = Stated(new, old)
    OBVIOUS
  <2>2. new = challenged
    BY <2>1
  <2>3. challenged = Stated(challenged, old)
    BY <1>1 DEF Stated, Review
  <2> QED BY <2>2, <2>3
<1>10. NewChallenges(r) = {c}
  <2> HIDE DEF c, new
  <2> QED BY <1>3, <1>4, <1>5 DEF NewChallenges
<1> HIDE DEF c, challenged, moves, new, raised
<1>11. Told(ChallengeTold(r), r, old, raised) /\ Kempt(raised, DOMAIN critics)
  <2>1. c \in reviews'[r].challenges
    BY <1>3, <1>4
  <2> QED BY <1>1, <1>3, <1>4, <1>10, <2>1, ChallengeIsTold DEF raised
<1>12. /\ NewFindings(r) = {} /\ Told(StatesTold(r), r, raised, challenged)
       /\ Kempt(challenged, DOMAIN critics)
  <2>1. Marking(r, id, "Challenged", {})
    BY <1>1, <1>3, <1>4 DEF Marking
  <2> QED BY <1>1, <1>3, <1>7, <1>11, <2>1, MarksTold
<1>13. /\ GrantTold(r) = <<>> /\ RulingTold(r) = <<>> /\ EvidenceTold(r) = <<>>
       /\ FindingTold(r) = <<>>
  BY <1>3, <1>4, <1>12, QuietRecords, NoneOrOne
<1>14. Told(StateNews(r), r, challenged, new)
  <2>1. CASE moves
    BY <1>3, <1>8, <1>12, <2>1, StateChangeTold
  <2>2. CASE ~moves
    <3>1. Told(StateNews(r), r, new, reviews'[r])
      BY <1>3, <1>9, <1>12, <2>2, StateNewsTold
    <3> QED BY <1>3, <1>9, <2>2, <3>1
  <2> QED BY <2>1, <2>2
<1>15. Kempt(new, DOMAIN critics)
  <2>1. new \in Review
    BY <1>3 DEF TypeOK, ReviewsTypeOK, IsMap
  <2>2. /\ new.findings = challenged.findings /\ new.evidences = challenged.evidences
        /\ new.challenges = challenged.challenges /\ new.assignments = challenged.assignments
    BY <1>12 DEF new, Kempt, Review
  <2> QED BY <1>12, <2>1, <2>2 DEF Kempt
<1> HIDE DEF old
<1>16. Told(ReviewEntries(r), r, old, new)
  BY <1>11, <1>12, <1>13, <1>14, ToldNone, BlocksTold
<1> QED
  BY <1>1, <1>2, <1>15, <1>16, OneReviewTold DEF old

LEMMA SubmitRebuttalReplayed ==
    ASSUME Exact, TypeOK', NEW m, NEW id, NEW outcome, SubmitRebuttal(m, id, outcome)
    PROVE  CallExact
<1> DEFINE r == m.review
           old == reviews[r]
<1>1. /\ r \in DOMAIN reviews /\ old \in Review /\ Kempt(old, DOMAIN critics)
      /\ Numbered(old.findings) /\ old.findings \in SUBSET Finding
      /\ Numbered(old.challenges) /\ old.challenges \in SUBSET Challenge
      /\ old.roundsUsed \in Nat
  <2>1. r \in DOMAIN reviews /\ old \in Review /\ Kempt(old, DOMAIN critics)
    BY SpokenToKempt DEF SubmitRebuttal
  <2> QED BY <2>1 DEF Kempt, Review
<1>2. PICK challenge \in old.challenges :
         /\ ~challenge.resolved
         /\ reviews' = [reviews EXCEPT ![r] =
              [old EXCEPT
                 !.challenges = (@ \ {challenge}) \cup
                     {[challenge EXCEPT !.resolved = TRUE, !.outcome = outcome]},
                 !.findings = SetState(@, challenge.finding, AfterRebuttal(outcome)),
                 !.state = "Evaluating", !.disposition = "None", !.authorityCurrent = TRUE,
                 !.roundsUsed = @ + 1]]
         /\ UNCHANGED <<epoch, registry>>
  BY DEF SubmitRebuttal
<1> DEFINE c == [challenge EXCEPT !.resolved = TRUE, !.outcome = outcome]
           f == challenge.finding
           state == AfterRebuttal(outcome)
           new == [old EXCEPT
                     !.challenges = (@ \ {challenge}) \cup {c}, !.findings = SetState(@, f, state),
                     !.state = "Evaluating", !.disposition = "None", !.authorityCurrent = TRUE,
                     !.roundsUsed = @ + 1]
           x == Entry("ChallengeRecorded", r, c)
           raised == Amended(old, x)
           mid == Marked(raised, f, state)
<1>3. /\ reviews' = [reviews EXCEPT ![r] = new] /\ reviews'[r] = new /\ r \in DOMAIN reviews'
      /\ UNCHANGED <<epoch, registry>>
  BY <1>1, <1>2
<1>4. /\ new.assignments = old.assignments
      /\ new.findings = SetState(old.findings, f, state)
      /\ new.evidences = old.evidences
      /\ new.challenges = (old.challenges \ {challenge}) \cup {c}
      /\ new.decision = old.decision /\ new.roundsUsed = old.roundsUsed + 1
  BY <1>1 DEF Review
<1>5. c.id = challenge.id /\ c.resolved = TRUE
  BY <1>1 DEF Challenge
<1>6. c \notin old.challenges
  BY <1>1, <1>2, <1>5 DEF Numbered
<1>7. raised = [old EXCEPT !.challenges = (@ \ {challenge}) \cup {c}]
  <2>1. x.type = "ChallengeRecorded" /\ x.value = c
    BY DEF Entry
  <2>2. {ch \in old.challenges : ch.id # c.id} = old.challenges \ {challenge}
    BY <1>1, <1>5 DEF Numbered
  <2> HIDE DEF x, c
  <2> QED BY <2>1, <2>2 DEF Amended
<1>8. raised.findings = old.findings
  <2> HIDE DEF c, x, raised
  <2> QED BY <1>1, <1>7 DEF Review
<1>9. Stated(mid, new) = new
  <2> HIDE DEF c, x, raised, f, state
  <2> QED BY <1>1, <1>7 DEF Marked, Stated, Review
<1>10. StateEntry(r, new) # StateEntry(r, old)
  <2> HIDE DEF new, old
  <2> QED BY <1>1, <1>4 DEF StateEntry, Entry
<1> HIDE DEF c, new, raised, f, state, mid
<1>11. NewChallenges(r) = {c}
  BY <1>3, <1>4, <1>6 DEF NewChallenges
<1>12. Told(ChallengeTold(r), r, old, raised) /\ Kempt(raised, DOMAIN critics)
  <2>1. c \in reviews'[r].challenges /\ \E ch \in old.challenges : ch.id = c.id
    BY <1>3, <1>4, <1>5
  <2> QED BY <1>1, <1>3, <1>11, <2>1, ChallengeIsTold DEF raised
<1>13. /\ NewFindings(r) = {} /\ Told(StatesTold(r), r, raised, mid)
       /\ Kempt(mid, DOMAIN critics)
  <2>1. Marking(r, f, state, {})
    BY <1>1, <1>3, <1>4 DEF Marking
  <2> QED BY <1>1, <1>3, <1>8, <1>12, <2>1, MarksTold DEF mid
<1>14. /\ GrantTold(r) = <<>> /\ RulingTold(r) = <<>> /\ EvidenceTold(r) = <<>>
       /\ FindingTold(r) = <<>>
  BY <1>3, <1>4, <1>13, QuietRecords, NoneOrOne
<1>15. Told(StateNews(r), r, mid, new)
  BY <1>3, <1>9, <1>10, <1>13, StateChangeTold
<1>16. Kempt(new, DOMAIN critics)
  <2>1. new \in Review
    BY <1>3 DEF TypeOK, ReviewsTypeOK, IsMap
  <2>2. /\ new.findings = mid.findings /\ new.evidences = mid.evidences
        /\ new.challenges = mid.challenges /\ new.assignments = mid.assignments
    <3>1. mid \in Review /\ raised \in Review
      BY <1>12, <1>13 DEF Kempt
    <3> QED BY <1>1, <1>4, <1>7, <3>1 DEF mid, Marked, Review
  <2> QED BY <1>13, <2>1, <2>2 DEF Kempt
<1> HIDE DEF old
<1>17. Told(ReviewEntries(r), r, old, new)
  BY <1>12, <1>13, <1>14, <1>15, ToldNone, BlocksTold
<1> QED
  BY <1>1, <1>3, <1>16, <1>17, OneReviewTold DEF old

-----------------------------------------------------------------------------
(* Reviews and targets.                                                    *)

\* The blocks of a call, one after the other.
LEMMA CallTold ==
    ASSUME NEW a, NEW b, NEW c, NEW d, Replayed(TargetEntries, durable, a),
           Replayed(CriticEntries, a, b), Replayed(OfWorkers, b, c), Replayed(Recorded, c, d),
           Reached(d)
    PROVE  CallExact
<1>1. Replayed(TargetEntries \o CriticEntries, durable, b)
  BY ReplayedBoth
<1>2. Replayed((TargetEntries \o CriticEntries) \o OfWorkers, durable, c)
  BY <1>1, ReplayedBoth
<1>3. Replayed(((TargetEntries \o CriticEntries) \o OfWorkers) \o Recorded, durable, d)
  BY <1>2, ReplayedBoth
<1> QED
  BY <1>3, CallInBlocks DEF CallExact

\* Blocks that have nothing to say.
LEMMA QuietBlocks ==
    ASSUME NEW store, Sound(store)
    PROVE  /\ UNCHANGED targets => Replayed(TargetEntries, store, store)
           /\ UNCHANGED critics => Replayed(CriticEntries, store, store)
           /\ UNCHANGED workers \/ critics' # critics => Replayed(OfWorkers, store, store)
           /\ registry' # registry => Replayed(Recorded, store, store)
<1>1. UNCHANGED workers \/ critics' # critics => OfWorkers = <<>>
  BY QuietWorkers DEF OfWorkers
<1>2. registry' # registry => Recorded = <<>>
  BY DEF Recorded
<1> QED
  BY <1>1, <1>2, QuietTargets, QuietCritics, ReplayedNone

\* A review that holds no records.
LEMMA BlankKempt ==
    ASSUME NEW rev \in Review, NEW D, rev.assignments = {}, rev.findings = {},
           rev.evidences = {}, rev.challenges = {}
    PROVE  Kempt(rev, D)
<1>1. Numbered({}) /\ Seated({})
  BY FS_EmptySet DEF Numbered, Seated, SeatsNumbered, NewestOnly
<1> QED
  BY <1>1 DEF Kempt

LEMMA DeclareReviewReplayed ==
    ASSUME Exact, TypeOK', NEW e, NEW r, NEW t, NEW g, NEW spec, DeclareReview(e, r, t, g, spec)
    PROVE  CallExact
<1> DEFINE rev == [spec |-> spec, state |-> "Declared", disposition |-> "None",
                   target |-> t, targetGeneration |-> g,
                   digest |-> Digest(targets[t].content),
                   authorityCurrent |-> TRUE, roundsUsed |-> 0,
                   assignments |-> {}, findings |-> {}, evidences |-> {},
                   challenges |-> {}, decision |-> NoDecision]
           x == Entry("ReviewDeclared", r, rev)
           declared == [q \in DOMAIN reviews' \ DOMAIN reviews |->
                          Entry("ReviewDeclared", q, reviews'[q])]
           rest == [q \in DOMAIN reviews |-> ReviewEntries(q)]
           end == Applied(durable, x)
<1>1. /\ r \notin DOMAIN reviews /\ reviews' = Put(reviews, r, rev) /\ UNCHANGED <<epoch, registry>>
      /\ rev.assignments = {} /\ rev.findings = {} /\ rev.evidences = {} /\ rev.challenges = {}
  BY DEF DeclareReview
<1> HIDE DEF rev
<1>2. /\ DOMAIN reviews' = DOMAIN reviews \cup {r} /\ reviews'[r] = rev
      /\ \A q \in DOMAIN reviews : reviews'[q] = reviews[q]
  BY <1>1 DEF Put
<1>3. rev \in Review /\ r \in Requests
  BY <1>2 DEF TypeOK, ReviewsTypeOK, IsMap
<1>4. x \in Entries /\ x.type = "ReviewDeclared" /\ x.id = r /\ x.value = rev
  BY <1>3 DEF Entry, Entries, Declaration, About
<1>5. Sound(durable) /\ Shape(durable) /\ durable.reviews = reviews
  BY DEF Exact, Agrees, Sound
<1> HIDE DEF x
<1>6. /\ Shape(end) /\ end.epoch = durable.epoch /\ end.targets = durable.targets
      /\ end.critics = durable.critics /\ end.workers = durable.workers
      /\ end.incumbents = durable.incumbents /\ end.reviews = reviews'
  BY <1>1, <1>4, <1>5, AppliedGlobal DEF Global
<1> HIDE DEF end
<1>7. Sound(end)
  <2>1. reviews' = [q \in DOMAIN reviews' |-> reviews'[q]]
    BY DEF TypeOK, ReviewsTypeOK, IsMap
  <2>2. Kempt(rev, DOMAIN durable.critics)
    BY <1>1, <1>3, BlankKempt
  <2>3. \A q \in DOMAIN reviews' : Kempt(reviews'[q], DOMAIN durable.critics)
    BY <1>2, <1>5, <2>2 DEF Sound
  <2> QED BY <1>5, <1>6, <2>1, <2>3 DEF Sound
<1>8. Replayed(<<x>>, durable, end)
  BY <1>4, <1>5, <1>7, ReplayedOne DEF end
<1>9. DeclaredEntries = <<x>>
  <2>1. DOMAIN declared = {r} /\ declared[r] = x
    BY <1>1, <1>2 DEF x
  <2>2. DeclaredEntries = Each(declared)
    BY DEF DeclaredEntries
  <2> HIDE DEF declared
  <2> QED BY <2>1, <2>2, EachOne
<1>10. Replayed(OfReviews, end, end)
  <2>1. /\ rest = [q \in DOMAIN rest |-> rest[q]] /\ DOMAIN rest = DOMAIN reviews
        /\ OfReviews = Joined(rest)
    BY DEF OfReviews
  <2>2. \A q \in DOMAIN rest : rest[q] = <<>>
    BY <1>2, QuietReview
  <2>3. IsFiniteSet(DOMAIN rest)
    BY <2>1 DEF Exact, FiniteMaps
  <2> HIDE DEF rest
  <2> QED BY <1>7, <2>1, <2>2, <2>3, JoinedNothing
<1>11. Replayed(Recorded, durable, end)
  <2>1. Recorded = DeclaredEntries \o OfReviews
    BY <1>1 DEF Recorded
  <2> QED BY <1>8, <1>9, <1>10, <2>1, ReplayedBoth
<1>12. Reached(end)
  BY <1>1, <1>6 DEF Reached, Exact, Agrees, registry
<1>13. UNCHANGED targets /\ UNCHANGED critics /\ UNCHANGED workers
  BY <1>1 DEF registry
<1> QED
  BY <1>5, <1>11, <1>12, <1>13, QuietBlocks, CallTold

\* The findings S, those of A invalidated.
Invalid(S, A) == {IF f \in A THEN [f EXCEPT !.state = "Invalidated"] ELSE f : f \in S}

Invalidation(r, f) == Entry("FindingStateChanged", r, [id |-> f.id, state |-> "Invalidated"])

LEMMA InvalidMore ==
    ASSUME NEW S \in SUBSET Finding, Numbered(S), NEW A, NEW f \in S
    PROVE  SetState(Invalid(S, A), f.id, "Invalidated") = Invalid(S, A \cup {f})
<1> DEFINE F == [g \in S |-> IF g \in A THEN [g EXCEPT !.state = "Invalidated"] ELSE g]
           G == [g \in S |-> IF g \in A \cup {f} THEN [g EXCEPT !.state = "Invalidated"] ELSE g]
<1>1. \A g \in S : F[g].id = g.id
  BY DEF Finding
<1>2. \A g \in S : g.id = f.id => g = f
  BY DEF Numbered
<1>3. \A g \in S : g # f => G[g] = F[g]
  OBVIOUS
<1>4. G[f] = [f EXCEPT !.state = "Invalidated"] /\ [F[f] EXCEPT !.state = "Invalidated"] = G[f]
  BY DEF Finding
<1>5. Invalid(S, A) = {F[g] : g \in S} /\ Invalid(S, A \cup {f}) = {G[g] : g \in S}
  BY DEF Invalid
<1> HIDE DEF F, G
<1>6. \A g \in S :
         (IF F[g].id = f.id THEN [F[g] EXCEPT !.state = "Invalidated"] ELSE F[g]) = G[g]
  BY <1>1, <1>2, <1>3, <1>4
<1> DEFINE N == {IF h.id = f.id THEN [h EXCEPT !.state = "Invalidated"] ELSE h
                   : h \in Invalid(S, A)}
<1>7. N = {G[g] : g \in S}
  <2>1. ASSUME NEW x \in N
        PROVE  x \in {G[g] : g \in S}
    <3>1. PICK h \in Invalid(S, A) :
             x = IF h.id = f.id THEN [h EXCEPT !.state = "Invalidated"] ELSE h
      OBVIOUS
    <3>2. PICK g \in S : h = F[g]
      BY <1>5
    <3>3. x = G[g]
      BY <1>6, <3>1, <3>2
    <3> QED BY <3>3
  <2>2. ASSUME NEW g \in S
        PROVE  G[g] \in N
    <3>1. F[g] \in Invalid(S, A)
      BY <1>5
    <3> QED BY <1>6, <3>1
  <2> QED BY <2>1, <2>2
<1>8. SetState(Invalid(S, A), f.id, "Invalidated") = N
  BY DEF SetState
<1> QED
  BY <1>5, <1>7, <1>8

LEMMA InvalidKempt ==
    ASSUME NEW rev, NEW D, Kempt(rev, D), NEW A
    PROVE  /\ Kempt([rev EXCEPT !.findings = Invalid(rev.findings, A)], D)
           /\ Invalid(rev.findings, {}) = rev.findings
<1> DEFINE S == rev.findings
           F == [f \in S |-> IF f \in A THEN [f EXCEPT !.state = "Invalidated"] ELSE f]
           new == [rev EXCEPT !.findings = Invalid(S, A)]
<1>1. rev \in Review /\ S \in SUBSET Finding /\ Numbered(S)
  BY DEF Kempt, Review
<1>2. \A f \in S : F[f].id = f.id /\ F[f] \in Finding
  <2>1. \A f \in Finding : /\ [f EXCEPT !.state = "Invalidated"] \in Finding
                           /\ [f EXCEPT !.state = "Invalidated"].id = f.id
    BY DEF Finding, FindingStates
  <2>2. \A f \in S : f \in Finding
    BY <1>1
  <2> QED BY <2>1, <2>2
<1>3. Invalid(S, A) = {F[f] : f \in S} /\ F = [f \in S |-> F[f]]
  BY DEF Invalid
<1> HIDE DEF F
<1>4. Numbered(Invalid(S, A)) /\ Invalid(S, A) \in SUBSET Finding
  BY <1>1, <1>2, <1>3, NumberedImage
<1>5. /\ new \in Review /\ new.findings = Invalid(S, A) /\ new.evidences = rev.evidences
      /\ new.challenges = rev.challenges /\ new.assignments = rev.assignments
  <2> HIDE DEF S
  <2> QED BY <1>1, <1>4 DEF Review
<1> HIDE DEF new
<1>6. Kempt(new, D)
  BY <1>4, <1>5 DEF Kempt
<1>7. Invalid(S, {}) = S
  BY DEF Invalid
<1> QED
  BY <1>6, <1>7 DEF new

\* The findings A of a review are invalidated in whatever order.
LEMMA InvalidTold ==
    ASSUME NEW rev, Kempt(rev, DOMAIN critics), NEW A \in SUBSET rev.findings, NEW r \in Requests
    PROVE  Told(Each([f \in A |-> Invalidation(r, f)]), r, rev,
                [rev EXCEPT !.findings = Invalid(rev.findings, A)])
<1> DEFINE S == {Invalidation(r, f) : f \in A}
           Gone(T) == {f \in A : Invalidation(r, f) \in T}
           g == [T \in SUBSET S |-> [rev EXCEPT !.findings = Invalid(rev.findings, Gone(T))]]
<1>1. /\ rev \in Review /\ rev.findings \in SUBSET Finding /\ Numbered(rev.findings)
      /\ IsFiniteSet(rev.findings)
  BY DEF Kempt, Review, Numbered
<1>2. ASSUME NEW f \in A
      PROVE  Invalidation(r, f) \in Amendment \cup Ruling /\ Invalidation(r, f).id = r
  <2>1. [id |-> f.id, state |-> "Invalidated"] \in [id : Ids, state : FindingStates]
    BY <1>1 DEF Finding, FindingStates
  <2> QED BY <2>1 DEF Invalidation, Entry, Amendment, About
<1>3. S \in SUBSET (Amendment \cup Ruling) /\ \A x \in S : x.id = r
  BY <1>2
<1>4. IsFiniteSet(S)
  <2>1. IsFiniteSet(A)
    BY <1>1, FS_Subset
  <2> DEFINE f == [a \in A |-> Invalidation(r, a)]
  <2>2. f = [a \in A |-> f[a]] /\ S = {f[a] : a \in A}
    OBVIOUS
  <2> HIDE DEF f, S
  <2> QED BY <2>1, <2>2, FiniteImage
<1>5. \A T \in SUBSET S : g[T] = [rev EXCEPT !.findings = Invalid(rev.findings, Gone(T))]
  OBVIOUS
<1>6. ASSUME NEW T \in SUBSET S
      PROVE  Kempt(g[T], DOMAIN critics)
  BY <1>5, InvalidKempt
<1>7. ASSUME NEW a \in A, NEW b \in A, Invalidation(r, a) = Invalidation(r, b)
      PROVE  a = b
  <2>1. [id |-> a.id, state |-> "Invalidated"] = [id |-> b.id, state |-> "Invalidated"]
    BY <1>7 DEF Invalidation, Entry
  <2>2. a.id = b.id
    BY <2>1
  <2> QED BY <1>1, <2>2 DEF Numbered
<1>8. ASSUME NEW T \in SUBSET S, NEW x \in S \ T
      PROVE  g[T \cup {x}] = Amended(g[T], x)
  <2>1. PICK a \in A : x = Invalidation(r, a)
    OBVIOUS
  <2>2. Gone(T \cup {x}) = Gone(T) \cup {a}
    BY <1>7, <2>1
  <2>3. T \cup {x} \in SUBSET S
    OBVIOUS
  <2> DEFINE mid == g[T]
             now == Gone(T)
  <2>4. /\ mid = [rev EXCEPT !.findings = Invalid(rev.findings, now)]
        /\ g[T \cup {x}] = [rev EXCEPT !.findings = Invalid(rev.findings, now \cup {a})]
    <3> HIDE DEF Gone, g
    <3> QED BY <1>5, <2>2, <2>3
  <2>5. Amended(mid, x) = [mid EXCEPT !.findings = SetState(mid.findings, a.id, "Invalidated")]
    <3> HIDE DEF mid
    <3> QED BY <2>1 DEF Amended, Invalidation, Entry
  <2> HIDE DEF g, Gone, mid, now
  <2>6. mid.findings = Invalid(rev.findings, now)
    BY <1>1, <2>4 DEF Review
  <2>7. a \in rev.findings
    OBVIOUS
  <2>8. SetState(mid.findings, a.id, "Invalidated") = Invalid(rev.findings, now \cup {a})
    BY <1>1, <2>6, <2>7, InvalidMore
  <2>9. [mid EXCEPT !.findings = Invalid(rev.findings, now \cup {a})]
          = [rev EXCEPT !.findings = Invalid(rev.findings, now \cup {a})]
    BY <1>1, <2>4 DEF Review
  <2> QED BY <2>4, <2>5, <2>8, <2>9 DEF mid
<1>9. g[{}] = rev
  <2>1. Gone({}) = {}
    OBVIOUS
  <2>2. g[{}] = [rev EXCEPT !.findings = Invalid(rev.findings, {})]
    BY <1>5, <2>1
  <2>3. Invalid(rev.findings, {}) = rev.findings
    BY InvalidKempt
  <2> HIDE DEF g
  <2> QED BY <1>1, <2>2, <2>3 DEF Review
<1>10. g[S] = [rev EXCEPT !.findings = Invalid(rev.findings, A)]
  <2>1. Gone(S) = A
    OBVIOUS
  <2> HIDE DEF Gone
  <2> QED BY <1>5, <2>1
<1>11. Each([f \in A |-> Invalidation(r, f)]) = SetToSeq(S)
  BY DEF Each
<1> HIDE DEF S, g
<1>12. /\ \A T \in SUBSET S : Kempt(g[T], DOMAIN critics)
       /\ \A T \in SUBSET S : \A x \in S \ T : g[T \cup {x}] = Amended(g[T], x)
  BY <1>6, <1>8
<1>13. Told(SetToSeq(S), r, g[{}], g[S])
  BY <1>3, <1>4, <1>12, ToldEach
<1> QED
  BY <1>9, <1>10, <1>11, <1>13

\* What is told of a review that is superseded.
LEMMA ClosingTold ==
    ASSUME TypeOK', NEW r \in DOMAIN reviews', Kempt(reviews[r], DOMAIN critics),
           reviews'[r] = Supersede(reviews[r])
    PROVE  /\ Told(ClosingEntries(r), r, reviews[r], reviews'[r])
           /\ Kempt(reviews'[r], DOMAIN critics)
<1> DEFINE old == reviews[r]
           new == reviews'[r]
           A == {f \in old.findings : f.state \in CurrentFindingStates}
           mid == [old EXCEPT !.findings = Invalid(old.findings, A)]
<1>1. old \in Review /\ new \in Review /\ r \in Requests
  BY DEF TypeOK, ReviewsTypeOK, IsMap, Kempt
<1>2. Told(Each([f \in A |-> Invalidation(r, f)]), r, old, mid)
  <2>1. A \in SUBSET old.findings
    OBVIOUS
  <2> HIDE DEF A
  <2> QED BY <1>1, <2>1, InvalidTold
<1>3. Kempt(mid, DOMAIN critics)
  BY InvalidKempt
<1>4. Invalid(old.findings, A) =
        {IF f.state \in CurrentFindingStates THEN [f EXCEPT !.state = "Invalidated"] ELSE f
           : f \in old.findings}
  BY DEF Invalid
<1>5. /\ new.findings = Invalid(old.findings, A) /\ new.evidences = old.evidences
      /\ new.challenges = old.challenges /\ new.assignments = old.assignments
      /\ new.spec = old.spec /\ new.target = old.target
      /\ new.targetGeneration = old.targetGeneration /\ new.digest = old.digest
      /\ new.decision = old.decision /\ new.roundsUsed = old.roundsUsed
  <2> HIDE DEF A
  <2> QED BY <1>1, <1>4 DEF Supersede, Review
<1>6. mid = Stated(new, old)
  <2> HIDE DEF new, A
  <2> QED BY <1>1, <1>5 DEF Stated, Review
<1> HIDE DEF mid
<1>7. Told(StateNews(r), r, mid, new)
  BY <1>3, <1>6, StateNewsTold
<1>8. ClosingEntries(r) = Each([f \in A |-> Invalidation(r, f)]) \o StateNews(r)
  BY DEF ClosingEntries, StateNews, Invalidation
<1>9. Kempt(new, DOMAIN critics)
  BY <1>1, <1>3, <1>5 DEF Kempt, mid, Review
<1> QED
  BY <1>2, <1>7, <1>8, <1>9, ToldBoth

LEMMA ChangedOne ==
    ASSUME NEW old, NEW new, NEW k, NEW v, new = Put(old, k, v), k \notin DOMAIN old \/ v # old[k]
    PROVE  Changed(old, new) = {k} /\ new[k] = v
  BY DEF Changed, Put

\* register_target, with what it does to the reviews of the target.
LEMMA TargetReplayed ==
    ASSUME Exact, TypeOK', NEW t, NEW v, targets' = Put(targets, t, v),
           t \notin DOMAIN targets \/ v # targets[t],
           UNCHANGED <<epoch, critics, workers, incumbents, nextBootOrder>>,
           DOMAIN reviews' = DOMAIN reviews,
           \A r \in DOMAIN reviews :
              reviews'[r] = reviews[r] \/ reviews'[r] = Supersede(reviews[r])
    PROVE  CallExact
<1> DEFINE x == Entry("TargetRegistered", t, v)
           base == Applied(durable, x)
           stale == {r \in DOMAIN reviews : reviews'[r] # reviews[r]}
           f == [r \in stale |-> ClosingEntries(r)]
           told == [k \in Changed(targets, targets') |-> Entry("TargetRegistered", k, targets'[k])]
           end == Rewritten(base, stale, reviews')
<1>1. Changed(targets, targets') = {t} /\ targets'[t] = v
  BY ChangedOne
<1>2. t \in Targets /\ v \in Target
  <2>1. t \in DOMAIN targets'
    BY <1>1 DEF Changed
  <2> QED BY <1>1, <2>1 DEF TypeOK, RegistryTypeOK, IsMap
<1>3. x \in Entries /\ x.type = "TargetRegistered" /\ x.id = t /\ x.value = v
  BY <1>2 DEF Entry, Entries, Plain
<1>4. Sound(durable) /\ Shape(durable) /\ durable.reviews = reviews /\ AllKempt
      /\ durable.critics = critics /\ durable.targets = targets
  BY ExactGives DEF Exact, Agrees, Sound
<1> HIDE DEF x
<1>5. /\ Shape(base) /\ base.epoch = durable.epoch /\ base.targets = targets'
      /\ base.critics = critics /\ base.workers = durable.workers
      /\ base.incumbents = durable.incumbents /\ base.reviews = reviews
  BY <1>3, <1>4, AppliedGlobal DEF Global
<1> HIDE DEF base
<1>6. Sound(base)
  BY <1>4, <1>5 DEF Sound
<1>7. Replayed(<<x>>, durable, base)
  BY <1>3, <1>4, <1>6, ReplayedOne DEF base
<1>8. Each(told) = <<x>>
  <2>1. DOMAIN told = {t} /\ told[t] = x
    BY <1>1 DEF x
  <2> HIDE DEF told
  <2> QED BY <2>1, EachOne
<1>9. /\ f = [r \in DOMAIN f |-> f[r]] /\ DOMAIN f = stale
      /\ \A r \in stale : f[r] = ClosingEntries(r)
      /\ IsFiniteSet(stale) /\ stale \subseteq DOMAIN reviews
  BY FS_Subset DEF Exact, FiniteMaps
<1>10. TargetEntries = Each(told) \o Joined(f)
  BY <1>1 DEF TargetEntries
<1>11. \A r \in stale : /\ Told(ClosingEntries(r), r, reviews[r], reviews'[r])
                        /\ Kempt(reviews'[r], DOMAIN critics)
  <2>1. TAKE r \in stale
  <2>2. /\ r \in DOMAIN reviews' /\ Kempt(reviews[r], DOMAIN critics)
        /\ reviews'[r] = Supersede(reviews[r])
    BY <1>4 DEF AllKempt
  <2> QED BY <2>2, ClosingTold
<1> HIDE DEF f, stale, told
<1>12. Replayed(Joined(f), base, end)
  BY <1>5, <1>6, <1>9, <1>11, JoinedTold
<1>13. /\ end.epoch = base.epoch /\ end.targets = base.targets
       /\ end.critics = base.critics /\ end.workers = base.workers
       /\ end.incumbents = base.incumbents
       /\ end.reviews = [r \in DOMAIN base.reviews |->
                           IF r \in stale THEN reviews'[r] ELSE base.reviews[r]]
  BY <1>6, RewrittenFields
<1> HIDE DEF end
<1>14. end.reviews = reviews'
  <2>1. reviews' = [r \in DOMAIN reviews |-> reviews'[r]]
    BY DEF TypeOK, ReviewsTypeOK, IsMap
  <2>2. \A r \in DOMAIN reviews : r \notin stale => reviews'[r] = reviews[r]
    BY DEF stale
  <2> QED BY <1>5, <1>13, <2>1, <2>2
<1>15. Replayed(TargetEntries, durable, end)
  BY <1>7, <1>8, <1>10, <1>12, ReplayedBoth
<1>16. Sound(end)
  BY <1>15, ReplayedSound
<1>17. Reached(end)
  BY <1>5, <1>13, <1>14 DEF Reached, Exact, Agrees
<1>18. registry' # registry
  <2>1. targets' # targets
    BY <1>1 DEF Changed
  <2> QED BY <2>1 DEF registry
<1> QED
  BY <1>15, <1>16, <1>17, <1>18, QuietBlocks, CallTold

LEMMA RegisterTargetReplayed ==
    ASSUME Exact, TypeOK', NEW e, NEW t, NEW content, RegisterTarget(e, t, content)
    PROVE  CallExact
<1>1. /\ targets' = Put(targets, t, [generation |-> 1, content |-> content])
      /\ t \notin DOMAIN targets
      /\ UNCHANGED <<epoch, critics, workers, incumbents, nextBootOrder>>
      /\ reviews' = reviews
  BY DEF RegisterTarget
<1> QED
  BY <1>1, TargetReplayed

LEMMA AdvanceTargetReplayed ==
    ASSUME Exact, TypeOK', NEW e, NEW t, NEW content, AdvanceTarget(e, t, content)
    PROVE  CallExact
<1> DEFINE v == [generation |-> targets[t].generation + 1, content |-> content]
<1>1. /\ targets' = Put(targets, t, v) /\ t \in DOMAIN targets /\ content # targets[t].content
      /\ UNCHANGED <<epoch, critics, workers, incumbents, nextBootOrder>>
      /\ reviews' = [r \in DOMAIN reviews |->
            IF reviews[r].target = t /\ TargetCurrent(reviews[r])
            THEN Supersede(reviews[r]) ELSE reviews[r]]
  BY DEF AdvanceTarget
<1>2. v # targets[t]
  BY <1>1
<1>3. DOMAIN reviews' = DOMAIN reviews /\ \A r \in DOMAIN reviews :
         reviews'[r] = reviews[r] \/ reviews'[r] = Supersede(reviews[r])
  BY <1>1
<1> HIDE DEF v
<1> QED
  BY <1>1, <1>2, <1>3, TargetReplayed

-----------------------------------------------------------------------------
(* Critics.                                                                *)

\* A seat that is taken away is not among those that are left.
LEMMA Unseated ==
    ASSUME NEW rev, NEW D, Kempt(rev, D), NEW R, NEW a \in R, a.active
    PROVE  a \notin Retire(rev, R).assignments
<1>1. Retire(rev, R).assignments = Seats(rev, R)
  BY RetireKempt
<1>2. rev.assignments \in SUBSET Assignment
  BY DEF Kempt, Review
<1>3. \A b \in rev.assignments : ~[b EXCEPT !.active = FALSE].active
  BY <1>2 DEF Assignment
<1>4. \A b \in rev.assignments : (IF b \in R THEN [b EXCEPT !.active = FALSE] ELSE b) # a
  BY <1>3
<1> QED
  BY <1>1, <1>4 DEF Seats

\* What the workers ws give up, one by one and together.
LEMMA AbandonedEach ==
    ASSUME NEW rev, NEW ws
    PROVE  Abandoned(rev, ws) = UNION {Abandoned(rev, {w}) : w \in ws}
<1>1. \A a \in Abandoned(rev, ws) : \E w \in ws : a \in Abandoned(rev, {w})
  BY DEF Abandoned
<1>2. \A w \in ws : Abandoned(rev, {w}) \subseteq Abandoned(rev, ws)
  BY DEF Abandoned
<1> QED
  BY <1>1, <1>2

\* Where all that is abandoned is taken away, all of it is written down as lost.
LEMMA LostIsAbandoned ==
    ASSUME NEW r, NEW D, Kempt(reviews[r], D), NEW K, NEW R,
           Abandoned(reviews[r], Fenceable(K)) \subseteq R, reviews'[r] = Retire(reviews[r], R)
    PROVE  Lost(r, K) = Abandoned(reviews[r], Fenceable(K))
<1> DEFINE ws == Fenceable(K)
<1>1. ASSUME NEW w \in ws
      PROVE  GivenUp(r, w) = Abandoned(reviews[r], {w})
  <2>1. Abandoned(reviews[r], {w}) \subseteq R
    <3>1. Abandoned(reviews[r], {w}) \subseteq Abandoned(reviews[r], ws)
      BY DEF Abandoned
    <3> QED BY <3>1
  <2>2. \A a \in Abandoned(reviews[r], {w}) : a.active
    BY DEF Abandoned
  <2>3. \A a \in Abandoned(reviews[r], {w}) : a \notin reviews'[r].assignments
    BY <2>1, <2>2, Unseated
  <2> QED BY <2>3 DEF GivenUp
<1>2. Lost(r, K) = UNION {Abandoned(reviews[r], {w}) : w \in ws}
  BY <1>1 DEF Lost
<1> QED
  BY <1>2, AbandonedEach

\* The journal and the memory of processes agree as much after fences as before.
LEMMA FencesAgree ==
    ASSUME Exact, NEW base, base.workers = durable.workers, NEW K
    PROVE  /\ Cleared(FencedWorkers(base, K)) = Cleared(Silenced(Fenceable(K)))
           /\ \A w \in DOMAIN workers : Silenced(Fenceable(K))[w].ready =>
                 FencedWorkers(base, K)[w] = Silenced(Fenceable(K))[w]
<1> DEFINE ws == Fenceable(K)
           a == FencedWorkers(base, K)
           b == Silenced(ws)
<1>1. DOMAIN a = DOMAIN workers /\ DOMAIN b = DOMAIN workers
  BY DEF FencedWorkers, Silenced
<1>2. ASSUME NEW w \in DOMAIN workers, w \in ws
      PROVE  a[w] = b[w]
  BY <1>2 DEF FencedWorkers, Silenced
<1>3. ASSUME NEW w \in DOMAIN workers, w \notin ws
      PROVE  a[w] = durable.workers[w] /\ b[w] = workers[w]
  BY <1>3 DEF FencedWorkers, Silenced
<1>4. \A w \in DOMAIN workers :
         /\ [durable.workers[w] EXCEPT !.ready = FALSE, !.healthy = FALSE]
              = [workers[w] EXCEPT !.ready = FALSE, !.healthy = FALSE]
         /\ workers[w].ready => durable.workers[w] = workers[w]
  BY ExactGives
<1> HIDE DEF a, b, ws
<1>5. \A w \in DOMAIN workers :
         [a[w] EXCEPT !.ready = FALSE, !.healthy = FALSE]
           = [b[w] EXCEPT !.ready = FALSE, !.healthy = FALSE]
  <2>1. TAKE w \in DOMAIN workers
  <2>2. CASE w \in ws
    BY <1>2, <2>2
  <2>3. CASE w \notin ws
    BY <1>3, <1>4, <2>3
  <2> QED BY <2>2, <2>3
<1>6. Cleared(a) = Cleared(b)
  BY <1>1, <1>5 DEF Cleared
<1>7. \A w \in DOMAIN workers : b[w].ready => a[w] = b[w]
  BY <1>2, <1>3, <1>4
<1> QED
  BY <1>6, <1>7 DEF a, b, ws

\* register_critic, with the fences of the critic's workers and the seats it takes away.
LEMMA CriticReplayed ==
    ASSUME Exact, TypeOK', NEW c, NEW v, critics' = Put(critics, c, v),
           c \notin DOMAIN critics \/ v # critics[c],
           UNCHANGED <<epoch, targets, incumbents, nextBootOrder>>,
           workers' = Silenced(Fenceable(WorkersOf(c))),
           reviews' = [r \in DOMAIN reviews |->
              Retire(reviews[r], Abandoned(reviews[r], Fenceable(WorkersOf(c)))
                                   \cup ActiveOf(reviews[r], c))]
    PROVE  CallExact
<1> DEFINE x == Entry("CriticRegistered", c, v)
           base == Applied(durable, x)
           K == WorkersOf(c)
           mid == Fenced(base, K)
           f == [r \in DOMAIN reviews |-> RetiredEntries(r, ActiveOf(reviews[r], c))]
           told == [k \in Changed(critics, critics') |-> Entry("CriticRegistered", k, critics'[k])]
           vacated == [k \in Changed(critics, critics') |-> VacatingEntries(k)]
           all == DOMAIN reviews
           end == Rewritten(mid, all, reviews')
<1>1. Changed(critics, critics') = {c} /\ critics'[c] = v
  BY ChangedOne
<1>2. c \in Critics /\ v \in Critic
  <2>1. c \in DOMAIN critics'
    BY <1>1 DEF Changed
  <2> QED BY <1>1, <2>1 DEF TypeOK, RegistryTypeOK, IsMap
<1>3. x \in Entries /\ x.type = "CriticRegistered" /\ x.id = c /\ x.value = v
  BY <1>2 DEF Entry, Entries, Plain
<1>4. /\ Sound(durable) /\ Shape(durable) /\ durable.reviews = reviews /\ AllKempt
      /\ durable.critics = critics /\ TypeOK /\ RegistryInv /\ FiniteMaps /\ FenceBase(durable)
  BY ExactGives DEF Exact, Agrees, Sound
<1> HIDE DEF x
<1>5. /\ Shape(base) /\ base.epoch = durable.epoch /\ base.targets = durable.targets
      /\ base.critics = critics' /\ base.workers = durable.workers
      /\ base.incumbents = durable.incumbents /\ base.reviews = reviews
  BY <1>3, <1>4, AppliedGlobal DEF Global
<1> HIDE DEF base
<1>6. DOMAIN critics \subseteq DOMAIN critics'
  BY DEF Put
<1>7. Sound(base)
  <2>1. \A r \in DOMAIN reviews : Kempt(reviews[r], DOMAIN critics')
    BY <1>4, <1>6, KemptMore DEF AllKempt
  <2> QED BY <1>4, <1>5, <1>6, <2>1 DEF Sound
<1>8. FenceBase(base)
  BY <1>4, <1>5, <1>6, <1>7 DEF FenceBase
<1>9. Replayed(<<x>>, durable, base)
  BY <1>3, <1>4, <1>7, ReplayedOne DEF base
<1>10. Each(told) = <<x>>
  <2>1. DOMAIN told = {c} /\ told[c] = x
    BY <1>1 DEF x
  <2> HIDE DEF told
  <2> QED BY <2>1, EachOne
<1>11. Replayed(Joined([w \in K |-> FenceEntries(w)]), base, mid)
  <2>1. K \in SUBSET DOMAIN workers
    BY DEF WorkersOf
  <2>2. Fenced(base, {}) = base
    BY <1>8, FencedNone
  <2>3. {} \cup K = K
    OBVIOUS
  <2> HIDE DEF K
  <2>4. Replayed(Joined([w \in K |-> FenceEntries(w)]), Fenced(base, {}), Fenced(base, {} \cup K))
    BY <1>4, <1>8, <2>1, FencesReplayed
  <2> QED BY <2>2, <2>3, <2>4
<1>12. /\ mid.epoch = base.epoch /\ mid.targets = base.targets /\ mid.critics = base.critics
       /\ mid.incumbents = incumbents /\ mid.workers = FencedWorkers(base, K)
       /\ mid.reviews = FencedReviews(K) /\ Sound(mid)
  <2> HIDE DEF K
  <2> QED BY <1>4, <1>8, FencedFields, FencedSound
<1>13. ASSUME NEW r \in DOMAIN reviews
       PROVE  reviews'[r] = Retire(reviews[r], Lost(r, K) \cup ActiveOf(reviews[r], c))
  <2> DEFINE R == Abandoned(reviews[r], Fenceable(K)) \cup ActiveOf(reviews[r], c)
  <2>1. /\ reviews'[r] = Retire(reviews[r], R) /\ Abandoned(reviews[r], Fenceable(K)) \subseteq R
        /\ Kempt(reviews[r], DOMAIN critics)
    BY <1>4 DEF AllKempt
  <2>2. Lost(r, K) = Abandoned(reviews[r], Fenceable(K))
    <3> HIDE DEF R, K
    <3> QED BY <2>1, LostIsAbandoned
  <2> QED BY <2>1, <2>2
<1>14. /\ f = [r \in DOMAIN f |-> f[r]] /\ DOMAIN f = all /\ all = DOMAIN reviews
       /\ \A r \in DOMAIN reviews : f[r] = RetiredEntries(r, ActiveOf(reviews[r], c))
       /\ IsFiniteSet(DOMAIN f)
  BY <1>4 DEF FiniteMaps
<1>15. CriticEntries = Each(told) \o Joined(vacated)
  BY DEF CriticEntries
<1>16. /\ vacated = [k \in DOMAIN vacated |-> vacated[k]] /\ DOMAIN vacated = {c}
       /\ vacated[c] = Joined([w \in K |-> FenceEntries(w)]) \o Joined(f)
  BY <1>1 DEF VacatingEntries
<1> HIDE DEF f, told, vacated, K, mid, all
<1>17. ASSUME NEW r \in DOMAIN reviews
       PROVE  /\ Told(RetiredEntries(r, ActiveOf(reviews[r], c)), r, mid.reviews[r], reviews'[r])
              /\ Kempt(reviews'[r], DOMAIN critics)
  <2>1. Kempt(reviews[r], DOMAIN critics) /\ ActiveOf(reviews[r], c) \in SUBSET reviews[r].assignments
    BY <1>4 DEF AllKempt, ActiveOf
  <2>2. Told(RetiredEntries(r, ActiveOf(reviews[r], c)), r, Retire(reviews[r], Lost(r, K)),
             Retire(reviews[r], Lost(r, K) \cup ActiveOf(reviews[r], c)))
    BY <1>4, <2>1, RetiredTold
  <2>3. mid.reviews[r] = Retire(reviews[r], Lost(r, K))
    BY <1>12 DEF FencedReviews
  <2>4. Kempt(Retire(reviews[r], Lost(r, K) \cup ActiveOf(reviews[r], c)), DOMAIN critics)
    BY <2>1, RetireKempt
  <2> QED BY <1>13, <2>2, <2>3, <2>4
<1>18. DOMAIN mid.reviews = DOMAIN reviews
  BY <1>12 DEF FencedReviews
<1>19. Replayed(Joined(f), mid, end)
  <2>1. \A r \in DOMAIN f : /\ Kempt(reviews'[r], DOMAIN critics)
                            /\ Told(f[r], r, mid.reviews[r], reviews'[r])
    BY <1>14, <1>17
  <2>2. DOMAIN critics \subseteq DOMAIN mid.critics
    BY <1>5, <1>6, <1>12
  <2> QED BY <1>12, <1>14, <1>18, <2>1, <2>2, JoinedTold
<1>20. /\ end.epoch = mid.epoch /\ end.targets = mid.targets
       /\ end.critics = mid.critics /\ end.workers = mid.workers
       /\ end.incumbents = mid.incumbents
       /\ end.reviews = [r \in DOMAIN mid.reviews |->
                           IF r \in all THEN reviews'[r] ELSE mid.reviews[r]]
  <2>1. Sound(mid)
    BY <1>12
  <2> QED BY ONLY <2>1, RewrittenFields DEF end
<1> HIDE DEF end
<1>21. end.reviews = reviews'
  <2>1. reviews' = [r \in DOMAIN reviews |-> reviews'[r]]
    <3>1. DOMAIN reviews' = DOMAIN reviews
      OBVIOUS
    <3> QED BY <3>1 DEF TypeOK, ReviewsTypeOK, IsMap
  <2> QED BY <1>14, <1>18, <1>20, <2>1
<1>22. Replayed(CriticEntries, durable, end)
  <2>1. Replayed(vacated[c], base, end)
    BY <1>11, <1>16, <1>19, ReplayedBoth
  <2>2. Replayed(Joined(vacated), base, end)
    BY <1>16, <2>1, JoinedAlone
  <2> QED BY <1>9, <1>10, <1>15, <2>2, ReplayedBoth
<1>23. Reached(end)
  <2>1. /\ Cleared(end.workers) = Cleared(workers')
        /\ \A w \in DOMAIN workers : workers'[w].ready => end.workers[w] = workers'[w]
    BY <1>5, <1>12, <1>20, FencesAgree DEF K
  <2>2. DOMAIN workers' = DOMAIN workers
    BY DEF Silenced
  <2> QED BY <1>5, <1>12, <1>20, <1>21, <2>1, <2>2 DEF Reached, Exact, Agrees
<1>24. Sound(end)
  BY <1>22, ReplayedSound
<1>25. registry' # registry /\ critics' # critics
  <2>1. critics' # critics
    BY <1>1 DEF Changed
  <2> QED BY <2>1 DEF registry
<1> QED
  BY <1>4, <1>22, <1>23, <1>24, <1>25, QuietBlocks, CallTold

LEMMA RegisterCriticReplayed ==
    ASSUME Exact, TypeOK', NEW e, NEW c, NEW capability, RegisterCritic(e, c, capability)
    PROVE  CallExact
<1> DEFINE v == [generation |-> 1, capability |-> capability]
<1>1. /\ critics' = Put(critics, c, v) /\ c \notin DOMAIN critics
      /\ UNCHANGED <<epoch, targets, workers, incumbents, nextBootOrder>>
      /\ reviews' = reviews
  BY DEF RegisterCritic
<1> HIDE DEF v
<1>2. AllKempt /\ FenceBase(durable) /\ durable.critics = critics /\ TypeOK
  BY ExactGives DEF Exact, Agrees
<1>3. WorkersOf(c) = {}
  <2>1. ASSUME NEW w \in WorkersOf(c)
        PROVE  FALSE
    <3>1. w \in DOMAIN workers /\ workers[w].critic = c
      BY DEF WorkersOf
    <3>2. w \in DOMAIN durable.workers /\ durable.workers[w].critic = c
      BY <1>2, <3>1 DEF FenceBase
    <3> QED BY <1>1, <1>2, <3>2 DEF FenceBase, Sound
  <2> QED BY <2>1
<1>4. Fenceable(WorkersOf(c)) = {}
  BY <1>3 DEF Fenceable
<1>5. workers' = Silenced(Fenceable(WorkersOf(c)))
  <2>1. workers = [w \in DOMAIN workers |-> workers[w]]
    BY <1>2 DEF TypeOK, RegistryTypeOK, IsMap
  <2> QED BY <1>1, <1>4, <2>1 DEF Silenced
<1>6. ASSUME NEW r \in DOMAIN reviews
      PROVE  Retire(reviews[r], Abandoned(reviews[r], Fenceable(WorkersOf(c)))
                                   \cup ActiveOf(reviews[r], c)) = reviews[r]
  <2>1. Abandoned(reviews[r], Fenceable(WorkersOf(c))) = {}
    BY <1>4 DEF Abandoned
  <2>2. ActiveOf(reviews[r], c) = {}
    <3>1. \A a \in reviews[r].assignments : a.critic \in DOMAIN critics
      BY <1>2 DEF AllKempt, Kempt
    <3> QED BY <1>1, <3>1 DEF ActiveOf
  <2> QED BY <2>1, <2>2 DEF Retire
<1>7. reviews = [r \in DOMAIN reviews |-> reviews[r]]
  BY <1>2 DEF TypeOK, ReviewsTypeOK, IsMap
<1>8. reviews' = [r \in DOMAIN reviews |->
          Retire(reviews[r], Abandoned(reviews[r], Fenceable(WorkersOf(c)))
                               \cup ActiveOf(reviews[r], c))]
  BY <1>1, <1>6, <1>7
<1> QED
  BY <1>1, <1>5, <1>8, CriticReplayed

LEMMA AdvanceCriticReplayed ==
    ASSUME Exact, TypeOK', NEW e, NEW c, NEW capability, NEW advance,
           AdvanceCritic(e, c, capability, advance)
    PROVE  CallExact
<1> DEFINE v == [generation |-> critics[c].generation + 1, capability |-> capability]
<1>1. /\ critics' = Put(critics, c, v) /\ c \in DOMAIN critics
      /\ workers' = Silenced(Fenceable(WorkersOf(c)))
      /\ reviews' = [r \in DOMAIN reviews |->
            Retire(reviews[r], Abandoned(reviews[r], Fenceable(WorkersOf(c)))
                                 \cup ActiveOf(reviews[r], c))]
      /\ UNCHANGED <<epoch, targets, incumbents, nextBootOrder>>
  BY DEF AdvanceCritic
<1>2. v # critics[c]
  <2>1. critics[c].generation \in Nat
    <3>1. critics[c] \in Critic
      BY <1>1 DEF Exact, TypeOK, RegistryTypeOK, IsMap
    <3> QED BY <3>1 DEF Critic, CriticGenerations
  <2>2. v.generation # critics[c].generation
    BY <2>1
  <2> QED BY <2>2
<1> HIDE DEF v
<1> QED
  BY <1>1, <1>2, CriticReplayed

-----------------------------------------------------------------------------
(* Workers.                                                                *)

\* A call that changes nothing writes nothing.
LEMMA NothingReplayed ==
    ASSUME Exact, TypeOK', UNCHANGED <<epoch, registry, reviews>>
    PROVE  CallExact
<1>1. AllKempt
  BY ExactGives
<1>2. ASSUME NEW r \in DOMAIN reviews
      PROVE  /\ Kempt(reviews'[r], DOMAIN critics)
             /\ Told(ReviewEntries(r), r, reviews[r], reviews'[r])
  <2>1. reviews'[r] = reviews[r]
    OBVIOUS
  <2>2. ReviewEntries(r) = <<>>
    BY <2>1, QuietReview
  <2> QED BY <1>1, <2>1, <2>2, ToldNone DEF AllKempt
<1> QED
  BY <1>2, ReviewsReplayed

\* What remains to be shown of a call that changes processes.
LEMMA WorkersReplayed ==
    ASSUME Exact, UNCHANGED <<epoch, targets, critics>>, workers' # workers,
           NEW end, Replayed(WorkerEntries, durable, end), Reached(end)
    PROVE  CallExact
<1>1. Sound(durable) /\ Sound(end)
  BY ReplayedSound DEF Exact
<1>2. OfWorkers = WorkerEntries
  BY DEF OfWorkers
<1>3. registry' # registry
  BY DEF registry
<1>4. /\ Replayed(TargetEntries, durable, durable) /\ Replayed(CriticEntries, durable, durable)
      /\ Replayed(Recorded, end, end)
  BY <1>1, <1>3, QuietBlocks
<1> QED
  BY <1>2, <1>4, CallTold

\* The fences come first.
LEMMA FencesFirst ==
    ASSUME Exact
    PROVE  Replayed(Joined([w \in Reborn |-> FenceEntries(w)])
                      \o Joined([w \in FencedOnly |-> FenceEntries(w)]),
                    durable, Fenced(durable, Reborn \cup FencedOnly))
<1>1. /\ TypeOK /\ RegistryInv /\ FiniteMaps /\ AllKempt /\ FenceBase(durable)
  BY ExactGives DEF Exact
<1>2. Reborn \in SUBSET DOMAIN workers /\ FencedOnly \in SUBSET DOMAIN workers
  BY DEF Reborn, FencedOnly
<1>3. Fenced(durable, {}) = durable /\ {} \cup Reborn = Reborn
  BY <1>1, FencedNone
<1> DEFINE A == Reborn
           B == FencedOnly
<1>4. A \in SUBSET DOMAIN workers /\ B \in SUBSET DOMAIN workers /\ {} \cup A = A
  BY <1>2
<1> HIDE DEF A, B
<1>5. Replayed(Joined([w \in A |-> FenceEntries(w)]), Fenced(durable, {}), Fenced(durable, {} \cup A))
  BY <1>1, <1>4, FencesReplayed
<1>6. Replayed(Joined([w \in B |-> FenceEntries(w)]), Fenced(durable, A), Fenced(durable, A \cup B))
  BY <1>1, <1>4, FencesReplayed
<1>7. Replayed(Joined([w \in A |-> FenceEntries(w)]) \o Joined([w \in B |-> FenceEntries(w)]),
               durable, Fenced(durable, A \cup B))
  BY <1>3, <1>4, <1>5, <1>6, ReplayedBoth
<1> QED
  BY <1>7 DEF A, B

\* Workers of whom nothing but a fence is written.
LEMMA FencesOnly ==
    ASSUME Exact, UNCHANGED <<epoch, targets, critics, incumbents>>, workers' # workers,
           Recast = {}, workers' = Silenced(Fenceable(FencedOnly)),
           reviews' = FencedReviews(FencedOnly)
    PROVE  CallExact
<1> DEFINE end == Fenced(durable, FencedOnly)
<1>1. TypeOK /\ FenceBase(durable) /\ Agrees(durable) /\ FenceBase(durable)
  BY ExactGives DEF Exact
<1>2. Reborn = {} /\ Reborn \cup FencedOnly = FencedOnly
  BY DEF Reborn
<1>3. Replayed(WorkerEntries, durable, end)
  <2>1. /\ Replayed(Joined([w \in Reborn |-> FenceEntries(w)])
                      \o Joined([w \in FencedOnly |-> FenceEntries(w)]), durable, end)
    BY <1>2, FencesFirst
  <2>2. Sound(end)
    BY <2>1, ReplayedSound
  <2>3. Replayed(Each([w \in Recast |-> Entry("WorkerRegistered", w, workers'[w])]), end, end)
    BY <2>2, NothingRecast, ReplayedNone
  <2> HIDE DEF end
  <2> QED BY <2>1, <2>3, WorkerBlocks, ReplayedBoth
<1>4. /\ end.epoch = durable.epoch /\ end.targets = durable.targets
      /\ end.critics = durable.critics /\ end.incumbents = incumbents
      /\ end.workers = FencedWorkers(durable, FencedOnly)
      /\ end.reviews = FencedReviews(FencedOnly)
  BY <1>1, FencedFields
<1> HIDE DEF end
<1>5. /\ Cleared(end.workers) = Cleared(workers')
      /\ \A w \in DOMAIN workers : workers'[w].ready => end.workers[w] = workers'[w]
  BY <1>4, FencesAgree
<1>6. DOMAIN workers' = DOMAIN workers
  BY DEF Silenced
<1>7. Reached(end)
  BY <1>1, <1>4, <1>5, <1>6 DEF Reached, Agrees
<1> QED
  BY <1>3, <1>7, WorkersReplayed

LEMMA FenceCallReplayed ==
    ASSUME Exact, TypeOK', NEW K, Fence(Fenceable(K))
    PROVE  CallExact
<1> DEFINE W == Fenceable(K)
<1>1. /\ workers' = Silenced(W)
      /\ reviews' = [r \in DOMAIN reviews |-> Retire(reviews[r], Abandoned(reviews[r], W))]
      /\ UNCHANGED <<epoch, targets, critics, incumbents, nextBootOrder>>
  BY DEF Fence
<1>2. TypeOK /\ AllKempt
  BY ExactGives DEF Exact
<1>3. W \subseteq DOMAIN workers /\ Fenceable(W) = W
  BY DEF Fenceable
<1>4. /\ DOMAIN workers' = DOMAIN workers
      /\ \A w \in W : workers'[w] = Silenced({w})[w] /\ workers'[w] # workers[w]
      /\ \A w \in DOMAIN workers \ W : workers'[w] = workers[w]
  <2>1. DOMAIN workers' = DOMAIN workers
    BY <1>1 DEF Silenced
  <2>2. ASSUME NEW w \in W
        PROVE  workers'[w] = Silenced({w})[w] /\ workers'[w] # workers[w]
    <3>1. workers'[w] = Silenced({w})[w]
      BY <1>1, <1>3 DEF Silenced
    <3>2. ~workers'[w].ready /\ ~workers'[w].healthy
      BY <1>2, <1>3, <3>1, SilencedRecord
    <3>3. workers[w].ready \/ workers[w].healthy
      BY DEF Fenceable
    <3> QED BY <3>1, <3>2, <3>3
  <2>3. \A w \in DOMAIN workers \ W : workers'[w] = workers[w]
    BY <1>1 DEF Silenced
  <2> QED BY <2>1, <2>2, <2>3
<1>5. ChangedWorkers = W /\ FencedOnly = W /\ Recast = {}
  BY <1>3, <1>4 DEF ChangedWorkers, Changed, FencedOnly, Recast
<1> HIDE DEF W
<1>6. CASE W = {}
  <2>1. workers' = workers
    <3>1. workers = [w \in DOMAIN workers |-> workers[w]]
      BY <1>2 DEF TypeOK, RegistryTypeOK, IsMap
    <3> QED BY <1>1, <1>6, <3>1 DEF Silenced
  <2>2. reviews' = reviews
    <3>1. reviews = [r \in DOMAIN reviews |-> reviews[r]]
      BY <1>2 DEF TypeOK, ReviewsTypeOK, IsMap
    <3>2. \A r \in DOMAIN reviews : Retire(reviews[r], Abandoned(reviews[r], W)) = reviews[r]
      BY <1>6 DEF Abandoned, Retire
    <3> QED BY <1>1, <3>1, <3>2
  <2> QED BY <1>1, <2>1, <2>2, NothingReplayed DEF registry
<1>7. CASE W # {}
  <2>1. workers' # workers
    BY <1>4, <1>7
  <2>2. ASSUME NEW r \in DOMAIN reviews
        PROVE  Lost(r, W) = Abandoned(reviews[r], W)
    <3> DEFINE R == Abandoned(reviews[r], W)
    <3>1. /\ reviews'[r] = Retire(reviews[r], R) /\ Abandoned(reviews[r], Fenceable(W)) \subseteq R
          /\ Kempt(reviews[r], DOMAIN critics)
      BY <1>1, <1>2, <1>3 DEF AllKempt
    <3> HIDE DEF R
    <3>2. Lost(r, W) = Abandoned(reviews[r], Fenceable(W))
      BY <3>1, LostIsAbandoned
    <3> QED BY <1>3, <3>2
  <2>3. reviews' = FencedReviews(W)
    BY <1>1, <2>2 DEF FencedReviews
  <2> QED BY <1>1, <1>3, <1>5, <2>1, <2>3, FencesOnly
<1> QED
  BY <1>6, <1>7

\* A worker that declares what it is, and loses no seat.
LEMMA ReadinessFenced ==
    ASSUME Exact, NEW w \in DOMAIN workers, workers' = Silenced({w}), workers' # workers,
           UNCHANGED <<epoch, targets, critics, incumbents, reviews>>
    PROVE  CallExact
<1>1. TypeOK /\ AllKempt
  BY ExactGives DEF Exact
<1>2. /\ DOMAIN workers' = DOMAIN workers /\ workers'[w] = Silenced({w})[w]
      /\ \A v \in DOMAIN workers \ {w} : workers'[v] = workers[v]
  BY DEF Silenced
<1>3. workers'[w] # workers[w]
  <2>1. IsMap(workers, Workers, Worker)
    BY <1>1 DEF TypeOK, RegistryTypeOK
  <2>2. workers = [v \in DOMAIN workers |-> workers[v]]
    BY <2>1 DEF IsMap
  <2>3. workers' = [v \in DOMAIN workers |-> workers'[v]]
    BY DEF Silenced
  <2> QED BY <1>2, <2>2, <2>3
<1>4. workers[w].ready \/ workers[w].healthy
  <2>1. workers[w] \in Worker /\ workers[w] = [workers[w] EXCEPT !.ready = workers[w].ready,
                                                               !.healthy = workers[w].healthy]
    BY <1>1 DEF TypeOK, RegistryTypeOK, IsMap, Worker
  <2>2. workers'[w] = [workers[w] EXCEPT !.ready = FALSE, !.healthy = FALSE]
    BY <1>1, <1>2, SilencedRecord
  <2>3. workers[w].ready \in BOOLEAN /\ workers[w].healthy \in BOOLEAN
    BY <2>1 DEF Worker
  <2>4. ~workers[w].ready /\ ~workers[w].healthy => workers'[w] = workers[w]
    BY <2>1, <2>2, <2>3
  <2> QED BY <1>3, <2>4
<1>5. Fenceable({w}) = {w}
  BY <1>4 DEF Fenceable
<1>6. ChangedWorkers = {w} /\ FencedOnly = {w} /\ Recast = {}
  BY <1>2, <1>3 DEF ChangedWorkers, Changed, FencedOnly, Recast
<1>7. ASSUME NEW r \in DOMAIN reviews
      PROVE  Retire(reviews[r], Lost(r, {w})) = reviews[r]
  <2>1. GivenUp(r, w) = {}
    BY DEF GivenUp, Abandoned
  <2>2. Lost(r, {w}) = {}
    BY <1>5, <2>1 DEF Lost
  <2> QED BY <2>2 DEF Retire
<1>8. reviews' = FencedReviews({w})
  <2>1. reviews = [r \in DOMAIN reviews |-> reviews[r]]
    BY <1>1 DEF TypeOK, ReviewsTypeOK, IsMap
  <2> QED BY <1>7, <2>1 DEF FencedReviews
<1> QED
  BY <1>5, <1>6, <1>8, FencesOnly

\* One worker is recorded as it is, after the fences K.
LEMMA WorkerRecorded ==
    ASSUME Exact, NEW K, NEW w, NEW v, w \in Workers, v \in Worker, v.critic \in DOMAIN critics
    PROVE  LET a == Fenced(durable, K)
               b == Applied(a, Entry("WorkerRegistered", w, v))
               ws == Put(FencedWorkers(durable, K), w, v)
           IN  /\ Sound(a) => Replayed(<<Entry("WorkerRegistered", w, v)>>, a, b)
               /\ b.epoch = epoch /\ b.targets = targets /\ b.critics = critics
               /\ b.workers = ws /\ b.incumbents = Heir(incumbents, v.critic, w, ws)
               /\ b.reviews = FencedReviews(K)
<1> DEFINE a == Fenced(durable, K)
           x == Entry("WorkerRegistered", w, v)
           b == Applied(a, x)
           ws == Put(FencedWorkers(durable, K), w, v)
<1>1. TypeOK /\ FenceBase(durable) /\ Agrees(durable)
  BY ExactGives DEF Exact
<1>2. /\ Shape(a) /\ a.epoch = durable.epoch /\ a.targets = durable.targets
      /\ a.critics = durable.critics /\ a.incumbents = incumbents
      /\ a.workers = FencedWorkers(durable, K) /\ a.reviews = FencedReviews(K)
  BY <1>1, FencedFields
<1>3. x \in Entries /\ x.type = "WorkerRegistered" /\ x.id = w /\ x.value = v
  BY DEF Entry, Entries, Registration
<1> HIDE DEF a, x
<1>4. /\ Shape(b) /\ b.epoch = a.epoch /\ b.targets = a.targets /\ b.critics = a.critics
      /\ b.workers = Put(a.workers, w, v)
      /\ b.incumbents = Heir(a.incumbents, v.critic, w, Put(a.workers, w, v))
      /\ b.reviews = a.reviews
  BY <1>2, <1>3, AppliedGlobal DEF Global
<1> HIDE DEF b
<1>5. /\ b.epoch = epoch /\ b.targets = targets /\ b.critics = critics
      /\ b.workers = ws /\ b.incumbents = Heir(incumbents, v.critic, w, ws)
      /\ b.reviews = FencedReviews(K)
  BY <1>1, <1>2, <1>4 DEF Agrees
<1>6. ASSUME Sound(a)
      PROVE  Replayed(<<x>>, a, b)
  <2>1. \A u \in DOMAIN b.workers : b.workers[u].critic \in DOMAIN b.critics
    <3>1. \A u \in DOMAIN a.workers : a.workers[u].critic \in DOMAIN a.critics
      BY <1>6 DEF Sound
    <3>2. a.critics = critics /\ b.critics = critics
      BY <1>1, <1>2, <1>4 DEF Agrees
    <3> QED BY <1>4, <3>1, <3>2 DEF Put
  <2>2. Sound(b)
    BY <1>4, <1>6, <2>1 DEF Sound
  <2> QED BY <1>3, <1>6, <2>2, ReplayedOne DEF b
<1> QED
  BY <1>5, <1>6 DEF a, b, x

LEMMA ReadinessRecast ==
    ASSUME Exact, TypeOK', NEW w \in DOMAIN workers, DOMAIN workers' = DOMAIN workers,
           \A v \in DOMAIN workers \ {w} : workers'[v] = workers[v],
           workers'[w] # workers[w], workers'[w] # Silenced({w})[w],
           workers'[w].boot = workers[w].boot, workers'[w].critic = workers[w].critic,
           workers'[w].critic \in DOMAIN incumbents, incumbents[workers'[w].critic] = w,
           UNCHANGED <<epoch, targets, critics, incumbents, reviews>>
    PROVE  CallExact
<1> DEFINE v == workers'[w]
           x == Entry("WorkerRegistered", w, v)
           a == Fenced(durable, {})
           end == Applied(a, x)
           ws == Put(FencedWorkers(durable, {}), w, v)
<1>1. /\ TypeOK /\ AllKempt /\ FenceBase(durable) /\ Sound(durable) /\ Agrees(durable)
      /\ Fenced(durable, {}) = durable
  BY ExactGives, FencedNone DEF Exact
<1>2. workers' # workers
  OBVIOUS
<1>3. /\ ChangedWorkers = {w} /\ FencedOnly = {} /\ Recast = {w} /\ Reborn = {}
      /\ Reborn \cup FencedOnly = {}
  BY DEF ChangedWorkers, Changed, FencedOnly, Recast, Reborn
<1>4. Each([u \in Recast |-> Entry("WorkerRegistered", u, workers'[u])]) = <<x>>
  <2> DEFINE f == [u \in Recast |-> Entry("WorkerRegistered", u, workers'[u])]
  <2>1. DOMAIN f = {w} /\ f[w] = x
    BY <1>3
  <2> HIDE DEF f, x
  <2>2. Each(f) = <<x>>
    BY <2>1, EachOne
  <2> QED BY <2>2 DEF f
<1>5. w \in Workers /\ v \in Worker /\ v.critic \in DOMAIN critics
  <2>1. w \in Workers /\ v \in Worker
    BY <1>1 DEF TypeOK, RegistryTypeOK, IsMap
  <2>2. w \in DOMAIN durable.workers /\ durable.workers[w].critic = workers[w].critic
    BY <1>1 DEF FenceBase
  <2>3. durable.workers[w].critic \in DOMAIN durable.critics
    BY <1>1, <2>2 DEF Sound
  <2> QED BY <1>1, <2>1, <2>2, <2>3 DEF Agrees
<1> HIDE DEF v
<1>6. /\ Sound(a) => Replayed(<<x>>, a, end)
      /\ end.epoch = epoch /\ end.targets = targets /\ end.critics = critics
      /\ end.workers = ws /\ end.incumbents = Heir(incumbents, v.critic, w, ws)
      /\ end.reviews = FencedReviews({})
  BY <1>5, WorkerRecorded
<1>7. FencedWorkers(durable, {}) = durable.workers /\ FencedReviews({}) = reviews
  <2>1. Fenced(durable, {}).workers = FencedWorkers(durable, {})
        /\ Fenced(durable, {}).reviews = FencedReviews({})
    BY DEF Fenced
  <2> QED BY <1>1, <2>1 DEF Agrees
<1>8. Replayed(WorkerEntries, durable, end)
  <2>1. Replayed(Joined([u \in Reborn |-> FenceEntries(u)])
                   \o Joined([u \in FencedOnly |-> FenceEntries(u)]), durable, a)
    BY <1>3, FencesFirst
  <2> HIDE DEF end, a, x
  <2>2. Replayed(<<x>>, a, end)
    BY <1>6, <2>1, ReplayedSound
  <2> QED BY <1>4, <2>1, <2>2, WorkerBlocks, ReplayedBoth
<1> HIDE DEF end
<1>9. end.incumbents = incumbents
  <2>1. ws[w] = v
    BY DEF Put
  <2>2. v.bootOrder \in Nat
    BY <1>5, BoundsAssumption DEF Worker, BootOrders
  <2> QED BY <1>6, <2>1, <2>2 DEF Heir, v
<1>10. end.workers = [u \in DOMAIN workers |-> IF u = w THEN v ELSE durable.workers[u]]
  <2>1. DOMAIN durable.workers \cup {w} = DOMAIN workers
    BY <1>1 DEF FenceBase
  <2> QED BY <1>6, <1>7, <2>1 DEF Put
<1>11. ASSUME NEW u \in DOMAIN workers
       PROVE  /\ [end.workers[u] EXCEPT !.ready = FALSE, !.healthy = FALSE]
                   = [workers'[u] EXCEPT !.ready = FALSE, !.healthy = FALSE]
              /\ workers'[u].ready => end.workers[u] = workers'[u]
  <2>1. CASE u = w
    BY <1>10, <2>1 DEF v
  <2>2. CASE u # w
    <3>1. workers'[u] = workers[u] /\ end.workers[u] = durable.workers[u]
      BY <1>10, <2>2
    <3> QED BY <3>1, ExactGives
  <2> QED BY <2>1, <2>2
<1>12. Cleared(end.workers) = Cleared(workers')
  <2>1. DOMAIN end.workers = DOMAIN workers
    BY <1>10
  <2> QED BY <1>11, <2>1 DEF Cleared
<1>13. Reached(end)
  BY <1>6, <1>7, <1>9, <1>11, <1>12 DEF Reached
<1> QED
  BY <1>2, <1>8, <1>13, WorkersReplayed

LEMMA DeclareReadinessReplayed ==
    ASSUME Exact, TypeOK', NEW e, NEW x, NEW ready, NEW healthy, NEW evidence,
           DeclareReadiness(e, x, ready, healthy, evidence)
    PROVE  CallExact
<1> DEFINE w == x.worker
<1>1. /\ BindingCurrent(x)
      /\ workers' = [workers EXCEPT ![w].ready = ready, ![w].healthy = healthy]
      /\ UNCHANGED <<epoch, targets, critics, incumbents, nextBootOrder, reviews>>
  BY DEF DeclareReadiness
<1>2. /\ w \in DOMAIN workers /\ workers[w].critic = x.critic
      /\ x.critic \in DOMAIN incumbents /\ incumbents[x.critic] = w
  BY <1>1 DEF BindingCurrent
<1>3. workers = [v \in DOMAIN workers |-> workers[v]] /\ workers[w] \in Worker
  BY <1>2 DEF Exact, TypeOK, RegistryTypeOK, IsMap
<1> HIDE DEF w
<1>4. /\ workers' = [v \in DOMAIN workers |-> workers'[v]]
      /\ DOMAIN workers' = DOMAIN workers
      /\ \A v \in DOMAIN workers \ {w} : workers'[v] = workers[v]
      /\ workers'[w].boot = workers[w].boot /\ workers'[w].critic = workers[w].critic
  BY <1>1, <1>2, <1>3 DEF Worker
<1>5. CASE workers'[w] = workers[w]
  <2>1. workers' = workers
    BY <1>3, <1>4, <1>5
  <2> QED BY <1>1, <2>1, NothingReplayed DEF registry
<1>6. CASE workers'[w] # workers[w] /\ workers'[w] = Silenced({w})[w]
  <2>1. workers' # workers
    BY <1>6
  <2>2. workers' = Silenced({w})
    BY <1>4, <1>6 DEF Silenced
  <2> QED BY <1>1, <1>2, <2>1, <2>2, ReadinessFenced
<1>7. CASE workers'[w] # workers[w] /\ workers'[w] # Silenced({w})[w]
  BY <1>1, <1>2, <1>4, <1>7, ReadinessRecast
<1> QED
  BY <1>5, <1>6, <1>7

LEMMA RegisterWorkerReplayed ==
    ASSUME Exact, TypeOK', NEW e, NEW w, NEW boot, NEW c, NEW generation,
           RegisterWorker(e, w, boot, c, generation)
    PROVE  CallExact
<1> DEFINE competing == {v \in WorkersOf(c) \ {w} : Authoritative(v)}
           F == Fenceable({w} \cup competing)
           rec == [boot |-> boot, critic |-> c, criticGeneration |-> generation,
                   ready |-> FALSE, healthy |-> FALSE, bootOrder |-> nextBootOrder]
           K == Reborn \cup FencedOnly
           x == Entry("WorkerRegistered", w, rec)
           a == Fenced(durable, K)
           end == Applied(a, x)
           ws == Put(FencedWorkers(durable, K), w, rec)
<1>1. /\ workers' = Put(Silenced(F), w, rec)
      /\ reviews' = [r \in DOMAIN reviews |-> Retire(reviews[r], Abandoned(reviews[r], F))]
      /\ incumbents' = IncumbentAfter(c, w, workers')
      /\ c \in DOMAIN critics
      /\ w \in DOMAIN workers => workers[w].boot # boot
      /\ UNCHANGED <<epoch, targets, critics>>
  BY DEF RegisterWorker
<1>2. /\ TypeOK /\ AllKempt /\ FenceBase(durable) /\ Sound(durable) /\ Agrees(durable)
      /\ RegistryTypeOK
  BY ExactGives DEF Exact, TypeOK
<1>3. /\ competing \subseteq DOMAIN workers /\ w \notin competing
      /\ \A v \in competing : workers[v].ready /\ workers[v].healthy
  BY DEF WorkersOf, Authoritative
<1>4. rec.boot = boot /\ rec.critic = c /\ ~rec.ready /\ rec.bootOrder = nextBootOrder
  OBVIOUS
<1> HIDE DEF competing, rec
<1>5. F \subseteq DOMAIN workers /\ competing \subseteq F /\ F \ {w} = competing
  BY <1>3 DEF Fenceable
<1>6. /\ DOMAIN workers' = DOMAIN workers \cup {w} /\ workers'[w] = rec
      /\ \A v \in DOMAIN workers \ {w} : workers'[v] = Silenced(F)[v]
      /\ \A v \in DOMAIN workers : v \notin F => Silenced(F)[v] = workers[v]
      /\ \A v \in F : Silenced(F)[v] = Silenced({v})[v]
  <2>1. DOMAIN Silenced(F) = DOMAIN workers
    BY DEF Silenced
  <2>2. /\ \A v \in DOMAIN workers : v \notin F => Silenced(F)[v] = workers[v]
        /\ \A v \in F : Silenced(F)[v] = Silenced({v})[v]
    BY <1>5 DEF Silenced
  <2> HIDE DEF F
  <2> QED BY <1>1, <2>1, <2>2 DEF Put
<1>7. w \in Workers /\ rec \in Worker
  BY <1>6 DEF TypeOK, RegistryTypeOK, IsMap
<1>8. ASSUME w \in DOMAIN workers
      PROVE  workers'[w] # workers[w] /\ workers'[w] # Silenced({w})[w]
  <2>1. Silenced({w})[w].boot = workers[w].boot
    <3>1. workers[w] \in Worker
      BY <1>8, <1>2 DEF RegistryTypeOK, IsMap
    <3> QED BY <1>2, <1>8, <3>1, SilencedRecord DEF Worker
  <2> QED BY <1>1, <1>4, <1>6, <1>8, <2>1
<1>9. ASSUME NEW v \in competing
      PROVE  workers'[v] # workers[v] /\ workers'[v] = Silenced({v})[v]
  <2>1. workers'[v] = Silenced({v})[v]
    BY <1>3, <1>5, <1>6
  <2>2. ~workers'[v].ready
    BY <1>2, <1>3, <2>1, SilencedRecord
  <2> QED BY <1>3, <2>1, <2>2
<1>10. ASSUME NEW v \in DOMAIN workers \ {w}, v \notin competing
       PROVE  workers'[v] = workers[v]
  BY <1>5, <1>6, <1>10
<1>11. /\ ChangedWorkers = competing \cup {w} /\ FencedOnly = competing
       /\ Recast = {w} /\ Reborn = {w} \cap DOMAIN workers
  <2>1. ChangedWorkers = competing \cup {w}
    BY <1>3, <1>6, <1>8, <1>9, <1>10 DEF ChangedWorkers, Changed
  <2>2. FencedOnly = competing
    BY <1>3, <1>8, <1>9, <2>1 DEF FencedOnly
  <2>3. Recast = {w}
    BY <1>3, <2>1, <2>2 DEF Recast
  <2>4. Reborn = {w} \cap DOMAIN workers
    BY <1>1, <1>4, <1>6, <2>3 DEF Reborn
  <2> QED BY <2>1, <2>2, <2>3, <2>4
<1>12. Fenceable(K) = F
  BY <1>3, <1>11 DEF Fenceable
<1>13. Each([u \in Recast |-> Entry("WorkerRegistered", u, workers'[u])]) = <<x>>
  <2> DEFINE f == [u \in Recast |-> Entry("WorkerRegistered", u, workers'[u])]
  <2>1. DOMAIN f = {w} /\ f[w] = x
    BY <1>6, <1>11
  <2> HIDE DEF f, x
  <2>2. Each(f) = <<x>>
    BY <2>1, EachOne
  <2> QED BY <2>2 DEF f
<1> HIDE DEF F, K
<1>14. /\ Sound(a) => Replayed(<<x>>, a, end)
       /\ end.epoch = epoch /\ end.targets = targets /\ end.critics = critics
       /\ end.workers = ws /\ end.incumbents = Heir(incumbents, c, w, ws)
       /\ end.reviews = FencedReviews(K)
  BY <1>1, <1>4, <1>7, WorkerRecorded
<1>15. Replayed(WorkerEntries, durable, end)
  <2>1. Replayed(Joined([u \in Reborn |-> FenceEntries(u)])
                   \o Joined([u \in FencedOnly |-> FenceEntries(u)]), durable, a)
    BY FencesFirst DEF K
  <2> HIDE DEF end, a, x
  <2>2. Replayed(<<x>>, a, end)
    BY <1>14, <2>1, ReplayedSound
  <2> QED BY <1>13, <2>1, <2>2, WorkerBlocks, ReplayedBoth
<1> HIDE DEF end
<1>16. ASSUME NEW r \in DOMAIN reviews
       PROVE  Lost(r, K) = Abandoned(reviews[r], F)
  <2> DEFINE R == Abandoned(reviews[r], F)
  <2>1. /\ reviews'[r] = Retire(reviews[r], R) /\ Abandoned(reviews[r], Fenceable(K)) \subseteq R
        /\ Kempt(reviews[r], DOMAIN critics)
    BY <1>1, <1>2, <1>12 DEF AllKempt
  <2> HIDE DEF R
  <2>2. Lost(r, K) = Abandoned(reviews[r], Fenceable(K))
    BY <2>1, LostIsAbandoned
  <2> QED BY <1>12, <2>2
<1>17. end.reviews = reviews'
  BY <1>1, <1>14, <1>16 DEF FencedReviews
<1> DEFINE mid == FencedWorkers(durable, K)
<1>18. /\ DOMAIN mid = DOMAIN workers
       /\ Cleared(mid) = Cleared(Silenced(F))
       /\ \A v \in DOMAIN workers : Silenced(F)[v].ready => mid[v] = Silenced(F)[v]
  <2>1. DOMAIN mid = DOMAIN workers
    BY DEF FencedWorkers
  <2> QED BY <1>12, <2>1, FencesAgree
<1>19. \A v \in DOMAIN workers :
          /\ mid[v].bootOrder = workers[v].bootOrder
          /\ Silenced(F)[v].bootOrder = workers[v].bootOrder
  <2>1. ASSUME NEW v \in DOMAIN workers
        PROVE  Silenced({v})[v].bootOrder = workers[v].bootOrder
    BY <1>2, SilencedRecord
  <2> QED BY <1>2, <1>6, <2>1 DEF FencedWorkers, FenceBase
<1> HIDE DEF mid
<1>20. /\ DOMAIN ws = DOMAIN workers \cup {w} /\ ws[w] = rec
       /\ \A v \in DOMAIN workers \ {w} : ws[v] = mid[v]
  BY <1>18 DEF Put, mid
<1> HIDE DEF ws
<1>21. ASSUME NEW u \in DOMAIN workers'
       PROVE  /\ [ws[u] EXCEPT !.ready = FALSE, !.healthy = FALSE]
                   = [workers'[u] EXCEPT !.ready = FALSE, !.healthy = FALSE]
              /\ workers'[u].ready => ws[u] = workers'[u]
  <2>1. CASE u = w
    BY <1>6, <1>20, <2>1
  <2>2. CASE u # w
    <3>1. u \in DOMAIN workers /\ workers'[u] = Silenced(F)[u] /\ ws[u] = mid[u]
      BY <1>6, <1>20, <2>2
    <3>2. /\ Cleared(mid)[u] = [mid[u] EXCEPT !.ready = FALSE, !.healthy = FALSE]
          /\ Cleared(Silenced(F))[u] = [Silenced(F)[u] EXCEPT !.ready = FALSE, !.healthy = FALSE]
      <4>1. DOMAIN Silenced(F) = DOMAIN workers
        BY DEF Silenced
      <4> QED BY <1>18, <3>1, <4>1 DEF Cleared
    <3> QED BY <1>18, <3>1, <3>2
  <2> QED BY <2>1, <2>2
<1>22. Cleared(ws) = Cleared(workers')
  BY <1>6, <1>20, <1>21 DEF Cleared
<1>23. end.incumbents = incumbents'
  <2>1. c \in DOMAIN incumbents => incumbents[c] \in DOMAIN workers
    BY <1>2, RegistryLookups
  <2>2. c \in DOMAIN incumbents => ws[incumbents[c]].bootOrder = workers'[incumbents[c]].bootOrder
    BY <1>6, <1>19, <1>20, <2>1
  <2> QED BY <1>1, <1>6, <1>14, <1>20, <2>2 DEF Heir, IncumbentAfter
<1>24. Reached(end)
  BY <1>1, <1>14, <1>17, <1>21, <1>22, <1>23 DEF Reached
<1>25. workers' # workers
  BY <1>6, <1>8
<1> QED
  BY <1>1, <1>15, <1>24, <1>25, WorkersReplayed

-----------------------------------------------------------------------------
(* Every call.                                                             *)

LEMMA CallReplayed ==
    ASSUME Exact, TypeOK', Control \/ Incarnation \/ Output
    PROVE  CallExact
<1>1. ASSUME Control
      PROVE  CallExact
  <2>1. PICK e \in Epochs :
           \/ \E t \in Targets, content \in Contents :
                 RegisterTarget(e, t, content) \/ AdvanceTarget(e, t, content)
           \/ \E c \in Critics, capability \in Capabilities :
                 \/ RegisterCritic(e, c, capability)
                 \/ \E advance \in BOOLEAN : AdvanceCritic(e, c, capability, advance)
           \/ \E r \in Requests, t \in Targets, g \in TargetGenerations, spec \in Policies :
                 DeclareReview(e, r, t, g, spec)
           \/ \E r \in DOMAIN reviews :
                 \/ \E batch \in SUBSET {q \in AssignmentRequests : Assignable(reviews[r], q)} :
                       AssignCritics(e, r, batch)
                 \/ CommitReview(e, r)
                 \/ CancelReview(e, r)
    BY <1>1 DEF Control
  <2>2. ASSUME NEW t, NEW content, RegisterTarget(e, t, content)
        PROVE  CallExact
    BY <2>2, RegisterTargetReplayed
  <2>3. ASSUME NEW t, NEW content, AdvanceTarget(e, t, content)
        PROVE  CallExact
    BY <2>3, AdvanceTargetReplayed
  <2>4. ASSUME NEW c, NEW capability, RegisterCritic(e, c, capability)
        PROVE  CallExact
    BY <2>4, RegisterCriticReplayed
  <2>5. ASSUME NEW c, NEW capability, NEW advance, AdvanceCritic(e, c, capability, advance)
        PROVE  CallExact
    BY <2>5, AdvanceCriticReplayed
  <2>6. ASSUME NEW r, NEW t, NEW g, NEW spec, DeclareReview(e, r, t, g, spec)
        PROVE  CallExact
    BY <2>6, DeclareReviewReplayed
  <2>7. ASSUME NEW r \in DOMAIN reviews, NEW batch, AssignCritics(e, r, batch)
        PROVE  CallExact
    BY <2>7, AssignCriticsReplayed
  <2>8. ASSUME NEW r \in DOMAIN reviews, CommitReview(e, r) \/ CancelReview(e, r)
        PROVE  CallExact
    BY <2>8, CommitReviewReplayed, CancelReviewReplayed
  <2> QED BY <2>1, <2>2, <2>3, <2>4, <2>5, <2>6, <2>7, <2>8
<1>2. ASSUME Incarnation
      PROVE  CallExact
  <2>1. ASSUME NEW e, NEW w, NEW boot, NEW c, NEW g, RegisterWorker(e, w, boot, c, g)
        PROVE  CallExact
    BY <2>1, RegisterWorkerReplayed
  <2>2. ASSUME NEW e, NEW x, NEW ready, NEW healthy, NEW k,
               DeclareReadiness(e, x, ready, healthy, k)
        PROVE  CallExact
    BY <2>2, DeclareReadinessReplayed
  <2>3. ASSUME NEW K, Fence(Fenceable(K))
        PROVE  CallExact
    BY <2>3, FenceCallReplayed
  <2>4. ASSUME NEW w, FenceWorker(w)
        PROVE  CallExact
    BY <2>3, <2>4 DEF FenceWorker
  <2>5. ASSUME NEW c, FenceCritic(c)
        PROVE  CallExact
    BY <2>3, <2>5 DEF FenceCritic
  <2> QED BY <1>2, <2>1, <2>2, <2>4, <2>5 DEF Incarnation
<1>3. ASSUME Output
      PROVE  CallExact
  <2>1. ASSUME NEW m, NEW input, NEW f, SubmitEvidence(m, input, f)
        PROVE  CallExact
    BY <2>1, SubmitEvidenceReplayed
  <2>2. ASSUME NEW m, NEW input, NEW f, SubmitFinding(m, input, f)
        PROVE  CallExact
    BY <2>2, SubmitFindingReplayed
  <2>3. ASSUME NEW m, NEW f, SubmitChallenge(m, f)
        PROVE  CallExact
    BY <2>3, SubmitChallengeReplayed
  <2>4. ASSUME NEW m, NEW ch, NEW outcome, SubmitRebuttal(m, ch, outcome)
        PROVE  CallExact
    BY <2>4, SubmitRebuttalReplayed
  <2> QED BY <1>3, <2>1, <2>2, <2>3, <2>4 DEF Output
<1> QED
  BY <1>1, <1>2, <1>3

\* The boot orders and the critics of the processes stay, unless one of them is
\* registered: with the next boot order, for a critic that is known already.
Staying(W) ==
    \A w \in W : workers'[w].bootOrder = workers[w].bootOrder /\ workers'[w].critic = workers[w].critic

Enrolled(w) ==
    /\ nextBootOrder' = nextBootOrder + 1
    /\ DOMAIN workers' = DOMAIN workers \cup {w}
    /\ workers'[w].critic \in DOMAIN critics
    /\ workers'[w].bootOrder = nextBootOrder
    /\ Staying(DOMAIN workers \ {w})

Unenrolled ==
    /\ nextBootOrder' = nextBootOrder
    /\ DOMAIN workers' = DOMAIN workers
    /\ Staying(DOMAIN workers)

LEMMA CallEnrols ==
    ASSUME TypeOK, OpenIsOfTheDay, Control \/ Incarnation \/ Output
    PROVE  Unenrolled \/ \E w : Enrolled(w)
<1> DEFINE Ok == Unenrolled \/ \E w : Enrolled(w)
<1>1. IsMap(workers, Workers, Worker) /\ \A w \in DOMAIN workers : workers[w] \in Worker
  BY DEF TypeOK, RegistryTypeOK, IsMap
<1>2. ASSUME NEW ws, workers' = Silenced(ws), nextBootOrder' = nextBootOrder
      PROVE  Ok
  BY <1>1, <1>2, SilencedWorkers DEF Unenrolled, Staying
<1>3. workers' = workers /\ nextBootOrder' = nextBootOrder => Ok
  BY DEF Unenrolled, Staying
<1>4. ASSUME NEW e, NEW w, NEW boot, NEW c, NEW g, RegisterWorker(e, w, boot, c, g)
      PROVE  Ok
  <2> DEFINE rec == [boot |-> boot, critic |-> c, criticGeneration |-> g,
                     ready |-> FALSE, healthy |-> FALSE, bootOrder |-> nextBootOrder]
  <2>1. PICK F : workers' = Put(Silenced(F), w, rec)
    BY <1>4 DEF RegisterWorker
  <2>2. /\ c \in DOMAIN critics /\ nextBootOrder' = nextBootOrder + 1
        /\ rec.critic = c /\ rec.bootOrder = nextBootOrder
    BY <1>4 DEF RegisterWorker
  <2> HIDE DEF rec
  <2>3. DOMAIN Silenced(F) = DOMAIN workers
    BY DEF Silenced
  <2>4. \A v \in DOMAIN workers : /\ Silenced(F)[v].critic = workers[v].critic
                                 /\ Silenced(F)[v].bootOrder = workers[v].bootOrder
    BY <1>1, SilencedWorkers
  <2>5. Enrolled(w)
    BY <2>1, <2>2, <2>3, <2>4 DEF Put, Enrolled, Staying
  <2> QED BY <2>5
<1>5. ASSUME NEW e, NEW x, NEW ready, NEW healthy, NEW k, DeclareReadiness(e, x, ready, healthy, k)
      PROVE  Ok
  <2>1. /\ workers' = [workers EXCEPT ![x.worker].ready = ready, ![x.worker].healthy = healthy]
        /\ nextBootOrder' = nextBootOrder
    BY <1>5 DEF DeclareReadiness
  <2>2. \A w \in DOMAIN workers : /\ workers'[w].critic = workers[w].critic
                                 /\ workers'[w].bootOrder = workers[w].bootOrder
    BY <1>1, <2>1 DEF Worker
  <2> QED BY <2>1, <2>2 DEF Unenrolled, Staying
<1> HIDE DEF Ok
<1>6. ASSUME NEW e, NEW c, NEW capability, NEW advance, AdvanceCritic(e, c, capability, advance)
      PROVE  Ok
  BY <1>2, <1>6 DEF AdvanceCritic
<1>7. (\E e, t, content : RegisterTarget(e, t, content) \/ AdvanceTarget(e, t, content)) => Ok
  BY <1>3 DEF RegisterTarget, AdvanceTarget
<1>8. (\E e, c, capability : RegisterCritic(e, c, capability)) => Ok
  BY <1>3 DEF RegisterCritic
<1>9. (\E e, r, t, g, spec : DeclareReview(e, r, t, g, spec)) => Ok
  BY <1>3 DEF DeclareReview, registry
<1>10. (\E ws : Fence(ws)) => Ok
  BY <1>2 DEF Fence
<1>11. Written => Ok
  BY <1>3 DEF Written, registry
<1> QED
  BY <1>4, <1>5, <1>6, <1>7, <1>8, <1>9, <1>10, <1>11, CallSteps DEF Ok

\* rebuild_derived_locked finds the counter as it was.
LEMMA SameBootOrders ==
    ASSUME NEW ws, NEW vs, DOMAIN ws = DOMAIN vs,
           \A w \in DOMAIN ws : ws[w].bootOrder = vs[w].bootOrder
    PROVE  NextBootOrder(ws) = NextBootOrder(vs)
<1>1. BootOrdersOf(ws) = BootOrdersOf(vs)
  BY DEF BootOrdersOf
<1> QED
  BY <1>1 DEF NextBootOrder

LEMMA NewestBootOrder ==
    ASSUME NEW ws, NEW n \in Nat, NEW w \in DOMAIN ws, ws[w].bootOrder = n,
           \A v \in DOMAIN ws : ws[v].bootOrder \in Nat /\ ws[v].bootOrder <= n
    PROVE  NextBootOrder(ws) = n + 1
<1> DEFINE S == BootOrdersOf(ws)
<1>1. n \in S /\ \A y \in S : y \in Nat /\ y <= n
  BY DEF BootOrdersOf
<1>2. NextBootOrder(ws) = 1 + Max(S)
  BY DEF NextBootOrder
<1> HIDE DEF S
<1>3. Max(S) \in S /\ \A y \in S : Max(S) >= y
  <2>1. \A y \in S : n >= y
    BY <1>1
  <2> QED BY <1>1, <2>1 DEF Max
<1> DEFINE m == Max(S)
<1>4. m \in Nat /\ m <= n /\ m >= n
  <2>1. m \in S /\ m >= n
    BY <1>1, <1>3
  <2> HIDE DEF m
  <2> QED BY <1>1, <2>1
<1> HIDE DEF m
<1>5. m = n
  BY <1>4
<1>6. NextBootOrder(ws) = 1 + m
  BY <1>2 DEF m
<1> QED
  BY <1>5, <1>6

NextInLine == nextBootOrder = NextBootOrder(workers)

LEMMA CallNextInLine ==
    ASSUME TypeOK, RegistryInv, RegistryInv', OpenIsOfTheDay, NextInLine,
           Control \/ Incarnation \/ Output
    PROVE  NextInLine'
<1>1. CASE Unenrolled
  <2>1. NextBootOrder(workers') = NextBootOrder(workers)
    BY <1>1, SameBootOrders DEF Unenrolled, Staying
  <2> QED BY <1>1, <2>1 DEF NextInLine, Unenrolled
<1>2. ASSUME NEW w, Enrolled(w)
      PROVE  NextInLine'
  <2>1. /\ nextBootOrder \in Nat /\ nextBootOrder' = nextBootOrder + 1
        /\ w \in DOMAIN workers' /\ workers'[w].bootOrder = nextBootOrder
    BY <1>2, RegistryLookups DEF Enrolled, RegistryInv
  <2>2. \A v \in DOMAIN workers' : workers'[v].bootOrder \in Nat
    BY BootOrdersAreNumbers DEF RegistryInv, RegistryTypeOK
  <2>3. \A v \in DOMAIN workers' : workers'[v].bootOrder < nextBootOrder'
    BY DEF RegistryInv, BootOrdersPast
  <2>4. \A v \in DOMAIN workers' : workers'[v].bootOrder <= nextBootOrder
    BY <2>1, <2>2, <2>3
  <2>5. NextBootOrder(workers') = nextBootOrder + 1
    BY <2>1, <2>2, <2>4, NewestBootOrder
  <2> QED BY <2>1, <2>5 DEF NextInLine
<1> QED
  BY <1>1, <1>2, CallEnrols

-----------------------------------------------------------------------------
(* The start.                                                              *)

\* The state of an open review is all that its recovery changes.
LEMMA RecoveredEntry ==
    ASSUME NEW rev, NEW D, Kempt(rev, D), NEW r
    PROVE  /\ Amended(rev, StateEntry(r, Recovered(rev))) = Recovered(rev)
           /\ Kempt(Recovered(rev), D)
<1>1. rev \in Review
  BY DEF Kempt
<1>2. Amended(rev, StateEntry(r, Recovered(rev))) = Stated(rev, Recovered(rev))
  BY StateAmended
<1>3. CASE rev.state \in TerminalStates
  <2>1. Recovered(rev) = rev
    BY <1>3 DEF Recovered, Revalidate
  <2>2. Stated(rev, rev) = rev
    BY <1>1 DEF Stated, Review
  <2> QED BY <1>2, <2>1, <2>2
<1>4. CASE rev.state \notin TerminalStates
  <2> DEFINE new == [rev EXCEPT !.state = "RevalidationRequired",
                                !.disposition = "RevalidationRequired",
                                !.authorityCurrent = FALSE]
  <2>1. Recovered(rev) = new
    BY <1>4 DEF Recovered, Revalidate
  <2>2. /\ new.state = "RevalidationRequired" /\ new.disposition = "RevalidationRequired"
        /\ new.authorityCurrent = FALSE /\ new.roundsUsed = rev.roundsUsed
        /\ new.assignments = rev.assignments /\ new.findings = rev.findings
        /\ new.evidences = rev.evidences /\ new.challenges = rev.challenges
    BY <1>1 DEF Review
  <2>3. Stated(rev, new) = new
    BY <1>1, <2>2 DEF Stated, Review
  <2>4. new \in Review
    BY <1>1, <2>1, RevalidateKeeps, KemptRecords DEF Kept, Recovered
  <2> HIDE DEF new
  <2>5. Kempt(new, D)
    BY <2>2, <2>4 DEF Kempt
  <2> QED BY <1>2, <2>1, <2>3, <2>5
<1> QED
  BY <1>3, <1>4

\* What a journal holds after a start.
Reopened ==
    Rewritten(Applied(durable, Entry("EpochEstablished", NoId, durable.epoch + 1)),
              DOMAIN durable.reviews,
              [r \in DOMAIN durable.reviews |-> Recovered(durable.reviews[r])])

LEMMA RecoveryReplayed ==
    ASSUME StoreOK(durable), Sound(durable)
    PROVE  /\ Replayed(RecoveryEntries(durable.reviews), durable, Reopened)
           /\ Reopened.epoch = durable.epoch + 1 /\ Reopened.targets = durable.targets
           /\ Reopened.critics = durable.critics /\ Reopened.workers = durable.workers
           /\ Reopened.incumbents = durable.incumbents
           /\ Reopened.reviews = [r \in DOMAIN durable.reviews |-> Recovered(durable.reviews[r])]
<1> DEFINE first == Entry("EpochEstablished", NoId, durable.epoch + 1)
           base == Applied(durable, first)
           revs == durable.reviews
           new == [r \in DOMAIN revs |-> Recovered(revs[r])]
           open == {r \in DOMAIN revs : revs[r].state \notin TerminalStates}
           e == [r \in open |-> StateEntry(r, Recovered(revs[r]))]
           S == {e[r] : r \in open}
           g == [T \in SUBSET S |-> Rewritten(base, {x.id : x \in T}, new)]
           all == DOMAIN revs
<1>1. first \in Entries /\ first.type = "EpochEstablished" /\ first.value = durable.epoch + 1
  <2>1. durable.epoch + 1 \in Nat
    BY DEF StoreOK
  <2> QED BY <2>1 DEF Entry, Entries, Establishment
<1>2. Shape(durable) /\ IsFiniteSet(DOMAIN revs)
  BY DEF StoreOK
<1> HIDE DEF first
<1>3. /\ Shape(base) /\ base.epoch = durable.epoch + 1 /\ base.targets = durable.targets
      /\ base.critics = durable.critics /\ base.workers = durable.workers
      /\ base.incumbents = durable.incumbents /\ base.reviews = revs
  BY <1>1, <1>2, AppliedGlobal DEF Global
<1> HIDE DEF base
<1>4. Sound(base)
  BY <1>3 DEF Sound
<1>5. Replayed(<<first>>, durable, base)
  BY <1>1, <1>4, ReplayedOne DEF base
<1>6. ASSUME NEW r \in DOMAIN revs
      PROVE  /\ Amended(revs[r], StateEntry(r, new[r])) = new[r]
             /\ Kempt(new[r], DOMAIN base.critics)
  <2>1. Kempt(revs[r], DOMAIN base.critics) /\ new[r] = Recovered(revs[r])
    BY <1>3 DEF Sound
  <2> QED BY <2>1, RecoveredEntry
<1>7. \A r \in DOMAIN revs : r \notin open => new[r] = revs[r]
  BY DEF Recovered, Revalidate
<1>8. \A r \in open : e[r] = StateEntry(r, new[r]) /\ e[r].id = r /\ e[r] \in Amendment
  <2>1. ASSUME NEW r \in open
        PROVE  StateEntry(r, Recovered(revs[r])) \in Amendment
    BY RecoveredState
  <2> QED BY <2>1 DEF StateEntry, Entry
<1>9. RecoveryEntries(revs) = <<first>> \o SetToSeq(S)
  BY DEF RecoveryEntries, Each, first
<1>10. open \subseteq DOMAIN revs
  OBVIOUS
<1> HIDE DEF new, open, e
<1>11. IsFiniteSet(S) /\ S \in SUBSET (Amendment \cup Ruling)
  <2>1. IsFiniteSet(open)
    BY <1>2, <1>10, FS_Subset
  <2>2. e = [r \in open |-> e[r]]
    BY DEF e
  <2> QED BY <1>8, <2>1, <2>2, FiniteImage
<1>12. ASSUME NEW T \in SUBSET S
       PROVE  /\ g[T] = Rewritten(base, {x.id : x \in T}, new)
              /\ Sound(g[T])
  <2> DEFINE R == {x.id : x \in T}
  <2>1. \A r \in R \cap DOMAIN base.reviews : Kempt(new[r], DOMAIN base.critics)
    BY <1>3, <1>6
  <2>2. g[T] = Rewritten(base, R, new)
    OBVIOUS
  <2> HIDE DEF R, g
  <2>3. Sound(Rewritten(base, R, new))
    BY <1>4, <2>1, RewrittenSound
  <2> QED BY <2>2, <2>3 DEF R
<1>13. ASSUME NEW T \in SUBSET S, NEW x \in S \ T
       PROVE  g[T \cup {x}] = Applied(g[T], x)
  <2>1. PICK r \in open : x = e[r]
    OBVIOUS
  <2> DEFINE R == {y.id : y \in T}
             a == Rewritten(base, R, new)
             b == Rewritten(base, R \cup {r}, new)
             c == With(a, r, new[r])
  <2>2. /\ x \in Amendment /\ x.id = r /\ x = StateEntry(r, new[r])
        /\ r \in DOMAIN revs
    BY <1>8, <1>10, <2>1
  <2>3. r \notin R
    BY <1>8, <2>1
  <2>4. {y.id : y \in T \cup {x}} = R \cup {r}
    BY <2>2
  <2>5. T \cup {x} \in SUBSET S
    OBVIOUS
  <2>6. g[T] = a /\ Sound(a) /\ g[T \cup {x}] = b
    BY <1>12, <2>4, <2>5
  <2> HIDE DEF R, g, S
  <2>7. /\ Shape(a) /\ a.epoch = base.epoch /\ a.targets = base.targets
        /\ a.critics = base.critics /\ a.workers = base.workers
        /\ a.incumbents = base.incumbents
        /\ a.reviews = [q \in DOMAIN base.reviews |-> IF q \in R THEN new[q] ELSE base.reviews[q]]
    BY <1>4, RewrittenFields
  <2>8. /\ Shape(b) /\ b.epoch = base.epoch /\ b.targets = base.targets
        /\ b.critics = base.critics /\ b.workers = base.workers
        /\ b.incumbents = base.incumbents
        /\ b.reviews = [q \in DOMAIN base.reviews |->
                          IF q \in R \cup {r} THEN new[q] ELSE base.reviews[q]]
    BY <1>4, RewrittenFields
  <2> HIDE DEF a, b
  <2>9. r \in DOMAIN a.reviews /\ a.reviews[r] = revs[r]
    BY <1>3, <2>2, <2>3, <2>7
  <2>10. Applied(a, x) = With(a, r, Amended(a.reviews[r], x))
    BY <2>2, <2>6, <2>9, AmendedStore
  <2>11. Amended(a.reviews[r], x) = new[r]
    BY <1>6, <2>2, <2>9
  <2>12. /\ Shape(c) /\ c.epoch = a.epoch /\ c.targets = a.targets
         /\ c.critics = a.critics /\ c.workers = a.workers
         /\ c.incumbents = a.incumbents
         /\ c.reviews = [a.reviews EXCEPT ![r] = new[r]]
    BY <2>6, <2>9, WithFields, WithReviews
  <2> HIDE DEF c
  <2>13. c.reviews = b.reviews
    BY <2>7, <2>8, <2>12
  <2>14. c = b
    BY <2>7, <2>8, <2>12, <2>13, SameStore
  <2> QED BY <2>6, <2>10, <2>11, <2>14 DEF c
<1>14. g[{}] = base
  <2>1. {} \in SUBSET S /\ {x.id : x \in {}} = {}
    OBVIOUS
  <2>2. g[{}] = Rewritten(base, {}, new)
    BY <1>12, <2>1
  <2>3. [r \in DOMAIN base.reviews |-> IF r \in {} THEN new[r] ELSE base.reviews[r]]
           = base.reviews
    BY <1>4 DEF Sound
  <2> HIDE DEF g, S
  <2>4. Rewritten(base, {}, new) = base
    BY <1>4, <2>3, RewrittenFields, SameStore DEF Sound
  <2> QED BY <2>2, <2>4
<1> DEFINE end == Rewritten(base, all, new)
<1>15. /\ Shape(end) /\ end.epoch = base.epoch /\ end.targets = base.targets
       /\ end.critics = base.critics /\ end.workers = base.workers
       /\ end.incumbents = base.incumbents
       /\ end.reviews = [q \in DOMAIN base.reviews |-> IF q \in all THEN new[q] ELSE base.reviews[q]]
  <2> HIDE DEF all
  <2> QED BY <1>4, RewrittenFields
<1>16. end.reviews = new
  BY <1>3, <1>15 DEF new
<1>17. g[S] = end
  <2> DEFINE R == {x.id : x \in S}
             b == Rewritten(base, R, new)
  <2>1. g[S] = b /\ S \in SUBSET S
    BY <1>12
  <2>2. R = open
    BY <1>8
  <2> HIDE DEF g, R, S, end
  <2>3. /\ Shape(b) /\ b.epoch = base.epoch /\ b.targets = base.targets
        /\ b.critics = base.critics /\ b.workers = base.workers
        /\ b.incumbents = base.incumbents
        /\ b.reviews = [q \in DOMAIN base.reviews |-> IF q \in R THEN new[q] ELSE base.reviews[q]]
    BY <1>4, RewrittenFields
  <2>4. b.reviews = new
    BY <1>3, <1>7, <2>2, <2>3 DEF new
  <2> HIDE DEF b
  <2>5. b = end
    BY <1>15, <1>16, <2>3, <2>4, SameStore
  <2> QED BY <2>1, <2>5
<1>18. Replayed(SetToSeq(S), base, end)
  <2>1. /\ \A T \in SUBSET S : Sound(g[T])
        /\ \A T \in SUBSET S : \A x \in S \ T : g[T \cup {x}] = Applied(g[T], x)
    BY <1>12, <1>13
  <2>2. S \in SUBSET Entries
    BY <1>11, AmendmentKinds
  <2> HIDE DEF g, S, end
  <2>3. Replayed(SetToSeq(S), g[{}], g[S])
    BY <1>11, <2>1, <2>2, ReplayedEach
  <2> QED BY <1>14, <1>17, <2>3
<1>19. Reopened = end
  BY DEF Reopened, base, first, new
<1> HIDE DEF end, S
<1>20. Replayed(RecoveryEntries(revs), durable, end)
  BY <1>5, <1>9, <1>18, ReplayedBoth
<1> QED
  BY <1>3, <1>15, <1>16, <1>19, <1>20 DEF new

-----------------------------------------------------------------------------
(* Fences after a failure.                                                 *)

\* Entries that leave every journal in order, whatever it is missing.
Harmless ==
    {x \in Registration : x.value.critic \in DOMAIN durable.critics}
    \cup {x \in About("AssignmentUpdated", Assignment) : ~x.value.active}
    \cup About("ReviewStateChanged", StateRecord)

LEMMA HarmlessSound ==
    ASSUME Sound(durable), NEW x \in Harmless
    PROVE  /\ Sound(Applied(durable, x))
           /\ Applied(durable, x).critics = durable.critics
<1>1. Shape(durable)
  BY DEF Sound
<1>2. CASE x \in Registration /\ x.value.critic \in DOMAIN durable.critics
  <2> DEFINE b == Applied(durable, x)
  <2>1. x.type = "WorkerRegistered"
    BY <1>2 DEF Registration
  <2>2. /\ Shape(b) /\ b.critics = durable.critics /\ b.reviews = durable.reviews
        /\ b.workers = Put(durable.workers, x.id, x.value)
    BY <1>1, <2>1, AppliedGlobal DEF Global
  <2> HIDE DEF b
  <2>3. \A u \in DOMAIN b.workers : b.workers[u].critic \in DOMAIN b.critics
    BY <1>2, <2>2 DEF Put, Sound
  <2>4. Sound(b)
    BY <2>2, <2>3 DEF Sound
  <2> QED BY <2>2, <2>4 DEF b
<1>3. CASE \/ x \in About("AssignmentUpdated", Assignment) /\ ~x.value.active
           \/ x \in About("ReviewStateChanged", StateRecord)
  <2>1. /\ x \in Amendment \cup Ruling
        /\ x.type \in {"AssignmentUpdated", "ReviewStateChanged"}
        /\ x.type = "AssignmentUpdated" => ~x.value.active
    BY <1>3 DEF Amendment, About
  <2>2. CASE x.id \in DOMAIN durable.reviews
    <3> DEFINE rev == durable.reviews[x.id]
               new == Amended(rev, x)
    <3>1. Kempt(rev, DOMAIN durable.critics) /\ Fits(rev, DOMAIN durable.critics, x)
      BY <2>1, <2>2 DEF Sound, Fits
    <3>2. Kempt(new, DOMAIN durable.critics)
      BY <3>1, AmendedKempt
    <3>3. Applied(durable, x) = With(durable, x.id, new)
      BY <2>1, <2>2, AmendedStore
    <3> HIDE DEF new
    <3>4. Sound(With(durable, x.id, new)) /\ With(durable, x.id, new).critics = durable.critics
      BY <2>2, <3>2, WithSound, WithFields
    <3> QED BY <3>3, <3>4
  <2>3. CASE x.id \notin DOMAIN durable.reviews
    <3>1. Applied(durable, x) = durable
      BY <2>1, <2>3 DEF Applied
    <3> QED BY <3>1
  <2> QED BY <2>2, <2>3
<1> QED
  BY <1>2, <1>3 DEF Harmless

\* What a fence writes is of that kind.
LEMMA FenceHarmless ==
    ASSUME TypeOK, FiniteMaps, TypeOK', IsFiniteSet(DOMAIN workers'), NEW K, Fence(Fenceable(K)),
           \A w \in DOMAIN workers : workers[w].critic \in DOMAIN durable.critics
    PROVE  CallEntries \in Seq(Harmless)
<1> DEFINE W == Fenceable(K)
<1>1. /\ workers' = Silenced(W)
      /\ reviews' = [r \in DOMAIN reviews |-> Retire(reviews[r], Abandoned(reviews[r], W))]
      /\ UNCHANGED <<epoch, targets, critics, incumbents, nextBootOrder>>
  BY DEF Fence
<1>2. TargetEntries = <<>> /\ CriticEntries = <<>>
  BY <1>1, QuietTargets, QuietCritics
<1>3. /\ IsMap(workers', Workers, Worker) /\ DOMAIN workers' = DOMAIN workers
      /\ \A w \in DOMAIN workers : workers'[w].critic = workers[w].critic
  <2>1. IsMap(workers, Workers, Worker)
    BY DEF TypeOK, RegistryTypeOK
  <2> QED BY <1>1, <2>1, SilencedWorkers
<1>4. ASSUME NEW w \in DOMAIN workers
      PROVE  FenceEntries(w) \in Seq(Harmless)
  <2>1. Entry("WorkerRegistered", w, Silenced({w})[w]) \in Harmless
    <3>1. Silenced({w})[w] \in Worker /\ Silenced({w})[w].critic = workers[w].critic
      BY SilencedRecord
    <3>2. w \in Workers
      BY <1>3 DEF IsMap
    <3> QED BY <3>1, <3>2 DEF Entry, Harmless, Registration
  <2>2. ASSUME NEW r \in DOMAIN reviews
        PROVE  /\ \A a \in GivenUp(r, w) :
                     Entry("AssignmentUpdated", r, [a EXCEPT !.active = FALSE]) \in Harmless
               /\ StateEntry(r, Revalidate(reviews[r])) \in Harmless
    <3>1. reviews[r] \in Review /\ r \in Requests
      BY DEF TypeOK, ReviewsTypeOK, IsMap
    <3>2. ASSUME NEW a \in GivenUp(r, w)
          PROVE  Entry("AssignmentUpdated", r, [a EXCEPT !.active = FALSE]) \in Harmless
      <4>1. a \in Assignment
        BY <3>1 DEF GivenUp, Abandoned, Review
      <4> DEFINE b == [a EXCEPT !.active = FALSE]
      <4>2. b \in Assignment /\ ~b.active
        BY <4>1 DEF Assignment
      <4> HIDE DEF b
      <4>3. Entry("AssignmentUpdated", r, b) \in Harmless
        BY <3>1, <4>2 DEF Entry, Harmless, About
      <4> QED BY <4>3 DEF b
    <3>3. StateEntry(r, Revalidate(reviews[r])) \in Harmless
      <4>1. StateEntry(r, Revalidate(reviews[r])) \in Amendment
        BY WithdrawalEntries
      <4>2. StateEntry(r, Revalidate(reviews[r])).type = "ReviewStateChanged"
        BY DEF StateEntry, Entry
      <4> QED BY <4>1, <4>2 DEF Amendment, About, Harmless
    <3> QED BY <3>2, <3>3
  <2> QED BY <2>1, <2>2, FenceListed
<1>5. WorkerEntries \in Seq(Harmless)
  <2>1. \A w \in DOMAIN workers' : Entry("WorkerRegistered", w, workers'[w]) \in Harmless
    BY <1>3 DEF IsMap, Entry, Harmless, Registration
  <2>2. PICK pre \in Seq(Harmless), post \in Seq(Harmless) : WorkerEntries = pre \o post
    BY <1>4, <2>1, WorkerListed
  <2> QED BY <2>2, ConcatProperties
<1>6. Recorded = <<>>
  <2>1. CASE registry' # registry
    BY <2>1 DEF Recorded
  <2>2. CASE registry' = registry
    <3>1. W = {}
      <4>1. ASSUME NEW w \in W
            PROVE  FALSE
        <5>1. w \in DOMAIN workers /\ (workers[w].ready \/ workers[w].healthy)
          BY DEF Fenceable
        <5>2. workers' = workers
          BY <2>2 DEF registry
        <5>3. workers'[w] = Silenced({w})[w]
          BY <1>1, <5>1 DEF Silenced
        <5> QED BY <5>1, <5>2, <5>3, SilencedRecord
      <4> QED BY <4>1
    <3> HIDE DEF W
    <3>2. \A r \in DOMAIN reviews : Retire(reviews[r], Abandoned(reviews[r], W)) = reviews[r]
      BY <3>1 DEF Abandoned, Retire
    <3>3. DOMAIN reviews' = DOMAIN reviews /\ \A r \in DOMAIN reviews : reviews'[r] = reviews[r]
      BY <1>1, <3>2
    <3>4. DeclaredEntries = <<>>
      BY <3>3, QuietDeclarations
    <3>5. OfReviews = <<>>
      <4> DEFINE f == [r \in DOMAIN reviews |-> ReviewEntries(r)]
      <4>1. /\ f = [r \in DOMAIN f |-> f[r]] /\ DOMAIN f = DOMAIN reviews
            /\ \A r \in DOMAIN reviews : f[r] = ReviewEntries(r)
        OBVIOUS
      <4> HIDE DEF f
      <4>2. Joined(f) = <<>>
        BY <3>3, <4>1, QuietReview, JoinedEmpty DEF FiniteMaps
      <4> QED BY <4>2 DEF OfReviews, f
    <3> QED BY <2>2, <3>4, <3>5 DEF Recorded
  <2> QED BY <2>1, <2>2
<1>7. OfWorkers \in Seq(Harmless)
  BY <1>1, <1>5 DEF OfWorkers
<1> QED
  BY <1>2, <1>6, <1>7, CallInBlocks

-----------------------------------------------------------------------------
(* The invariant.                                                          *)

\* Replaying what is still to be appended leads to what the memory holds.
OnTheWay == \E end : Replayed(pending, durable, end) /\ Agrees(end)

\* No append has failed, and no call has been overtaken by stop.
InStep == ~failed /\ (serving = "stopped" => ~torn)

ReplayInv ==
    /\ Sound(durable)
    /\ NextInLine
    /\ serving # "stopped" =>
          \A w \in DOMAIN workers : workers[w].critic \in DOMAIN durable.critics
    /\ InStep => OnTheWay
    /\ failed => torn /\ pending \in Seq(Harmless)

\* Between calls the journal holds what the memory does.
LEMMA JournalAgrees ==
    ASSUME DurableInv, ReplayInv, pending = <<>>, InStep
    PROVE  Exact /\ Agrees(durable)
<1>1. PICK end : Replayed(pending, durable, end) /\ Agrees(end)
  BY DEF ReplayInv, OnTheWay
<1>2. end = durable
  BY <1>1, ReplayedNoneOnly
<1> QED
  BY <1>1, <1>2 DEF DurableInv, ReplayInv, Exact

\* No entry takes a critic away.
LEMMA CriticsStay ==
    ASSUME NEW store, Shape(store), NEW x
    PROVE  DOMAIN store.critics \subseteq DOMAIN Applied(store, x).critics
<1> DEFINE new == Applied(store, x)
<1>1. new.critics = IF x.type = "CriticRegistered" THEN Put(store.critics, x.id, x.value)
                    ELSE store.critics
  BY AppliedFields
<1> HIDE DEF new
<1>2. DOMAIN store.critics \subseteq DOMAIN new.critics
  BY <1>1 DEF Put
<1> QED
  BY <1>2 DEF new

LEMMA ReplayInvInit == Init /\ JournalInit => ReplayInv
<1> SUFFICES ASSUME Init, JournalInit
             PROVE  ReplayInv
  OBVIOUS
<1>1. DurableInv
  BY DurableInvInit
<1>2. /\ DOMAIN workers = {} /\ DOMAIN reviews = {} /\ nextBootOrder = 1
      /\ pending = <<>> /\ ~failed /\ serving = "up"
  BY DEF Init, EmptyMap, JournalInit
<1>3. Shape(durable) /\ IsMap(durable.reviews, Requests, Review)
  BY <1>1 DEF DurableInv, StoreOK
<1>4. /\ durable.workers = workers /\ durable.reviews = reviews /\ Agrees(durable)
  BY DEF JournalInit, Agrees
<1>5. Sound(durable)
  BY <1>2, <1>3, <1>4 DEF Sound, IsMap
<1>6. OnTheWay
  BY <1>2, <1>4, <1>5, ReplayedNone DEF OnTheWay
<1>7. NextInLine
  BY <1>2 DEF NextInLine, NextBootOrder
<1> QED
  BY <1>2, <1>5, <1>6, <1>7 DEF ReplayInv

LEMMA CallStays ==
    ASSUME DurableInv, ReplayInv, Call
    PROVE  ReplayInv'
<1>1. /\ Control \/ Incarnation \/ Output
      /\ serving = "up" /\ pending = <<>> /\ ~failed /\ pending' = CallEntries
      /\ UNCHANGED <<durable, serving, failed, torn, served, closed>>
  BY DEF Call
<1>2. Exact /\ Agrees(durable)
  BY <1>1, JournalAgrees DEF InStep
<1>3. /\ TypeOK /\ RegistryInv /\ OpenIsOfTheDay /\ TypeOK' /\ RegistryInv'
  BY <1>1, CallIsNext DEF DurableInv
<1>4. NextInLine'
  BY <1>1, <1>3, CallNextInLine DEF ReplayInv
<1>5. \A w \in DOMAIN workers' : workers'[w].critic \in DOMAIN durable.critics
  <2>1. \A w \in DOMAIN workers : workers[w].critic \in DOMAIN durable.critics
    BY <1>1 DEF ReplayInv
  <2>2. durable.critics = critics
    BY <1>2 DEF Agrees
  <2>3. Unenrolled \/ \E w : Enrolled(w)
    BY <1>1, <1>3, CallEnrols
  <2> QED BY <2>1, <2>2, <2>3 DEF Unenrolled, Enrolled, Staying
<1>6. OnTheWay'
  <2>1. PICK end : Replayed(CallEntries, durable, end) /\ Reached(end)
    BY <1>1, <1>2, <1>3, CallReplayed DEF CallExact
  <2>2. Replayed(pending', durable', end)
    BY <1>1, <2>1
  <2> QED BY <2>1, <2>2 DEF OnTheWay, Reached, Agrees
<1>7. Sound(durable')
  BY <1>1 DEF ReplayInv
<1> QED
  BY <1>1, <1>4, <1>5, <1>6, <1>7 DEF ReplayInv

LEMMA FenceAfterFailureStays ==
    ASSUME DurableInv, ReplayInv, FenceAfterFailure
    PROVE  ReplayInv'
<1>1. /\ Control \/ Incarnation \/ Output
      /\ serving = "up" /\ pending = <<>> /\ failed /\ pending' = CallEntries
      /\ UNCHANGED <<durable, serving, failed, torn, served, closed>>
  BY DEF FenceAfterFailure, Incarnation
<1>2. PICK K : Fence(Fenceable(K))
  BY DEF FenceAfterFailure, FenceWorker, FenceCritic
<1>3. /\ TypeOK /\ RegistryInv /\ OpenIsOfTheDay /\ TypeOK' /\ RegistryInv'
      /\ FiniteMaps /\ IsFiniteSet(DOMAIN workers')
  BY <1>1, CallIsNext, CallKnown DEF DurableInv, FiniteMaps
<1>4. NextInLine'
  BY <1>1, <1>3, CallNextInLine DEF ReplayInv
<1>5. \A w \in DOMAIN workers : workers[w].critic \in DOMAIN durable.critics
  BY <1>1 DEF ReplayInv
<1>6. \A w \in DOMAIN workers' : workers'[w].critic \in DOMAIN durable.critics
  <2>1. IsMap(workers, Workers, Worker) /\ workers' = Silenced(Fenceable(K))
    BY <1>2, <1>3 DEF Fence, TypeOK, RegistryTypeOK
  <2> QED BY <1>5, <2>1, SilencedWorkers
<1>7. CallEntries \in Seq(Harmless)
  BY <1>2, <1>3, <1>5, FenceHarmless
<1>8. Harmless' = Harmless
  BY <1>1 DEF Harmless
<1> QED
  BY <1>1, <1>4, <1>6, <1>7, <1>8 DEF ReplayInv, InStep

LEMMA AppendEntryStays ==
    ASSUME DurableInv, ReplayInv, AppendEntry
    PROVE  ReplayInv'
<1> DEFINE new == Applied(durable, Head(pending))
<1>1. /\ pending # <<>> /\ durable' = new /\ pending' = Tail(pending)
      /\ UNCHANGED <<vars, failed, torn>>
      /\ serving # "stopped" /\ serving' # "stopped"
  BY WritingIsOpen DEF AppendEntry
<1>2. UNCHANGED <<epoch, targets, critics, workers, incumbents, nextBootOrder, reviews>>
  BY <1>1 DEF vars, registry
<1> HIDE DEF new
<1>3. NextInLine'
  BY <1>2 DEF ReplayInv, NextInLine
<1>4. CASE ~failed
  <2>1. PICK end : Replayed(pending, durable, end) /\ Agrees(end)
    BY <1>1, <1>4 DEF ReplayInv, InStep, OnTheWay
  <2>2. Sound(new) /\ Replayed(Tail(pending), new, end)
    BY <1>1, <2>1, ReplayedTail DEF new
  <2>3. OnTheWay'
    BY <1>1, <1>2, <2>1, <2>2 DEF OnTheWay, Agrees
  <2>4. DOMAIN durable.critics \subseteq DOMAIN new.critics
    BY CriticsStay DEF new, ReplayInv, Sound
  <2> QED BY <1>1, <1>2, <1>3, <1>4, <2>2, <2>3, <2>4 DEF ReplayInv
<1>5. CASE failed
  <2>1. pending \in Seq(Harmless) /\ torn /\ Sound(durable)
    BY <1>5 DEF ReplayInv
  <2>2. Head(pending) \in Harmless /\ Tail(pending) \in Seq(Harmless)
    BY <1>1, <2>1, HeadTailProperties
  <2>3. Sound(new) /\ new.critics = durable.critics
    BY <2>1, <2>2, HarmlessSound DEF new
  <2>4. Harmless' = Harmless
    BY <1>1, <2>3 DEF Harmless
  <2> QED BY <1>1, <1>2, <1>3, <1>5, <2>1, <2>2, <2>3, <2>4 DEF ReplayInv, InStep
<1> QED
  BY <1>4, <1>5

LEMMA AppendFailsStays ==
    ASSUME DurableInv, ReplayInv, AppendFails
    PROVE  ReplayInv'
<1> DEFINE new == Applied(durable, Head(pending))
<1>1. /\ pending # <<>> /\ durable' \in {durable, new} /\ pending' = <<>>
      /\ failed' = TRUE /\ torn' = TRUE /\ UNCHANGED vars
      /\ serving = "up" /\ serving' = "up"
  BY DEF AppendFails
<1>2. UNCHANGED <<workers, nextBootOrder>>
  BY <1>1 DEF vars, registry
<1> HIDE DEF new
<1>3. NextInLine'
  BY <1>2 DEF ReplayInv, NextInLine
<1>4. Sound(new) /\ DOMAIN durable.critics \subseteq DOMAIN new.critics
  <2>1. Sound(new)
    <3>1. CASE ~failed
      BY <1>1, <3>1, ReplayedTail DEF new, ReplayInv, InStep, OnTheWay
    <3>2. CASE failed
      <4>1. pending \in Seq(Harmless) /\ Sound(durable)
        BY <3>2 DEF ReplayInv
      <4>2. Head(pending) \in Harmless
        BY <1>1, <4>1, HeadTailProperties
      <4> QED BY <4>1, <4>2, HarmlessSound DEF new
    <3> QED BY <3>1, <3>2
  <2>2. DOMAIN durable.critics \subseteq DOMAIN new.critics
    BY CriticsStay DEF new, ReplayInv, Sound
  <2> QED BY <2>1, <2>2
<1>5. pending' \in Seq(Harmless')
  BY <1>1
<1> QED
  BY <1>1, <1>2, <1>3, <1>4, <1>5 DEF ReplayInv, InStep

LEMMA StopStays ==
    ASSUME DurableInv, ReplayInv, Stop
    PROVE  ReplayInv'
<1>1. /\ UNCHANGED <<vars, durable, pending, failed, torn>>
      /\ serving = "up" /\ serving' = "stopped"
  BY DEF Stop
<1>2. UNCHANGED <<epoch, targets, critics, workers, incumbents, nextBootOrder, reviews>>
  BY <1>1 DEF vars, registry
<1>3. InStep' => InStep
  BY <1>1 DEF InStep
<1>4. OnTheWay => OnTheWay'
  BY <1>1, <1>2 DEF OnTheWay, Agrees
<1>5. Harmless' = Harmless /\ (NextInLine => NextInLine')
  BY <1>1, <1>2 DEF Harmless, NextInLine
<1> QED
  BY <1>1, <1>3, <1>4, <1>5 DEF ReplayInv

\* The journal keeps what it holds, and the memory goes its own way.
LEMMA OvertakenCallStays ==
    ASSUME DurableInv, ReplayInv, OvertakenCall
    PROVE  ReplayInv'
<1>1. /\ Control \/ Incarnation \/ Output
      /\ serving' = "stopped" /\ torn' = TRUE /\ pending = <<>>
      /\ UNCHANGED <<durable, pending>>
  BY OvertakenCalls DEF OvertakenCall, DurableInv, ServingInv, Stopped
<1>2. /\ TypeOK /\ RegistryInv /\ OpenIsOfTheDay /\ RegistryInv'
  BY <1>1, CallIsNext DEF DurableInv
<1>3. NextInLine'
  BY <1>1, <1>2, CallNextInLine DEF ReplayInv
<1>4. pending' \in Seq(Harmless')
  BY <1>1
<1> QED
  BY <1>1, <1>3, <1>4 DEF ReplayInv, InStep

LEMMA RebootStays ==
    ASSUME DurableInv, ReplayInv, Reboot
    PROVE  ReplayInv'
<1>1. /\ epoch' = durable.epoch + 1 /\ targets' = durable.targets /\ critics' = durable.critics
      /\ workers' = Cleared(durable.workers) /\ incumbents' = durable.incumbents
      /\ nextBootOrder' = NextBootOrder(durable.workers)
      /\ reviews' = [r \in DOMAIN durable.reviews |-> Recovered(durable.reviews[r])]
      /\ pending' = RecoveryEntries(durable.reviews)
      /\ serving' = "starting" /\ failed' = FALSE /\ durable' = durable
  BY DEF Reboot
<1>2. StoreOK(durable) /\ Sound(durable) /\ IsMap(durable.workers, Workers, Worker)
  BY DEF DurableInv, ReplayInv, StoreOK
<1>3. /\ DOMAIN workers' = DOMAIN durable.workers
      /\ \A w \in DOMAIN workers' : /\ ~workers'[w].ready
                                    /\ workers'[w].bootOrder = durable.workers[w].bootOrder
                                    /\ workers'[w].critic = durable.workers[w].critic
  BY <1>1, <1>2, ClearedWorkers
<1>4. NextInLine'
  BY <1>1, <1>3, SameBootOrders DEF NextInLine
<1>5. \A w \in DOMAIN workers' : workers'[w].critic \in DOMAIN durable.critics
  BY <1>2, <1>3 DEF Sound
<1>6. Cleared(durable.workers) = Cleared(workers')
  <2>1. \A w \in DOMAIN durable.workers :
           workers'[w] = [durable.workers[w] EXCEPT !.ready = FALSE, !.healthy = FALSE]
    BY <1>1 DEF Cleared
  <2>2. \A w \in DOMAIN durable.workers : durable.workers[w] \in Worker
    BY <1>2 DEF IsMap
  <2>3. \A w \in DOMAIN durable.workers :
           [workers'[w] EXCEPT !.ready = FALSE, !.healthy = FALSE]
              = [durable.workers[w] EXCEPT !.ready = FALSE, !.healthy = FALSE]
    BY <2>1, <2>2 DEF Worker
  <2> QED BY <1>3, <2>3 DEF Cleared
<1>7. OnTheWay'
  <2>1. /\ Replayed(pending', durable', Reopened)
        /\ Reopened.epoch = durable.epoch + 1 /\ Reopened.targets = durable.targets
        /\ Reopened.critics = durable.critics /\ Reopened.workers = durable.workers
        /\ Reopened.incumbents = durable.incumbents /\ Reopened.reviews = reviews'
    BY <1>1, <1>2, RecoveryReplayed
  <2> DEFINE end == Reopened
  <2> HIDE DEF end
  <2>2. /\ end.epoch = epoch' /\ end.targets = targets' /\ end.critics = critics'
        /\ Cleared(end.workers) = Cleared(workers')
        /\ \A w \in DOMAIN workers' : ~workers'[w].ready
        /\ end.incumbents = incumbents' /\ end.reviews = reviews'
        /\ Replayed(pending', durable', end)
    BY <1>1, <1>3, <1>6, <2>1 DEF end
  <2> QED BY <2>2 DEF OnTheWay, Agrees
<1> QED
  BY <1>1, <1>2, <1>4, <1>5, <1>7 DEF ReplayInv

LEMMA ReplayInvStep ==
    ASSUME DurableInv, ReplayInv, [DurableNext]_<<vars, journaling>>
    PROVE  ReplayInv'
<1>1. CASE UNCHANGED <<vars, journaling>>
  <2>1. UNCHANGED <<epoch, targets, critics, workers, incumbents, nextBootOrder, reviews,
                    durable, pending, serving, failed, torn>>
    BY <1>1 DEF vars, registry, journaling
  <2> QED BY <2>1 DEF ReplayInv, InStep, NextInLine, OnTheWay, Agrees, Harmless
<1> QED
  BY <1>1, CallStays, FenceAfterFailureStays, AppendEntryStays, AppendFailsStays, StopStays,
     OvertakenCallStays, RebootStays DEF DurableNext

\* Wherever calls and starts are cut off, the journal is in order, and unless an
\* append has failed or stop has overtaken a call it is on the way to what the
\* memory holds.
THEOREM ReplaySafe == JournaledSpec => []ReplayInv
<1>1. Init /\ JournalInit => ReplayInv
  BY ReplayInvInit
<1>2. DurableInv /\ ReplayInv /\ [DurableNext]_<<vars, journaling>> => ReplayInv'
  BY ReplayInvStep
<1> QED
  BY <1>1, <1>2, DurableSafe, PTL DEF JournaledSpec

\* README "Architecture": replaying the journal gives what the memory holds
\* whenever a call or a start has returned, after whatever calls, failures and
\* restarts.
THEOREM ReplayExact == JournaledSpec => []ReplayIsExact
<1>1. DurableInv /\ ReplayInv => ReplayIsExact
  BY JournalAgrees DEF InStep, Agrees, ReplayIsExact
<1> QED
  BY <1>1, DurableSafe, ReplaySafe, PTL

\* As long as no call has been cut off or overtaken, the coordinator with its
\* journal takes the steps of the coordinator without one: a start from the
\* journal is a restart that keeps the memory.
THEOREM UntornAtomic == JournaledSpec => UntornIsAtomic
<1>1. ASSUME DurableInv, ReplayInv, DurableNext
      PROVE  torn' \/ [Next]_vars
  <2>1. CASE Call
    BY <2>1 DEF Call, Next
  <2>2. CASE FenceAfterFailure
    BY <1>1, <2>2 DEF FenceAfterFailure, ReplayInv
  <2>3. CASE AppendEntry \/ AppendFails \/ Stop \/ OvertakenCall
    BY <2>3 DEF AppendEntry, AppendFails, Stop, OvertakenCall
  <2>4. CASE Reboot /\ ~torn'
    <3>1. pending = <<>> /\ InStep
      BY <1>1, <2>4 DEF Reboot, ReplayInv, InStep
    <3>2. Agrees(durable)
      BY <1>1, <3>1, JournalAgrees
    <3>3. /\ epoch < MaxEpoch /\ epoch' = epoch + 1
          /\ UNCHANGED <<targets, critics, incumbents>>
          /\ reviews' = [r \in DOMAIN reviews |-> Revalidate(reviews[r])]
      BY <2>4, <3>2 DEF Reboot, Agrees, Recovered
    <3>4. workers' = Silenced(DOMAIN workers)
      <4>1. workers' = Cleared(workers)
        BY <2>4, <3>2 DEF Reboot, Agrees
      <4> QED BY <4>1 DEF Cleared, Silenced
    <3>5. nextBootOrder' = nextBootOrder
      <4>1. IsMap(workers, Workers, Worker) /\ IsMap(durable.workers, Workers, Worker)
        BY <1>1 DEF DurableInv, TypeOK, RegistryTypeOK, StoreOK
      <4>2. Cleared(durable.workers) = Cleared(workers)
        BY <3>2 DEF Agrees
      <4>3. /\ DOMAIN durable.workers = DOMAIN workers
            /\ \A w \in DOMAIN workers : durable.workers[w].bootOrder = workers[w].bootOrder
        BY <4>1, <4>2, ClearedWorkers
      <4>4. NextBootOrder(durable.workers) = NextBootOrder(workers)
        BY <4>3, SameBootOrders
      <4> QED BY <1>1, <2>4, <4>4 DEF Reboot, ReplayInv, NextInLine
    <3>6. Restart
      BY <3>3, <3>4, <3>5 DEF Restart
    <3> QED BY <3>6 DEF Next
  <2> QED BY <1>1, <2>1, <2>2, <2>3, <2>4 DEF DurableNext
<1>2. DurableInv /\ ReplayInv /\ [DurableNext]_<<vars, journaling>> => [torn' \/ Next]_vars
  <2>1. UNCHANGED <<vars, journaling>> => UNCHANGED vars
    OBVIOUS
  <2> QED BY <1>1, <2>1
<1> QED
  BY <1>2, DurableSafe, ReplaySafe, PTL DEF JournaledSpec, UntornIsAtomic

=============================================================================
