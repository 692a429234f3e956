---------------------------- MODULE DurableProofs ----------------------------
(***************************************************************************)
(* Theorems about the coordinator above its journal: what the entries of a *)
(* call say when they are replayed, wherever the call was cut off.         *)
(***************************************************************************)
EXTENDS DurableCoordinator, RecordProofs, SequenceTheorems

-----------------------------------------------------------------------------
(* Sequences made from sets.                                               *)

\* The elements of a finite set, in some order.
LEMMA ListedSet ==
    ASSUME NEW E, NEW S \in SUBSET E, IsFiniteSet(S)
    PROVE  SetToSeq(S) \in Seq(E) /\ Len(SetToSeq(S)) = Cardinality(S)
<1>1. Cardinality(S) \in Nat /\ ExistsBijection(1 .. Cardinality(S), S)
  BY FS_CardinalityType
<1>2. \E f \in [1 .. Cardinality(S) -> S] : IsInjective(f)
  BY <1>1 DEF ExistsBijection, Bijection, Injection, IsInjective
<1>3. SetToSeq(S) \in [1 .. Cardinality(S) -> S]
  BY <1>2 DEF SetToSeq
<1> QED
  BY <1>1, <1>3

\* No element is left out.
LEMMA ListedAll ==
    ASSUME NEW S, IsFiniteSet(S), NEW x \in S
    PROVE  \E i \in 1 .. Len(SetToSeq(S)) : SetToSeq(S)[i] = x
<1> DEFINE n == Cardinality(S)
<1>1. n \in Nat /\ ExistsBijection(1 .. n, S)
  BY FS_CardinalityType
<1>2. \E f \in [1 .. n -> S] : IsInjective(f)
  BY <1>1 DEF ExistsBijection, Bijection, Injection, IsInjective
<1>3. SetToSeq(S) \in [1 .. n -> S] /\ IsInjective(SetToSeq(S))
  BY <1>2 DEF SetToSeq
<1>4. SetToSeq(S) \in Injection(1 .. n, S)
  BY <1>3 DEF Injection, IsInjective
<1>5. IsFiniteSet(1 .. n) /\ Cardinality(1 .. n) = n
  BY <1>1, FS_Interval
<1>6. SetToSeq(S) \in Surjection(1 .. n, S)
  BY <1>4, <1>5, FS_Injection
<1>7. Len(SetToSeq(S)) = n
  BY <1>1, <1>3
<1> QED
  BY <1>6, <1>7 DEF Surjection

\* The first part of a concatenation stays where it is.
LEMMA PrefixStays ==
    ASSUME NEW E, NEW s \in Seq(E), NEW t \in Seq(E), NEW i \in 1 .. Len(s)
    PROVE  i \in 1 .. Len(s \o t) /\ (s \o t)[i] = s[i]
  OBVIOUS

\* The prefixes of a concatenation, as FlattenSeq computes them one by one.
RunningJoins(seqs, f, n) ==
    f = [i \in 1 .. n |-> IF i = 1 THEN seqs[i] ELSE f[i-1] \o seqs[i]]

LEMMA RunningJoinsExist ==
    ASSUME NEW seqs, NEW n \in Nat
    PROVE  \E f : RunningJoins(seqs, f, n)
<1> DEFINE Missing == {k \in 0 .. n : ~ \E f : RunningJoins(seqs, f, k)}
<1>1. ASSUME Missing # {} PROVE FALSE
  <2>1. PICK k \in Missing : \A j \in Missing : k <= j
    <3>1. Missing \in SUBSET Nat
      OBVIOUS
    <3> HIDE DEF Missing
    <3> QED BY <1>1, <3>1, LeastNatural
  <2>2. k \in 0 .. n /\ ~ \E f : RunningJoins(seqs, f, k)
    BY <2>1
  <2>3. k # 0
    <3>1. RunningJoins(seqs, [i \in 1 .. 0 |-> <<>>], 0)
      BY DEF RunningJoins
    <3> QED BY <2>2, <3>1
  <2>4. PICK f : RunningJoins(seqs, f, k - 1)
    <3>1. k - 1 \in 0 .. n /\ ~(k <= k - 1)
      BY <2>2, <2>3
    <3> QED BY <2>1, <3>1
  <2>5. \A i \in 1 .. k - 1 : f[i] = IF i = 1 THEN seqs[i] ELSE f[i-1] \o seqs[i]
    BY <2>4 DEF RunningJoins
  <2> DEFINE last == IF k = 1 THEN seqs[k] ELSE f[k-1] \o seqs[k]
             g == [i \in 1 .. k |-> IF i = k THEN last ELSE f[i]]
  <2>6. \A i \in 1 .. k : g[i] = IF i = 1 THEN seqs[i] ELSE g[i-1] \o seqs[i]
    <3>1. TAKE i \in 1 .. k
    <3>2. CASE i = k
      BY <2>2, <2>3, <3>2
    <3>3. CASE i # k
      <4>1. i \in 1 .. k - 1 /\ (i # 1 => i - 1 \in 1 .. k - 1)
        BY <2>2, <3>3
      <4>2. g[i] = f[i] /\ (i # 1 => g[i-1] = f[i-1])
        BY <2>2, <3>3, <4>1
      <4> QED BY <2>5, <4>1, <4>2
    <3> QED BY <3>2, <3>3
  <2>7. g = [i \in 1 .. k |-> g[i]]
    OBVIOUS
  <2> HIDE DEF g
  <2>8. RunningJoins(seqs, g, k)
    BY <2>6, <2>7 DEF RunningJoins
  <2> QED BY <2>2, <2>8
<1>2. n \in 0 .. n /\ n \notin Missing
  BY <1>1
<1> QED
  BY <1>2

\* What holds of every part of a concatenation, and is kept by \o, holds of it.
LEMMA Flattened ==
    ASSUME NEW Q, <<>> \in Q, \A s, t \in Q : s \o t \in Q, NEW seqs \in Seq(Q)
    PROVE  FlattenSeq(seqs) \in Q
<1>1. Len(seqs) \in Nat /\ \A i \in 1 .. Len(seqs) : seqs[i] \in Q
  BY LenProperties
<1>2. CASE Len(seqs) = 0
  <2>1. seqs = <<>>
    BY <1>2
  <2> QED BY <1>2, <2>1 DEF FlattenSeq
<1>3. CASE Len(seqs) # 0
  <2> DEFINE f == CHOOSE g : RunningJoins(seqs, g, Len(seqs))
             Bad == {i \in 1 .. Len(seqs) : f[i] \notin Q}
  <2>1. FlattenSeq(seqs) = f[Len(seqs)]
    BY <1>3 DEF FlattenSeq, RunningJoins
  <2>2. \A i \in 1 .. Len(seqs) : f[i] = IF i = 1 THEN seqs[i] ELSE f[i-1] \o seqs[i]
    <3>1. RunningJoins(seqs, f, Len(seqs))
      BY <1>1, RunningJoinsExist
    <3> HIDE DEF f
    <3> QED BY <3>1 DEF RunningJoins
  <2> HIDE DEF f
  <2>3. ASSUME Bad # {} PROVE FALSE
    <3>1. PICK i \in Bad : \A j \in Bad : i <= j
      <4>1. Bad \in SUBSET Nat
        BY <1>1
      <4> HIDE DEF Bad
      <4> QED BY <2>3, <4>1, LeastNatural
    <3>2. i \in 1 .. Len(seqs) /\ i \in Nat
      BY <1>1
    <3>3. i # 1
      BY <1>1, <2>2, <3>1
    <3>4. i - 1 \in 1 .. Len(seqs) /\ ~(i <= i - 1)
      BY <1>1, <3>2, <3>3
    <3>5. f[i-1] \in Q
      BY <3>1, <3>4
    <3>6. f[i] = f[i-1] \o seqs[i] /\ seqs[i] \in Q
      BY <1>1, <2>2, <3>2, <3>3
    <3> QED BY <3>1, <3>5, <3>6
  <2> QED BY <1>1, <1>3, <2>1, <2>3
<1> QED
  BY <1>2, <1>3

\* One entry for each argument of a function.
LEMMA EachListed ==
    ASSUME NEW E, NEW f, f = [x \in DOMAIN f |-> f[x]], IsFiniteSet(DOMAIN f),
           \A x \in DOMAIN f : f[x] \in E
    PROVE  /\ Each(f) \in Seq(E)
           /\ \A x \in DOMAIN f : \E i \in 1 .. Len(Each(f)) : Each(f)[i] = f[x]
<1> DEFINE S == {f[x] : x \in DOMAIN f}
<1>1. S \in SUBSET E /\ IsFiniteSet(S)
  BY FiniteImage
<1>2. \A x \in DOMAIN f : f[x] \in S
  OBVIOUS
<1>3. Each(f) = SetToSeq(S)
  BY DEF Each
<1> HIDE DEF S
<1> QED
  BY <1>1, <1>2, <1>3, ListedSet, ListedAll

\* The lists a function gives to its arguments, one after the other.
LEMMA JoinedListed ==
    ASSUME NEW Q, <<>> \in Q, \A s, t \in Q : s \o t \in Q,
           NEW f, f = [x \in DOMAIN f |-> f[x]], IsFiniteSet(DOMAIN f),
           \A x \in DOMAIN f : f[x] \in Q
    PROVE  Joined(f) \in Q
<1> DEFINE S == DOMAIN f
           order == SetToSeq(S)
           n == Cardinality(S)
           lists == [i \in 1 .. n |-> f[order[i]]]
<1>1. order \in Seq(S) /\ Len(order) = n /\ n \in Nat
  BY ListedSet, FS_CardinalityType
<1>2. Joined(f) = FlattenSeq(lists)
  BY DEF Joined
<1> HIDE DEF order, n
<1>3. \A i \in 1 .. n : order[i] \in S
  BY <1>1, ElementOfSeq
<1>4. lists \in [1 .. n -> Q]
  BY <1>3
<1>5. lists \in Seq(Q)
  BY <1>1, <1>4
<1> HIDE DEF lists
<1> QED
  BY <1>2, <1>5, Flattened

\* The same of lists of entries, wherever the entries come from.
LEMMA JoinedEntries ==
    ASSUME NEW E, NEW f, f = [x \in DOMAIN f |-> f[x]], IsFiniteSet(DOMAIN f),
           \A x \in DOMAIN f : f[x] \in Seq(E)
    PROVE  Joined(f) \in Seq(E)
<1>1. <<>> \in Seq(E) /\ \A s, t \in Seq(E) : s \o t \in Seq(E)
  BY ConcatProperties
<1> QED
  BY <1>1, JoinedListed

\* Where one part of a concatenation is in C, and C absorbs its neighbours, the
\* whole is in C.
LEMMA FlattenedSome ==
    ASSUME NEW Q, NEW C, C \subseteq Q, \A s, t \in Q : s \o t \in Q,
           \A s \in Q, t \in C : s \o t \in C, \A s \in C, t \in Q : s \o t \in C,
           NEW seqs \in Seq(Q), NEW k \in 1 .. Len(seqs), seqs[k] \in C
    PROVE  FlattenSeq(seqs) \in C
<1>1. Len(seqs) \in Nat /\ Len(seqs) # 0 /\ \A i \in 1 .. Len(seqs) : seqs[i] \in Q
  BY LenProperties
<1> DEFINE f == CHOOSE g : RunningJoins(seqs, g, Len(seqs))
           Bad == {i \in 1 .. Len(seqs) : f[i] \notin Q \/ (k <= i /\ f[i] \notin C)}
<1>2. FlattenSeq(seqs) = f[Len(seqs)]
  BY <1>1 DEF FlattenSeq, RunningJoins
<1>3. \A i \in 1 .. Len(seqs) : f[i] = IF i = 1 THEN seqs[i] ELSE f[i-1] \o seqs[i]
  <2>1. RunningJoins(seqs, f, Len(seqs))
    BY <1>1, RunningJoinsExist
  <2> HIDE DEF f
  <2> QED BY <2>1 DEF RunningJoins
<1> HIDE DEF f
<1>4. ASSUME Bad # {} PROVE FALSE
  <2>1. PICK i \in Bad : \A j \in Bad : i <= j
    <3>1. Bad \in SUBSET Nat
      OBVIOUS
    <3> HIDE DEF Bad
    <3> QED BY <1>4, <3>1, LeastNatural
  <2>2. i \in 1 .. Len(seqs) /\ (f[i] \notin Q \/ (k <= i /\ f[i] \notin C))
    BY <2>1
  <2>3. CASE i = 1
    <3>1. f[i] = seqs[i] /\ (k <= i => k = i)
      BY <1>3, <2>2, <2>3
    <3> QED BY <1>1, <2>2, <3>1
  <2>4. CASE i # 1
    <3>1. i - 1 \in 1 .. Len(seqs) /\ ~(i <= i - 1)
      BY <1>1, <2>2, <2>4
    <3>2. f[i-1] \in Q /\ (k <= i - 1 => f[i-1] \in C)
      BY <2>1, <3>1
    <3>3. f[i] = f[i-1] \o seqs[i] /\ seqs[i] \in Q
      BY <1>1, <1>3, <2>2, <2>4
    <3>4. f[i] \in Q /\ (k <= i - 1 => f[i] \in C)
      BY <3>2, <3>3
    <3>5. k = i => f[i] \in C
      BY <3>2, <3>3
    <3>6. k <= i => k = i \/ k <= i - 1
      BY <2>2
    <3> QED BY <2>2, <3>4, <3>5, <3>6
  <2> QED BY <2>3, <2>4
<1>5. Len(seqs) \in 1 .. Len(seqs) /\ k <= Len(seqs)
  BY <1>1
<1> QED
  BY <1>2, <1>4, <1>5

\* The same of the lists a function gives to its arguments.
LEMMA JoinedSome ==
    ASSUME NEW Q, NEW C, C \subseteq Q, \A s, t \in Q : s \o t \in Q,
           \A s \in Q, t \in C : s \o t \in C, \A s \in C, t \in Q : s \o t \in C,
           NEW f, f = [x \in DOMAIN f |-> f[x]], IsFiniteSet(DOMAIN f),
           \A x \in DOMAIN f : f[x] \in Q,
           NEW x \in DOMAIN f, f[x] \in C
    PROVE  Joined(f) \in C
<1> DEFINE S == DOMAIN f
           order == SetToSeq(S)
           n == Cardinality(S)
           lists == [i \in 1 .. n |-> f[order[i]]]
<1>1. order \in Seq(S) /\ Len(order) = n /\ n \in Nat
  BY ListedSet, FS_CardinalityType
<1>2. Joined(f) = FlattenSeq(lists)
  BY DEF Joined
<1>3. PICK k \in 1 .. Len(order) : order[k] = x
  BY ListedAll
<1> HIDE DEF order, n
<1>4. \A i \in 1 .. n : order[i] \in S
  BY <1>1, ElementOfSeq
<1>5. lists \in [1 .. n -> Q]
  BY <1>4
<1>6. lists \in Seq(Q)
  BY ONLY <1>1, <1>5
<1>7. Len(lists) = n
  BY <1>1
<1>8. k \in 1 .. n /\ lists[k] \in C
  BY <1>1, <1>3
<1> HIDE DEF lists
<1> QED
  BY <1>2, <1>6, <1>7, <1>8, FlattenedSome

\* The lists of entries of E with one of M among them.
Holding(E, M) == {s \in Seq(E) : \E i \in 1 .. Len(s) : s[i] \in M}

LEMMA HoldingJoins ==
    ASSUME NEW E, NEW M, NEW s \in Seq(E), NEW t \in Seq(E),
           s \in Holding(E, M) \/ t \in Holding(E, M)
    PROVE  s \o t \in Holding(E, M)
<1>1. /\ s \o t \in Seq(E) /\ Len(s) \in Nat /\ Len(t) \in Nat
      /\ Len(s \o t) = Len(s) + Len(t)
      /\ \A i \in 1 .. Len(s) : (s \o t)[i] = s[i]
      /\ \A i \in 1 .. Len(t) : (s \o t)[Len(s) + i] = t[i]
  OBVIOUS
<1>2. CASE s \in Holding(E, M)
  <2>1. PICK i \in 1 .. Len(s) : s[i] \in M
    BY <1>2 DEF Holding
  <2>2. i \in 1 .. Len(s \o t) /\ (s \o t)[i] \in M
    BY <1>1, <2>1
  <2> QED BY <1>1, <2>2 DEF Holding
<1>3. CASE t \in Holding(E, M)
  <2>1. PICK i \in 1 .. Len(t) : t[i] \in M
    BY <1>3 DEF Holding
  <2>2. Len(s) + i \in 1 .. Len(s \o t) /\ (s \o t)[Len(s) + i] \in M
    BY <1>1, <2>1
  <2> QED BY <1>1, <2>2 DEF Holding
<1> QED
  BY <1>2, <1>3

LEMMA HoldingLast ==
    ASSUME NEW E, NEW body \in Seq(E), NEW x \in E
    PROVE  body \o <<x>> \in Holding(E, {x})
<1>1. /\ body \o <<x>> \in Seq(E) /\ Len(body) \in Nat
      /\ Len(body \o <<x>>) = Len(body) + 1
      /\ (body \o <<x>>)[Len(body) + 1] = x
  OBVIOUS
<1>2. Len(body) + 1 \in 1 .. Len(body \o <<x>>)
  BY <1>1
<1> QED
  BY <1>1, <1>2 DEF Holding

\* An entry that one of the lists a function gives holds is in their concatenation.
LEMMA JoinedHolding ==
    ASSUME NEW E, NEW M, NEW f, f = [x \in DOMAIN f |-> f[x]], IsFiniteSet(DOMAIN f),
           \A x \in DOMAIN f : f[x] \in Seq(E),
           NEW x \in DOMAIN f, f[x] \in Holding(E, M)
    PROVE  Joined(f) \in Holding(E, M)
<1>1. Holding(E, M) \subseteq Seq(E)
  BY DEF Holding
<1>2. /\ \A s, t \in Seq(E) : s \o t \in Seq(E)
      /\ \A s \in Seq(E), t \in Holding(E, M) : s \o t \in Holding(E, M)
      /\ \A s \in Holding(E, M), t \in Seq(E) : s \o t \in Holding(E, M)
  BY <1>1, HoldingJoins, ConcatProperties
<1> QED
  BY <1>1, <1>2, JoinedSome

-----------------------------------------------------------------------------
(* What a call writes, block by block: a block is a list of entries of E   *)
(* as soon as each entry it may contain is one.                            *)

\* The registry and the reviews hold finitely many records.
FiniteMaps ==
    /\ IsFiniteSet(DOMAIN targets)
    /\ IsFiniteSet(DOMAIN critics)
    /\ IsFiniteSet(DOMAIN workers)
    /\ IsFiniteSet(DOMAIN reviews)

LEMMA FiniteChanged ==
    ASSUME NEW old, NEW new, IsFiniteSet(DOMAIN new)
    PROVE  IsFiniteSet(Changed(old, new)) /\ Changed(old, new) \subseteq DOMAIN new
<1>1. Changed(old, new) \subseteq DOMAIN new
  BY DEF Changed
<1> QED
  BY <1>1, FS_Subset

LEMMA RetiredListed ==
    ASSUME NEW E, NEW r, NEW retired, IsFiniteSet(retired),
           \A a \in retired : Entry("AssignmentUpdated", r, [a EXCEPT !.active = FALSE]) \in E,
           retired # {} /\ reviews[r].state \notin TerminalStates
              => StateEntry(r, Revalidate(reviews[r])) \in E
    PROVE  RetiredEntries(r, retired) \in Seq(E)
<1> DEFINE updates == [a \in retired |-> Entry("AssignmentUpdated", r, [a EXCEPT !.active = FALSE])]
           state == IF reviews[r].state \in TerminalStates THEN <<>>
                    ELSE <<StateEntry(r, Revalidate(reviews[r]))>>
<1>1. Each(updates) \in Seq(E)
  <2>1. /\ updates = [a \in DOMAIN updates |-> updates[a]] /\ IsFiniteSet(DOMAIN updates)
        /\ \A a \in DOMAIN updates : updates[a] \in E
    OBVIOUS
  <2> HIDE DEF updates
  <2> QED BY <2>1, EachListed
<1>2. retired # {} => state \in Seq(E)
  OBVIOUS
<1>3. RetiredEntries(r, retired) = IF retired = {} THEN <<>> ELSE Each(updates) \o state
  BY DEF RetiredEntries
<1> HIDE DEF updates, state
<1> QED
  BY <1>1, <1>2, <1>3, ConcatProperties

\* The assignments of review r a fence of worker w writes off.
GivenUp(r, w) == Abandoned(reviews[r], {w}) \ reviews'[r].assignments

LEMMA FenceListed ==
    ASSUME NEW E, NEW w, TypeOK, FiniteMaps,
           Fenceable({w}) # {} => Entry("WorkerRegistered", w, Silenced({w})[w]) \in E,
           \A r \in DOMAIN reviews :
              /\ \A a \in GivenUp(r, w) :
                    Entry("AssignmentUpdated", r, [a EXCEPT !.active = FALSE]) \in E
              /\ GivenUp(r, w) # {} /\ reviews[r].state \notin TerminalStates
                    => StateEntry(r, Revalidate(reviews[r])) \in E
    PROVE  FenceEntries(w) \in Seq(E)
<1> DEFINE abandoned == [r \in DOMAIN reviews |-> RetiredEntries(r, GivenUp(r, w))]
<1>1. Joined(abandoned) \in Seq(E)
  <2>1. abandoned = [r \in DOMAIN abandoned |-> abandoned[r]] /\ DOMAIN abandoned = DOMAIN reviews
    OBVIOUS
  <2>2. ASSUME NEW r \in DOMAIN reviews
        PROVE  RetiredEntries(r, GivenUp(r, w)) \in Seq(E)
    <3>1. IsFiniteSet(GivenUp(r, w))
      <4>1. GivenUp(r, w) \subseteq reviews[r].assignments
        BY DEF GivenUp, Abandoned
      <4> QED BY <4>1, ReviewLookups, FS_Subset DEF FiniteRecords
    <3> HIDE DEF GivenUp
    <3> QED BY <3>1, RetiredListed
  <2>3. \A r \in DOMAIN abandoned : abandoned[r] \in Seq(E)
    BY <2>2
  <2> HIDE DEF abandoned
  <2> QED BY <2>1, <2>3, JoinedEntries DEF FiniteMaps
<1> DEFINE own == Entry("WorkerRegistered", w, Silenced({w})[w])
<1>2. FenceEntries(w) = IF Fenceable({w}) = {} THEN <<>> ELSE <<own>> \o Joined(abandoned)
  BY DEF FenceEntries, GivenUp
<1>3. Fenceable({w}) # {} => <<own>> \in Seq(E)
  <2>1. Fenceable({w}) # {} => own \in E
    OBVIOUS
  <2> HIDE DEF own
  <2> QED BY <2>1
<1> HIDE DEF abandoned, own
<1>4. CASE Fenceable({w}) = {}
  BY <1>2, <1>4
<1>5. CASE Fenceable({w}) # {}
  <2>1. <<own>> \o Joined(abandoned) \in Seq(E)
    BY ONLY <1>1, <1>3, <1>5, ConcatProperties
  <2> QED BY <1>2, <1>5, <2>1
<1> QED
  BY <1>4, <1>5

LEMMA TargetListed ==
    ASSUME NEW E, TypeOK, FiniteMaps, IsFiniteSet(DOMAIN targets'),
           \A t \in DOMAIN targets' : Entry("TargetRegistered", t, targets'[t]) \in E,
           \A r \in DOMAIN reviews :
              /\ \A f \in reviews[r].findings :
                    Entry("FindingStateChanged", r, [id |-> f.id, state |-> "Invalidated"]) \in E
              /\ StateEntry(r, reviews'[r]) # StateEntry(r, reviews[r]) =>
                    StateEntry(r, reviews'[r]) \in E
    PROVE  /\ TargetEntries \in Seq(E)
           /\ \A t \in Changed(targets, targets') : \E i \in 1 .. Len(TargetEntries) :
                 TargetEntries[i] = Entry("TargetRegistered", t, targets'[t])
           /\ Changed(targets, targets') # {} => \A r \in DOMAIN reviews :
                 StateEntry(r, reviews'[r]) # StateEntry(r, reviews[r]) =>
                    TargetEntries \in Holding(E, {StateEntry(r, reviews'[r])})
<1> DEFINE changed == Changed(targets, targets')
           stale == {r \in DOMAIN reviews : reviews'[r] # reviews[r]}
           news == [t \in changed |-> Entry("TargetRegistered", t, targets'[t])]
           closings == [r \in stale |-> ClosingEntries(r)]
<1>1. /\ Each(news) \in Seq(E)
      /\ \A t \in changed : \E i \in 1 .. Len(Each(news)) : Each(news)[i] = news[t]
  <2>1. IsFiniteSet(changed) /\ changed \subseteq DOMAIN targets'
    BY FiniteChanged
  <2> HIDE DEF changed
  <2>2. /\ news = [t \in DOMAIN news |-> news[t]] /\ IsFiniteSet(DOMAIN news)
        /\ \A t \in DOMAIN news : news[t] \in E
    BY <2>1
  <2>3. DOMAIN news = changed
    OBVIOUS
  <2> HIDE DEF news
  <2> QED BY <2>2, <2>3, EachListed
<1>2. ASSUME NEW r \in DOMAIN reviews
      PROVE  /\ ClosingEntries(r) \in Seq(E)
             /\ StateEntry(r, reviews'[r]) # StateEntry(r, reviews[r]) =>
                   ClosingEntries(r) \in Holding(E, {StateEntry(r, reviews'[r])})
  <2> DEFINE current == {f \in reviews[r].findings : f.state \in CurrentFindingStates}
             marks == [f \in current |->
                         Entry("FindingStateChanged", r, [id |-> f.id, state |-> "Invalidated"])]
             state == IF StateEntry(r, reviews'[r]) = StateEntry(r, reviews[r]) THEN <<>>
                      ELSE <<StateEntry(r, reviews'[r])>>
  <2>1. Each(marks) \in Seq(E)
    <3>1. IsFiniteSet(current) /\ current \subseteq reviews[r].findings
      BY ReviewLookups, FS_Subset DEF FiniteRecords
    <3> HIDE DEF current
    <3>2. /\ marks = [f \in DOMAIN marks |-> marks[f]] /\ IsFiniteSet(DOMAIN marks)
          /\ \A f \in DOMAIN marks : marks[f] \in E
      BY <3>1
    <3> HIDE DEF marks
    <3> QED BY <3>2, EachListed
  <2>2. state \in Seq(E)
    OBVIOUS
  <2>3. ClosingEntries(r) = Each(marks) \o state
    BY DEF ClosingEntries
  <2> HIDE DEF marks
  <2>4. StateEntry(r, reviews'[r]) # StateEntry(r, reviews[r]) =>
          Each(marks) \o state \in Holding(E, {StateEntry(r, reviews'[r])})
    BY <2>1, HoldingLast
  <2> HIDE DEF state
  <2> QED BY <2>1, <2>2, <2>3, <2>4, ConcatProperties
<1>3. /\ Joined(closings) \in Seq(E)
      /\ \A r \in DOMAIN reviews : StateEntry(r, reviews'[r]) # StateEntry(r, reviews[r]) =>
            Joined(closings) \in Holding(E, {StateEntry(r, reviews'[r])})
  <2>1. IsFiniteSet(stale) /\ stale \subseteq DOMAIN reviews
    BY FS_Subset DEF FiniteMaps
  <2>2. \A r \in DOMAIN reviews :
          StateEntry(r, reviews'[r]) # StateEntry(r, reviews[r]) => r \in stale
    OBVIOUS
  <2> HIDE DEF stale
  <2>3. /\ closings = [r \in DOMAIN closings |-> closings[r]] /\ IsFiniteSet(DOMAIN closings)
        /\ \A r \in DOMAIN closings : closings[r] \in Seq(E)
    BY <1>2, <2>1
  <2>4. \A r \in stale : r \in DOMAIN closings /\ closings[r] = ClosingEntries(r)
    OBVIOUS
  <2> HIDE DEF closings
  <2>5. ASSUME NEW r \in DOMAIN reviews, StateEntry(r, reviews'[r]) # StateEntry(r, reviews[r])
        PROVE  Joined(closings) \in Holding(E, {StateEntry(r, reviews'[r])})
    <3>1. r \in DOMAIN closings /\ closings[r] \in Holding(E, {StateEntry(r, reviews'[r])})
      BY <1>2, <2>2, <2>4, <2>5
    <3> HIDE DEF StateEntry
    <3> QED BY <2>3, <3>1, JoinedHolding
  <2> QED BY <2>3, <2>5, JoinedEntries
<1>4. TargetEntries = IF changed = {} THEN <<>> ELSE Each(news) \o Joined(closings)
  BY DEF TargetEntries
<1>5. \A t \in changed : news[t] = Entry("TargetRegistered", t, targets'[t])
  OBVIOUS
<1>6. CASE changed = {}
  BY <1>4, <1>6
<1>7. CASE changed # {}
  <2> HIDE DEF changed, news, closings, Entry
  <2>1. Each(news) \o Joined(closings) \in Seq(E)
    BY <1>1, <1>3, ConcatProperties
  <2>2. ASSUME NEW t \in changed
        PROVE  \E i \in 1 .. Len(TargetEntries) : TargetEntries[i] = news[t]
    <3>1. PICK i \in 1 .. Len(Each(news)) : Each(news)[i] = news[t]
      BY <1>1
    <3>2. i \in 1 .. Len(TargetEntries) /\ TargetEntries[i] = Each(news)[i]
      BY <1>1, <1>3, <1>4, <1>7, PrefixStays
    <3> QED BY <3>1, <3>2
  <2>3. ASSUME NEW r \in DOMAIN reviews, StateEntry(r, reviews'[r]) # StateEntry(r, reviews[r])
        PROVE  TargetEntries \in Holding(E, {StateEntry(r, reviews'[r])})
    <3>1. Joined(closings) \in Holding(E, {StateEntry(r, reviews'[r])})
      BY <1>3, <2>3
    <3> HIDE DEF StateEntry
    <3> QED BY <1>1, <1>3, <1>4, <1>7, <3>1, HoldingJoins
  <2> QED BY <1>4, <1>5, <1>7, <2>1, <2>2, <2>3 DEF changed
<1> QED
  BY <1>6, <1>7

LEMMA CriticListed ==
    ASSUME NEW E, TypeOK, FiniteMaps, IsFiniteSet(DOMAIN critics'),
           \A c \in DOMAIN critics' : Entry("CriticRegistered", c, critics'[c]) \in E,
           Changed(critics, critics') # {} =>
              \A w \in DOMAIN workers : FenceEntries(w) \in Seq(E),
           \A c \in Changed(critics, critics'), r \in DOMAIN reviews :
              /\ \A a \in ActiveOf(reviews[r], c) :
                    Entry("AssignmentUpdated", r, [a EXCEPT !.active = FALSE]) \in E
              /\ ActiveOf(reviews[r], c) # {} /\ reviews[r].state \notin TerminalStates
                    => StateEntry(r, Revalidate(reviews[r])) \in E
    PROVE  CriticEntries \in Seq(E)
<1> DEFINE changed == Changed(critics, critics')
           news == [c \in changed |-> Entry("CriticRegistered", c, critics'[c])]
           vacated == [c \in changed |-> VacatingEntries(c)]
<1>1. IsFiniteSet(changed) /\ changed \subseteq DOMAIN critics'
  BY FiniteChanged
<1>2. ASSUME NEW c \in changed
      PROVE  VacatingEntries(c) \in Seq(E)
  <2> DEFINE fences == [w \in WorkersOf(c) |-> FenceEntries(w)]
             seats == [r \in DOMAIN reviews |-> RetiredEntries(r, ActiveOf(reviews[r], c))]
  <2>1. Joined(fences) \in Seq(E)
    <3>1. IsFiniteSet(WorkersOf(c)) /\ WorkersOf(c) \subseteq DOMAIN workers
      <4>1. WorkersOf(c) \subseteq DOMAIN workers
        BY DEF WorkersOf
      <4> QED BY <4>1, FS_Subset DEF FiniteMaps
    <3>2. /\ fences = [w \in DOMAIN fences |-> fences[w]] /\ IsFiniteSet(DOMAIN fences)
          /\ \A w \in DOMAIN fences : fences[w] \in Seq(E)
      BY <3>1
    <3> HIDE DEF fences
    <3> QED BY <3>2, JoinedEntries
  <2>2. ASSUME NEW r \in DOMAIN reviews
        PROVE  RetiredEntries(r, ActiveOf(reviews[r], c)) \in Seq(E)
    <3>1. IsFiniteSet(ActiveOf(reviews[r], c))
      <4>1. ActiveOf(reviews[r], c) \subseteq reviews[r].assignments
        BY DEF ActiveOf
      <4> QED BY <4>1, ReviewLookups, FS_Subset DEF FiniteRecords
    <3>2. /\ \A a \in ActiveOf(reviews[r], c) :
                Entry("AssignmentUpdated", r, [a EXCEPT !.active = FALSE]) \in E
          /\ ActiveOf(reviews[r], c) # {} /\ reviews[r].state \notin TerminalStates
                => StateEntry(r, Revalidate(reviews[r])) \in E
      OBVIOUS
    <3> QED BY <3>1, <3>2, RetiredListed
  <2>3. Joined(seats) \in Seq(E)
    <3>1. /\ seats = [r \in DOMAIN seats |-> seats[r]] /\ DOMAIN seats = DOMAIN reviews
          /\ \A r \in DOMAIN seats : seats[r] \in Seq(E)
      BY <2>2
    <3> HIDE DEF seats
    <3> QED BY <3>1, JoinedEntries DEF FiniteMaps
  <2>4. VacatingEntries(c) = Joined(fences) \o Joined(seats)
    BY DEF VacatingEntries
  <2> HIDE DEF fences, seats
  <2> QED BY <2>1, <2>3, <2>4, ConcatProperties
<1>3. Each(news) \in Seq(E)
  <2>1. /\ news = [c \in DOMAIN news |-> news[c]] /\ DOMAIN news = changed
        /\ \A c \in DOMAIN news : news[c] \in E
    BY <1>1
  <2> HIDE DEF news, changed
  <2> QED BY <1>1, <2>1, EachListed
<1>4. Joined(vacated) \in Seq(E)
  <2>1. /\ vacated = [c \in DOMAIN vacated |-> vacated[c]] /\ DOMAIN vacated = changed
        /\ \A c \in DOMAIN vacated : vacated[c] \in Seq(E)
    BY <1>2
  <2> HIDE DEF vacated, changed
  <2> QED BY <1>1, <2>1, JoinedEntries
<1>5. CriticEntries = Each(news) \o Joined(vacated)
  BY DEF CriticEntries
<1> HIDE DEF news, vacated
<1> QED
  BY <1>3, <1>4, <1>5, ConcatProperties

\* What a fence writes of the workers comes before what a registration writes.
LEMMA WorkerListed ==
    ASSUME NEW D, NEW E, FiniteMaps, IsFiniteSet(DOMAIN workers'),
           \A w \in DOMAIN workers \cap Changed(workers, workers') : FenceEntries(w) \in Seq(D),
           \A w \in DOMAIN workers' : Entry("WorkerRegistered", w, workers'[w]) \in E
    PROVE  \E pre \in Seq(D), post \in Seq(E) : WorkerEntries = pre \o post
<1> DEFINE changed == Changed(workers, workers')
           fenced  == {w \in changed \cap DOMAIN workers : workers'[w] = Silenced({w})[w]}
           moved   == changed \ fenced
           before  == {w \in moved \cap DOMAIN workers : workers'[w].boot # workers[w].boot}
           first   == [w \in before |-> FenceEntries(w)]
           second  == [w \in fenced |-> FenceEntries(w)]
           third   == [w \in moved |-> Entry("WorkerRegistered", w, workers'[w])]
<1>1. IsFiniteSet(changed) /\ changed \subseteq DOMAIN workers'
  BY FiniteChanged
<1> HIDE DEF changed
<1>2. IsFiniteSet(fenced) /\ IsFiniteSet(moved) /\ IsFiniteSet(before)
  <2>1. fenced \subseteq changed /\ moved \subseteq changed /\ before \subseteq changed
    OBVIOUS
  <2> HIDE DEF fenced, moved, before
  <2> QED BY <1>1, <2>1, FS_Subset
<1>3. Joined(first) \in Seq(D)
  <2>1. /\ first = [w \in DOMAIN first |-> first[w]] /\ DOMAIN first = before
        /\ \A w \in DOMAIN first : first[w] \in Seq(D)
    BY DEF changed
  <2> HIDE DEF first, before
  <2> QED BY <1>2, <2>1, JoinedEntries
<1>4. Joined(second) \in Seq(D)
  <2>1. /\ second = [w \in DOMAIN second |-> second[w]] /\ DOMAIN second = fenced
        /\ \A w \in DOMAIN second : second[w] \in Seq(D)
    BY DEF changed
  <2> HIDE DEF second, fenced
  <2> QED BY <1>2, <2>1, JoinedEntries
<1>5. Each(third) \in Seq(E)
  <2>1. /\ third = [w \in DOMAIN third |-> third[w]] /\ DOMAIN third = moved
        /\ \A w \in DOMAIN third : third[w] \in E
    BY <1>1
  <2> HIDE DEF third, moved
  <2> QED BY <1>2, <2>1, EachListed
<1>6. WorkerEntries = (Joined(first) \o Joined(second)) \o Each(third)
  BY DEF WorkerEntries, changed
<1> HIDE DEF first, second, third
<1>7. Joined(first) \o Joined(second) \in Seq(D)
  BY <1>3, <1>4, ConcatProperties
<1> QED
  BY <1>5, <1>6, <1>7

LEMMA DeclaredListed ==
    ASSUME NEW E, IsFiniteSet(DOMAIN reviews'),
           \A r \in DOMAIN reviews' \ DOMAIN reviews :
              Entry("ReviewDeclared", r, reviews'[r]) \in E
    PROVE  /\ DeclaredEntries \in Seq(E)
           /\ \A r \in DOMAIN reviews' \ DOMAIN reviews :
                 DeclaredEntries \in Holding(E, {Entry("ReviewDeclared", r, reviews'[r])})
<1> DEFINE fresh == DOMAIN reviews' \ DOMAIN reviews
           declared == [r \in fresh |-> Entry("ReviewDeclared", r, reviews'[r])]
<1>1. IsFiniteSet(fresh)
  BY FS_Subset
<1>2. /\ declared = [r \in DOMAIN declared |-> declared[r]] /\ DOMAIN declared = fresh
      /\ \A r \in DOMAIN declared : declared[r] \in E
  OBVIOUS
<1>3. DeclaredEntries = Each(declared)
  BY DEF DeclaredEntries
<1>4. \A r \in fresh : declared[r] = Entry("ReviewDeclared", r, reviews'[r])
  OBVIOUS
<1> HIDE DEF fresh, declared, Entry
<1>5. /\ Each(declared) \in Seq(E)
      /\ \A r \in fresh : \E i \in 1 .. Len(Each(declared)) : Each(declared)[i] = declared[r]
  BY <1>1, <1>2, EachListed
<1> QED
  BY <1>3, <1>4, <1>5 DEF fresh, Holding

\* A call that decides review r, or brings it to Assigned, leads it through
\* other states on the way.
Travels(r) ==
    \/ reviews'[r].decision # reviews[r].decision
    \/ /\ reviews'[r].assignments # reviews[r].assignments
       /\ reviews[r].state \in {"Declared", "RevalidationRequired"}

Passing(r, state, disposition) ==
    StateEntry(r, [reviews[r] EXCEPT !.state = state, !.authorityCurrent = TRUE,
                                     !.disposition = disposition])

LEMMA ThroughListed ==
    ASSUME NEW E, NEW r, NEW states \in Seq(ReviewStates), NEW result,
           result = [i \in DOMAIN states |-> result[i]],
           \A i \in DOMAIN states : result[i] \in Dispositions,
           \A s \in ReviewStates, d \in Dispositions : Passing(r, s, d) \in E
    PROVE  Through(r, states, result) \in Seq(E)
<1> DEFINE through == [i \in DOMAIN states |-> Passing(r, states[i], result[i])]
<1>1. Len(states) \in Nat /\ DOMAIN states = 1 .. Len(states)
      /\ \A i \in DOMAIN states : states[i] \in ReviewStates
  BY LenProperties
<1>2. through \in [1 .. Len(states) -> E]
  <2> HIDE DEF Passing
  <2> QED BY <1>1
<1>3. Through(r, states, result) = through
  BY DEF Through, Passing
<1> HIDE DEF through
<1> QED
  BY <1>1, <1>2, <1>3

LEMMA PathType ==
    ASSUME NEW state
    PROVE  PathToEvaluating(state) \in Seq(ReviewStates)
<1> DEFINE path == <<"Declared", "Assigning", "Assigned", "Reviewing", "FindingsReceived",
                     "Validating", "Evaluating">>
           at == CHOOSE i \in DOMAIN path : path[i] = state
<1>1. path \in Seq(ReviewStates) /\ Len(path) = 7
  BY DEF ReviewStates
<1>2. PathToEvaluating(state) =
        IF state \in Range(path) THEN SubSeq(path, 1 + at, Len(path))
        ELSE IF state = "Evaluating" THEN <<>> ELSE <<"Evaluating">>
  BY DEF PathToEvaluating
<1>3. <<"Evaluating">> \in Seq(ReviewStates)
  BY DEF ReviewStates
<1>4. ASSUME state \in Range(path)
      PROVE  SubSeq(path, 1 + at, Len(path)) \in Seq(ReviewStates)
  <2>1. \E i \in DOMAIN path : path[i] = state
    <3> HIDE DEF path
    <3> QED BY <1>4 DEF Range
  <2>2. at \in DOMAIN path
    <3> HIDE DEF path
    <3> QED BY <2>1
  <2> HIDE DEF path, at
  <2>3. at \in 1 .. 7 /\ \A i \in 1 .. 7 : path[i] \in ReviewStates
    BY <1>1, <2>2, LenProperties
  <2>4. 1 + at \in Int /\ 7 \in Int /\ \A i \in 1 + at .. 7 : path[i] \in ReviewStates
    BY <2>3
  <2> QED BY <1>1, <2>4, SubSeqProperties
<1> HIDE DEF path, at
<1> QED
  BY <1>2, <1>3, <1>4

LEMMA DecisionListed ==
    ASSUME NEW E, NEW r, reviews'[r].disposition \in Dispositions,
           \A s \in ReviewStates, d \in Dispositions : Passing(r, s, d) \in E,
           Entry("DecisionCommitted", r, reviews'[r].decision) \in E
    PROVE  DecisionEntries(r) \in Holding(E, {Entry("DecisionCommitted", r, reviews'[r].decision)})
<1> DEFINE path   == PathToEvaluating(reviews[r].state) \o <<"Resolved">>
           last   == Len(path) - 1
           result == [i \in DOMAIN path |-> IF i < last THEN "None" ELSE reviews'[r].disposition]
           own    == Entry("DecisionCommitted", r, reviews'[r].decision)
<1>1. path \in Seq(ReviewStates)
  <2>1. <<"Resolved">> \in Seq(ReviewStates)
    BY DEF ReviewStates
  <2> QED BY <2>1, PathType, ConcatProperties
<1>2. DecisionEntries(r) = Through(r, path, result) \o <<own>>
  BY DEF DecisionEntries
<1>3. result = [i \in DOMAIN path |-> result[i]]
      /\ \A i \in DOMAIN path : result[i] \in Dispositions
  <2>1. "None" \in Dispositions
    BY DEF Dispositions
  <2> HIDE DEF path, last
  <2> QED BY <2>1
<1> HIDE DEF path, last, result
<1>4. Through(r, path, result) \in Seq(E)
  BY <1>1, <1>3, ThroughListed
<1>5. own \in E
  OBVIOUS
<1> HIDE DEF own
<1>6. DecisionEntries(r) \in Holding(E, {own})
  BY <1>2, <1>4, <1>5, HoldingLast
<1> QED
  BY <1>6 DEF own

LEMMA SeatsListed ==
    ASSUME NEW E, NEW r, NEW added, Entry("AssignmentsAdded", r, added) \in E,
           reviews[r].state \in {"Declared", "RevalidationRequired"} =>
              \A s \in ReviewStates, d \in Dispositions : Passing(r, s, d) \in E
    PROVE  SeatEntries(r, added) \in Seq(E)
<1> DEFINE assigning == Through(r, <<"Assigning">>, <<"None">>)
           batch     == <<Entry("AssignmentsAdded", r, added)>>
<1>1. batch \in Seq(E)
  <2> DEFINE own == Entry("AssignmentsAdded", r, added)
  <2>1. own \in E
    OBVIOUS
  <2> HIDE DEF own
  <2>2. <<own>> \in Seq(E)
    BY <2>1
  <2> QED BY <2>2 DEF own
<1>2. reviews[r].state \in {"Declared", "RevalidationRequired"} => assigning \in Seq(E)
  <2>1. <<"Assigning">> \in Seq(ReviewStates)
    BY DEF ReviewStates
  <2>2. <<"None">> = [i \in DOMAIN <<"Assigning">> |-> <<"None">>[i]]
        /\ \A i \in DOMAIN <<"Assigning">> : <<"None">>[i] \in Dispositions
    BY DEF Dispositions
  <2> QED BY <2>1, <2>2, ThroughListed
<1>3. SeatEntries(r, added) =
        CASE reviews[r].state = "Declared"             -> assigning \o batch
          [] reviews[r].state = "RevalidationRequired" -> batch \o assigning
          [] OTHER                                     -> batch
  BY DEF SeatEntries
<1> HIDE DEF assigning, batch
<1>4. reviews[r].state \in {"Declared", "RevalidationRequired"} =>
        assigning \o batch \in Seq(E) /\ batch \o assigning \in Seq(E)
  BY <1>1, <1>2, ConcatProperties
<1> QED
  BY <1>1, <1>3, <1>4

\* The last entry about review r, if its state has changed.
StateNews(r) ==
    IF StateEntry(r, reviews'[r]) = StateEntry(r, reviews[r]) THEN <<>>
    ELSE <<StateEntry(r, reviews'[r])>>

LEMMA ReviewListed ==
    ASSUME NEW E, TypeOK, TypeOK', NEW r \in DOMAIN reviews, r \in DOMAIN reviews',
           \A S \in SUBSET reviews'[r].assignments :
              S # {} => Entry("AssignmentsAdded", r, S) \in E,
           Travels(r) => \A s \in ReviewStates, d \in Dispositions : Passing(r, s, d) \in E,
           reviews'[r].decision # reviews[r].decision =>
              Entry("DecisionCommitted", r, reviews'[r].decision) \in E,
           \A e \in reviews'[r].evidences : Entry("EvidenceRecorded", r, e) \in E,
           \A ch \in reviews'[r].challenges : Entry("ChallengeRecorded", r, ch) \in E,
           \A f \in reviews'[r].findings :
              /\ Entry("FindingStateChanged", r, [id |-> f.id, state |-> f.state]) \in E
              /\ Entry("FindingRecorded", r, f) \in E
    PROVE  \E body \in Seq(E) :
              /\ ReviewEntries(r) = body \o StateNews(r)
              /\ reviews'[r].decision # reviews[r].decision =>
                    body \in Holding(E, {Entry("DecisionCommitted", r, reviews'[r].decision)})
<1> DEFINE ruling == {Entry("DecisionCommitted", r, reviews'[r].decision)}
           old == reviews[r]
           new == reviews'[r]
           added     == {a \in new.assignments : \A b \in old.assignments :
                           b.critic # a.critic \/ b.ordinal # a.ordinal}
           evidences == {e \in new.evidences : \A d \in old.evidences : d.id # e.id}
           findings  == {f \in new.findings : \A g \in old.findings : g.id # f.id}
           changed   == {f \in new.findings \ findings : \A g \in old.findings :
                           g.id = f.id => g.state # f.state}
           contests  == new.challenges \ old.challenges
           seats     == IF added = {} THEN <<>> ELSE SeatEntries(r, added)
           decided   == IF new.decision = old.decision THEN <<>> ELSE DecisionEntries(r)
           l1 == [e \in evidences |-> Entry("EvidenceRecorded", r, e)]
           l2 == [ch \in contests |-> Entry("ChallengeRecorded", r, ch)]
           l3 == [f \in changed |->
                    Entry("FindingStateChanged", r, [id |-> f.id, state |-> f.state])]
           l4 == [f \in findings |-> Entry("FindingRecorded", r, f)]
<1>1. reviews'[r] \in Review /\ FiniteRecords(reviews'[r])
  BY DEF TypeOK, ReviewsTypeOK, IsMap
<1>2. seats \in Seq(E)
  <2>1. ASSUME added # {}
        PROVE  SeatEntries(r, added) \in Seq(E)
    <3>1. added \in SUBSET reviews'[r].assignments
      OBVIOUS
    <3>2. reviews'[r].assignments # reviews[r].assignments
      BY <2>1
    <3> HIDE DEF added
    <3> QED BY <2>1, <3>1, <3>2, SeatsListed DEF Travels
  <2> HIDE DEF added
  <2> QED BY <2>1
<1>3. decided \in Seq(E) /\ (new.decision # old.decision => decided \in Holding(E, ruling))
  <2>1. reviews'[r].disposition \in Dispositions
    BY <1>1 DEF Review
  <2>2. new.decision # old.decision => DecisionEntries(r) \in Holding(E, ruling)
    BY <2>1, DecisionListed DEF Travels
  <2> HIDE DEF ruling
  <2> QED BY <2>2 DEF Holding
<1>4. Each(l1) \in Seq(E)
  <2>1. IsFiniteSet(evidences)
    BY <1>1, FS_Subset DEF FiniteRecords
  <2>2. l1 = [x \in DOMAIN l1 |-> l1[x]] /\ DOMAIN l1 = evidences /\ \A x \in DOMAIN l1 : l1[x] \in E
    OBVIOUS
  <2> HIDE DEF l1, evidences
  <2> QED BY <2>1, <2>2, EachListed
<1>5. Each(l2) \in Seq(E)
  <2>1. IsFiniteSet(contests)
    BY <1>1, FS_Subset DEF FiniteRecords
  <2>2. l2 = [x \in DOMAIN l2 |-> l2[x]] /\ DOMAIN l2 = contests /\ \A x \in DOMAIN l2 : l2[x] \in E
    OBVIOUS
  <2> HIDE DEF l2, contests
  <2> QED BY <2>1, <2>2, EachListed
<1>6. Each(l3) \in Seq(E)
  <2>1. IsFiniteSet(changed)
    BY <1>1, FS_Subset DEF FiniteRecords
  <2>2. l3 = [x \in DOMAIN l3 |-> l3[x]] /\ DOMAIN l3 = changed /\ \A x \in DOMAIN l3 : l3[x] \in E
    OBVIOUS
  <2> HIDE DEF l3, changed
  <2> QED BY <2>1, <2>2, EachListed
<1>7. Each(l4) \in Seq(E)
  <2>1. IsFiniteSet(findings)
    BY <1>1, FS_Subset DEF FiniteRecords
  <2>2. l4 = [x \in DOMAIN l4 |-> l4[x]] /\ DOMAIN l4 = findings /\ \A x \in DOMAIN l4 : l4[x] \in E
    OBVIOUS
  <2> HIDE DEF l4, findings
  <2> QED BY <2>1, <2>2, EachListed
<1>8. ReviewEntries(r) =
        (seats \o decided \o Each(l1) \o Each(l2) \o Each(l3) \o Each(l4)) \o StateNews(r)
  BY DEF ReviewEntries, StateNews
<1> HIDE DEF seats, decided, l1, l2, l3, l4, ruling
<1>9. seats \o decided \o Each(l1) \o Each(l2) \o Each(l3) \o Each(l4) \in Seq(E)
  BY ONLY <1>2, <1>3, <1>4, <1>5, <1>6, <1>7, ConcatProperties
<1>10. ASSUME new.decision # old.decision
       PROVE  seats \o decided \o Each(l1) \o Each(l2) \o Each(l3) \o Each(l4)
                 \in Holding(E, ruling)
  <2>1. decided \in Holding(E, ruling)
    BY <1>3, <1>10
  <2>2. \A s \in Seq(E), t \in Seq(E) : s \in Holding(E, ruling) \/ t \in Holding(E, ruling) =>
          s \o t \in Holding(E, ruling) /\ s \o t \in Seq(E)
    BY HoldingJoins DEF Holding
  <2> QED BY ONLY <1>2, <1>3, <1>4, <1>5, <1>6, <1>7, <2>1, <2>2
<1> QED
  BY <1>8, <1>9, <1>10 DEF ruling

-----------------------------------------------------------------------------
(* The entries of a call, and what they say of the memory it leaves.       *)

About(type, V) == [type : {type}, id : Requests, value : V]

StateRecord == [state : ReviewStates, disposition : Dispositions,
                authorityCurrent : BOOLEAN, roundsUsed : Nat]

Amendment ==
    About("AssignmentsAdded", {S \in SUBSET Assignment : IsFiniteSet(S)})
    \cup About("AssignmentUpdated", Assignment)
    \cup About("FindingRecorded", Finding)
    \cup About("FindingStateChanged", [id : Ids, state : FindingStates])
    \cup About("EvidenceRecorded", Evidence)
    \cup About("ChallengeRecorded", Challenge)
    \cup About("ReviewStateChanged", StateRecord)

Establishment == [type : {"EpochEstablished"}, id : {NoId}, value : Nat]
Registration  == [type : {"WorkerRegistered"}, id : Workers, value : Worker]
Declaration   == About("ReviewDeclared", Review)
Ruling        == About("DecisionCommitted", Decision)

\* Entries that say nothing of processes, decisions and epochs.
Plain ==
    [type : {"TargetRegistered"}, id : Targets, value : Target]
    \cup [type : {"CriticRegistered"}, id : Critics, value : Critic]
    \cup Amendment

\* Records of processes that hold the boot order of ws.
Ordered(ws) ==
    {x \in Registration : x.id \in DOMAIN ws /\ x.value.bootOrder = ws[x.id].bootOrder}

\* Declarations of reviews of the targets ts, and decisions, as revs has them.
Decided(revs, ts) ==
    {x \in Declaration :
        /\ x.id \in DOMAIN revs
        /\ x.value.decision = revs[x.id].decision
        /\ x.value.target \in ts
        /\ FiniteRecords(x.value)}
    \cup {x \in Ruling : x.id \in DOMAIN revs /\ x.value = revs[x.id].decision}

Before == Plain \cup Ordered(workers)
After  == Plain \cup Ordered(workers') \cup Decided(reviews', DOMAIN durable.targets)

\* Entries about a review the memory holds, before a call or after it.
LEMMA WithdrawalEntries ==
    ASSUME TypeOK, NEW r \in DOMAIN reviews
    PROVE  /\ \A a \in reviews[r].assignments :
                 Entry("AssignmentUpdated", r, [a EXCEPT !.active = FALSE]) \in Amendment
           /\ StateEntry(r, Revalidate(reviews[r])) \in Amendment
           /\ \A f \in reviews[r].findings :
                 Entry("FindingStateChanged", r, [id |-> f.id, state |-> "Invalidated"]) \in Amendment
           /\ \A s \in ReviewStates, d \in Dispositions : Passing(r, s, d) \in Amendment
<1>1. r \in Requests /\ reviews[r] \in Review /\ FiniteRecords(reviews[r])
  BY DEF TypeOK, ReviewsTypeOK, IsMap
<1>2. ASSUME NEW a \in reviews[r].assignments
      PROVE  Entry("AssignmentUpdated", r, [a EXCEPT !.active = FALSE]) \in Amendment
  <2>1. a \in Assignment
    BY <1>1 DEF Review
  <2>2. [a EXCEPT !.active = FALSE] \in Assignment
    BY <2>1 DEF Assignment
  <2> QED BY <1>1, <2>2 DEF Entry, Amendment, About
<1>3. ASSUME NEW rev \in Review
      PROVE  StateEntry(r, rev) \in Amendment
  <2>1. [state |-> rev.state, disposition |-> rev.disposition,
         authorityCurrent |-> rev.authorityCurrent, roundsUsed |-> rev.roundsUsed] \in StateRecord
    BY DEF Review, StateRecord
  <2> QED BY <1>1, <2>1 DEF StateEntry, Entry, Amendment, About
<1>4. Revalidate(reviews[r]) \in Review
  BY <1>1, RevalidateKeeps DEF Kept
<1>5. ASSUME NEW f \in reviews[r].findings
      PROVE  Entry("FindingStateChanged", r, [id |-> f.id, state |-> "Invalidated"]) \in Amendment
  <2>1. f.id \in Ids /\ "Invalidated" \in FindingStates
    BY <1>1 DEF Review, Finding, FindingStates
  <2>2. [id |-> f.id, state |-> "Invalidated"] \in [id : Ids, state : FindingStates]
    BY <2>1
  <2> QED BY <1>1, <2>2 DEF Entry, Amendment, About
<1>6. ASSUME NEW s \in ReviewStates, NEW d \in Dispositions
      PROVE  Passing(r, s, d) \in Amendment
  <2> DEFINE rev == [reviews[r] EXCEPT !.state = s, !.authorityCurrent = TRUE, !.disposition = d]
  <2>1. rev \in Review
    BY <1>1 DEF Review
  <2> HIDE DEF rev
  <2>2. StateEntry(r, rev) \in Amendment
    BY <1>3, <2>1
  <2> QED BY <2>2 DEF Passing, rev
<1> QED
  BY <1>2, <1>3, <1>4, <1>5, <1>6

LEMMA ReviewNews ==
    ASSUME TypeOK', NEW r \in DOMAIN reviews'
    PROVE  /\ \A S \in SUBSET reviews'[r].assignments :
                 Entry("AssignmentsAdded", r, S) \in Amendment
           /\ \A e \in reviews'[r].evidences : Entry("EvidenceRecorded", r, e) \in Amendment
           /\ \A ch \in reviews'[r].challenges : Entry("ChallengeRecorded", r, ch) \in Amendment
           /\ \A f \in reviews'[r].findings :
                 /\ Entry("FindingStateChanged", r, [id |-> f.id, state |-> f.state]) \in Amendment
                 /\ Entry("FindingRecorded", r, f) \in Amendment
           /\ StateEntry(r, reviews'[r]) \in Amendment
           /\ Entry("DecisionCommitted", r, reviews'[r].decision) \in Ruling
<1>1. r \in Requests /\ reviews'[r] \in Review /\ FiniteRecords(reviews'[r])
  BY DEF TypeOK, ReviewsTypeOK, IsMap
<1> DEFINE rev == reviews'[r]
<1>2. ASSUME NEW S \in SUBSET rev.assignments
      PROVE  Entry("AssignmentsAdded", r, S) \in Amendment
  <2>1. S \in SUBSET Assignment /\ IsFiniteSet(S)
    BY <1>1, FS_Subset DEF Review, FiniteRecords
  <2> QED BY <1>1, <2>1 DEF Entry, Amendment, About
<1>3. ASSUME NEW e \in rev.evidences
      PROVE  Entry("EvidenceRecorded", r, e) \in Amendment
  <2>1. e \in Evidence
    BY <1>1 DEF Review
  <2> QED BY <1>1, <2>1 DEF Entry, Amendment, About
<1>4. ASSUME NEW ch \in rev.challenges
      PROVE  Entry("ChallengeRecorded", r, ch) \in Amendment
  <2>1. ch \in Challenge
    BY <1>1 DEF Review
  <2> QED BY <1>1, <2>1 DEF Entry, Amendment, About
<1>5. ASSUME NEW f \in rev.findings
      PROVE  /\ Entry("FindingStateChanged", r, [id |-> f.id, state |-> f.state]) \in Amendment
             /\ Entry("FindingRecorded", r, f) \in Amendment
  <2>1. f \in Finding
    BY <1>1 DEF Review
  <2>2. [id |-> f.id, state |-> f.state] \in [id : Ids, state : FindingStates]
    BY <2>1 DEF Finding
  <2> QED BY <1>1, <2>1, <2>2 DEF Entry, Amendment, About
<1>6. StateEntry(r, rev) \in Amendment
  <2>1. [state |-> rev.state, disposition |-> rev.disposition,
         authorityCurrent |-> rev.authorityCurrent, roundsUsed |-> rev.roundsUsed] \in StateRecord
    BY <1>1 DEF Review, StateRecord
  <2> QED BY <1>1, <2>1 DEF StateEntry, Entry, Amendment, About
<1>7. Entry("DecisionCommitted", r, rev.decision) \in Ruling
  BY <1>1 DEF Review, Entry, Ruling, About
<1> QED
  BY <1>2, <1>3, <1>4, <1>5, <1>6, <1>7

\* A fence writes down processes as they were numbered before it.
LEMMA FenceBefore ==
    ASSUME TypeOK, FiniteMaps, NEW w \in DOMAIN workers
    PROVE  FenceEntries(w) \in Seq(Before)
<1>1. Entry("WorkerRegistered", w, Silenced({w})[w]) \in Ordered(workers)
  <2>1. /\ Silenced({w})[w] \in Worker /\ w \in Workers
        /\ Silenced({w})[w].bootOrder = workers[w].bootOrder
    BY SilencedWorkers DEF TypeOK, RegistryTypeOK, IsMap
  <2> QED BY <2>1 DEF Ordered, Registration, Entry
<1>2. ASSUME NEW r \in DOMAIN reviews
      PROVE  /\ \A a \in GivenUp(r, w) :
                   Entry("AssignmentUpdated", r, [a EXCEPT !.active = FALSE]) \in Amendment
             /\ StateEntry(r, Revalidate(reviews[r])) \in Amendment
  <2>1. GivenUp(r, w) \subseteq reviews[r].assignments
    BY DEF GivenUp, Abandoned
  <2> QED BY <2>1, WithdrawalEntries
<1>3. Ordered(workers) \subseteq Before /\ Amendment \subseteq Before
  BY DEF Before, Plain
<1> HIDE DEF Before, Entry, StateEntry, GivenUp
<1> QED
  BY <1>1, <1>2, <1>3, FenceListed

LEMMA TargetBefore ==
    ASSUME TypeOK, TypeOK', FiniteMaps, FiniteMaps', DOMAIN reviews \subseteq DOMAIN reviews'
    PROVE  /\ TargetEntries \in Seq(Before)
           /\ \A t \in DOMAIN targets' \ DOMAIN targets : \E i \in 1 .. Len(TargetEntries) :
                 TargetEntries[i].type = "TargetRegistered" /\ TargetEntries[i].id = t
<1>1. ASSUME NEW t \in DOMAIN targets'
      PROVE  Entry("TargetRegistered", t, targets'[t]) \in Before
  <2>1. t \in Targets /\ targets'[t] \in Target
    BY DEF TypeOK, RegistryTypeOK, IsMap
  <2> QED BY <2>1 DEF Entry, Before, Plain
<1>2. ASSUME NEW r \in DOMAIN reviews
      PROVE  /\ \A f \in reviews[r].findings :
                   Entry("FindingStateChanged", r, [id |-> f.id, state |-> "Invalidated"]) \in Before
             /\ StateEntry(r, reviews'[r]) \in Before
  BY WithdrawalEntries, ReviewNews DEF Before, Plain
<1>3. \A t \in DOMAIN targets' \ DOMAIN targets :
        LET x == Entry("TargetRegistered", t, targets'[t])
        IN  t \in Changed(targets, targets') /\ x.type = "TargetRegistered" /\ x.id = t
  BY DEF Entry, Changed
<1> HIDE DEF Before, Entry, StateEntry
<1>4. /\ TargetEntries \in Seq(Before)
      /\ \A t \in Changed(targets, targets') : \E i \in 1 .. Len(TargetEntries) :
            TargetEntries[i] = Entry("TargetRegistered", t, targets'[t])
  BY <1>1, <1>2, TargetListed DEF FiniteMaps
<1> QED
  BY <1>3, <1>4, Zenon

LEMMA CriticBefore ==
    ASSUME TypeOK, TypeOK', FiniteMaps, FiniteMaps'
    PROVE  CriticEntries \in Seq(Before)
<1>1. ASSUME NEW c \in DOMAIN critics'
      PROVE  Entry("CriticRegistered", c, critics'[c]) \in Before
  <2>1. c \in Critics /\ critics'[c] \in Critic
    BY DEF TypeOK, RegistryTypeOK, IsMap
  <2> QED BY <2>1 DEF Entry, Before, Plain
<1>2. ASSUME NEW c, NEW r \in DOMAIN reviews
      PROVE  /\ \A a \in ActiveOf(reviews[r], c) :
                   Entry("AssignmentUpdated", r, [a EXCEPT !.active = FALSE]) \in Before
             /\ StateEntry(r, Revalidate(reviews[r])) \in Before
  <2>1. ActiveOf(reviews[r], c) \subseteq reviews[r].assignments
    BY DEF ActiveOf
  <2> QED BY <2>1, WithdrawalEntries DEF Before, Plain
<1> HIDE DEF Before, Entry, StateEntry, ActiveOf
<1> QED
  BY <1>1, <1>2, FenceBefore, CriticListed DEF FiniteMaps

LEMMA ReviewTold ==
    ASSUME TypeOK, TypeOK', NEW r \in DOMAIN reviews, r \in DOMAIN reviews'
    PROVE  /\ \E body \in Seq(After) :
                 /\ ReviewEntries(r) = body \o StateNews(r)
                 /\ reviews'[r].decision # reviews[r].decision => body \in
                       Holding(After, {Entry("DecisionCommitted", r, reviews'[r].decision)})
           /\ StateNews(r) \in Seq(After)
<1>1. Entry("DecisionCommitted", r, reviews'[r].decision) \in After
  <2>1. Entry("DecisionCommitted", r, reviews'[r].decision) \in Ruling
    BY ReviewNews
  <2> QED BY <2>1 DEF Entry, After, Decided
<1>2. Amendment \subseteq After
  BY DEF After, Plain
<1> HIDE DEF After, Entry, StateEntry
<1>3. /\ \A S \in SUBSET reviews'[r].assignments : Entry("AssignmentsAdded", r, S) \in After
      /\ \A e \in reviews'[r].evidences : Entry("EvidenceRecorded", r, e) \in After
      /\ \A ch \in reviews'[r].challenges : Entry("ChallengeRecorded", r, ch) \in After
      /\ \A f \in reviews'[r].findings :
            /\ Entry("FindingStateChanged", r, [id |-> f.id, state |-> f.state]) \in After
            /\ Entry("FindingRecorded", r, f) \in After
  BY <1>2, ReviewNews
<1>4. \A s \in ReviewStates, d \in Dispositions : Passing(r, s, d) \in After
  BY <1>2, WithdrawalEntries
<1>5. StateNews(r) \in Seq(After)
  <2>1. StateEntry(r, reviews'[r]) \in After
    BY <1>2, ReviewNews
  <2> QED BY <2>1 DEF StateNews
<1> QED
  BY <1>1, <1>3, <1>4, <1>5, ReviewListed

LEMMA ReviewAfter ==
    ASSUME TypeOK, TypeOK', NEW r \in DOMAIN reviews, r \in DOMAIN reviews'
    PROVE  ReviewEntries(r) \in Seq(After)
<1> HIDE DEF After
<1> QED
  BY ReviewTold, ConcatProperties

\* A call writes down the processes it fences as they were numbered before it,
\* and then what it registers, declares and decides as the memory has it after.
LEMMA CallListed ==
    ASSUME TypeOK, TypeOK', FiniteMaps, FiniteMaps', DOMAIN reviews \subseteq DOMAIN reviews',
           \A r \in DOMAIN reviews' \ DOMAIN reviews : reviews'[r].target \in DOMAIN durable.targets
    PROVE  \E pre \in Seq(Before), post \in Seq(After) :
              /\ CallEntries = pre \o post
              /\ \A t \in DOMAIN targets' \ DOMAIN targets : \E i \in 1 .. Len(pre) :
                    pre[i].type = "TargetRegistered" /\ pre[i].id = t
<1> DEFINE E == Before \cup After
<1>1. TargetEntries \in Seq(Before) /\ CriticEntries \in Seq(Before)
  BY TargetBefore, CriticBefore
<1>2. PICK p \in Seq(Before), q \in Seq(After) :
        (IF critics' = critics THEN WorkerEntries ELSE <<>>) = p \o q
  <2>1. CASE critics' = critics
    <3>1. ASSUME NEW w \in DOMAIN workers'
          PROVE  Entry("WorkerRegistered", w, workers'[w]) \in After
      <4>1. w \in Workers /\ workers'[w] \in Worker
        BY DEF TypeOK, RegistryTypeOK, IsMap
      <4> QED BY <4>1 DEF Entry, After, Ordered, Registration
    <3> HIDE DEF Entry
    <3>2. \E p \in Seq(Before), q \in Seq(After) : WorkerEntries = p \o q
      BY <3>1, FenceBefore, WorkerListed DEF FiniteMaps
    <3> QED BY <2>1, <3>2
  <2>2. CASE critics' # critics
    <3>1. <<>> \in Seq(Before) /\ <<>> \in Seq(After) /\ <<>> = <<>> \o <<>>
      OBVIOUS
    <3> HIDE DEF Before, After
    <3> QED BY <2>2, <3>1
  <2> QED BY <2>1, <2>2
<1>3. PICK news \in Seq(After) :
        (IF registry' # registry THEN <<>>
         ELSE DeclaredEntries \o Joined([r \in DOMAIN reviews |-> ReviewEntries(r)])) = news
  <2>1. DeclaredEntries \in Seq(After)
    <3>1. ASSUME NEW r \in DOMAIN reviews' \ DOMAIN reviews
          PROVE  Entry("ReviewDeclared", r, reviews'[r]) \in After
      <4>1. r \in Requests /\ reviews'[r] \in Review /\ FiniteRecords(reviews'[r])
        BY DEF TypeOK, ReviewsTypeOK, IsMap
      <4> QED BY <4>1 DEF Entry, After, Decided, Declaration, About
    <3> HIDE DEF Entry, After
    <3> QED BY <3>1, DeclaredListed DEF FiniteMaps
  <2> DEFINE lists == [r \in DOMAIN reviews |-> ReviewEntries(r)]
  <2>2. Joined(lists) \in Seq(After)
    <3>1. /\ lists = [r \in DOMAIN lists |-> lists[r]] /\ DOMAIN lists = DOMAIN reviews
          /\ \A r \in DOMAIN lists : lists[r] \in Seq(After)
      BY ReviewAfter
    <3> HIDE DEF lists
    <3> QED BY <3>1, JoinedEntries DEF FiniteMaps
  <2> HIDE DEF lists, After
  <2>3. <<>> \in Seq(After) /\ DeclaredEntries \o Joined(lists) \in Seq(After)
    BY <2>1, <2>2, ConcatProperties
  <2> QED BY <2>3 DEF lists
<1>4. CallEntries = ((TargetEntries \o CriticEntries) \o (p \o q)) \o news
  BY <1>2, <1>3 DEF CallEntries
<1> HIDE DEF Before, After
<1>5. /\ (TargetEntries \o CriticEntries) \o p \in Seq(Before)
      /\ q \o news \in Seq(After)
  BY <1>1, ConcatProperties
<1>6. /\ TargetEntries \o CriticEntries \in Seq(E) /\ p \in Seq(E)
      /\ q \in Seq(E) /\ news \in Seq(E)
  <2>1. TargetEntries \o CriticEntries \in Seq(Before)
    BY <1>1, ConcatProperties
  <2> QED BY <2>1, SeqMonotonic
<1> HIDE DEF E
<1>7. CallEntries = ((TargetEntries \o CriticEntries) \o p) \o (q \o news)
  <2> DEFINE a == TargetEntries \o CriticEntries
  <2>1. CallEntries = (a \o (p \o q)) \o news /\ a \in Seq(E)
    BY <1>4, <1>6
  <2> HIDE DEF a
  <2>2. (a \o (p \o q)) \o news = (a \o p) \o (q \o news)
    <3>1. /\ a \in Seq(E) /\ p \in Seq(E)
          /\ q \in Seq(E) /\ news \in Seq(E)
      BY <1>6, <2>1
    <3>2. a \o (p \o q) = (a \o p) \o q
      BY ONLY <3>1
    <3> DEFINE c == a \o p
    <3>3. c \in Seq(E)
      BY ONLY <3>1, ConcatProperties
    <3> HIDE DEF c
    <3>4. (c \o q) \o news = c \o (q \o news)
      BY ONLY <3>1, <3>3
    <3> QED BY ONLY <3>2, <3>4 DEF c
  <2> QED BY ONLY <2>1, <2>2 DEF a
<1>8. ASSUME NEW t \in DOMAIN targets' \ DOMAIN targets
      PROVE  \E i \in 1 .. Len((TargetEntries \o CriticEntries) \o p) :
                /\ ((TargetEntries \o CriticEntries) \o p)[i].type = "TargetRegistered"
                /\ ((TargetEntries \o CriticEntries) \o p)[i].id = t
  <2>1. PICK i \in 1 .. Len(TargetEntries) :
          TargetEntries[i].type = "TargetRegistered" /\ TargetEntries[i].id = t
    BY TargetBefore
  <2> DEFINE a == TargetEntries \o CriticEntries
  <2>2. i \in 1 .. Len(a) /\ a[i] = TargetEntries[i]
    BY <1>1, PrefixStays
  <2>3. a \in Seq(Before)
    BY <1>1, ConcatProperties
  <2> HIDE DEF a
  <2>4. i \in 1 .. Len(a \o p) /\ (a \o p)[i] = a[i]
    BY <2>2, <2>3, PrefixStays
  <2> QED BY <2>1, <2>2, <2>4 DEF a
<1> QED
  BY <1>5, <1>7, <1>8
-----------------------------------------------------------------------------
(* Replaying an entry.                                                     *)

Shape(store) ==
    store = [epoch |-> store.epoch, targets |-> store.targets, critics |-> store.critics,
             workers |-> store.workers, incumbents |-> store.incumbents,
             reviews |-> store.reviews]

\* What replay yields has the types of the memory, and holds finitely many records.
StoreOK(store) ==
    /\ Shape(store)
    /\ store.epoch \in Nat
    /\ IsMap(store.targets, Targets, Target)
    /\ IsMap(store.critics, Critics, Critic)
    /\ IsMap(store.workers, Workers, Worker)
    /\ IsMap(store.incumbents, Critics, DOMAIN store.workers)
    /\ IsMap(store.reviews, Requests, Review)
    /\ \A r \in DOMAIN store.reviews :
          store.reviews[r].target \in DOMAIN store.targets /\ FiniteRecords(store.reviews[r])
    /\ IsFiniteSet(DOMAIN store.targets)
    /\ IsFiniteSet(DOMAIN store.critics)
    /\ IsFiniteSet(DOMAIN store.workers)
    /\ IsFiniteSet(DOMAIN store.reviews)

\* IncumbentIsNewest of what replay yields.
NewestIn(store) ==
    \A w \in DOMAIN store.workers :
        /\ store.workers[w].critic \in DOMAIN store.incumbents
        /\ store.workers[w].bootOrder
             <= store.workers[store.incumbents[store.workers[w].critic]].bootOrder

Global == {"EpochEstablished", "TargetRegistered", "CriticRegistered", "WorkerRegistered"}

\* apply_entry_locked, field by field.
LEMMA AppliedFields ==
    ASSUME NEW store, Shape(store), NEW x
    PROVE  LET new == Applied(store, x) IN
           /\ Shape(new)
           /\ new.epoch = IF x.type = "EpochEstablished" THEN x.value ELSE store.epoch
           /\ new.targets = IF x.type = "TargetRegistered" THEN Put(store.targets, x.id, x.value)
                            ELSE store.targets
           /\ new.critics = IF x.type = "CriticRegistered" THEN Put(store.critics, x.id, x.value)
                            ELSE store.critics
           /\ new.workers = IF x.type = "WorkerRegistered" THEN Put(store.workers, x.id, x.value)
                            ELSE store.workers
           /\ new.incumbents =
                IF x.type = "WorkerRegistered"
                THEN Heir(store.incumbents, x.value.critic, x.id, Put(store.workers, x.id, x.value))
                ELSE store.incumbents
           /\ new.reviews =
                IF x.type = "ReviewDeclared" THEN Put(store.reviews, x.id, x.value)
                ELSE IF x.type \in Global \/ x.id \notin DOMAIN store.reviews THEN store.reviews
                ELSE [store.reviews EXCEPT ![x.id] = Amended(@, x)]
<1>1. CASE x.type = "EpochEstablished"
  <2>1. Applied(store, x) = [store EXCEPT !.epoch = x.value]
    BY <1>1 DEF Applied
  <2> QED BY <1>1, <2>1 DEF Shape, Global
<1>2. CASE x.type = "TargetRegistered"
  <2>1. Applied(store, x) = [store EXCEPT !.targets = Put(@, x.id, x.value)]
    BY <1>2 DEF Applied
  <2> QED BY <1>2, <2>1 DEF Shape, Global
<1>3. CASE x.type = "CriticRegistered"
  <2>1. Applied(store, x) = [store EXCEPT !.critics = Put(@, x.id, x.value)]
    BY <1>3 DEF Applied
  <2> QED BY <1>3, <2>1 DEF Shape, Global
<1>4. CASE x.type = "WorkerRegistered"
  <2> DEFINE ws == Put(store.workers, x.id, x.value)
  <2>1. Applied(store, x) =
          [store EXCEPT !.workers = ws, !.incumbents = Heir(@, x.value.critic, x.id, ws)]
    BY <1>4 DEF Applied
  <2> QED BY <1>4, <2>1 DEF Shape, Global
<1>5. CASE x.type = "ReviewDeclared"
  <2>1. Applied(store, x) = [store EXCEPT !.reviews = Put(@, x.id, x.value)]
    BY <1>5 DEF Applied
  <2> QED BY <1>5, <2>1 DEF Shape
<1>6. CASE x.type \notin Global \cup {"ReviewDeclared"}
  <2>1. Applied(store, x) = IF x.id \in DOMAIN store.reviews
                            THEN [store EXCEPT !.reviews[x.id] = Amended(@, x)] ELSE store
    BY <1>6 DEF Applied, Global
  <2> QED BY <1>6, <2>1 DEF Shape, Global
<1> QED
  BY <1>1, <1>2, <1>3, <1>4, <1>5, <1>6 DEF Global

\* An entry about a review keeps its type and target; only DecisionCommitted
\* touches its decision.
LEMMA AmendedKeeps ==
    ASSUME NEW rev \in Review, FiniteRecords(rev), NEW x \in Amendment \cup Ruling
    PROVE  /\ Kept(rev, Amended(rev, x))
           /\ x \in Amendment => Amended(rev, x).decision = rev.decision
           /\ x \in Ruling => Amended(rev, x).decision = x.value
<1>1. CASE x \in About("AssignmentsAdded", {S \in SUBSET Assignment : IsFiniteSet(S)})
  <2>1. x.type = "AssignmentsAdded" /\ x.value \in SUBSET Assignment /\ IsFiniteSet(x.value)
    BY <1>1 DEF About
  <2>2. IsFiniteSet(rev.assignments \cup x.value)
    BY <2>1, FS_Union DEF FiniteRecords
  <2>3. Amended(rev, x) = [rev EXCEPT !.assignments = @ \cup x.value]
    BY <2>1 DEF Amended
  <2> QED BY <2>1, <2>2, <2>3 DEF Kept, Review, FiniteRecords, Ruling, About
<1>2. CASE x \in About("AssignmentUpdated", Assignment)
  <2>1. x.type = "AssignmentUpdated" /\ x.value \in Assignment
    BY <1>2 DEF About
  <2> DEFINE f == [a \in rev.assignments |->
                     IF a.critic = x.value.critic /\ a.ordinal = x.value.ordinal
                     THEN x.value ELSE a]
             S == {f[a] : a \in rev.assignments}
  <2>2. Amended(rev, x) = [rev EXCEPT !.assignments = S]
    BY <2>1 DEF Amended
  <2>3. S \in SUBSET Assignment
    BY <2>1 DEF Review
  <2>4. IsFiniteSet(S)
    <3>1. f = [a \in rev.assignments |-> f[a]]
      OBVIOUS
    <3> HIDE DEF f
    <3> QED BY <3>1, FiniteImage DEF FiniteRecords
  <2> HIDE DEF f, S
  <2>5. Kept(rev, [rev EXCEPT !.assignments = S])
    BY <2>3, <2>4 DEF Kept, Review, FiniteRecords
  <2>6. [rev EXCEPT !.assignments = S].decision = rev.decision /\ x \notin Ruling
    BY <2>1 DEF Review, Ruling, About
  <2> QED BY <2>2, <2>5, <2>6
<1>3. CASE x \in About("FindingRecorded", Finding)
  <2>1. x.type = "FindingRecorded" /\ x.value \in Finding
    BY <1>3 DEF About
  <2> DEFINE f == [e \in rev.evidences |->
                     IF e.id \in Range(x.value.evidence) /\ e.finding = NoId
                     THEN [e EXCEPT !.finding = x.value.id] ELSE e]
             S == {f[e] : e \in rev.evidences}
  <2>2. Amended(rev, x) = [rev EXCEPT !.findings = @ \cup {x.value}, !.evidences = S]
    BY <2>1 DEF Amended
  <2>3. S \in SUBSET Evidence
    <3>1. x.value.id \in Nat
      BY <2>1 DEF Finding, Ids
    <3>2. \A e \in Evidence : [e EXCEPT !.finding = x.value.id] \in Evidence
      BY <3>1 DEF Evidence
    <3>3. \A e \in rev.evidences : e \in Evidence
      BY DEF Review
    <3> QED BY <3>2, <3>3
  <2>4. IsFiniteSet(S)
    <3>1. f = [e \in rev.evidences |-> f[e]]
      OBVIOUS
    <3> HIDE DEF f
    <3> QED BY <3>1, FiniteImage DEF FiniteRecords
  <2> HIDE DEF f, S
  <2> DEFINE T == rev.findings \cup {x.value}
  <2>5. T \in SUBSET Finding /\ IsFiniteSet(T)
    <3>1. rev.findings \in SUBSET Finding /\ IsFiniteSet(rev.findings)
      BY DEF Review, FiniteRecords
    <3>2. T \in SUBSET Finding
      BY <2>1, <3>1
    <3>3. IsFiniteSet(T)
      BY <3>1, FS_AddElement
    <3> QED BY <3>2, <3>3
  <2>6. Amended(rev, x) = [rev EXCEPT !.findings = T, !.evidences = S]
    BY <2>2
  <2> HIDE DEF T
  <2>7. Kept(rev, [rev EXCEPT !.findings = T, !.evidences = S])
    BY <2>3, <2>4, <2>5 DEF Kept, Review, FiniteRecords
  <2>8. [rev EXCEPT !.findings = T, !.evidences = S].decision = rev.decision /\ x \notin Ruling
    BY <2>1 DEF Review, Ruling, About
  <2> QED BY <2>6, <2>7, <2>8
<1>4. CASE x \in About("FindingStateChanged", [id : Ids, state : FindingStates])
  <2>1. x.type = "FindingStateChanged" /\ x.value.state \in FindingStates
    BY <1>4 DEF About
  <2> DEFINE S == SetState(rev.findings, x.value.id, x.value.state)
  <2>2. Amended(rev, x) = [rev EXCEPT !.findings = S]
    BY <2>1 DEF Amended
  <2>3. S \in SUBSET Finding /\ IsFiniteSet(S)
    BY <2>1, SetStateType DEF Review, FiniteRecords
  <2> HIDE DEF S
  <2> QED BY <2>1, <2>2, <2>3 DEF Kept, Review, FiniteRecords, Ruling, About
<1>5. CASE x \in About("EvidenceRecorded", Evidence)
  <2>1. x.type = "EvidenceRecorded" /\ x.value \in Evidence
    BY <1>5 DEF About
  <2> DEFINE f == [g \in rev.findings |->
                     IF g.id = x.value.finding
                     THEN [g EXCEPT !.evidence = Append(@, x.value.id)] ELSE g]
             S == {f[g] : g \in rev.findings}
  <2>2. Amended(rev, x) = [rev EXCEPT !.evidences = @ \cup {x.value}, !.findings = S]
    BY <2>1 DEF Amended
  <2>3. S \in SUBSET Finding
    <3>1. x.value.id \in Ids
      BY <2>1 DEF Evidence
    <3>2. ASSUME NEW g \in Finding
          PROVE  [g EXCEPT !.evidence = Append(@, x.value.id)] \in Finding
      <4>1. Append(g.evidence, x.value.id) \in Seq(Ids)
        <5>1. g.evidence \in Seq(Ids)
          BY DEF Finding
        <5> QED BY <3>1, <5>1, AppendProperties
      <4> DEFINE longer == Append(g.evidence, x.value.id)
      <4>2. [g EXCEPT !.evidence = longer] \in Finding
        <5> HIDE DEF longer
        <5>1. longer \in Seq(Ids)
          BY <4>1 DEF longer
        <5> QED BY <5>1 DEF Finding
      <4> QED BY <4>2
    <3>3. \A g \in rev.findings : g \in Finding
      BY DEF Review
    <3> QED BY <3>2, <3>3
  <2>4. IsFiniteSet(S)
    <3>1. f = [g \in rev.findings |-> f[g]]
      OBVIOUS
    <3> HIDE DEF f
    <3> QED BY <3>1, FiniteImage DEF FiniteRecords
  <2> HIDE DEF f, S
  <2> DEFINE T == rev.evidences \cup {x.value}
  <2>5. T \in SUBSET Evidence /\ IsFiniteSet(T)
    <3>1. rev.evidences \in SUBSET Evidence /\ IsFiniteSet(rev.evidences)
      BY DEF Review, FiniteRecords
    <3>2. T \in SUBSET Evidence
      BY <2>1, <3>1
    <3>3. IsFiniteSet(T)
      BY <3>1, FS_AddElement
    <3> QED BY <3>2, <3>3
  <2>6. Amended(rev, x) = [rev EXCEPT !.evidences = T, !.findings = S]
    BY <2>2
  <2> HIDE DEF T
  <2>7. Kept(rev, [rev EXCEPT !.evidences = T, !.findings = S])
    BY <2>3, <2>4, <2>5 DEF Kept, Review, FiniteRecords
  <2>8. [rev EXCEPT !.evidences = T, !.findings = S].decision = rev.decision /\ x \notin Ruling
    BY <2>1 DEF Review, Ruling, About
  <2> QED BY <2>6, <2>7, <2>8
<1>6. CASE x \in About("ChallengeRecorded", Challenge)
  <2>1. x.type = "ChallengeRecorded" /\ x.value \in Challenge
    BY <1>6 DEF About
  <2> DEFINE others == {ch \in rev.challenges : ch.id # x.value.id}
  <2>2. Amended(rev, x) = [rev EXCEPT !.challenges = others \cup {x.value}]
    BY <2>1 DEF Amended
  <2>3. others \in SUBSET Challenge /\ IsFiniteSet(others)
    BY FS_Subset DEF Review, FiniteRecords
  <2> HIDE DEF others
  <2>4. IsFiniteSet(others \cup {x.value})
    BY <2>3, FS_AddElement
  <2> QED BY <2>1, <2>2, <2>3, <2>4 DEF Kept, Review, FiniteRecords, Ruling, About
<1>7. CASE x \in About("ReviewStateChanged", StateRecord)
  <2>1. x.type = "ReviewStateChanged" /\ x.value \in StateRecord
    BY <1>7 DEF About
  <2>2. Amended(rev, x) =
          [rev EXCEPT !.state = x.value.state, !.disposition = x.value.disposition,
                      !.authorityCurrent = x.value.authorityCurrent,
                      !.roundsUsed = x.value.roundsUsed]
    BY <2>1 DEF Amended
  <2> QED BY <2>1, <2>2 DEF Kept, Review, FiniteRecords, Ruling, About, StateRecord
<1>8. CASE x \in Ruling
  <2>1. x.type = "DecisionCommitted" /\ x.value \in Decision
    BY <1>8 DEF Ruling, About
  <2>2. Amended(rev, x) = [rev EXCEPT !.decision = x.value]
    BY <2>1 DEF Amended
  <2> QED BY <2>1, <2>2 DEF Kept, Review, FiniteRecords, Amendment, About
<1> QED
  BY <1>1, <1>2, <1>3, <1>4, <1>5, <1>6, <1>7, <1>8 DEF Amendment

\* The incumbency rule, applied to a record that is no older than the one it
\* replaces, leaves every critic with its newest process.
LEMMA HeirIsNewest ==
    ASSUME NEW store, StoreOK(store), NewestIn(store), NEW w \in Workers, NEW v \in Worker,
           w \in DOMAIN store.workers => store.workers[w].bootOrder <= v.bootOrder
    PROVE  LET ws == Put(store.workers, w, v)
               heirs == Heir(store.incumbents, v.critic, w, ws)
           IN  /\ IsMap(ws, Workers, Worker)
               /\ IsMap(heirs, Critics, DOMAIN ws)
               /\ \A u \in DOMAIN ws :
                     /\ ws[u].critic \in DOMAIN heirs
                     /\ ws[u].bootOrder <= ws[heirs[ws[u].critic]].bootOrder
<1> DEFINE old == store.workers
           ws == Put(store.workers, w, v)
           before == store.incumbents
           heirs == Heir(store.incumbents, v.critic, w, ws)
<1>1. IsMap(old, Workers, Worker) /\ IsMap(before, Critics, DOMAIN old)
  BY DEF StoreOK
<1>2. IsMap(ws, Workers, Worker)
  BY <1>1, PutIsMap
<1>3. /\ DOMAIN ws = DOMAIN old \cup {w}
      /\ ws[w] = v
      /\ \A u \in DOMAIN old \ {w} : ws[u] = old[u]
  BY DEF Put
<1>4. /\ \A u \in DOMAIN old : old[u].bootOrder \in Nat /\ old[u].critic \in Critics
      /\ v.bootOrder \in Nat /\ v.critic \in Critics
  BY <1>1, BoundsAssumption DEF IsMap, Worker, BootOrders
<1>5. \A u \in DOMAIN old : old[u].critic \in DOMAIN before
                            /\ before[old[u].critic] \in DOMAIN old
                            /\ old[u].bootOrder <= old[before[old[u].critic]].bootOrder
  BY <1>1 DEF NewestIn, IsMap
<1>6. \A u \in DOMAIN old : ws[u].bootOrder \in Nat /\ old[u].bootOrder <= ws[u].bootOrder
  BY <1>3, <1>4
<1>7. IsMap(before, Critics, DOMAIN ws)
  BY <1>1, <1>3, IncumbentsStayKnown
<1>8. CASE v.critic \in DOMAIN before /\ ws[w].bootOrder <= ws[before[v.critic]].bootOrder
  <2>1. heirs = before
    BY <1>8 DEF Heir
  <2>2. ASSUME NEW u \in DOMAIN ws
        PROVE  /\ ws[u].critic \in DOMAIN before
               /\ ws[u].bootOrder <= ws[before[ws[u].critic]].bootOrder
    <3>1. CASE u = w
      BY <1>3, <1>8, <3>1
    <3>2. CASE u # w
      <4>1. u \in DOMAIN old /\ ws[u] = old[u]
        BY <1>3, <3>2
      <4> DEFINE h == before[old[u].critic]
      <4>2. h \in DOMAIN old /\ old[u].bootOrder <= old[h].bootOrder
        BY <1>5, <4>1
      <4> HIDE DEF h
      <4>3. old[h].bootOrder <= ws[h].bootOrder /\ ws[h].bootOrder \in Nat
        BY <1>6, <4>2
      <4>4. old[u].bootOrder <= ws[h].bootOrder
        BY <1>4, <4>1, <4>2, <4>3
      <4> QED BY <1>5, <4>1, <4>4 DEF h
    <3> QED BY <3>1, <3>2
  <2> QED BY <1>2, <1>7, <2>1, <2>2
<1>9. CASE ~(v.critic \in DOMAIN before /\ ws[w].bootOrder <= ws[before[v.critic]].bootOrder)
  <2>1. heirs = Put(before, v.critic, w)
    BY <1>9 DEF Heir
  <2>2. IsMap(Put(before, v.critic, w), Critics, DOMAIN ws)
    BY <1>3, <1>4, <1>7, PutIsMap
  <2> DEFINE after == Put(before, v.critic, w)
  <2>3. /\ DOMAIN after = DOMAIN before \cup {v.critic}
        /\ after[v.critic] = w
        /\ \A c \in DOMAIN before \ {v.critic} : after[c] = before[c]
    BY DEF Put
  <2> HIDE DEF after
  <2>4. ASSUME NEW u \in DOMAIN ws
        PROVE  /\ ws[u].critic \in DOMAIN after
               /\ ws[u].bootOrder <= ws[after[ws[u].critic]].bootOrder
    <3>1. CASE u = w
      BY <1>3, <1>4, <2>3, <3>1
    <3>2. CASE u # w
      <4>1. u \in DOMAIN old /\ ws[u] = old[u]
        BY <1>3, <3>2
      <4> DEFINE h == before[old[u].critic]
      <4>2. h \in DOMAIN old /\ old[u].bootOrder <= old[h].bootOrder
        BY <1>5, <4>1
      <4>3. old[h].bootOrder \in Nat /\ old[h].bootOrder <= ws[h].bootOrder
            /\ ws[h].bootOrder \in Nat /\ old[u].bootOrder \in Nat
        BY <1>4, <1>6, <4>1, <4>2
      <4>4. ws[u].bootOrder <= ws[h].bootOrder
        <5> HIDE DEF h
        <5> QED BY <4>1, <4>2, <4>3
      <4>5. CASE old[u].critic = v.critic
        <5>1. ~(ws[w].bootOrder <= ws[h].bootOrder)
          BY <1>5, <1>9, <4>1, <4>5
        <5>2. ws[w].bootOrder \in Nat
          BY <1>3, <1>4
        <5> HIDE DEF h
        <5>3. ws[u].bootOrder <= ws[w].bootOrder
          BY <4>1, <4>3, <4>4, <5>1, <5>2
        <5> QED BY <2>3, <4>1, <4>5, <5>3
      <4>6. CASE old[u].critic # v.critic
        <5>1. after[old[u].critic] = h /\ old[u].critic \in DOMAIN after
          BY <1>5, <2>3, <4>1, <4>6
        <5> QED BY <4>1, <4>4, <5>1
      <4> QED BY <4>5, <4>6
    <3> QED BY <3>1, <3>2
  <2>5. heirs = after
    BY <2>1 DEF after
  <2>6. IsMap(after, Critics, DOMAIN ws)
    BY <2>2 DEF after
  <2> HIDE DEF heirs, ws
  <2> QED BY <1>2, <2>4, <2>5, <2>6 DEF heirs, ws
<1> QED
  BY <1>8, <1>9

Entries == Establishment \cup Plain \cup Registration \cup Declaration \cup Ruling

\* Replaying one more entry yields a store like that before it.
LEMMA AppliedOK ==
    ASSUME NEW store, StoreOK(store), NewestIn(store), NEW x \in Entries,
           x.type = "WorkerRegistered" /\ x.id \in DOMAIN store.workers
              => store.workers[x.id].bootOrder <= x.value.bootOrder,
           x.type = "ReviewDeclared"
              => x.value.target \in DOMAIN store.targets /\ FiniteRecords(x.value)
    PROVE  StoreOK(Applied(store, x)) /\ NewestIn(Applied(store, x))
<1> DEFINE new == Applied(store, x)
<1>1. Shape(store)
  BY DEF StoreOK
<1>2. /\ Shape(new)
      /\ new.epoch = IF x.type = "EpochEstablished" THEN x.value ELSE store.epoch
      /\ new.targets = IF x.type = "TargetRegistered" THEN Put(store.targets, x.id, x.value)
                       ELSE store.targets
      /\ new.critics = IF x.type = "CriticRegistered" THEN Put(store.critics, x.id, x.value)
                       ELSE store.critics
      /\ new.workers = IF x.type = "WorkerRegistered" THEN Put(store.workers, x.id, x.value)
                       ELSE store.workers
      /\ new.incumbents =
           IF x.type = "WorkerRegistered"
           THEN Heir(store.incumbents, x.value.critic, x.id, Put(store.workers, x.id, x.value))
           ELSE store.incumbents
      /\ new.reviews =
           IF x.type = "ReviewDeclared" THEN Put(store.reviews, x.id, x.value)
           ELSE IF x.type \in Global \/ x.id \notin DOMAIN store.reviews THEN store.reviews
           ELSE [store.reviews EXCEPT ![x.id] = Amended(@, x)]
  BY <1>1, AppliedFields
<1> HIDE DEF new
<1>3. new.epoch \in Nat
  BY <1>2 DEF StoreOK, Entries, Establishment, Plain, Amendment, About, Registration,
              Declaration, Ruling
<1>4. /\ x.type = "TargetRegistered" => x.id \in Targets /\ x.value \in Target
      /\ x.type = "CriticRegistered" => x.id \in Critics /\ x.value \in Critic
      /\ x.type = "WorkerRegistered" => x.id \in Workers /\ x.value \in Worker
      /\ x.type = "ReviewDeclared" => x.id \in Requests /\ x.value \in Review
      /\ x.type \notin Global \cup {"ReviewDeclared"} => x \in Amendment \cup Ruling
  BY DEF Entries, Establishment, Plain, Amendment, About, Registration, Declaration, Ruling,
         Global
<1>5. \A f, k, v : /\ DOMAIN Put(f, k, v) = DOMAIN f \cup {k}
                   /\ IsFiniteSet(DOMAIN f) => IsFiniteSet(DOMAIN Put(f, k, v))
  BY FS_AddElement DEF Put
<1>6. /\ IsMap(new.targets, Targets, Target) /\ IsFiniteSet(DOMAIN new.targets)
      /\ DOMAIN store.targets \subseteq DOMAIN new.targets
  <2>1. IsMap(store.targets, Targets, Target) /\ IsFiniteSet(DOMAIN store.targets)
    BY DEF StoreOK
  <2>2. CASE x.type = "TargetRegistered"
    <3>1. new.targets = Put(store.targets, x.id, x.value)
      BY <1>2, <2>2
    <3>2. IsMap(new.targets, Targets, Target)
      BY <1>4, <2>1, <2>2, <3>1, PutIsMap
    <3>3. /\ DOMAIN new.targets = DOMAIN store.targets \cup {x.id}
          /\ IsFiniteSet(DOMAIN new.targets)
      <4> DEFINE f == store.targets
                 g == Put(f, x.id, x.value)
      <4>1. DOMAIN g = DOMAIN f \cup {x.id} /\ IsFiniteSet(DOMAIN f)
        BY <2>1 DEF Put
      <4>2. IsFiniteSet(DOMAIN f \cup {x.id})
        BY <4>1, FS_AddElement
      <4> HIDE DEF g, f
      <4> QED BY <3>1, <4>1, <4>2 DEF g, f
    <3> QED BY <3>2, <3>3
  <2>3. CASE x.type # "TargetRegistered"
    BY <1>2, <2>1, <2>3
  <2> QED BY <2>2, <2>3
<1>7. IsMap(new.critics, Critics, Critic) /\ IsFiniteSet(DOMAIN new.critics)
  BY <1>2, <1>4, <1>5, PutIsMap DEF StoreOK
<1>8. /\ IsMap(new.workers, Workers, Worker)
      /\ IsMap(new.incumbents, Critics, DOMAIN new.workers)
      /\ NewestIn(new)
  <2>1. CASE x.type = "WorkerRegistered"
    <3> DEFINE ws == Put(store.workers, x.id, x.value)
               heirs == Heir(store.incumbents, x.value.critic, x.id, ws)
    <3>1. /\ IsMap(ws, Workers, Worker)
          /\ IsMap(heirs, Critics, DOMAIN ws)
          /\ \A u \in DOMAIN ws :
                /\ ws[u].critic \in DOMAIN heirs
                /\ ws[u].bootOrder <= ws[heirs[ws[u].critic]].bootOrder
      BY <1>4, <2>1, HeirIsNewest
    <3>2. new.workers = ws /\ new.incumbents = heirs
      BY <1>2, <2>1
    <3> HIDE DEF ws, heirs
    <3> QED BY <3>1, <3>2 DEF NewestIn
  <2>2. CASE x.type # "WorkerRegistered"
    BY <1>2, <2>2 DEF NewestIn, StoreOK
  <2> QED BY <2>1, <2>2
<1>9. IsFiniteSet(DOMAIN new.workers)
  BY <1>2, <1>5 DEF StoreOK
<1>10. /\ IsMap(new.reviews, Requests, Review) /\ IsFiniteSet(DOMAIN new.reviews)
       /\ \A r \in DOMAIN new.reviews :
             new.reviews[r].target \in DOMAIN store.targets /\ FiniteRecords(new.reviews[r])
  <2>1. CASE x.type = "ReviewDeclared"
    <3>1. new.reviews = Put(store.reviews, x.id, x.value)
      BY <1>2, <2>1
    <3>2. IsMap(new.reviews, Requests, Review) /\ IsFiniteSet(DOMAIN new.reviews)
      BY <1>4, <1>5, <2>1, <3>1, PutIsMap DEF StoreOK
    <3> QED BY <2>1, <3>1, <3>2 DEF StoreOK, Put
  <2>2. CASE x.type # "ReviewDeclared" /\ (x.type \in Global \/ x.id \notin DOMAIN store.reviews)
    BY <1>2, <2>2 DEF StoreOK
  <2>3. CASE x.type \notin Global \cup {"ReviewDeclared"} /\ x.id \in DOMAIN store.reviews
    <3> DEFINE old == store.reviews
               rev == Amended(old[x.id], x)
    <3>1. new.reviews = [old EXCEPT ![x.id] = rev]
      BY <1>2, <2>3 DEF Global
    <3>2. old[x.id] \in Review /\ FiniteRecords(old[x.id])
      BY <2>3 DEF StoreOK, IsMap
    <3>3. Kept(old[x.id], rev)
      BY <1>4, <2>3, <3>2, AmendedKeeps
    <3> HIDE DEF rev
    <3>4. /\ IsMap(old, Requests, Review) /\ IsFiniteSet(DOMAIN old)
          /\ \A r \in DOMAIN old : old[r].target \in DOMAIN store.targets /\ FiniteRecords(old[r])
      BY DEF StoreOK
    <3> HIDE DEF old
    <3>5. /\ DOMAIN new.reviews = DOMAIN old
          /\ new.reviews = [r \in DOMAIN old |-> IF r = x.id THEN rev ELSE old[r]]
      BY <2>3, <3>1
    <3>6. \A r \in DOMAIN old : Kept(old[r], new.reviews[r])
      BY <3>3, <3>4, <3>5 DEF Kept, IsMap
    <3> QED BY <3>4, <3>5, <3>6 DEF Kept, IsMap
  <2> QED BY <2>1, <2>2, <2>3
<1> QED
  BY <1>2, <1>3, <1>6, <1>7, <1>8, <1>9, <1>10 DEF StoreOK, new

\* What an entry does to the decisions that replay yields.
LEMMA AppliedDecisions ==
    ASSUME NEW store, StoreOK(store), NEW x \in Entries
    PROVE  LET new == Applied(store, x) IN
           /\ DOMAIN new.reviews = IF x.type = "ReviewDeclared" THEN DOMAIN store.reviews \cup {x.id}
                                   ELSE DOMAIN store.reviews
           /\ \A r \in DOMAIN new.reviews :
                new.reviews[r].decision =
                   IF x.type = "ReviewDeclared" /\ x.id = r THEN x.value.decision
                   ELSE IF x.type = "DecisionCommitted" /\ x.id = r THEN x.value
                   ELSE store.reviews[r].decision
<1> DEFINE new == Applied(store, x)
           old == store.reviews
<1>1. new.reviews =
        IF x.type = "ReviewDeclared" THEN Put(old, x.id, x.value)
        ELSE IF x.type \in Global \/ x.id \notin DOMAIN old THEN old
        ELSE [old EXCEPT ![x.id] = Amended(@, x)]
  BY AppliedFields DEF StoreOK
<1> HIDE DEF new
<1>2. CASE x.type = "ReviewDeclared"
  BY <1>1, <1>2 DEF Put, new
<1>3. CASE x.type # "ReviewDeclared" /\ (x.type \in Global \/ x.id \notin DOMAIN old)
  BY <1>1, <1>3 DEF Global, new
<1>4. CASE x.type \notin Global \cup {"ReviewDeclared"} /\ x.id \in DOMAIN old
  <2>1. /\ x \in Amendment \cup Ruling
        /\ x \in Amendment => x.type # "DecisionCommitted"
        /\ x \in Ruling => x.type = "DecisionCommitted"
    BY <1>4 DEF Entries, Establishment, Plain, Amendment, About, Registration, Declaration,
                Ruling, Global
  <2>2. old[x.id] \in Review /\ FiniteRecords(old[x.id])
    BY <1>4 DEF StoreOK, IsMap
  <2> DEFINE rev == Amended(old[x.id], x)
  <2>3. /\ x \in Amendment => rev.decision = old[x.id].decision
        /\ x \in Ruling => rev.decision = x.value
    BY <2>1, <2>2, AmendedKeeps
  <2>4. new.reviews = [old EXCEPT ![x.id] = rev]
    BY <1>1, <1>4 DEF Global
  <2> HIDE DEF rev, old
  <2>5. /\ DOMAIN new.reviews = DOMAIN old
        /\ \A r \in DOMAIN old : new.reviews[r] = IF r = x.id THEN rev ELSE old[r]
    BY <1>4, <2>4
  <2> QED BY <1>4, <2>1, <2>3, <2>5 DEF new, old
<1> QED
  BY <1>2, <1>3, <1>4 DEF new

-----------------------------------------------------------------------------
(* The invariant of the coordinator above its journal.                     *)

\* Outside commit_review and the walk to it, a review that is neither closed nor
\* waiting for revalidation is about the current generation of its target, also
\* when the supersession of the target was cut off.
OpenIsOfTheDay ==
    \A r \in DOMAIN reviews :
        reviews[r].state \in TerminalStates \cup {"RevalidationRequired"}
            \/ TargetCurrent(reviews[r])

\* Records of processes, not older than what the journal holds of them and not
\* newer than what the memory does.
Overdue ==
    {x \in Registration :
        /\ x.id \in DOMAIN workers
        /\ x.value.bootOrder <= workers[x.id].bootOrder
        /\ x.id \in DOMAIN durable.workers
              => durable.workers[x.id].bootOrder <= x.value.bootOrder}

Outstanding == Plain \cup Overdue \cup Decided(reviews, DOMAIN durable.targets)

\* The records of a process come in the order of its incarnations.
InOrder(entries) ==
    \A i, j \in 1 .. Len(entries) :
        /\ i <= j
        /\ entries[i].type = "WorkerRegistered" /\ entries[j].type = "WorkerRegistered"
        /\ entries[i].id = entries[j].id
        => entries[i].value.bootOrder <= entries[j].value.bootOrder

\* The journal is behind the memory, and never ahead of it.  What a call does that
\* stop has overtaken never gets there.
Behind ==
    /\ \A w \in DOMAIN durable.workers :
          w \in DOMAIN workers /\ durable.workers[w].bootOrder <= workers[w].bootOrder
    /\ \A r \in DOMAIN durable.reviews :
          r \in DOMAIN reviews /\ durable.reviews[r].decision \in {NoDecision, reviews[r].decision}
    /\ ~failed /\ serving # "stopped" => \A t \in DOMAIN targets :
          t \in DOMAIN durable.targets \/
          \E i \in 1 .. Len(pending) : pending[i].type = "TargetRegistered" /\ pending[i].id = t

\* start has recorded its epoch, or is about to.
Starting ==
    /\ pending # <<>>
    /\ \A e \in served : e < epoch
    /\ \/ durable.epoch = epoch /\ pending \in Seq(Amendment)
       \/ /\ durable.epoch + 1 = epoch
          /\ \E rest \in Seq(Amendment) :
                pending = <<Entry("EpochEstablished", NoId, epoch)>> \o rest
          /\ workers = Cleared(durable.workers)

Up ==
    /\ durable.epoch = epoch
    /\ pending \in Seq(Outstanding)
    /\ InOrder(pending)

\* After stop nothing is on its way to the journal.
Stopped == durable.epoch = epoch /\ pending = <<>>

ServingInv ==
    /\ served \subseteq 1 .. durable.epoch
    /\ \/ serving = "starting" /\ Starting
       \/ serving = "up" /\ Up
       \/ serving = "stopped" /\ Stopped

DurableInv ==
    /\ TypeOK
    /\ RegistryInv
    /\ FiniteMaps
    /\ OpenIsOfTheDay
    /\ StoreOK(durable)
    /\ NewestIn(durable)
    /\ Behind
    /\ ServingInv

-----------------------------------------------------------------------------
(* What a call does to the memory.                                         *)

\* A call on one review leaves it with its target.  Unless it closes the review,
\* the target is current.
Written ==
    /\ UNCHANGED <<epoch, registry>>
    /\ \E r \in DOMAIN reviews : \E new :
          /\ reviews' = [reviews EXCEPT ![r] = new]
          /\ new.target = reviews[r].target
          /\ new.targetGeneration = reviews[r].targetGeneration
          /\ new.state \in TerminalStates \/ TargetCurrent(reviews[r])

LEMMA OneWritten ==
    ASSUME NEW r \in DOMAIN reviews, NEW new, UNCHANGED <<epoch, registry>>,
           reviews' = [reviews EXCEPT ![r] = new],
           new.target = reviews[r].target,
           new.targetGeneration = reviews[r].targetGeneration,
           new.state \in TerminalStates \/ TargetCurrent(reviews[r])
    PROVE  Written
  BY DEF Written

LEMMA OutputWrites ==
    ASSUME TypeOK, Output
    PROVE  Written
<1>1. ASSUME NEW m, NEW input, NEW finding, SubmitEvidence(m, input, finding)
      PROVE  Written
  <2> DEFINE rev == reviews[m.review]
             New(evidences, findings) ==
                [rev EXCEPT !.evidences = evidences, !.findings = findings]
  <2>1. CheckAuthority(m) /\ UNCHANGED <<epoch, registry>>
    BY <1>1 DEF SubmitEvidence
  <2>2. PICK evidences, findings :
          reviews' = [reviews EXCEPT ![m.review] = New(evidences, findings)]
    BY <1>1 DEF SubmitEvidence
  <2>3. /\ New(evidences, findings).target = rev.target
        /\ New(evidences, findings).targetGeneration = rev.targetGeneration
    BY <2>1, SpokenTo DEF Review
  <2> HIDE DEF New
  <2> QED BY <2>1, <2>2, <2>3, OneWritten DEF CheckAuthority
<1>2. ASSUME NEW m, NEW input, NEW supersedes, SubmitFinding(m, input, supersedes)
      PROVE  Written
  <2> DEFINE rev == reviews[m.review]
             Recorded(findings, evidences) ==
                [rev EXCEPT !.findings = findings, !.evidences = evidences]
             New(recorded) ==
                IF rev.state \in {"Assigned", "Reviewing"}
                THEN [recorded EXCEPT !.state = "FindingsReceived", !.disposition = "None",
                                      !.authorityCurrent = TRUE]
                ELSE recorded
  <2>1. CheckAuthority(m) /\ UNCHANGED <<epoch, registry>>
    BY <1>2 DEF SubmitFinding
  <2>2. PICK findings, evidences :
          reviews' = [reviews EXCEPT ![m.review] = New(Recorded(findings, evidences))]
    BY <1>2 DEF SubmitFinding
  <2> DEFINE new == New(Recorded(findings, evidences))
  <2>3. new.target = rev.target /\ new.targetGeneration = rev.targetGeneration
    BY <2>1, SpokenTo DEF Review
  <2> HIDE DEF new
  <2> QED BY <2>1, <2>2, <2>3, OneWritten DEF CheckAuthority, new
<1>3. ASSUME NEW m, NEW id, SubmitChallenge(m, id)
      PROVE  Written
  <2> DEFINE rev == reviews[m.review]
             Challenged(challenges, findings) ==
                [rev EXCEPT !.challenges = challenges, !.findings = findings]
             New(challenged) ==
                IF rev.state # "Challenged"
                THEN [challenged EXCEPT !.state = "Challenged", !.disposition = "None",
                                        !.authorityCurrent = TRUE]
                ELSE challenged
  <2>1. CheckAuthority(m) /\ UNCHANGED <<epoch, registry>>
    BY <1>3 DEF SubmitChallenge
  <2>2. PICK challenges, findings :
          reviews' = [reviews EXCEPT ![m.review] = New(Challenged(challenges, findings))]
    BY <1>3 DEF SubmitChallenge
  <2> DEFINE new == New(Challenged(challenges, findings))
  <2>3. new.target = rev.target /\ new.targetGeneration = rev.targetGeneration
    BY <2>1, SpokenTo DEF Review
  <2> HIDE DEF new
  <2> QED BY <2>1, <2>2, <2>3, OneWritten DEF CheckAuthority, new
<1>4. ASSUME NEW m, NEW id, NEW outcome, SubmitRebuttal(m, id, outcome)
      PROVE  Written
  <2> DEFINE rev == reviews[m.review]
             New(challenges, findings, rounds) ==
                [rev EXCEPT !.challenges = challenges, !.findings = findings,
                            !.state = "Evaluating", !.disposition = "None",
                            !.authorityCurrent = TRUE, !.roundsUsed = rounds]
             Answered(ch) == [ch EXCEPT !.resolved = TRUE, !.outcome = outcome]
             After4(ch) == New((rev.challenges \ {ch}) \cup {Answered(ch)},
                               SetState(rev.findings, ch.finding, AfterRebuttal(outcome)),
                               rev.roundsUsed + 1)
  <2>1. CheckAuthority(m) /\ UNCHANGED <<epoch, registry>>
    BY <1>4 DEF SubmitRebuttal
  <2>2. PICK ch \in rev.challenges : reviews' = [reviews EXCEPT ![m.review] = After4(ch)]
    BY <1>4 DEF SubmitRebuttal
  <2> DEFINE new == After4(ch)
  <2>3. new.target = rev.target /\ new.targetGeneration = rev.targetGeneration
    BY <2>1, SpokenTo DEF Review
  <2> HIDE DEF new
  <2> QED BY <2>1, <2>2, <2>3, OneWritten DEF CheckAuthority, new
<1> QED
  BY <1>1, <1>2, <1>3, <1>4 DEF Output

LEMMA ReviewCallWrites ==
    ASSUME TypeOK, OpenIsOfTheDay, NEW e, NEW r \in DOMAIN reviews,
           \/ \E batch : AssignCritics(e, r, batch)
           \/ CommitReview(e, r)
           \/ CancelReview(e, r)
    PROVE  Written
<1> DEFINE rev == reviews[r]
<1>1. rev \in Review
  BY ReviewLookups
<1>2. ASSUME NEW batch, AssignCritics(e, r, batch)
      PROVE  Written
  <2> DEFINE added   == {Granted(rev, q) : q \in batch}
             granted == [rev EXCEPT !.assignments = @ \cup added]
             new     == IF rev.state \in {"Declared", "Assigning", "RevalidationRequired"}
                        THEN [granted EXCEPT !.state = "Assigned", !.disposition = "None",
                                             !.authorityCurrent = TRUE]
                        ELSE granted
  <2>1. /\ TargetCurrent(rev)
        /\ UNCHANGED <<epoch, registry>>
        /\ reviews' = [reviews EXCEPT ![r] = new]
    BY <1>2 DEF AssignCritics
  <2> HIDE DEF added
  <2>2. new.target = rev.target /\ new.targetGeneration = rev.targetGeneration
    BY <1>1 DEF Review
  <2> HIDE DEF new
  <2> QED BY <2>1, <2>2, OneWritten
<1>3. CASE CommitReview(e, r)
  <2> DEFINE decision == Resolve(rev)
             new == [rev EXCEPT !.state = "Committed", !.decision = decision,
                                !.disposition = decision.disposition, !.authorityCurrent = TRUE]
  <2>1. /\ rev.state \notin TerminalStates \cup {"RevalidationRequired"}
        /\ UNCHANGED <<epoch, registry>>
        /\ reviews' = [reviews EXCEPT ![r] = new]
    BY <1>3 DEF CommitReview
  <2> HIDE DEF decision
  <2>2. new.target = rev.target /\ new.targetGeneration = rev.targetGeneration
    BY <1>1 DEF Review
  <2>3. TargetCurrent(rev)
    BY <2>1 DEF OpenIsOfTheDay
  <2> HIDE DEF new
  <2> QED BY <2>1, <2>2, <2>3, OneWritten
<1>4. CASE CancelReview(e, r)
  <2> DEFINE new == [rev EXCEPT !.state = "Cancelled", !.disposition = "Cancelled",
                                !.authorityCurrent = FALSE]
  <2>1. UNCHANGED <<epoch, registry>> /\ reviews' = [reviews EXCEPT ![r] = new]
    BY <1>4 DEF CancelReview
  <2>2. /\ new.target = rev.target /\ new.targetGeneration = rev.targetGeneration
        /\ new.state \in TerminalStates
    BY <1>1 DEF Review, TerminalStates
  <2> HIDE DEF new
  <2> QED BY <2>1, <2>2, OneWritten
<1> QED
  BY <1>2, <1>3, <1>4

\* The calls, by what they touch.
LEMMA CallSteps ==
    ASSUME TypeOK, OpenIsOfTheDay, Control \/ Incarnation \/ Output
    PROVE  \/ \E e, t, content : RegisterTarget(e, t, content) \/ AdvanceTarget(e, t, content)
           \/ \E e, c, capability : RegisterCritic(e, c, capability)
           \/ \E e, c, capability, advance : AdvanceCritic(e, c, capability, advance)
           \/ \E e, r, t, g, spec : DeclareReview(e, r, t, g, spec)
           \/ \E e \in Epochs, w \in Workers, boot \in Boots, c \in Critics,
                 g \in CriticGenerations : RegisterWorker(e, w, boot, c, g)
           \/ \E e, x, ready, healthy, evidence : DeclareReadiness(e, x, ready, healthy, evidence)
           \/ \E ws : Fence(ws)
           \/ Written
<1>1. CASE Control
  BY <1>1, ReviewCallWrites DEF Control
<1>2. CASE Incarnation
  <2>1. CASE \E w \in Workers : FenceWorker(w)
    BY <2>1 DEF FenceWorker
  <2>2. CASE \E c \in Critics : FenceCritic(c)
    BY <2>2 DEF FenceCritic
  <2>3. ASSUME NEW e \in Epochs, NEW w \in Workers, NEW boot \in Boots, NEW c \in Critics,
               NEW g \in CriticGenerations, NEW ready \in BOOLEAN, NEW healthy \in BOOLEAN,
               NEW k \in Capabilities,
               DeclareReadiness(e, [worker |-> w, boot |-> boot, critic |-> c,
                                    criticGeneration |-> g], ready, healthy, k.evidence)
        PROVE  \E d, x, rd, hl, evidence : DeclareReadiness(d, x, rd, hl, evidence)
    BY <2>3, Zenon
  <2>4. ASSUME NEW e \in Epochs, NEW w \in Workers, NEW boot \in Boots, NEW c \in Critics,
               NEW g \in CriticGenerations, RegisterWorker(e, w, boot, c, g)
        PROVE  \E d \in Epochs, v \in Workers, b \in Boots, k \in Critics,
                  h \in CriticGenerations : RegisterWorker(d, v, b, k, h)
    BY <2>4
  <2> QED BY <1>2, <2>1, <2>2, <2>3, <2>4, Zenon DEF Incarnation
<1>3. CASE Output
  BY <1>3, OutputWrites
<1> QED
  BY <1>1, <1>2, <1>3

\* A map with one more entry.
LEMMA PutGrows ==
    ASSUME NEW f, IsFiniteSet(DOMAIN f), NEW k, NEW new, \E v : new = Put(f, k, v)
    PROVE  DOMAIN f \subseteq DOMAIN new /\ IsFiniteSet(DOMAIN new)
<1>1. DOMAIN new = DOMAIN f \cup {k}
  BY DEF Put
<1>2. IsFiniteSet(DOMAIN f \cup {k})
  BY FS_AddElement
<1> QED
  BY <1>1, <1>2

\* Nothing is forgotten, one record is added at most, and no process grows younger.
WorkersGrow ==
    /\ IsFiniteSet(DOMAIN workers')
    /\ \A w \in DOMAIN workers :
          w \in DOMAIN workers' /\ workers[w].bootOrder <= workers'[w].bootOrder

LEMMA SilencingGrows ==
    ASSUME RegistryInv, FiniteMaps, NEW ws, workers' = Silenced(ws)
    PROVE  WorkersGrow
<1>1. /\ DOMAIN workers' = DOMAIN workers
      /\ \A w \in DOMAIN workers : workers'[w].bootOrder = workers[w].bootOrder
                                   /\ workers[w].bootOrder \in Nat
  BY SilencedWorkers, RegistryLookups DEF RegistryInv, RegistryTypeOK
<1> QED
  BY <1>1 DEF WorkersGrow, FiniteMaps

LEMMA RegisterWorkerGrows ==
    ASSUME RegistryInv, FiniteMaps, NEW e, NEW w, NEW boot, NEW c, NEW g,
           RegisterWorker(e, w, boot, c, g)
    PROVE  WorkersGrow
<1> DEFINE fenced == Fenceable({w} \cup {v \in WorkersOf(c) \ {w} : Authoritative(v)})
           silenced == Silenced(fenced)
           fresh == [boot |-> boot, critic |-> c, criticGeneration |-> g,
                     ready |-> FALSE, healthy |-> FALSE, bootOrder |-> nextBootOrder]
<1>1. workers' = Put(silenced, w, fresh)
  BY DEF RegisterWorker
<1>2. /\ DOMAIN silenced = DOMAIN workers
      /\ \A v \in DOMAIN workers : silenced[v].bootOrder = workers[v].bootOrder
  <2> HIDE DEF fenced
  <2> QED BY SilencedWorkers DEF RegistryInv, RegistryTypeOK
<1> HIDE DEF silenced
<1>3. /\ DOMAIN workers' = DOMAIN workers \cup {w}
      /\ workers'[w].bootOrder = nextBootOrder
      /\ \A v \in DOMAIN workers \ {w} : workers'[v] = silenced[v]
  BY <1>1, <1>2 DEF Put
<1>4. \A v \in DOMAIN workers : workers[v].bootOrder < nextBootOrder
                                /\ workers[v].bootOrder \in Nat /\ nextBootOrder \in Nat
  BY RegistryLookups DEF RegistryInv, BootOrdersPast
<1>5. IsFiniteSet(DOMAIN workers')
  BY <1>3, FS_AddElement DEF FiniteMaps
<1> QED
  BY <1>2, <1>3, <1>4, <1>5 DEF WorkersGrow

LEMMA DeclareReadinessGrows ==
    ASSUME RegistryInv, FiniteMaps, NEW e, NEW x, NEW ready, NEW healthy, NEW evidence,
           DeclareReadiness(e, x, ready, healthy, evidence)
    PROVE  WorkersGrow
<1>1. workers' = [workers EXCEPT ![x.worker].ready = ready, ![x.worker].healthy = healthy]
  BY DEF DeclareReadiness
<1>2. \A w \in DOMAIN workers : workers[w] \in Worker /\ workers[w].bootOrder \in Nat
  BY RegistryLookups DEF RegistryInv, RegistryTypeOK, IsMap
<1>3. /\ DOMAIN workers' = DOMAIN workers
      /\ \A w \in DOMAIN workers : workers'[w].bootOrder = workers[w].bootOrder
  BY <1>1, <1>2 DEF Worker
<1> QED
  BY <1>2, <1>3 DEF WorkersGrow, FiniteMaps

\* The reviews a step leaves, with reviews of known targets for new ones.
ReviewsGrow ==
    /\ IsFiniteSet(DOMAIN reviews')
    /\ DOMAIN reviews \subseteq DOMAIN reviews'
    /\ \A r \in DOMAIN reviews' \ DOMAIN reviews : reviews'[r].target \in DOMAIN targets
    /\ OpenIsOfTheDay'

\* Revalidating and retiring leave the target and the state, or revalidate.
LEMMA WithdrawalsStay ==
    ASSUME TypeOK, FiniteMaps, OpenIsOfTheDay, UNCHANGED targets,
           reviews' = [r \in DOMAIN reviews |-> reviews'[r]],
           \A r \in DOMAIN reviews : \E retired : reviews'[r] = Retire(reviews[r], retired)
    PROVE  ReviewsGrow
<1>1. DOMAIN reviews' = DOMAIN reviews
  OBVIOUS
<1>2. ASSUME NEW r \in DOMAIN reviews
      PROVE  \/ reviews'[r].state \in TerminalStates \cup {"RevalidationRequired"}
             \/ TargetCurrent(reviews[r])'
  <2> DEFINE rev == reviews[r]
  <2>1. rev \in Review /\ FiniteRecords(rev)
    BY ReviewLookups
  <2>2. PICK retired : reviews'[r] = Retire(rev, retired)
    OBVIOUS
  <2> DEFINE S   == {IF a \in retired THEN [a EXCEPT !.active = FALSE] ELSE a
                       : a \in rev.assignments}
             new == [rev EXCEPT !.assignments = S]
  <2>3. reviews'[r] = rev \/ reviews'[r] = Revalidate(new)
    BY <2>2 DEF Retire
  <2> HIDE DEF S
  <2>4. Revalidate(new).state \in TerminalStates \cup {"RevalidationRequired"}
    BY <2>1 DEF Revalidate, Review
  <2>5. reviews'[r] = rev => (TargetCurrent(rev) <=> TargetCurrent(reviews[r])')
    BY DEF TargetCurrent
  <2> HIDE DEF new
  <2> QED BY <2>3, <2>4, <2>5 DEF OpenIsOfTheDay
<1> QED
  BY <1>1, <1>2 DEF ReviewsGrow, OpenIsOfTheDay, FiniteMaps

\* The reviews of the generation that passes are closed.
LEMMA AdvanceTargetStays ==
    ASSUME TypeOK, FiniteMaps, OpenIsOfTheDay, NEW e, NEW t, NEW content,
           AdvanceTarget(e, t, content)
    PROVE  ReviewsGrow
<1>1. /\ DOMAIN reviews' = DOMAIN reviews
      /\ \A r \in DOMAIN reviews :
            reviews'[r] = IF reviews[r].target = t /\ TargetCurrent(reviews[r])
                          THEN Supersede(reviews[r]) ELSE reviews[r]
      /\ \A u \in DOMAIN targets \ {t} : targets'[u] = targets[u]
  BY DEF AdvanceTarget, Put
<1>2. ASSUME NEW r \in DOMAIN reviews
      PROVE  \/ reviews'[r].state \in TerminalStates \cup {"RevalidationRequired"}
             \/ TargetCurrent(reviews[r])'
  <2> DEFINE rev == reviews[r]
  <2>1. rev \in Review /\ rev.target \in DOMAIN targets
    BY ReviewLookups
  <2>2. CASE rev.target = t /\ TargetCurrent(rev)
    <3>1. reviews'[r] = Supersede(rev)
      BY <1>1, <2>2
    <3>2. Supersede(rev).state \in TerminalStates
      <4> DEFINE S == {IF f.state \in CurrentFindingStates
                       THEN [f EXCEPT !.state = "Invalidated"] ELSE f : f \in rev.findings}
                 cleared == [rev EXCEPT !.authorityCurrent = FALSE, !.findings = S]
      <4>1. Supersede(rev) = IF rev.state \in TerminalStates THEN cleared
                ELSE [cleared EXCEPT !.state = "Superseded", !.disposition = "Superseded"]
        BY DEF Supersede
      <4> HIDE DEF S
      <4> QED BY <2>1, <4>1 DEF Review, TerminalStates
    <3> QED BY <3>1, <3>2
  <2>3. CASE rev.target = t /\ ~TargetCurrent(rev)
    <3>1. reviews'[r] = rev
      BY <1>1, <2>3
    <3> QED BY <2>3, <3>1 DEF OpenIsOfTheDay
  <2>4. CASE rev.target # t
    <3>1. reviews'[r] = rev /\ targets'[rev.target] = targets[rev.target]
      BY <1>1, <2>1, <2>4
    <3> QED BY <3>1 DEF OpenIsOfTheDay, TargetCurrent
  <2> QED BY <2>2, <2>3, <2>4
<1> QED
  BY <1>1, <1>2 DEF ReviewsGrow, OpenIsOfTheDay, FiniteMaps

LEMMA ReviewsLeftAlone ==
    ASSUME TypeOK, FiniteMaps, OpenIsOfTheDay, UNCHANGED reviews,
           \A t \in DOMAIN targets : targets'[t] = targets[t]
    PROVE  ReviewsGrow
<1>1. \A r \in DOMAIN reviews : TargetCurrent(reviews[r]) <=> TargetCurrent(reviews[r])'
  BY ReviewLookups DEF TargetCurrent
<1> QED
  BY <1>1 DEF ReviewsGrow, OpenIsOfTheDay, FiniteMaps

LEMMA DeclareReviewStays ==
    ASSUME TypeOK, FiniteMaps, OpenIsOfTheDay, NEW e, NEW r, NEW t, NEW g, NEW spec,
           DeclareReview(e, r, t, g, spec)
    PROVE  ReviewsGrow
<1>1. /\ UNCHANGED targets
      /\ t \in DOMAIN targets
      /\ targets[t].generation = g
      /\ r \notin DOMAIN reviews
      /\ DOMAIN reviews' = DOMAIN reviews \cup {r}
      /\ \A x \in DOMAIN reviews : reviews'[x] = reviews[x]
      /\ reviews'[r].target = t
      /\ reviews'[r].targetGeneration = g
  BY DEF DeclareReview, Put, registry
<1>2. IsFiniteSet(DOMAIN reviews')
  BY <1>1, FS_AddElement DEF FiniteMaps
<1>3. \A x \in DOMAIN reviews' :
        reviews'[x].state \in TerminalStates \cup {"RevalidationRequired"}
           \/ TargetCurrent(reviews[x])'
  BY <1>1 DEF OpenIsOfTheDay, TargetCurrent
<1> QED
  BY <1>1, <1>2, <1>3 DEF ReviewsGrow, OpenIsOfTheDay

LEMMA WrittenStays ==
    ASSUME TypeOK, FiniteMaps, OpenIsOfTheDay, Written
    PROVE  ReviewsGrow
<1>1. UNCHANGED targets
  BY DEF Written, registry
<1>2. PICK r \in DOMAIN reviews :
        \E new :
          /\ reviews' = [reviews EXCEPT ![r] = new]
          /\ new.target = reviews[r].target
          /\ new.targetGeneration = reviews[r].targetGeneration
          /\ new.state \in TerminalStates \/ TargetCurrent(reviews[r])
  BY DEF Written
<1>3. PICK new :
          /\ reviews' = [reviews EXCEPT ![r] = new]
          /\ new.target = reviews[r].target
          /\ new.targetGeneration = reviews[r].targetGeneration
          /\ new.state \in TerminalStates \/ TargetCurrent(reviews[r])
  BY <1>2
<1>4. /\ DOMAIN reviews' = DOMAIN reviews
      /\ reviews'[r] = new
      /\ \A x \in DOMAIN reviews \ {r} : reviews'[x] = reviews[x]
  BY <1>3
<1>5. \A x \in DOMAIN reviews :
        reviews'[x].state \in TerminalStates \cup {"RevalidationRequired"}
           \/ TargetCurrent(reviews[x])'
  BY <1>1, <1>3, <1>4 DEF OpenIsOfTheDay, TargetCurrent
<1> QED
  BY <1>4, <1>5 DEF ReviewsGrow, OpenIsOfTheDay, FiniteMaps

\* Calls forget nothing, whatever they are.
LEMMA CallGrows ==
    ASSUME TypeOK, RegistryInv, FiniteMaps, OpenIsOfTheDay, Control \/ Incarnation \/ Output
    PROVE  /\ UNCHANGED epoch
           /\ DOMAIN targets \subseteq DOMAIN targets'
           /\ WorkersGrow
           /\ ReviewsGrow
           /\ FiniteMaps'
<1> DEFINE Goal == /\ UNCHANGED epoch
                   /\ DOMAIN targets \subseteq DOMAIN targets'
                   /\ IsFiniteSet(DOMAIN targets')
                   /\ IsFiniteSet(DOMAIN critics')
                   /\ WorkersGrow
                   /\ ReviewsGrow
<1>1. UNCHANGED targets => \A t \in DOMAIN targets : targets'[t] = targets[t]
  OBVIOUS
<1>2. UNCHANGED workers => WorkersGrow
  BY RegistryLookups DEF WorkersGrow, FiniteMaps, RegistryInv
<1>3. ASSUME NEW e, NEW t, NEW content, RegisterTarget(e, t, content)
      PROVE  Goal
  <2>1. /\ UNCHANGED <<epoch, critics, workers, reviews>>
        /\ t \notin DOMAIN targets
        /\ \E v : targets' = Put(targets, t, v)
    BY <1>3 DEF RegisterTarget
  <2>2. \A u \in DOMAIN targets : targets'[u] = targets[u]
    BY <2>1 DEF Put
  <2>3. DOMAIN targets \subseteq DOMAIN targets' /\ IsFiniteSet(DOMAIN targets')
    BY <2>1, PutGrows DEF FiniteMaps
  <2> QED BY <1>2, <2>1, <2>2, <2>3, ReviewsLeftAlone DEF FiniteMaps
<1>4. ASSUME NEW e, NEW t, NEW content, AdvanceTarget(e, t, content)
      PROVE  Goal
  <2>1. /\ UNCHANGED <<epoch, critics, workers>>
        /\ \E v : targets' = Put(targets, t, v)
    BY <1>4 DEF AdvanceTarget
  <2>2. DOMAIN targets \subseteq DOMAIN targets' /\ IsFiniteSet(DOMAIN targets')
    BY <2>1, PutGrows DEF FiniteMaps
  <2>3. ReviewsGrow
    BY <1>4, AdvanceTargetStays
  <2> QED BY <1>2, <2>1, <2>2, <2>3 DEF FiniteMaps
<1>5. ASSUME NEW e, NEW c, NEW capability, RegisterCritic(e, c, capability)
      PROVE  Goal
  <2>1. /\ UNCHANGED <<epoch, targets, workers, reviews>>
        /\ \E v : critics' = Put(critics, c, v)
    BY <1>5 DEF RegisterCritic
  <2>2. IsFiniteSet(DOMAIN critics')
    BY <2>1, PutGrows DEF FiniteMaps
  <2> QED BY <1>1, <1>2, <2>1, <2>2, ReviewsLeftAlone DEF FiniteMaps
<1>6. ASSUME NEW e, NEW c, NEW capability, NEW advance, AdvanceCritic(e, c, capability, advance)
      PROVE  Goal
  <2>1. /\ UNCHANGED <<epoch, targets>>
        /\ \E v : critics' = Put(critics, c, v)
        /\ \E ws : workers' = Silenced(ws)
        /\ reviews' = [r \in DOMAIN reviews |-> reviews'[r]]
        /\ \A r \in DOMAIN reviews : \E retired : reviews'[r] = Retire(reviews[r], retired)
    BY <1>6 DEF AdvanceCritic
  <2>2. IsFiniteSet(DOMAIN critics')
    BY <2>1, PutGrows DEF FiniteMaps
  <2> QED BY <2>1, <2>2, SilencingGrows, WithdrawalsStay DEF FiniteMaps
<1>7. ASSUME NEW e, NEW w, NEW boot, NEW c, NEW g, RegisterWorker(e, w, boot, c, g)
      PROVE  Goal
  <2>1. /\ UNCHANGED <<epoch, targets, critics>>
        /\ reviews' = [r \in DOMAIN reviews |-> reviews'[r]]
        /\ \A r \in DOMAIN reviews : \E retired : reviews'[r] = Retire(reviews[r], retired)
    BY <1>7 DEF RegisterWorker
  <2>2. WorkersGrow
    BY <1>7, RegisterWorkerGrows
  <2> QED BY <2>1, <2>2, WithdrawalsStay DEF FiniteMaps
<1>8. ASSUME NEW e, NEW x, NEW ready, NEW healthy, NEW evidence,
             DeclareReadiness(e, x, ready, healthy, evidence)
      PROVE  Goal
  <2>1. UNCHANGED <<epoch, targets, critics, reviews>>
    BY <1>8 DEF DeclareReadiness
  <2>2. WorkersGrow
    BY <1>8, DeclareReadinessGrows
  <2> QED BY <1>1, <2>1, <2>2, ReviewsLeftAlone DEF FiniteMaps
<1>9. ASSUME NEW ws, Fence(ws)
      PROVE  Goal
  <2>1. /\ UNCHANGED <<epoch, targets, critics>>
        /\ workers' = Silenced(ws)
        /\ reviews' = [r \in DOMAIN reviews |-> reviews'[r]]
        /\ \A r \in DOMAIN reviews : \E retired : reviews'[r] = Retire(reviews[r], retired)
    BY <1>9 DEF Fence
  <2> QED BY <2>1, SilencingGrows, WithdrawalsStay DEF FiniteMaps
<1>10. ASSUME NEW e, NEW r, NEW t, NEW g, NEW spec, DeclareReview(e, r, t, g, spec)
       PROVE  Goal
  <2>1. UNCHANGED <<epoch, targets, critics, workers>>
    BY <1>10 DEF DeclareReview, registry
  <2>2. ReviewsGrow
    BY <1>10, DeclareReviewStays
  <2> QED BY <1>2, <2>1, <2>2 DEF FiniteMaps
<1>11. ASSUME Written
       PROVE  Goal
  <2>1. UNCHANGED <<epoch, targets, critics, workers>>
    BY <1>11 DEF Written, registry
  <2> QED BY <1>2, <1>11, <2>1, WrittenStays DEF FiniteMaps
<1>12. Goal
  <2> HIDE DEF Goal
  <2> QED
    BY <1>3, <1>4, <1>5, <1>6, <1>7, <1>8, <1>9, <1>10, <1>11, CallSteps
<1> QED
  BY <1>12 DEF FiniteMaps, WorkersGrow, ReviewsGrow

-----------------------------------------------------------------------------
(* A call keeps the invariant.                                             *)

LEMMA CallIsNext ==
    ASSUME TypeOK, RegistryInv, Control \/ Incarnation \/ Output
    PROVE  TypeOK' /\ RegistryInv' /\ RewritesAll
<1>1. [Next]_vars
  BY DEF Next
<1> QED
  BY <1>1, TypeStep, RegistryInvStep, StepRewrites

LEMMA BootOrdersAreNumbers ==
    ASSUME NEW ws, IsMap(ws, Workers, Worker)
    PROVE  \A w \in DOMAIN ws : ws[w].bootOrder \in Nat
  BY BoundsAssumption DEF IsMap, Worker, BootOrders

\* What a call writes down is outstanding, and in order.
LEMMA OutstandingAfter ==
    ASSUME TypeOK, RegistryInv, RegistryInv', Behind, UNCHANGED durable, WorkersGrow,
           StoreOK(durable)
    PROVE  Before \subseteq Outstanding' /\ After \subseteq Outstanding'
<1>1. \A w \in DOMAIN durable.workers :
          w \in DOMAIN workers /\ durable.workers[w].bootOrder <= workers[w].bootOrder
  BY DEF Behind
<1>2. \A w \in DOMAIN workers :
          w \in DOMAIN workers' /\ workers[w].bootOrder <= workers'[w].bootOrder
  BY DEF WorkersGrow
<1>3. /\ \A w \in DOMAIN workers : workers[w].bootOrder \in Nat
      /\ \A w \in DOMAIN workers' : workers'[w].bootOrder \in Nat
  BY BootOrdersAreNumbers DEF RegistryInv, RegistryTypeOK
<1>4. Overdue' = {x \in Registration :
        /\ x.id \in DOMAIN workers'
        /\ x.value.bootOrder <= workers'[x.id].bootOrder
        /\ x.id \in DOMAIN durable.workers
              => durable.workers[x.id].bootOrder <= x.value.bootOrder}
  BY DEF Overdue
<1>5. Ordered(workers) \subseteq Overdue'
  BY <1>1, <1>2, <1>3, <1>4 DEF Ordered
<1>6. Ordered(workers') \subseteq Overdue'
  <2>1. ASSUME NEW x \in Ordered(workers')
        PROVE  x \in Overdue'
    <3>1. x \in Registration /\ x.id \in DOMAIN workers'
          /\ x.value.bootOrder = workers'[x.id].bootOrder
      BY DEF Ordered
    <3>2. x.id \in DOMAIN durable.workers =>
            durable.workers[x.id].bootOrder <= workers'[x.id].bootOrder
      <4>1. ASSUME x.id \in DOMAIN durable.workers
            PROVE  durable.workers[x.id].bootOrder <= workers'[x.id].bootOrder
        <5>1. durable.workers[x.id].bootOrder \in Nat
          BY <4>1, BootOrdersAreNumbers DEF StoreOK
        <5> QED BY <1>1, <1>2, <1>3, <4>1, <5>1
      <4> QED BY <4>1
    <3> QED BY <1>3, <1>4, <3>1, <3>2
  <2> QED BY <2>1
<1>7. Outstanding' = Plain \cup Overdue' \cup Decided(reviews', DOMAIN durable.targets)
  BY DEF Outstanding
<1> QED
  BY <1>5, <1>6, <1>7 DEF Before, After

LEMMA CallInOrder ==
    ASSUME RegistryInv, RegistryInv', WorkersGrow, NEW pre \in Seq(Before), NEW post \in Seq(After)
    PROVE  InOrder(pre \o post)
<1> DEFINE s == pre \o post
           WR(x) == x.type = "WorkerRegistered"
<1>1. /\ \A w \in DOMAIN workers : workers[w].bootOrder \in Nat
      /\ \A w \in DOMAIN workers' : workers'[w].bootOrder \in Nat
      /\ \A w \in DOMAIN workers : workers[w].bootOrder <= workers'[w].bootOrder
  BY BootOrdersAreNumbers DEF RegistryInv, RegistryTypeOK, WorkersGrow
<1>2. \A x \in Before : WR(x) =>
         x.id \in DOMAIN workers /\ x.value.bootOrder = workers[x.id].bootOrder
  BY DEF Before, Plain, Amendment, About, Ordered
<1>3. \A x \in After : WR(x) =>
         x.id \in DOMAIN workers' /\ x.value.bootOrder = workers'[x.id].bootOrder
  BY DEF After, Plain, Amendment, About, Ordered, Decided, Declaration, Ruling
<1>4. /\ Len(pre) \in Nat /\ Len(post) \in Nat /\ Len(s) = Len(pre) + Len(post)
      /\ \A i \in 1 .. Len(s) : IF i <= Len(pre) THEN s[i] \in Before ELSE s[i] \in After
  <2> HIDE DEF Before, After
  <2> QED OBVIOUS
<1> HIDE DEF s
<1>5. ASSUME NEW i \in 1 .. Len(s), NEW j \in 1 .. Len(s), i <= j, WR(s[i]), WR(s[j]),
             s[i].id = s[j].id
      PROVE  s[i].value.bootOrder <= s[j].value.bootOrder
  <2>1. CASE j <= Len(pre)
    <3>1. s[i] \in Before /\ s[j] \in Before
      BY <1>4, <1>5, <2>1
    <3> QED BY <1>1, <1>2, <1>5, <3>1
  <2>2. CASE i <= Len(pre) /\ ~(j <= Len(pre))
    <3>1. s[i] \in Before /\ s[j] \in After
      BY <1>4, <1>5, <2>2
    <3> QED BY <1>1, <1>2, <1>3, <1>5, <3>1
  <2>3. CASE ~(i <= Len(pre))
    <3>1. s[i] \in After /\ s[j] \in After
      BY <1>4, <1>5, <2>3
    <3> QED BY <1>1, <1>3, <1>5, <3>1
  <2> QED BY <1>4, <2>1, <2>2, <2>3
<1> QED
  BY <1>5 DEF InOrder, s

\* A call leaves nothing in the journal that the memory does not hold.
LEMMA CallLeavesBehind ==
    ASSUME TypeOK, RegistryInv, FiniteMaps, OpenIsOfTheDay, StoreOK(durable), Behind,
           Control \/ Incarnation \/ Output
    PROVE  /\ \A w \in DOMAIN durable.workers :
                 w \in DOMAIN workers' /\ durable.workers[w].bootOrder <= workers'[w].bootOrder
           /\ \A r \in DOMAIN durable.reviews :
                 /\ r \in DOMAIN reviews'
                 /\ durable.reviews[r].decision \in {NoDecision, reviews'[r].decision}
<1>1. TypeOK /\ RegistryInv /\ StoreOK(durable) /\ Behind
  OBVIOUS
<1>2. TypeOK' /\ RegistryInv' /\ RewritesAll
  BY CallIsNext
<1>3. WorkersGrow
  BY CallGrows
<1>4. ASSUME NEW w \in DOMAIN durable.workers
      PROVE  w \in DOMAIN workers' /\ durable.workers[w].bootOrder <= workers'[w].bootOrder
  <2>1. w \in DOMAIN workers /\ durable.workers[w].bootOrder <= workers[w].bootOrder
    BY <1>1 DEF Behind
  <2>2. w \in DOMAIN workers' /\ workers[w].bootOrder <= workers'[w].bootOrder
    BY <1>3, <2>1 DEF WorkersGrow
  <2>3. /\ durable.workers[w].bootOrder \in Nat /\ workers[w].bootOrder \in Nat
        /\ workers'[w].bootOrder \in Nat
    BY <1>1, <1>2, <2>1, <2>2, BootOrdersAreNumbers DEF StoreOK, RegistryInv, RegistryTypeOK
  <2> QED BY <2>1, <2>2, <2>3
<1>5. ASSUME NEW r \in DOMAIN durable.reviews
      PROVE  /\ r \in DOMAIN reviews'
             /\ durable.reviews[r].decision \in {NoDecision, reviews'[r].decision}
  <2>1. r \in DOMAIN reviews /\ durable.reviews[r].decision \in {NoDecision, reviews[r].decision}
    BY <1>1 DEF Behind
  <2>2. r \in DOMAIN reviews' /\ Rewrites(reviews[r], reviews'[r])
    BY <1>2, <2>1 DEF RewritesAll
  <2>3. reviews[r].decision \in {NoDecision, reviews'[r].decision}
    BY <2>2 DEF Rewrites, Undecided, Decides
  <2> QED BY <2>1, <2>2, <2>3
<1> QED
  BY <1>4, <1>5

\* What holds of a call and of a fence that comes after a failure.
LEMMA WritingKeeps ==
    ASSUME DurableInv, serving = "up", pending = <<>>, Control \/ Incarnation \/ Output,
           pending' = CallEntries, UNCHANGED <<durable, serving, failed, served>>,
           failed => DOMAIN reviews' = DOMAIN reviews
    PROVE  DurableInv'
<1>1. TypeOK /\ RegistryInv /\ FiniteMaps /\ OpenIsOfTheDay /\ StoreOK(durable) /\ Behind
  BY DEF DurableInv
<1>2. TypeOK' /\ RegistryInv' /\ RewritesAll
  BY <1>1, CallIsNext
<1>3. /\ epoch' = epoch /\ DOMAIN targets \subseteq DOMAIN targets'
      /\ WorkersGrow /\ ReviewsGrow /\ FiniteMaps'
  BY <1>1, CallGrows
<1>4. durable.epoch = epoch
  BY DEF DurableInv, ServingInv, Up
<1>5. ~failed => DOMAIN targets \subseteq DOMAIN durable.targets
  <2>1. serving # "stopped" /\ 1 .. Len(pending) = {}
    OBVIOUS
  <2> QED BY <1>1, <2>1 DEF Behind
<1>6. \A r \in DOMAIN reviews' \ DOMAIN reviews : reviews'[r].target \in DOMAIN durable.targets
  BY <1>3, <1>5 DEF ReviewsGrow
<1>7. PICK pre \in Seq(Before), post \in Seq(After) :
        /\ CallEntries = pre \o post
        /\ \A t \in DOMAIN targets' \ DOMAIN targets : \E i \in 1 .. Len(pre) :
              pre[i].type = "TargetRegistered" /\ pre[i].id = t
  BY <1>1, <1>2, <1>3, <1>6, CallListed DEF ReviewsGrow
<1>8. Behind'
  <2>1. \A w \in DOMAIN durable.workers :
          w \in DOMAIN workers' /\ durable.workers[w].bootOrder <= workers'[w].bootOrder
    BY <1>1, CallLeavesBehind
  <2>2. \A r \in DOMAIN durable.reviews :
          /\ r \in DOMAIN reviews'
          /\ durable.reviews[r].decision \in {NoDecision, reviews'[r].decision}
    BY <1>1, CallLeavesBehind
  <2>3. ASSUME ~failed, NEW t \in DOMAIN targets'
        PROVE  t \in DOMAIN durable.targets \/
               \E i \in 1 .. Len(pre \o post) :
                  (pre \o post)[i].type = "TargetRegistered" /\ (pre \o post)[i].id = t
    <3>1. CASE t \in DOMAIN targets
      BY <1>5, <2>3, <3>1
    <3>2. CASE t \notin DOMAIN targets
      <4>1. PICK i \in 1 .. Len(pre) : pre[i].type = "TargetRegistered" /\ pre[i].id = t
        BY <1>7, <3>2
      <4>2. pre \in Seq(Before \cup After) /\ post \in Seq(Before \cup After)
        BY SeqMonotonic
      <4>3. i \in 1 .. Len(pre \o post) /\ (pre \o post)[i] = pre[i]
        BY <4>2, PrefixStays
      <4> QED BY <4>1, <4>3
    <3> QED BY <3>1, <3>2
  <2>4. UNCHANGED <<durable, failed>> /\ pending' = pre \o post
    BY <1>7
  <2>5. ~failed' => \A t \in DOMAIN targets' :
          t \in DOMAIN durable'.targets \/
          \E i \in 1 .. Len(pending') :
             pending'[i].type = "TargetRegistered" /\ pending'[i].id = t
    BY <2>3, <2>4
  <2>6. UNCHANGED durable
    BY <2>4
  <2> QED BY ONLY <2>1, <2>2, <2>5, <2>6 DEF Behind
<1>9. ServingInv'
  <2>1. pre \o post \in Seq(Outstanding')
    <3>1. Before \subseteq Outstanding' /\ After \subseteq Outstanding'
      BY <1>1, <1>2, <1>3, OutstandingAfter
    <3>2. pre \in Seq(Outstanding') /\ post \in Seq(Outstanding')
      BY <3>1, SeqMonotonic
    <3> QED BY <3>2, ConcatProperties
  <2>2. InOrder(pre \o post)
    BY <1>1, <1>2, <1>3, CallInOrder
  <2>3. UNCHANGED <<durable, serving, served>> /\ pending' = pre \o post
    BY <1>7
  <2>4. Up'
    BY <1>3, <1>4, <2>1, <2>2, <2>3 DEF Up, InOrder
  <2> QED BY <2>3, <2>4 DEF ServingInv, DurableInv
<1>10. StoreOK(durable)' /\ NewestIn(durable)'
  BY DEF DurableInv
<1> QED
  BY <1>2, <1>3, <1>8, <1>9, <1>10 DEF DurableInv, ReviewsGrow

-----------------------------------------------------------------------------
(* An append keeps the invariant.                                          *)

LEMMA OutstandingKinds ==
    ASSUME NEW x \in Outstanding \cup Establishment
    PROVE  /\ x \in Entries
           /\ x.type = "EpochEstablished" => x \in Establishment
           /\ x.type = "WorkerRegistered" => x \in Overdue
           /\ x.type \in {"ReviewDeclared", "DecisionCommitted"} =>
                 x \in Decided(reviews, DOMAIN durable.targets)
<1>1. CASE x \in Establishment
  BY <1>1 DEF Establishment, Entries
<1>2. CASE x \in Plain
  <2>1. x.type \notin {"EpochEstablished", "WorkerRegistered", "ReviewDeclared", "DecisionCommitted"}
    BY <1>2 DEF Plain, Amendment, About
  <2> QED BY <1>2, <2>1 DEF Entries
<1>3. CASE x \in Overdue
  <2>1. x.type = "WorkerRegistered" /\ x \in Registration
    BY <1>3 DEF Overdue, Registration
  <2> QED BY <1>3, <2>1 DEF Entries
<1>4. CASE x \in Decided(reviews, DOMAIN durable.targets)
  <2>1. x.type \in {"ReviewDeclared", "DecisionCommitted"} /\ x \in Declaration \cup Ruling
    BY <1>4 DEF Decided, Declaration, Ruling, About
  <2> QED BY <1>4, <2>1 DEF Entries
<1> QED
  BY <1>1, <1>2, <1>3, <1>4 DEF Outstanding

\* The journal with one more entry.
Behindhand(new) ==
    /\ \A w \in DOMAIN new.workers :
          w \in DOMAIN workers /\ new.workers[w].bootOrder <= workers[w].bootOrder
    /\ \A r \in DOMAIN new.reviews :
          r \in DOMAIN reviews /\ new.reviews[r].decision \in {NoDecision, reviews[r].decision}

LEMMA OutstandingApplied ==
    ASSUME StoreOK(durable), NewestIn(durable), Behind, NEW x \in Outstanding \cup Establishment,
           NEW new, new = Applied(durable, x)
    PROVE  /\ StoreOK(new) /\ NewestIn(new) /\ Behindhand(new)
           /\ new.epoch = IF x.type = "EpochEstablished" THEN x.value ELSE durable.epoch
           /\ DOMAIN durable.targets \subseteq DOMAIN new.targets
           /\ x.type = "TargetRegistered" => x.id \in DOMAIN new.targets
           /\ \A w \in DOMAIN new.workers :
                 \/ x.type = "WorkerRegistered" /\ x.id = w /\ new.workers[w] = x.value
                 \/ w \in DOMAIN durable.workers /\ new.workers[w] = durable.workers[w]
           /\ \A r \in DOMAIN durable.reviews : durable.reviews[r].decision # NoDecision =>
                 r \in DOMAIN new.reviews /\ new.reviews[r].decision = durable.reviews[r].decision
<1>1. /\ x \in Entries
      /\ x.type = "WorkerRegistered" => x \in Overdue
      /\ x.type \in {"ReviewDeclared", "DecisionCommitted"} =>
            x \in Decided(reviews, DOMAIN durable.targets)
  BY OutstandingKinds
<1>2. /\ x.type = "WorkerRegistered" /\ x.id \in DOMAIN durable.workers
            => durable.workers[x.id].bootOrder <= x.value.bootOrder
      /\ x.type = "ReviewDeclared"
            => x.value.target \in DOMAIN durable.targets /\ FiniteRecords(x.value)
  BY <1>1 DEF Overdue, Decided, Ruling, About
<1>3. StoreOK(new) /\ NewestIn(new)
  BY <1>1, <1>2, AppliedOK
<1>4. /\ new.epoch = IF x.type = "EpochEstablished" THEN x.value ELSE durable.epoch
      /\ new.targets = IF x.type = "TargetRegistered" THEN Put(durable.targets, x.id, x.value)
                       ELSE durable.targets
      /\ new.workers = IF x.type = "WorkerRegistered" THEN Put(durable.workers, x.id, x.value)
                       ELSE durable.workers
  BY AppliedFields DEF StoreOK
<1>5. /\ DOMAIN durable.targets \subseteq DOMAIN new.targets
      /\ x.type = "TargetRegistered" => x.id \in DOMAIN new.targets
  BY <1>4 DEF Put
<1>6. ASSUME NEW w \in DOMAIN new.workers
      PROVE  \/ x.type = "WorkerRegistered" /\ x.id = w /\ new.workers[w] = x.value
             \/ w \in DOMAIN durable.workers /\ new.workers[w] = durable.workers[w]
  BY <1>4 DEF Put
<1>7. \A w \in DOMAIN new.workers :
        w \in DOMAIN workers /\ new.workers[w].bootOrder <= workers[w].bootOrder
  BY <1>1, <1>6 DEF Overdue, Behind
<1>8. /\ DOMAIN new.reviews = IF x.type = "ReviewDeclared" THEN DOMAIN durable.reviews \cup {x.id}
                               ELSE DOMAIN durable.reviews
      /\ \A r \in DOMAIN new.reviews :
            new.reviews[r].decision =
               IF x.type = "ReviewDeclared" /\ x.id = r THEN x.value.decision
               ELSE IF x.type = "DecisionCommitted" /\ x.id = r THEN x.value
               ELSE durable.reviews[r].decision
  BY <1>1, AppliedDecisions
<1>9. /\ x.type = "ReviewDeclared" =>
            x.id \in DOMAIN reviews /\ x.value.decision = reviews[x.id].decision
      /\ x.type = "DecisionCommitted" =>
            x.id \in DOMAIN reviews /\ x.value = reviews[x.id].decision
  BY <1>1 DEF Decided, Declaration, Ruling, About
<1>10. \A r \in DOMAIN durable.reviews :
         r \in DOMAIN reviews /\ durable.reviews[r].decision \in {NoDecision, reviews[r].decision}
  BY DEF Behind
<1>11. ASSUME NEW r \in DOMAIN new.reviews
       PROVE  r \in DOMAIN reviews /\ new.reviews[r].decision \in {NoDecision, reviews[r].decision}
  BY <1>8, <1>9, <1>10
<1>12. ASSUME NEW r \in DOMAIN durable.reviews, durable.reviews[r].decision # NoDecision
       PROVE  r \in DOMAIN new.reviews /\ new.reviews[r].decision = durable.reviews[r].decision
  BY <1>8, <1>9, <1>10, <1>12
<1> QED
  BY <1>3, <1>4, <1>5, <1>6, <1>7, <1>11, <1>12 DEF Behindhand

LEMMA OneBefore ==
    ASSUME NEW S, NEW e, NEW rest \in Seq(S)
    PROVE  LET s == <<e>> \o rest IN
           /\ s \in Seq(S \cup {e})
           /\ s # <<>>
           /\ Head(s) = e
           /\ Tail(s) = rest
<1>1. rest \in Seq(S \cup {e}) /\ <<e>> \in Seq(S \cup {e})
  BY SeqMonotonic
<1>2. <<e>> \o rest \in Seq(S \cup {e})
  BY <1>1, ConcatProperties
<1>3. /\ Len(<<e>> \o rest) = Len(rest) + 1
      /\ (<<e>> \o rest)[1] = e
      /\ \A i \in 1 .. Len(rest) : (<<e>> \o rest)[i + 1] = rest[i]
  BY <1>1
<1>4. Tail(<<e>> \o rest) = rest
  OBVIOUS
<1> QED
  BY <1>2, <1>3, <1>4

LEMMA PendingKinds ==
    ASSUME DurableInv
    PROVE  pending \in Seq(Outstanding \cup Establishment)
<1>1. Amendment \subseteq Outstanding
  BY DEF Outstanding, Plain
<1>2. CASE Up
  <2>1. pending \in Seq(Outstanding)
    BY <1>2 DEF Up
  <2> QED BY <2>1, SeqMonotonic
<1>3. CASE pending \in Seq(Amendment)
  BY <1>1, <1>3, SeqMonotonic
<1>4. CASE \E rest \in Seq(Amendment) :
             pending = <<Entry("EpochEstablished", NoId, epoch)>> \o rest
  <2> DEFINE e == Entry("EpochEstablished", NoId, epoch)
  <2>1. e \in Establishment
    BY DEF Establishment, Entry, DurableInv, TypeOK, RegistryTypeOK, Epochs
  <2>2. Amendment \cup {e} \subseteq Outstanding \cup Establishment
    BY <1>1, <2>1
  <2> HIDE DEF e
  <2>3. pending \in Seq(Amendment \cup {e})
    BY <1>4, OneBefore DEF e
  <2> QED BY <2>2, <2>3, SeqMonotonic
<1>5. CASE pending = <<>>
  BY <1>5, EmptySeq
<1> QED
  BY <1>2, <1>3, <1>4, <1>5 DEF DurableInv, ServingInv, Starting, Stopped

\* What stop has closed is not written to any more.
LEMMA WritingIsOpen ==
    ASSUME DurableInv, pending # <<>>
    PROVE  serving \in {"starting", "up"}
  BY DEF DurableInv, ServingInv, Stopped

\* The journal after an entry has reached it, whether the call goes on or not.
LEMMA JournalKeeps ==
    ASSUME DurableInv, pending # <<>>, durable' = Applied(durable, Head(pending)),
           UNCHANGED vars,
           \/ pending' = Tail(pending) /\ UNCHANGED failed
           \/ failed'
    PROVE  StoreOK(durable') /\ NewestIn(durable') /\ Behind'
<1> DEFINE x == Head(pending)
<1>1. pending \in Seq(Outstanding \cup Establishment)
  BY PendingKinds
<1> HIDE DEF x
<1>2. x \in Outstanding \cup Establishment
  BY <1>1, HeadTailProperties DEF x
<1>3. /\ StoreOK(durable') /\ NewestIn(durable') /\ Behindhand(durable')
      /\ DOMAIN durable.targets \subseteq DOMAIN durable'.targets
      /\ x.type = "TargetRegistered" => x.id \in DOMAIN durable'.targets
  BY <1>2, OutstandingApplied DEF x, DurableInv
<1>4. ASSUME ~failed', NEW t \in DOMAIN targets', t \notin DOMAIN durable'.targets
      PROVE  \E i \in 1 .. Len(pending') : pending'[i].type = "TargetRegistered" /\ pending'[i].id = t
  <2>1. /\ ~failed /\ pending' = Tail(pending)
        /\ t \in DOMAIN targets /\ t \notin DOMAIN durable.targets
    BY <1>3, <1>4 DEF vars
  <2>2. PICK i \in 1 .. Len(pending) : pending[i].type = "TargetRegistered" /\ pending[i].id = t
    BY <2>1, WritingIsOpen DEF DurableInv, Behind
  <2>3. pending[1] = x
    BY <1>1 DEF x
  <2>4. i # 1
    BY <1>3, <1>4, <2>2, <2>3
  <2>5. i - 1 \in 1 .. Len(Tail(pending)) /\ Tail(pending)[i - 1] = pending[i]
    BY <1>1, <2>4
  <2> QED BY <2>1, <2>2, <2>5
<1>5. UNCHANGED <<workers, reviews, targets>>
  BY DEF vars
<1> QED
  BY <1>3, <1>4, <1>5 DEF Behind, Behindhand

\* What is outstanding stays so, in the same order, when its first entry is read.
LEMMA TailOutstanding ==
    ASSUME DurableInv, Up, pending # <<>>, durable' = Applied(durable, Head(pending)),
           UNCHANGED vars
    PROVE  /\ durable'.epoch = durable.epoch
           /\ Tail(pending) \in Seq(Outstanding')
           /\ InOrder(Tail(pending))
<1> DEFINE x == Head(pending)
           rest == Tail(pending)
<1>1. /\ pending \in Seq(Outstanding)
      /\ x \in Outstanding /\ pending[1] = x
      /\ rest \in Seq(Outstanding) /\ Len(pending) = Len(rest) + 1
      /\ \A i \in 1 .. Len(rest) : i + 1 \in 1 .. Len(pending) /\ rest[i] = pending[i + 1]
  <2>1. pending \in Seq(Outstanding)
    BY DEF Up
  <2> HIDE DEF Outstanding
  <2> QED BY <2>1
<1> HIDE DEF x, rest
<1>2. /\ DOMAIN durable.targets \subseteq DOMAIN durable'.targets
      /\ durable'.epoch = IF x.type = "EpochEstablished" THEN x.value ELSE durable.epoch
      /\ \A w \in DOMAIN durable'.workers :
            \/ x.type = "WorkerRegistered" /\ x.id = w /\ durable'.workers[w] = x.value
            \/ w \in DOMAIN durable.workers /\ durable'.workers[w] = durable.workers[w]
  BY <1>1, OutstandingApplied DEF x, DurableInv
<1>3. x.type # "EpochEstablished"
  BY <1>1 DEF Outstanding, Plain, Amendment, About, Overdue, Registration, Decided, Declaration,
              Ruling
<1>4. UNCHANGED <<workers, reviews>>
  BY DEF vars
<1>5. ASSUME NEW i \in 1 .. Len(rest)
      PROVE  rest[i] \in Outstanding'
  <2> DEFINE y == rest[i]
  <2>1. y \in Outstanding
    BY <1>1
  <2>2. CASE y \in Plain
    BY <2>2 DEF Outstanding
  <2>3. CASE y \in Decided(reviews, DOMAIN durable.targets)
    <3>1. y \in Decided(reviews, DOMAIN durable'.targets)
      BY <1>2, <2>3 DEF Decided
    <3> QED BY <1>4, <3>1 DEF Outstanding
  <2>4. CASE y \in Overdue
    <3>1. /\ y.type = "WorkerRegistered" /\ y.id \in DOMAIN workers
          /\ y.value.bootOrder <= workers[y.id].bootOrder
          /\ y \in Registration
          /\ y.id \in DOMAIN durable.workers => durable.workers[y.id].bootOrder <= y.value.bootOrder
      BY <2>4 DEF Overdue, Registration
    <3>2. x.type = "WorkerRegistered" /\ x.id = y.id => x.value.bootOrder <= y.value.bootOrder
      <4>1. InOrder(pending) /\ 1 \in 1 .. Len(pending) /\ i + 1 \in 1 .. Len(pending)
            /\ 1 <= i + 1 /\ pending[1] = x /\ pending[i + 1] = y
        BY <1>1 DEF Up
      <4> HIDE DEF y
      <4> QED BY <3>1, <4>1 DEF InOrder
    <3> HIDE DEF y
    <3>3. y.id \in DOMAIN durable'.workers => durable'.workers[y.id].bootOrder <= y.value.bootOrder
      BY <1>2, <3>1, <3>2
    <3>4. y \in Overdue'
      BY <1>4, <3>1, <3>3 DEF Overdue
    <3> QED BY <3>4 DEF Outstanding, y
  <2> QED BY <2>1, <2>2, <2>3, <2>4 DEF Outstanding
<1>6. rest \in Seq(Outstanding')
  <2> HIDE DEF Outstanding
  <2>1. rest = [i \in 1 .. Len(rest) |-> rest[i]] /\ Len(rest) \in Nat
    BY <1>1
  <2>2. rest \in [1 .. Len(rest) -> Outstanding']
    BY ONLY <1>5, <2>1
  <2> QED BY ONLY <2>1, <2>2
<1>7. InOrder(rest)
  <2>1. InOrder(pending)
    BY DEF Up
  <2>2. ASSUME NEW i \in 1 .. Len(rest), NEW j \in 1 .. Len(rest), i <= j
        PROVE  /\ i + 1 \in 1 .. Len(pending) /\ j + 1 \in 1 .. Len(pending) /\ i + 1 <= j + 1
               /\ rest[i] = pending[i + 1] /\ rest[j] = pending[j + 1]
    BY <1>1, <2>2
  <2> QED BY <2>1, <2>2 DEF InOrder
<1> QED
  BY <1>2, <1>3, <1>6, <1>7 DEF rest

LEMMA EpochIsPositive ==
    ASSUME TypeOK
    PROVE  epoch \in Nat /\ epoch >= 1
  BY BoundsAssumption DEF TypeOK, RegistryTypeOK, Epochs

LEMMA MemoryKept ==
    ASSUME TypeOK, RegistryInv, FiniteMaps, OpenIsOfTheDay, UNCHANGED vars
    PROVE  TypeOK' /\ RegistryInv' /\ FiniteMaps' /\ OpenIsOfTheDay'
<1>1. TypeOK' /\ RegistryInv'
  BY TypeStep, RegistryInvStep
<1>2. FiniteMaps' /\ OpenIsOfTheDay'
  BY DEF FiniteMaps, OpenIsOfTheDay, TargetCurrent, vars
<1> QED
  BY <1>1, <1>2

LEMMA AppendEntryKeeps ==
    ASSUME DurableInv, AppendEntry
    PROVE  DurableInv'
<1>1. /\ pending # <<>> /\ durable' = Applied(durable, Head(pending))
      /\ pending' = Tail(pending)
      /\ serving' = (IF pending' = <<>> THEN "up" ELSE serving)
      /\ served' = (IF pending' = <<>> THEN served \cup {epoch} ELSE served)
      /\ UNCHANGED <<vars, failed>>
  BY DEF AppendEntry
<1>2. /\ TypeOK' /\ RegistryInv' /\ FiniteMaps' /\ OpenIsOfTheDay'
      /\ epoch' = epoch /\ epoch \in Nat /\ epoch >= 1
  BY <1>1, MemoryKept, EpochIsPositive DEF DurableInv, vars
<1>3. StoreOK(durable') /\ NewestIn(durable') /\ Behind'
  BY <1>1, JournalKeeps
<1>4. served \subseteq 1 .. durable.epoch /\ StoreOK(durable)
  BY DEF DurableInv, ServingInv
<1>5. CASE serving = "up"
  <2>1. Up
    BY <1>5 DEF DurableInv, ServingInv
  <2>2. /\ durable'.epoch = durable.epoch
        /\ Tail(pending) \in Seq(Outstanding')
        /\ InOrder(Tail(pending))
    BY <1>1, <2>1, TailOutstanding
  <2>3. Up'
    BY <1>1, <1>2, <2>1, <2>2 DEF Up, InOrder
  <2>4. served' \subseteq 1 .. durable'.epoch
    BY <1>1, <1>2, <1>4, <2>1, <2>2 DEF Up
  <2>5. ServingInv'
    BY <1>1, <1>5, <2>3, <2>4 DEF ServingInv
  <2> QED BY <1>2, <1>3, <2>5 DEF DurableInv
<1>6. CASE serving = "starting"
  <2>1. Starting
    BY <1>6 DEF DurableInv, ServingInv
  <2>2. /\ Tail(pending) \in Seq(Amendment)
        /\ durable'.epoch = epoch
    <3> DEFINE x == Head(pending)
    <3>1. x \in Outstanding \cup Establishment
      BY <1>1, PendingKinds, HeadTailProperties
    <3>2. durable'.epoch = IF x.type = "EpochEstablished" THEN x.value ELSE durable.epoch
      BY <1>1, <3>1, OutstandingApplied DEF DurableInv
    <3>3. CASE durable.epoch = epoch /\ pending \in Seq(Amendment)
      <4>1. x \in Amendment /\ Tail(pending) \in Seq(Amendment)
        BY <1>1, <3>3, HeadTailProperties
      <4>2. x.type # "EpochEstablished"
        BY <4>1 DEF Amendment, About
      <4> QED BY <3>2, <3>3, <4>1, <4>2
    <3>4. CASE \E rest \in Seq(Amendment) :
                 pending = <<Entry("EpochEstablished", NoId, epoch)>> \o rest
      <4>1. x = Entry("EpochEstablished", NoId, epoch) /\ Tail(pending) \in Seq(Amendment)
        BY <3>4, OneBefore
      <4> QED BY <3>2, <4>1 DEF Entry
    <3> QED BY <2>1, <3>3, <3>4 DEF Starting
  <2>3. served' \subseteq 1 .. durable'.epoch
    <3>1. durable.epoch \in Nat /\ durable.epoch <= epoch
      BY <1>2, <1>4, <2>1 DEF Starting, StoreOK
    <3> QED BY <1>1, <1>2, <1>4, <2>2, <3>1
  <2>4. CASE pending' = <<>>
    <3>1. Up'
      BY <1>2, <2>2, <2>4 DEF Up, InOrder
    <3> QED BY <1>1, <1>2, <1>3, <2>3, <2>4, <3>1 DEF ServingInv, DurableInv
  <2>5. CASE pending' # <<>>
    <3>1. Starting'
      BY <1>1, <1>2, <2>1, <2>2, <2>5 DEF Starting
    <3> QED BY <1>1, <1>2, <1>3, <1>6, <2>3, <2>5, <3>1 DEF ServingInv, DurableInv
  <2> QED BY <2>4, <2>5
<1> QED
  BY <1>1, <1>5, <1>6, WritingIsOpen

LEMMA AppendFailsKeeps ==
    ASSUME DurableInv, AppendFails
    PROVE  DurableInv'
<1>1. /\ pending # <<>> /\ serving = "up" /\ failed' = TRUE /\ pending' = <<>>
      /\ UNCHANGED <<vars, serving, served>>
  BY DEF AppendFails
<1>2. /\ TypeOK' /\ RegistryInv' /\ FiniteMaps' /\ OpenIsOfTheDay' /\ epoch' = epoch
  BY <1>1, MemoryKept DEF DurableInv, vars
<1>3. Up
  BY <1>1 DEF DurableInv, ServingInv
<1>4. /\ StoreOK(durable') /\ NewestIn(durable') /\ Behind'
      /\ durable'.epoch = durable.epoch
  <2>1. CASE durable' = durable
    <3>1. UNCHANGED <<workers, reviews>>
      BY <1>1 DEF vars
    <3>2. Behind'
      BY <1>1, <2>1, <3>1 DEF DurableInv, Behind
    <3> QED BY <2>1, <3>2 DEF DurableInv
  <2>2. CASE durable' = Applied(durable, Head(pending))
    BY <1>1, <1>3, <2>2, JournalKeeps, TailOutstanding
  <2> QED BY <2>1, <2>2 DEF AppendFails
<1>5. Up'
  BY <1>1, <1>2, <1>3, <1>4 DEF Up, InOrder
<1>6. ServingInv'
  BY <1>1, <1>4, <1>5 DEF DurableInv, ServingInv
<1> QED
  BY <1>2, <1>4, <1>6 DEF DurableInv

-----------------------------------------------------------------------------
(* A restart establishes the invariant anew, wherever the process died.    *)

\* The number of the next incarnation lies beyond those the journal holds, and
\* is not beyond a bound these keep to.
LEMMA NextBootOrderIsNext ==
    ASSUME NEW ws, NEW n \in Nat, n >= 1,
           \A w \in DOMAIN ws : ws[w].bootOrder \in Nat /\ ws[w].bootOrder < n
    PROVE  /\ NextBootOrder(ws) \in 1 .. n
           /\ \A w \in DOMAIN ws : ws[w].bootOrder < NextBootOrder(ws)
<1>1. CASE DOMAIN ws = {}
  BY <1>1 DEF NextBootOrder
<1>2. CASE DOMAIN ws # {}
  <2> DEFINE S == BootOrdersOf(ws)
             Above == {m \in 0 .. n : \A x \in S : x <= m}
  <2>1. S # {} /\ \A x \in S : x \in Nat /\ x < n
    BY <1>2 DEF BootOrdersOf
  <2>2. PICK m \in Above : \A k \in Above : m <= k
    <3>1. n \in Above /\ Above \in SUBSET Nat
      BY <2>1
    <3> HIDE DEF Above
    <3> QED BY <3>1, LeastNatural
  <2>3. m \in S
    <3>1. ASSUME m \notin S PROVE FALSE
      <4>1. PICK x \in S : TRUE
        BY <2>1
      <4>2. \A y \in S : y \in Nat /\ y < m
        BY <2>1, <2>2, <3>1
      <4>3. m - 1 \in Above
        BY <2>2, <4>1, <4>2
      <4> QED BY <2>2, <4>3
    <3> QED BY <3>1
  <2>4. Max(S) \in S /\ \A y \in S : Max(S) >= y
    <3>1. \A y \in S : m >= y
      BY <2>1, <2>2
    <3> HIDE DEF S
    <3> QED BY <2>3, <3>1 DEF Max
  <2>5. NextBootOrder(ws) = 1 + Max(S)
    BY <1>2 DEF NextBootOrder
  <2> HIDE DEF Above
  <2>6. \A w \in DOMAIN ws : ws[w].bootOrder \in S
    BY DEF BootOrdersOf
  <2> HIDE DEF S
  <2> QED BY <2>1, <2>4, <2>5, <2>6
<1> QED
  BY <1>1, <1>2

LEMMA ClearedWorkers ==
    ASSUME NEW ws, IsMap(ws, Workers, Worker)
    PROVE  /\ IsMap(Cleared(ws), Workers, Worker)
           /\ DOMAIN Cleared(ws) = DOMAIN ws
           /\ \A w \in DOMAIN ws :
                 /\ ~Cleared(ws)[w].ready
                 /\ Cleared(ws)[w].bootOrder = ws[w].bootOrder
                 /\ Cleared(ws)[w].critic = ws[w].critic
                 /\ Cleared(ws)[w].boot = ws[w].boot
<1>1. DOMAIN Cleared(ws) = DOMAIN ws
  BY DEF Cleared
<1>2. ASSUME NEW w \in DOMAIN ws
      PROVE  /\ Cleared(ws)[w] \in Worker
             /\ ~Cleared(ws)[w].ready
             /\ Cleared(ws)[w].bootOrder = ws[w].bootOrder
             /\ Cleared(ws)[w].critic = ws[w].critic
             /\ Cleared(ws)[w].boot = ws[w].boot
  <2>1. ws[w] \in Worker
    BY DEF IsMap
  <2>2. Cleared(ws)[w] = [ws[w] EXCEPT !.ready = FALSE, !.healthy = FALSE]
    BY DEF Cleared
  <2> QED BY <2>1, <2>2 DEF Worker
<1>3. Cleared(ws) = [w \in DOMAIN Cleared(ws) |-> Cleared(ws)[w]]
  BY DEF Cleared
<1> QED
  BY <1>1, <1>2, <1>3 DEF IsMap

\* What start appends after its epoch is about the reviews that were open.
LEMMA RecoveredState ==
    ASSUME StoreOK(durable), NEW r \in DOMAIN durable.reviews
    PROVE  StateEntry(r, Recovered(durable.reviews[r])) \in Amendment
<1>1. r \in Requests /\ durable.reviews[r] \in Review /\ FiniteRecords(durable.reviews[r])
  BY DEF StoreOK, IsMap
<1> DEFINE rev == Recovered(durable.reviews[r])
<1>2. rev \in Review
  BY <1>1, RevalidateKeeps DEF Kept, Recovered
<1> HIDE DEF rev
<1>3. [state |-> rev.state, disposition |-> rev.disposition,
       authorityCurrent |-> rev.authorityCurrent, roundsUsed |-> rev.roundsUsed] \in StateRecord
  BY <1>2 DEF Review, StateRecord
<1>4. StateEntry(r, rev) \in Amendment
  BY <1>1, <1>3 DEF StateEntry, Entry, Amendment, About
<1> QED
  BY <1>4 DEF rev

LEMMA RecoveryListed ==
    ASSUME NEW E, StoreOK(durable),
           \A r \in DOMAIN durable.reviews : durable.reviews[r].state \notin TerminalStates =>
              StateEntry(r, Recovered(durable.reviews[r])) \in E
    PROVE  \E rest \in Seq(E) :
              RecoveryEntries(durable.reviews) =
                 <<Entry("EpochEstablished", NoId, durable.epoch + 1)>> \o rest
<1> DEFINE revs == durable.reviews
           open == {r \in DOMAIN revs : revs[r].state \notin TerminalStates}
           states == [r \in open |-> StateEntry(r, Recovered(revs[r]))]
<1>1. IsFiniteSet(open)
  <2>1. open \subseteq DOMAIN revs /\ IsFiniteSet(DOMAIN revs)
    BY DEF StoreOK
  <2> QED BY <2>1, FS_Subset
<1>2. Each(states) \in Seq(E)
  <2>1. states = [r \in DOMAIN states |-> states[r]] /\ DOMAIN states = open
        /\ \A r \in DOMAIN states : states[r] \in E
    OBVIOUS
  <2> HIDE DEF states, open
  <2> QED BY <1>1, <2>1, EachListed
<1>3. RecoveryEntries(revs) =
        <<Entry("EpochEstablished", NoId, durable.epoch + 1)>> \o Each(states)
  BY DEF RecoveryEntries
<1> QED
  BY <1>2, <1>3

LEMMA RebootKeeps ==
    ASSUME DurableInv, Reboot
    PROVE  DurableInv'
<1>1. /\ durable.epoch < MaxEpoch
      /\ epoch' = durable.epoch + 1
      /\ targets' = durable.targets /\ critics' = durable.critics
      /\ workers' = Cleared(durable.workers) /\ incumbents' = durable.incumbents
      /\ nextBootOrder' = NextBootOrder(durable.workers)
      /\ reviews' = [r \in DOMAIN durable.reviews |-> Recovered(durable.reviews[r])]
      /\ pending' = RecoveryEntries(durable.reviews)
      /\ serving' = "starting" /\ failed' = FALSE
      /\ UNCHANGED <<durable, served>>
  BY DEF Reboot
<1>2. StoreOK(durable) /\ NewestIn(durable) /\ Behind /\ TypeOK /\ RegistryInv
      /\ served \subseteq 1 .. durable.epoch /\ durable.epoch \in Nat
  BY DEF DurableInv, ServingInv, StoreOK
<1>3. /\ IsMap(workers', Workers, Worker) /\ DOMAIN workers' = DOMAIN durable.workers
      /\ \A w \in DOMAIN durable.workers :
            /\ ~workers'[w].ready
            /\ workers'[w].bootOrder = durable.workers[w].bootOrder
            /\ workers'[w].critic = durable.workers[w].critic
  BY <1>1, <1>2, ClearedWorkers DEF StoreOK
<1>4. /\ nextBootOrder' \in BootOrders
      /\ \A w \in DOMAIN durable.workers : durable.workers[w].bootOrder < nextBootOrder'
  <2>1. nextBootOrder \in Nat /\ nextBootOrder >= 1 /\ nextBootOrder <= MaxBootOrder
        /\ MaxBootOrder \in Nat
    BY <1>2, BoundsAssumption DEF RegistryInv, RegistryTypeOK, BootOrders
  <2>2. ASSUME NEW w \in DOMAIN durable.workers
        PROVE  durable.workers[w].bootOrder \in Nat /\ durable.workers[w].bootOrder < nextBootOrder
    <3>1. durable.workers[w].bootOrder \in Nat
      BY <1>2, BootOrdersAreNumbers DEF StoreOK
    <3>2. w \in DOMAIN workers /\ durable.workers[w].bootOrder <= workers[w].bootOrder
      BY <1>2 DEF Behind
    <3>3. workers[w].bootOrder \in Nat /\ workers[w].bootOrder < nextBootOrder
      BY <1>2, <3>2, RegistryLookups DEF RegistryInv, BootOrdersPast
    <3> QED BY <2>1, <3>1, <3>2, <3>3
  <2>3. /\ NextBootOrder(durable.workers) \in 1 .. nextBootOrder
        /\ \A w \in DOMAIN durable.workers :
              durable.workers[w].bootOrder < NextBootOrder(durable.workers)
    BY <2>1, <2>2, NextBootOrderIsNext
  <2> QED BY <1>1, <2>1, <2>3 DEF BootOrders
<1>5. RegistryInv'
  <2>1. RegistryTypeOK'
    <3>1. epoch' \in Epochs
      BY <1>1, <1>2, BoundsAssumption DEF Epochs
    <3> QED BY <1>1, <1>2, <1>3, <1>4, <3>1 DEF RegistryTypeOK, StoreOK
  <2>2. OneVoicePerCritic'
    BY <1>3 DEF OneVoicePerCritic, Authoritative
  <2>3. IncumbentIsNewest'
    <3>1. ASSUME NEW w \in DOMAIN workers'
          PROVE  /\ workers'[w].critic \in DOMAIN incumbents'
                 /\ workers'[w].bootOrder <= workers'[incumbents'[workers'[w].critic]].bootOrder
      <4> DEFINE c == durable.workers[w].critic
                 h == durable.incumbents[c]
      <4>1. c \in DOMAIN durable.incumbents
            /\ durable.workers[w].bootOrder <= durable.workers[h].bootOrder
        BY <1>2, <1>3, <3>1 DEF NewestIn
      <4>2. h \in DOMAIN durable.workers
        BY <1>2, <4>1 DEF StoreOK, IsMap
      <4>3. workers'[w].critic = c /\ incumbents'[c] = h
            /\ workers'[h].bootOrder = durable.workers[h].bootOrder
            /\ workers'[w].bootOrder = durable.workers[w].bootOrder
        BY <1>1, <1>3, <3>1, <4>2
      <4> HIDE DEF c, h
      <4> QED BY <1>1, <4>1, <4>3
    <3> QED BY <3>1 DEF IncumbentIsNewest
  <2>4. BootOrdersPast'
    BY <1>3, <1>4 DEF BootOrdersPast
  <2> QED BY <2>1, <2>2, <2>3, <2>4 DEF RegistryInv
<1>6. ASSUME NEW r \in DOMAIN durable.reviews
      PROVE  /\ reviews'[r] \in Review /\ FiniteRecords(reviews'[r])
             /\ reviews'[r].target \in DOMAIN targets'
             /\ reviews'[r].decision = durable.reviews[r].decision
             /\ reviews'[r].state \in TerminalStates \cup {"RevalidationRequired"}
  <2>1. durable.reviews[r] \in Review /\ FiniteRecords(durable.reviews[r])
        /\ durable.reviews[r].target \in DOMAIN durable.targets
    BY <1>2 DEF StoreOK, IsMap
  <2> DEFINE rev == durable.reviews[r]
  <2>2. reviews'[r] = Revalidate(rev)
    BY <1>1 DEF Recovered
  <2> HIDE DEF rev
  <2>3. Revalidate(rev).decision = rev.decision
        /\ Revalidate(rev).state \in TerminalStates \cup {"RevalidationRequired"}
    BY <2>1 DEF Revalidate, Review, rev
  <2> QED BY <1>1, <2>1, <2>2, <2>3, RevalidateKeeps DEF Kept, rev
<1>7. TypeOK'
  <2>1. reviews' = [r \in DOMAIN reviews' |-> reviews'[r]] /\ DOMAIN reviews' = DOMAIN durable.reviews
    BY <1>1
  <2>2. DOMAIN durable.reviews \subseteq Requests
    BY <1>2 DEF StoreOK, IsMap
  <2>3. ReviewsTypeOK'
    BY <1>6, <2>1, <2>2 DEF ReviewsTypeOK, IsMap
  <2> QED BY <1>5, <2>3 DEF TypeOK, RegistryInv
<1>8. FiniteMaps' /\ OpenIsOfTheDay'
  <2>1. DOMAIN reviews' = DOMAIN durable.reviews
    BY <1>1
  <2> QED BY <1>1, <1>2, <1>3, <1>6, <2>1 DEF FiniteMaps, OpenIsOfTheDay, StoreOK
<1>9. Behind'
  <2>1. \A w \in DOMAIN durable.workers : durable.workers[w].bootOrder \in Nat
    BY <1>2, BootOrdersAreNumbers DEF StoreOK
  <2>2. \A w \in DOMAIN durable'.workers :
          w \in DOMAIN workers' /\ durable'.workers[w].bootOrder <= workers'[w].bootOrder
    BY <1>1, <1>3, <2>1
  <2>3. \A r \in DOMAIN durable'.reviews :
          /\ r \in DOMAIN reviews'
          /\ durable'.reviews[r].decision \in {NoDecision, reviews'[r].decision}
    <3>1. durable' = durable /\ DOMAIN reviews' = DOMAIN durable.reviews
      BY <1>1
    <3> QED BY <1>6, <3>1
  <2>4. DOMAIN targets' \subseteq DOMAIN durable'.targets
    BY <1>1
  <2> QED BY <2>2, <2>3, <2>4 DEF Behind
<1>10. ServingInv'
  <2>1. PICK rest \in Seq(Amendment) :
          pending' = <<Entry("EpochEstablished", NoId, durable.epoch + 1)>> \o rest
    BY <1>1, <1>2, RecoveredState, RecoveryListed
  <2>2. pending' # <<>>
    BY <2>1, OneBefore
  <2>3. \A e \in served' : e < epoch'
    BY <1>1, <1>2
  <2>4. Starting'
    BY <1>1, <2>1, <2>2, <2>3 DEF Starting
  <2> QED BY <1>1, <1>2, <2>4 DEF ServingInv
<1> QED
  BY <1>1, <1>2, <1>5, <1>7, <1>8, <1>9, <1>10 DEF DurableInv

-----------------------------------------------------------------------------
(* So does stop, and a call that it has overtaken.                         *)

LEMMA StopKeeps ==
    ASSUME DurableInv, Stop
    PROVE  DurableInv'
<1>1. /\ serving = "up" /\ pending = <<>> /\ serving' = "stopped"
      /\ UNCHANGED <<vars, durable, pending, failed, served>>
  BY DEF Stop
<1>2. TypeOK' /\ RegistryInv' /\ FiniteMaps' /\ OpenIsOfTheDay'
  BY <1>1, MemoryKept DEF DurableInv
<1>3. UNCHANGED <<epoch, workers, reviews, durable, pending, served>>
  BY <1>1 DEF vars
<1>4. Behind'
  BY <1>1, <1>3 DEF DurableInv, Behind
<1>5. ServingInv'
  BY <1>1, <1>3 DEF DurableInv, ServingInv, Up, Stopped
<1> QED
  BY <1>2, <1>3, <1>4, <1>5 DEF DurableInv

LEMMA OvertakenCalls ==
    ASSUME OvertakenCall
    PROVE  Control \/ Incarnation \/ Output
  BY DEF OvertakenCall, Incarnation

LEMMA OvertakenCallKeeps ==
    ASSUME DurableInv, OvertakenCall
    PROVE  DurableInv'
<1>1. /\ serving = "stopped" /\ UNCHANGED <<durable, pending, serving, served>>
      /\ Control \/ Incarnation \/ Output
  BY OvertakenCalls DEF OvertakenCall
<1>2. TypeOK /\ RegistryInv /\ FiniteMaps /\ OpenIsOfTheDay /\ StoreOK(durable) /\ Behind
  BY DEF DurableInv
<1>3. TypeOK' /\ RegistryInv'
  BY <1>1, <1>2, CallIsNext
<1>4. epoch' = epoch /\ ReviewsGrow /\ FiniteMaps'
  BY <1>1, <1>2, CallGrows
<1>5. Behind'
  <2>1. /\ \A w \in DOMAIN durable.workers :
              w \in DOMAIN workers' /\ durable.workers[w].bootOrder <= workers'[w].bootOrder
        /\ \A r \in DOMAIN durable.reviews :
              /\ r \in DOMAIN reviews'
              /\ durable.reviews[r].decision \in {NoDecision, reviews'[r].decision}
    BY <1>1, <1>2, CallLeavesBehind
  <2> QED BY <1>1, <2>1 DEF Behind
<1>6. ServingInv'
  BY <1>1, <1>4 DEF DurableInv, ServingInv, Stopped
<1> QED
  BY <1>1, <1>3, <1>4, <1>5, <1>6 DEF DurableInv, ReviewsGrow

-----------------------------------------------------------------------------
(* What the entries of a call say of how reviews are closed.               *)

\* Entries that do not say that review r is in another state than rev.
Faithful(r, rev) ==
    {x \in Entries :
        x.id = r /\ x.type \in {"ReviewDeclared", "ReviewStateChanged"} =>
            /\ x.type = "ReviewStateChanged"
            /\ x.value.state = rev.state
            /\ x.value.disposition = rev.disposition}

\* Those that say that review r is in the state of rev.
Stating(r, rev) == {x \in Faithful(r, rev) : x.id = r /\ x.type = "ReviewStateChanged"}

\* Lists whose last word about review r is the state of rev.
Corrected(r, rev) ==
    {s \in Seq(Entries) :
        \A i \in 1 .. Len(s) : s[i] \in Faithful(r, rev)
                               \/ \E j \in i .. Len(s) : s[j] \in Stating(r, rev)}

LEMMA FaithfulIsCorrected ==
    ASSUME NEW r, NEW rev
    PROVE  Seq(Faithful(r, rev)) \subseteq Corrected(r, rev)
<1>1. Faithful(r, rev) \subseteq Entries
  BY DEF Faithful
<1> HIDE DEF Faithful
<1>2. ASSUME NEW s \in Seq(Faithful(r, rev))
      PROVE  s \in Seq(Entries) /\ \A i \in 1 .. Len(s) : s[i] \in Faithful(r, rev)
  BY <1>1, SeqMonotonic, ElementOfSeq
<1> QED
  BY <1>2 DEF Corrected

LEMMA CorrectedJoins ==
    ASSUME NEW r, NEW rev, NEW s \in Corrected(r, rev), NEW t \in Corrected(r, rev)
    PROVE  s \o t \in Corrected(r, rev)
<1>1. s \in Seq(Entries) /\ t \in Seq(Entries)
  BY DEF Corrected
<1>2. /\ s \o t \in Seq(Entries) /\ Len(s) \in Nat /\ Len(t) \in Nat
      /\ Len(s \o t) = Len(s) + Len(t)
      /\ \A i \in 1 .. Len(s) : (s \o t)[i] = s[i]
      /\ \A i \in 1 .. Len(t) : (s \o t)[Len(s) + i] = t[i]
  BY <1>1
<1>3. ASSUME NEW i \in 1 .. Len(s \o t)
      PROVE  \/ (s \o t)[i] \in Faithful(r, rev)
             \/ \E j \in i .. Len(s \o t) : (s \o t)[j] \in Stating(r, rev)
  <2>1. CASE i <= Len(s)
    <3>1. i \in 1 .. Len(s)
      BY <1>2, <2>1
    <3>2. s[i] \in Faithful(r, rev) \/ \E j \in i .. Len(s) : s[j] \in Stating(r, rev)
      BY <3>1 DEF Corrected
    <3>3. \A j \in i .. Len(s) : j \in 1 .. Len(s) /\ j \in i .. Len(s \o t)
      BY <1>2, <3>1
    <3> QED BY <1>2, <3>1, <3>2, <3>3
  <2>2. CASE ~(i <= Len(s))
    <3> DEFINE k == i - Len(s)
    <3>1. k \in 1 .. Len(t) /\ i = Len(s) + k
      BY <1>2, <2>2
    <3> HIDE DEF k
    <3>2. t[k] \in Faithful(r, rev) \/ \E j \in k .. Len(t) : t[j] \in Stating(r, rev)
      BY <3>1 DEF Corrected
    <3>3. \A j \in k .. Len(t) : j \in 1 .. Len(t) /\ Len(s) + j \in i .. Len(s \o t)
      BY <1>2, <3>1
    <3> QED BY <1>2, <3>1, <3>2, <3>3
  <2> QED BY <2>1, <2>2
<1> QED
  BY <1>2, <1>3 DEF Corrected

\* A list that ends with the state of rev is right about it.
LEMMA LastWord ==
    ASSUME NEW r, NEW rev, NEW body \in Seq(Entries), NEW x \in Stating(r, rev)
    PROVE  body \o <<x>> \in Corrected(r, rev)
<1>1. x \in Entries
  BY DEF Stating, Faithful
<1>2. /\ body \o <<x>> \in Seq(Entries) /\ Len(body) \in Nat
      /\ Len(body \o <<x>>) = Len(body) + 1
      /\ (body \o <<x>>)[Len(body) + 1] = x
  BY <1>1
<1> DEFINE s == body \o <<x>>
<1>3. s \in Seq(Entries) /\ Len(s) \in Nat /\ s[Len(s)] \in Stating(r, rev)
  BY <1>2
<1> HIDE DEF s
<1>4. \A i \in 1 .. Len(s) : Len(s) \in i .. Len(s)
  BY <1>3
<1>5. s \in Corrected(r, rev)
  BY <1>3, <1>4 DEF Corrected
<1> QED
  BY <1>5 DEF s

\* Entries of another type, or about another review, do not speak of the state.
LEMMA SilentIsFaithful ==
    ASSUME NEW r, NEW rev, NEW x \in Entries,
           x.id # r \/ x.type \notin {"ReviewDeclared", "ReviewStateChanged"}
    PROVE  x \in Faithful(r, rev)
  BY DEF Faithful

LEMMA EntriesOfCalls == Amendment \subseteq Entries /\ Before \subseteq Entries /\ After \subseteq Entries
  BY DEF Entries, Before, After, Plain, Ordered, Decided

\* What a call withdraws, and the states it passes through, are about the
\* review it names.
LEMMA WithdrawalFaithful ==
    ASSUME TypeOK, NEW q \in DOMAIN reviews, NEW r, NEW rev
    PROVE  /\ \A a \in reviews[q].assignments :
                 Entry("AssignmentUpdated", q, [a EXCEPT !.active = FALSE]) \in Faithful(r, rev)
           /\ \A f \in reviews[q].findings :
                 Entry("FindingStateChanged", q, [id |-> f.id, state |-> "Invalidated"])
                    \in Faithful(r, rev)
           /\ q # r => StateEntry(q, Revalidate(reviews[q])) \in Faithful(r, rev)
           /\ q # r => \A s \in ReviewStates, d \in Dispositions :
                          Passing(q, s, d) \in Faithful(r, rev)
<1>1. /\ \A type, v : Entry(type, q, v).id = q /\ Entry(type, q, v).type = type
      /\ \A v : StateEntry(q, v).id = q
      /\ \A s, d : Passing(q, s, d).id = q
  BY DEF Entry, StateEntry, Passing
<1> HIDE DEF Entry, StateEntry, Passing, Faithful, Amendment
<1> QED
  BY <1>1, EntriesOfCalls, SilentIsFaithful, WithdrawalEntries

\* What it records in a review is faithful to the state it leaves the review in.
LEMMA NewsFaithful ==
    ASSUME TypeOK', NEW q \in DOMAIN reviews', NEW r
    PROVE  LET F == Faithful(r, reviews'[r]) IN
           /\ \A S \in SUBSET reviews'[q].assignments : Entry("AssignmentsAdded", q, S) \in F
           /\ \A e \in reviews'[q].evidences : Entry("EvidenceRecorded", q, e) \in F
           /\ \A ch \in reviews'[q].challenges : Entry("ChallengeRecorded", q, ch) \in F
           /\ \A f \in reviews'[q].findings :
                 /\ Entry("FindingStateChanged", q, [id |-> f.id, state |-> f.state]) \in F
                 /\ Entry("FindingRecorded", q, f) \in F
           /\ Entry("DecisionCommitted", q, reviews'[q].decision) \in F
           /\ StateEntry(q, reviews'[q]) \in F
           /\ StateEntry(q, reviews'[q]) \in Stating(q, reviews'[q])
<1>1. /\ \A type, v : Entry(type, q, v).id = q /\ Entry(type, q, v).type = type
      /\ \A v : /\ StateEntry(q, v).id = q /\ StateEntry(q, v).type = "ReviewStateChanged"
                /\ StateEntry(q, v).value.state = v.state
                /\ StateEntry(q, v).value.disposition = v.disposition
  BY DEF Entry, StateEntry
<1>2. Ruling \subseteq Entries
  BY DEF Entries
<1> HIDE DEF Entry, StateEntry, Amendment, Ruling
<1>3. StateEntry(q, reviews'[q]) \in Entries
  BY EntriesOfCalls, ReviewNews
<1>4. StateEntry(q, reviews'[q]) \in Stating(q, reviews'[q])
  BY <1>1, <1>3 DEF Stating, Faithful
<1>5. StateEntry(q, reviews'[q]) \in Faithful(r, reviews'[r])
  BY <1>1, <1>3 DEF Faithful
<1> HIDE DEF Faithful
<1> QED
  BY <1>1, <1>2, <1>4, <1>5, EntriesOfCalls, SilentIsFaithful, ReviewNews

\* The blocks of a call are faithful to the state a review r is left in: what it
\* records of targets always, a fence if the review was closed before, and what
\* it records of critics and workers if there is no fence or the review was closed.
LEMMA TargetFaithful ==
    ASSUME TypeOK, TypeOK', FiniteMaps, FiniteMaps', DOMAIN reviews \subseteq DOMAIN reviews',
           NEW r \in DOMAIN reviews
    PROVE  LET F == Faithful(r, reviews'[r]) IN
           /\ TargetEntries \in Seq(F)
           /\ Changed(targets, targets') # {}
              /\ StateEntry(r, reviews'[r]) # StateEntry(r, reviews[r])
                 => TargetEntries \in Holding(F, {StateEntry(r, reviews'[r])})
<1> DEFINE F == Faithful(r, reviews'[r])
<1>1. ASSUME NEW t \in DOMAIN targets'
      PROVE  Entry("TargetRegistered", t, targets'[t]) \in F
  <2>1. t \in Targets /\ targets'[t] \in Target
    BY DEF TypeOK, RegistryTypeOK, IsMap
  <2>2. Entry("TargetRegistered", t, targets'[t]) \in Entries
    BY <2>1 DEF Entry, Entries, Plain
  <2> QED BY <2>2, SilentIsFaithful DEF Entry
<1>2. ASSUME NEW q \in DOMAIN reviews
      PROVE  /\ \A f \in reviews[q].findings :
                   Entry("FindingStateChanged", q, [id |-> f.id, state |-> "Invalidated"]) \in F
             /\ StateEntry(q, reviews'[q]) \in F
  BY WithdrawalFaithful, NewsFaithful
<1> HIDE DEF F, Entry, StateEntry
<1>3. IsFiniteSet(DOMAIN targets')
  BY DEF FiniteMaps
<1>4. /\ TargetEntries \in Seq(F)
      /\ Changed(targets, targets') # {} => \A q \in DOMAIN reviews :
            StateEntry(q, reviews'[q]) # StateEntry(q, reviews[q]) =>
               TargetEntries \in Holding(F, {StateEntry(q, reviews'[q])})
  BY <1>1, <1>2, <1>3, TargetListed
<1> QED
  BY <1>4 DEF F

LEMMA FenceFaithful ==
    ASSUME TypeOK, FiniteMaps, NEW w \in DOMAIN workers, NEW r \in DOMAIN reviews, NEW rev,
           reviews[r].state \in TerminalStates
    PROVE  FenceEntries(w) \in Seq(Faithful(r, rev))
<1>1. Entry("WorkerRegistered", w, Silenced({w})[w]) \in Faithful(r, rev)
  <2>1. Silenced({w})[w] \in Worker /\ w \in Workers
    BY SilencedWorkers DEF TypeOK, RegistryTypeOK, IsMap
  <2>2. Entry("WorkerRegistered", w, Silenced({w})[w]) \in Entries
    BY <2>1 DEF Entries, Registration, Entry
  <2> QED BY <2>2, SilentIsFaithful DEF Entry
<1>2. ASSUME NEW q \in DOMAIN reviews
      PROVE  /\ \A a \in GivenUp(q, w) :
                   Entry("AssignmentUpdated", q, [a EXCEPT !.active = FALSE]) \in Faithful(r, rev)
             /\ reviews[q].state \notin TerminalStates
                   => StateEntry(q, Revalidate(reviews[q])) \in Faithful(r, rev)
  <2>1. GivenUp(q, w) \subseteq reviews[q].assignments
    BY DEF GivenUp, Abandoned
  <2> QED BY <2>1, WithdrawalFaithful
<1> HIDE DEF Faithful, Entry, StateEntry, GivenUp
<1> QED
  BY <1>1, <1>2, FenceListed

LEMMA CriticFaithful ==
    ASSUME TypeOK, TypeOK', FiniteMaps, FiniteMaps', NEW r \in DOMAIN reviews, NEW rev,
           reviews[r].state \in TerminalStates \/ UNCHANGED critics
    PROVE  CriticEntries \in Seq(Faithful(r, rev))
<1>1. ASSUME NEW c \in DOMAIN critics'
      PROVE  Entry("CriticRegistered", c, critics'[c]) \in Faithful(r, rev)
  <2>1. c \in Critics /\ critics'[c] \in Critic
    BY DEF TypeOK, RegistryTypeOK, IsMap
  <2>2. Entry("CriticRegistered", c, critics'[c]) \in Entries
    BY <2>1 DEF Entry, Entries, Plain
  <2> QED BY <2>2, SilentIsFaithful DEF Entry
<1>2. ASSUME NEW c, NEW q \in DOMAIN reviews, reviews[r].state \in TerminalStates
      PROVE  /\ \A a \in ActiveOf(reviews[q], c) :
                   Entry("AssignmentUpdated", q, [a EXCEPT !.active = FALSE]) \in Faithful(r, rev)
             /\ reviews[q].state \notin TerminalStates
                   => StateEntry(q, Revalidate(reviews[q])) \in Faithful(r, rev)
  <2>1. ActiveOf(reviews[q], c) \subseteq reviews[q].assignments
    BY DEF ActiveOf
  <2> QED BY <1>2, <2>1, WithdrawalFaithful
<1>3. Changed(critics, critics') # {} => reviews[r].state \in TerminalStates
  BY DEF Changed
<1> HIDE DEF Faithful, Entry, StateEntry, ActiveOf
<1>4. Changed(critics, critics') # {} =>
        \A w \in DOMAIN workers : FenceEntries(w) \in Seq(Faithful(r, rev))
  BY <1>3, FenceFaithful
<1>5. \A c \in Changed(critics, critics'), q \in DOMAIN reviews :
         /\ \A a \in ActiveOf(reviews[q], c) :
               Entry("AssignmentUpdated", q, [a EXCEPT !.active = FALSE]) \in Faithful(r, rev)
         /\ ActiveOf(reviews[q], c) # {} /\ reviews[q].state \notin TerminalStates
               => StateEntry(q, Revalidate(reviews[q])) \in Faithful(r, rev)
  BY <1>2, <1>3
<1> QED
  BY <1>1, <1>4, <1>5, CriticListed DEF FiniteMaps

LEMMA WorkerFaithful ==
    ASSUME TypeOK, TypeOK', FiniteMaps, FiniteMaps', NEW r \in DOMAIN reviews, NEW rev,
           reviews[r].state \in TerminalStates \/ UNCHANGED workers
    PROVE  WorkerEntries \in Seq(Faithful(r, rev))
<1>1. ASSUME NEW w \in DOMAIN workers'
      PROVE  Entry("WorkerRegistered", w, workers'[w]) \in Faithful(r, rev)
  <2>1. w \in Workers /\ workers'[w] \in Worker
    BY DEF TypeOK, RegistryTypeOK, IsMap
  <2>2. Entry("WorkerRegistered", w, workers'[w]) \in Entries
    BY <2>1 DEF Entry, Entries, Registration
  <2> QED BY <2>2, SilentIsFaithful DEF Entry
<1>2. Changed(workers, workers') # {} => reviews[r].state \in TerminalStates
  BY DEF Changed
<1> HIDE DEF Faithful, Entry
<1>3. \A w \in DOMAIN workers \cap Changed(workers, workers') :
        FenceEntries(w) \in Seq(Faithful(r, rev))
  BY <1>2, FenceFaithful
<1>4. \E pre \in Seq(Faithful(r, rev)), post \in Seq(Faithful(r, rev)) : WorkerEntries = pre \o post
  BY <1>1, <1>3, WorkerListed DEF FiniteMaps
<1> QED
  BY <1>4, ConcatProperties

LEMMA DeclaredFaithful ==
    ASSUME TypeOK', FiniteMaps', NEW r \in DOMAIN reviews, NEW rev
    PROVE  /\ DeclaredEntries \in Seq(Faithful(r, rev))
           /\ \A q \in DOMAIN reviews' \ DOMAIN reviews :
                 DeclaredEntries \in
                    Holding(Faithful(r, rev), {Entry("ReviewDeclared", q, reviews'[q])})
<1>1. ASSUME NEW q \in DOMAIN reviews' \ DOMAIN reviews
      PROVE  Entry("ReviewDeclared", q, reviews'[q]) \in Faithful(r, rev)
  <2>1. q \in Requests /\ reviews'[q] \in Review
    BY DEF TypeOK, ReviewsTypeOK, IsMap
  <2>2. Entry("ReviewDeclared", q, reviews'[q]) \in Entries
    BY <2>1 DEF Entry, Entries, Declaration, About
  <2> QED BY <2>2, SilentIsFaithful DEF Entry
<1> HIDE DEF Faithful, Entry
<1> QED
  BY <1>1, DeclaredListed DEF FiniteMaps

\* What it records in another review, or in one it does not lead through other
\* states.
LEMMA ReviewFaithful ==
    ASSUME TypeOK, TypeOK', NEW r \in DOMAIN reviews, r \in DOMAIN reviews',
           NEW q \in DOMAIN reviews, q \in DOMAIN reviews', q # r \/ ~Travels(r)
    PROVE  ReviewEntries(q) \in Seq(Faithful(r, reviews'[r]))
<1> DEFINE F == Faithful(r, reviews'[r])
<1>1. /\ \A S \in SUBSET reviews'[q].assignments : Entry("AssignmentsAdded", q, S) \in F
      /\ \A e \in reviews'[q].evidences : Entry("EvidenceRecorded", q, e) \in F
      /\ \A ch \in reviews'[q].challenges : Entry("ChallengeRecorded", q, ch) \in F
      /\ \A f \in reviews'[q].findings :
            /\ Entry("FindingStateChanged", q, [id |-> f.id, state |-> f.state]) \in F
            /\ Entry("FindingRecorded", q, f) \in F
      /\ Entry("DecisionCommitted", q, reviews'[q].decision) \in F
      /\ StateEntry(q, reviews'[q]) \in F
  BY NewsFaithful
<1>2. Travels(q) => \A s \in ReviewStates, d \in Dispositions : Passing(q, s, d) \in F
  BY WithdrawalFaithful
<1> HIDE DEF F, Entry, StateEntry
<1>3. PICK body \in Seq(F) : ReviewEntries(q) = body \o StateNews(q)
  BY <1>1, <1>2, ReviewListed
<1>4. StateNews(q) \in Seq(F)
  BY <1>1 DEF StateNews
<1>5. ReviewEntries(q) \in Seq(F)
  BY <1>3, <1>4, ConcatProperties
<1> QED
  BY <1>5 DEF F

LEMMA HoldingWider ==
    ASSUME NEW E, NEW D, E \subseteq D, NEW M, NEW N, M \subseteq N
    PROVE  Holding(E, M) \subseteq Holding(D, N)
<1>1. Seq(E) \subseteq Seq(D)
  BY SeqMonotonic
<1> QED
  BY <1>1 DEF Holding

\* The blocks of a call.
OfWorkers == IF critics' = critics THEN WorkerEntries ELSE <<>>
OfReviews == Joined([r \in DOMAIN reviews |-> ReviewEntries(r)])
Recorded  == IF registry' # registry THEN <<>> ELSE DeclaredEntries \o OfReviews

LEMMA CallInBlocks == CallEntries = ((TargetEntries \o CriticEntries) \o OfWorkers) \o Recorded
  BY DEF CallEntries, OfWorkers, OfReviews, Recorded

\* All of them are lists of entries, which hold what is declared and decided.
LEMMA BlocksListed ==
    ASSUME TypeOK, TypeOK', FiniteMaps, FiniteMaps', DOMAIN reviews \subseteq DOMAIN reviews'
    PROVE  /\ TargetEntries \in Seq(Entries) /\ CriticEntries \in Seq(Entries)
           /\ OfWorkers \in Seq(Entries) /\ DeclaredEntries \in Seq(Entries)
           /\ OfReviews \in Seq(Entries)
           /\ \A q \in DOMAIN reviews' \ DOMAIN reviews :
                 DeclaredEntries \in Holding(Entries, {Entry("ReviewDeclared", q, reviews'[q])})
           /\ \A r \in DOMAIN reviews : reviews'[r].decision # reviews[r].decision =>
                 OfReviews \in
                    Holding(Entries, {Entry("DecisionCommitted", r, reviews'[r].decision)})
<1>1. TargetEntries \in Seq(Entries) /\ CriticEntries \in Seq(Entries)
  BY TargetBefore, CriticBefore, EntriesOfCalls, SeqMonotonic
<1>2. OfWorkers \in Seq(Entries)
  <2>1. ASSUME NEW w \in DOMAIN workers'
        PROVE  Entry("WorkerRegistered", w, workers'[w]) \in Entries
    <3>1. w \in Workers /\ workers'[w] \in Worker
      BY DEF TypeOK, RegistryTypeOK, IsMap
    <3> QED BY <3>1 DEF Entry, Entries, Registration
  <2>2. \A w \in DOMAIN workers : FenceEntries(w) \in Seq(Entries)
    BY FenceBefore, EntriesOfCalls, SeqMonotonic
  <2> HIDE DEF Entry, Entries
  <2>3. \E pre \in Seq(Entries), post \in Seq(Entries) : WorkerEntries = pre \o post
    BY <2>1, <2>2, WorkerListed DEF FiniteMaps
  <2> QED BY <2>3, ConcatProperties DEF OfWorkers
<1>3. /\ DeclaredEntries \in Seq(Entries)
      /\ \A q \in DOMAIN reviews' \ DOMAIN reviews :
            DeclaredEntries \in Holding(Entries, {Entry("ReviewDeclared", q, reviews'[q])})
  <2>1. ASSUME NEW q \in DOMAIN reviews' \ DOMAIN reviews
        PROVE  Entry("ReviewDeclared", q, reviews'[q]) \in Entries
    <3>1. q \in Requests /\ reviews'[q] \in Review
      BY DEF TypeOK, ReviewsTypeOK, IsMap
    <3> QED BY <3>1 DEF Entry, Entries, Declaration, About
  <2> HIDE DEF Entry, Entries
  <2> QED BY <2>1, DeclaredListed DEF FiniteMaps
<1> DEFINE lists == [r \in DOMAIN reviews |-> ReviewEntries(r)]
<1>4. /\ lists = [r \in DOMAIN lists |-> lists[r]] /\ DOMAIN lists = DOMAIN reviews
      /\ \A r \in DOMAIN reviews : lists[r] = ReviewEntries(r)
      /\ OfReviews = Joined(lists)
  BY DEF OfReviews
<1> HIDE DEF lists
<1>5. \A r \in DOMAIN lists : lists[r] \in Seq(Entries)
  BY <1>4, ReviewAfter, EntriesOfCalls, SeqMonotonic
<1>6. OfReviews \in Seq(Entries)
  BY <1>4, <1>5, JoinedEntries DEF FiniteMaps
<1>7. ASSUME NEW r \in DOMAIN reviews, reviews'[r].decision # reviews[r].decision
      PROVE  OfReviews \in
                Holding(Entries, {Entry("DecisionCommitted", r, reviews'[r].decision)})
  <2> DEFINE own == {Entry("DecisionCommitted", r, reviews'[r].decision)}
  <2>1. PICK body \in Seq(After) :
          ReviewEntries(r) = body \o StateNews(r) /\ body \in Holding(After, own)
    BY <1>7, ReviewTold
  <2>2. StateNews(r) \in Seq(After)
    BY ReviewTold
  <2> HIDE DEF own, After, Entries
  <2>3. ReviewEntries(r) \in Holding(After, own)
    BY <2>1, <2>2, HoldingJoins
  <2>4. ReviewEntries(r) \in Holding(Entries, own)
    BY <2>3, EntriesOfCalls, HoldingWider
  <2>5. OfReviews \in Holding(Entries, own)
    BY <1>4, <1>5, <2>4, JoinedHolding DEF FiniteMaps
  <2> QED BY <2>5 DEF own
<1> QED
  BY <1>1, <1>2, <1>3, <1>6, <1>7

\* A review that is declared, and a decision that is taken, are written down.
LEMMA NewsIsWritten ==
    ASSUME TypeOK, TypeOK', FiniteMaps, FiniteMaps', DOMAIN reviews \subseteq DOMAIN reviews',
           UNCHANGED registry
    PROVE  /\ \A q \in DOMAIN reviews' \ DOMAIN reviews :
                 CallEntries \in Holding(Entries, {Entry("ReviewDeclared", q, reviews'[q])})
           /\ \A r \in DOMAIN reviews : reviews'[r].decision # reviews[r].decision =>
                 CallEntries \in
                    Holding(Entries, {Entry("DecisionCommitted", r, reviews'[r].decision)})
<1> DEFINE first == (TargetEntries \o CriticEntries) \o OfWorkers
<1>1. first \in Seq(Entries)
  BY BlocksListed, ConcatProperties
<1>2. CallEntries = first \o (DeclaredEntries \o OfReviews)
  BY CallInBlocks DEF Recorded
<1> HIDE DEF first, Entries, Entry
<1>3. ASSUME NEW M, DeclaredEntries \in Holding(Entries, M) \/ OfReviews \in Holding(Entries, M)
      PROVE  CallEntries \in Holding(Entries, M)
  <2>1. DeclaredEntries \o OfReviews \in Seq(Entries)
    BY BlocksListed, ConcatProperties
  <2>2. DeclaredEntries \o OfReviews \in Holding(Entries, M)
    BY <1>3, BlocksListed, HoldingJoins
  <2> QED BY <1>1, <1>2, <2>1, <2>2, HoldingJoins
<1> QED
  BY <1>3, BlocksListed

\* A call says nothing else of a review that was closed before it.
LEMMA ClosedIsLeftAlone ==
    ASSUME TypeOK, TypeOK', FiniteMaps, FiniteMaps', DOMAIN reviews \subseteq DOMAIN reviews',
           NEW r \in DOMAIN reviews, reviews[r].state \in TerminalStates,
           Final(reviews[r], reviews'[r])
    PROVE  CallEntries \in Seq(Faithful(r, reviews'[r]))
<1> DEFINE F == Faithful(r, reviews'[r])
<1>1. TargetEntries \in Seq(F) /\ CriticEntries \in Seq(F)
  BY TargetFaithful, CriticFaithful
<1>2. OfWorkers \in Seq(F)
  <2>1. WorkerEntries \in Seq(F)
    BY WorkerFaithful
  <2> HIDE DEF F
  <2> QED BY <2>1 DEF OfWorkers
<1>3. ~Travels(r)
  BY DEF Travels, Final, TerminalStates
<1>4. OfReviews \in Seq(F)
  <2> DEFINE lists == [q \in DOMAIN reviews |-> ReviewEntries(q)]
  <2>1. /\ lists = [q \in DOMAIN lists |-> lists[q]] /\ DOMAIN lists = DOMAIN reviews
        /\ \A q \in DOMAIN lists : lists[q] \in Seq(F)
    BY <1>3, ReviewFaithful
  <2>2. OfReviews = Joined(lists)
    BY DEF OfReviews
  <2> HIDE DEF lists, F
  <2> QED BY <2>1, <2>2, JoinedEntries DEF FiniteMaps
<1>5. DeclaredEntries \in Seq(F)
  BY DeclaredFaithful
<1> HIDE DEF F
<1>6. Recorded \in Seq(F)
  BY <1>4, <1>5, ConcatProperties DEF Recorded
<1>7. CallEntries \in Seq(F)
  BY <1>1, <1>2, <1>6, CallInBlocks, ConcatProperties
<1> QED
  BY <1>7 DEF F

\* Of a review it closes, a call says so, and says nothing else after it.
LEMMA ClosingIsToldLast ==
    ASSUME TypeOK, TypeOK', FiniteMaps, FiniteMaps', DOMAIN reviews \subseteq DOMAIN reviews',
           NEW r \in DOMAIN reviews, reviews[r].state \notin TerminalStates,
           reviews'[r].state \in TerminalStates,
           UNCHANGED <<critics, workers>>,
           UNCHANGED registry \/ Changed(targets, targets') # {}
    PROVE  CallEntries \in Corrected(r, reviews'[r])
                              \cap Holding(Entries, Stating(r, reviews'[r]))
<1> DEFINE F == Faithful(r, reviews'[r])
           C == Corrected(r, reviews'[r])
           S == Stating(r, reviews'[r])
           x == StateEntry(r, reviews'[r])
<1>1. x # StateEntry(r, reviews[r]) /\ x \in S /\ F \subseteq Entries
  <2>1. \A rev : StateEntry(r, rev).value.state = rev.state
    BY DEF StateEntry, Entry
  <2> QED BY <2>1, NewsFaithful DEF Faithful
<1>2. /\ TargetEntries \in Seq(F) /\ CriticEntries \in Seq(F)
      /\ OfWorkers \in Seq(F) /\ DeclaredEntries \in Seq(F)
  BY TargetFaithful, CriticFaithful, WorkerFaithful, DeclaredFaithful DEF OfWorkers
<1>3. Seq(F) \subseteq C /\ C \subseteq Seq(Entries) /\ \A s, t \in C : s \o t \in C
  BY FaithfulIsCorrected, CorrectedJoins DEF Corrected
<1>4. OfReviews \in C /\ OfReviews \in Holding(Entries, S)
  <2>1. ReviewEntries(r) \in C /\ ReviewEntries(r) \in Holding(Entries, S)
    <3>1. PICK body \in Seq(After) : ReviewEntries(r) = body \o StateNews(r)
      BY ReviewTold
    <3>2. body \in Seq(Entries) /\ StateNews(r) = <<x>>
      BY <1>1, EntriesOfCalls, SeqMonotonic DEF StateNews
    <3>3. x \in Entries
      BY <1>1 DEF Stating, Faithful
    <3> HIDE DEF x, S, C, Entries
    <3>4. body \o <<x>> \in Holding(Entries, {x})
      BY <3>2, <3>3, HoldingLast
    <3>5. Holding(Entries, {x}) \subseteq Holding(Entries, S)
      BY <1>1, HoldingWider
    <3> QED BY <1>1, <3>1, <3>2, <3>4, <3>5, LastWord DEF C, S
  <2> DEFINE lists == [q \in DOMAIN reviews |-> ReviewEntries(q)]
  <2>2. /\ lists = [q \in DOMAIN lists |-> lists[q]] /\ DOMAIN lists = DOMAIN reviews
        /\ \A q \in DOMAIN reviews : lists[q] = ReviewEntries(q)
        /\ OfReviews = Joined(lists)
    BY DEF OfReviews
  <2> HIDE DEF lists
  <2>3. ASSUME NEW q \in DOMAIN lists
        PROVE  lists[q] \in C
    <3>1. q # r => ReviewEntries(q) \in Seq(F)
      BY <2>2, ReviewFaithful
    <3> HIDE DEF F, C
    <3> QED BY <1>3, <2>1, <2>2, <3>1
  <2> HIDE DEF C, S, Entries
  <2>4. <<>> \in C
    <3>1. <<>> \in Seq(F)
      <4> HIDE DEF F
      <4> QED OBVIOUS
    <3> HIDE DEF F
    <3> QED BY <1>3, <3>1
  <2>5. OfReviews \in C
    BY <1>3, <2>2, <2>3, <2>4, JoinedListed DEF FiniteMaps
  <2>6. \A q \in DOMAIN lists : lists[q] \in Seq(Entries)
    BY <1>3, <2>3
  <2>7. OfReviews \in Holding(Entries, S)
    BY <2>1, <2>2, <2>6, JoinedHolding DEF FiniteMaps
  <2> QED BY <2>5, <2>7
<1>5. CASE UNCHANGED registry
  <2>1. Recorded = DeclaredEntries \o OfReviews
    BY <1>5 DEF Recorded
  <2> HIDE DEF F, C, S, x, Entries
  <2>2. Recorded \in C /\ Recorded \in Holding(Entries, S)
    BY <1>2, <1>3, <1>4, <2>1, HoldingJoins
  <2> DEFINE first == (TargetEntries \o CriticEntries) \o OfWorkers
  <2>3. first \in Seq(F) /\ CallEntries = first \o Recorded
    BY <1>2, CallInBlocks, ConcatProperties
  <2> HIDE DEF first
  <2>4. CallEntries \in C /\ CallEntries \in Holding(Entries, S)
    BY <1>3, <2>2, <2>3, HoldingJoins
  <2> QED BY <2>4 DEF C, S
<1>6. CASE ~UNCHANGED registry
  <2>1. Recorded = <<>>
    BY <1>6 DEF Recorded
  <2>2. TargetEntries \in Holding(F, {x})
    BY <1>1, <1>6, TargetFaithful
  <2> HIDE DEF F, C, S, x, Entries
  <2>3. TargetEntries \in Holding(Entries, S)
    BY <1>1, <2>2, HoldingWider
  <2>4. Recorded \in Seq(F) /\ Recorded \in Seq(Entries) /\ TargetEntries \in Seq(Entries)
        /\ CriticEntries \in Seq(Entries) /\ OfWorkers \in Seq(Entries)
    BY <1>2, <1>3, <2>1
  <2>5. TargetEntries \o CriticEntries \in Holding(Entries, S)
        /\ TargetEntries \o CriticEntries \in Seq(Entries)
    BY <2>3, <2>4, HoldingJoins, ConcatProperties
  <2>6. (TargetEntries \o CriticEntries) \o OfWorkers \in Holding(Entries, S)
        /\ (TargetEntries \o CriticEntries) \o OfWorkers \in Seq(Entries)
    BY <2>4, <2>5, HoldingJoins, ConcatProperties
  <2>7. CallEntries \in Holding(Entries, S)
    BY <2>4, <2>6, CallInBlocks, HoldingJoins
  <2>8. CallEntries \in Seq(F)
    BY <1>2, <2>4, CallInBlocks, ConcatProperties
  <2> QED BY <1>3, <2>7, <2>8 DEF C, S
<1> QED
  BY <1>5, <1>6

-----------------------------------------------------------------------------
(* Replaying what is said of how a review is closed.                       *)

\* Only an entry about its state moves a review to another.
LEMMA AmendedState ==
    ASSUME NEW rev \in Review, NEW x \in Amendment \cup Ruling
    PROVE  LET new == Amended(rev, x) IN
           IF x.type = "ReviewStateChanged"
           THEN new.state = x.value.state /\ new.disposition = x.value.disposition
           ELSE new.state = rev.state /\ new.disposition = rev.disposition
<1>1. CASE x.type = "ReviewStateChanged"
  <2>1. Amended(rev, x) =
          [rev EXCEPT !.state = x.value.state, !.disposition = x.value.disposition,
                      !.authorityCurrent = x.value.authorityCurrent,
                      !.roundsUsed = x.value.roundsUsed]
    BY <1>1 DEF Amended
  <2> QED BY <1>1, <2>1 DEF Review
<1>2. CASE x.type = "AssignmentsAdded"
  <2>1. \E S : Amended(rev, x) = [rev EXCEPT !.assignments = S]
    BY <1>2 DEF Amended
  <2> QED BY <1>2, <2>1 DEF Review
<1>3. CASE x.type = "AssignmentUpdated"
  <2>1. \E S : Amended(rev, x) = [rev EXCEPT !.assignments = S]
    BY <1>3 DEF Amended
  <2> QED BY <1>3, <2>1 DEF Review
<1>4. CASE x.type \in {"FindingRecorded", "EvidenceRecorded"}
  <2>1. \E S, T : \/ Amended(rev, x) = [rev EXCEPT !.findings = S, !.evidences = T]
                  \/ Amended(rev, x) = [rev EXCEPT !.evidences = T, !.findings = S]
    BY <1>4 DEF Amended
  <2> QED BY <1>4, <2>1 DEF Review
<1>5. CASE x.type = "FindingStateChanged"
  <2>1. \E S : Amended(rev, x) = [rev EXCEPT !.findings = S]
    BY <1>5 DEF Amended
  <2> QED BY <1>5, <2>1 DEF Review
<1>6. CASE x.type = "ChallengeRecorded"
  <2>1. \E S : Amended(rev, x) = [rev EXCEPT !.challenges = S]
    BY <1>6 DEF Amended
  <2> QED BY <1>6, <2>1 DEF Review
<1>7. CASE x.type = "DecisionCommitted"
  <2>1. Amended(rev, x) = [rev EXCEPT !.decision = x.value]
    BY <1>7 DEF Amended
  <2> QED BY <1>7, <2>1 DEF Review
<1> QED
  BY <1>1, <1>2, <1>3, <1>4, <1>5, <1>6, <1>7 DEF Amendment, Ruling, About

LEMMA AppliedState ==
    ASSUME NEW store, StoreOK(store), NEW x \in Entries, NEW r \in DOMAIN store.reviews
    PROVE  LET new == Applied(store, x).reviews IN
           /\ r \in DOMAIN new
           /\ x.id = r /\ x.type = "ReviewStateChanged" =>
                 new[r].state = x.value.state /\ new[r].disposition = x.value.disposition
           /\ ~(x.id = r /\ x.type \in {"ReviewDeclared", "ReviewStateChanged"}) =>
                 new[r].state = store.reviews[r].state
                 /\ new[r].disposition = store.reviews[r].disposition
<1> DEFINE new == Applied(store, x).reviews
           old == store.reviews
<1>1. new = IF x.type = "ReviewDeclared" THEN Put(old, x.id, x.value)
            ELSE IF x.type \in Global \/ x.id \notin DOMAIN old THEN old
            ELSE [old EXCEPT ![x.id] = Amended(@, x)]
  BY AppliedFields DEF StoreOK
<1> HIDE DEF new
<1>2. CASE x.type = "ReviewDeclared"
  BY <1>1, <1>2 DEF Put, new
<1>3. CASE x.type # "ReviewDeclared" /\ (x.type \in Global \/ x.id \notin DOMAIN old)
  BY <1>1, <1>3 DEF Global, new
<1>4. CASE x.type \notin Global \cup {"ReviewDeclared"} /\ x.id \in DOMAIN old
  <2>1. x \in Amendment \cup Ruling
    BY <1>4 DEF Entries, Establishment, Plain, Registration, Declaration, Global, About
  <2>2. old[x.id] \in Review
    BY <1>4 DEF StoreOK, IsMap
  <2> DEFINE rev == Amended(old[x.id], x)
  <2>3. IF x.type = "ReviewStateChanged"
        THEN rev.state = x.value.state /\ rev.disposition = x.value.disposition
        ELSE rev.state = old[x.id].state /\ rev.disposition = old[x.id].disposition
    BY <2>1, <2>2, AmendedState
  <2>4. new = [old EXCEPT ![x.id] = rev]
    BY <1>1, <1>4 DEF Global
  <2> HIDE DEF rev, old
  <2>5. DOMAIN new = DOMAIN old /\ \A q \in DOMAIN old : new[q] = IF q = x.id THEN rev ELSE old[q]
    BY <1>4, <2>4
  <2> QED BY <1>4, <2>3, <2>5 DEF new, old
<1> QED
  BY <1>2, <1>3, <1>4 DEF new

-----------------------------------------------------------------------------
(* The invariant of what has been acknowledged.                            *)

\* An outcome a caller has been told is in the memory and in the journal, and
\* nothing that is outstanding says otherwise.
Acknowledged ==
    \A x \in closed :
        /\ x \in OutcomesOf(reviews)
        /\ x \in OutcomesOf(durable.reviews)
        /\ pending \in Seq(Faithful(x.review, x))

Mentions(type, r) == \E i \in 1 .. Len(pending) : pending[i].type = type /\ pending[i].id = r

\* What the memory holds of a review's outcome is in the journal, or on its way
\* there.
Carried(r) ==
    /\ \/ r \in DOMAIN durable.reviews
       \/ reviews[r].state \notin TerminalStates /\ Mentions("ReviewDeclared", r)
    /\ r \in DOMAIN durable.reviews =>
          \/ durable.reviews[r].decision = reviews[r].decision
          \/ Mentions("DecisionCommitted", r)
    /\ reviews[r].state \in TerminalStates =>
          /\ pending \in Corrected(r, reviews[r])
          /\ \/ /\ durable.reviews[r].state = reviews[r].state
                /\ durable.reviews[r].disposition = reviews[r].disposition
             \/ pending \in Holding(Entries, Stating(r, reviews[r]))

AllCarried == \A r \in DOMAIN reviews : Carried(r)

OutcomeInv == Acknowledged /\ (failed \/ serving = "stopped" \/ AllCarried)

-----------------------------------------------------------------------------
(* A call keeps the invariant of what has been acknowledged.               *)

LEMMA OutcomesNamed ==
    ASSUME NEW revs, NEW x \in OutcomesOf(revs)
    PROVE  /\ x.review \in DOMAIN revs
           /\ x.state = revs[x.review].state /\ x.state \in TerminalStates
           /\ x.disposition = revs[x.review].disposition
           /\ x.decision = revs[x.review].decision
  BY DEF OutcomesOf

LEMMA OutcomesStay ==
    ASSUME NEW revs, NEW x \in OutcomesOf(revs), NEW new, x.review \in DOMAIN new,
           new[x.review].state = revs[x.review].state,
           new[x.review].disposition = revs[x.review].disposition,
           new[x.review].decision = revs[x.review].decision
    PROVE  x \in OutcomesOf(new)
  BY DEF OutcomesOf

LEMMA FaithfulAlike ==
    ASSUME NEW r, NEW rev, NEW new, rev.state = new.state, rev.disposition = new.disposition
    PROVE  Faithful(r, rev) = Faithful(r, new)
  BY DEF Faithful

\* Taking seats away does not close a review.
LEMMA RetiringClosesNothing ==
    ASSUME NEW rev \in Review, NEW retired, rev.state \notin TerminalStates
    PROVE  Retire(rev, retired).state \notin TerminalStates
<1> DEFINE S == {IF a \in retired THEN [a EXCEPT !.active = FALSE] ELSE a : a \in rev.assignments}
           new == [rev EXCEPT !.assignments = S]
<1>1. Retire(rev, retired) = IF retired = {} THEN rev ELSE Revalidate(new)
  BY DEF Retire
<1> HIDE DEF S
<1>2. new.state = rev.state /\ new = [field \in DOMAIN new |-> new[field]]
      /\ "state" \in DOMAIN new
  BY DEF Review
<1> HIDE DEF new
<1>3. Revalidate(new).state = "RevalidationRequired"
  BY <1>2 DEF Revalidate
<1> QED
  BY <1>1, <1>3 DEF TerminalStates

\* Reviews are declared and decided by calls that leave the registry alone, and
\* closed by these or by the supersession of their target.
LEMMA ClosingCalls ==
    ASSUME TypeOK, RegistryInv, OpenIsOfTheDay, Control \/ Incarnation \/ Output
    PROVE  /\ DOMAIN reviews' # DOMAIN reviews => UNCHANGED registry
           /\ \A r \in DOMAIN reviews :
                 reviews'[r].decision # reviews[r].decision => UNCHANGED registry
           /\ \A r \in DOMAIN reviews :
                 reviews[r].state \notin TerminalStates /\ reviews'[r].state \in TerminalStates =>
                    /\ UNCHANGED <<critics, workers>>
                    /\ UNCHANGED registry \/ Changed(targets, targets') # {}
<1> DEFINE Closes == /\ UNCHANGED <<critics, workers>>
                     /\ UNCHANGED registry \/ Changed(targets, targets') # {}
           Some == \E r \in DOMAIN reviews : reviews[r].state \notin TerminalStates
                                             /\ reviews'[r].state \in TerminalStates
           Goal == /\ DOMAIN reviews' # DOMAIN reviews => UNCHANGED registry
                   /\ Some => Closes
<1>1. ASSUME NEW r \in DOMAIN reviews, reviews'[r].decision # reviews[r].decision
      PROVE  UNCHANGED registry
  <2>1. Rewrites(reviews[r], reviews'[r])
    BY CallIsNext DEF RewritesAll
  <2> QED BY <1>1, <2>1 DEF Rewrites, Undecided, Decides
<1>2. UNCHANGED registry => Goal
  BY DEF registry
<1>3. UNCHANGED reviews => Goal
  OBVIOUS
<1>4. ASSUME DOMAIN reviews' = DOMAIN reviews,
             \A r \in DOMAIN reviews : \E retired : reviews'[r] = Retire(reviews[r], retired)
      PROVE  Goal
  <2>1. \A r \in DOMAIN reviews :
          reviews[r].state \notin TerminalStates => reviews'[r].state \notin TerminalStates
    BY <1>4, RetiringClosesNothing, ReviewLookups
  <2> QED BY <1>4, <2>1
<1>5. ASSUME NEW e, NEW t, NEW content, AdvanceTarget(e, t, content)
      PROVE  Goal
  <2>1. /\ t \in DOMAIN targets
        /\ targets' = Put(targets, t, [generation |-> targets[t].generation + 1,
                                       content    |-> content])
        /\ DOMAIN reviews' = DOMAIN reviews
        /\ UNCHANGED <<critics, workers>>
    BY <1>5 DEF AdvanceTarget
  <2>2. targets[t].generation \in Nat
    <3>1. targets[t] \in Target
      BY <2>1 DEF TypeOK, RegistryTypeOK, IsMap
    <3> QED BY <3>1, BoundsAssumption DEF Target, TargetGenerations
  <2>3. t \in DOMAIN targets' /\ targets'[t].generation = targets[t].generation + 1
    BY <2>1 DEF Put
  <2>4. t \in Changed(targets, targets')
    BY <2>1, <2>2, <2>3 DEF Changed
  <2> QED BY <2>1, <2>4
<1> HIDE DEF Goal
<1>6. ASSUME NEW e, NEW t, NEW content, RegisterTarget(e, t, content)
      PROVE  Goal
  BY <1>3, <1>6 DEF RegisterTarget
<1>7. ASSUME NEW e, NEW c, NEW capability, RegisterCritic(e, c, capability)
      PROVE  Goal
  BY <1>3, <1>7 DEF RegisterCritic
<1>8. ASSUME NEW e, NEW c, NEW capability, NEW advance, AdvanceCritic(e, c, capability, advance)
      PROVE  Goal
  <2> DEFINE fenced == Fenceable(WorkersOf(c))
             seats(r) == Abandoned(reviews[r], fenced) \cup ActiveOf(reviews[r], c)
  <2>1. reviews' = [r \in DOMAIN reviews |-> Retire(reviews[r], seats(r))]
    BY <1>8 DEF AdvanceCritic
  <2>2. /\ DOMAIN reviews' = DOMAIN reviews
        /\ \A r \in DOMAIN reviews : \E retired : reviews'[r] = Retire(reviews[r], retired)
    <3> HIDE DEF seats
    <3> QED BY <2>1
  <2> QED BY <1>4, <2>2
<1>9. ASSUME NEW e, NEW w, NEW boot, NEW c, NEW g, RegisterWorker(e, w, boot, c, g)
      PROVE  Goal
  <2> DEFINE fenced == Fenceable({w} \cup {v \in WorkersOf(c) \ {w} : Authoritative(v)})
             seats(r) == Abandoned(reviews[r], fenced)
  <2>1. reviews' = [r \in DOMAIN reviews |-> Retire(reviews[r], seats(r))]
    BY <1>9 DEF RegisterWorker
  <2>2. /\ DOMAIN reviews' = DOMAIN reviews
        /\ \A r \in DOMAIN reviews : \E retired : reviews'[r] = Retire(reviews[r], retired)
    <3> HIDE DEF seats
    <3> QED BY <2>1
  <2> QED BY <1>4, <2>2
<1>10. ASSUME NEW e, NEW x, NEW ready, NEW healthy, NEW evidence,
              DeclareReadiness(e, x, ready, healthy, evidence)
       PROVE  Goal
  BY <1>3, <1>10 DEF DeclareReadiness
<1>11. ASSUME NEW ws, Fence(ws)
       PROVE  Goal
  <2> DEFINE seats(r) == Abandoned(reviews[r], ws)
  <2>1. reviews' = [r \in DOMAIN reviews |-> Retire(reviews[r], seats(r))]
    BY <1>11 DEF Fence
  <2>2. /\ DOMAIN reviews' = DOMAIN reviews
        /\ \A r \in DOMAIN reviews : \E retired : reviews'[r] = Retire(reviews[r], retired)
    <3> HIDE DEF seats
    <3> QED BY <2>1
  <2> QED BY <1>4, <2>2
<1>12. ASSUME NEW e, NEW r, NEW t, NEW g, NEW spec, DeclareReview(e, r, t, g, spec)
       PROVE  Goal
  BY <1>2, <1>12 DEF DeclareReview
<1>13. Written => Goal
  BY <1>2 DEF Written
<1>14. Goal
  BY <1>5, <1>6, <1>7, <1>8, <1>9, <1>10, <1>11, <1>12, <1>13, CallSteps
<1> QED
  BY <1>1, <1>14 DEF Goal

LEMMA NothingMentioned ==
    ASSUME pending = <<>>, NEW r \in DOMAIN reviews, Carried(r)
    PROVE  /\ r \in DOMAIN durable.reviews
           /\ durable.reviews[r].decision = reviews[r].decision
           /\ reviews[r].state \in TerminalStates =>
                 /\ durable.reviews[r].state = reviews[r].state
                 /\ durable.reviews[r].disposition = reviews[r].disposition
<1>1. 1 .. Len(pending) = {}
  OBVIOUS
<1>2. /\ \A type : ~Mentions(type, r)
      /\ \A M : pending \notin Holding(Entries, M)
  BY <1>1 DEF Mentions, Holding
<1> QED
  BY <1>2 DEF Carried

\* What a call is known to do.
LEMMA CallKnown ==
    ASSUME DurableInv, Control \/ Incarnation \/ Output
    PROVE  /\ TypeOK /\ TypeOK' /\ FiniteMaps /\ FiniteMaps'
           /\ DOMAIN reviews \subseteq DOMAIN reviews'
           /\ AllFinal /\ RewritesAll
<1>1. TypeOK /\ RegistryInv /\ FiniteMaps /\ OpenIsOfTheDay
  BY DEF DurableInv
<1>2. TypeOK' /\ RewritesAll
  BY <1>1, CallIsNext
<1>3. AllFinal
  BY <1>1, FinalStep DEF Next
<1>4. FiniteMaps'
  BY <1>1, CallGrows
<1> QED
  BY <1>1, <1>2, <1>3, <1>4 DEF RewritesAll

\* No call, overtaken or not, changes an outcome that has been acknowledged.
LEMMA ClosedStands ==
    ASSUME DurableInv, Acknowledged, Control \/ Incarnation \/ Output, NEW x \in closed
    PROVE  /\ x.review \in DOMAIN reviews /\ reviews[x.review].state \in TerminalStates
           /\ x.review \in DOMAIN reviews'
           /\ Final(reviews[x.review], reviews'[x.review])
           /\ reviews'[x.review].state = x.state
           /\ reviews'[x.review].disposition = x.disposition
           /\ x \in OutcomesOf(reviews')
<1> DEFINE r == x.review
<1>1. x \in OutcomesOf(reviews)
  BY DEF Acknowledged
<1>2. /\ r \in DOMAIN reviews /\ x.state = reviews[r].state /\ x.state \in TerminalStates
      /\ x.disposition = reviews[r].disposition /\ x.decision = reviews[r].decision
  BY <1>1, OutcomesNamed
<1>3. /\ Final(reviews[r], reviews'[r]) /\ r \in DOMAIN reviews'
  BY <1>2, CallKnown DEF AllFinal
<1>4. /\ reviews'[r].state = reviews[r].state
      /\ reviews'[r].disposition = reviews[r].disposition
      /\ reviews'[r].decision = reviews[r].decision
  BY <1>2, <1>3 DEF Final
<1>5. x \in OutcomesOf(reviews')
  BY <1>1, <1>3, <1>4, OutcomesStay
<1> QED BY <1>2, <1>3, <1>4, <1>5

LEMMA CallAcknowledges ==
    ASSUME DurableInv, Acknowledged, Control \/ Incarnation \/ Output,
           pending' = CallEntries, UNCHANGED <<durable, closed>>
    PROVE  Acknowledged'
<1>1. ASSUME NEW x \in closed
      PROVE  /\ x \in OutcomesOf(reviews')
             /\ x \in OutcomesOf(durable'.reviews)
             /\ pending' \in Seq(Faithful(x.review, x))
  <2> DEFINE r == x.review
  <2>1. /\ r \in DOMAIN reviews /\ reviews[r].state \in TerminalStates
        /\ Final(reviews[r], reviews'[r])
        /\ reviews'[r].state = x.state /\ reviews'[r].disposition = x.disposition
        /\ x \in OutcomesOf(reviews')
    BY ClosedStands
  <2>2. CallEntries \in Seq(Faithful(r, reviews'[r]))
    BY <2>1, CallKnown, ClosedIsLeftAlone
  <2>3. Faithful(r, reviews'[r]) = Faithful(r, x)
    BY <2>1, FaithfulAlike
  <2>4. x \in OutcomesOf(durable.reviews)
    BY DEF Acknowledged
  <2> QED BY <2>1, <2>2, <2>3, <2>4
<1> QED
  BY <1>1 DEF Acknowledged

LEMMA OvertakenAcknowledges ==
    ASSUME DurableInv, OutcomeInv, OvertakenCall
    PROVE  OutcomeInv'
<1>1. UNCHANGED <<durable, pending, closed, serving>> /\ serving = "stopped"
  BY DEF OvertakenCall
<1>2. \A x \in closed : x \in OutcomesOf(reviews')
  BY OvertakenCalls, ClosedStands DEF OutcomeInv
<1>3. Acknowledged'
  BY <1>1, <1>2 DEF OutcomeInv, Acknowledged
<1> QED
  BY <1>1, <1>3 DEF OutcomeInv

LEMMA CallCarries ==
    ASSUME DurableInv, AllCarried, pending = <<>>,
           Control \/ Incarnation \/ Output, pending' = CallEntries, UNCHANGED durable
    PROVE  AllCarried'
<1>1. /\ TypeOK /\ TypeOK' /\ FiniteMaps /\ FiniteMaps'
      /\ DOMAIN reviews \subseteq DOMAIN reviews' /\ AllFinal /\ RewritesAll
  BY CallKnown
<1>2. /\ DOMAIN reviews' # DOMAIN reviews => UNCHANGED registry
      /\ \A r \in DOMAIN reviews : reviews'[r].decision # reviews[r].decision => UNCHANGED registry
      /\ \A r \in DOMAIN reviews :
            reviews[r].state \notin TerminalStates /\ reviews'[r].state \in TerminalStates =>
               /\ UNCHANGED <<critics, workers>>
               /\ UNCHANGED registry \/ Changed(targets, targets') # {}
  BY ClosingCalls DEF DurableInv
<1>3. ASSUME NEW r \in DOMAIN reviews' \ DOMAIN reviews
      PROVE  Carried(r)'
  <2>1. UNCHANGED registry
    BY <1>2
  <2>2. pending' \in Holding(Entries, {Entry("ReviewDeclared", r, reviews'[r])})
    BY <1>1, <2>1, NewsIsWritten
  <2>3. Mentions("ReviewDeclared", r)'
    <3>1. PICK i \in 1 .. Len(pending') : pending'[i] = Entry("ReviewDeclared", r, reviews'[r])
      BY <2>2 DEF Holding
    <3> QED BY <3>1 DEF Mentions, Entry
  <2>4. reviews'[r].state \notin TerminalStates
    BY <1>1 DEF RewritesAll, Blank, TerminalStates
  <2>5. r \notin DOMAIN durable'.reviews
    BY DEF DurableInv, Behind
  <2> QED BY <2>3, <2>4, <2>5 DEF Carried
<1>4. ASSUME NEW r \in DOMAIN reviews
      PROVE  Carried(r)'
  <2>1. /\ r \in DOMAIN durable.reviews
        /\ durable.reviews[r].decision = reviews[r].decision
        /\ reviews[r].state \in TerminalStates =>
              /\ durable.reviews[r].state = reviews[r].state
              /\ durable.reviews[r].disposition = reviews[r].disposition
    BY NothingMentioned DEF AllCarried
  <2>2. durable'.reviews[r].decision = reviews'[r].decision \/ Mentions("DecisionCommitted", r)'
    <3>1. CASE reviews'[r].decision = reviews[r].decision
      BY <2>1, <3>1
    <3>2. CASE reviews'[r].decision # reviews[r].decision
      <4>1. pending' \in Holding(Entries, {Entry("DecisionCommitted", r, reviews'[r].decision)})
        BY <1>1, <1>2, <3>2, NewsIsWritten
      <4>2. PICK i \in 1 .. Len(pending') :
              pending'[i] = Entry("DecisionCommitted", r, reviews'[r].decision)
        BY <4>1 DEF Holding
      <4> QED BY <4>2 DEF Mentions, Entry
    <3> QED BY <3>1, <3>2
  <2>3. ASSUME reviews'[r].state \in TerminalStates
        PROVE  /\ pending' \in Corrected(r, reviews'[r])
               /\ \/ /\ durable'.reviews[r].state = reviews'[r].state
                     /\ durable'.reviews[r].disposition = reviews'[r].disposition
                  \/ pending' \in Holding(Entries, Stating(r, reviews'[r]))
    <3>1. CASE reviews[r].state \in TerminalStates
      <4>1. Final(reviews[r], reviews'[r])
        BY <1>1 DEF AllFinal
      <4>2. pending' \in Seq(Faithful(r, reviews'[r]))
        BY <1>1, <3>1, <4>1, ClosedIsLeftAlone
      <4>3. pending' \in Corrected(r, reviews'[r])
        BY <4>2, FaithfulIsCorrected
      <4> QED BY <2>1, <3>1, <4>1, <4>3 DEF Final
    <3>2. CASE reviews[r].state \notin TerminalStates
      BY <1>1, <1>2, <2>3, <3>2, ClosingIsToldLast
    <3> QED BY <3>1, <3>2
  <2> HIDE DEF Entries
  <2> QED BY <2>1, <2>2, <2>3 DEF Carried
<1> QED
  BY <1>3, <1>4 DEF AllCarried

-----------------------------------------------------------------------------
(* An append keeps it.                                                     *)

LEMMA CorrectedTail ==
    ASSUME NEW r, NEW rev, NEW s \in Corrected(r, rev), s # <<>>
    PROVE  /\ Tail(s) \in Corrected(r, rev)
           /\ Head(s) \in Faithful(r, rev) \/ Tail(s) \in Holding(Entries, Stating(r, rev))
           /\ s \in Holding(Entries, Stating(r, rev)) =>
                 Head(s) \in Stating(r, rev) \/ Tail(s) \in Holding(Entries, Stating(r, rev))
<1> DEFINE F == Faithful(r, rev)
           S == Stating(r, rev)
           t == Tail(s)
<1>1. s \in Seq(Entries) /\ \A i \in 1 .. Len(s) : s[i] \in F \/ \E j \in i .. Len(s) : s[j] \in S
  BY DEF Corrected
<1>2. /\ t \in Seq(Entries) /\ Len(s) \in Nat /\ Len(s) >= 1 /\ Len(t) = Len(s) - 1
      /\ Head(s) = s[1]
      /\ \A i \in 1 .. Len(t) : t[i] = s[i+1]
  BY <1>1
<1>3. S \subseteq F
  BY DEF Stating
<1> HIDE DEF F, S, t
<1>4. ASSUME NEW j \in 1 .. Len(s), s[j] \in S
      PROVE  j = 1 \/ (j - 1 \in 1 .. Len(t) /\ t[j-1] \in S)
  <2>1. CASE j # 1
    <3>1. j - 1 \in 1 .. Len(t) /\ t[j-1] = s[(j-1)+1] /\ (j-1)+1 = j
      BY <1>2, <2>1
    <3> QED BY <1>4, <3>1
  <2> QED BY <2>1
<1>5. ASSUME NEW i \in 1 .. Len(t)
      PROVE  t[i] \in F \/ \E j \in i .. Len(t) : t[j] \in S
  <2>1. i + 1 \in 1 .. Len(s) /\ t[i] = s[i+1]
    BY <1>2
  <2>2. CASE s[i+1] \in F
    BY <2>1, <2>2
  <2>3. ASSUME NEW j \in (i+1) .. Len(s), s[j] \in S
        PROVE  \E k \in i .. Len(t) : t[k] \in S
    <3>1. j \in 1 .. Len(s) /\ j # 1
      BY <1>2, <2>1
    <3>2. t[j-1] \in S /\ j - 1 \in i .. Len(t)
      BY <1>2, <1>4, <2>3, <3>1
    <3> QED BY <3>2
  <2> QED BY <1>1, <2>1, <2>2, <2>3
<1>6. t \in Corrected(r, rev)
  BY <1>2, <1>5 DEF Corrected, F, S
<1>7. Head(s) \in F \/ t \in Holding(Entries, S)
  <2>1. 1 \in 1 .. Len(s)
    BY <1>2
  <2>2. s[1] \in F \/ \E j \in 1 .. Len(s) : s[j] \in S
    BY <1>1, <2>1
  <2> QED BY <1>2, <1>3, <1>4, <2>2 DEF Holding
<1>8. s \in Holding(Entries, S) => Head(s) \in S \/ t \in Holding(Entries, S)
  BY <1>2, <1>4 DEF Holding
<1> QED
  BY <1>6, <1>7, <1>8 DEF F, S, t

\* The journal and what is outstanding after the first entry of it was read.
LEMMA HeadIsRead ==
    ASSUME DurableInv, pending # <<>>
    PROVE  LET x == Head(pending)
               new == Applied(durable, x)
           IN  /\ StoreOK(durable) /\ x \in Entries
               /\ x.type \in {"ReviewDeclared", "DecisionCommitted"} =>
                     x \in Decided(reviews, DOMAIN durable.targets)
               /\ \A r \in DOMAIN durable.reviews : r \in DOMAIN new.reviews
               /\ \A r \in DOMAIN durable.reviews :
                     durable.reviews[r].decision = reviews[r].decision =>
                        new.reviews[r].decision = reviews[r].decision
<1> DEFINE x == Head(pending)
           new == Applied(durable, x)
<1>1. x \in Outstanding \cup Establishment
  BY PendingKinds, HeadTailProperties
<1>2. x \in Entries /\ (x.type \in {"ReviewDeclared", "DecisionCommitted"} =>
                          x \in Decided(reviews, DOMAIN durable.targets))
  BY <1>1, OutstandingKinds
<1>3. StoreOK(durable) /\ NewestIn(durable) /\ Behind
  BY DEF DurableInv
<1>4. /\ Behindhand(new)
      /\ \A r \in DOMAIN durable.reviews : durable.reviews[r].decision # NoDecision =>
            r \in DOMAIN new.reviews /\ new.reviews[r].decision = durable.reviews[r].decision
  BY <1>1, <1>3, OutstandingApplied
<1>5. \A r \in DOMAIN durable.reviews : r \in DOMAIN new.reviews
  BY <1>2, <1>3, AppliedState
<1> HIDE DEF new, x
<1>6. \A r \in DOMAIN durable.reviews :
        durable.reviews[r].decision = reviews[r].decision =>
           new.reviews[r].decision = reviews[r].decision
  BY <1>4, <1>5 DEF Behindhand
<1> QED
  BY <1>2, <1>3, <1>5, <1>6 DEF new, x

LEMMA ReadingAcknowledges ==
    ASSUME DurableInv, Acknowledged, pending # <<>>, NEW x \in closed
    PROVE  /\ x \in OutcomesOf(Applied(durable, Head(pending)).reviews)
           /\ Tail(pending) \in Seq(Faithful(x.review, x))
<1> DEFINE r == x.review
           h == Head(pending)
           new == Applied(durable, h).reviews
<1>1. /\ x \in OutcomesOf(reviews) /\ x \in OutcomesOf(durable.reviews)
      /\ pending \in Seq(Faithful(r, x))
  BY DEF Acknowledged
<1>2. /\ r \in DOMAIN durable.reviews
      /\ x.state = durable.reviews[r].state /\ x.disposition = durable.reviews[r].disposition
      /\ x.decision = durable.reviews[r].decision /\ x.decision = reviews[r].decision
  BY <1>1, OutcomesNamed
<1>3. h \in Faithful(r, x) /\ Tail(pending) \in Seq(Faithful(r, x))
  BY <1>1, HeadTailProperties
<1>4. /\ StoreOK(durable) /\ h \in Entries /\ r \in DOMAIN new
      /\ new[r].decision = reviews[r].decision
  BY <1>2, HeadIsRead
<1>5. /\ h.id = r /\ h.type = "ReviewStateChanged" =>
            new[r].state = h.value.state /\ new[r].disposition = h.value.disposition
      /\ ~(h.id = r /\ h.type \in {"ReviewDeclared", "ReviewStateChanged"}) =>
            new[r].state = durable.reviews[r].state
            /\ new[r].disposition = durable.reviews[r].disposition
  BY <1>2, <1>4, AppliedState
<1> HIDE DEF new, h
<1>6. new[r].state = x.state /\ new[r].disposition = x.disposition
  BY <1>2, <1>3, <1>5 DEF Faithful
<1>7. x \in OutcomesOf(new)
  BY <1>1, <1>2, <1>4, <1>6, OutcomesStay
<1> QED
  BY <1>3, <1>7 DEF new, h

LEMMA ReadingCarries ==
    ASSUME DurableInv, pending # <<>>, NEW r \in DOMAIN reviews, Carried(r),
           durable' = Applied(durable, Head(pending)), pending' = Tail(pending), UNCHANGED reviews
    PROVE  Carried(r)'
<1> DEFINE h == Head(pending)
           old == durable.reviews
           new == durable'.reviews
           rev == reviews[r]
<1>1. /\ StoreOK(durable) /\ h \in Entries
      /\ h.type \in {"ReviewDeclared", "DecisionCommitted"} =>
            h \in Decided(reviews, DOMAIN durable.targets)
      /\ r \in DOMAIN old => r \in DOMAIN new
      /\ r \in DOMAIN old /\ old[r].decision = rev.decision => new[r].decision = rev.decision
  BY HeadIsRead
<1>2. /\ DOMAIN new = IF h.type = "ReviewDeclared" THEN DOMAIN old \cup {h.id} ELSE DOMAIN old
      /\ \A q \in DOMAIN new :
            new[q].decision = IF h.type = "ReviewDeclared" /\ h.id = q THEN h.value.decision
                              ELSE IF h.type = "DecisionCommitted" /\ h.id = q THEN h.value
                              ELSE old[q].decision
  BY <1>1, AppliedDecisions
<1>3. /\ h.type = "ReviewDeclared" /\ h.id = r => h.value.decision = rev.decision
      /\ h.type = "DecisionCommitted" /\ h.id = r => h.value = rev.decision
  BY <1>1 DEF Decided, Declaration, Ruling, About
<1>4. ASSUME NEW type, Mentions(type, r)
      PROVE  (h.type = type /\ h.id = r) \/ Mentions(type, r)'
  <2>1. PICK i \in 1 .. Len(pending) : pending[i].type = type /\ pending[i].id = r
    BY <1>4 DEF Mentions
  <2>2. pending \in Seq(Outstanding \cup Establishment)
    BY PendingKinds
  <2>3. h = pending[1] /\ (i # 1 => i - 1 \in 1 .. Len(pending') /\ pending'[i-1] = pending[i])
    <3>1. /\ Len(pending) \in Nat /\ Len(Tail(pending)) = Len(pending) - 1
          /\ \A j \in 1 .. Len(Tail(pending)) : Tail(pending)[j] = pending[j+1]
          /\ h = pending[1]
      BY <2>2
    <3>2. i # 1 => i - 1 \in 1 .. Len(Tail(pending)) /\ (i - 1) + 1 = i
      BY <3>1
    <3> QED BY <3>1, <3>2
  <2>4. CASE i = 1
    BY <2>1, <2>3, <2>4
  <2>5. CASE i # 1
    BY <2>1, <2>3, <2>5 DEF Mentions
  <2> QED BY <2>4, <2>5
<1>5. \/ r \in DOMAIN new
      \/ rev.state \notin TerminalStates /\ Mentions("ReviewDeclared", r)'
  <2>1. CASE r \in DOMAIN old
    BY <1>1, <2>1
  <2>2. CASE rev.state \notin TerminalStates /\ Mentions("ReviewDeclared", r)
    BY <1>2, <1>4, <2>2
  <2> QED BY <2>1, <2>2 DEF Carried
<1>6. ASSUME r \in DOMAIN new
      PROVE  new[r].decision = rev.decision \/ Mentions("DecisionCommitted", r)'
  <2>1. CASE r \notin DOMAIN old
    BY <1>2, <1>3, <1>6, <2>1
  <2>2. CASE r \in DOMAIN old /\ old[r].decision = rev.decision
    BY <1>1, <2>2
  <2>3. CASE Mentions("DecisionCommitted", r)
    BY <1>2, <1>3, <1>4, <1>6, <2>3
  <2> QED BY <2>1, <2>2, <2>3 DEF Carried
<1>7. ASSUME rev.state \in TerminalStates
      PROVE  /\ pending' \in Corrected(r, rev)
             /\ \/ new[r].state = rev.state /\ new[r].disposition = rev.disposition
                \/ pending' \in Holding(Entries, Stating(r, rev))
  <2>1. /\ r \in DOMAIN old /\ pending \in Corrected(r, rev)
        /\ \/ old[r].state = rev.state /\ old[r].disposition = rev.disposition
           \/ pending \in Holding(Entries, Stating(r, rev))
    BY <1>7 DEF Carried
  <2>2. /\ pending' \in Corrected(r, rev)
        /\ h \in Faithful(r, rev) \/ pending' \in Holding(Entries, Stating(r, rev))
        /\ pending \in Holding(Entries, Stating(r, rev)) =>
              h \in Stating(r, rev) \/ pending' \in Holding(Entries, Stating(r, rev))
    BY <2>1, CorrectedTail
  <2>3. /\ h.id = r /\ h.type = "ReviewStateChanged" =>
              new[r].state = h.value.state /\ new[r].disposition = h.value.disposition
        /\ ~(h.id = r /\ h.type \in {"ReviewDeclared", "ReviewStateChanged"}) =>
              new[r].state = old[r].state /\ new[r].disposition = old[r].disposition
    BY <1>1, <2>1, AppliedState
  <2>4. h \in Stating(r, rev) =>
          new[r].state = rev.state /\ new[r].disposition = rev.disposition
    BY <2>3 DEF Stating, Faithful
  <2>5. h \in Faithful(r, rev) /\ old[r].state = rev.state /\ old[r].disposition = rev.disposition
          => new[r].state = rev.state /\ new[r].disposition = rev.disposition
    BY <2>3 DEF Faithful
  <2> QED BY <2>1, <2>2, <2>4, <2>5
<1> QED
  BY <1>5, <1>6, <1>7 DEF Carried

LEMMA OutcomeAppended ==
    ASSUME DurableInv, OutcomeInv, AppendEntry
    PROVE  OutcomeInv'
<1>1. /\ pending # <<>> /\ durable' = Applied(durable, Head(pending)) /\ pending' = Tail(pending)
      /\ UNCHANGED <<reviews, failed>>
      /\ closed' = IF pending' = <<>> /\ ~failed THEN closed \cup OutcomesOf(reviews) ELSE closed
  BY DEF AppendEntry, vars
<1>2. AllCarried => AllCarried'
  BY <1>1, ReadingCarries DEF AllCarried
<1>3. ASSUME NEW x \in closed
      PROVE  /\ x \in OutcomesOf(reviews')
             /\ x \in OutcomesOf(durable'.reviews)
             /\ pending' \in Seq(Faithful(x.review, x))
  <2>1. Acknowledged
    BY DEF OutcomeInv
  <2> QED BY <1>1, <1>3, <2>1, ReadingAcknowledges DEF Acknowledged
<1>4. ASSUME pending' = <<>>, ~failed, NEW x \in OutcomesOf(reviews)
      PROVE  /\ x \in OutcomesOf(reviews')
             /\ x \in OutcomesOf(durable'.reviews)
             /\ pending' \in Seq(Faithful(x.review, x))
  <2> DEFINE r == x.review
  <2>1. /\ r \in DOMAIN reviews /\ reviews[r].state \in TerminalStates
        /\ x.state = reviews[r].state /\ x.disposition = reviews[r].disposition
        /\ x.decision = reviews[r].decision
    BY <1>4, OutcomesNamed
  <2>2. Carried(r)'
    BY <1>1, <1>2, <1>4, <2>1, WritingIsOpen DEF OutcomeInv, AllCarried
  <2>3. /\ \A type : ~Mentions(type, r)'
        /\ \A M : pending' \notin Holding(Entries, M)
    <3>1. 1 .. Len(pending') = {}
      BY <1>4
    <3> QED BY <3>1 DEF Mentions, Holding
  <2>4. /\ r \in DOMAIN durable'.reviews
        /\ durable'.reviews[r].decision = reviews[r].decision
        /\ durable'.reviews[r].state = reviews[r].state
        /\ durable'.reviews[r].disposition = reviews[r].disposition
    BY <1>1, <2>1, <2>2, <2>3 DEF Carried
  <2>5. x \in OutcomesOf(durable'.reviews)
    BY <1>4, <2>4, OutcomesStay
  <2>6. pending' \in Seq(Faithful(r, x))
    BY <1>4, EmptySeq
  <2> QED BY <1>1, <1>4, <2>5, <2>6
<1>5. Acknowledged'
  BY <1>1, <1>3, <1>4 DEF Acknowledged
<1> QED
  BY <1>1, <1>2, <1>5, WritingIsOpen DEF OutcomeInv

\* After a failed append nothing is outstanding any more, and no outcome is
\* acknowledged.
LEMMA OutcomeAppendFails ==
    ASSUME DurableInv, OutcomeInv, AppendFails
    PROVE  OutcomeInv'
<1>1. /\ pending # <<>> /\ durable' \in {durable, Applied(durable, Head(pending))}
      /\ pending' = <<>> /\ failed' /\ UNCHANGED <<reviews, closed>>
  BY DEF AppendFails, vars
<1>2. Acknowledged
  BY DEF OutcomeInv
<1>3. ASSUME NEW x \in closed
      PROVE  /\ x \in OutcomesOf(reviews')
             /\ x \in OutcomesOf(durable'.reviews)
             /\ pending' \in Seq(Faithful(x.review, x))
  <2>1. x \in OutcomesOf(Applied(durable, Head(pending)).reviews)
    BY <1>1, <1>2, ReadingAcknowledges
  <2>2. pending' \in Seq(Faithful(x.review, x))
    BY <1>1, EmptySeq
  <2> QED BY <1>1, <1>2, <2>1, <2>2 DEF Acknowledged
<1>4. Acknowledged'
  BY <1>1, <1>3 DEF Acknowledged
<1> QED
  BY <1>1, <1>4 DEF OutcomeInv

-----------------------------------------------------------------------------
(* A restart keeps it.                                                     *)

\* The entries of a start leave every review alone that the journal has closed.
LEMMA RecoveryIsFaithful ==
    ASSUME StoreOK(durable), NEW r \in DOMAIN durable.reviews, NEW rev,
           durable.reviews[r].state \in TerminalStates
    PROVE  RecoveryEntries(durable.reviews) \in Seq(Faithful(r, rev))
<1> DEFINE F == Faithful(r, rev)
           e == Entry("EpochEstablished", NoId, durable.epoch + 1)
<1>1. ASSUME NEW q \in DOMAIN durable.reviews, durable.reviews[q].state \notin TerminalStates
      PROVE  StateEntry(q, Recovered(durable.reviews[q])) \in F
  <2>1. StateEntry(q, Recovered(durable.reviews[q])) \in Entries
    BY <1>1, RecoveredState, EntriesOfCalls
  <2>2. StateEntry(q, Recovered(durable.reviews[q])).id = q /\ q # r
    BY <1>1 DEF StateEntry, Entry
  <2> QED BY <2>1, <2>2, SilentIsFaithful
<1>2. e \in F
  <2>1. durable.epoch + 1 \in Nat
    BY DEF StoreOK
  <2>2. e \in Entries /\ e.type = "EpochEstablished"
    BY <2>1 DEF Entries, Establishment, Entry
  <2> HIDE DEF e
  <2> QED BY <2>2, SilentIsFaithful
<1> HIDE DEF F, e
<1>3. PICK rest \in Seq(F) : RecoveryEntries(durable.reviews) = <<e>> \o rest
  BY <1>1, RecoveryListed DEF e
<1>4. <<e>> \in Seq(F)
  BY <1>2
<1> QED
  BY <1>3, <1>4, ConcatProperties DEF F

LEMMA OutcomeRecovered ==
    ASSUME DurableInv, OutcomeInv, Reboot
    PROVE  OutcomeInv'
<1>1. /\ reviews' = [r \in DOMAIN durable.reviews |-> Recovered(durable.reviews[r])]
      /\ pending' = RecoveryEntries(durable.reviews)
      /\ UNCHANGED <<durable, closed>>
  BY DEF Reboot
<1>2. StoreOK(durable) /\ Acknowledged
  BY DEF DurableInv, OutcomeInv
<1>3. ASSUME NEW r \in DOMAIN durable.reviews
      PROVE  /\ reviews'[r].decision = durable.reviews[r].decision
             /\ durable.reviews[r].state \in TerminalStates => reviews'[r] = durable.reviews[r]
             /\ durable.reviews[r].state \notin TerminalStates
                   => reviews'[r].state \notin TerminalStates
  <2>1. durable.reviews[r] \in Review
    BY <1>2 DEF StoreOK, IsMap
  <2>2. reviews'[r] = Revalidate(durable.reviews[r])
    BY <1>1 DEF Recovered
  <2> QED BY <2>1, <2>2 DEF Revalidate, Review, TerminalStates
<1>4. ASSUME NEW x \in closed
      PROVE  /\ x \in OutcomesOf(reviews')
             /\ x \in OutcomesOf(durable'.reviews)
             /\ pending' \in Seq(Faithful(x.review, x))
  <2>1. x \in OutcomesOf(durable.reviews)
    BY <1>2 DEF Acknowledged
  <2>2. x.review \in DOMAIN durable.reviews /\ durable.reviews[x.review].state \in TerminalStates
    BY <2>1, OutcomesNamed
  <2>3. x \in OutcomesOf(reviews')
    <3>1. x.review \in DOMAIN reviews' /\ reviews'[x.review] = durable.reviews[x.review]
      BY <1>1, <1>3, <2>2
    <3> QED BY <2>1, <3>1, OutcomesStay
  <2>4. pending' \in Seq(Faithful(x.review, x))
    BY <1>1, <1>2, <2>2, RecoveryIsFaithful
  <2> QED BY <1>1, <2>1, <2>3, <2>4
<1>5. ASSUME NEW r \in DOMAIN reviews'
      PROVE  Carried(r)'
  <2>1. r \in DOMAIN durable'.reviews /\ durable'.reviews[r].decision = reviews'[r].decision
    BY <1>1, <1>3
  <2>2. ASSUME reviews'[r].state \in TerminalStates
        PROVE  /\ pending' \in Corrected(r, reviews'[r])
               /\ durable'.reviews[r].state = reviews'[r].state
               /\ durable'.reviews[r].disposition = reviews'[r].disposition
    <3>1. durable.reviews[r].state \in TerminalStates /\ reviews'[r] = durable.reviews[r]
      BY <1>1, <1>3, <2>2
    <3>2. pending' \in Seq(Faithful(r, reviews'[r]))
      BY <1>1, <1>2, <2>1, <3>1, RecoveryIsFaithful
    <3> QED BY <1>1, <3>1, <3>2, FaithfulIsCorrected
  <2> QED BY <2>1, <2>2 DEF Carried
<1>6. Acknowledged'
  BY <1>1, <1>4 DEF Acknowledged
<1> QED
  BY <1>5, <1>6 DEF OutcomeInv, AllCarried

-----------------------------------------------------------------------------
(* The theorems.                                                           *)

LEMMA DurableInvInit == Init /\ JournalInit => DurableInv
<1> SUFFICES ASSUME Init, JournalInit
             PROVE  DurableInv
  OBVIOUS
<1>1. TypeOK /\ RegistryInv
  BY TypeInit, RegistryInvInit
<1>2. /\ epoch = 1 /\ targets = EmptyMap /\ critics = EmptyMap /\ workers = EmptyMap
      /\ incumbents = EmptyMap /\ reviews = EmptyMap /\ DOMAIN EmptyMap = {}
  BY DEF Init, EmptyMap
<1>3. /\ durable = [epoch |-> epoch, targets |-> targets, critics |-> critics,
                    workers |-> workers, incumbents |-> incumbents, reviews |-> reviews]
      /\ pending = <<>> /\ serving = "up" /\ failed = FALSE /\ served = {epoch}
  BY DEF JournalInit
<1>4. FiniteMaps /\ OpenIsOfTheDay /\ IsFiniteSet({})
  BY <1>2, FS_EmptySet DEF FiniteMaps, OpenIsOfTheDay
<1>5. StoreOK(durable)
  <2>1. /\ IsMap(targets, Targets, Target) /\ IsMap(critics, Critics, Critic)
        /\ IsMap(workers, Workers, Worker) /\ IsMap(incumbents, Critics, DOMAIN workers)
        /\ IsMap(reviews, Requests, Review)
    BY <1>1 DEF TypeOK, RegistryTypeOK, ReviewsTypeOK
  <2> QED BY <1>2, <1>3, <1>4, <2>1 DEF StoreOK, Shape
<1>6. NewestIn(durable) /\ Behind
  BY <1>2, <1>3 DEF NewestIn, Behind
<1>7. ServingInv
  BY <1>2, <1>3 DEF ServingInv, Up, InOrder
<1> QED
  BY <1>1, <1>4, <1>5, <1>6, <1>7 DEF DurableInv

LEMMA DurableInvStep ==
    ASSUME DurableInv, [DurableNext]_<<vars, journaling>>
    PROVE  DurableInv'
<1>1. ASSUME Call PROVE DurableInv'
  BY <1>1, WritingKeeps DEF Call
<1>2. ASSUME FenceAfterFailure PROVE DurableInv'
  <2>1. Control \/ Incarnation \/ Output
    BY <1>2 DEF FenceAfterFailure, Incarnation
  <2>2. DOMAIN reviews' = DOMAIN reviews
    BY <1>2 DEF FenceAfterFailure, FenceWorker, FenceCritic, Fence
  <2> QED BY <1>2, <2>1, <2>2, WritingKeeps DEF FenceAfterFailure
<1>3. ASSUME UNCHANGED <<vars, journaling>> PROVE DurableInv'
  <2>1. TypeOK' /\ RegistryInv' /\ FiniteMaps' /\ OpenIsOfTheDay'
    BY <1>3, MemoryKept DEF DurableInv
  <2>2. UNCHANGED <<epoch, targets, workers, reviews, durable, pending, serving, failed, served>>
    BY <1>3 DEF vars, journaling
  <2>3. Behind'
    BY <2>2 DEF DurableInv, Behind
  <2>4. ServingInv'
    BY <2>2 DEF DurableInv, ServingInv, Starting, Up, Stopped, InOrder, Outstanding, Overdue
  <2> QED BY <2>1, <2>2, <2>3, <2>4 DEF DurableInv
<1> QED
  BY <1>1, <1>2, <1>3, AppendEntryKeeps, AppendFailsKeeps, StopKeeps, OvertakenCallKeeps,
     RebootKeeps DEF DurableNext

\* Wherever calls and starts are cut off, the memory is well-typed and the journal
\* is behind it by just what is outstanding, in the order of the incarnations.
THEOREM DurableSafe == JournaledSpec => []DurableInv
<1>1. Init /\ JournalInit => DurableInv
  BY DurableInvInit
<1>2. DurableInv /\ [DurableNext]_<<vars, journaling>> => DurableInv'
  BY DurableInvStep
<1> QED
  BY <1>1, <1>2, PTL DEF JournaledSpec

\* README "Critic model": no critic has two voices, also in a coordinator that
\* started from a journal which ends inside a call.
THEOREM OneVoiceRecovered == JournaledSpec => []OneVoicePerCritic
<1>1. DurableInv => OneVoicePerCritic
  BY DEF DurableInv, RegistryInv
<1> QED
  BY <1>1, DurableSafe, PTL

\* README "Coordinator restart": a coordinator that gets up serves an epoch later
\* than any that was ever served, however many starts were cut off in between.
THEOREM ServedOnce == JournaledSpec => EpochServedOnce
<1>1. DurableInv /\ [DurableNext]_<<vars, journaling>>
        => [serving = "starting" /\ serving' = "up" => \A e \in served : e < epoch]_serving
  BY DEF DurableInv, ServingInv, Starting, Stopped
<1> QED
  BY <1>1, DurableSafe, PTL DEF JournaledSpec, EpochServedOnce

\* README "Authoritative review commit": a decision that has reached the journal
\* is never written over there, by whatever calls, failures and restarts.
THEOREM OneDecision == JournaledSpec => OneDecisionPerReview
<1> DEFINE Stays == \A r \in DOMAIN durable.reviews :
                       durable.reviews[r].decision # NoDecision =>
                          durable'.reviews[r].decision = durable.reviews[r].decision
<1>1. ASSUME DurableInv, DurableNext
      PROVE  durable' = durable \/ Stays
  <2>1. ASSUME pending # <<>>, durable' = Applied(durable, Head(pending))
        PROVE  Stays
    <3>1. Head(pending) \in Outstanding \cup Establishment
      BY <1>1, <2>1, PendingKinds, HeadTailProperties
    <3> QED BY <1>1, <2>1, <3>1, OutstandingApplied DEF DurableInv
  <2> HIDE DEF Stays
  <2> QED
    BY <1>1, <2>1 DEF DurableNext, Call, FenceAfterFailure, AppendEntry, AppendFails, Stop,
                      OvertakenCall, Reboot
<1>2. DurableInv /\ [DurableNext]_<<vars, journaling>> => [Stays]_durable
  <2> HIDE DEF Stays
  <2> QED BY <1>1 DEF journaling
<1>3. DurableInv /\ [DurableNext]_<<vars, journaling>> =>
        [\A r \in DOMAIN durable.reviews :
            durable.reviews[r].decision # NoDecision =>
               durable'.reviews[r].decision = durable.reviews[r].decision]_durable
  BY <1>2
<1> QED
  BY <1>3, DurableSafe, PTL DEF JournaledSpec, OneDecisionPerReview

\* README "Review target model": a review is decided about the current generation
\* of its target only.
THEOREM DecidedIsCurrent == JournaledSpec => DecisionsAreCurrent
<1> DEFINE Ok == \A r \in DOMAIN reviews \cap DOMAIN reviews' :
                    reviews'[r].decision \notin {NoDecision, reviews[r].decision} =>
                       TargetCurrent(reviews[r])
<1>1. ASSUME DurableInv, DurableNext
      PROVE  reviews' = reviews \/ Ok
  <2>1. ASSUME Control \/ Incarnation \/ Output
        PROVE  Ok
    <3>1. RewritesAll
      BY <1>1, <2>1, CallIsNext DEF DurableInv
    <3>2. ASSUME NEW r \in DOMAIN reviews \cap DOMAIN reviews',
                 reviews'[r].decision \notin {NoDecision, reviews[r].decision}
          PROVE  TargetCurrent(reviews[r])
      <4>1. Rewrites(reviews[r], reviews'[r])
        BY <3>1, <3>2 DEF RewritesAll
      <4>2. Decides(reviews[r], reviews'[r])
        BY <3>2, <4>1 DEF Rewrites, Undecided
      <4> QED BY <1>1, <3>2, <4>2 DEF Decides, DurableInv, OpenIsOfTheDay
    <3> QED BY <3>2
  <2>2. ASSUME Reboot
        PROVE  Ok
    <3>1. ASSUME NEW r \in DOMAIN reviews'
          PROVE  reviews'[r].decision \in {NoDecision, reviews[r].decision}
      <4>1. r \in DOMAIN durable.reviews /\ reviews'[r] = Revalidate(durable.reviews[r])
        BY <2>2, <3>1 DEF Reboot, Recovered
      <4>2. durable.reviews[r] \in Review
        BY <1>1, <4>1 DEF DurableInv, StoreOK, IsMap
      <4>3. Revalidate(durable.reviews[r]).decision = durable.reviews[r].decision
        BY <4>2 DEF Revalidate, Review
      <4> QED BY <1>1, <4>1, <4>3 DEF DurableInv, Behind
    <3> QED BY <3>1
  <2>3. ASSUME FenceAfterFailure
        PROVE  Ok
    <3>1. Control \/ Incarnation \/ Output
      BY <2>3 DEF FenceAfterFailure, Incarnation
    <3> QED BY <2>1, <3>1
  <2>4. ASSUME AppendEntry \/ AppendFails \/ Stop
        PROVE  reviews' = reviews
    BY <2>4 DEF AppendEntry, AppendFails, Stop, vars
  <2> HIDE DEF Ok
  <2> QED BY <1>1, <2>1, <2>2, <2>3, <2>4, OvertakenCalls DEF DurableNext, Call
<1>2. DurableInv /\ [DurableNext]_<<vars, journaling>> => [Ok]_reviews
  <2> HIDE DEF Ok
  <2> QED BY <1>1 DEF vars
<1>3. DurableInv /\ [DurableNext]_<<vars, journaling>> =>
        [\A r \in DOMAIN reviews \cap DOMAIN reviews' :
            reviews'[r].decision \notin {NoDecision, reviews[r].decision} =>
               TargetCurrent(reviews[r])]_reviews
  BY <1>2
<1> QED
  BY <1>3, DurableSafe, PTL DEF JournaledSpec, DecisionsAreCurrent

\* The worker that a step enters under another boot is its critic's incumbent.
Succeeds ==
    \A w \in DOMAIN workers' :
        (w \in DOMAIN workers => workers'[w].boot # workers[w].boot) =>
            incumbents'[workers'[w].critic] = w

LEMMA RegisterWorkerSucceeds ==
    ASSUME RegistryInv, RegistryInv', NEW e, NEW w, NEW boot, NEW c, NEW g,
           RegisterWorker(e, w, boot, c, g)
    PROVE  Succeeds
<1> DEFINE fenced == Fenceable({w} \cup {v \in WorkersOf(c) \ {w} : Authoritative(v)})
           silenced == Silenced(fenced)
           fresh == [boot |-> boot, critic |-> c, criticGeneration |-> g,
                     ready |-> FALSE, healthy |-> FALSE, bootOrder |-> nextBootOrder]
<1>1. workers' = Put(silenced, w, fresh)
  BY DEF RegisterWorker
<1>2. /\ DOMAIN silenced = DOMAIN workers
      /\ \A v \in DOMAIN workers :
            silenced[v].bootOrder = workers[v].bootOrder /\ silenced[v].boot = workers[v].boot
  <2> HIDE DEF fenced
  <2> QED BY SilencedWorkers DEF RegistryInv, RegistryTypeOK
<1> HIDE DEF silenced
<1>3. /\ DOMAIN workers' = DOMAIN workers \cup {w}
      /\ workers'[w].bootOrder = nextBootOrder
      /\ \A v \in DOMAIN workers \ {w} : workers'[v] = silenced[v]
  BY <1>1, <1>2 DEF Put
<1>4. \A v \in DOMAIN workers : workers[v].bootOrder < nextBootOrder
                                /\ workers[v].bootOrder \in Nat /\ nextBootOrder \in Nat
  BY RegistryLookups DEF RegistryInv, BootOrdersPast
<1> DEFINE h == incumbents'[workers'[w].critic]
<1>5. h \in DOMAIN workers' /\ workers'[w].bootOrder <= workers'[h].bootOrder
  BY <1>3 DEF RegistryInv, RegistryTypeOK, IncumbentIsNewest, IsMap
<1>6. h = w
  <2> HIDE DEF h
  <2>1. ASSUME h # w PROVE FALSE
    <3>1. h \in DOMAIN workers /\ workers'[h].bootOrder = workers[h].bootOrder
      BY <1>2, <1>3, <1>5, <2>1
    <3> QED BY <1>3, <1>4, <1>5, <3>1
  <2> QED BY <2>1
<1> QED
  BY <1>2, <1>3, <1>6 DEF Succeeds

LEMMA CallSucceeds ==
    ASSUME DurableInv, Control \/ Incarnation \/ Output
    PROVE  Succeeds
<1> DEFINE Same == /\ DOMAIN workers' = DOMAIN workers
                   /\ \A w \in DOMAIN workers : workers'[w].boot = workers[w].boot
<1>1. TypeOK /\ RegistryInv /\ RegistryInv' /\ OpenIsOfTheDay
  BY CallIsNext DEF DurableInv
<1>2. ASSUME NEW ws, workers' = Silenced(ws)
      PROVE  Same
  BY <1>1, <1>2, SilencedWorkers DEF RegistryInv, RegistryTypeOK
<1>3. UNCHANGED workers => Same
  OBVIOUS
<1>4. ASSUME NEW e, NEW x, NEW ready, NEW healthy, NEW evidence,
             DeclareReadiness(e, x, ready, healthy, evidence)
      PROVE  Same
  <2>1. workers' = [workers EXCEPT ![x.worker].ready = ready, ![x.worker].healthy = healthy]
    BY <1>4 DEF DeclareReadiness
  <2>2. \A w \in DOMAIN workers : workers[w] \in Worker
    BY <1>1 DEF RegistryInv, RegistryTypeOK, IsMap
  <2> QED BY <2>1, <2>2 DEF Worker
<1>5. ASSUME NEW e, NEW t, NEW content, RegisterTarget(e, t, content) \/ AdvanceTarget(e, t, content)
      PROVE  UNCHANGED workers
  BY <1>5 DEF RegisterTarget, AdvanceTarget
<1>6. ASSUME NEW e, NEW c, NEW capability, RegisterCritic(e, c, capability)
      PROVE  UNCHANGED workers
  BY <1>6 DEF RegisterCritic
<1>7. ASSUME NEW e, NEW c, NEW capability, NEW advance, AdvanceCritic(e, c, capability, advance)
      PROVE  Same
  <2>1. \E ws : workers' = Silenced(ws)
    BY <1>7 DEF AdvanceCritic
  <2> HIDE DEF Same
  <2> QED BY <1>2, <2>1
<1>8. ASSUME NEW e, NEW r, NEW t, NEW g, NEW spec, DeclareReview(e, r, t, g, spec)
      PROVE  UNCHANGED workers
  BY <1>8 DEF DeclareReview, registry
<1>9. ASSUME NEW ws, Fence(ws)
      PROVE  Same
  <2>1. workers' = Silenced(ws)
    BY <1>9 DEF Fence
  <2> HIDE DEF Same
  <2> QED BY <1>2, <2>1
<1>10. Written => UNCHANGED workers
  BY DEF Written, registry
<1>11. Same => Succeeds
  BY DEF Succeeds
<1> HIDE DEF Same
<1>12. ASSUME NEW e, NEW w, NEW boot, NEW c, NEW g, RegisterWorker(e, w, boot, c, g)
       PROVE  Succeeds
  BY <1>1, <1>12, RegisterWorkerSucceeds
<1> QED
  BY <1>1, <1>3, <1>4, <1>5, <1>6, <1>7, <1>8, <1>9, <1>10, <1>11, <1>12, CallSteps

\* README "Worker death and reincarnation": whoever registers under another boot is
\* its critic's incumbent from then on, in every epoch.
THEOREM ReplacementSucceeds == JournaledSpec => ReplacementTakesOver
<1>1. ASSUME DurableInv, DurableNext
      PROVE  UNCHANGED <<epoch, workers, incumbents>> \/ epoch' # epoch \/ Succeeds
  <2>1. CASE Call
    BY <1>1, <2>1, CallSucceeds DEF Call
  <2>2. CASE FenceAfterFailure
    <3>1. Control \/ Incarnation \/ Output
      BY <2>2 DEF FenceAfterFailure, Incarnation
    <3> QED BY <1>1, <3>1, CallSucceeds
  <2>3. CASE AppendEntry \/ AppendFails \/ Stop
    BY <2>3 DEF AppendEntry, AppendFails, Stop, vars
  <2>4. CASE Reboot /\ epoch' = epoch
    <3>1. durable.epoch + 1 = epoch /\ durable.epoch \in Nat
      BY <1>1, <2>4 DEF Reboot, DurableInv, StoreOK
    <3>2. workers = Cleared(durable.workers)
      BY <1>1, <3>1 DEF DurableInv, ServingInv, Starting, Up, Stopped
    <3> QED BY <2>4, <3>2 DEF Reboot, Succeeds
  <2>5. CASE OvertakenCall
    BY <1>1, <2>5, OvertakenCalls, CallSucceeds
  <2> QED BY <1>1, <2>1, <2>2, <2>3, <2>4, <2>5 DEF DurableNext
<1>2. DurableInv /\ [DurableNext]_<<vars, journaling>>
        => UNCHANGED <<epoch, workers, incumbents>> \/ epoch' # epoch \/ Succeeds
  BY <1>1 DEF vars
<1>3. DurableInv /\ [DurableNext]_<<vars, journaling>> =>
        [\A w \in DOMAIN workers' :
            epoch' = epoch /\ (w \in DOMAIN workers => workers'[w].boot # workers[w].boot) =>
                incumbents'[workers'[w].critic] = w]_<<epoch, workers, incumbents>>
  BY <1>2 DEF Succeeds
<1> QED
  BY <1>3, DurableSafe, PTL DEF JournaledSpec, ReplacementTakesOver

LEMMA OutcomeInvInit == Init /\ JournalInit => OutcomeInv
<1> SUFFICES ASSUME Init, JournalInit
             PROVE  OutcomeInv
  OBVIOUS
<1>1. DOMAIN reviews = {} /\ closed = {}
  BY DEF Init, EmptyMap, JournalInit
<1> QED
  BY <1>1 DEF OutcomeInv, Acknowledged, AllCarried

LEMMA OutcomeInvStep ==
    ASSUME DurableInv, OutcomeInv, [DurableNext]_<<vars, journaling>>
    PROVE  OutcomeInv'
<1>1. CASE Call
  <2>1. /\ ~failed /\ serving = "up" /\ pending = <<>> /\ (Control \/ Incarnation \/ Output)
        /\ pending' = CallEntries /\ UNCHANGED <<durable, closed>>
    BY <1>1 DEF Call
  <2>2. Acknowledged /\ AllCarried
    BY <2>1 DEF OutcomeInv
  <2>3. Acknowledged'
    BY <2>1, <2>2, CallAcknowledges
  <2>4. AllCarried'
    BY <2>1, <2>2, CallCarries
  <2> QED BY <2>3, <2>4 DEF OutcomeInv
<1>2. CASE FenceAfterFailure
  <2>1. failed' /\ pending' = CallEntries /\ UNCHANGED <<durable, closed>>
    BY <1>2 DEF FenceAfterFailure
  <2>2. Control \/ Incarnation \/ Output
    BY <1>2 DEF FenceAfterFailure, Incarnation
  <2>3. Acknowledged'
    BY <2>1, <2>2, CallAcknowledges DEF OutcomeInv
  <2> QED BY <2>1, <2>3 DEF OutcomeInv
<1>3. CASE UNCHANGED <<vars, journaling>>
  <2>1. UNCHANGED <<reviews, durable, pending, serving, failed, closed>>
    BY <1>3 DEF vars, journaling
  <2> QED BY <2>1 DEF OutcomeInv, Acknowledged, AllCarried, Carried, Mentions
<1>4. CASE Stop
  <2>1. UNCHANGED <<reviews, durable, pending, closed>> /\ serving' = "stopped"
    BY <1>4 DEF Stop, vars
  <2> QED BY <2>1 DEF OutcomeInv, Acknowledged
<1> QED
  BY <1>1, <1>2, <1>3, <1>4, OutcomeAppended, OutcomeAppendFails, OvertakenAcknowledges,
     OutcomeRecovered DEF DurableNext

\* README "Coordinator restart": an outcome that a caller has been told by a call
\* that returned before stop stays the outcome of its review, wherever later calls,
\* appends and starts are cut off, and whatever stop overtakes.
THEOREM AcknowledgedSurvive == JournaledSpec => []AcknowledgedOutcomesSurvive
<1>1. Init /\ JournalInit => OutcomeInv
  BY OutcomeInvInit
<1>2. DurableInv /\ OutcomeInv /\ [DurableNext]_<<vars, journaling>> => OutcomeInv'
  BY OutcomeInvStep
<1>3. OutcomeInv => AcknowledgedOutcomesSurvive
  BY OutcomesNamed DEF OutcomeInv, Acknowledged, AcknowledgedOutcomesSurvive
<1> QED
  BY <1>1, <1>2, <1>3, DurableSafe, PTL DEF JournaledSpec

=============================================================================
