----------------------------- MODULE ReviewProofs -----------------------------
(***************************************************************************)
(* Theorems about the registry of the coordinator and the reviews it       *)
(* holds: their types; that the incumbency rule and the fencing leave each *)
(* critic at most one voice; and that a review's claim to be authoritative *)
(* follows its target's generation.                                        *)
(***************************************************************************)
EXTENDS Coordinator, EvaluationProofs, FiniteSetTheorems

-----------------------------------------------------------------------------
(* Maps.                                                                   *)

\* The map after one insertion or overwrite.
LEMMA PutIsMap ==
    ASSUME NEW f, NEW K, NEW V, NEW k \in K, NEW v \in V, IsMap(f, K, V)
    PROVE  IsMap(Put(f, k, v), K, V)
  BY DEF IsMap, Put

\* A map rewritten entry by entry.
LEMMA MappedIsMap ==
    ASSUME NEW f, NEW K, NEW V, NEW g, IsMap(f, K, V),
           g = [k \in DOMAIN f |-> g[k]], \A k \in DOMAIN f : g[k] \in V
    PROVE  IsMap(g, K, V) /\ DOMAIN g = DOMAIN f
  BY DEF IsMap

\* Silencing keeps every field but the two that make a worker authoritative.
LEMMA SilencedWorkers ==
    ASSUME NEW ws, IsMap(workers, Workers, Worker)
    PROVE  /\ IsMap(Silenced(ws), Workers, Worker)
           /\ DOMAIN Silenced(ws) = DOMAIN workers
           /\ \A w \in DOMAIN workers :
                /\ Silenced(ws)[w].boot = workers[w].boot
                /\ Silenced(ws)[w].critic = workers[w].critic
                /\ Silenced(ws)[w].criticGeneration = workers[w].criticGeneration
                /\ Silenced(ws)[w].bootOrder = workers[w].bootOrder
                /\ Silenced(ws)[w].ready <=> workers[w].ready /\ w \notin ws
                /\ Silenced(ws)[w].healthy <=> workers[w].healthy /\ w \notin ws
<1>1. \A w \in DOMAIN workers : workers[w] \in Worker
  BY DEF IsMap
<1>2. \A w \in DOMAIN workers :
        Silenced(ws)[w] = IF w \in ws THEN [workers[w] EXCEPT !.ready = FALSE, !.healthy = FALSE]
                          ELSE workers[w]
  BY DEF Silenced
<1>3. Silenced(ws) = [w \in DOMAIN workers |-> Silenced(ws)[w]]
      /\ DOMAIN Silenced(ws) = DOMAIN workers
  BY DEF Silenced
<1>4. \A w \in DOMAIN workers : Silenced(ws)[w] \in Worker
  BY <1>1, <1>2 DEF Worker
<1>5. IsMap(Silenced(ws), Workers, Worker)
  BY <1>3, <1>4 DEF IsMap
<1>6. ASSUME NEW w \in DOMAIN workers
      PROVE  /\ Silenced(ws)[w].boot = workers[w].boot
             /\ Silenced(ws)[w].critic = workers[w].critic
             /\ Silenced(ws)[w].criticGeneration = workers[w].criticGeneration
             /\ Silenced(ws)[w].bootOrder = workers[w].bootOrder
             /\ Silenced(ws)[w].ready <=> workers[w].ready /\ w \notin ws
             /\ Silenced(ws)[w].healthy <=> workers[w].healthy /\ w \notin ws
  <2>1. workers[w] \in Worker
    BY <1>1
  <2>2. CASE w \in ws
    <3>1. Silenced(ws)[w] = [workers[w] EXCEPT !.ready = FALSE, !.healthy = FALSE]
      BY <1>2, <2>2
    <3> QED BY <2>1, <2>2, <3>1 DEF Worker
  <2>3. CASE w \notin ws
    BY <1>2, <2>3
  <2> QED BY <2>2, <2>3
<1> QED
  BY <1>3, <1>5, <1>6

-----------------------------------------------------------------------------
(* The shape of a step.                                                    *)

\* Everything but registration, readiness, fencing and restart leaves the
\* registry alone.
LEMMA RegistrySteps ==
    ASSUME Next
    PROVE  \/ \E e \in Epochs, t \in Targets, content \in Contents :
                RegisterTarget(e, t, content) \/ AdvanceTarget(e, t, content)
           \/ \E e \in Epochs, c \in Critics, capability \in Capabilities :
                \/ RegisterCritic(e, c, capability)
                \/ \E advance \in BOOLEAN : AdvanceCritic(e, c, capability, advance)
           \/ Incarnation
           \/ Restart
           \/ UNCHANGED <<epoch, registry>>
<1>1. CASE Control
  <2>1. ASSUME NEW e, NEW r, NEW t, NEW g, NEW spec, DeclareReview(e, r, t, g, spec)
        PROVE  UNCHANGED <<epoch, registry>>
    BY <2>1 DEF DeclareReview
  <2>2. ASSUME NEW e, NEW r, NEW batch, AssignCritics(e, r, batch)
        PROVE  UNCHANGED <<epoch, registry>>
    BY <2>2 DEF AssignCritics
  <2>3. ASSUME NEW e, NEW r, CommitReview(e, r) \/ CancelReview(e, r)
        PROVE  UNCHANGED <<epoch, registry>>
    BY <2>3 DEF CommitReview, CancelReview
  <2> QED
    BY <1>1, <2>1, <2>2, <2>3 DEF Control
<1>2. CASE Output
  <2>1. ASSUME NEW m, NEW input, NEW f, SubmitEvidence(m, input, f)
        PROVE  UNCHANGED <<epoch, registry>>
    BY <2>1 DEF SubmitEvidence
  <2>2. ASSUME NEW m, NEW input, NEW f, SubmitFinding(m, input, f)
        PROVE  UNCHANGED <<epoch, registry>>
    BY <2>2 DEF SubmitFinding
  <2>3. ASSUME NEW m, NEW f, SubmitChallenge(m, f)
        PROVE  UNCHANGED <<epoch, registry>>
    BY <2>3 DEF SubmitChallenge
  <2>4. ASSUME NEW m, NEW ch, NEW outcome, SubmitRebuttal(m, ch, outcome)
        PROVE  UNCHANGED <<epoch, registry>>
    BY <2>4 DEF SubmitRebuttal
  <2> QED
    BY <1>2, <2>1, <2>2, <2>3, <2>4 DEF Output
<1> QED
  BY <1>1, <1>2 DEF Next

-----------------------------------------------------------------------------
(* Type correctness.                                                       *)

\* The empty coordinator is well-typed.
LEMMA RegistryTypeInit == Init => RegistryTypeOK
<1> SUFFICES ASSUME Init PROVE RegistryTypeOK
  OBVIOUS
<1>1. 1 \in Epochs /\ 1 \in BootOrders
  BY BoundsAssumption DEF Epochs, BootOrders
<1>2. \A K, V : IsMap(EmptyMap, K, V)
  BY DEF IsMap, EmptyMap
<1> QED
  BY <1>1, <1>2 DEF Init, RegistryTypeOK

\* A map of incumbents stays one when workers are silenced or registered.
LEMMA IncumbentsStayKnown ==
    ASSUME NEW f, NEW W, NEW V, IsMap(f, Critics, W), W \subseteq V
    PROVE  IsMap(f, Critics, V)
  BY DEF IsMap

\* Fencing any set of workers keeps the registry well-typed (fence_worker_locked).
LEMMA FenceType ==
    ASSUME RegistryTypeOK, NEW ws, workers' = Silenced(ws),
           UNCHANGED <<epoch, targets, incumbents, nextBootOrder>>,
           IsMap(critics', Critics, Critic)
    PROVE  RegistryTypeOK'
<1>1. IsMap(workers', Workers, Worker) /\ DOMAIN workers' = DOMAIN workers
  BY SilencedWorkers DEF RegistryTypeOK
<1> QED
  BY <1>1 DEF RegistryTypeOK

\* So does registering an incarnation, which adds one worker and one boot order.
LEMMA RegisterWorkerType ==
    ASSUME RegistryTypeOK, NEW e \in Epochs, NEW w \in Workers, NEW boot \in Boots,
           NEW c \in Critics, NEW g \in CriticGenerations, RegisterWorker(e, w, boot, c, g)
    PROVE  RegistryTypeOK'
<1> DEFINE competing == {v \in WorkersOf(c) \ {w} : Authoritative(v)}
           fenced    == Fenceable({w} \cup competing)
           fresh     == [boot |-> boot, critic |-> c, criticGeneration |-> g,
                         ready |-> FALSE, healthy |-> FALSE, bootOrder |-> nextBootOrder]
<1>1. /\ workers' = Put(Silenced(fenced), w, fresh)
      /\ incumbents' = IncumbentAfter(c, w, workers')
      /\ nextBootOrder < MaxBootOrder
      /\ nextBootOrder' = nextBootOrder + 1
      /\ UNCHANGED <<epoch, targets, critics>>
  BY DEF RegisterWorker
<1> HIDE DEF fenced, competing
<1>2. nextBootOrder \in BootOrders /\ nextBootOrder' \in BootOrders
  BY <1>1, BoundsAssumption DEF RegistryTypeOK, BootOrders
<1>3. fresh \in Worker
  BY <1>2 DEF Worker
<1> HIDE DEF fresh
<1>4. IsMap(Silenced(fenced), Workers, Worker) /\ DOMAIN Silenced(fenced) = DOMAIN workers
  BY SilencedWorkers DEF RegistryTypeOK
<1>5. IsMap(workers', Workers, Worker) /\ DOMAIN workers' = DOMAIN workers \cup {w}
  <2> DEFINE old == Silenced(fenced)
  <2>1. IsMap(Put(old, w, fresh), Workers, Worker)
    <3> HIDE DEF old
    <3> QED BY <1>3, <1>4, PutIsMap DEF old
  <2>2. DOMAIN Put(old, w, fresh) = DOMAIN workers \cup {w}
    BY <1>4 DEF Put
  <2> QED BY <1>1, <2>1, <2>2
<1>6. IsMap(incumbents, Critics, DOMAIN workers')
  BY <1>5, IncumbentsStayKnown DEF RegistryTypeOK
<1>7. IsMap(Put(incumbents, c, w), Critics, DOMAIN workers')
  BY <1>5, <1>6, PutIsMap
<1>8. IsMap(incumbents', Critics, DOMAIN workers')
  BY <1>1, <1>6, <1>7 DEF IncumbentAfter
<1> QED
  BY <1>1, <1>2, <1>5, <1>8 DEF RegistryTypeOK

\* So does a declaration of readiness, which sets two flags of one worker.
LEMMA DeclareReadinessType ==
    ASSUME RegistryTypeOK, NEW e, NEW x, NEW ready \in BOOLEAN, NEW healthy \in BOOLEAN,
           NEW evidence, DeclareReadiness(e, x, ready, healthy, evidence)
    PROVE  RegistryTypeOK'
<1>1. /\ x.worker \in DOMAIN workers
      /\ workers' = [workers EXCEPT ![x.worker].ready = ready, ![x.worker].healthy = healthy]
      /\ UNCHANGED <<epoch, targets, critics, incumbents, nextBootOrder>>
  BY DEF DeclareReadiness, BindingCurrent
<1>2. \A w \in DOMAIN workers : workers[w] \in Worker
  BY DEF RegistryTypeOK, IsMap
<1>3. \A w \in DOMAIN workers : workers'[w] \in Worker
  BY <1>1, <1>2 DEF Worker
<1>4. IsMap(workers', Workers, Worker) /\ DOMAIN workers' = DOMAIN workers
  BY <1>1, <1>3 DEF RegistryTypeOK, IsMap
<1> QED
  BY <1>1, <1>4 DEF RegistryTypeOK

\* Every step keeps the registry well-typed.
LEMMA RegistryTypeStep == RegistryTypeOK /\ [Next]_vars => RegistryTypeOK'
<1> SUFFICES ASSUME RegistryTypeOK, [Next]_vars PROVE RegistryTypeOK'
  OBVIOUS
<1>1. ASSUME NEW e \in Epochs, NEW t \in Targets, NEW content \in Contents,
             RegisterTarget(e, t, content) \/ AdvanceTarget(e, t, content)
      PROVE  RegistryTypeOK'
  <2>1. UNCHANGED <<epoch, critics, workers, incumbents, nextBootOrder>>
    BY <1>1 DEF RegisterTarget, AdvanceTarget
  <2>2. PICK n \in TargetGenerations :
          targets' = Put(targets, t, [generation |-> n, content |-> content])
    <3>1. 1 \in TargetGenerations
      BY BoundsAssumption DEF TargetGenerations
    <3>2. ASSUME t \in DOMAIN targets, targets[t].generation < MaxTargetGeneration
          PROVE  targets[t].generation + 1 \in TargetGenerations
      <4>1. targets[t].generation \in TargetGenerations
        BY <3>2 DEF RegistryTypeOK, IsMap, Target
      <4> QED BY <3>2, <4>1, BoundsAssumption DEF TargetGenerations
    <3> QED BY <1>1, <3>1, <3>2 DEF RegisterTarget, AdvanceTarget
  <2>3. [generation |-> n, content |-> content] \in Target
    BY DEF Target
  <2>4. IsMap(targets', Targets, Target)
    BY <2>2, <2>3, PutIsMap DEF RegistryTypeOK
  <2> QED BY <2>1, <2>4 DEF RegistryTypeOK
<1>2. ASSUME NEW e \in Epochs, NEW c \in Critics, NEW capability \in Capabilities,
             RegisterCritic(e, c, capability)
      PROVE  RegistryTypeOK'
  <2>1. [generation |-> 1, capability |-> capability] \in Critic
    BY BoundsAssumption DEF Critic, CriticGenerations
  <2>2. IsMap(critics', Critics, Critic)
    BY <1>2, <2>1, PutIsMap DEF RegistryTypeOK, RegisterCritic
  <2> QED BY <1>2, <2>2 DEF RegistryTypeOK, RegisterCritic
<1>3. ASSUME NEW e \in Epochs, NEW c \in Critics, NEW capability \in Capabilities,
             NEW advance \in BOOLEAN, AdvanceCritic(e, c, capability, advance)
      PROVE  RegistryTypeOK'
  <2>1. c \in DOMAIN critics /\ critics[c].generation < MaxCriticGeneration
    BY <1>3 DEF AdvanceCritic
  <2>2. critics[c].generation + 1 \in CriticGenerations
    <3>1. critics[c].generation \in CriticGenerations
      BY <2>1 DEF RegistryTypeOK, IsMap, Critic
    <3> QED BY <2>1, <3>1, BoundsAssumption DEF CriticGenerations
  <2>3. [generation |-> critics[c].generation + 1, capability |-> capability] \in Critic
    BY <2>2 DEF Critic
  <2>4. IsMap(critics', Critics, Critic)
    BY <1>3, <2>3, PutIsMap DEF RegistryTypeOK, AdvanceCritic
  <2>5. workers' = Silenced(Fenceable(WorkersOf(c)))
        /\ UNCHANGED <<epoch, targets, incumbents, nextBootOrder>>
    BY <1>3 DEF AdvanceCritic
  <2> QED BY <2>4, <2>5, FenceType
<1>4. CASE Incarnation
  <2>1. ASSUME NEW e \in Epochs, NEW w \in Workers, NEW boot \in Boots, NEW c \in Critics,
               NEW g \in CriticGenerations, RegisterWorker(e, w, boot, c, g)
        PROVE  RegistryTypeOK'
    BY <2>1, RegisterWorkerType
  <2>2. ASSUME NEW e \in Epochs, NEW x, NEW ready \in BOOLEAN, NEW healthy \in BOOLEAN,
               NEW evidence, DeclareReadiness(e, x, ready, healthy, evidence)
        PROVE  RegistryTypeOK'
    BY <2>2, DeclareReadinessType
  <2>3. ASSUME NEW ws, Fence(ws)
        PROVE  RegistryTypeOK'
    BY <2>3, FenceType DEF Fence, RegistryTypeOK
  <2> QED BY <1>4, <2>1, <2>2, <2>3 DEF Incarnation, FenceWorker, FenceCritic
<1>5. CASE Restart
  <2>1. epoch' \in Epochs
    BY <1>5, BoundsAssumption DEF Restart, RegistryTypeOK, Epochs
  <2>2. IsMap(workers', Workers, Worker) /\ DOMAIN workers' = DOMAIN workers
    BY <1>5, SilencedWorkers DEF Restart, RegistryTypeOK
  <2> QED BY <1>5, <2>1, <2>2 DEF Restart, RegistryTypeOK
<1>6. CASE UNCHANGED <<epoch, registry>>
  BY <1>6 DEF registry, RegistryTypeOK
<1>7. CASE UNCHANGED vars
  BY <1>7 DEF vars, RegistryTypeOK
<1> QED
  BY <1>1, <1>2, <1>3, <1>4, <1>5, <1>6, <1>7, RegistrySteps

-----------------------------------------------------------------------------
(* One voice per critic.                                                   *)

\* A boot order is used once, which IncumbentIsNewest needs: the worker being
\* registered is newer than everything in the registry.
BootOrdersPast == \A w \in DOMAIN workers : workers[w].bootOrder < nextBootOrder

RegistryInv ==
    /\ RegistryTypeOK
    /\ OneVoicePerCritic
    /\ IncumbentIsNewest
    /\ BootOrdersPast

\* What the type of the registry says about one worker or incumbent.
LEMMA RegistryLookups ==
    ASSUME RegistryTypeOK
    PROVE  /\ nextBootOrder \in Nat
           /\ \A w \in DOMAIN workers :
                /\ workers[w].bootOrder \in Nat
                /\ workers[w].critic \in Critics
           /\ \A c \in DOMAIN incumbents : incumbents[c] \in DOMAIN workers
<1>1. BootOrders \subseteq Nat
  BY BoundsAssumption DEF BootOrders
<1>2. nextBootOrder \in Nat
  BY <1>1 DEF RegistryTypeOK
<1>3. \A w \in DOMAIN workers : workers[w] \in Worker
  BY DEF RegistryTypeOK, IsMap
<1>4. \A w \in DOMAIN workers :
        workers[w].bootOrder \in Nat /\ workers[w].critic \in Critics
  BY <1>1, <1>3 DEF Worker
<1>5. \A c \in DOMAIN incumbents : incumbents[c] \in DOMAIN workers
  BY DEF RegistryTypeOK, IsMap
<1> QED
  BY <1>2, <1>4, <1>5

\* Silencing workers cannot break the invariant.
LEMMA FenceKeepsRegistry ==
    ASSUME RegistryInv, NEW ws, workers' = Silenced(ws),
           UNCHANGED <<critics, incumbents, nextBootOrder>>
    PROVE  /\ OneVoicePerCritic'
           /\ IncumbentIsNewest'
           /\ BootOrdersPast'
<1>1. /\ DOMAIN workers' = DOMAIN workers
      /\ \A w \in DOMAIN workers :
            /\ workers'[w].critic = workers[w].critic
            /\ workers'[w].criticGeneration = workers[w].criticGeneration
            /\ workers'[w].bootOrder = workers[w].bootOrder
            /\ workers'[w].ready => workers[w].ready
            /\ workers'[w].healthy => workers[w].healthy
  BY SilencedWorkers DEF RegistryInv, RegistryTypeOK
<1>2. OneVoicePerCritic'
  BY <1>1 DEF RegistryInv, OneVoicePerCritic, Authoritative
<1>3. IncumbentIsNewest'
  BY <1>1, RegistryLookups DEF RegistryInv, IncumbentIsNewest
<1>4. BootOrdersPast'
  BY <1>1 DEF RegistryInv, BootOrdersPast
<1> QED
  BY <1>2, <1>3, <1>4

\* Every authoritative worker of the critic is among those a new generation of
\* the critic silences.
LEMMA AdvanceCriticKeepsRegistry ==
    ASSUME RegistryInv, NEW e, NEW c, NEW capability, NEW advance,
           AdvanceCritic(e, c, capability, advance)
    PROVE  /\ OneVoicePerCritic'
           /\ IncumbentIsNewest'
           /\ BootOrdersPast'
<1> DEFINE fenced == Fenceable(WorkersOf(c))
<1>1. /\ workers' = Silenced(fenced)
      /\ DOMAIN critics' = DOMAIN critics \cup {c}
      /\ \A d \in DOMAIN critics \ {c} : critics'[d] = critics[d]
      /\ UNCHANGED <<incumbents, nextBootOrder>>
  BY DEF AdvanceCritic, Put
<1>2. /\ DOMAIN workers' = DOMAIN workers
      /\ \A w \in DOMAIN workers :
            /\ workers'[w].critic = workers[w].critic
            /\ workers'[w].criticGeneration = workers[w].criticGeneration
            /\ workers'[w].bootOrder = workers[w].bootOrder
            /\ workers'[w].ready => workers[w].ready /\ w \notin fenced
            /\ workers'[w].healthy => workers[w].healthy
  BY <1>1, SilencedWorkers DEF RegistryInv, RegistryTypeOK
<1>3. OneVoicePerCritic'
  <2> SUFFICES ASSUME NEW w \in DOMAIN workers, Authoritative(w)'
               PROVE  /\ workers[w].critic \in DOMAIN incumbents
                      /\ incumbents[workers[w].critic] = w
                      /\ workers[w].critic \in DOMAIN critics'
                      /\ critics'[workers[w].critic].generation = workers[w].criticGeneration
    BY <1>1, <1>2 DEF OneVoicePerCritic
  <2>1. Authoritative(w) /\ w \notin fenced
    BY <1>2 DEF Authoritative
  <2>2. workers[w].critic # c
    BY <2>1 DEF Fenceable, WorkersOf, Authoritative
  <2> QED
    BY <1>1, <2>1, <2>2 DEF RegistryInv, OneVoicePerCritic
<1>4. IncumbentIsNewest'
  BY <1>1, <1>2, RegistryLookups DEF RegistryInv, IncumbentIsNewest
<1>5. BootOrdersPast'
  BY <1>1, <1>2 DEF RegistryInv, BootOrdersPast
<1> QED
  BY <1>3, <1>4, <1>5

\* The registered worker is newer than every other; whoever spoke for the
\* critic before it is silenced.
LEMMA RegisterWorkerKeepsRegistry ==
    ASSUME RegistryInv, NEW e \in Epochs, NEW w \in Workers, NEW boot \in Boots,
           NEW c \in Critics, NEW g \in CriticGenerations, RegisterWorker(e, w, boot, c, g)
    PROVE  /\ OneVoicePerCritic'
           /\ IncumbentIsNewest'
           /\ BootOrdersPast'
<1> DEFINE competing == {v \in WorkersOf(c) \ {w} : Authoritative(v)}
           fenced    == Fenceable({w} \cup competing)
           fresh     == [boot |-> boot, critic |-> c, criticGeneration |-> g,
                         ready |-> FALSE, healthy |-> FALSE, bootOrder |-> nextBootOrder]
           silenced  == Silenced(fenced)
<1>1. /\ workers' = Put(silenced, w, fresh)
      /\ incumbents' = IncumbentAfter(c, w, workers')
      /\ nextBootOrder' = nextBootOrder + 1
      /\ UNCHANGED critics
  BY DEF RegisterWorker
<1>2. /\ DOMAIN silenced = DOMAIN workers
      /\ \A v \in DOMAIN workers :
            /\ silenced[v].critic = workers[v].critic
            /\ silenced[v].criticGeneration = workers[v].criticGeneration
            /\ silenced[v].bootOrder = workers[v].bootOrder
            /\ silenced[v].ready => workers[v].ready /\ v \notin fenced
            /\ silenced[v].healthy => workers[v].healthy
  <2> HIDE DEF fenced
  <2> QED BY SilencedWorkers DEF RegistryInv, RegistryTypeOK
<1>3. \A v \in competing : v \in fenced
  BY DEF Fenceable, WorkersOf, Authoritative
<1> HIDE DEF fenced, silenced
<1>4. DOMAIN workers' = DOMAIN workers \cup {w}
  BY <1>1, <1>2 DEF Put
<1>5. /\ workers'[w].critic = c
      /\ workers'[w].bootOrder = nextBootOrder
      /\ workers'[w].ready = FALSE
  BY <1>1 DEF Put
<1>6. \A v \in DOMAIN workers \ {w} : workers'[v] = silenced[v]
  BY <1>1, <1>2 DEF Put
<1> HIDE DEF fresh
<1>7. \A v \in DOMAIN workers' : workers'[v].bootOrder <= nextBootOrder
  BY <1>2, <1>4, <1>5, <1>6, RegistryLookups DEF RegistryInv, BootOrdersPast
<1>8. BootOrdersPast'
  <2>1. \A v \in DOMAIN workers' : workers'[v].bootOrder \in Nat
    BY <1>2, <1>4, <1>5, <1>6, RegistryLookups DEF RegistryInv
  <2> QED
    BY <1>1, <1>7, <2>1, RegistryLookups DEF RegistryInv, BootOrdersPast
<1>9. /\ DOMAIN incumbents' = DOMAIN incumbents \cup {c}
      /\ incumbents'[c] = w
      /\ \A d \in DOMAIN incumbents \ {c} : incumbents'[d] = incumbents[d]
  <2>1. CASE c \in DOMAIN incumbents /\ workers'[w].bootOrder <= workers'[incumbents[c]].bootOrder
    <3>1. incumbents' = incumbents
      BY <1>1, <2>1 DEF IncumbentAfter
    <3>2. incumbents[c] \in DOMAIN workers
      BY <2>1, RegistryLookups DEF RegistryInv
    <3>3. ASSUME incumbents[c] # w PROVE FALSE
      <4>1. workers'[incumbents[c]].bootOrder = workers[incumbents[c]].bootOrder
        BY <1>2, <1>6, <3>2, <3>3
      <4>2. workers[incumbents[c]].bootOrder < nextBootOrder
        BY <3>2 DEF RegistryInv, BootOrdersPast
      <4> QED BY <1>5, <2>1, <3>2, <4>1, <4>2, RegistryLookups DEF RegistryInv
    <3> QED BY <2>1, <3>1, <3>3
  <2>2. CASE ~(c \in DOMAIN incumbents
               /\ workers'[w].bootOrder <= workers'[incumbents[c]].bootOrder)
    BY <1>1, <2>2 DEF IncumbentAfter, Put
  <2> QED BY <2>1, <2>2
<1>10. IncumbentIsNewest'
  <2> SUFFICES ASSUME NEW v \in DOMAIN workers'
               PROVE  /\ workers'[v].critic \in DOMAIN incumbents'
                      /\ workers'[v].bootOrder
                            <= workers'[incumbents'[workers'[v].critic]].bootOrder
    BY DEF IncumbentIsNewest
  <2>1. CASE workers'[v].critic = c
    BY <1>5, <1>7, <1>9, <2>1
  <2>2. CASE workers'[v].critic # c
    <3> DEFINE d == workers[v].critic
    <3>1. /\ v \in DOMAIN workers \ {w}
          /\ workers'[v].critic = d
          /\ workers'[v].bootOrder = workers[v].bootOrder
          /\ d # c
      BY <1>2, <1>4, <1>5, <1>6, <2>2
    <3>2. /\ d \in DOMAIN incumbents
          /\ workers[v].bootOrder <= workers[incumbents[d]].bootOrder
          /\ incumbents[d] \in DOMAIN workers
      BY <3>1, RegistryLookups DEF RegistryInv, IncumbentIsNewest
    <3>3. d \in DOMAIN incumbents' /\ incumbents'[d] = incumbents[d]
      BY <1>9, <3>1, <3>2
    <3>4. CASE incumbents[d] = w
      BY <1>5, <1>7, <3>1, <3>3, <3>4
    <3>5. CASE incumbents[d] # w
      BY <1>2, <1>6, <3>1, <3>2, <3>3, <3>5
    <3> QED BY <3>4, <3>5
  <2> QED BY <2>1, <2>2
<1>11. OneVoicePerCritic'
  <2> SUFFICES ASSUME NEW v \in DOMAIN workers', Authoritative(v)'
               PROVE  /\ workers'[v].critic \in DOMAIN incumbents'
                      /\ incumbents'[workers'[v].critic] = v
                      /\ workers'[v].critic \in DOMAIN critics'
                      /\ critics'[workers'[v].critic].generation = workers'[v].criticGeneration
    BY DEF OneVoicePerCritic
  <2>1. v \in DOMAIN workers \ {w}
    BY <1>4, <1>5 DEF Authoritative
  <2>2. /\ workers'[v].critic = workers[v].critic
        /\ workers'[v].criticGeneration = workers[v].criticGeneration
        /\ Authoritative(v)
        /\ v \notin fenced
    BY <1>2, <1>6, <2>1 DEF Authoritative
  <2>3. workers[v].critic # c
    BY <1>3, <2>1, <2>2 DEF WorkersOf
  <2> QED
    BY <1>1, <1>9, <2>1, <2>2, <2>3 DEF RegistryInv, OneVoicePerCritic
<1> QED
  BY <1>8, <1>10, <1>11

\* Only the incumbent of the critic's current generation may declare itself.
LEMMA DeclareReadinessKeepsRegistry ==
    ASSUME RegistryInv, NEW e, NEW x, NEW ready \in BOOLEAN, NEW healthy \in BOOLEAN,
           NEW evidence, DeclareReadiness(e, x, ready, healthy, evidence)
    PROVE  /\ OneVoicePerCritic'
           /\ IncumbentIsNewest'
           /\ BootOrdersPast'
<1>1. /\ BindingCurrent(x)
      /\ workers' = [workers EXCEPT ![x.worker].ready = ready, ![x.worker].healthy = healthy]
      /\ UNCHANGED <<critics, incumbents, nextBootOrder>>
  BY DEF DeclareReadiness
<1>2. \A w \in DOMAIN workers : workers[w] \in Worker
  BY DEF RegistryInv, RegistryTypeOK, IsMap
<1>3. /\ DOMAIN workers' = DOMAIN workers
      /\ \A w \in DOMAIN workers :
            /\ workers'[w].critic = workers[w].critic
            /\ workers'[w].criticGeneration = workers[w].criticGeneration
            /\ workers'[w].bootOrder = workers[w].bootOrder
            /\ w # x.worker => workers'[w] = workers[w]
  BY <1>1, <1>2 DEF Worker
<1>4. OneVoicePerCritic'
  BY <1>1, <1>3 DEF RegistryInv, OneVoicePerCritic, Authoritative, BindingCurrent
<1>5. IncumbentIsNewest'
  BY <1>1, <1>3, RegistryLookups DEF RegistryInv, IncumbentIsNewest
<1>6. BootOrdersPast'
  BY <1>1, <1>3 DEF RegistryInv, BootOrdersPast
<1> QED
  BY <1>4, <1>5, <1>6

\* The registry invariant holds before anyone has registered.
LEMMA RegistryInvInit == Init => RegistryInv
<1> SUFFICES ASSUME Init PROVE RegistryInv
  OBVIOUS
<1>1. DOMAIN workers = {}
  BY DEF Init, EmptyMap
<1> QED
  BY <1>1, RegistryTypeInit DEF RegistryInv, OneVoicePerCritic, IncumbentIsNewest, BootOrdersPast

\* Every step keeps the registry invariant.
LEMMA RegistryInvStep == RegistryInv /\ [Next]_vars => RegistryInv'
<1> SUFFICES ASSUME RegistryInv, [Next]_vars
             PROVE  OneVoicePerCritic' /\ IncumbentIsNewest' /\ BootOrdersPast'
  BY RegistryTypeStep DEF RegistryInv
<1>1. ASSUME UNCHANGED <<workers, incumbents, nextBootOrder>>, UNCHANGED critics
      PROVE  OneVoicePerCritic' /\ IncumbentIsNewest' /\ BootOrdersPast'
  BY <1>1 DEF RegistryInv, OneVoicePerCritic, IncumbentIsNewest, BootOrdersPast, Authoritative
<1>2. ASSUME NEW e, NEW t, NEW content,
             RegisterTarget(e, t, content) \/ AdvanceTarget(e, t, content)
      PROVE  OneVoicePerCritic' /\ IncumbentIsNewest' /\ BootOrdersPast'
  BY <1>1, <1>2 DEF RegisterTarget, AdvanceTarget
<1>3. ASSUME NEW e, NEW c, NEW capability, RegisterCritic(e, c, capability)
      PROVE  OneVoicePerCritic' /\ IncumbentIsNewest' /\ BootOrdersPast'
  <2>1. /\ UNCHANGED <<workers, incumbents, nextBootOrder>>
        /\ \A d \in DOMAIN critics : d \in DOMAIN critics' /\ critics'[d] = critics[d]
    BY <1>3 DEF RegisterCritic, Put
  <2> QED
    BY <2>1 DEF RegistryInv, OneVoicePerCritic, IncumbentIsNewest, BootOrdersPast, Authoritative
<1>4. ASSUME NEW e, NEW c, NEW capability, NEW advance, AdvanceCritic(e, c, capability, advance)
      PROVE  OneVoicePerCritic' /\ IncumbentIsNewest' /\ BootOrdersPast'
  BY <1>4, AdvanceCriticKeepsRegistry
<1>5. CASE Incarnation
  <2>1. ASSUME NEW e \in Epochs, NEW w \in Workers, NEW boot \in Boots, NEW c \in Critics,
               NEW g \in CriticGenerations, RegisterWorker(e, w, boot, c, g)
        PROVE  OneVoicePerCritic' /\ IncumbentIsNewest' /\ BootOrdersPast'
    BY <2>1, RegisterWorkerKeepsRegistry
  <2>2. ASSUME NEW e, NEW x, NEW ready \in BOOLEAN, NEW healthy \in BOOLEAN, NEW evidence,
               DeclareReadiness(e, x, ready, healthy, evidence)
        PROVE  OneVoicePerCritic' /\ IncumbentIsNewest' /\ BootOrdersPast'
    BY <2>2, DeclareReadinessKeepsRegistry
  <2>3. ASSUME NEW ws, Fence(ws)
        PROVE  OneVoicePerCritic' /\ IncumbentIsNewest' /\ BootOrdersPast'
    BY <2>3, FenceKeepsRegistry DEF Fence
  <2> QED BY <1>5, <2>1, <2>2, <2>3 DEF Incarnation, FenceWorker, FenceCritic
<1>6. CASE Restart
  BY <1>6, FenceKeepsRegistry DEF Restart
<1>7. CASE UNCHANGED <<epoch, registry>>
  BY <1>1, <1>7 DEF registry
<1>8. CASE UNCHANGED vars
  BY <1>1, <1>8 DEF vars
<1> QED
  BY <1>2, <1>3, <1>4, <1>5, <1>6, <1>7, <1>8, RegistrySteps

\* The registry invariant holds in every run: types, one voice per critic, the
\* newest incumbent, and boot orders that have all been handed out already.
THEOREM RegistrySafe == Spec => []RegistryInv
  BY RegistryInvInit, RegistryInvStep, PTL DEF Spec

\* README "Critic model": no critic ever has two voices, for any number of
\* critics, workers, boots and restarts.
THEOREM OneVoice == Spec => []OneVoicePerCritic
  BY RegistrySafe, PTL DEF RegistryInv

\* The incumbent of a critic is always its newest process, also when workers
\* move between critics (register_worker, apply_entry_locked).
THEOREM NewestSpeaks == Spec => []IncumbentIsNewest
  BY RegistrySafe, PTL DEF RegistryInv

-----------------------------------------------------------------------------
(* Finite sets.                                                            *)

\* The records rewritten one by one remain finitely many.
LEMMA FiniteImage ==
    ASSUME NEW S, IsFiniteSet(S), NEW f, f = [x \in S |-> f[x]]
    PROVE  IsFiniteSet({f[x] : x \in S})
<1> DEFINE T == {f[x] : x \in S}
<1>1. f \in [S -> T]
  OBVIOUS
<1>2. f \in Surjection(S, T)
  BY <1>1 DEF Surjection
<1> QED
  BY <1>2, FS_Surjection

\* The identity of the next record of a review.
LEMMA FreshIsId ==
    ASSUME NEW S, IsFiniteSet(S)
    PROVE  Fresh(S) \in Ids
<1>1. Cardinality(S) \in Nat
  BY FS_CardinalityType
<1> QED
  BY <1>1 DEF Fresh, Ids

-----------------------------------------------------------------------------
(* Reviews keep their type, their target and finitely many records.        *)

Kept(rev, new) ==
    /\ new \in Review
    /\ FiniteRecords(new)
    /\ new.target = rev.target
    /\ new.targetGeneration = rev.targetGeneration

\* What TypeOK says about one review.
LEMMA ReviewLookups ==
    ASSUME TypeOK, NEW r \in DOMAIN reviews
    PROVE  /\ reviews[r] \in Review
           /\ FiniteRecords(reviews[r])
           /\ reviews[r].target \in DOMAIN targets
  BY DEF TypeOK, ReviewsTypeOK, IsMap

\* A review left alone is kept.
LEMMA KeptSelf ==
    ASSUME NEW rev \in Review, FiniteRecords(rev)
    PROVE  Kept(rev, rev)
  BY DEF Kept

\* A step that keeps every review keeps the reviews well-typed.
LEMMA KeptByAll ==
    ASSUME TypeOK, reviews' = [r \in DOMAIN reviews |-> reviews'[r]],
           \A r \in DOMAIN reviews : Kept(reviews[r], reviews'[r]),
           DOMAIN targets \subseteq DOMAIN targets'
    PROVE  ReviewsTypeOK'
<1>1. DOMAIN reviews' = DOMAIN reviews
  OBVIOUS
<1>2. \A r \in DOMAIN reviews : reviews'[r] \in Review
  BY DEF Kept
<1>3. IsMap(reviews', Requests, Review)
  BY <1>1, <1>2 DEF IsMap, TypeOK, ReviewsTypeOK
<1>4. \A r \in DOMAIN reviews :
         reviews'[r].target \in DOMAIN targets' /\ FiniteRecords(reviews'[r])
  BY ReviewLookups DEF Kept
<1> QED
  BY <1>1, <1>3, <1>4 DEF ReviewsTypeOK

\* A call that keeps the review it changes keeps the reviews well-typed.
LEMMA KeptByOne ==
    ASSUME TypeOK, NEW r \in DOMAIN reviews, NEW new, Kept(reviews[r], new),
           reviews' = [reviews EXCEPT ![r] = new], UNCHANGED targets
    PROVE  ReviewsTypeOK'
<1>1. IsMap(reviews, Requests, Review)
  BY DEF TypeOK, ReviewsTypeOK
<1>2. reviews' = [x \in DOMAIN reviews |-> reviews'[x]]
  BY <1>1
<1>3. \A x \in DOMAIN reviews : Kept(reviews[x], reviews'[x])
  <2>1. \A x \in DOMAIN reviews : Kept(reviews[x], reviews[x])
    BY ReviewLookups, KeptSelf
  <2>2. reviews'[r] = new
    BY <1>1
  <2>3. \A x \in DOMAIN reviews \ {r} : reviews'[x] = reviews[x]
    BY <1>1
  <2> QED BY <2>1, <2>2, <2>3
<1> QED
  BY <1>2, <1>3, KeptByAll

-----------------------------------------------------------------------------
(* Withdrawing authority.                                                  *)

\* revalidate_review_locked touches three fields.
LEMMA RevalidateKeeps ==
    ASSUME NEW rev \in Review, FiniteRecords(rev)
    PROVE  Kept(rev, Revalidate(rev))
<1>1. "RevalidationRequired" \in ReviewStates /\ "RevalidationRequired" \in Dispositions
  BY DEF ReviewStates, Dispositions
<1> QED
  BY <1>1 DEF Kept, Revalidate, Review, FiniteRecords

\* Deactivated assignments are assignments.
LEMMA DeactivatedType ==
    ASSUME NEW rev \in Review, NEW retired
    PROVE  {IF a \in retired THEN [a EXCEPT !.active = FALSE] ELSE a : a \in rev.assignments}
             \subseteq Assignment
<1>1. \A a \in rev.assignments : a \in Assignment
  BY DEF Review
<1>2. \A a \in Assignment : [a EXCEPT !.active = FALSE] \in Assignment
  BY DEF Assignment
<1> QED
  BY <1>1, <1>2

\* Deactivating assignments rewrites the set of assignments one by one.
LEMMA RetireKeeps ==
    ASSUME NEW rev \in Review, FiniteRecords(rev), NEW retired
    PROVE  Kept(rev, Retire(rev, retired))
<1> DEFINE f   == [a \in rev.assignments |->
                     IF a \in retired THEN [a EXCEPT !.active = FALSE] ELSE a]
           new == [rev EXCEPT !.assignments =
                     {IF a \in retired THEN [a EXCEPT !.active = FALSE] ELSE a : a \in @}]
<1>1. IsFiniteSet({f[a] : a \in rev.assignments})
  <2>1. IsFiniteSet(rev.assignments) /\ f = [x \in rev.assignments |-> f[x]]
    BY DEF FiniteRecords
  <2> HIDE DEF f
  <2> QED BY <2>1, FiniteImage
<1>2. {f[a] : a \in rev.assignments}
        = {IF a \in retired THEN [a EXCEPT !.active = FALSE] ELSE a : a \in rev.assignments}
  OBVIOUS
<1>3. {f[a] : a \in rev.assignments} \subseteq Assignment
  BY <1>2, DeactivatedType
<1>4. /\ new \in Review
      /\ new.assignments = {f[a] : a \in rev.assignments}
      /\ new.findings = rev.findings
      /\ new.evidences = rev.evidences
      /\ new.challenges = rev.challenges
      /\ new.target = rev.target
      /\ new.targetGeneration = rev.targetGeneration
  <2>1. new = [rev EXCEPT !.assignments = {f[a] : a \in rev.assignments}]
    BY <1>2
  <2> HIDE DEF f, new
  <2> QED BY <1>3, <2>1 DEF Review
<1>5. FiniteRecords(new)
  BY <1>1, <1>4 DEF FiniteRecords
<1>6. Retire(rev, retired) = IF retired = {} THEN rev ELSE Revalidate(new)
  BY DEF Retire
<1> HIDE DEF new
<1> QED
  BY <1>4, <1>5, <1>6, RevalidateKeeps, KeptSelf DEF Kept

\* Closing a review rewrites its findings one by one.
LEMMA SupersedeKeeps ==
    ASSUME NEW rev \in Review, FiniteRecords(rev)
    PROVE  Kept(rev, Supersede(rev))
<1> DEFINE f   == [g \in rev.findings |-> IF g.state \in CurrentFindingStates
                                          THEN [g EXCEPT !.state = "Invalidated"] ELSE g]
           new == [rev EXCEPT
                     !.authorityCurrent = FALSE,
                     !.findings = {IF g.state \in CurrentFindingStates
                                   THEN [g EXCEPT !.state = "Invalidated"] ELSE g : g \in @}]
<1>1. IsFiniteSet({f[g] : g \in rev.findings})
  <2>1. IsFiniteSet(rev.findings) /\ f = [x \in rev.findings |-> f[x]]
    BY DEF FiniteRecords
  <2> HIDE DEF f
  <2> QED BY <2>1, FiniteImage
<1>2. {f[g] : g \in rev.findings}
        = {IF g.state \in CurrentFindingStates THEN [g EXCEPT !.state = "Invalidated"] ELSE g
             : g \in rev.findings}
  OBVIOUS
<1>3. {f[g] : g \in rev.findings} \subseteq Finding
  <2>1. \A g \in rev.findings : g \in Finding
    BY DEF Review
  <2>2. \A g \in Finding : [g EXCEPT !.state = "Invalidated"] \in Finding
    BY DEF Finding, FindingStates
  <2> QED BY <2>1, <2>2
<1>4. /\ new \in Review
      /\ new.assignments = rev.assignments
      /\ new.findings = {f[g] : g \in rev.findings}
      /\ new.evidences = rev.evidences
      /\ new.challenges = rev.challenges
      /\ new.target = rev.target
      /\ new.targetGeneration = rev.targetGeneration
  <2>1. new = [rev EXCEPT !.authorityCurrent = FALSE,
                          !.findings = {f[g] : g \in rev.findings}]
    BY <1>2
  <2> HIDE DEF f, new
  <2> QED BY <1>3, <2>1 DEF Review
<1>5. FiniteRecords(new)
  BY <1>1, <1>4 DEF FiniteRecords
<1>6. Supersede(rev) = IF rev.state \in TerminalStates THEN new
                       ELSE [new EXCEPT !.state = "Superseded", !.disposition = "Superseded"]
  BY DEF Supersede
<1> HIDE DEF new
<1>7. "Superseded" \in ReviewStates /\ "Superseded" \in Dispositions
  BY DEF ReviewStates, Dispositions
<1> QED
  BY <1>4, <1>5, <1>6, <1>7 DEF Kept, Review, FiniteRecords

\* What a step outside the reviews' own calls does to them.
LEMMA WithdrawalTypes ==
    ASSUME TypeOK
    PROVE  /\ \A e, t, content : AdvanceTarget(e, t, content) => ReviewsTypeOK'
           /\ \A e, c, capability, advance :
                AdvanceCritic(e, c, capability, advance) => ReviewsTypeOK'
           /\ \A e, w, boot, c, g : RegisterWorker(e, w, boot, c, g) => ReviewsTypeOK'
           /\ \A ws : Fence(ws) => ReviewsTypeOK'
           /\ Restart => ReviewsTypeOK'
<1>1. \A r \in DOMAIN reviews :
        /\ Kept(reviews[r], reviews[r])
        /\ Kept(reviews[r], Supersede(reviews[r]))
        /\ Kept(reviews[r], Revalidate(reviews[r]))
        /\ \A retired : Kept(reviews[r], Retire(reviews[r], retired))
  BY ReviewLookups, KeptSelf, SupersedeKeeps, RevalidateKeeps, RetireKeeps
<1>2. ASSUME NEW e, NEW t, NEW content, AdvanceTarget(e, t, content)
      PROVE  ReviewsTypeOK'
  <2>1. DOMAIN targets \subseteq DOMAIN targets'
    BY <1>2 DEF AdvanceTarget, Put
  <2>2. reviews' = [r \in DOMAIN reviews |-> reviews'[r]]
    BY <1>2 DEF AdvanceTarget
  <2>3. \A r \in DOMAIN reviews : reviews'[r] \in {Supersede(reviews[r]), reviews[r]}
    BY <1>2 DEF AdvanceTarget
  <2> QED BY <1>1, <2>1, <2>2, <2>3, KeptByAll
<1>3. ASSUME reviews' = [r \in DOMAIN reviews |-> reviews'[r]], UNCHANGED targets,
             \A r \in DOMAIN reviews : \E retired : reviews'[r] = Retire(reviews[r], retired)
      PROVE  ReviewsTypeOK'
  BY <1>1, <1>3, KeptByAll
<1>4. ASSUME NEW e, NEW c, NEW capability, NEW advance, AdvanceCritic(e, c, capability, advance)
      PROVE  ReviewsTypeOK'
  BY <1>3, <1>4 DEF AdvanceCritic
<1>5. ASSUME NEW e, NEW w, NEW boot, NEW c, NEW g, RegisterWorker(e, w, boot, c, g)
      PROVE  ReviewsTypeOK'
  BY <1>3, <1>5 DEF RegisterWorker
<1>6. ASSUME NEW ws, Fence(ws)
      PROVE  ReviewsTypeOK'
  BY <1>3, <1>6 DEF Fence
<1>7. ASSUME Restart
      PROVE  ReviewsTypeOK'
  BY <1>1, <1>7, KeptByAll DEF Restart
<1> QED
  BY <1>2, <1>4, <1>5, <1>6, <1>7

-----------------------------------------------------------------------------
(* Declaring, assigning and closing a review.                              *)

\* A declared review starts without records.
LEMMA DeclareReviewType ==
    ASSUME TypeOK, NEW e, NEW r \in Requests, NEW t \in Targets, NEW g \in TargetGenerations,
           NEW spec \in Policies, DeclareReview(e, r, t, g, spec)
    PROVE  ReviewsTypeOK'
<1> DEFINE new ==
      [spec |-> spec, state |-> "Declared", disposition |-> "None",
       target |-> t, targetGeneration |-> g, digest |-> Digest(targets[t].content),
       authorityCurrent |-> TRUE, roundsUsed |-> 0,
       assignments |-> {}, findings |-> {}, evidences |-> {},
       challenges |-> {}, decision |-> NoDecision]
<1>1. reviews' = Put(reviews, r, new) /\ t \in DOMAIN targets /\ UNCHANGED targets
  BY DEF DeclareReview, registry
<1>2. Digest(targets[t].content) \in Digests
  <2>1. targets[t].content \in Contents
    BY <1>1 DEF TypeOK, RegistryTypeOK, IsMap, Target
  <2> QED BY <2>1 DEF Digest, Digests
<1>3. NoDecision \in Decision /\ "Declared" \in ReviewStates /\ "None" \in Dispositions
  BY DEF NoDecision, Decision, ReviewStates, Dispositions
<1>4. new \in Review
  BY <1>2, <1>3 DEF Review
<1>5. FiniteRecords(new) /\ new.target = t
  BY FS_EmptySet DEF FiniteRecords
<1> HIDE DEF new
<1>6. IsMap(reviews', Requests, Review)
  BY <1>1, <1>4, PutIsMap DEF TypeOK, ReviewsTypeOK
<1>7. /\ DOMAIN reviews' = DOMAIN reviews \cup {r}
      /\ reviews'[r] = new
      /\ \A x \in DOMAIN reviews \ {r} : reviews'[x] = reviews[x]
  BY <1>1 DEF Put
<1>8. \A x \in DOMAIN reviews' :
        reviews'[x].target \in DOMAIN targets' /\ FiniteRecords(reviews'[x])
  BY <1>1, <1>5, <1>7, ReviewLookups
<1> QED
  BY <1>6, <1>8 DEF ReviewsTypeOK

\* A validated specification gives every critic a positive weight.
LEMMA WeightIsNat ==
    ASSUME NEW spec \in Policies, NEW c
    PROVE  WeightOf(spec, c) \in Nat
<1>1. ValidSpec(spec)
  BY PoliciesAssumption
<1>2. /\ spec.defaultWeight \in Nat \ {0}
      /\ \A d \in DOMAIN spec.weights : spec.weights[d] \in Nat \ {0}
  <2>1. ValidWeights(spec)
    BY <1>1 DEF ValidSpec
  <2> QED BY <2>1 DEF ValidWeights
<1> QED
  BY <1>2 DEF WeightOf

\* An assignment granted to an assignable request is well-typed; its ordinal is
\* within MaxAssignments because Assignable counted the critic's assignments.
LEMMA GrantedType ==
    ASSUME NEW rev \in Review, FiniteRecords(rev), NEW q \in AssignmentRequests,
           Assignable(rev, q)
    PROVE  Granted(rev, q) \in Assignment
<1> DEFINE held == {a \in rev.assignments : a.critic = q.critic}
<1>1. IsFiniteSet(held)
  <2>1. IsFiniteSet(rev.assignments) /\ held \in SUBSET rev.assignments
    BY DEF FiniteRecords
  <2> HIDE DEF held
  <2> QED BY <2>1, FS_Subset
<1>2. Cardinality(held) \in Nat /\ Cardinality(held) < MaxAssignments
  <2>1. Cardinality(held) < MaxAssignments
    BY DEF Assignable
  <2> HIDE DEF held
  <2> QED BY <1>1, <2>1, FS_CardinalityType
<1> HIDE DEF held
<1>3. Cardinality(held) + 1 \in 1 .. MaxAssignments
  BY <1>2, BoundsAssumption
<1>4. WeightOf(rev.spec, q.critic) \in Nat
  <2>1. rev.spec \in Policies
    BY DEF Review
  <2> QED BY <2>1, WeightIsNat
<1>5. (q.terms.required \/ q.terms.role \in rev.spec.requiredRoles) \in BOOLEAN
  BY Zenon
<1>6. /\ q.critic \in Critics
      /\ q.criticGeneration \in CriticGenerations
      /\ q.worker \in Workers
      /\ q.boot \in Boots
      /\ q.terms.role \in {k.role : k \in Terms}
  BY DEF AssignmentRequests
<1> DEFINE required == q.terms.required \/ q.terms.role \in rev.spec.requiredRoles
<1>7. Granted(rev, q) =
        [critic |-> q.critic, ordinal |-> Cardinality(held) + 1,
         criticGeneration |-> q.criticGeneration, worker |-> q.worker, boot |-> q.boot,
         role |-> q.terms.role, required |-> required,
         weight |-> WeightOf(rev.spec, q.critic), active |-> TRUE]
  BY Zenon DEF Granted, held
<1>8. required \in BOOLEAN
  BY <1>5
<1> HIDE DEF required
<1> QED
  BY <1>3, <1>4, <1>6, <1>7, <1>8 DEF Assignment

\* A granted batch adds finitely many assignments.
LEMMA AssignCriticsType ==
    ASSUME TypeOK, NEW e, NEW r \in DOMAIN reviews,
           NEW batch \in SUBSET {q \in AssignmentRequests : Assignable(reviews[r], q)},
           AssignCritics(e, r, batch)
    PROVE  ReviewsTypeOK'
<1> DEFINE rev     == reviews[r]
           f       == [q \in batch |-> Granted(rev, q)]
           added   == {f[q] : q \in batch}
           granted == [rev EXCEPT !.assignments = @ \cup added]
           new     == IF rev.state \in {"Declared", "Assigning", "RevalidationRequired"}
                      THEN [granted EXCEPT !.state = "Assigned", !.disposition = "None",
                                           !.authorityCurrent = TRUE]
                      ELSE granted
<1>1. rev \in Review /\ FiniteRecords(rev)
  BY ReviewLookups
<1>2. IsFiniteSet(batch) /\ UNCHANGED targets
  BY DEF AssignCritics, registry
<1>3. added = {Granted(rev, q) : q \in batch}
  OBVIOUS
<1>4. reviews' = [reviews EXCEPT ![r] = new]
  BY <1>3 DEF AssignCritics
<1>5. IsFiniteSet(added)
  <2>1. f = [q \in batch |-> f[q]]
    OBVIOUS
  <2> HIDE DEF f
  <2> QED BY <1>2, <2>1, FiniteImage
<1>6. added \subseteq Assignment
  BY <1>1, <1>3, GrantedType
<1> HIDE DEF added
<1>7. IsFiniteSet(rev.assignments \cup added)
  BY <1>1, <1>5, FS_Union DEF FiniteRecords
<1>8. /\ granted \in Review
      /\ granted.assignments = rev.assignments \cup added
      /\ granted.findings = rev.findings
      /\ granted.evidences = rev.evidences
      /\ granted.challenges = rev.challenges
      /\ granted.target = rev.target
      /\ granted.targetGeneration = rev.targetGeneration
  BY <1>1, <1>6 DEF Review
<1>9. FiniteRecords(granted)
  BY <1>1, <1>7, <1>8 DEF FiniteRecords
<1>10. "Assigned" \in ReviewStates /\ "None" \in Dispositions
  BY DEF ReviewStates, Dispositions
<1> HIDE DEF granted, rev
<1>11. Kept(rev, new)
  BY <1>8, <1>9, <1>10 DEF Kept, Review, FiniteRecords
<1> HIDE DEF new
<1> QED
  BY <1>2, <1>4, <1>11, KeptByOne DEF rev

\* Cancelling touches three fields.
LEMMA CancelReviewType ==
    ASSUME TypeOK, NEW e, NEW r \in DOMAIN reviews, CancelReview(e, r)
    PROVE  ReviewsTypeOK'
<1> DEFINE rev == reviews[r]
           new == [rev EXCEPT !.state = "Cancelled", !.disposition = "Cancelled",
                              !.authorityCurrent = FALSE]
<1>1. rev \in Review /\ FiniteRecords(rev)
  BY ReviewLookups
<1>2. reviews' = [reviews EXCEPT ![r] = new] /\ UNCHANGED targets
  BY DEF CancelReview, registry
<1>3. "Cancelled" \in ReviewStates /\ "Cancelled" \in Dispositions
  BY DEF ReviewStates, Dispositions
<1> HIDE DEF rev
<1>4. Kept(rev, new)
  BY <1>1, <1>3 DEF Kept, Review, FiniteRecords
<1> HIDE DEF new
<1> QED
  BY <1>2, <1>4, KeptByOne DEF rev

\* The decision is of the type the callers expect whatever the policy is.
LEMMA ResolveType ==
    ASSUME NEW rev \in Review
    PROVE  Resolve(rev) \in Decision
<1>1. EvaluationInput(rev).spec = rev.spec
  BY DEF EvaluationInput
<1>2. ValidSpec(rev.spec)
  BY PoliciesAssumption DEF Review
<1>3. Evaluate(EvaluationInput(rev)) \in Dispositions
  BY <1>1, <1>2, EvaluateType
<1>4. \A f \in rev.findings : f.id \in Ids /\ f.state \in FindingStates
  BY DEF Review, Finding
<1>5. {<<f.id, f.state>> : f \in rev.findings} \in SUBSET (Ids \X FindingStates)
  BY <1>4
<1>6. {x.id : x \in rev.evidences} \in SUBSET Ids
  BY DEF Review, Evidence
<1> QED
  BY <1>3, <1>5, <1>6 DEF Resolve, Decision

\* Committing records a decision of type Decision.
LEMMA CommitReviewType ==
    ASSUME TypeOK, NEW e, NEW r \in DOMAIN reviews, CommitReview(e, r)
    PROVE  ReviewsTypeOK'
<1> DEFINE rev      == reviews[r]
           decision == Resolve(rev)
           new      == [rev EXCEPT !.state = "Committed", !.decision = decision,
                                   !.disposition = decision.disposition,
                                   !.authorityCurrent = TRUE]
<1>1. rev \in Review /\ FiniteRecords(rev)
  BY ReviewLookups
<1>2. reviews' = [reviews EXCEPT ![r] = new] /\ UNCHANGED targets
  BY DEF CommitReview, registry
<1>3. decision \in Decision
  BY <1>1, ResolveType
<1>4. decision.disposition \in Dispositions /\ "Committed" \in ReviewStates
  BY <1>3 DEF Decision, ReviewStates
<1> HIDE DEF rev, decision
<1>5. Kept(rev, new)
  BY <1>1, <1>3, <1>4 DEF Kept, Review, FiniteRecords
<1> HIDE DEF new
<1> QED
  BY <1>2, <1>5, KeptByOne DEF rev

-----------------------------------------------------------------------------
(* Critic output.                                                          *)

\* Marking one finding keeps the findings finite and typed.
LEMMA SetStateType ==
    ASSUME NEW S \in SUBSET Finding, IsFiniteSet(S), NEW id, NEW state \in FindingStates
    PROVE  SetState(S, id, state) \in SUBSET Finding /\ IsFiniteSet(SetState(S, id, state))
<1> DEFINE f == [g \in S |-> IF g.id = id THEN [g EXCEPT !.state = state] ELSE g]
<1>1. SetState(S, id, state) = {f[g] : g \in S}
  BY DEF SetState
<1>2. \A g \in S : f[g] \in Finding
  <2>1. \A g \in Finding : [g EXCEPT !.state = state] \in Finding
    BY DEF Finding
  <2>2. \A g \in S : g \in Finding
    OBVIOUS
  <2> QED BY <2>1, <2>2
<1>3. f = [g \in S |-> f[g]]
  OBVIOUS
<1> HIDE DEF f
<1> QED
  BY <1>1, <1>2, <1>3, FiniteImage

\* An authorised message names a review and a seat of its critic.
LEMMA ActiveAssignmentExists ==
    ASSUME TypeOK, NEW m \in Messages, CheckAuthority(m)
    PROVE  /\ m.review \in DOMAIN reviews
           /\ ActiveAssignment(reviews[m.review], m.critic)
                \in ActiveOf(reviews[m.review], m.critic)
           /\ ActiveAssignment(reviews[m.review], m.critic).ordinal \in 1 .. MaxAssignments
<1> DEFINE active == ActiveOf(reviews[m.review], m.critic)
<1>1. m.review \in DOMAIN reviews /\ active # {}
  BY DEF CheckAuthority
<1>2. \A a \in active : a.ordinal \in 1 .. MaxAssignments
  <2>1. active \subseteq Assignment
    BY <1>1, ReviewLookups DEF ActiveOf, Review
  <2> QED BY <2>1 DEF Assignment
<1> HIDE DEF active
<1>3. \E a \in active : \A b \in active : a.ordinal <= b.ordinal
  <2> DEFINE ordinals == {a.ordinal : a \in active}
  <2>1. ordinals \in SUBSET Nat /\ ordinals # {}
    BY <1>1, <1>2
  <2>2. \A a \in active : a.ordinal \in ordinals
    OBVIOUS
  <2>3. \A x \in ordinals : \E a \in active : a.ordinal = x
    OBVIOUS
  <2> HIDE DEF ordinals
  <2>4. PICK x \in ordinals : \A y \in ordinals : x <= y
    BY <2>1, LeastNatural
  <2> QED BY <2>2, <2>3, <2>4
<1>4. ActiveAssignment(reviews[m.review], m.critic) \in active
  BY <1>3 DEF ActiveAssignment, active
<1> QED
  BY <1>1, <1>2, <1>4 DEF active

\* A challenge adds one record and marks one finding.
LEMMA SubmitChallengeType ==
    ASSUME TypeOK, NEW m \in Messages, NEW id \in Ids, SubmitChallenge(m, id)
    PROVE  ReviewsTypeOK'
<1> DEFINE r   == m.review
           rev == reviews[r]
           challenge == [id |-> Fresh(rev.challenges), finding |-> id,
                         challenger |-> m.critic, resolved |-> FALSE, outcome |-> "Unresolved"]
           challenged == [rev EXCEPT !.challenges = @ \cup {challenge},
                                     !.findings = SetState(@, id, "Challenged")]
           new == IF rev.state # "Challenged"
                  THEN [challenged EXCEPT !.state = "Challenged", !.disposition = "None",
                                          !.authorityCurrent = TRUE]
                  ELSE challenged
<1>1. r \in DOMAIN reviews /\ rev \in Review /\ FiniteRecords(rev)
  BY ReviewLookups DEF SubmitChallenge, CheckAuthority
<1>2. reviews' = [reviews EXCEPT ![r] = new] /\ UNCHANGED targets
  BY DEF SubmitChallenge, registry
<1> HIDE DEF rev
<1>3. challenge \in Challenge
  <2>1. Fresh(rev.challenges) \in Ids
    BY <1>1, FreshIsId DEF FiniteRecords
  <2>2. m.critic \in Critics /\ "Unresolved" \in ChallengeOutcomes
    BY DEF Messages, ChallengeOutcomes
  <2> QED BY <2>1, <2>2 DEF Challenge
<1> HIDE DEF challenge
<1>4. IsFiniteSet(rev.challenges \cup {challenge})
  BY <1>1, FS_AddElement DEF FiniteRecords
<1>5. /\ SetState(rev.findings, id, "Challenged") \in SUBSET Finding
      /\ IsFiniteSet(SetState(rev.findings, id, "Challenged"))
  <2>1. rev.findings \in SUBSET Finding /\ IsFiniteSet(rev.findings)
    BY <1>1 DEF Review, FiniteRecords
  <2>2. "Challenged" \in FindingStates
    BY DEF FindingStates
  <2> QED BY <2>1, <2>2, SetStateType
<1>6. Kept(rev, challenged)
  BY <1>1, <1>3, <1>4, <1>5 DEF Kept, Review, FiniteRecords
<1>7. "Challenged" \in ReviewStates /\ "None" \in Dispositions
  BY DEF ReviewStates, Dispositions
<1> HIDE DEF challenged
<1>8. Kept(rev, new)
  BY <1>6, <1>7 DEF Kept, Review, FiniteRecords
<1> HIDE DEF new, r
<1> QED
  BY <1>1, <1>2, <1>8, KeptByOne DEF rev

\* A rebuttal replaces one challenge and marks one finding.
LEMMA SubmitRebuttalType ==
    ASSUME TypeOK, NEW m \in Messages, NEW id, NEW outcome \in ChallengeOutcomes,
           SubmitRebuttal(m, id, outcome)
    PROVE  ReviewsTypeOK'
<1> DEFINE r   == m.review
           rev == reviews[r]
           Answered(ch) == [ch EXCEPT !.resolved = TRUE, !.outcome = outcome]
           New(ch) ==
             [rev EXCEPT
                !.challenges = (@ \ {ch}) \cup {Answered(ch)},
                !.findings = SetState(@, ch.finding, AfterRebuttal(outcome)),
                !.state = "Evaluating", !.disposition = "None", !.authorityCurrent = TRUE,
                !.roundsUsed = @ + 1]
<1>1. r \in DOMAIN reviews /\ rev \in Review /\ FiniteRecords(rev)
  BY ReviewLookups DEF SubmitRebuttal, CheckAuthority
<1>2. PICK challenge \in rev.challenges : reviews' = [reviews EXCEPT ![r] = New(challenge)]
  BY DEF SubmitRebuttal
<1>3. UNCHANGED targets
  BY DEF SubmitRebuttal, registry
<1> DEFINE answers  == (rev.challenges \ {challenge}) \cup {Answered(challenge)}
           findings == SetState(rev.findings, challenge.finding, AfterRebuttal(outcome))
           new      == New(challenge)
<1>4. new = [rev EXCEPT !.challenges = answers, !.findings = findings,
                        !.state = "Evaluating", !.disposition = "None",
                        !.authorityCurrent = TRUE, !.roundsUsed = rev.roundsUsed + 1]
  OBVIOUS
<1>5. reviews' = [reviews EXCEPT ![r] = new]
  BY <1>2
<1> HIDE DEF new, rev
<1>6. answers \subseteq Challenge
  <2>1. rev.challenges \subseteq Challenge
    BY <1>1 DEF Review
  <2>2. Answered(challenge) \in Challenge
    BY <1>2, <2>1 DEF Challenge
  <2> QED BY <2>1, <2>2
<1> HIDE DEF Answered
<1>7. IsFiniteSet(answers)
  BY <1>1, FS_RemoveElement, FS_AddElement DEF FiniteRecords
<1>8. findings \in SUBSET Finding /\ IsFiniteSet(findings)
  <2>1. AfterRebuttal(outcome) \in FindingStates
    BY Zenon DEF AfterRebuttal, FindingStates
  <2>2. rev.findings \in SUBSET Finding /\ IsFiniteSet(rev.findings)
    BY <1>1 DEF Review, FiniteRecords
  <2> QED BY <2>1, <2>2, SetStateType
<1> HIDE DEF answers, findings
<1>9. new \in Review
  <2>1. rev.roundsUsed + 1 \in Nat
    BY <1>1 DEF Review
  <2>2. "Evaluating" \in ReviewStates /\ "None" \in Dispositions
    BY DEF ReviewStates, Dispositions
  <2> QED BY <1>1, <1>4, <1>6, <1>8, <2>1, <2>2 DEF Review
<1>10. FiniteRecords(new) /\ new.target = rev.target
                          /\ new.targetGeneration = rev.targetGeneration
  BY <1>1, <1>4, <1>7, <1>8 DEF FiniteRecords, Review
<1> HIDE DEF r
<1> QED
  BY <1>1, <1>3, <1>5, <1>9, <1>10, KeptByOne DEF rev, Kept

\* Evidence adds one record and extends the list of at most one finding.
LEMMA SubmitEvidenceType ==
    ASSUME TypeOK, NEW m \in Messages, NEW input \in EvidenceInputs, NEW finding \in Nat,
           SubmitEvidence(m, input, finding)
    PROVE  ReviewsTypeOK'
<1> DEFINE r   == m.review
           rev == reviews[r]
           id  == Fresh(rev.evidences)
           evidence == [id |-> id, critic |-> m.critic, criticGeneration |-> m.criticGeneration,
                        finding |-> finding, verified |-> input.verified,
                        provenanceKnown |-> input.provenanceKnown]
           f   == [g \in rev.findings |->
                     IF g.id = finding THEN [g EXCEPT !.evidence = Append(@, id)] ELSE g]
           findings == {f[g] : g \in rev.findings}
           new == [rev EXCEPT !.evidences = @ \cup {evidence}, !.findings = findings]
<1>1. r \in DOMAIN reviews /\ rev \in Review /\ FiniteRecords(rev)
  BY ReviewLookups DEF SubmitEvidence, CheckAuthority
<1>2. findings = {IF g.id = finding THEN [g EXCEPT !.evidence = Append(@, id)] ELSE g
                    : g \in rev.findings}
  OBVIOUS
<1>3. reviews' = [reviews EXCEPT ![r] = new] /\ UNCHANGED targets
  BY <1>2 DEF SubmitEvidence, registry
<1> HIDE DEF rev
<1>4. id \in Ids
  BY <1>1, FreshIsId DEF FiniteRecords
<1> HIDE DEF id
<1>5. evidence \in Evidence
  <2>1. m.critic \in Critics /\ m.criticGeneration \in CriticGenerations
    BY DEF Messages
  <2>2. input.verified \in BOOLEAN /\ input.provenanceKnown \in BOOLEAN
    BY InputsAssumption
  <2> QED BY <1>4, <2>1, <2>2 DEF Evidence
<1> HIDE DEF evidence
<1>6. IsFiniteSet(rev.evidences \cup {evidence})
  BY <1>1, FS_AddElement DEF FiniteRecords
<1>7. findings \subseteq Finding
  <2>1. ASSUME NEW g \in Finding
        PROVE  [g EXCEPT !.evidence = Append(@, id)] \in Finding
    <3>1. g.evidence \in Seq(Ids)
      BY DEF Finding
    <3>2. Append(g.evidence, id) \in Seq(Ids)
      BY <1>4, <3>1
    <3> QED BY <3>2 DEF Finding
  <2>2. rev.findings \subseteq Finding
    BY <1>1 DEF Review
  <2>3. \A g \in rev.findings : f[g] \in Finding
    BY <2>1, <2>2
  <2> QED BY <2>3
<1>8. IsFiniteSet(findings)
  <2>1. IsFiniteSet(rev.findings) /\ f = [g \in rev.findings |-> f[g]]
    BY <1>1 DEF FiniteRecords
  <2> HIDE DEF f
  <2> QED BY <2>1, FiniteImage
<1> HIDE DEF findings
<1>9. Kept(rev, new)
  BY <1>1, <1>5, <1>6, <1>7, <1>8 DEF Kept, Review, FiniteRecords
<1> HIDE DEF new, r
<1> QED
  BY <1>1, <1>3, <1>9, KeptByOne DEF rev

\* A finding adds one record, retires at most one and binds loose evidence.
LEMMA SubmitFindingType ==
    ASSUME TypeOK, NEW m \in Messages, NEW input \in FindingInputs, NEW supersedes,
           SubmitFinding(m, input, supersedes)
    PROVE  ReviewsTypeOK'
<1> DEFINE r          == m.review
           rev        == reviews[r]
           assignment == ActiveAssignment(rev, m.critic)
           finding    ==
             [id |-> Fresh(rev.findings), critic |-> m.critic,
              criticGeneration |-> m.criticGeneration, assignment |-> assignment.ordinal,
              worker |-> m.worker, boot |-> m.boot,
              targetGeneration |-> rev.targetGeneration,
              category |-> input.category, severity |-> input.severity,
              outcome |-> input.outcome, evidence |-> input.evidence,
              cited |-> input.evidence, explanation |-> input.explanation,
              state |-> "Current"]
           kept       == SetState(rev.findings, supersedes, "Superseded")
           f          == [e \in rev.evidences |->
                            IF e.id \in Range(input.evidence) /\ e.finding = NoId
                            THEN [e EXCEPT !.finding = finding.id] ELSE e]
           evidences  == {f[e] : e \in rev.evidences}
           recorded   == [rev EXCEPT !.findings = kept \cup {finding}, !.evidences = evidences]
           new        == IF rev.state \in {"Assigned", "Reviewing"}
                         THEN [recorded EXCEPT !.state = "FindingsReceived",
                                               !.disposition = "None",
                                               !.authorityCurrent = TRUE]
                         ELSE recorded
<1>1. /\ CheckAuthority(m)
      /\ r \in DOMAIN reviews
      /\ rev \in Review
      /\ FiniteRecords(rev)
  BY ReviewLookups DEF SubmitFinding, CheckAuthority
<1>2. evidences = {IF e.id \in Range(input.evidence) /\ e.finding = NoId
                   THEN [e EXCEPT !.finding = finding.id] ELSE e : e \in rev.evidences}
  OBVIOUS
<1>3. reviews' = [reviews EXCEPT ![r] = new] /\ UNCHANGED targets
  BY <1>2 DEF SubmitFinding, registry
<1>4. assignment.ordinal \in 1 .. MaxAssignments
  BY <1>1, ActiveAssignmentExists
<1> HIDE DEF rev, assignment
<1>5. finding \in Finding
  <2>1. Fresh(rev.findings) \in Ids
    BY <1>1, FreshIsId DEF FiniteRecords
  <2>2. /\ m.critic \in Critics
        /\ m.criticGeneration \in CriticGenerations
        /\ m.worker \in Workers
        /\ m.boot \in Boots
    BY DEF Messages
  <2>3. rev.targetGeneration \in TargetGenerations /\ "Current" \in FindingStates
    BY <1>1 DEF Review, FindingStates
  <2>4. input.evidence \in Seq(Ids)
    BY InputsAssumption DEF Ids
  <2> QED BY <1>4, <2>1, <2>2, <2>3, <2>4 DEF Finding
<1>6. finding.id \in Nat
  BY <1>5 DEF Finding, Ids
<1> HIDE DEF finding
<1>7. kept \in SUBSET Finding /\ IsFiniteSet(kept)
  <2>1. rev.findings \in SUBSET Finding /\ IsFiniteSet(rev.findings)
    BY <1>1 DEF Review, FiniteRecords
  <2>2. "Superseded" \in FindingStates
    BY DEF FindingStates
  <2> QED BY <2>1, <2>2, SetStateType
<1> HIDE DEF kept
<1>8. IsFiniteSet(kept \cup {finding}) /\ kept \cup {finding} \subseteq Finding
  BY <1>5, <1>7, FS_AddElement
<1>9. evidences \subseteq Evidence
  <2>1. \A e \in Evidence : [e EXCEPT !.finding = finding.id] \in Evidence
    BY <1>6 DEF Evidence
  <2>2. rev.evidences \subseteq Evidence
    BY <1>1 DEF Review
  <2>3. \A e \in rev.evidences : f[e] \in Evidence
    BY <2>1, <2>2
  <2> QED BY <2>3
<1>10. IsFiniteSet(evidences)
  <2>1. IsFiniteSet(rev.evidences) /\ f = [e \in rev.evidences |-> f[e]]
    BY <1>1 DEF FiniteRecords
  <2> HIDE DEF f
  <2> QED BY <2>1, FiniteImage
<1> HIDE DEF evidences
<1>11. Kept(rev, recorded)
  BY <1>1, <1>8, <1>9, <1>10 DEF Kept, Review, FiniteRecords
<1>12. "FindingsReceived" \in ReviewStates /\ "None" \in Dispositions
  BY DEF ReviewStates, Dispositions
<1> HIDE DEF recorded
<1>13. Kept(rev, new)
  BY <1>11, <1>12 DEF Kept, Review, FiniteRecords
<1> HIDE DEF new, r
<1> QED
  BY <1>1, <1>3, <1>13, KeptByOne DEF rev

-----------------------------------------------------------------------------
(* Type correctness.                                                       *)

\* The empty coordinator is well-typed.
LEMMA TypeInit == Init => TypeOK
<1> SUFFICES ASSUME Init PROVE ReviewsTypeOK
  BY RegistryTypeInit DEF TypeOK
<1> QED
  BY DEF Init, EmptyMap, ReviewsTypeOK, IsMap

\* Every step keeps the reviews well-typed, call by call.
LEMMA ReviewsTypeStep == TypeOK /\ [Next]_vars => ReviewsTypeOK'
<1> SUFFICES ASSUME TypeOK, [Next]_vars PROVE ReviewsTypeOK'
  OBVIOUS
<1>1. ASSUME UNCHANGED reviews, DOMAIN targets \subseteq DOMAIN targets'
      PROVE  ReviewsTypeOK'
  BY <1>1 DEF TypeOK, ReviewsTypeOK
<1>2. CASE Control
  <2>1. ASSUME NEW e, NEW t, NEW content, RegisterTarget(e, t, content)
        PROVE  ReviewsTypeOK'
    BY <1>1, <2>1 DEF RegisterTarget, Put
  <2>2. ASSUME NEW e, NEW c, NEW capability, RegisterCritic(e, c, capability)
        PROVE  ReviewsTypeOK'
    BY <1>1, <2>2 DEF RegisterCritic
  <2>3. ASSUME NEW e, NEW t, NEW content, AdvanceTarget(e, t, content)
        PROVE  ReviewsTypeOK'
    BY <2>3, WithdrawalTypes
  <2>4. ASSUME NEW e, NEW c, NEW capability, NEW advance,
               AdvanceCritic(e, c, capability, advance)
        PROVE  ReviewsTypeOK'
    BY <2>4, WithdrawalTypes
  <2>5. ASSUME NEW e, NEW r \in Requests, NEW t \in Targets, NEW g \in TargetGenerations,
               NEW spec \in Policies, DeclareReview(e, r, t, g, spec)
        PROVE  ReviewsTypeOK'
    BY <2>5, DeclareReviewType
  <2>6. ASSUME NEW e, NEW r \in DOMAIN reviews,
               NEW batch \in SUBSET {q \in AssignmentRequests : Assignable(reviews[r], q)},
               AssignCritics(e, r, batch)
        PROVE  ReviewsTypeOK'
    BY <2>6, AssignCriticsType
  <2>7. ASSUME NEW e, NEW r \in DOMAIN reviews, CommitReview(e, r)
        PROVE  ReviewsTypeOK'
    BY <2>7, CommitReviewType
  <2>8. ASSUME NEW e, NEW r \in DOMAIN reviews, CancelReview(e, r)
        PROVE  ReviewsTypeOK'
    BY <2>8, CancelReviewType
  <2> QED
    BY <1>2, <2>1, <2>2, <2>3, <2>4, <2>5, <2>6, <2>7, <2>8 DEF Control
<1>3. CASE Incarnation
  <2>1. ASSUME NEW e, NEW w, NEW boot, NEW c, NEW g, RegisterWorker(e, w, boot, c, g)
        PROVE  ReviewsTypeOK'
    BY <2>1, WithdrawalTypes
  <2>2. ASSUME NEW e, NEW x, NEW ready, NEW healthy, NEW evidence,
               DeclareReadiness(e, x, ready, healthy, evidence)
        PROVE  ReviewsTypeOK'
    BY <1>1, <2>2 DEF DeclareReadiness
  <2>3. ASSUME NEW ws, Fence(ws)
        PROVE  ReviewsTypeOK'
    BY <2>3, WithdrawalTypes
  <2> QED
    BY <1>3, <2>1, <2>2, <2>3 DEF Incarnation, FenceWorker, FenceCritic
<1>4. CASE Output
  <2>1. PICK m \in Messages :
          \/ \E input \in EvidenceInputs, f \in Named(reviews[m.review].findings) \cup {NoId} :
                SubmitEvidence(m, input, f)
          \/ \E input \in FindingInputs : \E f : SubmitFinding(m, input, f)
          \/ \E f \in Named(reviews[m.review].findings) : SubmitChallenge(m, f)
          \/ \E ch : \E outcome \in ChallengeOutcomes : SubmitRebuttal(m, ch, outcome)
    BY <1>4 DEF Output
  <2>2. m.review \in DOMAIN reviews
    BY <2>1 DEF SubmitEvidence, SubmitFinding, SubmitChallenge, SubmitRebuttal, CheckAuthority
  <2>3. Named(reviews[m.review].findings) \subseteq Ids
    BY <2>2, ReviewLookups DEF Named, Review, Finding
  <2>4. Named(reviews[m.review].findings) \cup {NoId} \subseteq Nat
    BY <2>3 DEF Ids, NoId
  <2> QED
    BY <2>1, <2>3, <2>4, SubmitEvidenceType, SubmitFindingType, SubmitChallengeType,
       SubmitRebuttalType
<1>5. CASE Restart
  BY <1>5, WithdrawalTypes
<1>6. CASE UNCHANGED vars
  BY <1>1, <1>6 DEF vars
<1> QED
  BY <1>2, <1>3, <1>4, <1>5, <1>6 DEF Next

\* Every step keeps TypeOK.
LEMMA TypeStep == TypeOK /\ [Next]_vars => TypeOK'
  BY RegistryTypeStep, ReviewsTypeStep DEF TypeOK

\* The coordinator's data structures keep their shape in every run.
THEOREM TypeCorrect == Spec => []TypeOK
  BY TypeInit, TypeStep, PTL DEF Spec

-----------------------------------------------------------------------------
(* Authority follows the target.                                           *)

\* No review is ahead of its target: a target generation that has passed never
\* becomes current again.
GenerationsPast ==
    \A r \in DOMAIN reviews :
        reviews[r].targetGeneration <= targets[reviews[r].target].generation

AuthorityInv ==
    /\ TypeOK
    /\ GenerationsPast
    /\ AuthorityTracksTarget
    /\ StaleTargetSilent

\* What the invariant asks of one review, given whether its target is current.
Aligned(rev, current) ==
    /\ rev.authorityCurrent <=> rev.state \notin Withdrawn /\ current
    /\ ~current =>
        /\ rev.state \in TerminalStates
        /\ \A f \in rev.findings : f.state \notin CurrentFindingStates

\* The two properties of this section, said review by review.
LEMMA AlignedReviews ==
    (AuthorityTracksTarget /\ StaleTargetSilent)
        <=> \A r \in DOMAIN reviews : Aligned(reviews[r], TargetCurrent(reviews[r]))
  BY DEF AuthorityTracksTarget, StaleTargetSilent, Aligned

\* The same of the state after a step.
LEMMA AlignedReviewsNext ==
    (\A r \in DOMAIN reviews' : Aligned(reviews'[r], TargetCurrent(reviews[r])'))
        => (AuthorityTracksTarget /\ StaleTargetSilent)'
  BY DEF AuthorityTracksTarget, StaleTargetSilent, Aligned, TargetCurrent

\* A step that leaves targets alone may rewrite reviews as long as each one
\* stays with its target and stays aligned with it.
LEMMA TargetsKept ==
    ASSUME AuthorityInv, UNCHANGED targets, DOMAIN reviews' = DOMAIN reviews,
           \A r \in DOMAIN reviews :
              /\ reviews'[r].target = reviews[r].target
              /\ reviews'[r].targetGeneration = reviews[r].targetGeneration
              /\ Aligned(reviews'[r], TargetCurrent(reviews[r]))
    PROVE  GenerationsPast' /\ (AuthorityTracksTarget /\ StaleTargetSilent)'
<1>1. \A r \in DOMAIN reviews : TargetCurrent(reviews[r])' = TargetCurrent(reviews[r])
  BY DEF TargetCurrent
<1>2. \A r \in DOMAIN reviews' : Aligned(reviews'[r], TargetCurrent(reviews[r])')
  BY <1>1
<1>3. GenerationsPast'
  BY DEF AuthorityInv, GenerationsPast
<1> QED
  BY <1>2, <1>3, AlignedReviewsNext

\* A call on one review whose target is current.
LEMMA OneReviewAligned ==
    ASSUME AuthorityInv, UNCHANGED targets, NEW r \in DOMAIN reviews, NEW new,
           TargetCurrent(reviews[r]), reviews' = [reviews EXCEPT ![r] = new],
           new.target = reviews[r].target,
           new.targetGeneration = reviews[r].targetGeneration,
           new.authorityCurrent <=> new.state \notin Withdrawn
    PROVE  GenerationsPast' /\ (AuthorityTracksTarget /\ StaleTargetSilent)'
<1>1. \A x \in DOMAIN reviews : Aligned(reviews[x], TargetCurrent(reviews[x]))
  BY AlignedReviews DEF AuthorityInv
<1>2. Aligned(new, TargetCurrent(reviews[r]))
  BY DEF Aligned
<1>3. DOMAIN reviews' = DOMAIN reviews /\ reviews'[r] = new
      /\ \A x \in DOMAIN reviews \ {r} : reviews'[x] = reviews[x]
  OBVIOUS
<1>4. \A x \in DOMAIN reviews :
        /\ reviews'[x].target = reviews[x].target
        /\ reviews'[x].targetGeneration = reviews[x].targetGeneration
        /\ Aligned(reviews'[x], TargetCurrent(reviews[x]))
  BY <1>1, <1>2, <1>3
<1> QED
  BY <1>3, <1>4, TargetsKept

\* Revalidation and retirement leave closed reviews alone and take the claim of
\* the others away.
LEMMA WithdrawalAligned ==
    ASSUME NEW rev \in Review, NEW current \in BOOLEAN, Aligned(rev, current)
    PROVE  /\ Aligned(Revalidate(rev), current)
           /\ \A retired : Aligned(Retire(rev, retired), current)
<1>1. ASSUME NEW x \in Review, Aligned(x, current)
      PROVE  Aligned(Revalidate(x), current)
  <2>1. CASE x.state \in TerminalStates
    BY <1>1, <2>1 DEF Revalidate
  <2>2. CASE x.state \notin TerminalStates
    <3>1. current
      BY <1>1, <2>2 DEF Aligned
    <3>2. /\ Revalidate(x).state = "RevalidationRequired"
          /\ Revalidate(x).authorityCurrent = FALSE
      BY <1>1, <2>2 DEF Revalidate, Review
    <3> QED BY <3>1, <3>2 DEF Aligned, Withdrawn
  <2> QED BY <2>1, <2>2
<1>2. ASSUME NEW retired, retired # {}
      PROVE  Aligned(Retire(rev, retired), current)
  <2> DEFINE S   == {IF a \in retired THEN [a EXCEPT !.active = FALSE] ELSE a
                       : a \in rev.assignments}
             new == [rev EXCEPT !.assignments = S]
  <2>1. S \subseteq Assignment
    <3>1. \A a \in Assignment : [a EXCEPT !.active = FALSE] \in Assignment
      BY DEF Assignment
    <3> QED BY <3>1 DEF Review
  <2>2. Retire(rev, retired) = Revalidate(new)
    BY <1>2 DEF Retire
  <2> HIDE DEF S
  <2>3. new \in Review /\ Aligned(new, current)
    BY <2>1 DEF Review, Aligned
  <2> QED BY <1>1, <2>2, <2>3
<1>3. \A retired : retired = {} => Retire(rev, retired) = rev
  BY DEF Retire
<1> QED
  BY <1>1, <1>2, <1>3

\* The reviews of the generation that passes are closed and silenced; no other
\* review of the target can become current by its advance.
LEMMA AdvanceTargetAligned ==
    ASSUME AuthorityInv, TypeOK', NEW e, NEW t, NEW content, AdvanceTarget(e, t, content)
    PROVE  GenerationsPast' /\ (AuthorityTracksTarget /\ StaleTargetSilent)'
<1>1. /\ t \in DOMAIN targets
      /\ DOMAIN targets' = DOMAIN targets
      /\ targets'[t].generation = targets[t].generation + 1
      /\ \A u \in DOMAIN targets \ {t} : targets'[u] = targets[u]
  BY DEF AdvanceTarget, Put
<1>2. /\ DOMAIN reviews' = DOMAIN reviews
      /\ \A r \in DOMAIN reviews :
            reviews'[r] = IF reviews[r].target = t /\ TargetCurrent(reviews[r])
                          THEN Supersede(reviews[r]) ELSE reviews[r]
  BY DEF AdvanceTarget
<1>3. ASSUME NEW r \in DOMAIN reviews
      PROVE  /\ reviews'[r].targetGeneration <= targets'[reviews'[r].target].generation
             /\ Aligned(reviews'[r], TargetCurrent(reviews[r])')
  <2> DEFINE rev == reviews[r]
  <2>1. /\ rev \in Review
        /\ FiniteRecords(rev)
        /\ rev.target \in DOMAIN targets
        /\ Aligned(rev, TargetCurrent(rev))
        /\ rev.targetGeneration <= targets[rev.target].generation
    BY ReviewLookups, AlignedReviews DEF AuthorityInv, GenerationsPast
  <2>2. /\ \A u \in DOMAIN targets : targets[u].generation \in Nat
        /\ rev.targetGeneration \in Nat
    <3>1. TargetGenerations \subseteq Nat
      BY DEF TargetGenerations
    <3>2. \A u \in DOMAIN targets : targets[u] \in Target
      BY DEF AuthorityInv, TypeOK, RegistryTypeOK, IsMap
    <3> QED BY <2>1, <3>1, <3>2 DEF Target, Review
  <2>3. reviews'[r].target = rev.target /\ reviews'[r].targetGeneration = rev.targetGeneration
    BY <1>2, <2>1, SupersedeKeeps DEF Kept
  <2>4. CASE rev.target = t /\ TargetCurrent(rev)
    <3>1. /\ targets'[t].generation # rev.targetGeneration
          /\ rev.targetGeneration <= targets'[t].generation
      BY <1>1, <2>1, <2>2, <2>4 DEF TargetCurrent
    <3>2. ~TargetCurrent(reviews[r])'
      BY <2>3, <2>4, <3>1 DEF TargetCurrent
    <3>3. reviews'[r] = Supersede(rev)
      BY <1>2, <2>4
    <3>4. /\ reviews'[r].authorityCurrent = FALSE
          /\ reviews'[r].state \in TerminalStates
      BY <2>1, <3>3 DEF Supersede, TerminalStates, Review
    <3>5. \A f \in reviews'[r].findings : f.state \notin CurrentFindingStates
      <4> DEFINE closed == {IF f.state \in CurrentFindingStates
                            THEN [f EXCEPT !.state = "Invalidated"] ELSE f : f \in rev.findings}
      <4>1. reviews'[r].findings = closed
        BY <2>1, <3>3 DEF Supersede, Review
      <4>2. \A f \in rev.findings : f \in Finding
        BY <2>1 DEF Review
      <4>3. \A f \in closed : f.state \notin CurrentFindingStates
        BY <4>2 DEF CurrentFindingStates, Finding
      <4> QED BY <4>1, <4>3
    <3>6. Aligned(reviews'[r], FALSE)
      BY <3>4, <3>5 DEF Aligned
    <3>7. TargetCurrent(reviews[r])' = FALSE
      BY <3>2 DEF TargetCurrent
    <3> QED BY <2>3, <2>4, <3>1, <3>6, <3>7
  <2>5. CASE rev.target # t
    <3>1. targets'[rev.target] = targets[rev.target] /\ reviews'[r] = rev
      BY <1>1, <1>2, <2>1, <2>5
    <3>2. TargetCurrent(reviews[r])' = TargetCurrent(rev)
      BY <3>1 DEF TargetCurrent
    <3> QED BY <2>1, <3>1, <3>2
  <2>6. CASE rev.target = t /\ ~TargetCurrent(rev)
    <3>1. reviews'[r] = rev
      BY <1>2, <2>6
    <3>2. rev.targetGeneration < targets[t].generation
      BY <1>1, <2>1, <2>2, <2>6 DEF TargetCurrent
    <3>3. /\ targets'[t].generation # rev.targetGeneration
          /\ rev.targetGeneration <= targets'[t].generation
      BY <1>1, <2>2, <3>2
    <3>4. TargetCurrent(reviews[r])' = TargetCurrent(rev)
      BY <2>6, <3>1, <3>3 DEF TargetCurrent
    <3> QED BY <2>1, <2>6, <3>1, <3>3, <3>4
  <2> QED BY <2>4, <2>5, <2>6
<1>4. \A r \in DOMAIN reviews' : Aligned(reviews'[r], TargetCurrent(reviews[r])')
  BY <1>2, <1>3
<1>5. GenerationsPast'
  BY <1>2, <1>3 DEF GenerationsPast
<1> QED
  BY <1>4, <1>5, AlignedReviewsNext

\* No review is of a target that is not registered yet.
LEMMA RegisterTargetAligned ==
    ASSUME AuthorityInv, NEW e, NEW t, NEW content, RegisterTarget(e, t, content)
    PROVE  GenerationsPast' /\ (AuthorityTracksTarget /\ StaleTargetSilent)'
<1>1. /\ UNCHANGED reviews
      /\ \A u \in DOMAIN targets : targets'[u] = targets[u]
  BY DEF RegisterTarget, Put
<1>2. \A r \in DOMAIN reviews : targets'[reviews[r].target] = targets[reviews[r].target]
  BY <1>1, ReviewLookups DEF AuthorityInv
<1> QED
  BY <1>1, <1>2 DEF AuthorityInv, GenerationsPast, AuthorityTracksTarget, StaleTargetSilent,
                    TargetCurrent

\* A review is declared against the generation its target has now.
LEMMA DeclareReviewAligned ==
    ASSUME AuthorityInv, NEW e, NEW r \in Requests, NEW t \in Targets,
           NEW g \in TargetGenerations, NEW spec, DeclareReview(e, r, t, g, spec)
    PROVE  GenerationsPast' /\ (AuthorityTracksTarget /\ StaleTargetSilent)'
<1>1. /\ UNCHANGED targets
      /\ targets[t].generation = g
      /\ r \notin DOMAIN reviews
      /\ DOMAIN reviews' = DOMAIN reviews \cup {r}
      /\ \A x \in DOMAIN reviews : reviews'[x] = reviews[x]
      /\ reviews'[r].target = t
      /\ reviews'[r].targetGeneration = g
      /\ reviews'[r].state = "Declared"
      /\ reviews'[r].authorityCurrent = TRUE
  BY DEF DeclareReview, Put, registry
<1>2. \A x \in DOMAIN reviews : Aligned(reviews'[x], TargetCurrent(reviews[x])')
  BY <1>1, AlignedReviews DEF AuthorityInv, TargetCurrent
<1>3. TargetCurrent(reviews[r])' = TRUE
  BY <1>1 DEF TargetCurrent
<1>4. Aligned(reviews'[r], TargetCurrent(reviews[r])')
  BY <1>1, <1>3 DEF Aligned, Withdrawn
<1>5. \A x \in DOMAIN reviews' : Aligned(reviews'[x], TargetCurrent(reviews[x])')
  BY <1>1, <1>2, <1>4
<1>6. GenerationsPast'
  <2>1. g <= g
    BY DEF TargetGenerations
  <2> QED BY <1>1, <2>1 DEF AuthorityInv, GenerationsPast
<1> QED
  BY <1>5, <1>6, AlignedReviewsNext

\* A review that is open reviews the current generation of its target.
LEMMA OpenIsCurrent ==
    ASSUME AuthorityInv, NEW r \in DOMAIN reviews, reviews[r].state \notin TerminalStates
    PROVE  TargetCurrent(reviews[r])
  BY DEF AuthorityInv, StaleTargetSilent

\* Committing and cancelling set state and authority together.
LEMMA ClosingAligned ==
    ASSUME AuthorityInv, NEW e, NEW r \in DOMAIN reviews, CommitReview(e, r) \/ CancelReview(e, r)
    PROVE  GenerationsPast' /\ (AuthorityTracksTarget /\ StaleTargetSilent)'
<1>1. reviews[r] \in Review /\ UNCHANGED targets
  BY ReviewLookups DEF AuthorityInv, CommitReview, CancelReview, registry
<1>2. TargetCurrent(reviews[r])
  BY OpenIsCurrent DEF CommitReview, CancelReview
<1>3. CASE CommitReview(e, r)
  <2> DEFINE decision == Resolve(reviews[r])
             new == [reviews[r] EXCEPT !.state = "Committed", !.decision = decision,
                                       !.disposition = decision.disposition,
                                       !.authorityCurrent = TRUE]
  <2>1. reviews' = [reviews EXCEPT ![r] = new]
    BY <1>3 DEF CommitReview
  <2> HIDE DEF decision
  <2>2. /\ new.target = reviews[r].target
        /\ new.targetGeneration = reviews[r].targetGeneration
        /\ new.authorityCurrent <=> new.state \notin Withdrawn
    BY <1>1 DEF Review, Withdrawn
  <2> HIDE DEF new
  <2> QED BY <1>1, <1>2, <2>1, <2>2, OneReviewAligned
<1>4. CASE CancelReview(e, r)
  <2> DEFINE new == [reviews[r] EXCEPT !.state = "Cancelled", !.disposition = "Cancelled",
                                       !.authorityCurrent = FALSE]
  <2>1. reviews' = [reviews EXCEPT ![r] = new]
    BY <1>4 DEF CancelReview
  <2>2. /\ new.target = reviews[r].target
        /\ new.targetGeneration = reviews[r].targetGeneration
        /\ new.authorityCurrent <=> new.state \notin Withdrawn
    BY <1>1 DEF Review, Withdrawn
  <2> HIDE DEF new
  <2> QED BY <1>1, <1>2, <2>1, <2>2, OneReviewAligned
<1> QED
  BY <1>3, <1>4

\* Assignment gives authority back only to a review whose target is current.
LEMMA AssignCriticsAligned ==
    ASSUME AuthorityInv, NEW e, NEW r \in DOMAIN reviews, NEW batch, AssignCritics(e, r, batch)
    PROVE  GenerationsPast' /\ (AuthorityTracksTarget /\ StaleTargetSilent)'
<1> DEFINE rev     == reviews[r]
           added   == {Granted(rev, q) : q \in batch}
           granted == [rev EXCEPT !.assignments = @ \cup added]
           new     == IF rev.state \in {"Declared", "Assigning", "RevalidationRequired"}
                      THEN [granted EXCEPT !.state = "Assigned", !.disposition = "None",
                                           !.authorityCurrent = TRUE]
                      ELSE granted
<1>1. /\ rev \in Review
      /\ TargetCurrent(rev)
      /\ Aligned(rev, TargetCurrent(rev))
      /\ UNCHANGED targets
      /\ reviews' = [reviews EXCEPT ![r] = new]
  BY ReviewLookups, AlignedReviews DEF AuthorityInv, AssignCritics, registry
<1> HIDE DEF rev, added
<1>2. /\ new.target = rev.target
      /\ new.targetGeneration = rev.targetGeneration
      /\ new.authorityCurrent <=> new.state \notin Withdrawn
  BY <1>1 DEF Review, Withdrawn, Aligned
<1> HIDE DEF new
<1> QED BY <1>1, <1>2, OneReviewAligned DEF rev

\* What a critic submits either moves its review on, with authority, or leaves
\* the state and the authority of the review as they are.
LEMMA OutputAligned ==
    ASSUME AuthorityInv, NEW m, CheckAuthority(m), UNCHANGED targets, NEW new,
           reviews' = [reviews EXCEPT ![m.review] = new],
           new.target = reviews[m.review].target,
           new.targetGeneration = reviews[m.review].targetGeneration,
           \/ new.authorityCurrent = TRUE /\ new.state \notin Withdrawn
           \/ /\ new.authorityCurrent = reviews[m.review].authorityCurrent
              /\ new.state = reviews[m.review].state
    PROVE  GenerationsPast' /\ (AuthorityTracksTarget /\ StaleTargetSilent)'
<1>1. m.review \in DOMAIN reviews /\ TargetCurrent(reviews[m.review])
  BY DEF CheckAuthority
<1>2. Aligned(reviews[m.review], TargetCurrent(reviews[m.review]))
  BY <1>1, AlignedReviews DEF AuthorityInv
<1>3. new.authorityCurrent <=> new.state \notin Withdrawn
  BY <1>1, <1>2 DEF Aligned
<1> QED
  BY <1>1, <1>3, OneReviewAligned

\* Evidence leaves state, authority and the states of findings alone.
LEMMA SubmitEvidenceAligned ==
    ASSUME AuthorityInv, NEW m, NEW input, NEW finding, SubmitEvidence(m, input, finding)
    PROVE  GenerationsPast' /\ (AuthorityTracksTarget /\ StaleTargetSilent)'
<1>1. CheckAuthority(m) /\ UNCHANGED targets
  BY DEF SubmitEvidence, registry
<1> DEFINE rev == reviews[m.review]
<1>2. PICK evidences, findings :
        reviews' = [reviews EXCEPT ![m.review] =
                      [rev EXCEPT !.evidences = evidences, !.findings = findings]]
  BY DEF SubmitEvidence
<1>3. rev \in Review
  BY <1>1, ReviewLookups DEF AuthorityInv, CheckAuthority
<1> DEFINE new == [rev EXCEPT !.evidences = evidences, !.findings = findings]
<1>4. /\ new.target = rev.target
      /\ new.targetGeneration = rev.targetGeneration
      /\ new.authorityCurrent = rev.authorityCurrent
      /\ new.state = rev.state
  BY <1>3 DEF Review
<1> HIDE DEF new
<1> QED
  BY <1>1, <1>2, <1>4, OutputAligned DEF new

\* A finding moves a fresh review on, with authority.
LEMMA SubmitFindingAligned ==
    ASSUME AuthorityInv, NEW m, NEW input, NEW supersedes, SubmitFinding(m, input, supersedes)
    PROVE  GenerationsPast' /\ (AuthorityTracksTarget /\ StaleTargetSilent)'
<1>1. CheckAuthority(m) /\ UNCHANGED targets
  BY DEF SubmitFinding, registry
<1> DEFINE rev == reviews[m.review]
           Recorded(findings, evidences) ==
              [rev EXCEPT !.findings = findings, !.evidences = evidences]
           New(recorded) ==
              IF rev.state \in {"Assigned", "Reviewing"}
              THEN [recorded EXCEPT !.state = "FindingsReceived", !.disposition = "None",
                                    !.authorityCurrent = TRUE]
              ELSE recorded
<1>2. PICK findings, evidences :
        reviews' = [reviews EXCEPT ![m.review] = New(Recorded(findings, evidences))]
  BY DEF SubmitFinding
<1>3. rev \in Review
  BY <1>1, ReviewLookups DEF AuthorityInv, CheckAuthority
<1> DEFINE new == New(Recorded(findings, evidences))
<1>4. /\ new.target = rev.target
      /\ new.targetGeneration = rev.targetGeneration
      /\ \/ new.authorityCurrent = TRUE /\ new.state \notin Withdrawn
         \/ new.authorityCurrent = rev.authorityCurrent /\ new.state = rev.state
  BY <1>3 DEF Review, Withdrawn
<1> HIDE DEF new
<1> QED
  BY <1>1, <1>2, <1>4, OutputAligned DEF new

\* A challenge moves the review to Challenged, with authority.
LEMMA SubmitChallengeAligned ==
    ASSUME AuthorityInv, NEW m, NEW id, SubmitChallenge(m, id)
    PROVE  GenerationsPast' /\ (AuthorityTracksTarget /\ StaleTargetSilent)'
<1>1. CheckAuthority(m) /\ UNCHANGED targets
  BY DEF SubmitChallenge, registry
<1> DEFINE rev == reviews[m.review]
           Challenged(challenges, findings) ==
              [rev EXCEPT !.challenges = challenges, !.findings = findings]
           New(challenged) ==
              IF rev.state # "Challenged"
              THEN [challenged EXCEPT !.state = "Challenged", !.disposition = "None",
                                      !.authorityCurrent = TRUE]
              ELSE challenged
<1>2. PICK challenges, findings :
        reviews' = [reviews EXCEPT ![m.review] = New(Challenged(challenges, findings))]
  BY DEF SubmitChallenge
<1>3. rev \in Review
  BY <1>1, ReviewLookups DEF AuthorityInv, CheckAuthority
<1> DEFINE new == New(Challenged(challenges, findings))
<1>4. /\ new.target = rev.target
      /\ new.targetGeneration = rev.targetGeneration
      /\ \/ new.authorityCurrent = TRUE /\ new.state \notin Withdrawn
         \/ new.authorityCurrent = rev.authorityCurrent /\ new.state = rev.state
  BY <1>3 DEF Review, Withdrawn
<1> HIDE DEF new
<1> QED
  BY <1>1, <1>2, <1>4, OutputAligned DEF new

\* A rebuttal moves the review to Evaluating, with authority.
LEMMA SubmitRebuttalAligned ==
    ASSUME AuthorityInv, NEW m, NEW id, NEW outcome, SubmitRebuttal(m, id, outcome)
    PROVE  GenerationsPast' /\ (AuthorityTracksTarget /\ StaleTargetSilent)'
<1>1. CheckAuthority(m) /\ UNCHANGED targets
  BY DEF SubmitRebuttal, registry
<1> DEFINE rev == reviews[m.review]
           New(challenges, findings, rounds) ==
              [rev EXCEPT !.challenges = challenges, !.findings = findings,
                          !.state = "Evaluating", !.disposition = "None",
                          !.authorityCurrent = TRUE, !.roundsUsed = rounds]
           Answered(ch) == [ch EXCEPT !.resolved = TRUE, !.outcome = outcome]
           After(ch) == New((rev.challenges \ {ch}) \cup {Answered(ch)},
                            SetState(rev.findings, ch.finding, AfterRebuttal(outcome)),
                            rev.roundsUsed + 1)
<1>2. PICK ch \in rev.challenges : reviews' = [reviews EXCEPT ![m.review] = After(ch)]
  BY DEF SubmitRebuttal
<1>3. rev \in Review
  BY <1>1, ReviewLookups DEF AuthorityInv, CheckAuthority
<1> DEFINE new == After(ch)
<1>4. /\ new.target = rev.target
      /\ new.targetGeneration = rev.targetGeneration
      /\ new.authorityCurrent = TRUE /\ new.state \notin Withdrawn
  BY <1>3 DEF Review, Withdrawn
<1> HIDE DEF new
<1> QED
  BY <1>1, <1>2, <1>4, OutputAligned DEF new

\* Replacing, retiring and restarting only withdraw.
LEMMA WithdrawalsAligned ==
    ASSUME AuthorityInv, UNCHANGED targets, DOMAIN reviews' = DOMAIN reviews,
           \A r \in DOMAIN reviews :
              \/ reviews'[r] = Revalidate(reviews[r])
              \/ \E retired : reviews'[r] = Retire(reviews[r], retired)
    PROVE  GenerationsPast' /\ (AuthorityTracksTarget /\ StaleTargetSilent)'
<1>1. \A r \in DOMAIN reviews :
        /\ reviews'[r].target = reviews[r].target
        /\ reviews'[r].targetGeneration = reviews[r].targetGeneration
  BY ReviewLookups, RevalidateKeeps, RetireKeeps DEF AuthorityInv, Kept
<1>2. \A r \in DOMAIN reviews : Aligned(reviews'[r], TargetCurrent(reviews[r]))
  <2> SUFFICES ASSUME NEW r \in DOMAIN reviews
               PROVE  Aligned(reviews'[r], TargetCurrent(reviews[r]))
    OBVIOUS
  <2>1. TargetCurrent(reviews[r]) \in BOOLEAN
    BY DEF TargetCurrent
  <2>2. reviews[r] \in Review /\ Aligned(reviews[r], TargetCurrent(reviews[r]))
    BY ReviewLookups, AlignedReviews DEF AuthorityInv
  <2> QED BY <2>1, <2>2, WithdrawalAligned
<1> QED
  BY <1>1, <1>2, TargetsKept

\* The authority invariant holds of the empty coordinator.
LEMMA AuthorityInit == Init => AuthorityInv
<1> SUFFICES ASSUME Init PROVE AuthorityInv
  OBVIOUS
<1>1. DOMAIN reviews = {}
  BY DEF Init, EmptyMap
<1> QED
  BY <1>1, TypeInit DEF AuthorityInv, GenerationsPast, AuthorityTracksTarget, StaleTargetSilent

\* Every step keeps the authority invariant.
LEMMA AuthorityStep == AuthorityInv /\ [Next]_vars => AuthorityInv'
<1> DEFINE Inv == GenerationsPast /\ (AuthorityTracksTarget /\ StaleTargetSilent)
<1> SUFFICES ASSUME AuthorityInv, [Next]_vars PROVE Inv'
  BY TypeStep DEF AuthorityInv
<1>1. ASSUME UNCHANGED <<targets, reviews>>
      PROVE  Inv'
  BY <1>1 DEF AuthorityInv, GenerationsPast, AuthorityTracksTarget, StaleTargetSilent,
              TargetCurrent
<1>2. CASE Control
  <2>1. ASSUME NEW e, NEW t, NEW content, RegisterTarget(e, t, content)
        PROVE  Inv'
    BY <2>1, RegisterTargetAligned
  <2>2. ASSUME NEW e, NEW c, NEW capability, RegisterCritic(e, c, capability)
        PROVE  Inv'
    BY <1>1, <2>2 DEF RegisterCritic
  <2>3. ASSUME NEW e, NEW t, NEW content, AdvanceTarget(e, t, content)
        PROVE  Inv'
    <3>1. TypeOK'
      BY TypeStep DEF AuthorityInv
    <3> QED BY <2>3, <3>1, AdvanceTargetAligned
  <2>4. ASSUME NEW e, NEW c, NEW capability, NEW advance,
               AdvanceCritic(e, c, capability, advance)
        PROVE  Inv'
    BY <2>4, WithdrawalsAligned DEF AdvanceCritic
  <2>5. ASSUME NEW e, NEW r \in Requests, NEW t \in Targets, NEW g \in TargetGenerations,
               NEW spec, DeclareReview(e, r, t, g, spec)
        PROVE  Inv'
    BY <2>5, DeclareReviewAligned
  <2>6. ASSUME NEW e, NEW r \in DOMAIN reviews, NEW batch, AssignCritics(e, r, batch)
        PROVE  Inv'
    BY <2>6, AssignCriticsAligned
  <2>7. ASSUME NEW e, NEW r \in DOMAIN reviews, CommitReview(e, r) \/ CancelReview(e, r)
        PROVE  Inv'
    BY <2>7, ClosingAligned
  <2> HIDE DEF Inv
  <2> QED
    BY <1>2, <2>1, <2>2, <2>3, <2>4, <2>5, <2>6, <2>7 DEF Control
<1>3. CASE Incarnation
  <2>1. ASSUME NEW e, NEW w, NEW boot, NEW c, NEW g, RegisterWorker(e, w, boot, c, g)
        PROVE  Inv'
    BY <2>1, WithdrawalsAligned DEF RegisterWorker
  <2>2. ASSUME NEW e, NEW x, NEW ready, NEW healthy, NEW evidence,
               DeclareReadiness(e, x, ready, healthy, evidence)
        PROVE  Inv'
    BY <1>1, <2>2 DEF DeclareReadiness
  <2>3. ASSUME NEW ws, Fence(ws)
        PROVE  Inv'
    BY <2>3, WithdrawalsAligned DEF Fence
  <2> HIDE DEF Inv
  <2> QED
    BY <1>3, <2>1, <2>2, <2>3 DEF Incarnation, FenceWorker, FenceCritic
<1>4. CASE Output
  <2> HIDE DEF Inv
  <2>1. \A m, input, f : SubmitEvidence(m, input, f) => Inv'
    BY SubmitEvidenceAligned DEF Inv
  <2>2. \A m, input, f : SubmitFinding(m, input, f) => Inv'
    BY SubmitFindingAligned DEF Inv
  <2>3. \A m, f : SubmitChallenge(m, f) => Inv'
    BY SubmitChallengeAligned DEF Inv
  <2>4. \A m, ch, outcome : SubmitRebuttal(m, ch, outcome) => Inv'
    BY SubmitRebuttalAligned DEF Inv
  <2> QED
    BY <1>4, <2>1, <2>2, <2>3, <2>4 DEF Output
<1>5. CASE Restart
  BY <1>5, WithdrawalsAligned DEF Restart
<1>6. CASE UNCHANGED vars
  BY <1>1, <1>6 DEF vars
<1> HIDE DEF Inv
<1> QED
  BY <1>2, <1>3, <1>4, <1>5, <1>6 DEF Next

\* The authority invariant holds in every run: types, generations that are
\* never ahead of their target, and the two properties of this section.
THEOREM AuthoritySafe == Spec => []AuthorityInv
  BY AuthorityInit, AuthorityStep, PTL DEF Spec

\* README "Review target model": in every run a review claims authority exactly while
\* it is open or committed and its target is at the generation it reviewed.
THEOREM AuthorityTracks == Spec => []AuthorityTracksTarget
  BY AuthoritySafe, PTL DEF AuthorityInv

\* README "Review target model": a finding about a generation that has passed never
\* asserts anything again.
THEOREM StaleSilent == Spec => []StaleTargetSilent
  BY AuthoritySafe, PTL DEF AuthorityInv

=============================================================================
