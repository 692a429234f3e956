------------------------- MODULE DurableCoordinator -------------------------
(***************************************************************************)
(* The coordinator above its journal (append_entries, apply_entry_locked   *)
(* and start, src/coordinator.cpp).  A call changes the memory at once,    *)
(* and then writes the change to the journal entry by entry, holding       *)
(* commit_mutex_.  The process may die between any two entries, and any    *)
(* append may fail.  stop closes the journal under the lock, and a call    *)
(* that was waiting for the lock goes on without it.  Simplifications:     *)
(*                                                                         *)
(*  - durable is what replaying the journal's entries yields.  That what   *)
(*    was appended is read again is the business of Journal.               *)
(*  - The entries of a call are derived from the difference it makes, in   *)
(*    the order in which the code emits them.  Rebuttals, the texts of     *)
(*    state changes and the history of targets are left out.               *)
(*  - Death and the next start are one step; nothing runs in between.      *)
(*    start comes in a coordinator that has not failed.                    *)
(*  - A call that stop has overtaken is one step: its appends write        *)
(*    nothing, so a death among them changes nothing.  Any number of calls *)
(*    may have been waiting.                                               *)
(***************************************************************************)
EXTENDS Coordinator, SequencesExt

VARIABLES
    durable,    \* what the journal holds
    pending,    \* entries of the current call that are not appended yet
    serving,    \* starting (start has not returned), up (started_) or stopped
    failed,     \* persistence_failed_
    torn,       \* history: a call was cut off by a death or a failed append,
                \* or overtaken by stop
    served,     \* history: epochs in which start returned
    closed      \* history: outcomes of closed reviews, as acknowledged by calls
                \* that returned before stop

journaling == <<durable, pending, serving, failed, torn, served, closed>>

-----------------------------------------------------------------------------
(* Entries and their application.                                          *)

Entry(type, id, value) == [type |-> type, id |-> id, value |-> value]

StateEntry(r, rev) ==
    Entry("ReviewStateChanged", r,
          [state |-> rev.state, disposition |-> rev.disposition,
           authorityCurrent |-> rev.authorityCurrent, roundsUsed |-> rev.roundsUsed])

\* Applying an entry about a review.
Amended(rev, x) ==
    CASE x.type = "AssignmentsAdded" -> [rev EXCEPT !.assignments = @ \cup x.value]
      [] x.type = "AssignmentUpdated" ->
            [rev EXCEPT !.assignments =
                {IF a.critic = x.value.critic /\ a.ordinal = x.value.ordinal
                 THEN x.value ELSE a : a \in @}]
      [] x.type = "FindingRecorded" ->
            [rev EXCEPT
                !.findings = @ \cup {x.value},
                !.evidences = {IF e.id \in Range(x.value.evidence) /\ e.finding = NoId
                               THEN [e EXCEPT !.finding = x.value.id] ELSE e : e \in @}]
      [] x.type = "FindingStateChanged" ->
            [rev EXCEPT !.findings = SetState(@, x.value.id, x.value.state)]
      [] x.type = "EvidenceRecorded" ->
            [rev EXCEPT
                !.evidences = @ \cup {x.value},
                !.findings = {IF f.id = x.value.finding
                              THEN [f EXCEPT !.evidence = Append(@, x.value.id)] ELSE f : f \in @}]
      [] x.type = "ChallengeRecorded" ->
            [rev EXCEPT !.challenges = {ch \in @ : ch.id # x.value.id} \cup {x.value}]
      [] x.type = "ReviewStateChanged" ->
            [rev EXCEPT !.state = x.value.state, !.disposition = x.value.disposition,
                        !.authorityCurrent = x.value.authorityCurrent,
                        !.roundsUsed = x.value.roundsUsed]
      [] x.type = "DecisionCommitted" -> [rev EXCEPT !.decision = x.value]

\* The incumbency rule, for worker w entered into ws.
Heir(heirs, c, w, ws) ==
    IF c \in DOMAIN heirs /\ ws[w].bootOrder <= ws[heirs[c]].bootOrder
    THEN heirs ELSE Put(heirs, c, w)

\* apply_entry_locked.  An entry about a review that is not known is passed over.
Applied(store, x) ==
    CASE x.type = "EpochEstablished" -> [store EXCEPT !.epoch = x.value]
      [] x.type = "TargetRegistered" -> [store EXCEPT !.targets = Put(@, x.id, x.value)]
      [] x.type = "CriticRegistered" -> [store EXCEPT !.critics = Put(@, x.id, x.value)]
      [] x.type = "WorkerRegistered" ->
            LET ws == Put(store.workers, x.id, x.value) IN
            [store EXCEPT !.workers = ws,
                          !.incumbents = Heir(@, x.value.critic, x.id, ws)]
      [] x.type = "ReviewDeclared" -> [store EXCEPT !.reviews = Put(@, x.id, x.value)]
      [] OTHER -> IF x.id \in DOMAIN store.reviews
                  THEN [store EXCEPT !.reviews[x.id] = Amended(@, x)] ELSE store

-----------------------------------------------------------------------------
(* The entries a call emits.                                               *)

\* The entries f gives to its arguments, in some order, and the concatenation
\* of the lists of entries it gives to them.
Each(f) == SetToSeq({f[x] : x \in DOMAIN f})
Joined(f) ==
    LET order == SetToSeq(DOMAIN f)
    IN  FlattenSeq([i \in 1 .. Cardinality(DOMAIN f) |-> f[order[i]]])

RetiredEntries(r, retired) ==
    LET updates == [a \in retired |-> Entry("AssignmentUpdated", r, [a EXCEPT !.active = FALSE])]
    IN  IF retired = {} THEN <<>>
        ELSE Each(updates) \o
             (IF reviews[r].state \in TerminalStates THEN <<>>
              ELSE <<StateEntry(r, Revalidate(reviews[r]))>>)

\* Mutant: the review is sent to revalidation, and the seat is kept.
FenceEntriesKeepingSeats(w) ==
    LET abandoned == [r \in DOMAIN reviews |->
                        IF Abandoned(reviews[r], {w}) = {} THEN <<>>
                        ELSE <<StateEntry(r, Revalidate(reviews[r]))>>]
    IN  IF Fenceable({w}) = {} THEN <<>>
        ELSE <<Entry("WorkerRegistered", w, Silenced({w})[w])>> \o Joined(abandoned)

\* fence_worker_locked.  A declaration of unreadiness leaves the assignments
\* alone, and is otherwise recorded like a fence.
FenceEntries(w) ==
    LET abandoned == [r \in DOMAIN reviews |->
            RetiredEntries(r, Abandoned(reviews[r], {w}) \ reviews'[r].assignments)]
    IN  IF Fenceable({w}) = {} THEN <<>>
        ELSE <<Entry("WorkerRegistered", w, Silenced({w})[w])>> \o Joined(abandoned)

Changed(old, new) == {k \in DOMAIN new : k \notin DOMAIN old \/ new[k] # old[k]}

\* register_target: the new target, and then review by review what supersedes
\* its findings and the review.
ClosingEntries(r) ==
    LET current == {f \in reviews[r].findings : f.state \in CurrentFindingStates}
    IN  Each([f \in current |->
                Entry("FindingStateChanged", r, [id |-> f.id, state |-> "Invalidated"])]) \o
        (IF StateEntry(r, reviews'[r]) = StateEntry(r, reviews[r]) THEN <<>>
         ELSE <<StateEntry(r, reviews'[r])>>)

TargetEntries ==
    LET changed == Changed(targets, targets')
        stale   == {r \in DOMAIN reviews : reviews'[r] # reviews[r]}
    IN  IF changed = {} THEN <<>>
        ELSE Each([t \in changed |-> Entry("TargetRegistered", t, targets'[t])]) \o
             Joined([r \in stale |-> ClosingEntries(r)])

\* register_critic: the critic, the fences of its workers, and then the seats
\* that are left, review by review.
VacatingEntries(c) ==
    Joined([w \in WorkersOf(c) |-> FenceEntries(w)]) \o
    Joined([r \in DOMAIN reviews |-> RetiredEntries(r, ActiveOf(reviews[r], c))])

CriticEntries ==
    LET changed == Changed(critics, critics')
    IN  Each([c \in changed |-> Entry("CriticRegistered", c, critics'[c])]) \o
        Joined([c \in changed |-> VacatingEntries(c)])

\* register_worker, declare_readiness, fence_worker and fence_critic: the
\* fences first, that of the worker itself before those of its competitors, and
\* last the record of the worker that is no mere fence.
WorkerEntries ==
    LET changed == Changed(workers, workers')
        fenced  == {w \in changed \cap DOMAIN workers : workers'[w] = Silenced({w})[w]}
        moved   == changed \ fenced
        before  == {w \in moved \cap DOMAIN workers : workers'[w].boot # workers[w].boot}
    IN  Joined([w \in before |-> FenceEntries(w)]) \o
        Joined([w \in fenced |-> FenceEntries(w)]) \o
        Each([w \in moved |-> Entry("WorkerRegistered", w, workers'[w])])

\* path_to_evaluating
PathToEvaluating(state) ==
    LET path == <<"Declared", "Assigning", "Assigned", "Reviewing", "FindingsReceived",
                  "Validating", "Evaluating">>
    IN  IF state \in Range(path)
        THEN SubSeq(path, 1 + CHOOSE i \in DOMAIN path : path[i] = state, Len(path))
        ELSE IF state = "Evaluating" THEN <<>> ELSE <<"Evaluating">>

\* The states a call takes the review through before the one it leaves it in.
Through(r, states, disposition) ==
    [i \in DOMAIN states |->
        StateEntry(r, [reviews[r] EXCEPT !.state = states[i], !.authorityCurrent = TRUE,
                                         !.disposition = disposition[i]])]

\* commit_review: the decision comes before the state that says so.
DecisionEntries(r) ==
    LET path   == PathToEvaluating(reviews[r].state) \o <<"Resolved">>
        last   == Len(path) - 1
        result == [i \in DOMAIN path |-> IF i < last THEN "None" ELSE reviews'[r].disposition]
    IN  Through(r, path, result) \o <<Entry("DecisionCommitted", r, reviews'[r].decision)>>

\* assign_critics: the batch, between the states that lead to Assigned.
SeatEntries(r, added) ==
    LET assigning == Through(r, <<"Assigning">>, <<"None">>)
        batch     == <<Entry("AssignmentsAdded", r, added)>>
    IN  CASE reviews[r].state = "Declared"             -> assigning \o batch
          [] reviews[r].state = "RevalidationRequired" -> batch \o assigning
          [] OTHER                                     -> batch

\* What a message or a controller's call records in review r: an assignment, a
\* decision, evidence, a challenge or its resolution, the states of findings, a
\* finding, and last the state of the review.
ReviewEntries(r) ==
    LET old == reviews[r]
        new == reviews'[r]
        added     == {a \in new.assignments : \A b \in old.assignments :
                        b.critic # a.critic \/ b.ordinal # a.ordinal}
        evidences == {e \in new.evidences : \A d \in old.evidences : d.id # e.id}
        findings  == {f \in new.findings : \A g \in old.findings : g.id # f.id}
        changed   == {f \in new.findings \ findings : \A g \in old.findings :
                        g.id = f.id => g.state # f.state}
    IN  (IF added = {} THEN <<>> ELSE SeatEntries(r, added)) \o
        (IF new.decision = old.decision THEN <<>> ELSE DecisionEntries(r)) \o
        Each([e \in evidences |-> Entry("EvidenceRecorded", r, e)]) \o
        Each([ch \in new.challenges \ old.challenges |-> Entry("ChallengeRecorded", r, ch)]) \o
        Each([f \in changed |->
                Entry("FindingStateChanged", r, [id |-> f.id, state |-> f.state])]) \o
        Each([f \in findings |-> Entry("FindingRecorded", r, f)]) \o
        (IF StateEntry(r, new) = StateEntry(r, old) THEN <<>> ELSE <<StateEntry(r, new)>>)

DeclaredEntries ==
    Each([r \in DOMAIN reviews' \ DOMAIN reviews |-> Entry("ReviewDeclared", r, reviews'[r])])

CallEntries ==
    TargetEntries \o CriticEntries \o
    (IF critics' = critics THEN WorkerEntries ELSE <<>>) \o
    (IF registry' # registry THEN <<>>
     ELSE DeclaredEntries \o Joined([r \in DOMAIN reviews |-> ReviewEntries(r)]))

-----------------------------------------------------------------------------
(* Steps.                                                                  *)

\* A call that finds the coordinator started, before and after it has waited
\* for commit_mutex_, applies its entries to the memory, all at once.
Call ==
    /\ serving = "up"
    /\ pending = <<>>
    /\ ~failed
    /\ Control \/ Incarnation \/ Output
    /\ pending' = CallEntries
    /\ UNCHANGED <<durable, serving, failed, torn, served, closed>>

\* fence_worker and fence_critic do not look at persistence_failed_.
FenceAfterFailure ==
    /\ serving = "up"
    /\ pending = <<>>
    /\ failed
    /\ \/ \E w \in Workers : FenceWorker(w)
       \/ \E c \in Critics : FenceCritic(c)
    /\ pending' = CallEntries
    /\ UNCHANGED <<durable, serving, failed, torn, served, closed>>

\* stop waits for the call that holds commit_mutex_.
Stop ==
    /\ serving = "up"
    /\ pending = <<>>
    /\ serving' = "stopped"
    /\ UNCHANGED <<vars, durable, pending, failed, torn, served, closed>>

\* A call that looked at started_ and then waited for commit_mutex_ while stop
\* held it.  It does not look again.  What it appends goes into the list in
\* memory, and fails only when that is full.
OvertakenCall ==
    /\ serving = "stopped"
    /\ \/ ~failed /\ (Control \/ Incarnation \/ Output)
       \/ failed /\ \/ \E w \in Workers : FenceWorker(w)
                    \/ \E c \in Critics : FenceCritic(c)
    /\ failed' \in {failed, TRUE}
    /\ torn' = TRUE
    /\ UNCHANGED <<durable, pending, serving, served, closed>>

\* What is known of a closed review once a call has returned success.
OutcomesOf(revs) ==
    {[review |-> r, state |-> revs[r].state, disposition |-> revs[r].disposition,
      decision |-> revs[r].decision] : r \in {x \in DOMAIN revs : revs[x].state \in TerminalStates}}

\* append_entries: one entry, and with the last one the call returns.
AppendEntry ==
    /\ pending # <<>>
    /\ durable' = Applied(durable, Head(pending))
    /\ pending' = Tail(pending)
    /\ serving' = IF pending' = <<>> THEN "up" ELSE serving
    /\ served' = IF pending' = <<>> THEN served \cup {epoch} ELSE served
    /\ closed' = IF pending' = <<>> /\ ~failed THEN closed \cup OutcomesOf(reviews) ELSE closed
    /\ UNCHANGED <<vars, failed, torn>>

\* The entry whose append fails may have reached the file.
AppendFails ==
    /\ pending # <<>>
    /\ serving = "up"
    /\ durable' \in {durable, Applied(durable, Head(pending))}
    /\ pending' = <<>>
    /\ failed' = TRUE
    /\ torn' = TRUE
    /\ UNCHANGED <<vars, serving, served, closed>>

BootOrdersOf(ws) == {ws[w].bootOrder : w \in DOMAIN ws}

\* Mutants: boot orders start again; the recovered workers go on; the reviews
\* go on; closed reviews are revalidated too; the epoch is not recorded.
FirstBootOrder(ws) == 1

KeepReady(ws) == ws

LeaveOpen(rev) == rev

RevalidateClosed(rev) ==
    [rev EXCEPT !.state = "RevalidationRequired", !.disposition = "RevalidationRequired",
                !.authorityCurrent = FALSE]

RecoveryWithoutEpoch(revs) ==
    LET open == {r \in DOMAIN revs : revs[r].state \notin TerminalStates}
    IN  Each([r \in open |-> StateEntry(r, Revalidate(revs[r]))])

\* rebuild_derived_locked
NextBootOrder(ws) == IF DOMAIN ws = {} THEN 1 ELSE 1 + Max(BootOrdersOf(ws))

\* Recovered workers are known and not authoritative, in memory only.
Cleared(ws) == [w \in DOMAIN ws |-> [ws[w] EXCEPT !.ready = FALSE, !.healthy = FALSE]]

Recovered(rev) == Revalidate(rev)

\* The epoch is recorded first, and then the reviews that were open.
RecoveryEntries(revs) ==
    LET open == {r \in DOMAIN revs : revs[r].state \notin TerminalStates}
    IN  <<Entry("EpochEstablished", NoId, durable.epoch + 1)>> \o
        Each([r \in open |-> StateEntry(r, Recovered(revs[r]))])

\* The process dies at any point, or has been stopped; start replays the journal.
Reboot ==
    /\ durable.epoch < MaxEpoch
    /\ epoch' = durable.epoch + 1
    /\ targets' = durable.targets
    /\ critics' = durable.critics
    /\ workers' = Cleared(durable.workers)
    /\ incumbents' = durable.incumbents
    /\ nextBootOrder' = NextBootOrder(durable.workers)
    /\ reviews' = [r \in DOMAIN durable.reviews |-> Recovered(durable.reviews[r])]
    /\ pending' = RecoveryEntries(durable.reviews)
    /\ serving' = "starting"
    /\ failed' = FALSE
    /\ torn' = (torn \/ pending # <<>>)
    /\ UNCHANGED <<durable, served, closed>>

\* A journal that holds what the memory holds.
JournalInit ==
    /\ durable = [epoch |-> epoch, targets |-> targets, critics |-> critics, workers |-> workers,
                  incumbents |-> incumbents, reviews |-> reviews]
    /\ pending = <<>>
    /\ serving = "up"
    /\ failed = FALSE
    /\ torn = FALSE
    /\ served = {epoch}
    /\ closed = {}

DurableNext ==
    \/ Call \/ FenceAfterFailure \/ AppendEntry \/ AppendFails
    \/ Stop \/ OvertakenCall \/ Reboot

JournaledSpec == Init /\ JournalInit /\ [][DurableNext]_<<vars, journaling>>

-----------------------------------------------------------------------------
(* Properties.                                                             *)

\* README "Architecture": "There is exactly one mutation path, so replay can
\* never drift from live behaviour".  When a call has returned, replaying the
\* journal gives what the memory holds, except for the readiness a restart has
\* cleared in memory only.
ReplayIsExact ==
    serving = "up" /\ pending = <<>> /\ ~failed =>
        /\ durable.epoch = epoch
        /\ durable.targets = targets
        /\ durable.critics = critics
        /\ Cleared(durable.workers) = Cleared(workers)
        /\ \A w \in DOMAIN workers : workers[w].ready => durable.workers[w] = workers[w]
        /\ durable.incumbents = incumbents
        /\ durable.reviews = reviews

\* As long as no call has been cut off or overtaken, the coordinator with its
\* journal does what Coordinator does: what start reads from the journal is what
\* Restart says of the memory that was lost.
UntornIsAtomic == [][torn' \/ Next]_vars

\* README "Coordinator restart": the epoch advances on every start, wherever
\* the start before was cut off, so that no two of them serve the same one.
EpochServedOnce ==
    [][serving = "starting" /\ serving' = "up" => \A e \in served : e < epoch]_serving

\* README "Worker death and reincarnation": a process that registers speaks for
\* its critic from then on, whatever was registered before the coordinator was
\* last started: the boot orders of the journal are not handed out again.
ReplacementTakesOver ==
    [][\A w \in DOMAIN workers' :
          epoch' = epoch /\ (w \in DOMAIN workers => workers'[w].boot # workers[w].boot) =>
              incumbents'[workers'[w].critic] = w]_<<epoch, workers, incumbents>>

\* README "Coordinator restart": "committed review outcomes survive unchanged",
\* and so does every other outcome a caller has been told by a call that
\* returned before stop.
AcknowledgedOutcomesSurvive ==
    \A x \in closed : x.review \in DOMAIN reviews /\ x \in OutcomesOf(reviews)

\* coordinator.hpp:61: "every public method is safe to call concurrently", and
\* what has been answered by the time the coordinator is started again is
\* there again, whoever was answered after stop.
OutcomesSurviveStop ==
    [][serving = "stopped" /\ serving' = "starting" /\ ~failed =>
          OutcomesOf(reviews) \subseteq OutcomesOf(reviews')]_<<serving, reviews>>

\* README "Authoritative review commit": at most one decision is ever recorded
\* of a review, also when the commit that recorded it was cut off before the
\* review said Committed, and is tried again.
OneDecisionPerReview ==
    [][\A r \in DOMAIN durable.reviews :
          durable.reviews[r].decision # NoDecision =>
              durable'.reviews[r].decision = durable.reviews[r].decision]_durable

\* README "Review target model": a decision is about the current generation of
\* its target, also when the supersession of the target was cut off before it
\* closed the review.
DecisionsAreCurrent ==
    [][\A r \in DOMAIN reviews \cap DOMAIN reviews' :
          reviews'[r].decision \notin {NoDecision, reviews[r].decision} =>
              TargetCurrent(reviews[r])]_reviews

\* README "Review target model": a committed review whose target has moved on
\* has "its authority explicitly cleared".
StaleCommitIsCleared ==
    \A r \in DOMAIN reviews :
        serving = "up" /\ pending = <<>> /\ reviews[r].state = "Committed"
            /\ ~TargetCurrent(reviews[r])
        => ~reviews[r].authorityCurrent

=============================================================================
