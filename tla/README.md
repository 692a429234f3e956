# Critic Fabric: specification and proofs

TLA+ models of Critic Fabric, a C++20 coordinator that decides which critic
processes may speak about which version of a target, collects their findings,
and commits at most one authoritative result per review. Line numbers refer to
the sources of the repository (`src/src/...` is its implementation directory).
`PROJECT.json` maps every definition to the lines it models.

## 1. The system

### Components, their state and their operations

| component | state | operations |
|---|---|---|
| Coordinator (`coordinator.cpp`) | targets and their generations; critics and their generations; worker incarnations; the incumbent of each critic; reviews with their assignments, findings, evidence, challenges, decision; the epoch; counters | `register_target`, `supersede_target`, `register_critic`, `register_worker`, `declare_readiness`, `fence_worker`, `fence_critic`, `declare_review`, `assign_critics`, `submit_evidence`, `submit_finding`, `submit_challenge`, `submit_rebuttal`, `commit_review`, `cancel_review`, `start`, `stop`, queries |
| Lifecycle (`lifecycle.cpp`) | none | classifiers of review states, the transition relation |
| Policy (`policy.cpp`) | none | default specification, validation, weights |
| Evaluation (`evaluation.cpp`) | none | `evaluate_review`: from a review and live authority to a disposition |
| Journal (`persistence.cpp`) | file, entries, offsets, failure flag | `open`, `append`, `rewrite_all`, `close` |
| Transport (`transport.cpp`) | connections, worker-to-connection registry, threads | accept, serve, notify, disconnect, stop |
| Worker runtime (`worker.cpp`) | one process: identity, boot, gate | connect, register, declare readiness, publish, exit |
| Codec, serialization, digests, explanation, enums, results, platform | none | pure functions |
| Applications, tests, examples, benchmark | none of their own | front ends |

### How they interact

Workers and controllers send framed messages over loopback TCP. A server thread
per connection decodes a frame and calls the coordinator. Every mutating call
holds `commit_mutex_` from start to end: it validates the request under
`state_mutex_`, builds journal entries, applies them to memory
(`apply_entry_locked`), releases `state_mutex_` and appends them to the journal
one by one. Queries take `state_mutex_` alone. A lost connection makes the
server fence the workers registered on it. On `start` the journal is replayed
through the same `apply_entry_locked`, live authority is cleared, and open
reviews are sent to revalidation under a fresh epoch.

### What is hard

- *Stale messages.* Between a worker's decision to send and the coordinator's
  validation, its boot, its critic's generation, its assignment, the target, the
  review or the epoch may have been replaced.
- *Withdrawal of authority.* Fences, replacements, implementation changes,
  target changes and restarts each reach into every review.
- *Opposite writes.* Half of the calls set `authority_current` and half clear it.
- *Three notions of "current".* A finding is current for the coordinator in
  three states and for the evaluation in one; a critic is current by generation,
  by incumbency and by readiness.
- *Repeated and late commits*, which re-evaluate a review after the fact.
- *Crashes* between the records of one call, and appends that fail after the
  change is already visible.
- *Stop* under a call that has found the coordinator started and waits for its
  lock.
- *Threads.* The accept loop, one thread per connection and `stop` share a lock
  and join each other; a disconnect races the worker that comes back.
- *Notices* that are sent once, to a process that may not be listening.

`PROJECT.json` lists each of these as a hazard at its line, with the property
that would catch it or the reason none does yet.

### What makes each component correct

- Registry: a critic never has two voices, and its voice is its newest process.
- Assignments: at most one seat per critic and review, held by the newest
  assignment; a process that disappears takes its open seats with it.
- Findings: a retired finding stays retired; challenge states are explained by
  challenges; no critic contradicts itself.
- Reviews: authority follows the target; closed is closed; committed means
  decided; a commit can be repeated.
- Evaluation: a PASS is earned by live, decisive, undisputed findings; dissent,
  repetition and dead processes cannot produce or preserve one.
- Journal: what was acknowledged is there again, or the journal is refused.
- Server: the accept loop keeps accepting; a disconnect silences the process
  that disconnected.

## 2. Modules

| module | models | extends |
|---|---|---|
| `Lifecycle` | `lifecycle.cpp`, the enumerations of `enums.hpp` | |
| `Policy` | `ReviewSpec`: `policy.hpp`, `policy.cpp` | `Lifecycle` |
| `Evaluation` | `evaluate_review` as an operator on input records | `Policy` |
| `Coordinator` | the coordinator as a state machine, one action per call | `Evaluation` |
| `ReviewAuthority` | what the coordinator promises its readers (abstract) | |
| `CoordinatorRefinement` | `Coordinator` as an implementation of `ReviewAuthority` | `Coordinator` |
| `Journal` | `PersistentJournal` as a state machine over its file | |
| `DurableCoordinator` | the coordinator above its journal: calls written entry by entry, deaths and failed appends between entries, `stop` and the calls it overtakes, `start` | `Coordinator` |
| `CoordinatorServer` | `CoordinatorServer` of `transport.cpp`: accept loop, connection threads, worker registry, `stop` | `Coordinator` |
| `WorkerProtocol` | `CriticWorker::run`, `CoordinatorClient` and controllers on both ends of the server | `CoordinatorServer` |
| `Verdicts` | a driver that feeds `Evaluate` the inputs of a debate: findings, a replaced process, a challenge | `Evaluation` |
| `MCEvaluation`, `MCCoordinator`, `MCJournal`, `MCDurable`, `MCTransport` | instances for TLC: constants, prepared states, slices | the modules they instantiate |
| `MCClaims`, `MCRevalidation` | statements of the documentation that the code does not keep | `MCCoordinator` |
| `EvaluationProofs`, `VerdictProofs` | theorems about the evaluation | `Evaluation`, `Verdicts` |
| `ReviewProofs`, `RecordProofs` | theorems about the coordinator | `Coordinator`, `CoordinatorRefinement` |
| `DurableProofs`, `ReplayProofs` | theorems about the coordinator above its journal | `DurableCoordinator` |
| `JournalProofs`, `ServerProofs` | theorems | `Journal`, `WorkerProtocol` |

### State of `Coordinator`

The variables are the maps of the code: `targets`, `critics`, `workers`,
`incumbents`, `reviews` are functions whose domain is the set of known
identities, `epoch` is `epoch_`, `nextBootOrder` is `next_boot_order_`. A review
is one record: its `ReviewRecord`, its specification and the sets of its
assignments, findings, evidence and challenges, and its decision
(`ReviewSlot`).

### Actions of `Coordinator`

One action per successful path of a mutating call, with the call's checks as
guards; a refused call changes nothing and has no action.

| action | code |
|---|---|
| `RegisterTarget`, `AdvanceTarget` | `register_target`, `supersede_target`, with `supersede_reviews_for_target_locked` |
| `RegisterCritic`, `AdvanceCritic` | `register_critic`; the second fences the critic's workers and retires its assignments |
| `RegisterWorker` | `register_worker` with the fences it causes and the incumbency rule |
| `DeclareReadiness` | `declare_readiness` |
| `FenceWorker`, `FenceCritic` | `fence_worker`, `fence_critic` |
| `DeclareReview`, `AssignCritics` | the same; a batch of assignments is granted whole |
| `SubmitEvidence`, `SubmitFinding`, `SubmitChallenge`, `SubmitRebuttal` | the same, after `check_authority_locked` (`CheckAuthority`) |
| `CommitReview`, `CancelReview` | the same; `Resolve` is the evaluation plus the decision's basis |
| `Restart` | `start` on the journal of a coordinator that stopped or died between two calls |

`Output` lets any process send any message at any time, with any epoch, boot and
generation: a delayed, duplicated or misdirected message is an `\E` over
`Messages`. Readers are not modelled: they change nothing.

### Abstractions

- A review is named by its request identity; its generation never advances in
  the code. The copies of a review's immutable bindings in a message are left
  out.
- Identities of findings, evidence and challenges are 1, 2, ... per review;
  only their order matters.
- A digest is the content it covers. Where the code compares two digests, the
  model compares what they cover (`Digest`, `SameDigest`, `Resolve`).
- `authoritative` is `ready /\ healthy`, which is how the code computes it.
- Sizes of strings and payloads, explanation text, provenance labels other than
  "known", and confidence are left out. So are the guards on evidence cited by a
  challenge or a rebuttal, which only refuse more.
- Error codes are left out: a call is refused or it is not.
- A conflict check compares the evidence lists as the code does
  (`same_evidence_set`): sorted, repetitions included. A list that names a
  record twice is therefore another list, although the documentation says
  evidence *set*; `NoSelfContradiction` is stated for the code's notion.

### `ReviewAuthority` and the refinement

The abstract specification knows objects with generations and a ledger of
reviews: each is open, waiting, decided or withdrawn, has at most one verdict, and
speaks with authority or does not. `Suspend`, `Resume`, `Decide`, `Withdraw` and
`Advance` are all it can do. There are no critics, workers, findings or policies.

`CoordinatorRefinement` maps a review by its state (`Status`: Committed is
decided, RevalidationRequired waits, the other terminal states are withdrawn,
the rest is open), its disposition once committed (`Verdict`) and its
`authority_current`. Most calls of the coordinator are stutters of this view. That
the others are steps of it says, among other things, that a review is decided
once, from an open state and for the current generation, and that everything
that fences, replaces or restarts can at most suspend reviews.

### `Journal`

The variables are the members of `PersistentJournal` (`entries`,
`nextSequence`, `validEnd`, `runningCrc`, `failed`, `attached` for the file
handle), the file (`disk`), the stage of a running append, and what the C
library has not written yet (`buffer`). Two history variables say what callers
were told: `acked`, the records whose append into the file succeeded, and
`doubt`, the one whose append was under way.

| action | code |
|---|---|
| `Opens`, `OpenRefuses`, `OpenInMemory` | `open` accepting or refusing a file, with the creation of an absent one; `open_in_memory` |
| `BeginAppend`, `WriteRecord`, `WriteMarker`, `Flush`, `AppendFails` | `append` into a file: the record over the old end marker, the new marker, the flush, and failure at any of them |
| `AppendDetached` | `append` without a file handle (in memory, after `close`, after a `rewrite_all` that could not replace the file): nothing is written and the call succeeds |
| `Drain` | the C library hands its buffer to the operating system, piece by piece and perhaps in part |
| `Rewrite` | `rewrite_all`: replaced and reopened, replaced and not reopened, or not replaced |
| `Close`, `Crash` | `close`; the death of the process |
| `Damage` | the file is cut, extended or altered while nobody has it open |

A checksum is what it covers: two different contents never share a CRC-32. Sizes
and offsets count records. An entry whose text is longer than the configured
limit can be written and not read (`Undecodable`). Left out: the loss of power
after the operating system has taken a write (`append` syncs to disk on Windows
only), a second `open` without `close`, header damage (refused like any other)
and which error code a refusal carries. Only appends that wrote the file count
as acknowledged; what an append after `close` costs a caller of the coordinator
is the business of `DurableCoordinator` (`OvertakenCall`). Nothing in the
repository calls `rewrite_all`.

### `DurableCoordinator`

The variables of `Coordinator` are the memory. `durable` is what replaying the
journal yields, `pending` the entries of the running call that are not appended
yet (they are derived from the difference the call makes, in the order the code
emits them), `serving` whether `start` has returned and `stop` has not been
called since, `failed` is `persistence_failed_`. `torn`, `served` and `closed` are
history: whether a call was ever cut off or overtaken by `stop`, the epochs that
served, the outcomes callers were told by calls that returned before `stop`.

| action | code |
|---|---|
| `Call` | a mutating call: the whole change to memory, and its entries |
| `AppendEntry` | `append_entries`, one entry; with the last one the call returns |
| `AppendFails` | an append fails; the record may or may not have reached the file |
| `FenceAfterFailure` | `fence_worker` and `fence_critic`, which do not look at `persistence_failed_` |
| `Stop` | `stop`, which waits for the call that holds `commit_mutex_` and closes the journal |
| `OvertakenCall` | a call that read `started_` before `stop` and gets the lock after it: the whole change to memory, and nothing in the journal |
| `Reboot` | death between any two entries, or after `stop`, and `start`: replay through `apply_entry_locked`, cleared readiness, revalidated reviews, a fresh epoch that is recorded before anything is served |

A call reads `started_` and then waits for `commit_mutex_`. Only `stop` can come
between the two to any effect, so a call is one step where it did not and
`OvertakenCall` where it did. Any number of calls may have waited. `Reboot` is the
start of a coordinator that has not failed: one whose object keeps
`persistence_failed_` set goes on refusing calls (below, *Fences after a failure*).

`JournaledSpec` is this system without bounds on its counters: the theorems are
about it, the run `durable` explores slices of it.

That the journal gives back what was appended is the business of `Journal`. The
two modules are checked separately and meet in that interface: a sequence of
acknowledged entries, perhaps followed by the one in doubt.

### `CoordinatorServer`

A connection and its thread carry the name of the peer, which connects once.

| variable | code |
|---|---|
| `link`, `left`, `frames` | the socket: waiting for `accept`, open, closed by the server; closed by the peer; frames the peer has not read |
| `request` | the request the peer waits on (a client has one outstanding, `request_mutex_`) |
| `server` | up, stopping (joining the acceptor), closing (joining threads), down |
| `acceptor`, `cursor` | `accept_loop`: polling, reaping with `registry_mutex_` held at an entry of `workers_threads_`, ended |
| `connections`, `threads` | `connections_`, `workers_threads_` |
| `stage`, `answer`, `notices` | where a connection's thread is, its response, the assignments it has still to announce |
| `closed`, `owned`, `route` | `Connection::closed`, `Connection::workers`, the registry `workers_` |

| action | code |
|---|---|
| `Accept`, `Reap`, `Spawn`, `AcceptorEnds` | `accept_loop`: the limit on connections, the joins under the lock, the new thread |
| `Dispatch` | `dispatch`: one call of the coordinator, accepted or refused (`Call`; `Closing` for what closes a review) |
| `RegisterRoute` | `register_worker` under the lock, after the coordinator has answered |
| `LookUp`, `Notify`, `AllAnnounced` | `notify_assignments`: the active assignments, each announced on the connection registered at that moment |
| `SendAnswer`, `EndOfStream` | the loop of `serve` |
| `ForgetRoutes`, `FenceOwned`, `ThreadEnds` | `forget_connection`: the registry under the lock, the fences without it |
| `StopBegins`, `StopInterrupts`, `StopEnds` | `stop`: flag and listener, joining the acceptor and interrupting connections, joining the threads |

Every thread runs one step at a time, interleaved with all others. The lock is
held across steps only by the accept loop while it reaps; the other critical
sections are one step each that needs the lock free (`RegistryFree`).

### `WorkerProtocol`

`phase` is where a client is: not started, waiting for the answer to a kind of
call, listening for notices, finished, failed or dead. `todo` is the assignments
a process works on, `serviced` is `serviced_`, `missed` (history) the assignments
whose notice a client threw away because it came while it waited for an answer.

| action | code |
|---|---|
| `Launch`, `ConnectFails`, `Registered`, `Declared`, `Queried` | `CriticWorker::run` up to its loop; `hello`, `register_critic` and `query_target` change nothing and are part of the call after them |
| `Noticed`, `EvidenceRecorded`, `FindingRecorded` | the loop: a notice, `publish_synthetic_assignment`, the end after `max_assignments` |
| `DropNotice`, `ConnectionLost`, `Refused` | `CoordinatorClient::exchange` and `receive`: a notice met on the way to an answer, the end of the stream, an error answer |
| `Dies` | the process is killed, anywhere |
| `Order`, `Ordered` | a controller sends requests one after the other |

Processes with the same worker identity replace each other; each has a boot of
its own. The publish gate is left out: a process publishes as soon as it has an
assignment. So is the check of the target's generation before publishing
(`worker.cpp:186`), which ends the process of a superseded review one call before
the refusal that ends it here.

A controller assigns critics, commits, cancels or supersedes the target of a
review, and shuts the server down. `SupersedeTarget` also stands for `target-create`
of a target that is known, which is the same call of the coordinator under another
name. A commit that is repeated is answered with the recorded decision and changes
nothing; it stands among the refused requests, for a controller stops at neither.
The registration of critics and the declaration of reviews come before: the run
starts where they are done. Requests that do not decode ("Malformed") are
modelled; the run does not send any, for they end the connection just as Shutdown
does.

## 3. What is checked

All runs are complete explorations of their instance. In every module a mutant of
the modelled code stands next to the definition it would change, one for each
property of a passing run: a plausible mistake that makes the property fail.

| run | instance | properties |
|---|---|---|
| `evaluation` | 3 critics, 16 specifications (every aggregation and disagreement policy, with and without the default predicates, with and without minimums per category), up to 3 findings of every outcome, 2 replacements, 1 challenge; 151,808 states | `PassIsEarned`, `DisagreementNeverPasses`, `RolesBypassedOnlyByCounting`, `ReplacedProcessIsForgotten`, `EchoesCarryNoWeight` |
| `authority` | 1 critic with 2 generations, 2 workers, 2 boots, 3 registrations, 1 review, 2 contents, a restart, from the empty coordinator, up to symmetry of workers and boots | `OneVoicePerCritic`, `IncumbentIsNewest`, `OneSeatPerCritic`, `LostVoiceForcesRevalidation`, `KeepsItsPromise` (the refinement) |
| `reviews` | a review whose critics are ready and assigned, in three slices, below | `TypeOK`, `ChallengesAccountForFindings`, `OverlookedAreContested`, `AuthorityTracksTarget`, `StaleTargetSilent`, `NoSelfContradiction`, `OutcomesAreFinal`, `RetiredFindingsStayRetired`, `CommitIsRepeatable` |
| `journal` | 3 entries, one of them undecodable, 4 records, a read limit of 3; 3,865,047 states | `JournalTypeOK`, `OpensToWhatWasAcknowledged`, `HealthyJournalReopens`, `AcknowledgedForEver` |
| `durable` | the review of `reviews` and a journal that holds it, 3 epochs, in two slices; 757,396 states | `ReplayIsExact`, `AcknowledgedOutcomesSurvive`, `OneVoicePerCritic`, `ReplacementTakesOver`, `UntornIsAtomic`, `EpochServedOnce`, `OneDecisionPerReview`, `DecisionsAreCurrent` |
| `transport` | 2 processes of one worker identity, 2 controllers, a target with 2 generations, a server for 3 connections, in six slices; 125,832 states | `RoutesAreServed`, `StoppedMeansSilent`, `FreshRouteSurvives`, `OutputIsOwn`, `RefusedForAReason`, `TheDeadFallSilent`, `CallsAreAnswered`, `StopReturns`, `AssignmentsAreServed` |

What the properties say is written above each of them. In short:

- `authority`: a critic has one voice, its newest process's, and one seat at most; a
  review whose open seat loses its process must be revalidated; and all of it
  is an implementation of `ReviewAuthority`.
- `reviews`: challenges explain the states of findings, an overlooked finding is a
  contested one, authority follows the target, a critic never contradicts itself,
  what is closed or retired stays so, and a repeated commit repeats its answer.
- `durable`: after a call has returned, replay gives what memory holds; outcomes
  that were acknowledged by a call that returned before `stop` survive (the others
  do not, see `late_call` below); an epoch is served once and a review decided
  once, for the current target, even by a call that was cut off and retried; and a
  coordinator no call of which was ever cut off or overtaken does what `Coordinator`
  does. The last is what carries the properties of the other runs over to a coordinator
  that restarts from its journal.
- `transport`: no worker is registered on a connection that is gone; a fresh
  registration survives the end of the old connection; a finding is attributed to
  the very process whose request is being answered, and a process gets its boot and
  its voice from its own requests only; a process that may speak, and has room in
  its review, is refused only because it works on an assignment that is not its own
  or on a review that has been committed, cancelled or superseded since; a process
  that has died falls silent; every call is answered or its connection fails;
  `stop` returns, and when it has, nobody speaks; an assignment is discharged or
  retired unless its review is closed or its notice reached the process in the middle
  of another call.

### Slices and bounds

Some products of everything that may happen are too large, and most of what
multiplies them is independent. They are cut by an action constraint, whose
slices are named in the MC modules.

- `reviews`: *Recovering* (two critics, findings that pass, at most one challenge,
  every replacement of one of the two processes, target changes, restart,
  cancellation), *Debating* (two findings of both outcomes, two challenges, all
  rebuttals, while processes come and go), *Evidenced* (one critic, three findings,
  two evidence records, lists of length 0 to 2, `KEEP_DISTINCT`).
- `durable`: *Replacements* (one critic; its process, implementation and target
  change under a review with a finding, before and after a restart) and *Debates* (two
  critics; findings with evidence, challenges and answers, no replacement; a second
  restart, after which no call is made). In both, a coordinator may be stopped in the
  first epoch, before any call was cut off, and `stop` overtakes calls about the
  review, failing appends among them or not. An entry that a call of the
  one slice writes is applied by the same `Applied` in the other.
- `transport`: *Stopped* (a worker and a controller on a server that is stopped; the
  worker is killed before it is ready, while it submits, while it listens or never),
  *Twins* (two processes of one identity at once), *Overtaking* (the second
  registers between the coordinator's answer to the first and the first's entry in
  the registry), *Relieved* (the second starts after the first was killed),
  *Crowded* (no connection left), *Closed* (a controller commits, cancels or
  supersedes the review while its critic has work to do). The policy is one that is
  quick to evaluate: what a commit decides plays no part in these properties.

Why the bounds suffice: every rule compares at most two incarnations, two
generations or two assignments, so two of each exercise each comparison both
ways; workers that move between critics are covered by the proofs of the
registry, which hold for any number of both. One review is enough because no
rule but the limit on open reviews relates two of them. Three findings let a
critic speak, contradict and supersede; two challenges let one be answered while
another is open. Three epochs let a restart be cut off and followed by another.
A thread of the server interacts with the acceptor, with `stop`, and with at
most one other thread (the one whose route it takes or forgets), so two processes
and a controller put every pair of steps in both orders. `MaxEpoch`,
`MaxTargetGeneration`, `MaxCriticGeneration`, `MaxBootOrder` and
`MaxAssignments` bound counters of the code that grow without end. In `journal`
the limits of the code are the bounds: `MaxRecords` exceeds `MaxFileRecords` so
that a journal can outgrow what `open` reads, and four records leave room for a
prefix, an append under way and a rewrite that renumbers. A file is damaged once
before it is written again, and a journal that has been closed is appended to once.
Symmetry is declared in `authority` only, which mentions no worker by name and
checks no liveness.

The prepared states are states the coordinator reaches by registering, declaring
readiness, declaring the review and assigning. Deadlock is checked in
`authority`, `reviews` and `journal`. The driver of `evaluation` is finite by design,
a failed coordinator at its last epoch has nothing left to do in `durable`, and
in `transport` the server stops and processes exit.

### Fairness

Only `transport` assumes any (`Fairness` in `WorkerProtocol`), and only what the
operating system provides: a thread of the server that can go on does, a process
that has something to read reads it, and a lock that is free is given to who
waits for it (the accept loop cannot keep it for itself: it takes it once per
connection, and connections are finitely many). It is weak fairness of the
accept loop, of `stop` once called, of each connection's thread and of each
process. Nobody has to start a process, to send an order, to kill a process or to
stop the server. The liveness properties hold *unless the accept loop hangs*
(`Hung`, see `join_under_lock`): nothing gets the server out of that.

### Where code and documentation disagree

Each of these has a run that ends in a counterexample.

- `dead_seat`: after a restart or a withdrawn readiness, a replaced process
  leaves an assignment that can neither be discharged nor replaced. Only
  advancing the critic's generation or cancelling the review gets out of it.
- `revalidation`: a challenge takes a review out of revalidation, and it can be
  committed without having been reassigned.
- `join_under_lock`: the accept loop joins a thread that waits for the lock the
  loop holds. Connections are neither accepted nor forgotten from then on, the
  processes behind them are never fenced, and `stop` does not return.
- `late_disconnect`: `forget_connection` fences by worker identity and not by boot,
  so the end of an old connection fences the process that has replaced it.
- `torn_supersession`: a death between the entry of a superseded target and those
  of its reviews leaves a committed review that claims to be about the current
  generation, for ever.
- `late_call`: mutators look at `started_` before they wait for `commit_mutex_` and
  not again (`coordinator.cpp:2439-2442`). A call that `stop` has overtaken closes a
  review in memory, its appends succeed without a file (`persistence.cpp:618`), and
  after the next start the review is open. `coordinator.hpp:61` calls every public
  method safe to call concurrently. The shipped application is not exposed to this:
  it stops the server, which joins every thread that calls, before the coordinator
  (`critic_coordinator.cpp:124-125`). Other users of the library must do the same.

Others were met and have no run of their own.

- *Outgrown journals.* `append` compares the number of records with its bound and
  never the size of the file (`persistence.cpp:588`). `open` refuses a file past
  `max_persistence_file_bytes` (`429`), and with it every acknowledged record, under
  the limits they were accepted under; with the defaults of `limits.hpp:42-43` the
  size is the smaller of the two (`README.md:302`). `HealthyJournalReopens` holds up
  to the bound and promises nothing past it.
- *Required roles.* `QUORUM_PASS`, `CONSENSUS_THRESHOLD` and `POLICY_TABLE` pass
  without the roles a specification requires (`evaluation.cpp:849-867`,
  `946-1012`; `README.md:111`). `RolesBypassedOnlyByCounting` shows that no other
  aggregation does.
- *Upheld findings* lose their vote: the evaluation counts findings in state
  Current only (`evaluation.cpp:82`; `README.md:189`). `OverlookedAreContested`
  shows that no finding nobody contested is overlooked.
- *Explicit supersession.* The contradiction check runs before `supersedes` is
  looked at, so the correction its error message asks for is refused with that
  error (`coordinator.cpp:2018-2030`; `README.md:129`).
- *Rounds.* The bound on review rounds is validated and recorded, and nothing
  compares `rounds_used` with it (`coordinator.cpp:2417`).
- *Orphaned challenges.* A finding that has been superseded by its critic or
  invalidated by another challenge can no longer be rebutted
  (`coordinator.cpp:2327`), so the challenges still open on it stay open.
- *Fences after a failure.* `fence_worker` and `fence_critic` do not look at
  `persistence_failed_` (`README.md:247`); memory goes further ahead of the journal
  until the restart. `start` does not reset the flag, so a coordinator object that
  failed refuses calls after it is started again; a fresh process does not.
- *Torn calls* other than a supersession. A commit cut off after its decision leaves
  a decision on a review that never says Committed; the retry after reassignment
  is acknowledged with the recorded decision. A rebuttal leaves a Challenged
  finding whose challenge is resolved, `register_critic` an active assignment of
  the old generation, a finding that supersedes another neither of the two
  current.
- *A full journal* cannot be started: `start` appends the epoch first
  (`coordinator.cpp:559`).
- *Assignments of others.* `query_assignments` answers by worker, so a fresh process
  is handed its predecessor's assignments, works on them and is refused and gone
  (`transport.cpp:828`). `RefusedForAReason` shows that, where limits and the policy
  on repeated findings leave room, the only other reason to refuse a process that may
  speak is that its review has been closed in the meantime.
- *Notices.* No caller sets the client's push handler, so a notice that arrives
  during a call is thrown away, although a worker "never has to poll"
  (`transport.cpp:647`); and `max_assignments` is 1 by default (`worker.hpp:26`).
  Every call of `assign_critics` announces all active assignments again, and a
  worker registered twice on a connection is fenced twice.
- *Sockets.* `connections_` shrinks in `stop` only, so `max_worker_connections`
  counts every connection there ever was (`transport.cpp:325`); after a bad frame
  or Shutdown a connection is marked closed and its socket left open until `stop`.
  A write to a peer that does not read blocks its thread, and with it whoever
  waits for the connection's write lock. On POSIX, where
  the first argument of `select` counts, `select(0, ...)` (`transport.cpp:297`)
  never reports a ready listener; the models follow the platform that ignores it
  (Windows), where the acceptor sees who waits.

## 4. What is proved

`tlapm` checks all proofs. They assume nothing but the named assumptions on
constants: limits are positive (`LimitsAssumption`, from
`clamp_to_hard_ceiling`), specifications are valid (`PoliciesAssumption`,
`declare_review` refuses others), bounds are positive (`BoundsAssumption`), the
inputs of findings and evidence are lists and Booleans (`InputsAssumption`), the
journal's entries and limits (`UndecodableAssumption`, `JournalLimitsAssumption`),
and for the server that peers are processes and controllers, a process's name is
its boot, and what it is configured with is well-typed (`PeersAssumption`,
`IdentityAssumption`, `OrdersAssumption`). TLC evaluates each of them.

`ReviewProofs`: `OneVoice` and `NewestSpeaks`, for every number of critics,
workers and boots. Neither is inductive. A worker that registers must become the
incumbent, which the rule of `apply_entry_locked` grants only if its boot order
exceeds the incumbent's; the strengthening `BootOrdersPast` says that every boot
order in the registry is below the next one. `RegistryInv` is the conjunction of
the type, the two properties and `BootOrdersPast`.

The same module has `TypeCorrect`, `AuthorityTracks` and `StaleSilent`. The last two
need each other: a call that sets `authority_current` is safe because the review
is open, and an open review's target is current because stale ones are closed.
They are inductive together with `GenerationsPast` (no review is ahead of its
target, so that a generation that has passed never becomes current again) and
the type invariant, which supplies the targets of reviews. `Aligned` states the
two properties for one review; each action either rewrites one review or maps
all of them, and has one lemma.

`RecordProofs`: `OutcomesFinal` and `RetiredStay`, that no step takes back how a
review closed or a finding was retired (findings are numbered and a new one never
takes the number of an old one); `OneSeat`, whose invariant numbers a critic's
seats from 1 and lets only the newest be active, for the critic's current
generation; and `LostVoice`, that whatever takes a process's voice while it holds
an open seat retires the seat and sends the review to revalidation. Every call
rewrites a review in one of a few ways (`Rewrites`), and the theorems about a
review's contents look at these ways only. `DecidedIsCommitted`: a decision and
the state Committed come and stay together (proved, and in no run of its own). `ChallengesAreKept`: the states of
findings are explained by their challenges. `NoCriticContradictsItself`: it needs
that the evidence a finding lists exists, is its critic's own and is numbered
(`Coherent`, `Numbered`), so that evidence attached later cannot make two
findings' lists equal. `OnlyContestedAreOverlooked` and `CommitRepeats` follow from
these and from `StateIsNoArgument`.

The same module has `PromiseKept`, that the coordinator implements
`ReviewAuthority`. Under `AuthorityInv` every call maps to one step of the abstract
specification or to none: the lemmas go action by action, and the invariant
supplies what the abstract guards ask and the code does not check, above all that
a review that is taken up again or decided is about the current generation.

`EvaluationProofs`, for every valid specification and every input whatever:
`EvaluateType` (every input gets a disposition), `PassIsClean` (a PASS fails no
mandatory predicate, ignores no open challenge, rests on current authority and at
least one decisive critic), `StateIsNoArgument` (the evaluation does not look at
the state a commit changes), `RequiredRolesAreHeard` (an aggregation that does more
than count passes only what every required role has voted on),
`RepetitionIsNoArgument` (the findings count through what their critics say and
which evidence they cite, not through their number, unless the specification
counts findings) and `UncountedHaveNoSay` (a finding without current authority
changes nothing).

`VerdictProofs`: the five properties of `evaluation`, for any critics, roles,
specifications and numbers of findings. The invariant `Shape` says what
the inputs have in common: each finding repeats one of the choices and is about the
reviewed generation, whatever the process behind it. The theorems
are the ones above at these inputs; `DissentIsHeard` counts the camps, since
`DisagreementNeverPasses` speaks of critics that are unanimous among themselves and
the code of critics whose votes differ.

`JournalProofs`: `JournalTypeCorrect`, `OpensAcknowledged`, `NothingForgotten` and
`HealthyReopens`, for every set of entries and all limits. What a file holds is not
inductive by itself: an intact file is what was acknowledged because of what is
still on its way to it. `BufferInv` says, for each stage of an append, which images
of the file the buffer holds; `MemoryInv` that offset, checksum and numbering in
memory are those of the acknowledged records while the handle is healthy;
`MarkerInv` that a whole end marker which covers its records closes exactly
`acked` or `acked \o doubt`; `NumberingInv` and `ModeInv` tie numbers to positions
and stages to modes. Each action has one lemma.

`DurableProofs`: the coordinator above its journal, with calls and starts cut off
between any two entries, appends that fail, and calls that `stop` overtakes. Most
of what holds between calls does not hold here: a torn supersession leaves a review
behind its target, a torn commit a decision on an open review, a failed append a
memory ahead of the journal. `DurableInv` is what does hold, always:

- the memory is well-typed and its registry as in `ReviewProofs` (`RegistryInv`),
  and a review that is neither closed nor waiting for revalidation is about its
  target's current generation (`OpenIsOfTheDay`: a restart sends every open review
  to revalidation, so that the half-closed ones stay out of reach of a commit until
  they are assigned again, which checks the target);
- what replay yields is well-formed and has the newest process of each critic as
  its incumbent (`StoreOK`, `NewestIn`);
- the journal is behind the memory and never ahead of it (`Behind`): older or equal
  boot orders, no decision the memory does not have, and every target of a
  coordinator that has neither failed nor been stopped is in the journal or on its
  way there;
- while the coordinator is up, the outstanding entries are of the current epoch,
  know their targets, and bring the records of a process in the order of its
  incarnations (`Up`, `InOrder`, `Overdue`); while it starts, the fresh epoch is
  recorded first and is past every one that was served (`Starting`); after `stop`
  nothing is outstanding, and the calls it has overtaken move the memory alone
  (`Stopped`).

What a call writes is not looked up in its action but derived from the change it
makes, so the proof has two halves: lemmas about the lists of entries
(`FenceListed` to `CallListed`: which entries there are, in which order), and
lemmas about replaying one of them (`AppliedOK`, `AmendedKeeps`, `HeirIsNewest`).
They meet in `OutstandingApplied`. `ServedOnce`, `OneDecision`, `DecidedIsCurrent`,
`OneVoiceRecovered` and `ReplacementSucceeds` follow from `DurableInv`, the last with
`BootOrdersPast`: boot orders of the journal are not handed out again.

`AcknowledgedSurvive` needs a second invariant above `DurableInv`, `OutcomeInv`
(model-checked over the states of the run `durable` before it was proved):

- an outcome that has been acknowledged before `stop` is in the memory and in the
  journal, and
  nothing that is outstanding says that the review is in another state
  (`Acknowledged`, with `Faithful` for the entries that do not);
- unless an append has failed or the coordinator has been stopped, what the memory
  holds of a review's outcome is in the journal or outstanding (`Carried`): its
  declaration, its decision, and, once it is closed, its state, about which the last
  outstanding entry is right (`Corrected`): the entries of a commit lead through
  other states before.

So when the last entry has been appended and the call returns, journal and memory
agree on what the caller is told (`OutcomeAppended`); no later call has a word on a
closed review (`ClosedIsLeftAlone`), not even a fence, which withdraws seats in closed
reviews too, and not one that `stop` has overtaken (`ClosedStands`); and a start
leaves it alone (`RecoveryIsFaithful`). The calls that close
a review put its last state behind everything else they say of it
(`ClosingIsToldLast`).

`ReplayProofs`: `ReplayExact` and `UntornAtomic`, that nothing is missing from what a
call writes and nothing in it is wrong, for each of the sixteen actions. The journal
replays a list of entries; what the list does is stated without a fold, by the stores
between the entries (`Leads`), each of them in order: well-formed records, findings,
evidence and challenges that their numbers tell apart, seats that critic and number
tell apart, and only critics that are registered (`Kempt`, `Sound`). The numbers
matter because `apply_entry_locked` replaces a record by its number: a list that names a
number twice, or one that is taken, rebuilds another review than the call made.

A call writes blocks of entries, and inside a block their order follows the
containers of the code, which the model leaves open. So a block is described by what
the journal holds when any *part* of it has been applied, and each entry leads from
one part to the part with that entry in it: any order will do. `Told` is such a
statement for the entries about one review, `Fenced` for the entries of a fence, which
withdraws a process and then its seats in every review. On top of them each call has
one lemma: what its blocks contain and where they lead. `register_worker` is the
longest: it fences the process's own previous incarnation and everybody who competes
with it before it writes the new one, and each of those may have seats in every
review.
`CallReplayed` collects the calls and `RecoveryReplayed` does the same for `start`.

`ReplayInv` is the invariant, inductive together with `DurableInv`:

- the journal is `Sound`, also when it ends inside a call;
- unless an append has failed or `stop` has overtaken a call (`InStep`), the
  outstanding entries lead from what the journal holds to what the memory holds
  (`OnTheWay`): with nothing outstanding, that is
  `ReplayIsExact`;
- after a failed append the memory is ahead and only fences are still written, whose
  entries leave every journal in order, whatever it is missing (`Harmless`); and the
  call that failed is torn;
- the next boot order is the one `start` computes from the registry (`NextInLine`), and
  every process in the memory of a coordinator that has not been stopped belongs to a
  critic that the journal knows: without the
  first a start would not be a `Restart`, without the second an entry of a fence could
  introduce a process of nobody.

`ServerProofs`: the composition of coordinator, server and clients, for any
number of peers, from any state `start` can leave (`Started`: the coordinator's
invariants hold and no worker may speak). Every step is a call of the coordinator
or leaves it alone (`ServerOnlyCalls`), so that its invariants carry over
(`OneVoiceServed`). `OutputOwn`: whatever processes claim one identity, a finding
carries the worker, critic and boot of the process whose request is being answered,
and a worker gets a boot or its voice only from a request of the process with that
boot. It goes call by call over what can add a finding or give a voice
(`CallAccounted`) and rests on `RequestsInv`, below: what a thread reads was asked by
its own peer. `RoutesServed`, `RouteSurvives` and `StoppedSilent` rest on
`ServerInv`: which connections have a thread (`ThreadsInv`, `ConnectionsInv`), that a
process asks on behalf of its own identity (`RequestsInv`), that a registered
worker's connection is at work and owns it (`RoutesInv`), and that the thread of
whoever may speak owns the worker, or is about to (`VoicesInv`): that is what
makes the fences of `forget_connection` reach everybody who ever spoke, although
the answer and the registration are two steps.

Only model-checked:

- `RefusedForAReason` is about why the coordinator refuses a call, and a refusal is
  `~ENABLED Call(q)` (`Refusable`), which the prover does not expand. Nor does it hold
  for every value of the constants: a review that is full refuses evidence too, and
  another policy than `KEEP_DISTINCT` repeated findings. The run gives the limits room.
- `OutcomesSurviveStop` does not hold; see `late_call`.
- `TheDeadFallSilent`, `CallsAreAnswered`, `StopReturns`, `AssignmentsAreServed` are
  liveness properties under fairness, which is out of the prover's reach, as are
  `ENABLED` and induction over data (what a fold computes for every sequence:
  `Flattened` goes by the least counterexample instead).

## 5. What is not modelled

- Frames, bytes and serialization (`protocol.cpp`, `serialization.cpp`): conversions
  without control of their own. A peer in the models sends what it means. So the
  refusal of a frame whose body carries more than it declares, which `dispatch`
  finds after the call has been made (`transport.cpp:910`), is left out.
- Explanation text, SHA-256 and CRC-32, platform calls. A digest and a checksum are
  what they cover.
- The command line of the applications. What a controller does to reviews that are
  under way is in `WorkerProtocol` (`Order`); its other commands are calls of
  `Coordinator`, checked there without a server. `critic_coordinator` calls `stop`
  at the end of its input or on Shutdown, which is `StopBegins` at any moment.
- Identity allocation (`allocate_*_id`) and requests that name an identity of
  their own choice next to it.
- The publish gate of the worker, which only delays or prevents a publication, and
  its check of the target's generation, which ends the process one call before the
  refusal that ends it in `WorkerProtocol`.
- A coordinator process that dies under its server and comes back: `DurableCoordinator`
  and `WorkerProtocol` are not composed. A client whose server is gone fails in
  either case, and `start` forgets everybody's readiness (`Started`).
- Tests, benchmark, examples and the downstream consumer use the library and add no
  behaviour.

## 6. What is left

1. `DurableCoordinator` under `CoordinatorServer`: a coordinator that fails an append
   while processes are connected.
2. Frame headers and size limits, as bounded arithmetic.
