--------------------------- MODULE WorkerProtocol ---------------------------
(***************************************************************************)
(* Worker processes (CriticWorker::run, src/worker.cpp) and controllers on *)
(* the two ends of the server, with their client (CoordinatorClient, src/  *)
(* transport.cpp).  A process has a boot identity of its own, which is its *)
(* name; several processes may be configured with the same worker          *)
(* identity, one replacing another.  Simplifications:                      *)
(*                                                                         *)
(*  - hello, register_critic of the known implementation and query_target  *)
(*    change nothing and drop the same notices as the call after them.     *)
(*    They are part of it.                                                 *)
(*  - The publish gate and the synthetic output are left out: a critic has *)
(*    one thing to say, with fresh evidence each time.                     *)
(***************************************************************************)
EXTENDS CoordinatorServer

CONSTANTS
    Processes, Controllers,
    Identity,           \* [worker, critic] of a process (forced_worker, critic)
    Orders,             \* kinds of requests a controller sends
    MaxServiced         \* WorkerConfig::max_assignments

ASSUME PeersAssumption ==
    /\ Peers = Processes \cup Controllers
    /\ Processes \cap Controllers = {}
    /\ Boots = Processes

ASSUME IdentityAssumption == Identity \in [Processes -> [worker : Workers, critic : Critics]]

ASSUME OrdersAssumption ==
    Orders \subseteq {"AssignCritics", "CommitReview", "CancelReview", "SupersedeTarget",
                     "Shutdown", "Malformed"}

VARIABLES
    phase,      \* off, the kind of call a client is waiting for, listening,
                \* finished, failed, dead
    todo,       \* assignments a process is working on, the current one first
    serviced,   \* serviced_
    missed      \* history: assignments whose notice a client threw away

protocolVars == <<phase, todo, serviced, missed>>
allVars == <<vars, serverVars, protocolVars>>

Calls == {"RegisterWorker", "DeclareReadiness", "QueryAssignments", "SubmitEvidence",
          "SubmitFinding"}

Running(k) == phase[k] \notin {"off", "finished", "failed", "dead"}

-----------------------------------------------------------------------------
(* The client.                                                             *)

WorkerRequest(p, kind, review, evidence) ==
    [kind |-> kind, worker |-> Identity[p].worker, boot |-> p, critic |-> Identity[p].critic,
     generation |-> 1, review |-> review, evidence |-> evidence]

\* CoordinatorClient::send, and then the client waits for the answer.
Ask(k, q) ==
    /\ request' = [request EXCEPT ![k] = q]
    /\ phase' = [phase EXCEPT ![k] = q.kind]

\* The process returns from run, and its destructor closes the connection.
Leave(k, end) ==
    /\ phase' = [phase EXCEPT ![k] = end]
    /\ left' = left \cup {k}
    /\ frames' = [frames EXCEPT ![k] = <<>>]

ConnectFails(k) ==
    /\ phase[k] = "off"
    /\ server # "up"
    /\ phase' = [phase EXCEPT ![k] = "failed"]
    /\ UNCHANGED <<vars, serverVars, todo, serviced, missed>>

\* The next frame, when it is one of the given kind.
Takes(k, kind) ==
    /\ frames[k] # <<>>
    /\ Head(frames[k]).kind = kind
    /\ frames' = [frames EXCEPT ![k] = Tail(@)]

\* exchange: a notice that arrives while the client waits for an answer goes to
\* the push handler, which no caller sets.
DropNotice(k) ==
    /\ phase[k] \in Calls
    /\ Takes(k, "Notice")
    /\ missed' = missed \cup Head(frames[k]).assignments
    /\ UNCHANGED <<vars, server, link, left, accepting, calling, routing, stage, closed,
                   phase, todo, serviced>>

\* receive fails once the server has closed and every frame has been read.
ConnectionLost(k) ==
    /\ Running(k)
    /\ CutOff(k)
    /\ frames[k] = <<>>
    /\ Leave(k, "failed")
    /\ UNCHANGED <<vars, server, link, accepting, calling, routing, stage, closed,
                   todo, serviced, missed>>

Refused(k) ==
    /\ phase[k] \in Calls
    /\ frames[k] # <<>>
    /\ Head(frames[k]).kind = "Error"
    /\ Leave(k, "failed")
    /\ UNCHANGED <<vars, server, link, accepting, calling, routing, stage, closed,
                   todo, serviced, missed>>

\* The process is killed, at any point.
Dies(k) ==
    /\ Running(k)
    /\ Leave(k, "dead")
    /\ UNCHANGED <<vars, server, link, accepting, calling, routing, stage, closed,
                   todo, serviced, missed>>

-----------------------------------------------------------------------------
(* CriticWorker::run.                                                      *)

Launch(p) ==
    /\ phase[p] = "off"
    /\ server = "up"
    /\ link' = [link EXCEPT ![p] = "queued"]
    /\ Ask(p, WorkerRequest(p, "RegisterWorker", NoId, NoId))
    /\ UNCHANGED <<vars, server, left, frames, accepting, answer, notices, routing, stage,
                   closed, todo, serviced, missed>>

\* publish_synthetic_assignment begins with the evidence.  A process that finds the
\* target superseded ends before it submits any; here it ends when that is refused.
Service(p, seats) ==
    /\ todo' = [todo EXCEPT ![p] = seats]
    /\ IF seats = <<>>
       THEN phase' = [phase EXCEPT ![p] = "listening"] /\ UNCHANGED request
       ELSE Ask(p, WorkerRequest(p, "SubmitEvidence", Head(seats).review, NoId))

Registered(p) ==
    /\ phase[p] = "RegisterWorker"
    /\ Takes(p, "Ok")
    /\ Ask(p, WorkerRequest(p, "DeclareReadiness", NoId, NoId))
    /\ UNCHANGED <<vars, server, link, left, accepting, answer, notices, routing, stage,
                   closed, todo, serviced, missed>>

Declared(p) ==
    /\ phase[p] = "DeclareReadiness"
    /\ Takes(p, "Ok")
    /\ Ask(p, WorkerRequest(p, "QueryAssignments", NoId, NoId))
    /\ UNCHANGED <<vars, server, link, left, accepting, answer, notices, routing, stage,
                   closed, todo, serviced, missed>>

\* What was assigned before is serviced first.
Queried(p) ==
    /\ phase[p] = "QueryAssignments"
    /\ Takes(p, "Ok")
    /\ Service(p, SetToSeq(Head(frames[p]).assignments))
    /\ UNCHANGED <<vars, server, link, left, accepting, answer, notices, routing, stage,
                   closed, serviced, missed>>

Noticed(p) ==
    /\ phase[p] = "listening"
    /\ Takes(p, "Notice")
    /\ Service(p, SetToSeq(Head(frames[p]).assignments))
    /\ UNCHANGED <<vars, server, link, left, accepting, answer, notices, routing, stage,
                   closed, serviced, missed>>

\* ... and cites it in the finding.
EvidenceRecorded(p) ==
    /\ phase[p] = "SubmitEvidence"
    /\ Takes(p, "Ok")
    /\ Ask(p, WorkerRequest(p, "SubmitFinding", Head(todo[p]).review, Head(frames[p]).evidence))
    /\ UNCHANGED <<vars, server, link, left, accepting, answer, notices, routing, stage,
                   closed, todo, serviced, missed>>

FindingRecorded(p) ==
    /\ phase[p] = "SubmitFinding"
    /\ frames[p] # <<>> /\ Head(frames[p]).kind = "Ok"
    /\ serviced' = [serviced EXCEPT ![p] = @ + 1]
    /\ IF serviced[p] + 1 >= MaxServiced
       THEN Leave(p, "finished") /\ UNCHANGED <<todo, request>>
       ELSE Takes(p, "Ok") /\ Service(p, Tail(todo[p])) /\ UNCHANGED left
    /\ UNCHANGED <<vars, server, link, accepting, answer, notices, routing, stage,
                   closed, missed>>

-----------------------------------------------------------------------------
(* A controller: orders, one after the other, whatever is answered.        *)

Order(c, kind, r) ==
    /\ \/ phase[c] = "off" /\ server = "up" /\ link' = [link EXCEPT ![c] = "queued"]
       \/ phase[c] = "listening" /\ UNCHANGED link
    /\ Ask(c, [kind |-> kind, review |-> r])
    /\ UNCHANGED <<vars, server, left, frames, accepting, answer, notices, routing, stage,
                   closed, todo, serviced, missed>>

Ordered(c) ==
    /\ phase[c] \in Orders
    /\ Takes(c, "Ok") \/ Takes(c, "Error")
    /\ phase' = [phase EXCEPT ![c] = "listening"]
    /\ UNCHANGED <<vars, server, link, left, accepting, calling, routing, stage, closed,
                   todo, serviced, missed>>

-----------------------------------------------------------------------------

ProtocolInit ==
    /\ ServerInit
    /\ phase = [k \in Peers |-> "off"]
    /\ todo = [p \in Processes |-> <<>>]
    /\ serviced = [p \in Processes |-> 0]
    /\ missed = {}

\* What a client does with what it is sent.
Reacts(p) ==
    \/ DropNotice(p) \/ ConnectionLost(p) \/ Refused(p) \/ Registered(p) \/ Declared(p)
    \/ Queried(p) \/ Noticed(p) \/ EvidenceRecorded(p) \/ FindingRecorded(p)

ProtocolNext ==
    \/ ServerStep /\ UNCHANGED protocolVars
    \/ \E p \in Processes : Launch(p) \/ ConnectFails(p) \/ Reacts(p) \/ Dies(p)
    \/ \E c \in Controllers :
          \/ \E kind \in Orders, r \in Requests : Order(c, kind, r)
          \/ Ordered(c) \/ ConnectionLost(c) \/ Dies(c)

\* The operating system runs every thread that can go on and every process, and
\* a free lock is given to who waits for it.  Nobody has to start a process,
\* send an order or stop the server.
Fairness ==
    /\ WF_allVars(AcceptorStep /\ UNCHANGED protocolVars)
    /\ WF_allVars(StopStep /\ UNCHANGED protocolVars)
    /\ \A k \in Peers : WF_allVars(Serve(k) /\ UNCHANGED protocolVars)
    /\ \A p \in Processes : WF_allVars(Reacts(p))

-----------------------------------------------------------------------------
(* Properties.                                                             *)

\* The accept loop waits for a thread that waits for the lock the loop holds.
\* Nothing gets either of them out of it.
Hung ==
    /\ acceptor = "reaping"
    /\ cursor <= Len(threads)
    /\ threads[cursor] \in closed
    /\ stage[threads[cursor]] = "forgetting"

\* README "Concurrency model": "No thread is joined while holding a lock the
\* joined thread needs".
NoJoinUnderNeededLock == ~Hung

\* The process p may publish.
Speaks(p) == \E w \in DOMAIN workers : workers[w].boot = p /\ Authoritative(w)

\* A notice is looked up on a connection whose thread will still forget it:
\* no worker is left registered on a connection that is gone.
RoutesAreServed ==
    \A w \in DOMAIN route :
        /\ route[w] \in Range(threads)
        /\ stage[route[w]] \notin {"fencing", "done"}

\* A worker that came back on a fresh connection keeps its registration when
\* the connection it had before is forgotten, however late.
FreshRouteSurvives ==
    [][\A w \in DOMAIN route :
          server' # "down" /\ w \notin DOMAIN route' => stage'[route[w]] = "fencing"]_route

\* README "Worker death and reincarnation": the incarnation on a connection is
\* fenced when the connection is lost, and no other.
FencesExactIncarnation ==
    [][\A k \in Peers : stage[k] = "fencing" /\ owned'[k] # owned[k] =>
          \A p \in Processes \ {k} : Speaks(p) => Speaks(p)']_<<workers, owned>>

\* stop returns when no thread can call the coordinator any more, and nobody
\* who spoke through the server still may.
StoppedMeansSilent ==
    server = "down" =>
        /\ \A k \in Peers : stage[k] \in {"none", "done"}
        /\ \A p \in Processes : ~Speaks(p)

\* README "Worker death and reincarnation": a process that has exited or was
\* killed loses its voice, even if its last call is answered after its death.
TheDeadFallSilent ==
    \A p \in Processes :
        ~Running(p) /\ Speaks(p) ~> ~Speaks(p) \/ Hung

\* README "Distributed reference topology": every call is answered or the
\* connection fails.
CallsAreAnswered ==
    \A p \in Processes : phase[p] \in Calls ~> phase[p] \notin Calls \/ Hung

StopReturns == server = "stopping" ~> server = "down" \/ Hung

OpenSeats(p) ==
    UNION {{Seat(r, a) : a \in {x \in reviews[r].assignments :
                                 x.boot = p /\ x.active /\ ~Discharged(reviews[r], x)}} :
           r \in OpenReviews}

\* An assignment is discharged, or retired with its process, unless its review
\* is closed first or its notice reached the process in the middle of another
\* call.  So is one whose notice went to another incarnation: with that one its
\* own process is fenced.
AssignmentsAreServed ==
    \A p \in Processes : OpenSeats(p) # {} ~> OpenSeats(p) \subseteq missed \/ Hung

\* A process that may speak, and has room in its review, is refused only when
\* it works on the assignment of another process or on a review that has been
\* closed since: committed, cancelled, or superseded with its target.
RefusedForAReason ==
    [][\A p \in Processes :
          phase[p] \in Calls /\ phase'[p] = "failed" /\ ~CutOff(p) =>
              \/ ~Speaks(p)
              \/ todo[p] # <<>> /\ Head(todo[p]).boot # p
              \/ todo[p] # <<>> /\ Head(todo[p]).review \notin OpenReviews]_phase

\* The thread of p reads the request of p, one of these kinds, and goes on.
Handles(p, kinds) ==
    stage[p] = "reading" /\ stage'[p] # "reading" /\ request[p].kind \in kinds

IsOwn(p, x) == x.boot = p /\ x.worker = Identity[p].worker /\ x.critic = Identity[p].critic

FindingIsOwn(f) == \E p \in Processes : IsOwn(p, f) /\ Handles(p, {"SubmitFinding"})

\* A worker that has a new boot, or may speak from now on.
Takeover(w) ==
    \/ w \notin DOMAIN workers
    \/ workers'[w].boot # workers[w].boot
    \/ Authoritative(w)' /\ ~Authoritative(w)

TakeoverIsOwn(w) ==
    \E p \in Processes :
        /\ workers'[w].boot = p /\ Identity[p].worker = w
        /\ Handles(p, {"RegisterWorker", "DeclareReadiness"})

\* README "Worker death and reincarnation": a message of a process speaks for that
\* process only.  A finding is attributed to the very process whose request is
\* being answered, and a process gets its voice from its own requests only,
\* however late those of the processes it has replaced arrive.
OutputIsOwn ==
    [][/\ \A w \in DOMAIN workers' : Takeover(w) => TakeoverIsOwn(w)
       /\ \A r \in DOMAIN reviews : \A f \in reviews'[r].findings :
             (\A g \in reviews[r].findings : g.id # f.id) => FindingIsOwn(f)]_<<workers, reviews>>

=============================================================================
