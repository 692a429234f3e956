-------------------------- MODULE CoordinatorServer --------------------------
(***************************************************************************)
(* The server in front of the coordinator (CoordinatorServer, src/         *)
(* transport.cpp): an accept loop, one thread per connection, the registry *)
(* that tells which connection a worker speaks on, and stop.  Every call   *)
(* is answered by the actions of Coordinator.  Simplifications:            *)
(*                                                                         *)
(*  - A peer connects once, so a connection and its thread carry the       *)
(*    peer's name.  A client has one request outstanding (request_mutex_). *)
(*  - registry_mutex_ is held across steps by the accept loop only, while  *)
(*    it reaps threads; the other sections are steps of their own that     *)
(*    need it free.                                                        *)
(*  - TCP delivers in order until a side closes.  Bytes, correlation       *)
(*    identities and codec errors of well-formed peers are left out; a     *)
(*    frame that does not decode is a "Malformed" request.                 *)
(*  - Looking a notice's connection up and writing it is one step.         *)
(***************************************************************************)
EXTENDS Coordinator, SequencesExt

CONSTANT Peers      \* what connects: a worker process or a controller

VARIABLES
    link,           \* a peer's connection: none, queued, open, or closed by the server
    left,           \* peers that have closed their end
    request,        \* the request a peer waits on, or NoRequest
    frames,         \* frames a peer has not read
    server,         \* up, stopping (joining the acceptor), closing (joining threads), down
    acceptor,       \* accept_loop: polling, reaping (holds registry_mutex_), ended
    connections,    \* connections_: every connection accepted so far
    threads,        \* workers_threads_
    cursor,         \* the entry of threads the reaping loop looks at, 0 outside it
    stage,          \* where a connection's thread is: none, reading, registering,
                    \* looking (up what to announce), notifying, answering,
                    \* forgetting, fencing, done
    answer,         \* the response a connection's thread has prepared
    notices,        \* assignments a connection's thread has still to announce
    closed,         \* connections whose flag `closed' is set
    owned,          \* Connection::workers
    route           \* workers_: the connection of a worker

sockets   == <<link, left, frames>>
accepting == <<acceptor, connections, threads, cursor>>
calling   == <<request, answer, notices>>
routing   == <<owned, route>>
serverVars == <<sockets, accepting, calling, routing, server, stage, closed>>

NoRequest == [kind |-> "None"]

RegistryFree == acceptor # "reaping"

\* A frame to a peer: an answer with what it carries, or an assignment notice.
Answer(kind, assignments, evidence) ==
    [kind |-> kind, assignments |-> assignments, evidence |-> evidence]

Ok == Answer("Ok", {}, NoId)
Refusal == Answer("Error", {}, NoId)

\* What a notice or an answer says of an assignment of review r.
Seat(r, a) == [review |-> r, critic |-> a.critic, ordinal |-> a.ordinal,
               worker |-> a.worker, boot |-> a.boot]

ActiveSeats(r) == {Seat(r, a) : a \in {x \in reviews[r].assignments : x.active}}

\* The peer's end of the connection k will see the end of the stream.
CutOff(k) == link[k] = "closed"

-----------------------------------------------------------------------------
(* The accept loop.                                                        *)

Refuse(k) ==
    /\ Len(connections) >= Limits.workerConnections
    /\ link' = [link EXCEPT ![k] = "closed"]
    /\ UNCHANGED <<acceptor, connections, cursor>>

Admit(k) ==
    /\ Len(connections) < Limits.workerConnections
    /\ link' = [link EXCEPT ![k] = "open"]
    /\ connections' = Append(connections, k)
    /\ acceptor' = "reaping"
    /\ cursor' = 1

\* accept, and under the lock the limit on connections.
Accept(k) ==
    /\ server = "up"
    /\ acceptor = "polling"
    /\ link[k] = "queued"
    /\ Refuse(k) \/ Admit(k)
    /\ UNCHANGED <<vars, left, calling, frames, server, threads, stage, closed,
                   routing>>

\* A thread whose flag is set is joined: the loop waits for it to return.
Reap ==
    /\ acceptor = "reaping"
    /\ cursor <= Len(threads)
    /\ \/ /\ threads[cursor] \notin closed
          /\ cursor' = cursor + 1
          /\ UNCHANGED threads
       \/ /\ threads[cursor] \in closed
          /\ stage[threads[cursor]] = "done"
          /\ threads' = RemoveAt(threads, cursor)
          /\ UNCHANGED cursor
    /\ UNCHANGED <<vars, sockets, calling, server, acceptor, connections, stage,
                   closed, routing>>

\* The new connection's thread starts, and the lock is released.
Spawn ==
    /\ acceptor = "reaping"
    /\ cursor > Len(threads)
    /\ cursor' = 0
    /\ acceptor' = "polling"
    /\ threads' = Append(threads, Last(connections))
    /\ stage' = [stage EXCEPT ![Last(connections)] = "reading"]
    /\ UNCHANGED <<vars, sockets, calling, server, connections, closed, routing>>

AcceptorEnds ==
    /\ server # "up"
    /\ acceptor = "polling"
    /\ acceptor' = "ended"
    /\ UNCHANGED <<vars, sockets, calling, server, connections, threads, cursor,
                   stage, closed, routing>>

-----------------------------------------------------------------------------
(* serve and dispatch.                                                     *)

\* Mutant: the server fills in the boot that the worker is registered with.
ContextOfRegistered(q) ==
    [epoch |-> epoch, review |-> q.review, critic |-> q.critic,
     criticGeneration |-> q.generation, worker |-> q.worker,
     boot |-> IF q.worker \in DOMAIN workers THEN workers[q.worker].boot ELSE q.boot]

Context(q) ==
    [epoch |-> epoch, review |-> q.review, critic |-> q.critic,
     criticGeneration |-> q.generation, worker |-> q.worker, boot |-> q.boot]

\* What closes a review: its target is named by the review.
Closing(q) ==
    /\ q.kind \in {"CommitReview", "CancelReview", "SupersedeTarget"}
    /\ q.review \in DOMAIN reviews
    /\ \/ q.kind = "CommitReview" /\ CommitReview(epoch, q.review)
       \/ q.kind = "CancelReview" /\ CancelReview(epoch, q.review)
       \/ /\ q.kind = "SupersedeTarget"
          /\ \E content \in Contents :
                content.reviewable /\ AdvanceTarget(epoch, reviews[q.review].target, content)

\* The call of the coordinator a request becomes, when it is accepted.  A commit
\* that is repeated changes nothing, and stands among the refused ones.
Call(q) ==
    \/ /\ q.kind = "RegisterWorker"
       /\ RegisterWorker(epoch, q.worker, q.boot, q.critic, q.generation)
    \/ /\ q.kind = "DeclareReadiness"
       /\ DeclareReadiness(epoch, Context(q), TRUE, TRUE, critics[q.critic].capability.evidence)
    \/ /\ q.kind = "SubmitEvidence"
       /\ \E input \in EvidenceInputs : SubmitEvidence(Context(q), input, NoId)
    \/ /\ q.kind = "SubmitFinding"
       /\ \E input \in FindingInputs :
             input.evidence = <<q.evidence>> /\ SubmitFinding(Context(q), input, NoId)
    \/ /\ q.kind = "AssignCritics"
       /\ q.review \in DOMAIN reviews
       /\ \E batch \in SUBSET {x \in AssignmentRequests : Assignable(reviews[q.review], x)} :
             AssignCritics(epoch, q.review, batch)
    \/ Closing(q)
    \/ /\ q.kind \in {"QueryAssignments", "Shutdown"}
       /\ UNCHANGED vars

\* QueryAssignments: the active assignments of a worker, in every review.
SeatsOf(w) == {s \in UNION {ActiveSeats(r) : r \in DOMAIN reviews} : s.worker = w}

\* Mutant: the answer names the evidence recorded before.
ReplyWithLast(q) ==
    Answer("Ok",
           IF q.kind = "QueryAssignments" THEN SeatsOf(q.worker) ELSE {},
           IF q.kind = "SubmitEvidence" THEN Cardinality(reviews[q.review].evidences) ELSE NoId)

Reply(q) ==
    Answer("Ok",
           IF q.kind = "QueryAssignments" THEN SeatsOf(q.worker) ELSE {},
           IF q.kind = "SubmitEvidence" THEN Fresh(reviews[q.review].evidences) ELSE NoId)

Registers(q) == q.kind \in {"RegisterWorker", "DeclareReadiness"}

\* Where the thread goes on when the coordinator has accepted the call.
After(q) ==
    IF Registers(q) THEN "registering"
    ELSE IF q.kind = "AssignCritics" THEN "looking" ELSE "answering"

\* A frame that does not decode is refused like a call the coordinator refuses.
Refusable(q) == ~ENABLED Call(q)

Dispatch(k) ==
    /\ stage[k] = "reading"
    /\ request[k] # NoRequest
    /\ \/ /\ Call(request[k])
          /\ answer' = [answer EXCEPT ![k] = Reply(request[k])]
          /\ stage' = [stage EXCEPT ![k] = After(request[k])]
       \/ /\ Refusable(request[k])
          /\ answer' = [answer EXCEPT ![k] = Refusal]
          /\ stage' = [stage EXCEPT ![k] = "answering"]
          /\ UNCHANGED vars
    /\ UNCHANGED <<sockets, request, server, accepting, notices, closed, routing>>

\* register_worker: after the coordinator has answered, under the lock.
RegisterRoute(k) ==
    /\ stage[k] = "registering"
    /\ RegistryFree
    /\ owned' = [owned EXCEPT ![k] = Append(@, request[k].worker)]
    /\ route' = Put(route, request[k].worker, k)
    /\ stage' = [stage EXCEPT ![k] = "answering"]
    /\ UNCHANGED <<vars, sockets, calling, server, accepting, closed>>

\* Mutant: nobody is told.
AnnounceNothing(k) ==
    /\ stage[k] = "looking"
    /\ notices' = notices
    /\ stage' = [stage EXCEPT ![k] = "notifying"]
    /\ UNCHANGED <<vars, sockets, request, server, accepting, answer, closed,
                   routing>>

\* notify_assignments: every active assignment of the review, new or not ...
LookUp(k) ==
    /\ stage[k] = "looking"
    /\ notices' = [notices EXCEPT ![k] = ActiveSeats(request[k].review)]
    /\ stage' = [stage EXCEPT ![k] = "notifying"]
    /\ UNCHANGED <<vars, sockets, request, server, accepting, answer, closed,
                   routing>>

\* ... is announced on the connection its worker is registered on.
Notify(k) ==
    /\ stage[k] = "notifying"
    /\ RegistryFree
    /\ notices[k] # {}
    /\ \E s \in notices[k] :
        /\ \A x \in notices[k] : s.ordinal <= x.ordinal
        /\ frames' = IF s.worker \in DOMAIN route /\ route[s.worker] \notin closed \cup left
                     THEN [frames EXCEPT ![route[s.worker]] = Append(@, Answer("Notice", {s}, NoId))]
                     ELSE frames
        /\ notices' = [notices EXCEPT ![k] = @ \ {s}]
    /\ UNCHANGED <<vars, link, left, request, server, accepting, stage, answer,
                   closed, routing>>

AllAnnounced(k) ==
    /\ stage[k] = "notifying"
    /\ notices[k] = {}
    /\ stage' = [stage EXCEPT ![k] = "answering"]
    /\ UNCHANGED <<vars, sockets, calling, server, accepting, closed, routing>>

\* The loop of serve goes on unless the server stops, the flag is set, or the
\* request ends the connection.  The socket stays open until the server stops.
SendAnswer(k) ==
    /\ stage[k] = "answering"
    /\ LET leaves == \/ server # "up"
                     \/ k \in closed
                     \/ request[k].kind \in {"Malformed", "Shutdown"}
       IN  /\ stage' = [stage EXCEPT ![k] = IF leaves THEN "forgetting" ELSE "reading"]
           /\ closed' = IF leaves THEN closed \cup {k} ELSE closed
    /\ frames' = IF k \in closed \cup left THEN frames ELSE [frames EXCEPT ![k] = Append(@, answer[k])]
    /\ request' = [request EXCEPT ![k] = NoRequest]
    /\ answer' = [answer EXCEPT ![k] = Ok]
    /\ UNCHANGED <<vars, link, left, server, accepting, notices, routing>>

\* Mutant: stop does not get a thread out of its read.
EndOfPeer(k) ==
    /\ stage[k] = "reading"
    /\ k \in left
    /\ request[k] = NoRequest
    /\ closed' = closed \cup {k}
    /\ stage' = [stage EXCEPT ![k] = "forgetting"]
    /\ UNCHANGED <<vars, sockets, calling, server, accepting, routing>>

\* read_exact fails: the peer has closed, or stop has interrupted the socket.
EndOfStream(k) ==
    /\ stage[k] = "reading"
    /\ \/ k \in left /\ request[k] = NoRequest
       \/ k \in closed
    /\ closed' = closed \cup {k}
    /\ stage' = [stage EXCEPT ![k] = "forgetting"]
    /\ UNCHANGED <<vars, sockets, calling, server, accepting, routing>>

\* Mutants: the routes of its workers go with the connection, whoever holds
\* them; or they stay.
ForgetEveryRoute(k) ==
    /\ stage[k] = "forgetting"
    /\ RegistryFree
    /\ route' = Restrict(route, DOMAIN route \ Range(owned[k]))
    /\ stage' = [stage EXCEPT ![k] = "fencing"]
    /\ UNCHANGED <<vars, sockets, calling, server, accepting, closed, owned>>

ForgetNoRoute(k) ==
    /\ stage[k] = "forgetting"
    /\ RegistryFree
    /\ stage' = [stage EXCEPT ![k] = "fencing"]
    /\ UNCHANGED <<vars, sockets, calling, server, accepting, closed, routing>>

\* forget_connection, under the lock.
ForgetRoutes(k) ==
    /\ stage[k] = "forgetting"
    /\ RegistryFree
    /\ route' = Restrict(route, {w \in DOMAIN route : w \in Range(owned[k]) => route[w] # k})
    /\ stage' = [stage EXCEPT ![k] = "fencing"]
    /\ UNCHANGED <<vars, sockets, calling, server, accepting, closed, owned>>

\* Mutant: a lost connection is no reason to fence anybody.
LeaveUnfenced(k) ==
    /\ stage[k] = "fencing"
    /\ owned[k] # <<>>
    /\ owned' = [owned EXCEPT ![k] = Tail(@)]
    /\ UNCHANGED <<vars, sockets, calling, server, accepting, stage, closed, route>>

\* forget_connection, without the lock: the workers that registered on the
\* connection are fenced, each as often as it did and whatever boot it has now.
FenceOwned(k) ==
    /\ stage[k] = "fencing"
    /\ owned[k] # <<>>
    /\ FenceWorker(Head(owned[k]))
    /\ owned' = [owned EXCEPT ![k] = Tail(@)]
    /\ UNCHANGED <<sockets, calling, server, accepting, stage, closed, route>>

ThreadEnds(k) ==
    /\ stage[k] = "fencing"
    /\ owned[k] = <<>>
    /\ stage' = [stage EXCEPT ![k] = "done"]
    /\ UNCHANGED <<vars, sockets, calling, server, accepting, closed, routing>>

Serve(k) ==
    \/ Dispatch(k) \/ RegisterRoute(k) \/ LookUp(k) \/ Notify(k) \/ AllAnnounced(k)
    \/ SendAnswer(k) \/ EndOfStream(k) \/ ForgetRoutes(k) \/ FenceOwned(k) \/ ThreadEnds(k)

-----------------------------------------------------------------------------
(* stop.                                                                   *)

\* The flag is set and the listener closed; who still waits for accept is cut off.
StopBegins ==
    /\ server = "up"
    /\ server' = "stopping"
    /\ link' = [k \in Peers |-> IF link[k] = "queued" THEN "closed" ELSE link[k]]
    /\ UNCHANGED <<vars, left, calling, frames, accepting, stage, closed, routing>>

\* Mutant: the connections are marked and not interrupted.
StopMarks ==
    /\ server = "stopping"
    /\ acceptor = "ended"
    /\ server' = "closing"
    /\ closed' = closed \cup Range(connections)
    /\ UNCHANGED <<vars, sockets, calling, accepting, stage, routing>>

\* The acceptor is joined; every connection is marked closed and interrupted.
StopInterrupts ==
    /\ server = "stopping"
    /\ acceptor = "ended"
    /\ server' = "closing"
    /\ closed' = closed \cup Range(connections)
    /\ link' = [k \in Peers |-> IF k \in Range(connections) THEN "closed" ELSE link[k]]
    /\ UNCHANGED <<vars, left, calling, frames, accepting, stage, routing>>

\* Mutant: the threads are not waited for.
StopDetaches ==
    /\ server = "closing"
    /\ server' = "down"
    /\ connections' = <<>>
    /\ threads' = <<>>
    /\ route' = EmptyMap
    /\ UNCHANGED <<vars, sockets, calling, acceptor, cursor, stage, closed,
                   owned>>

\* Every thread is joined.
StopEnds ==
    /\ server = "closing"
    /\ \A k \in Range(threads) : stage[k] = "done"
    /\ server' = "down"
    /\ connections' = <<>>
    /\ threads' = <<>>
    /\ route' = EmptyMap
    /\ UNCHANGED <<vars, sockets, calling, acceptor, cursor, stage, closed,
                   owned>>

ServerInit ==
    /\ link = [k \in Peers |-> "none"]
    /\ left = {}
    /\ request = [k \in Peers |-> NoRequest]
    /\ frames = [k \in Peers |-> <<>>]
    /\ server = "up"
    /\ acceptor = "polling"
    /\ connections = <<>>
    /\ threads = <<>>
    /\ cursor = 0
    /\ stage = [k \in Peers |-> "none"]
    /\ answer = [k \in Peers |-> Ok]
    /\ notices = [k \in Peers |-> {}]
    /\ closed = {}
    /\ owned = [k \in Peers |-> <<>>]
    /\ route = EmptyMap

AcceptorStep == (\E k \in Peers : Accept(k)) \/ Reap \/ Spawn \/ AcceptorEnds

StopStep == StopInterrupts \/ StopEnds

ServerStep == AcceptorStep \/ (\E k \in Peers : Serve(k)) \/ StopBegins \/ StopStep

=============================================================================
