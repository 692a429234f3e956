----------------------------- MODULE MCTransport -----------------------------
(***************************************************************************)
(* Instances of WorkerProtocol: a coordinator that knows its critics and   *)
(* has declared its reviews, and nobody connected yet.                     *)
(***************************************************************************)
EXTENDS WorkerProtocol, TLC

CONSTANTS c1, w1, p1, p2, ctl, ctl2, t1, r1

Skill == [roles |-> {"GeneralCritic"}, classes |-> {"Code"}, categories |-> {"General"},
          evidence |-> "proof"]
TheContent == [class |-> "Code", payload |-> "text", reviewable |-> TRUE]
TwoContents == {TheContent, [TheContent EXCEPT !.payload = "another text"]}
OneCapability == {Skill}
OneTerm == {[role |-> "GeneralCritic", required |-> FALSE]}
\* What a commit decides plays no part here: a policy that is quick to evaluate.
TheSpec == [DefaultSpec EXCEPT !.duplicates = "KeepDistinct", !.aggregation = "QuorumPass",
                               !.predicates = <<Mandatory("CoordinatorEpochCurrent", 0)>>]
OnePolicy == {TheSpec}

Statements ==
    {[category |-> "General", severity |-> 3, outcome |-> "Pass", evidence |-> <<e>>,
      explanation |-> "text"] : e \in 1 .. 4}
Witness == {[verified |-> TRUE, provenanceKnown |-> TRUE]}

TransportLimits ==
    [retainedTargets |-> 1, workerConnections |-> 3, concurrentReviews |-> 2,
     retainedReviews |-> 2, criticsPerReview |-> 2, findingsPerReview |-> 4,
     evidencePerReview |-> 4, evidencePerFinding |-> 1, challengesPerReview |-> 1]

\* p1 and p2 are two incarnations of one worker.
TwoIncarnations == [p \in Processes |-> [worker |-> w1, critic |-> c1]]

Ready ==
    /\ epoch = 1
    /\ targets = [t \in {t1} |-> [generation |-> 1, content |-> TheContent]]
    /\ critics = [c \in Critics |-> [generation |-> 1, capability |-> Skill]]
    /\ workers = EmptyMap
    /\ incumbents = EmptyMap
    /\ nextBootOrder = 1
    /\ reviews = [r \in Requests |->
         [spec |-> TheSpec, state |-> "Declared", disposition |-> "None", target |-> t1,
          targetGeneration |-> 1, digest |-> Digest(TheContent), authorityCurrent |-> TRUE,
          roundsUsed |-> 0, assignments |-> {}, findings |-> {}, evidences |-> {},
          challenges |-> {}, decision |-> NoDecision]]

\* The product of everything that may happen is too large.  It is explored in
\* slices: which peers take part, when p1 may be killed, what p2 waits for
\* before it starts, and what the controllers order (a server stops only where
\* they may order its shutdown).
VARIABLE slice

CONSTANT Slices

Slice(peers, killed, second, orders) ==
    [peers |-> peers, killed |-> killed, second |-> second, orders |-> orders]

Closings == {"CommitReview", "CancelReview", "SupersedeTarget"}

Anytime == Calls \cup {"listening"}

\* A worker and a controller on a server that is stopped; a worker process and
\* another one of the same identity, at once, one overtaking the registration
\* of the other, and one after the other; a server that has accepted all the
\* connections it ever will; a controller that closes the review under its
\* critic's hands.
Stopped    == Slice({p1, ctl}, {"DeclareReadiness", "SubmitFinding", "listening"}, "anything",
                    {"AssignCritics", "Shutdown"})
Twins      == Slice({p1, p2}, Anytime, "anything", {})
Overtaking == Slice({p1, p2, ctl}, {}, "p1 is being registered", {"AssignCritics"})
Relieved   == Slice({p1, p2, ctl}, {"listening"}, "p1 has left", {"AssignCritics"})
Crowded    == Slice({p1, p2, ctl, ctl2}, {}, "no room", {"AssignCritics"})
Closed     == Slice({p1, ctl}, {}, "anything",
                    {"AssignCritics"} \cup Closings)

AllSlices == {Stopped, Twins, Overtaking, Relieved, Crowded, Closed}
JustTwins == {Twins}

AllOrders == {"AssignCritics", "Shutdown"} \cup Closings

Starts(k) == phase[k] = "off" /\ phase'[k] # "off"
Sends(c, kind) == phase[c] # kind /\ phase'[c] = kind

\* A controller orders an assignment when one can be granted (when the second
\* process has overtaken the first, if that is what the slice is for), and
\* closes the review when its critic has work to do.
InSlice ==
    /\ \A k \in Peers : Starts(k) => k \in slice.peers
    /\ \A k \in Peers : phase[k] # "dead" /\ phase'[k] = "dead" =>
          k = p1 /\ phase[k] \in slice.killed
    /\ Starts(p2) =>
          CASE slice.second = "anything"               -> TRUE
            [] slice.second = "p1 is being registered" -> stage[p1] = "registering"
            [] slice.second = "p1 has left"            -> p1 \in left
            [] slice.second = "no room"                -> Len(connections) = Limits.workerConnections
    /\ \A c \in Controllers :
          /\ \A kind \in Orders : Sends(c, kind) => kind \in slice.orders
          /\ \A kind \in Closings : Sends(c, kind) => todo[p1] # <<>>
          /\ Sends(c, "AssignCritics") => \E q \in AssignmentRequests :
                Assignable(reviews[r1], q) /\ (slice = Overtaking => q.boot = p2)
    /\ server = "up" /\ server' # "up" => "Shutdown" \in slice.orders

TransportInit == slice \in Slices /\ Ready /\ ProtocolInit

TransportSpec ==
    /\ TransportInit
    /\ [][ProtocolNext /\ InSlice /\ slice' = slice]_<<allVars, slice>>

FairTransportSpec == TransportSpec /\ Fairness

=============================================================================
