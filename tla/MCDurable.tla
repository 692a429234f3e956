------------------------------ MODULE MCDurable ------------------------------
(***************************************************************************)
(* An instance of DurableCoordinator for TLC.  It starts from a review     *)
(* whose critics are assigned and ready (Prepared of MCCoordinator) and a  *)
(* journal that holds just this state, and is cut into two slices:         *)
(*                                                                         *)
(*  - one critic, c1: processes, the target and the critic's               *)
(*    implementation change under a review with a finding;                 *)
(*  - two critics: findings with evidence, challenges and their answers    *)
(*    while no process, target or implementation is replaced.              *)
(***************************************************************************)
EXTENDS MCCoordinator, DurableCoordinator

PlainOrDebate == PlainPolicy \cup DebatePolicy

\* The second slice cites what it submits, the first has no evidence.
Said == {Say("Pass", <<>>), Say("Fail", <<1>>)}

\* One restart; the other slice has two.
Replacements ==
    /\ epoch' <= 2
    /\ \A r \in DOMAIN reviews' :
          Cardinality(reviews'[r].findings) <= 1 /\ reviews'[r].evidences = {}

\* Processes are ready or, after a restart, not ready yet.  A coordinator that has
\* failed in this slice has nothing left to do at the last epoch.  The third epoch is
\* for a restart that is cut off: its calls are those of the second.
Debates ==
    \/ epoch' # epoch
    \/ /\ UNCHANGED <<targets, critics, nextBootOrder>>
       /\ \A w \in DOMAIN workers : workers'[w] # workers[w] => Authoritative(w)'
       /\ \A r \in DOMAIN reviews' : reviews'[r].state # "Cancelled"
       /\ epoch = 3 => UNCHANGED reviews

\* A coordinator is stopped in the first epoch and before any call has been cut
\* off, and stop overtakes one call, about the review.
StoppedOnce ==
    /\ epoch = 1 /\ ~torn
    /\ serving = "stopped" => reviews' # reviews

\* No critic is added, so that a behaviour stays in its slice.
InSlice ==
    /\ DOMAIN critics' = DOMAIN critics
    /\ serving' = "stopped" => StoppedOnce
    /\ IF DOMAIN critics = {c1} THEN Replacements ELSE Debates

DurableInit ==
    /\ \/ Prepared(Alone, b1, Content("old"), Plain)
       \/ Prepared(Server, b1, Content("old"), Debated)
    /\ JournalInit

DurableSpec ==
    /\ DurableInit
    /\ [][DurableNext]_<<vars, journaling>>

=============================================================================
