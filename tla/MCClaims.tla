------------------------------ MODULE MCClaims ------------------------------
(***************************************************************************)
(* A statement of the README that the coordinator does not keep.           *)
(***************************************************************************)
EXTENDS MCCoordinator

\* README "Worker death and reincarnation": when a process is replaced, its open
\* assignment is retired and the review is "reassigned under the fresh
\* incarnation".  An open assignment should never be left with a boot identity
\* that can neither discharge it nor be replaced.
NoDeadSeat ==
    \A r \in OpenReviews : \A a \in reviews[r].assignments :
        a.active /\ ~Discharged(reviews[r], a) => workers[a.worker].boot = a.boot

=============================================================================
