--------------------------- MODULE MCRevalidation ---------------------------
(***************************************************************************)
(* The coordinator with a history variable: the reviews that had to be     *)
(* revalidated and have not been given an assignment since.                *)
(***************************************************************************)
EXTENDS MCCoordinator

VARIABLE unassigned

TrackReassignment ==
    unassigned' = {r \in DOMAIN reviews' :
        \/ reviews'[r].state = "RevalidationRequired"
        \/ r \in unassigned /\ Cardinality(reviews'[r].assignments)
                                 = Cardinality(reviews[r].assignments)}

SpecTracked ==
    /\ \E spec \in Policies : Prepared(Server, b1, Content("old"), spec)
    /\ unassigned = {}
    /\ [][Next /\ TrackReassignment]_<<vars, unassigned>>

\* README "Coordinator restart": "A recovered review cannot commit until it is
\* reassigned and revalidated".
RecoveredReviewWaitsForReassignment ==
    \A r \in unassigned : reviews[r].state # "Committed"

=============================================================================
