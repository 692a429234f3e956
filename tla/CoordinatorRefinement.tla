------------------------ MODULE CoordinatorRefinement ------------------------
(***************************************************************************)
(* The coordinator as an implementation of ReviewAuthority.                *)
(***************************************************************************)
EXTENDS Coordinator

\* What a reader of query_review and query_decision is told about a review.
Status(rev) ==
    CASE rev.state = "Committed"              -> "decided"
      [] rev.state = "RevalidationRequired"   -> "waiting"
      [] rev.state \in TerminalStates \ {"Committed"} -> "withdrawn"
      [] OTHER                                -> "open"

Verdict(rev) == IF rev.state = "Committed" THEN rev.disposition ELSE "None"

Ledger(revs) ==
    [r \in DOMAIN revs |->
        [object        |-> revs[r].target,
         generation    |-> revs[r].targetGeneration,
         status        |-> Status(revs[r]),
         verdict       |-> Verdict(revs[r]),
         authoritative |-> revs[r].authorityCurrent]]

Promise == INSTANCE ReviewAuthority WITH
    Objects    <- Targets,
    Names      <- Requests,
    Verdicts   <- Dispositions,
    NoVerdict  <- "None",
    generation <- [t \in DOMAIN targets |-> targets[t].generation],
    ledger     <- Ledger(reviews)

\* README "Review lifecycle" and "Authoritative review commit": whatever
\* replaces workers, critics and targets, stops and restarts, a review is
\* decided once, from an open state, for its target's current generation, and
\* leaves revalidation only for that generation.
KeepsItsPromise == Promise!AuthoritySpec

=============================================================================
