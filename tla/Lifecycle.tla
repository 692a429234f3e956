------------------------------ MODULE Lifecycle ------------------------------
(***************************************************************************)
(* The vocabulary of the review state machine: its states, the guarded     *)
(* transition relation and the classifiers the coordinator consults        *)
(* (src/lifecycle.cpp), and the enumerations of include/critic_fabric/     *)
(* enums.hpp that the other modules share.                                 *)
(***************************************************************************)

ReviewStates ==
    {"Declared", "Assigning", "Assigned", "Reviewing", "FindingsReceived",
     "Validating", "Challenged", "RebuttalPending", "Evaluating", "Resolved",
     "Committed", "RevalidationRequired", "Cancelled", "Superseded", "Failed",
     "Retired"}

Dispositions ==
    {"None", "Pass", "Fail", "Warn", "Disagreement", "Tie",
     "InsufficientEvidence", "RequiredCriticFailed", "QuorumNotReached",
     "RevalidationRequired", "Cancelled", "Superseded", "Unknown"}

FindingStates ==
    {"Current", "Superseded", "Invalidated", "Challenged", "Upheld",
     "Rebutted", "Withdrawn"}

Outcomes ==
    {"Pass", "Fail", "Warn", "Abstain", "Unknown", "NotApplicable",
     "Inconclusive"}

DecisiveOutcomes == {"Pass", "Fail", "Warn"}

ChallengeOutcomes ==
    {"Unresolved", "Upheld", "Modified", "Superseded", "Invalidated"}

\* is_terminal_review_state; is_recoverable_review_state lists the same states.
TerminalStates == {"Committed", "Cancelled", "Superseded", "Failed", "Retired"}

\* accepts_critic_input
AcceptsCriticInput ==
    {"Assigned", "Reviewing", "FindingsReceived", "Validating", "Challenged",
     "RebuttalPending", "Evaluating", "RevalidationRequired"}

\* finding_state_is_current: challenged and upheld findings still assert
\* something about their target generation.
CurrentFindingStates == {"Current", "Challenged", "Upheld"}

\* legal_transition: the states a review may move to from each state.
LegalTargets ==
    LET Exits == {"Cancelled", "Failed", "Superseded", "RevalidationRequired"}
    IN  [Declared             |-> Exits \cup {"Assigning"},
         Assigning            |-> Exits \cup {"Assigned"},
         Assigned             |-> Exits \cup {"Reviewing"},
         Reviewing            |-> Exits \cup {"FindingsReceived"},
         FindingsReceived     |-> Exits \cup {"Validating"},
         Validating           |-> Exits \cup {"Challenged", "Evaluating"},
         Challenged           |-> Exits \cup {"RebuttalPending", "Evaluating"},
         RebuttalPending      |-> Exits \cup {"Evaluating"},
         Evaluating           |-> Exits \cup {"Resolved"},
         Resolved             |-> Exits \cup {"Committed", "Evaluating"},
         RevalidationRequired |-> (Exits \ {"RevalidationRequired"})
                                    \cup {"Assigning", "Retired", "Resolved"},
         Committed            |-> {"Superseded", "Retired"},
         Cancelled            |-> {"Retired"},
         Superseded           |-> {"Retired"},
         Failed               |-> {"Retired", "Superseded"},
         Retired              |-> {}]

=============================================================================
