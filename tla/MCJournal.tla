------------------------------ MODULE MCJournal ------------------------------
(***************************************************************************)
(* An instance of Journal for TLC: a file bound below the record bound,    *)
(* one entry that can be written and not read back, and at most one append *)
(* after each close.                                                       *)
(***************************************************************************)
EXTENDS Journal, TLC

CONSTANTS e1, e2, e3

\* Bound: one record, e1, is appended to a journal that has been closed.
OneLateAppend ==
    mode = "closed" /\ mode' = "closed" /\ Len(entries') > Len(entries) =>
        /\ entries' = Append(acked, Stored(e1))
        /\ validEnd = Len(acked)

=============================================================================
