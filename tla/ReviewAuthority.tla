--------------------------- MODULE ReviewAuthority ---------------------------
(***************************************************************************)
(* What the coordinator promises its readers (README "Review lifecycle",   *)
(* "Authoritative review commit" and "Review target model"), without       *)
(* critics, workers, findings or evaluation: a review of one generation of *)
(* a target is open, waits for revalidation, is decided once, or is        *)
(* withdrawn, and speaks with authority for the current generation only.   *)
(* Coordinator implements this specification (see CoordinatorRefinement).  *)
(***************************************************************************)
EXTENDS Integers

CONSTANTS Objects,     \* what is reviewed
          Names,       \* names of reviews
          Verdicts     \* dispositions a decision can have

CONSTANT NoVerdict

VARIABLES
    generation,   \* the generation of every known object
    ledger        \* [object, generation, status, verdict, authoritative] by name

view == <<generation, ledger>>

Statuses == {"open", "waiting", "decided", "withdrawn"}

Entry == [object : Objects, generation : Nat, status : Statuses,
          verdict : Verdicts \cup {NoVerdict}, authoritative : BOOLEAN]

\* The map f with the value v at k, which it may not have known.
Entered(f, k, v) == [x \in DOMAIN f \cup {k} |-> IF x = k THEN v ELSE f[x]]

Current(entry) == generation[entry.object] = entry.generation

Undecided == {"open", "waiting"}

-----------------------------------------------------------------------------

Appear(o) ==
    /\ o \notin DOMAIN generation
    /\ generation' = Entered(generation, o, 1)
    /\ UNCHANGED ledger

\* Open a review of the current generation.
Open(n, o) ==
    /\ n \notin DOMAIN ledger
    /\ o \in DOMAIN generation
    /\ ledger' = Entered(ledger, n,
            [object |-> o, generation |-> generation[o], status |-> "open",
             verdict |-> NoVerdict, authoritative |-> TRUE])
    /\ UNCHANGED generation

\* Some of the undecided reviews lose their authority together.
Suspend(names) ==
    /\ \A n \in names : ledger[n].status \in Undecided
    /\ ledger' = [n \in DOMAIN ledger |->
            IF n \in names
            THEN [ledger[n] EXCEPT !.status = "waiting", !.authoritative = FALSE]
            ELSE ledger[n]]
    /\ UNCHANGED generation

\* A waiting review is taken up again, for the generation it reviewed only.
Resume(n) ==
    /\ ledger[n].status = "waiting"
    /\ Current(ledger[n])
    /\ ledger' = [ledger EXCEPT ![n].status = "open", ![n].authoritative = TRUE]
    /\ UNCHANGED generation

\* The one authoritative result: never from a review that waits.
Decide(n, verdict) ==
    /\ ledger[n].status = "open"
    /\ Current(ledger[n])
    /\ ledger' = [ledger EXCEPT ![n].status = "decided", ![n].verdict = verdict,
                                ![n].authoritative = TRUE]
    /\ UNCHANGED generation

Withdraw(n) ==
    /\ ledger[n].status \in Undecided
    /\ ledger' = [ledger EXCEPT ![n].status = "withdrawn", ![n].authoritative = FALSE]
    /\ UNCHANGED generation

\* The object moves on: its undecided reviews are withdrawn, its decided ones
\* become history.
Outdate(entry) ==
    [entry EXCEPT !.status = IF @ \in Undecided THEN "withdrawn" ELSE @,
                  !.authoritative = FALSE]

Advance(o) ==
    /\ o \in DOMAIN generation
    /\ generation' = [generation EXCEPT ![o] = @ + 1]
    /\ ledger' = [n \in DOMAIN ledger |->
            IF ledger[n].object = o THEN Outdate(ledger[n]) ELSE ledger[n]]

-----------------------------------------------------------------------------

AuthorityInit ==
    /\ generation = [o \in {} |-> 0]
    /\ ledger = [n \in {} |-> 0]

AuthorityNext ==
    \/ \E o \in Objects : Appear(o) \/ Advance(o)
    \/ \E n \in Names, o \in Objects : Open(n, o)
    \/ \E names \in SUBSET DOMAIN ledger : Suspend(names)
    \/ \E n \in DOMAIN ledger :
          \/ Resume(n)
          \/ \E verdict \in Verdicts : Decide(n, verdict)
          \/ Withdraw(n)

AuthoritySpec == AuthorityInit /\ [][AuthorityNext]_view

=============================================================================
