----------------------------- MODULE VerifyPass -----------------------------
(***************************************************************************)
(* What one verification pass of verify_test_data promises, stated         *)
(* atomically: the keys are decided one at a time in injection order, each *)
(* exactly once, and each decision is taken in a single step from one      *)
(* snapshot of both stores: a key whose source value the target holds is   *)
(* a Match (or an Error, when a store call fails), any other key is a      *)
(* failure, and a key the target lacks may be reported Missing.  Between   *)
(* decisions the stores may change arbitrarily (the replication engine     *)
(* keeps running).                                                         *)
(***************************************************************************)
EXTENDS Naturals

CONSTANTS
    N,      \* number of test keys
    NONE    \* no such key / not decided yet

VARIABLES
    src, dst,   \* the two stores, key -> value
    outcome     \* key -> the decision taken for it, NONE before

Keys == 0 .. N - 1

Failures == {"Missing", "TypeMismatch", "ValueMismatch", "Error"}

\* The decisions a snapshot of key i allows.
Allowed(i) ==
    (IF src[i] = dst[i] THEN {"Match", "Error"} ELSE Failures)
        \cup (IF dst[i] = NONE THEN {"Missing"} ELSE {})

Init == outcome = [i \in Keys |-> NONE]

\* Key i, the first undecided key, is decided from the current snapshot.
Decide(i) ==
    /\ outcome[i] = NONE
    /\ \A j \in Keys : j < i => outcome[j] # NONE
    /\ \E o \in Allowed(i) : outcome' = [outcome EXCEPT ![i] = o]
    /\ UNCHANGED <<src, dst>>

\* Anything else: the stores change, no decision is taken.
Elsewhere == UNCHANGED outcome

Next == (\E i \in Keys : Decide(i)) \/ Elsewhere

Spec == Init /\ [][Next]_<<src, dst, outcome>>

=============================================================================
