------------------------------ MODULE ListPromise ------------------------------
(***************************************************************************)
(* What a paginated list promises its caller, whatever it is paged by: rows  *)
(* are given in batches, none twice, and the list ends only when every row   *)
(* it owes, one that was there and unchanged from the start, was given.      *)
(***************************************************************************)
EXTENDS Naturals, Sequences

CONSTANT Row      \* everything a table may hold

VARIABLES
    phase,   \* idle, listing, done or failed
    given,   \* the rows handed out, in that order
    owed     \* the rows that must still be handed out

Init == phase = "idle" /\ given = <<>> /\ owed = {}

Begin ==
    /\ phase = "idle" /\ phase' = "listing"
    /\ owed' \subseteq Row
    /\ given' = given

\* The rows handed out between two states.
Batch == { given'[i] : i \in (Len(given) + 1)..Len(given') }

\* Rows not handed out before follow; the last batch pays what is owed.
Give ==
    /\ phase = "listing" /\ phase' \in {"listing", "done"}
    /\ Len(given') >= Len(given)
    /\ SubSeq(given', 1, Len(given)) = given
    /\ \A i, j \in DOMAIN given' : given'[i] = given'[j] => i = j
    /\ owed' = owed \ Batch
    /\ phase' = "done" => owed' = {}

Fail == phase = "listing" /\ phase' = "failed" /\ UNCHANGED <<given, owed>>

\* A row that is changed or deleted is owed no more.
Forget == owed' \subseteq owed /\ UNCHANGED <<phase, given>>

Next == Begin \/ Give \/ Fail \/ Forget

Spec == Init /\ [][Next]_<<phase, given, owed>>
===============================================================================
