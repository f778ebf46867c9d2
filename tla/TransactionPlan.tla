-------------------------- MODULE TransactionPlan --------------------------
(***************************************************************************)
(* What the transaction store promises, without revisions, callers or      *)
(* restarts: a plan of steps, each settled at most once, and a plan that   *)
(* closes at most once, after which nothing changes.  A commit needs every *)
(* action and every check settled well; a rollback needs every rollback    *)
(* step settled.                                                           *)
(***************************************************************************)
EXTENDS FiniteSets

CONSTANTS Steps, Kind

Outcomes == {"succeeded", "failed", "verified", "rolled_back", "skipped", "interrupted"}
Decisions == {"committed", "aborted", "rolled_back"}

VARIABLES
    decision,   \* "none" or how the plan closed
    outcome     \* Steps -> "none" or how the step settled

planVars == <<decision, outcome>>

PlanTypeOK ==
    /\ decision \in Decisions \cup {"none"}
    /\ outcome \in [Steps -> Outcomes \cup {"none"}]

Init ==
    /\ decision = "none"
    /\ outcome = [s \in Steps |-> "none"]

\* The outcome that counts as done well for a step of each kind.
Good(s) == outcome[s] = "skipped" \/
    CASE Kind[s] = "action" -> outcome[s] = "succeeded"
      [] Kind[s] = "verify" -> outcome[s] = "verified"
      [] OTHER -> outcome[s] = "rolled_back"

\* One step settles with the outcome of its kind, or several are interrupted.
Settle(T, o) ==
    /\ decision = "none"
    /\ T # {}
    /\ \A s \in T :
        /\ outcome[s] = "none"
        /\ o = "succeeded" => Kind[s] = "action"
        /\ o = "verified" => Kind[s] = "verify"
        /\ o = "rolled_back" => Kind[s] = "rollback"
    /\ o # "interrupted" => \E s \in T : T = {s}
    /\ outcome' = [s \in Steps |-> IF s \in T THEN o ELSE outcome[s]]
    /\ UNCHANGED decision

Committable ==
    \A s \in Steps :
        /\ Kind[s] \in {"action", "verify"} => Good(s)
        /\ outcome[s] \notin {"failed", "interrupted"}

Undone ==
    /\ \E s \in Steps : Kind[s] = "rollback"
    /\ \A s \in Steps : Kind[s] = "rollback" => Good(s)

Close(d) ==
    /\ decision = "none"
    /\ d = "committed" => Committable
    /\ d = "rolled_back" => Undone
    /\ decision' = d
    /\ UNCHANGED outcome

Next ==
    \/ \E T \in SUBSET Steps, o \in Outcomes : Settle(T, o)
    \/ \E d \in Decisions : Close(d)

Spec == Init /\ [][Next]_planVars
=============================================================================
