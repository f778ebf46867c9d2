------------------------- MODULE TransactionStore -------------------------
(***************************************************************************)
(* The durable action-transaction store, src/transactions/                 *)
(* transaction_runtime.py: one transaction, its steps, its status and its  *)
(* revision.  Every operation runs under the store's RLock and in one      *)
(* SQLite transaction, so each is one action.  An operation the code       *)
(* rejects with ValueError changes nothing: its action is not enabled.     *)
(*                                                                         *)
(* Summaries, timestamps and the event log carry no decision and are left  *)
(* out.  Of a running step's evidence the code reads only two fields:      *)
(*   "plain"          external_completion_required is not set              *)
(*   "required_only"  it is set, without a completion contract             *)
(*   "contract"       it is set, with a recorded completion verifier       *)
(* The evidence of a settled step is never read: it is "plain" here.       *)
(***************************************************************************)
EXTENDS Integers

CONSTANTS
    Steps,          \* the step ids of the plan
    NoStep,         \* rollback_step_id = None
    Kind,           \* Steps -> STEP_KINDS
    RollbackStep,   \* Steps -> Steps \cup {NoStep}
    MaxRestarts,    \* bound on the restarts explored
    MaxRevision     \* bound on the revisions external_pending is repeated up to

TERMINAL_STATUSES == {"committed", "aborted", "rolled_back"}
OPEN_STATUSES ==
    {"planned", "active", "verification_pending", "blocked", "rollback_required"}
STEP_STATES ==
    {"pending", "running", "succeeded", "failed", "verified", "rolled_back",
     "skipped", "interrupted"}
Evidence == {"plain", "required_only", "contract"}

\* What _normalize_steps accepts.
ASSUME PlanAssumption ==
    /\ Kind \in [Steps -> {"action", "verify", "rollback"}]
    /\ NoStep \notin Steps
    /\ RollbackStep \in [Steps -> Steps \cup {NoStep}]
    /\ \A s \in Steps : RollbackStep[s] # NoStep =>
            Kind[s] = "action" /\ Kind[RollbackStep[s]] = "rollback"
    /\ MaxRestarts \in Nat
    /\ MaxRevision \in Nat

VARIABLES
    status,       \* the transaction's status column
    revision,     \* its optimistic revision
    state,        \* Steps -> STEP_STATES
    evidence,     \* Steps -> Evidence
    restarts      \* how often the store was reopened

txVars == <<status, revision, state, evidence>>
vars == <<status, revision, state, evidence, restarts>>

Unsettled == {"pending", "running"}
Settled == STEP_STATES \ Unsettled

TypeOK ==
    /\ status \in OPEN_STATUSES \cup TERMINAL_STATUSES
    /\ revision \in Nat \ {0}
    /\ state \in [Steps -> STEP_STATES]
    /\ evidence \in [Steps -> Evidence]
    /\ restarts \in 0..MaxRestarts

\* create()
Init ==
    /\ status = "planned"
    /\ revision = 1
    /\ state = [s \in Steps |-> "pending"]
    /\ evidence = [s \in Steps |-> "plain"]
    /\ restarts = 0

-----------------------------------------------------------------------------
(* checkpoint() *)

Current(rev) == status \notin TERMINAL_STATUSES /\ rev = revision

\* The common tail of checkpoint: the step's new state, the transaction's new
\* status, the replaced evidence and the revision, in one UPDATE.
WriteStep(s, newState, newStatus, ev) ==
    /\ state' = [state EXCEPT ![s] = newState]
    /\ status' = newStatus
    /\ evidence' = [evidence EXCEPT ![s] = ev]
    /\ revision' = revision + 1
    /\ UNCHANGED restarts

SomeUnsettled(kind, T) == \E t \in T : Kind[t] = kind /\ state[t] \in Unsettled

CompletionRequired(s) == state[s] = "running" /\ evidence[s] # "plain"

\* Mutant: a running step can be started again.
StartAgain(s, rev, ev) ==
    /\ Current(rev)
    /\ state[s] \in Unsettled
    /\ WriteStep(s, "running", "active", ev)

Start(s, rev, ev) ==
    /\ Current(rev)
    /\ state[s] = "pending"
    /\ WriteStep(s, "running", "active", ev)

ExternalPending(s, rev) ==
    /\ Current(rev)
    /\ Kind[s] = "action"
    /\ state[s] = "running"
    /\ WriteStep(s, "running", "active", "contract")

StatusAfterSuccess(s) ==
    IF ~SomeUnsettled("action", Steps \ {s}) /\ SomeUnsettled("verify", Steps)
    THEN "verification_pending" ELSE "active"

Succeed(s, rev) ==
    /\ Current(rev)
    /\ Kind[s] = "action"
    /\ state[s] \in Unsettled
    /\ ~CompletionRequired(s)
    /\ WriteStep(s, "succeeded", StatusAfterSuccess(s), "plain")

ExternalVerify(s, rev) ==
    /\ Current(rev)
    /\ Kind[s] = "action"
    /\ CompletionRequired(s)
    /\ WriteStep(s, "succeeded", StatusAfterSuccess(s), "plain")

Verify(s, rev) ==
    /\ Current(rev)
    /\ Kind[s] = "verify"
    /\ state[s] \in Unsettled
    /\ WriteStep(s, "verified", "verification_pending", "plain")

RollBack(s, rev) ==
    /\ Current(rev)
    /\ Kind[s] = "rollback"
    /\ state[s] \in Unsettled
    /\ WriteStep(s, "rolled_back", "rollback_required", "plain")

\* Mutant: a running step can be skipped.
SkipUnsettled(s, rev) ==
    /\ Current(rev)
    /\ state[s] \in Unsettled
    /\ WriteStep(s, "skipped", IF status = "planned" THEN "active" ELSE status, "plain")

Skip(s, rev) ==
    /\ Current(rev)
    /\ state[s] = "pending"
    /\ WriteStep(s, "skipped", IF status = "planned" THEN "active" ELSE status, "plain")

RollbackNeeded ==
    \E t \in Steps : /\ Kind[t] = "action"
                     /\ state[t] = "succeeded"
                     /\ RollbackStep[t] # NoStep

\* Mutant: failed is accepted for a step in any state.
FailAnyStep(s, rev) ==
    /\ Current(rev)
    /\ WriteStep(s, "failed",
                 IF RollbackNeeded THEN "rollback_required" ELSE "blocked", "plain")

Fail(s, rev) ==
    /\ Current(rev)
    /\ state[s] \in Unsettled
    /\ WriteStep(s, "failed",
                 IF RollbackNeeded THEN "rollback_required" ELSE "blocked", "plain")

-----------------------------------------------------------------------------
(* finalize() *)

\* Mutant: finalize does not look for running steps.
CloseOverRunning(rev, newStatus) ==
    /\ Current(rev)
    /\ status' = newStatus
    /\ revision' = revision + 1
    /\ UNCHANGED <<state, evidence, restarts>>

Close(rev, newStatus) ==
    /\ Current(rev)
    /\ \A s \in Steps : state[s] # "running"
    /\ status' = newStatus
    /\ revision' = revision + 1
    /\ UNCHANGED <<state, evidence, restarts>>

Complete ==
    \A s \in Steps :
        /\ Kind[s] = "action" => state[s] \in {"succeeded", "skipped"}
        /\ Kind[s] = "verify" => state[s] \in {"verified", "skipped"}
        /\ state[s] \notin {"failed", "interrupted"}

RollbackSteps == {s \in Steps : Kind[s] = "rollback"}

RolledBack ==
    /\ RollbackSteps # {}
    /\ \A s \in RollbackSteps : state[s] \in {"rolled_back", "skipped"}

Commit(rev) == Complete /\ Close(rev, "committed")
CloseRolledBack(rev) == RolledBack /\ Close(rev, "rolled_back")
Abort(rev) == Close(rev, "aborted")

-----------------------------------------------------------------------------
(* _ensure() on a database left by an earlier owner: _recover_interrupted_steps *)

Running == {s \in Steps : state[s] = "running"}

\* Mutant: the recorded contract is not looked at.
ResumableAction(s) == Kind[s] = "action"

Resumable(s) == Kind[s] = "action" /\ evidence[s] = "contract"

Interrupted == {s \in Running : ~Resumable(s)}

\* Mutant: the recovery keeps the revision of the plan it rewrites.
RecoverAtSameRevision ==
    /\ state' = [s \in Steps |->
                    IF s \in Interrupted THEN "interrupted" ELSE state[s]]
    /\ status' = IF Interrupted # {} THEN "blocked" ELSE status
    /\ UNCHANGED <<revision, evidence>>

Recover ==
    IF status \in TERMINAL_STATUSES \/ Running = {}
    THEN UNCHANGED txVars
    ELSE /\ state' = [s \in Steps |->
                        IF s \in Interrupted THEN "interrupted" ELSE state[s]]
         /\ status' = IF Interrupted # {} THEN "blocked"
                      ELSE IF status = "planned" THEN "active" ELSE status
         /\ revision' = revision + 1
         /\ UNCHANGED evidence

Restart ==
    /\ restarts < MaxRestarts
    /\ restarts' = restarts + 1
    /\ Recover

-----------------------------------------------------------------------------
CheckpointStep(s, rev) ==
    \/ \E ev \in Evidence : Start(s, rev, ev)
    \/ revision < MaxRevision /\ ExternalPending(s, rev)
    \/ Succeed(s, rev)
    \/ ExternalVerify(s, rev)
    \/ Verify(s, rev)
    \/ RollBack(s, rev)
    \/ Skip(s, rev)
    \/ Fail(s, rev)

Finalize(rev) == Commit(rev) \/ CloseRolledBack(rev) \/ Abort(rev)

Next ==
    \/ \E s \in Steps : CheckpointStep(s, revision)
    \/ Finalize(revision)
    \/ Restart

Spec == Init /\ [][Next]_vars

-----------------------------------------------------------------------------
(* A finished transaction has no step left running: neither a restart nor a *)
(* step started by another caller may leave work open behind a final        *)
(* status (finalize refuses while a step runs; checkpoint refuses after).   *)
NothingRunsAfterFinal == status \in TERMINAL_STATUSES => Running = {}

(* Optimistic concurrency: whatever changes the transaction also moves its  *)
(* revision by one, so a caller holding an older revision is always         *)
(* refused.                                                                 *)
EveryChangeMovesRevision ==
    [][txVars' # txVars => revision' = revision + 1]_vars

(* A restart resumes exactly the actions whose completion verifier is       *)
(* recorded; every other running step becomes interrupted and blocks the    *)
(* transaction (docs/release_v1.6.0.md: "resumable running steps").         *)
RestartResumesOnlyContracts ==
    [][restarts' # restarts =>
        /\ \A s \in Steps : state'[s] = "running" =>
              Kind[s] = "action" /\ evidence[s] = "contract"
        /\ \A s \in Steps : state[s] = "running" /\ state'[s] # "running" =>
              state'[s] = "interrupted" /\ status' = "blocked"]_vars

(* The store keeps the abstract promise of TransactionPlan: a step settles  *)
(* once, a closed plan never changes again (not even by the recovery of a   *)
(* restart, which rewrites steps), and a commit or a rollback closes only a *)
(* plan whose steps are settled accordingly.                                *)
Plan == INSTANCE TransactionPlan WITH
    decision <- IF status \in TERMINAL_STATUSES THEN status ELSE "none",
    outcome <- [s \in Steps |-> IF state[s] \in Settled THEN state[s] ELSE "none"]

ImplementsPlan == Plan!Spec
=============================================================================
