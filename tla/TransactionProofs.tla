------------------------- MODULE TransactionProofs ------------------------
(***************************************************************************)
(* Proofs about TransactionStore and TransactionEnvelope for every plan    *)
(* and every bound.                                                        *)
(*                                                                         *)
(* The store: TypeOK /\ NothingRunsAfterFinal is inductive as it stands: a *)
(* checkpoint is refused once the status is final, finalize is refused     *)
(* while a step runs, and a recovery skips final transactions. The         *)
(* refinement then follows action by action: every checkpoint settles one  *)
(* unsettled step or maps to a stutter, and a recovery interrupts only     *)
(* running steps.                                                          *)
(*                                                                         *)
(* The envelope: that a capability runs at most once is not inductive: it  *)
(* needs that a call between its started checkpoint and its dispatch is    *)
(* alone on its step and that the step has had no effect yet (Claim), and  *)
(* that a step with an effect never looks pending again                    *)
(* (EffectsAreRecorded). That the gate closes by its verifier needs that a *)
(* verifier call whose revision is still the current one still faces the   *)
(* contract it read.                                                       *)
(***************************************************************************)
EXTENDS TransactionEnvelope, TLAPS

(***************************************************************************)
(* The store                                                               *)
(***************************************************************************)
\* The checkpoint operations without the bound on external_pending.
AnyCheckpoint(s) ==
    \/ \E ev \in Evidence : Start(s, revision, ev)
    \/ ExternalPending(s, revision)
    \/ Succeed(s, revision)
    \/ ExternalVerify(s, revision)
    \/ Verify(s, revision)
    \/ RollBack(s, revision)
    \/ Skip(s, revision)
    \/ Fail(s, revision)

AnyStep ==
    \/ \E s \in Steps : AnyCheckpoint(s)
    \/ Finalize(revision)
    \/ Restart

StoreInv == TypeOK /\ NothingRunsAfterFinal

LEMMA NextIsAnyStep == Next => AnyStep
  BY DEF Next, AnyStep, CheckpointStep, AnyCheckpoint

\* What every checkpoint writes: one step, from unsettled, at the next revision.
LEMMA CheckpointWrites ==
  ASSUME TypeOK, NEW s \in Steps, AnyCheckpoint(s)
  PROVE  /\ status \notin TERMINAL_STATUSES
         /\ state[s] \in Unsettled
         /\ \E o \in STEP_STATES \ {"pending", "interrupted"},
               st \in OPEN_STATUSES, ev \in Evidence :
            /\ WriteStep(s, o, st, ev)
            /\ o = "succeeded" => Kind[s] = "action"
            /\ o = "verified" => Kind[s] = "verify"
            /\ o = "rolled_back" => Kind[s] = "rollback"
            /\ o = "skipped" => state[s] = "pending"
<1> USE DEF STEP_STATES, OPEN_STATUSES, TERMINAL_STATUSES, Evidence, Unsettled
<1>1. CASE \E ev \in Evidence : Start(s, revision, ev)
  BY <1>1 DEF Start, Current
<1>2. CASE ExternalPending(s, revision)
  BY <1>2 DEF ExternalPending, Current
<1>3. CASE Succeed(s, revision)
  BY <1>3 DEF Succeed, Current, StatusAfterSuccess
<1>4. CASE ExternalVerify(s, revision)
  BY <1>4 DEF ExternalVerify, Current, StatusAfterSuccess, CompletionRequired
<1>5. CASE Verify(s, revision)
  BY <1>5 DEF Verify, Current
<1>6. CASE RollBack(s, revision)
  BY <1>6 DEF RollBack, Current
<1>7. CASE Skip(s, revision)
  BY <1>7 DEF Skip, Current, TypeOK
<1>8. CASE Fail(s, revision)
  BY <1>8 DEF Fail, Current
<1> QED
  BY <1>1, <1>2, <1>3, <1>4, <1>5, <1>6, <1>7, <1>8 DEF AnyCheckpoint

LEMMA FinalizeWrites ==
  ASSUME Finalize(revision)
  PROVE  /\ status \notin TERMINAL_STATUSES
         /\ Running = {}
         /\ status' \in TERMINAL_STATUSES
         /\ revision' = revision + 1
         /\ UNCHANGED <<state, evidence, restarts>>
  BY DEF Finalize, Commit, CloseRolledBack, Abort, Close, Current, Running, TERMINAL_STATUSES

-----------------------------------------------------------------------------
LEMMA InitInv == Init => StoreInv
  BY PlanAssumption
  DEF Init, StoreInv, TypeOK, NothingRunsAfterFinal, Running, Evidence,
      OPEN_STATUSES, TERMINAL_STATUSES, STEP_STATES

LEMMA CheckpointKeepsInv ==
  ASSUME StoreInv, NEW s \in Steps, AnyCheckpoint(s)
  PROVE  StoreInv'
<1>1. PICK o \in STEP_STATES, st \in OPEN_STATUSES, ev \in Evidence : WriteStep(s, o, st, ev)
  BY CheckpointWrites DEF StoreInv
<1>2. TypeOK'
  BY <1>1 DEF WriteStep, StoreInv, TypeOK
<1>3. status' \notin TERMINAL_STATUSES
  BY <1>1 DEF WriteStep, OPEN_STATUSES, TERMINAL_STATUSES
<1> QED
  BY <1>2, <1>3 DEF StoreInv, NothingRunsAfterFinal

LEMMA FinalizeKeepsInv ==
  ASSUME StoreInv, Finalize(revision)
  PROVE  StoreInv'
<1>1. TypeOK'
  BY FinalizeWrites DEF StoreInv, TypeOK
<1>2. NothingRunsAfterFinal'
  BY FinalizeWrites DEF NothingRunsAfterFinal, Running
<1> QED
  BY <1>1, <1>2 DEF StoreInv

LEMMA RestartKeepsInv ==
  ASSUME StoreInv, Restart
  PROVE  StoreInv'
<1>1. restarts' \in 0..MaxRestarts
  BY PlanAssumption DEF Restart, StoreInv, TypeOK
<1>2. CASE UNCHANGED txVars
  BY <1>1, <1>2 DEF StoreInv, TypeOK, NothingRunsAfterFinal, Running, txVars
<1>3. CASE ~UNCHANGED txVars
  <2>1. status \notin TERMINAL_STATUSES
    BY <1>3 DEF Restart, Recover
  <2>2. status' \in OPEN_STATUSES
    BY <1>3, <2>1 DEF Restart, Recover, StoreInv, TypeOK, OPEN_STATUSES, TERMINAL_STATUSES
  <2>3. TypeOK'
    BY <1>1, <1>3, <2>2 DEF Restart, Recover, StoreInv, TypeOK, STEP_STATES
  <2> QED
    BY <2>2, <2>3 DEF StoreInv, NothingRunsAfterFinal, OPEN_STATUSES, TERMINAL_STATUSES
<1> QED
  BY <1>2, <1>3

LEMMA StepKeepsInv == StoreInv /\ [AnyStep]_vars => StoreInv'
<1> SUFFICES ASSUME StoreInv, [AnyStep]_vars PROVE StoreInv'
  OBVIOUS
<1>1. CASE \E s \in Steps : AnyCheckpoint(s)
  BY <1>1, CheckpointKeepsInv
<1>2. CASE Finalize(revision)
  BY <1>2, FinalizeKeepsInv
<1>3. CASE Restart
  BY <1>3, RestartKeepsInv
<1>4. CASE UNCHANGED vars
  BY <1>4 DEF vars, StoreInv, TypeOK, NothingRunsAfterFinal, Running
<1> QED
  BY <1>1, <1>2, <1>3, <1>4 DEF AnyStep

LEMMA StoreInvariant == Spec => []StoreInv
<1>1. StoreInv /\ [Next]_vars => StoreInv'
  BY StepKeepsInv, NextIsAnyStep
<1> QED
  BY InitInv, <1>1, PTL DEF Spec

\* Every reachable state of the store is well typed.
THEOREM TypeCorrect == Spec => []TypeOK
  BY StoreInvariant, PTL DEF StoreInv

\* No step of a transaction that committed, aborted or rolled back still runs.
THEOREM FinalIsQuiet == Spec => []NothingRunsAfterFinal
  BY StoreInvariant, PTL DEF StoreInv

-----------------------------------------------------------------------------
LEMMA StepMovesRevision ==
  ASSUME StoreInv, [AnyStep]_vars, txVars' # txVars
  PROVE  revision' = revision + 1
<1>1. CASE \E s \in Steps : AnyCheckpoint(s)
  <2> PICK s \in Steps : AnyCheckpoint(s)
    BY <1>1
  <2> QED
    BY CheckpointWrites DEF StoreInv, WriteStep
<1>2. CASE Finalize(revision)
  BY <1>2, FinalizeWrites
<1>3. CASE Restart
  BY <1>3 DEF Restart, Recover
<1> QED
  BY <1>1, <1>2, <1>3 DEF AnyStep, vars, txVars

\* A caller that holds an older revision is refused: nothing changes the
\* transaction, a restart's recovery included, at the same revision.
THEOREM RevisionMoves == Spec => EveryChangeMovesRevision
<1>1. StoreInv /\ [Next]_vars => [txVars' # txVars => revision' = revision + 1]_vars
  BY StepMovesRevision, NextIsAnyStep
<1> QED
  BY <1>1, StoreInvariant, PTL DEF Spec, EveryChangeMovesRevision

\* A restart keeps running exactly the actions whose contract is recorded, and
\* blocks the transaction for every other: a final one has nothing running.
THEOREM RecoveryIsExact == Spec => RestartResumesOnlyContracts
<1> DEFINE Exact ==
      /\ \A s \in Steps : state'[s] = "running" =>
            Kind[s] = "action" /\ evidence[s] = "contract"
      /\ \A s \in Steps : state[s] = "running" /\ state'[s] # "running" =>
            state'[s] = "interrupted" /\ status' = "blocked"
<1>1. ASSUME StoreInv, Restart PROVE Exact
  <2>1. CASE Running = {}
    BY <1>1, <2>1 DEF Restart, Recover, Running, txVars
  <2>2. CASE Running # {}
    <3>1. /\ state' = [s \in Steps |-> IF s \in Interrupted THEN "interrupted" ELSE state[s]]
          /\ Interrupted # {} => status' = "blocked"
      BY <1>1, <2>2 DEF Restart, Recover, StoreInv, NothingRunsAfterFinal
    <3>2. \A s \in Steps : s \in Interrupted <=> state[s] = "running" /\ ~Resumable(s)
      BY DEF Interrupted, Running
    <3> QED
      BY <3>1, <3>2 DEF Resumable
  <2> QED
    BY <2>1, <2>2
<1>2. ASSUME StoreInv, [Next]_vars PROVE [restarts' # restarts => Exact]_vars
  <2>1. ASSUME NEW s \in Steps, AnyCheckpoint(s) PROVE restarts' = restarts
    BY <1>2, <2>1, CheckpointWrites DEF WriteStep, StoreInv
  <2>2. CASE Finalize(revision)
    BY <2>2, FinalizeWrites
  <2>3. CASE Restart
    BY <1>1, <1>2, <2>3
  <2> QED
    BY <1>2, <2>1, <2>2, <2>3, NextIsAnyStep DEF AnyStep
<1> QED
  BY <1>2, StoreInvariant, PTL DEF Spec, RestartResumesOnlyContracts

\* A step that has begun never looks pending or skipped again.
LEMMA BegunStaysBegun ==
  ASSUME StoreInv, [AnyStep]_vars, NEW t \in Steps, state[t] \notin {"pending", "skipped"}
  PROVE  state'[t] \notin {"pending", "skipped"}
<1>1. CASE \E s \in Steps : AnyCheckpoint(s)
  <2>1. PICK s \in Steps : AnyCheckpoint(s)
    BY <1>1
  <2>2. PICK o \in STEP_STATES \ {"pending", "interrupted"},
             st \in OPEN_STATUSES, ev \in Evidence :
          WriteStep(s, o, st, ev) /\ (o = "skipped" => state[s] = "pending")
    BY <2>1, CheckpointWrites DEF StoreInv
  <2> QED
    BY <2>2 DEF WriteStep, StoreInv, TypeOK
<1>2. CASE Finalize(revision)
  BY <1>2, FinalizeWrites
<1>3. CASE Restart
  BY <1>3 DEF Restart, Recover, txVars
<1>4. CASE UNCHANGED vars
  BY <1>4 DEF vars
<1> QED
  BY <1>1, <1>2, <1>3, <1>4 DEF AnyStep

-----------------------------------------------------------------------------
(* The refinement of TransactionPlan.  Both sides see a step's outcome and   *)
(* the closing decision through the mapping of Plan.                         *)

AbsDecision == IF status \in TERMINAL_STATUSES THEN status ELSE "none"
AbsOutcome == [s \in Steps |-> IF state[s] \in Settled THEN state[s] ELSE "none"]

LEMMA InitRefines == Init => Plan!Init
  BY DEF Init, Plan!Init, TERMINAL_STATUSES, Settled, Unsettled

LEMMA CheckpointRefines ==
  ASSUME StoreInv, NEW s \in Steps, AnyCheckpoint(s)
  PROVE  [Plan!Next]_(Plan!planVars)
<1>1. PICK o \in STEP_STATES \ {"pending", "interrupted"},
           st \in OPEN_STATUSES, ev \in Evidence :
        /\ WriteStep(s, o, st, ev)
        /\ o = "succeeded" => Kind[s] = "action"
        /\ o = "verified" => Kind[s] = "verify"
        /\ o = "rolled_back" => Kind[s] = "rollback"
  BY CheckpointWrites DEF StoreInv
<1>2. status \notin TERMINAL_STATUSES /\ state[s] \in Unsettled
  BY CheckpointWrites DEF StoreInv
<1>3. AbsDecision = "none" /\ AbsDecision' = "none"
  BY <1>1, <1>2 DEF AbsDecision, WriteStep, OPEN_STATUSES, TERMINAL_STATUSES
<1>4. state \in [Steps -> STEP_STATES] /\ state' = [state EXCEPT ![s] = o]
  BY <1>1 DEF StoreInv, TypeOK, WriteStep
<1>5. AbsOutcome[s] = "none"
  BY <1>2 DEF AbsOutcome, Settled
<1>6. CASE o \in Unsettled
  <2>1. AbsOutcome' = AbsOutcome
    BY <1>2, <1>4, <1>6 DEF AbsOutcome, Settled
  <2> QED
    BY <2>1, <1>3 DEF Plan!planVars, AbsOutcome, AbsDecision
<1>7. CASE o \notin Unsettled
  <2>1. o \in Plan!Outcomes /\ o # "interrupted"
    BY <1>7 DEF Plan!Outcomes, STEP_STATES, Unsettled
  <2>2. AbsOutcome' = [t \in Steps |-> IF t \in {s} THEN o ELSE AbsOutcome[t]]
    BY <1>4, <1>7 DEF AbsOutcome, Settled
  <2>3. Plan!Settle({s}, o)
    BY <2>1, <2>2, <1>1, <1>3, <1>5 DEF Plan!Settle, AbsOutcome, AbsDecision
  <2> QED
    BY <2>1, <2>3 DEF Plan!Next
<1> QED
  BY <1>6, <1>7

LEMMA FinalizeRefines ==
  ASSUME StoreInv, Finalize(revision)
  PROVE  Plan!Next
<1>1. AbsDecision = "none" /\ AbsDecision' = status' /\ AbsOutcome' = AbsOutcome
  BY FinalizeWrites DEF AbsDecision, AbsOutcome
<1>2. \A s \in Steps : state[s] \in STEP_STATES /\ Kind[s] \in {"action", "verify", "rollback"}
  BY PlanAssumption DEF StoreInv, TypeOK
<1>3. CASE Commit(revision)
  <2>1. status' = "committed" /\ Complete
    BY <1>3 DEF Commit, Close
  <2>2. Plan!Committable
    BY <2>1, <1>2 DEF Complete, Plan!Committable, Plan!Good, Settled, STEP_STATES, Unsettled
  <2> QED
    BY <2>1, <2>2, <1>1 DEF Plan!Next, Plan!Close, Plan!Decisions, AbsDecision, AbsOutcome
<1>4. CASE CloseRolledBack(revision)
  <2>1. status' = "rolled_back" /\ RolledBack
    BY <1>4 DEF CloseRolledBack, Close
  <2>2. Plan!Undone
    BY <2>1, <1>2 DEF RolledBack, RollbackSteps, Plan!Undone, Plan!Good, Settled, STEP_STATES, Unsettled
  <2> QED
    BY <2>1, <2>2, <1>1 DEF Plan!Next, Plan!Close, Plan!Decisions, AbsDecision, AbsOutcome
<1>5. CASE Abort(revision)
  <2>1. status' = "aborted"
    BY <1>5 DEF Abort, Close
  <2> QED
    BY <2>1, <1>1 DEF Plan!Next, Plan!Close, Plan!Decisions, AbsDecision, AbsOutcome
<1> QED
  BY <1>3, <1>4, <1>5 DEF Finalize

LEMMA RestartRefines ==
  ASSUME StoreInv, Restart
  PROVE  [Plan!Next]_(Plan!planVars)
<1>1. CASE UNCHANGED <<status, state>>
  BY <1>1 DEF Plan!planVars
<1>2. CASE ~UNCHANGED <<status, state>>
  <2>1. status \notin TERMINAL_STATUSES
    BY <1>2 DEF Restart, Recover, txVars
  <2>2. status' \notin TERMINAL_STATUSES
    BY <1>2, <2>1 DEF Restart, Recover, txVars, TERMINAL_STATUSES
  <2>3. state' = [s \in Steps |-> IF s \in Interrupted THEN "interrupted" ELSE state[s]]
    BY <1>2 DEF Restart, Recover, txVars
  <2>4. AbsDecision = "none" /\ AbsDecision' = "none"
    BY <2>1, <2>2 DEF AbsDecision
  <2>5. \A s \in Interrupted : s \in Steps /\ AbsOutcome[s] = "none"
    BY DEF Interrupted, Running, AbsOutcome, Settled, Unsettled
  <2>6. AbsOutcome' = [s \in Steps |-> IF s \in Interrupted THEN "interrupted" ELSE AbsOutcome[s]]
    BY <2>3 DEF AbsOutcome, Settled, STEP_STATES, Unsettled
  <2>7. CASE Interrupted = {}
    <3>1. AbsOutcome' = AbsOutcome
      BY <2>6, <2>7 DEF AbsOutcome
    <3> QED
      BY <3>1, <2>4 DEF Plan!planVars, AbsOutcome, AbsDecision
  <2>8. CASE Interrupted # {}
    <3>1. Plan!Settle(Interrupted, "interrupted")
      BY <2>4, <2>5, <2>6, <2>8 DEF Plan!Settle, AbsOutcome, AbsDecision
    <3>2. Interrupted \in SUBSET Steps /\ "interrupted" \in Plan!Outcomes
      BY DEF Interrupted, Running, Plan!Outcomes
    <3> QED
      BY <3>1, <3>2 DEF Plan!Next
  <2> QED
    BY <2>7, <2>8
<1> QED
  BY <1>1, <1>2

\* The store implements the abstract plan: a step settles once, a closed
\* transaction never changes again, and it commits only when it is complete.
THEOREM PlanImplemented == Spec => ImplementsPlan
<1>1. StoreInv /\ [Next]_vars => [Plan!Next]_(Plan!planVars)
  <2> SUFFICES ASSUME StoreInv, [Next]_vars PROVE [Plan!Next]_(Plan!planVars)
    OBVIOUS
  <2>1. CASE \E s \in Steps : AnyCheckpoint(s)
    BY <2>1, CheckpointRefines
  <2>2. CASE Finalize(revision)
    BY <2>2, FinalizeRefines
  <2>3. CASE Restart
    BY <2>3, RestartRefines
  <2>4. CASE UNCHANGED vars
    BY <2>4 DEF vars, Plan!planVars
  <2> QED
    BY <2>1, <2>2, <2>3, <2>4, NextIsAnyStep DEF AnyStep
<1> QED
  BY <1>1, InitRefines, StoreInvariant, PTL DEF Spec, Plan!Spec, ImplementsPlan

(***************************************************************************)
(* The envelope                                                            *)
(***************************************************************************)
Claim ==
    \A c \in Calls : call[c].stage = "started" =>
        /\ effects[call[c].step] = 0
        /\ state[call[c].step] \notin {"pending", "skipped"}
        /\ \A d \in Calls :
              call[d].stage = "started" /\ call[d].step = call[c].step => d = c

VerdictIsFresh ==
    \A c \in Calls : call[c].stage = "verifying" =>
        /\ call[c].rev <= revision
        /\ call[c].rev = revision =>
              evidence[call[c].step] = "contract"

EnvInv ==
    /\ NothingRunsAfterFinal
    /\ EnvTypeOK
    /\ AtMostOneDispatch
    /\ EffectsAreRecorded
    /\ Claim
    /\ VerdictIsFresh

CallRecord == [stage : Stages, step : Steps, rev : Nat \ {0}]

-----------------------------------------------------------------------------
(* What a step of the store means for the envelope. *)

LEMMA StoreStep ==
  ASSUME StoreInv, [AnyStep]_vars
  PROVE  /\ StoreInv'
         /\ revision' >= revision
         /\ revision' = revision => UNCHANGED txVars
         /\ \A s \in Steps : state[s] \notin {"pending", "skipped"}
                                => state'[s] \notin {"pending", "skipped"}
<1>1. StoreInv'
  BY StepKeepsInv
<1>2. revision \in Nat
  BY DEF StoreInv, TypeOK
<1>3. revision' = revision \/ revision' = revision + 1
  BY StepMovesRevision DEF txVars
<1>4. revision' = revision => UNCHANGED txVars
  BY <1>2, StepMovesRevision
<1> QED
  BY <1>1, <1>2, <1>3, <1>4, BegunStaysBegun

\* A step of the store that leaves the calls and their effects alone, or only
\* returns from calls, keeps the envelope's invariant.
LEMMA StoreStepKeepsEnvInv ==
  ASSUME EnvInv, [AnyStep]_vars, UNCHANGED effects, owed' \subseteq Steps,
         call' \in [Calls -> CallRecord \cup {Idle}],
         \A c \in Calls : call'[c] = call[c] \/ call'[c] = Idle
  PROVE  EnvInv'
<1>1. StoreInv
  BY DEF EnvInv, EnvTypeOK, StoreInv
<1>2. /\ StoreInv'
      /\ revision' >= revision
      /\ revision' = revision => UNCHANGED txVars
      /\ \A s \in Steps : state[s] \notin {"pending", "skipped"}
                             => state'[s] \notin {"pending", "skipped"}
  BY <1>1, StoreStep
<1>3. Idle.stage = "idle" /\ call \in [Calls -> CallRecord \cup {Idle}]
  BY DEF Idle, EnvInv, EnvTypeOK, CallRecord
<1>4. \A c \in Calls : call'[c].stage # "idle" => call'[c] = call[c] /\ call[c].step \in Steps
  BY <1>3 DEF CallRecord, Idle
<1>5. EnvTypeOK'
  BY <1>2 DEF EnvInv, EnvTypeOK, StoreInv, CallRecord
<1>6. AtMostOneDispatch' /\ EffectsAreRecorded'
  BY <1>2 DEF EnvInv, AtMostOneDispatch, EffectsAreRecorded
<1>7. Claim'
  BY <1>2, <1>4 DEF EnvInv, Claim
<1>8. VerdictIsFresh'
  <2> SUFFICES ASSUME NEW c \in Calls, call'[c].stage = "verifying"
               PROVE  /\ call'[c].rev <= revision'
                      /\ call'[c].rev = revision' => evidence'[call'[c].step] = "contract"
    BY DEF VerdictIsFresh
  <2>1. call'[c] = call[c] /\ call[c] \in CallRecord
    BY <1>3, <1>4 DEF CallRecord, Idle
  <2>2. call[c].rev \in Nat /\ revision \in Nat /\ revision' \in Nat
    BY <1>1, <1>2, <2>1 DEF CallRecord, StoreInv, TypeOK
  <2>3. call[c].rev <= revision
    BY <2>1 DEF EnvInv, VerdictIsFresh
  <2>4. call[c].rev = revision => evidence[call[c].step] = "contract"
    BY <2>1 DEF EnvInv, VerdictIsFresh
  <2> QED
    BY <1>2, <2>1, <2>2, <2>3, <2>4 DEF txVars
<1> QED
  BY <1>2, <1>5, <1>6, <1>7, <1>8 DEF EnvInv, StoreInv

-----------------------------------------------------------------------------
(* The envelope's own steps. *)

LEMMA CheckpointIsStoreStep ==
  ASSUME NEW s \in Steps, NEW rev, NEW outcome, Checkpoint(s, rev, outcome)
  PROVE  [AnyStep]_vars
<1>1. CASE UNCHANGED vars
  BY <1>1
<1>2. CASE Current(rev) /\ ~UNCHANGED vars
  <2>1. rev = revision
    BY <1>2 DEF Current
  <2> QED
    BY <1>2, <2>1 DEF Checkpoint, AnyStep, AnyCheckpoint
<1> QED
  BY <1>1, <1>2 DEF Checkpoint

LEMMA StartInvokeKeepsInv ==
  ASSUME EnvInv, NEW c \in Calls, NEW s \in Steps, StartInvoke(c, s)
  PROVE  EnvInv'
<1> DEFINE new == [stage |-> "started", step |-> s, rev |-> revision + 1]
<1>1. StoreInv /\ Start(s, revision, "plain") /\ state[s] = "pending"
  BY DEF EnvInv, EnvTypeOK, StoreInv, StartInvoke, Start
<1>2. AnyStep
  BY <1>1 DEF AnyStep, AnyCheckpoint, Evidence
<1>3. /\ StoreInv'
      /\ revision' >= revision
      /\ revision' = revision => UNCHANGED txVars
      /\ \A t \in Steps : state[t] \notin {"pending", "skipped"}
                             => state'[t] \notin {"pending", "skipped"}
  BY <1>1, <1>2, StoreStep
<1>4. state'[s] = "running" /\ revision' = revision + 1 /\ revision \in Nat
  BY <1>1 DEF Start, WriteStep, StoreInv, TypeOK
<1>5. /\ call \in [Calls -> CallRecord \cup {Idle}]
      /\ call' = [call EXCEPT ![c] = new]
      /\ effects' = effects /\ owed' = owed
  BY DEF EnvInv, EnvTypeOK, StartInvoke, CallRecord
<1>6. new \in CallRecord
  BY <1>4 DEF CallRecord, Stages
<1>7. EnvTypeOK'
  BY <1>3, <1>5, <1>6 DEF EnvInv, EnvTypeOK, StoreInv, CallRecord
<1>8. AtMostOneDispatch' /\ EffectsAreRecorded'
  BY <1>3, <1>5 DEF EnvInv, AtMostOneDispatch, EffectsAreRecorded
<1>9. effects[s] = 0
  BY <1>1 DEF EnvInv, EnvTypeOK, EffectsAreRecorded
<1>10. \A d \in Calls : d # c /\ call[d].stage = "started" => call[d].step # s
  BY <1>1 DEF EnvInv, Claim
<1>11. Claim'
  <2> SUFFICES ASSUME NEW d \in Calls, call'[d].stage = "started"
               PROVE  /\ effects'[call'[d].step] = 0
                      /\ state'[call'[d].step] \notin {"pending", "skipped"}
                      /\ \A e \in Calls :
                           call'[e].stage = "started" /\ call'[e].step = call'[d].step => e = d
    BY DEF Claim
  <2>1. CASE d = c
    BY <2>1, <1>4, <1>5, <1>9, <1>10
  <2>2. CASE d # c
    <3>1. call'[d] = call[d] /\ call[d].step \in Steps
      BY <2>2, <1>5 DEF CallRecord, Idle
    <3> QED
      BY <2>2, <3>1, <1>3, <1>5, <1>10 DEF EnvInv, Claim
  <2> QED
    BY <2>1, <2>2
<1>12. VerdictIsFresh'
  <2> SUFFICES ASSUME NEW d \in Calls, call'[d].stage = "verifying"
               PROVE  /\ call'[d].rev <= revision'
                      /\ call'[d].rev # revision'
    BY DEF VerdictIsFresh
  <2>1. d # c /\ call'[d] = call[d] /\ call[d] \in CallRecord
    BY <1>5 DEF Idle
  <2> QED
    BY <2>1, <1>4 DEF EnvInv, VerdictIsFresh, CallRecord
<1> QED
  BY <1>3, <1>7, <1>8, <1>11, <1>12 DEF EnvInv, StoreInv

LEMMA DispatchKeepsInv ==
  ASSUME EnvInv, NEW c \in Calls, Dispatch(c)
  PROVE  EnvInv'
<1>1. /\ call \in [Calls -> CallRecord \cup {Idle}]
      /\ effects \in [Steps -> Nat]
      /\ UNCHANGED <<vars, owed>>
  BY DEF EnvInv, EnvTypeOK, CallRecord, Dispatch
<1>2. call[c].stage = "started" /\ call[c] \in CallRecord
  BY <1>1 DEF Dispatch, Idle
<1>3. /\ call[c].step \in Steps
      /\ effects[call[c].step] = 0
      /\ state[call[c].step] \notin {"pending", "skipped"}
      /\ \A d \in Calls : call[d].stage = "started" /\ call[d].step = call[c].step => d = c
  BY <1>2 DEF EnvInv, Claim, CallRecord
<1>4. /\ effects' = [effects EXCEPT ![call[c].step] = 1]
      /\ call' = [call EXCEPT ![c].stage = "dispatched"]
  BY <1>1, <1>3 DEF Dispatch
<1>5. call'[c] \in CallRecord /\ call'[c].stage = "dispatched"
  BY <1>1, <1>2, <1>4 DEF CallRecord, Stages
<1>6. \A d \in Calls : d # c => call'[d] = call[d]
  BY <1>1, <1>4
<1>7. EnvTypeOK'
  <2>1. TypeOK'
    BY <1>1 DEF EnvInv, EnvTypeOK, TypeOK, vars
  <2>2. call' \in [Calls -> CallRecord \cup {Idle}]
    BY <1>1, <1>4, <1>5, <1>6
  <2> QED
    BY <2>1, <2>2, <1>1, <1>4 DEF EnvInv, EnvTypeOK, CallRecord
<1>8. NothingRunsAfterFinal'
  BY <1>1 DEF EnvInv, NothingRunsAfterFinal, Running, vars
<1>9. AtMostOneDispatch' /\ EffectsAreRecorded'
  BY <1>1, <1>3, <1>4 DEF EnvInv, AtMostOneDispatch, EffectsAreRecorded, vars
<1>10. Claim'
  BY <1>1, <1>3, <1>4, <1>5, <1>6 DEF EnvInv, Claim, vars
<1>11. VerdictIsFresh'
  BY <1>1, <1>5, <1>6 DEF EnvInv, VerdictIsFresh, vars
<1> QED
  BY <1>7, <1>8, <1>9, <1>10, <1>11 DEF EnvInv

LEMMA CompleteExternalKeepsInv ==
  ASSUME EnvInv, NEW c \in Calls, NEW s \in Steps, CompleteExternal(c, s)
  PROVE  EnvInv'
<1> DEFINE new == [stage |-> "verifying", step |-> s, rev |-> revision]
<1>1. /\ call \in [Calls -> CallRecord \cup {Idle}]
      /\ call' = [call EXCEPT ![c] = new]
      /\ evidence[s] = "contract"
      /\ revision \in Nat \ {0}
      /\ UNCHANGED <<vars, effects, owed>>
  BY DEF EnvInv, EnvTypeOK, TypeOK, CallRecord, CompleteExternal
<1>2. new \in CallRecord /\ new.stage = "verifying"
  BY <1>1 DEF CallRecord, Stages
<1>3. \A d \in Calls : call'[d] = IF d = c THEN new ELSE call[d]
  BY <1>1
<1>4. EnvTypeOK'
  <2>1. TypeOK'
    BY <1>1 DEF EnvInv, EnvTypeOK, TypeOK, vars
  <2>2. call' \in [Calls -> CallRecord \cup {Idle}]
    BY <1>1, <1>2
  <2> QED
    BY <2>1, <2>2, <1>1 DEF EnvInv, EnvTypeOK, CallRecord
<1>5. NothingRunsAfterFinal' /\ AtMostOneDispatch' /\ EffectsAreRecorded'
  BY <1>1 DEF EnvInv, NothingRunsAfterFinal, Running, AtMostOneDispatch, EffectsAreRecorded, vars
<1>6. Claim'
  BY <1>1, <1>2, <1>3 DEF EnvInv, Claim, vars
<1>7. VerdictIsFresh'
  BY <1>1, <1>2, <1>3 DEF EnvInv, VerdictIsFresh, vars
<1> QED
  BY <1>4, <1>5, <1>6, <1>7 DEF EnvInv

LEMMA FinishKeepsInv ==
  ASSUME EnvInv, NEW c \in Calls,
         \/ \E result \in Results : Finish(c, result)
         \/ \E o \in VerifierOutcomes : FinishVerify(c, o)
  PROVE  EnvInv'
<1>1. call \in [Calls -> CallRecord \cup {Idle}]
  BY DEF EnvInv, EnvTypeOK, CallRecord
<1>2. call[c].stage \in Stages /\ call' = [call EXCEPT ![c] = Idle]
  BY DEF Finish, FinishVerify, Return, Stages
<1>3. call[c].step \in Steps
  BY <1>1, <1>2 DEF CallRecord, Idle, Stages
<1>4. [AnyStep]_vars
  BY <1>3, CheckpointIsStoreStep DEF Finish, FinishVerify
<1>5. UNCHANGED effects /\ owed' \subseteq Steps
  BY <1>3 DEF Finish, FinishVerify, EnvInv, EnvTypeOK
<1> QED
  BY <1>1, <1>2, <1>4, <1>5, StoreStepKeepsEnvInv

LEMMA EnvStepKeepsInv == EnvInv /\ [EnvNext]_envVars => EnvInv'
<1> SUFFICES ASSUME EnvInv, [EnvNext]_envVars PROVE EnvInv'
  OBVIOUS
<1>1. owed \subseteq Steps /\ call \in [Calls -> CallRecord \cup {Idle}]
  BY DEF EnvInv, EnvTypeOK, CallRecord
<1>2. ASSUME NEW c \in Calls, NEW s \in Steps, StartInvoke(c, s) \/ CompleteExternal(c, s)
      PROVE  EnvInv'
  BY <1>2, StartInvokeKeepsInv, CompleteExternalKeepsInv
<1>3. ASSUME NEW c \in Calls, Dispatch(c) PROVE EnvInv'
  BY <1>3, DispatchKeepsInv
<1>4. ASSUME NEW c \in Calls,
             \/ \E result \in Results : Finish(c, result)
             \/ \E o \in VerifierOutcomes : FinishVerify(c, o)
      PROVE  EnvInv'
  BY <1>4, FinishKeepsInv
<1>5. ASSUME NEW s \in Steps, ClientCheckpoint(s) PROVE EnvInv'
  <2>1. AnyStep /\ UNCHANGED <<call, effects, owed>>
    BY <1>5 DEF ClientCheckpoint, AnyStep, AnyCheckpoint
  <2> QED
    BY <2>1, <1>1, StoreStepKeepsEnvInv
<1>6. CASE ClientFinalize
  <2>1. AnyStep /\ UNCHANGED <<call, effects, owed>>
    BY <1>6 DEF ClientFinalize, AnyStep
  <2> QED
    BY <2>1, <1>1, StoreStepKeepsEnvInv
<1>7. CASE RestartServer
  <2>1. AnyStep /\ UNCHANGED <<effects, owed>> /\ call' = [c \in Calls |-> Idle]
    BY <1>7 DEF RestartServer, AnyStep
  <2> QED
    BY <2>1, <1>1, StoreStepKeepsEnvInv
<1>8. CASE UNCHANGED envVars
  <2>1. UNCHANGED <<vars, call, effects, owed>>
    BY <1>8 DEF envVars
  <2> QED
    BY <2>1, <1>1, StoreStepKeepsEnvInv
<1> QED
  BY <1>2, <1>3, <1>4, <1>5, <1>6, <1>7, <1>8 DEF EnvNext

LEMMA EnvInitInv == EnvInit => EnvInv
<1> SUFFICES ASSUME EnvInit PROVE EnvInv
  OBVIOUS
<1>1. StoreInv
  BY InitInv DEF EnvInit
<1>2. EnvTypeOK
  BY <1>1 DEF EnvInit, EnvTypeOK, StoreInv
<1>3. AtMostOneDispatch /\ EffectsAreRecorded
  BY DEF EnvInit, AtMostOneDispatch, EffectsAreRecorded
<1>4. Claim /\ VerdictIsFresh
  BY DEF EnvInit, Claim, VerdictIsFresh, Idle
<1> QED
  BY <1>1, <1>2, <1>3, <1>4 DEF EnvInv, StoreInv

LEMMA EnvInvariant == EnvSpec => []EnvInv
  BY EnvInitInv, EnvStepKeepsInv, PTL DEF EnvSpec

\* Every reachable state of the store and its calls is well typed.
THEOREM EnvTypeCorrect == EnvSpec => []EnvTypeOK
  BY EnvInvariant, PTL DEF EnvInv

\* A step's capability runs at most once, however many calls interleave and
\* however often the process restarts.
THEOREM DispatchedOnce == EnvSpec => []AtMostOneDispatch
  BY EnvInvariant, PTL DEF EnvInv

\* A capability that ran belongs to a step the store shows as begun.
THEOREM WriteAhead == EnvSpec => []EffectsAreRecorded
  BY EnvInvariant, PTL DEF EnvInv

-----------------------------------------------------------------------------
(* The completion gate. *)

\* A store step that settles a gated step as succeeded is external_verified.
LEMMA GatedStepNeedsVerifier ==
  ASSUME StoreInv, NEW t \in Steps, AnyCheckpoint(t), NEW s \in Steps,
         CompletionRequired(s), state'[s] = "succeeded"
  PROVE  t = s /\ ExternalVerify(s, revision)
<1>1. PICK o \in STEP_STATES, st \in OPEN_STATUSES, ev \in Evidence : WriteStep(t, o, st, ev)
  BY CheckpointWrites DEF StoreInv
<1>2. state \in [Steps -> STEP_STATES] /\ state[s] = "running"
  BY DEF StoreInv, TypeOK, CompletionRequired
<1>3. t = s
  BY <1>1, <1>2 DEF WriteStep
<1>4. ASSUME NEW o2, NEW st2, NEW ev2, o2 # "succeeded", WriteStep(s, o2, st2, ev2)
      PROVE  FALSE
  BY <1>2, <1>4 DEF WriteStep
<1>5. ~Succeed(s, revision)
  BY DEF Succeed
<1> QED
  BY <1>3, <1>4, <1>5 DEF AnyCheckpoint, Start, ExternalPending, Verify, RollBack, Skip, Fail

LEMMA GateStep ==
  ASSUME EnvInv, [EnvNext]_envVars, NEW s \in Steps,
         CompletionRequired(s), state'[s] = "succeeded"
  PROVE  \E c \in Calls : /\ call[c] = [stage |-> "verifying", step |-> s, rev |-> revision]
                          /\ evidence[s] = "contract"
<1>1. StoreInv /\ state[s] = "running" /\ call \in [Calls -> CallRecord \cup {Idle}]
  BY DEF EnvInv, EnvTypeOK, StoreInv, CompletionRequired, CallRecord
<1>2. ~UNCHANGED state
  BY <1>1
<1>3. ASSUME NEW t \in Steps, NEW rev, NEW outcome, Checkpoint(t, rev, outcome)
      PROVE  t = s /\ rev = revision /\ outcome = "external_verified"
  <2>1. Current(rev) /\ rev = revision /\ ~UNCHANGED vars
    BY <1>2, <1>3 DEF Checkpoint, Current, vars
  <2>2. AnyCheckpoint(t)
    BY <1>3, <2>1 DEF Checkpoint, AnyCheckpoint
  <2>3. t = s
    BY <1>1, <2>2, GatedStepNeedsVerifier
  <2>4. CASE outcome = "external_verified"
    BY <2>1, <2>3, <2>4
  <2>5. CASE outcome # "external_verified"
    <3>1. \/ Fail(s, revision) \/ ExternalPending(s, revision)
          \/ Succeed(s, revision) \/ RollBack(s, revision)
      BY <1>3, <2>1, <2>3, <2>5 DEF Checkpoint
    <3>2. ~Succeed(s, revision)
      BY DEF Succeed
    <3> QED
      BY <1>1, <3>1, <3>2 DEF Fail, ExternalPending, RollBack, WriteStep, StoreInv, TypeOK
  <2> QED
    BY <2>4, <2>5
<1>4. ASSUME NEW c \in Calls, NEW t \in Steps, StartInvoke(c, t) PROVE FALSE
  BY <1>1, <1>4 DEF StartInvoke, Start, WriteStep, StoreInv, TypeOK
<1>5. ASSUME NEW c \in Calls, NEW result \in Results, Finish(c, result) PROVE FALSE
  <2>1. call[c].step \in Steps
    BY <1>1, <1>5 DEF Finish, CallRecord, Idle
  <2> QED
    BY <1>3, <1>5, <2>1 DEF Finish, OutcomeOf
<1>6. ASSUME NEW c \in Calls, NEW o \in VerifierOutcomes, FinishVerify(c, o)
      PROVE  /\ call[c] = [stage |-> "verifying", step |-> s, rev |-> revision]
             /\ evidence[s] = "contract"
  <2>1. call[c].stage = "verifying" /\ call[c] \in CallRecord
    BY <1>1, <1>6 DEF FinishVerify, Idle
  <2>2. call[c].step = s /\ call[c].rev = revision
    BY <1>3, <1>6, <2>1 DEF FinishVerify, CallRecord
  <2> QED
    BY <2>1, <2>2 DEF EnvInv, VerdictIsFresh, CallRecord
<1>7. ASSUME NEW t \in Steps, ClientCheckpoint(t) PROVE FALSE
  <2>1. AnyCheckpoint(t)
    BY <1>7 DEF ClientCheckpoint, AnyCheckpoint
  <2>2. t = s
    BY <1>1, <2>1, GatedStepNeedsVerifier
  <2>3. ~Succeed(s, revision)
    BY DEF Succeed
  <2> QED
    BY <1>1, <1>7, <2>2, <2>3
    DEF ClientCheckpoint, Start, Fail, Verify, RollBack, Skip, WriteStep, StoreInv, TypeOK
<1>8. ~ClientFinalize
  BY <1>2, FinalizeWrites DEF ClientFinalize
<1>9. ~RestartServer
  BY <1>1 DEF RestartServer, Restart, Recover, txVars
<1>10. ~UNCHANGED envVars /\ \A c \in Calls : ~Dispatch(c)
  BY <1>2 DEF envVars, vars, Dispatch
<1>11. ASSUME NEW c \in Calls, NEW t \in Steps, CompleteExternal(c, t) PROVE FALSE
  BY <1>2, <1>11 DEF CompleteExternal, vars
<1> QED
  BY <1>4, <1>5, <1>6, <1>7, <1>8, <1>9, <1>10, <1>11 DEF EnvNext

\* A step behind the completion gate succeeds only through a verifier call
\* that read the recorded contract at the present revision.
THEOREM GateHolds == EnvSpec => GateClosesByItsVerifier
<1>1. EnvInv /\ [EnvNext]_envVars =>
        [\A s \in Steps :
            CompletionRequired(s) /\ state'[s] = "succeeded" =>
              \E c \in Calls :
                /\ call[c] = [stage |-> "verifying", step |-> s, rev |-> revision]
                /\ evidence[s] = "contract"]_envVars
  BY GateStep
<1> QED
  BY <1>1, EnvInvariant, PTL DEF EnvSpec, GateClosesByItsVerifier

===========================================================================
