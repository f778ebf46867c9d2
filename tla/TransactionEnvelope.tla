------------------------ MODULE TransactionEnvelope ------------------------
(***************************************************************************)
(* src/transactions/transaction_action_envelope.py and the transaction     *)
(* tools of src/server.py over the TransactionStore: concurrent tool calls *)
(* run on one event loop and interleave where they await the broker.       *)
(*                                                                         *)
(* A call that a revision or a state check refuses ends with ValueError    *)
(* and no effect; a caller that does not know the current revision can     *)
(* only be refused, so callers here use the current one.  What is kept of  *)
(* a call is the revision it works with across its await.                  *)
(***************************************************************************)
EXTENDS TransactionStore

CONSTANTS Calls     \* the tool calls that may be in flight at once

VARIABLES
    call,       \* Calls -> [stage, step, rev]
    effects,    \* Steps -> how often the envelope ran the step's capability
    owed        \* steps whose capability returned a completion contract

envVars == <<vars, call, effects, owed>>

Stages == {"started", "dispatched", "verifying"}
Idle == [stage |-> "idle", step |-> NoStep, rev |-> 0]

EnvTypeOK ==
    /\ TypeOK
    /\ call \in [Calls -> [stage : Stages, step : Steps, rev : Nat \ {0}] \cup {Idle}]
    /\ effects \in [Steps -> Nat]
    /\ owed \subseteq Steps

EnvInit ==
    /\ Init
    /\ call = [c \in Calls |-> Idle]
    /\ effects = [s \in Steps |-> 0]
    /\ owed = {}

\* Mutant: a call that ends keeps its step and revision.
ReturnKeepsStep(c) == call' = [call EXCEPT ![c].stage = "idle"]

Return(c) == call' = [call EXCEPT ![c] = Idle]

-----------------------------------------------------------------------------
(* invoke_capability_in_transaction *)

\* Up to the await: the step is recorded as started before anything runs.
StartInvoke(c, s) ==
    /\ call[c] = Idle
    /\ Start(s, revision, "plain")
    /\ call' = [call EXCEPT ![c] = [stage |-> "started", step |-> s, rev |-> revision + 1]]
    /\ UNCHANGED <<effects, owed>>

\* The broker runs the capability.
Dispatch(c) ==
    /\ call[c].stage = "started"
    /\ effects' = [effects EXCEPT ![call[c].step] = @ + 1]
    /\ call' = [call EXCEPT ![c].stage = "dispatched"]
    /\ UNCHANGED <<vars, owed>>

Results ==
    {"ok", "failed", "raised", "cancelled", "pending", "contract", "bad_contract"}

\* The outcome the envelope checkpoints for what the broker returned; "none"
\* leaves the step running (for the caller to checkpoint, or because
\* CancelledError is no Exception).
OutcomeOf(result, kind) ==
    CASE result \in {"failed", "raised", "bad_contract"} -> "failed"
      [] result = "contract" -> "external_pending"
      [] result = "ok" /\ kind = "action" -> "succeeded"
      [] result = "ok" /\ kind = "rollback" -> "rolled_back"
      [] OTHER -> "none"

\* The checkpoint of an outcome with the revision the call has worked with; a
\* refused one raises out of the call and changes nothing.
Checkpoint(s, rev, outcome) ==
    IF ~Current(rev) \/ (outcome = "external_pending" /\ Kind[s] # "action")
    THEN UNCHANGED vars
    ELSE \/ outcome = "none" /\ UNCHANGED vars
         \/ outcome = "failed" /\ Fail(s, rev)
         \/ outcome = "external_pending" /\ ExternalPending(s, rev)
         \/ outcome = "succeeded" /\ Succeed(s, rev)
         \/ outcome = "rolled_back" /\ RollBack(s, rev)
         \/ outcome = "external_verified" /\ ExternalVerify(s, rev)

Finish(c, result) ==
    LET s == call[c].step IN
    /\ call[c].stage = "dispatched" \/ (call[c].stage = "started" /\ result = "raised")
    /\ Checkpoint(s, call[c].rev, OutcomeOf(result, Kind[s]))
    /\ owed' = IF result = "contract" THEN owed \cup {s} ELSE owed
    /\ Return(c)
    /\ UNCHANGED effects

-----------------------------------------------------------------------------
(* complete_external_capability_in_transaction *)

CompleteExternal(c, s) ==
    /\ call[c] = Idle
    /\ Kind[s] = "action"
    /\ state[s] = "running"
    /\ evidence[s] = "contract"
    /\ call' = [call EXCEPT ![c] = [stage |-> "verifying", step |-> s, rev |-> revision]]
    /\ UNCHANGED <<vars, effects, owed>>

\* "none" stands for pending, raised, unresolved and cancelled verifications.
VerifierOutcomes == {"external_verified", "failed", "none"}

\* Mutant: the verdict is checkpointed with the revision read after the await.
FinishVerifyAtLatest(c, outcome) ==
    /\ call[c].stage = "verifying"
    /\ Checkpoint(call[c].step, revision, outcome)
    /\ Return(c)
    /\ UNCHANGED <<effects, owed>>

FinishVerify(c, outcome) ==
    /\ call[c].stage = "verifying"
    /\ Checkpoint(call[c].step, call[c].rev, outcome)
    /\ Return(c)
    /\ UNCHANGED <<effects, owed>>

-----------------------------------------------------------------------------
(* transaction_checkpoint and transaction_finalize as tools: a caller may   *)
(* checkpoint any public outcome, and any evidence with started.            *)

ClientCheckpoint(s) ==
    /\ \/ \E ev \in Evidence : Start(s, revision, ev)
       \/ Succeed(s, revision)
       \/ Fail(s, revision)
       \/ Verify(s, revision)
       \/ RollBack(s, revision)
       \/ Skip(s, revision)
    /\ UNCHANGED <<call, effects, owed>>

ClientFinalize ==
    /\ Finalize(revision)
    /\ UNCHANGED <<call, effects, owed>>

\* The process dies with the calls in flight; the next one recovers the store.
RestartServer ==
    /\ Restart
    /\ call' = [c \in Calls |-> Idle]
    /\ UNCHANGED <<effects, owed>>

EnvNext ==
    \/ \E c \in Calls, s \in Steps : StartInvoke(c, s) \/ CompleteExternal(c, s)
    \/ \E c \in Calls : Dispatch(c)
    \/ \E c \in Calls, result \in Results : Finish(c, result)
    \/ \E c \in Calls, o \in VerifierOutcomes : FinishVerify(c, o)
    \/ \E s \in Steps : ClientCheckpoint(s)
    \/ ClientFinalize
    \/ RestartServer

EnvSpec == EnvInit /\ [][EnvNext]_envVars

-----------------------------------------------------------------------------
(* "The action envelope invokes exactly one" capability (docs/v1_overview): *)
(* whatever the callers interleave, and across restarts, a step's           *)
(* capability runs at most once.                                            *)
AtMostOneDispatch == \A s \in Steps : effects[s] <= 1

(* Write-ahead: a capability that ran belongs to a step the durable record  *)
(* shows as begun, so no crash leaves an effect behind a step that still    *)
(* looks pending or was skipped, and a retry of it is refused.              *)
EffectsAreRecorded ==
    \A s \in Steps : effects[s] > 0 => state[s] \notin {"pending", "skipped"}

(* The External Completion Gate (docs/release_v1.6.0.md): a step whose      *)
(* record requires an external completion succeeds only through a verifier  *)
(* call that read that record at the present revision.                      *)
GateClosesByItsVerifier ==
    [][\A s \in Steps :
        CompletionRequired(s) /\ state'[s] = "succeeded" =>
            \E c \in Calls : /\ call[c] = [stage |-> "verifying", step |-> s, rev |-> revision]
                             /\ evidence[s] = "contract"]_envVars

(* docs/release_v1.6.0.md, External Completion Gate, item 4: "prevents      *)
(* ordinary `succeeded` checkpoints from bypassing the completion           *)
(* requirement".  Once a capability has returned a completion contract, its *)
(* step succeeds only through a verifier call.  The code keeps this only    *)
(* when no other checkpoint lands while the capability runs.                *)
GateNotBypassed ==
    [][\A s \in Steps :
        s \in owed /\ state[s] # "succeeded" /\ state'[s] = "succeeded" =>
            \E c \in Calls : call[c].stage = "verifying" /\ call[c].step = s]_envVars
=============================================================================
