--------------------------- MODULE TaskExecution ---------------------------
(***************************************************************************)
(* The durable task store (src/runtime/task_store.py) executing            *)
(* run_process tasks through the Execution Runner: the worker that runs a  *)
(* task, the client that submits to the Runner (run_production_oneshot in  *)
(* src/execution/execution_runner_runtime.py) with its fallback            *)
(* (src/execution/execution_backend.py), cancellation, and the recovery of *)
(* a restarted server.                                                     *)
(*                                                                         *)
(* A request to the Runner may fail before or after the Runner handled it, *)
(* and has no timeout: deadlines are looked at between requests only, and  *)
(* may have passed whenever they are.  The database may refuse any write.  *)
(* A task's request id is the task.                                        *)
(***************************************************************************)
EXTENDS ExecutionRunner

CONSTANTS
    Repeatable,   \* tasks whose command evaluate_candidate_promotion calls fallback_safe
    NoTask,       \* no task holds the lock
    Workers,      \* max_workers of the store's executor
    MaxRestarts   \* bound on the server restarts explored

Tasks == Requests

ASSUME TaskAssumption ==
    /\ Repeatable \subseteq Tasks
    /\ NoTask \notin Tasks
    /\ Workers \in Nat \ {0}
    /\ MaxRestarts \in Nat

VARIABLES
    row,        \* Tasks -> status column, "none" before submit
    announced,  \* tasks with an execution_started event
    context,    \* Tasks -> its ExecutionContext: none, live or cancelled
    pc,         \* Tasks -> where its worker is
    bound,      \* Tasks -> the Runner instance its client works with
    canceller,  \* the task whose cancel() holds the store lock, or NoTask
    unwritten,  \* history: tasks whose last record this server could not write
    restarts

taskVars ==
    <<row, announced, context, pc, bound, canceller, unwritten, restarts>>
allVars == <<runnerVars, taskVars>>

TERMINAL == {"completed", "failed", "cancelled"}
RunPcs == {"begin", "announce", "ready", "submit1", "submit2", "poll", "asked",
           "indeterminate", "local", "localRunning", "ok", "bad"}
RecoverPcs == {"recover", "recoverAsked", "recovered", "recoverBad"}
Pcs == {"none", "job", "recoverJob", "leave"} \cup RunPcs \cup RecoverPcs

TypeOK ==
    /\ RunnerTypeOK
    /\ row \in [Tasks -> {"none", "queued", "running"} \cup TERMINAL]
    /\ announced \subseteq Tasks
    /\ context \in [Tasks -> {"none", "live", "cancelled"}]
    /\ pc \in [Tasks -> Pcs]
    /\ bound \in [Tasks -> 0..MaxInstances]
    /\ canceller \in Tasks \cup {NoTask}
    /\ unwritten \subseteq Tasks
    /\ restarts \in 0..MaxRestarts

Init ==
    /\ RunnerInit
    /\ row = [t \in Tasks |-> "none"]
    /\ announced = {}
    /\ context = [t \in Tasks |-> "none"]
    /\ pc = [t \in Tasks |-> "none"]
    /\ bound = [t \in Tasks |-> 0]
    /\ canceller = NoTask
    /\ unwritten = {}
    /\ restarts = 0

Unlocked == canceller = NoTask
Goto(t, where) == pc' = [pc EXCEPT ![t] = where]
Stay ==
    UNCHANGED <<announced, context, bound, canceller, unwritten, restarts>>

-----------------------------------------------------------------------------
(* submit() and _run() *)

\* A pool that refuses the job: the row is closed, or stays if that fails.
Submit(t) ==
    /\ Unlocked
    /\ row[t] = "none"
    /\ \/ /\ row' = [row EXCEPT ![t] = "queued"]
          /\ context' = [context EXCEPT ![t] = "live"]
          /\ Goto(t, "job")
          /\ UNCHANGED unwritten
       \/ /\ row' = [row EXCEPT ![t] = "failed"]
          /\ UNCHANGED <<context, pc, unwritten>>
       \/ /\ row' = [row EXCEPT ![t] = "queued"]
          /\ unwritten' = unwritten \cup {t}
          /\ UNCHANGED <<context, pc>>
    /\ UNCHANGED <<runnerVars, announced, bound, canceller, restarts>>

WorkerFree == Cardinality({t \in Tasks : pc[t] \notin {"none", "job", "recoverJob"}}) < Workers

\* Mutant: the worker does not look at the status of the row it was queued for.
TakeAnyJob(t) ==
    /\ Unlocked
    /\ pc[t] = "job"
    /\ WorkerFree
    /\ row' = [row EXCEPT ![t] = "running"]
    /\ Goto(t, "begin")
    /\ UNCHANGED <<runnerVars, announced, context, bound, canceller, unwritten, restarts>>

\* Reading the row, or the update, may fail as well.
TakeJob(t) ==
    /\ Unlocked
    /\ pc[t] = "job"
    /\ WorkerFree
    /\ \/ /\ row[t] # "queued"
          /\ Goto(t, "leave")
          /\ UNCHANGED row
       \/ /\ row[t] = "queued"
          /\ row' = [row EXCEPT ![t] = "running"]
          /\ Goto(t, "begin")
       \/ Goto(t, "bad") /\ UNCHANGED row
    /\ UNCHANGED <<runnerVars, announced, context, bound, canceller, unwritten, restarts>>

\* context.check(), then the tool's own validation, up to run_oneshot.
Check(t) ==
    /\ pc[t] = "begin"
    /\ \/ Goto(t, "bad")
       \/ context[t] = "live" /\ Goto(t, "announce")
    /\ UNCHANGED <<runnerVars, row>> /\ Stay

\* run_oneshot records execution_started before it reaches any backend, and
\* reaches none when the event is refused.
Announce(t) ==
    /\ Unlocked
    /\ pc[t] = "announce"
    /\ \/ announced' = announced \cup {t} /\ Goto(t, "ready")
       \/ Goto(t, "bad") /\ UNCHANGED announced
    /\ UNCHANGED <<runnerVars, row, context, bound, canceller, unwritten, restarts>>

Verdict(t, good) ==
    IF context[t] = "cancelled" THEN "cancelled" ELSE IF good THEN "completed" ELSE "failed"

\* The terminal record, written or refused.  A refusal leads to the exception
\* path; refused there too, it is swallowed and the worker leaves.
Closing(t, status, exception) ==
    \/ /\ row' = [row EXCEPT ![t] = status]
       /\ Goto(t, "leave")
       /\ UNCHANGED unwritten
    \/ /\ pc[t] # exception
       /\ Goto(t, exception)
       /\ UNCHANGED <<row, unwritten>>
    \/ /\ pc[t] = exception
       /\ Goto(t, "leave")
       /\ unwritten' = unwritten \cup {t}
       /\ UNCHANGED row

\* Mutant: the worker leaves the last word on a cancelled task to cancel().
FinishUnlessCancelled(t) ==
    /\ Unlocked
    /\ pc[t] \in {"ok", "bad"}
    /\ row' = [row EXCEPT ![t] = IF context[t] = "cancelled" THEN @ ELSE Verdict(t, pc[t] = "ok")]
    /\ Goto(t, "leave")
    /\ UNCHANGED runnerVars /\ Stay

Finish(t) ==
    /\ Unlocked
    /\ pc[t] \in {"ok", "bad"}
    /\ Closing(t, Verdict(t, pc[t] = "ok"), "bad")
    /\ UNCHANGED <<runnerVars, announced, context, bound, canceller, restarts>>

\* The finally block: the context is dropped, the client's variables are gone
\* and the thread is free again.
Leave(t) ==
    /\ Unlocked
    /\ pc[t] = "leave"
    /\ context' = [context EXCEPT ![t] = "none"]
    /\ bound' = [bound EXCEPT ![t] = 0]
    /\ Goto(t, "none")
    /\ UNCHANGED <<runnerVars, row, announced, canceller, unwritten, restarts>>

-----------------------------------------------------------------------------
(* run_production_oneshot() and its fallback *)

\* The Runner whose identity the client saw still serves.
SameRunner(t) == up /\ instance = bound[t]

\* A request that fails although its Runner is there: whether it was handled
\* is not known.  Nobody can count on it, least of all with a mute Runner.
RequestLost(t) ==
    /\ up
    /\ \/ pc[t] = "ready" /\ Goto(t, "local")
       \/ pc[t] = "submit1" /\ SameRunner(t) /\ Goto(t, "submit2")
       \/ pc[t] = "submit2" /\ SameRunner(t) /\ Goto(t, "indeterminate")
       \/ pc[t] = "asked" /\ Goto(t, "poll")
       \/ pc[t] = "recoverAsked" /\ Goto(t, "recoverBad")
    /\ UNCHANGED <<runnerVars, row>> /\ Stay

\* _production_ready_state: a ping, unless no Runner is recorded.
FindRunner(t) ==
    /\ pc[t] = "ready"
    /\ \/ /\ Answering
          /\ bound' = [bound EXCEPT ![t] = instance]
          /\ Goto(t, "submit1")
       \/ ~up /\ Goto(t, "local") /\ UNCHANGED bound
    /\ UNCHANGED <<runnerVars, row, announced, context, canceller, unwritten, restarts>>

AfterSubmit(reply) ==
    CASE reply \in {"accepted", "running"} -> "poll"
      [] reply = "completed" -> "ok"
      [] OTHER -> "bad"

\* Two attempts with one request id; the second may find the first's record.
\* The Runner's answer may be lost.
SubmitToRunner(t) ==
    /\ pc[t] \in {"submit1", "submit2"}
    /\ SameRunner(t)
    /\ \E reply \in Replies :
        /\ HandleSubmit(t, reply)
        /\ \/ Goto(t, AfterSubmit(reply))
           \/ Goto(t, IF pc[t] = "submit1" THEN "submit2" ELSE "indeterminate")
    /\ UNCHANGED row /\ Stay

\* Mutant: a changed Runner is taken for one that was never reached.
RunnerChangedIsUnavailable(t) ==
    /\ pc[t] \in {"submit1", "submit2", "poll", "asked"}
    /\ ~SameRunner(t)
    /\ Goto(t, "local")
    /\ UNCHANGED <<runnerVars, row>> /\ Stay

\* Before the first attempt nothing can have been executed; after it, it may.
\* An outstanding request ends with the Runner it was sent to.
RunnerChanged(t) ==
    /\ pc[t] \in {"submit1", "submit2", "poll", "asked"}
    /\ ~SameRunner(t)
    /\ Goto(t, IF pc[t] = "submit1" THEN "local" ELSE "indeterminate")
    /\ UNCHANGED <<runnerVars, row>> /\ Stay

AfterPoll(reply) ==
    CASE reply = "running" -> "poll"
      [] reply = "completed" -> "ok"
      [] reply = "unknown" -> "indeterminate"
      [] OTHER -> "bad"

\* One turn of the polling loop sends a request and waits for the answer, ...
AskResult(t) ==
    /\ pc[t] = "poll"
    /\ SameRunner(t)
    /\ Goto(t, "asked")
    /\ UNCHANGED <<runnerVars, row>> /\ Stay

Poll(t) ==
    /\ pc[t] = "asked"
    /\ SameRunner(t)
    /\ \E reply \in Replies :
        /\ HandleResult(t, reply)
        /\ Goto(t, AfterPoll(reply)) \/ Goto(t, "poll")
    /\ UNCHANGED row /\ Stay

\* ... and only before it sends the next one it looks at the clock.
PollDeadline(t) ==
    /\ pc[t] = "poll"
    /\ Goto(t, "indeterminate")
    /\ UNCHANGED <<runnerVars, row>> /\ Stay

Fallback(t) ==
    /\ pc[t] = "indeterminate"
    /\ Goto(t, IF t \in Repeatable THEN "local" ELSE "bad")
    /\ UNCHANGED <<runnerVars, row>> /\ Stay

\* The in-process backend: Popen and context.register, which kills the child
\* of a cancelled context.
RunLocally(t) ==
    /\ pc[t] = "local"
    /\ \/ Goto(t, "bad") /\ UNCHANGED launches
       \/ /\ launches' = [launches EXCEPT ![t] = @ + 1]
          /\ Goto(t, "localRunning")
    /\ UNCHANGED <<up, mute, instance, ledger, exec, answer, collected, cancelAsked, live, row>>
    /\ Stay

LocalExit(t) ==
    /\ pc[t] = "localRunning"
    /\ Goto(t, "ok") \/ Goto(t, "bad")
    /\ UNCHANGED <<runnerVars, row>> /\ Stay

-----------------------------------------------------------------------------
(* cancel(): one call under the store lock, which it holds while the Runner   *)
(* is asked.                                                                  *)

Cancellable(t) == row[t] \in {"queued", "running"} /\ context[t] # "none"

\* Once the Runner was asked, or need not be: the context is signalled and a
\* queued row closed, unless that write is refused, or an event before it.
Signal(t) ==
    /\ \/ /\ context' = [context EXCEPT ![t] = "cancelled"]
          /\ \/ row' = [row EXCEPT ![t] = IF @ = "queued" THEN "cancelled" ELSE @]
             \/ UNCHANGED row
       \/ UNCHANGED <<context, row>>
    /\ canceller' = NoTask
    /\ UNCHANGED <<announced, pc, bound, unwritten, restarts>>

\* A task that announced no execution is nothing the Runner could know.
Cancel(t) ==
    /\ Unlocked
    /\ Cancellable(t)
    /\ \/ t \notin announced /\ Signal(t)
       \/ /\ t \in announced
          /\ canceller' = t
          /\ UNCHANGED <<row, announced, context, pc, bound, unwritten, restarts>>
    /\ UNCHANGED runnerVars

\* Forwards to whatever Runner serves, and goes on when it has answered.
CancelDeliver(t) ==
    /\ canceller = t
    /\ HandleCancel(t) \/ (~up /\ UNCHANGED runnerVars)
    /\ Signal(t)

\* The request fails, or its answer is lost, although a Runner is there.
CancelLost(t) ==
    /\ canceller = t
    /\ up
    /\ UNCHANGED runnerVars
    /\ Signal(t)

-----------------------------------------------------------------------------
(* The next owner of the database: _ensure() and _recover_production_task().  *)

Recoverable(t) == row[t] = "running" /\ t \in announced

Restart ==
    /\ restarts < MaxRestarts
    /\ restarts' = restarts + 1
    /\ row' = [t \in Tasks |->
            IF row[t] \in {"queued", "running"} /\ ~Recoverable(t) THEN "failed" ELSE row[t]]
    /\ context' = [t \in Tasks |-> IF Recoverable(t) THEN "live" ELSE "none"]
    /\ pc' = [t \in Tasks |-> IF Recoverable(t) THEN "recoverJob" ELSE "none"]
    /\ bound' = [t \in Tasks |-> 0]
    /\ canceller' = NoTask
    /\ unwritten' = {}
    /\ UNCHANGED <<runnerVars, announced>>

TakeRecovery(t) ==
    /\ Unlocked
    /\ pc[t] = "recoverJob"
    /\ WorkerFree
    /\ Goto(t, "recover")
    /\ UNCHANGED <<runnerVars, row>> /\ Stay

AfterRecoveryPoll(reply) ==
    CASE reply = "running" -> "recover"
      [] reply = "completed" -> "recovered"
      [] OTHER -> "recoverBad"

\* Any Runner that serves is asked, ...
AskRecovered(t) ==
    /\ pc[t] = "recover"
    /\ context[t] = "live"
    /\ Goto(t, "recoverAsked")
    /\ UNCHANGED <<runnerVars, row>> /\ Stay

\* ... one that is gone or gives an unusable answer fails the recovery, ...
RecoveryPoll(t) ==
    /\ pc[t] = "recoverAsked"
    /\ \/ \E reply \in Replies :
            /\ HandleResult(t, reply)
            /\ Goto(t, AfterRecoveryPoll(reply)) \/ Goto(t, "recoverBad")
       \/ ~up /\ Goto(t, "recoverBad") /\ UNCHANGED runnerVars
    /\ UNCHANGED row /\ Stay

\* Mutant: the recovery has no deadline.
RecoveryUntilCancelled(t) ==
    /\ pc[t] = "recover"
    /\ context[t] = "cancelled"
    /\ Goto(t, "recoverBad")
    /\ UNCHANGED <<runnerVars, row>> /\ Stay

\* ... and so do a cancellation and the deadline, both seen between requests,
\* and an event that is refused.
RecoveryEnds(t) ==
    /\ pc[t] = "recover"
    /\ Goto(t, "recoverBad")
    /\ UNCHANGED <<runnerVars, row>> /\ Stay

\* A recovered result is written as completed, whatever was cancelled since.
FinishRecovery(t) ==
    /\ Unlocked
    /\ pc[t] \in {"recovered", "recoverBad"}
    /\ Closing(t, IF pc[t] = "recovered" THEN "completed" ELSE Verdict(t, FALSE), "recoverBad")
    /\ UNCHANGED <<runnerVars, announced, context, bound, canceller, restarts>>

-----------------------------------------------------------------------------
Work(t) ==
    \/ TakeJob(t) \/ Check(t) \/ Announce(t) \/ Finish(t) \/ Leave(t)
    \/ FindRunner(t) \/ SubmitToRunner(t) \/ RunnerChanged(t) \/ PollDeadline(t)
    \/ Fallback(t) \/ RunLocally(t) \/ LocalExit(t)
    \/ TakeRecovery(t) \/ RecoveryEnds(t) \/ FinishRecovery(t)

Exchange(t) == AskResult(t) \/ Poll(t) \/ AskRecovered(t) \/ RecoveryPoll(t)

Cancelling(t) == Cancel(t) \/ CancelDeliver(t) \/ CancelLost(t)

Next ==
    \/ \E t \in Tasks :
        Submit(t) \/ Cancelling(t) \/ Work(t) \/ Exchange(t) \/ RequestLost(t)
    \/ Restart
    \/ RunnerStep /\ UNCHANGED taskVars

\* Some thread of the pool that can go on does, deadlines pass, and the store
\* lock is got in the end (strong fairness: cancel() takes it in between).  Who
\* waits for an answer goes on when the Runner is there and answers, or is gone;
\* with a mute Runner that is not enabled.  No Runner, client or caller has to
\* do anything.
Fairness ==
    /\ SF_allVars(\E t \in Tasks : Work(t))
    /\ WF_allVars(\E t \in Tasks : Exchange(t))
    /\ WF_allVars(\E t \in Tasks : CancelDeliver(t))

Spec == Init /\ [][Next]_allVars /\ Fairness

-----------------------------------------------------------------------------
(* "callers must not blindly execute it again" (RunnerExecutionIndeterminate): *)
(* through lost acknowledgements, retries, Runner and server restarts a       *)
(* command that is not repeatable is started at most once.                    *)
AtMostOnce == \A t \in Tasks \ Repeatable : launches[t] <= 1

(* get() answers an open row without a context by "Worker stopped without     *)
(* persisting a terminal record; restart recovery required".  That is the     *)
(* only way there: every other open row is owned, so that cancel_task reaches *)
(* it, and after a restart all of them are.                                   *)
OpenTasksAreOwned ==
    \A t \in Tasks :
        row[t] \in {"queued", "running"} /\ context[t] = "none" => t \in unwritten

(* A terminal record is final: no late worker, cancellation or recovery       *)
(* rewrites it ("Repeated cancellation ... returns the unchanged record").    *)
TerminalIsFinal ==
    [][\A t \in Tasks : row[t] \in TERMINAL => row'[t] = row[t]]_allVars

(* Every accepted task ends, through deaths of the Runner and restarts of the *)
(* server, unless the database refuses the end.  The code waits for an answer *)
(* without a timeout, and holds the store lock while a cancellation waits, so *)
(* this is only so if a Runner that stops answering does not stay that way.   *)
EveryTaskEnds ==
    ([]<>~mute) =>
        \A t \in Tasks :
            row[t] \in {"queued", "running"} ~> row[t] \in TERMINAL \/ t \in unwritten

(* docs/architecture.md, Cancellation and process lifecycle: a running task   *)
(* "may remain running until the worker acknowledges cancellation and records *)
(* terminal cancelled".  A recovery that holds a result records completed.    *)
CancelledNeverCompletes ==
    [][\A t \in Tasks :
        context[t] = "cancelled" /\ row[t] = "running" => row'[t] # "completed"]_allVars
=============================================================================
