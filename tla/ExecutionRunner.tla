-------------------------- MODULE ExecutionRunner --------------------------
(***************************************************************************)
(* The out-of-process Execution Runner, src/execution/                     *)
(* execution_runner_service.py: one process that executes commands on a    *)
(* small thread pool and keeps a ledger of them by request id.  Its server *)
(* loop handles one connection at a time, so each request is one action;   *)
(* the pool's threads interleave with it.  The loop reads without a        *)
(* timeout (recv_bytes), so it may stop answering for as long as the       *)
(* process lives, while the pool goes on.                                  *)
(*                                                                         *)
(* A request id stands for one command: the fingerprint check never fails  *)
(* here.  The reply of a request is a parameter of its action, for the     *)
(* client that composes with this module to receive or to lose.            *)
(***************************************************************************)
EXTENDS Integers, Sequences, FiniteSets

CONSTANTS
    Requests,        \* execution request ids
    RunnerThreads,   \* max_workers of the Runner's executor
    MaxActive,       \* MAX_ACTIVE_EXECUTIONS
    MaxLedger,       \* MAX_EXECUTION_LEDGER
    MaxInstances     \* bound on the Runner processes started

ASSUME RunnerAssumption ==
    /\ RunnerThreads \in Nat \ {0}
    /\ MaxActive \in Nat \ {0}
    /\ MaxLedger \in Nat \ {0}
    /\ MaxInstances \in Nat \ {0}

VARIABLES
    up,           \* whether a Runner process serves
    mute,         \* whether its loop has stopped answering
    instance,     \* its identity: how many have been started
    ledger,       \* its records, oldest first
    exec,         \* Requests -> stage of the record's future
    answer,       \* Requests -> what a done future returned
    collected,    \* records whose result a request has read
    cancelAsked,  \* unfinished records with cancel_requested (later nothing reads it)
    live,         \* registered child processes that run
    launches      \* Requests -> how often the command was started, anywhere

runnerVars ==
    <<up, mute, instance, ledger, exec, answer, collected, cancelAsked, live, launches>>

Stages == {"absent", "waiting", "launching", "running", "done"}
Answers == {"none", "completed", "cancelled", "error"}
Replies == {"accepted", "running", "unknown"} \cup (Answers \ {"none"})

Records == {ledger[i] : i \in DOMAIN ledger}
Answering == up /\ ~mute
Active == {r \in Requests : exec[r] \in {"waiting", "launching", "running"}}

RunnerTypeOK ==
    /\ up \in BOOLEAN /\ mute \in BOOLEAN
    /\ mute => up
    /\ instance \in 0..MaxInstances
    /\ ledger \in Seq(Requests)
    /\ Cardinality(Records) = Len(ledger)
    /\ exec \in [Requests -> Stages]
    /\ Records = {r \in Requests : exec[r] # "absent"}
    /\ answer \in [Requests -> Answers]
    /\ collected \subseteq Requests
    /\ cancelAsked \subseteq Requests
    /\ live \subseteq Requests
    /\ launches \in [Requests -> Nat]

RunnerInit ==
    /\ up \in BOOLEAN /\ mute = FALSE
    /\ instance = IF up THEN 1 ELSE 0
    /\ ledger = <<>>
    /\ exec = [r \in Requests |-> "absent"]
    /\ answer = [r \in Requests |-> "none"]
    /\ collected = {} /\ cancelAsked = {} /\ live = {}
    /\ launches = [r \in Requests |-> 0]

-----------------------------------------------------------------------------
(* Requests *)

\* _collect_execution: a finished result is kept with the record for good.
Collect(r, reply) ==
    /\ r \in Records
    /\ reply = IF exec[r] = "done" THEN answer[r] ELSE "running"
    /\ collected' = IF exec[r] = "done" THEN collected \cup {r} ELSE collected

\* _prune_execution_ledger: of the records read, the oldest beyond the limit.
Pruned(q) ==
    LET Read == {i \in DOMAIN q : q[i] \in collected}
        Older(i) == {j \in Read : j <= i}
    IN  {q[i] : i \in {i \in Read : Cardinality(Older(i)) <= Len(q) - MaxLedger}}

\* What deleting the records of gone leaves of q, in its order.
Without(q, gone) ==
    LET kept[i \in 0..Len(q)] ==
          IF i = 0 THEN <<>>
          ELSE IF q[i] \in gone THEN kept[i - 1] ELSE Append(kept[i - 1], q[i])
    IN  kept[Len(q)]

NewRecord(r) ==
    LET q == Append(ledger, r)
        gone == Pruned(q)
    IN  /\ ledger' = Without(q, gone)
        /\ exec' = [x \in Requests |->
              IF x = r THEN "waiting" ELSE IF x \in gone THEN "absent" ELSE exec[x]]
        /\ answer' = [x \in Requests |-> IF x \in gone \cup {r} THEN "none" ELSE answer[x]]
        /\ collected' = collected \ (gone \cup {r})
        /\ cancelAsked' = cancelAsked \ (gone \cup {r})

\* Mutant: every submission gets a record of its own, known id or not.
HandleSubmitAnew(r, reply) ==
    /\ Answering
    /\ Cardinality(Active) < MaxActive
    /\ reply = "accepted"
    /\ ledger' = Append(ledger, r)
    /\ exec' = [exec EXCEPT ![r] = "waiting"]
    /\ UNCHANGED <<up, mute, instance, answer, collected, cancelAsked, live, launches>>

HandleSubmit(r, reply) ==
    /\ Answering
    /\ \/ /\ Collect(r, reply)
          /\ UNCHANGED <<ledger, exec, answer, cancelAsked>>
       \/ /\ r \notin Records
          /\ Cardinality(Active) >= MaxActive
          /\ reply = "error"
          /\ UNCHANGED <<ledger, exec, answer, collected, cancelAsked>>
       \/ /\ r \notin Records
          /\ Cardinality(Active) < MaxActive
          /\ reply = "accepted"
          /\ NewRecord(r)
    /\ UNCHANGED <<up, mute, instance, live, launches>>

HandleResult(r, reply) ==
    /\ Answering
    /\ \/ Collect(r, reply)
       \/ r \notin Records /\ reply = "unknown" /\ UNCHANGED collected
    /\ UNCHANGED <<up, mute, instance, ledger, exec, answer, cancelAsked, live, launches>>

\* _cancel_execution: kills the child that is registered by then.
HandleCancel(r) ==
    /\ Answering
    /\ IF r \in Active
       THEN cancelAsked' = cancelAsked \cup {r} /\ live' = live \ {r}
       ELSE UNCHANGED <<cancelAsked, live>>
    /\ UNCHANGED <<up, mute, instance, ledger, exec, answer, collected, launches>>

-----------------------------------------------------------------------------
(* _run_resolved on a pool thread *)

Done(r, a) ==
    /\ exec' = [exec EXCEPT ![r] = "done"]
    /\ answer' = [answer EXCEPT ![r] = a]
    /\ cancelAsked' = cancelAsked \ {r}

Busy == {r \in Requests : exec[r] \in {"launching", "running"}}

\* A thread takes the record; validation may reject it, and a cancellation
\* that came first ends it without a child.
Begin(r) ==
    /\ exec[r] = "waiting"
    /\ Cardinality(Busy) < RunnerThreads
    /\ \/ Done(r, "error")
       \/ r \in cancelAsked /\ Done(r, "cancelled")
       \/ /\ r \notin cancelAsked
          /\ exec' = [exec EXCEPT ![r] = "launching"]
          /\ UNCHANGED <<answer, cancelAsked>>
    /\ UNCHANGED <<up, mute, instance, ledger, collected, live, launches>>

\* Mutant: the child is registered without a second look at cancel_requested.
LaunchUnchecked(r) ==
    /\ exec[r] = "launching"
    /\ exec' = [exec EXCEPT ![r] = "running"]
    /\ live' = live \cup {r}
    /\ launches' = [launches EXCEPT ![r] = @ + 1]
    /\ UNCHANGED <<up, mute, instance, ledger, answer, collected, cancelAsked>>

\* Popen, then registration under the record's lock: a child whose
\* cancellation came in between is terminated there.
Launch(r) ==
    /\ exec[r] = "launching"
    /\ \/ /\ Done(r, "error")
          /\ UNCHANGED <<live, launches>>
       \/ /\ exec' = [exec EXCEPT ![r] = "running"]
          /\ live' = IF r \in cancelAsked THEN live ELSE live \cup {r}
          /\ launches' = [launches EXCEPT ![r] = @ + 1]
          /\ UNCHANGED <<answer, cancelAsked>>
    /\ UNCHANGED <<up, mute, instance, ledger, collected>>

\* The child ended by itself, by its timeout (which answers completed even
\* when cancelled) or by a kill.
Exit(r) ==
    /\ exec[r] = "running"
    /\ \/ Done(r, "completed")
       \/ r \in cancelAsked /\ Done(r, "cancelled")
    /\ live' = live \ {r}
    /\ UNCHANGED <<up, mute, instance, ledger, collected, launches>>

-----------------------------------------------------------------------------
(* The process: a crash at any time, a loop that is stuck in an exchange with *)
(* one peer, a shutdown on request and only when nothing is active, and a     *)
(* start, always with an empty ledger.                                        *)

Gone ==
    /\ up' = FALSE /\ mute' = FALSE
    /\ ledger' = <<>>
    /\ exec' = [r \in Requests |-> "absent"]
    /\ answer' = [r \in Requests |-> "none"]
    /\ collected' = {} /\ cancelAsked' = {} /\ live' = {}
    /\ UNCHANGED <<instance, launches>>

RunnerCrash == up /\ Gone

RunnerMute ==
    /\ Answering
    /\ mute' = TRUE
    /\ UNCHANGED <<up, instance, ledger, exec, answer, collected, cancelAsked, live, launches>>

RunnerShutdown == Answering /\ Active = {} /\ Gone

RunnerStart ==
    /\ ~up
    /\ instance < MaxInstances
    /\ up' = TRUE
    /\ instance' = instance + 1
    /\ UNCHANGED <<mute, ledger, exec, answer, collected, cancelAsked, live, launches>>

RunnerStep ==
    \/ \E r \in Requests : Begin(r) \/ Launch(r) \/ Exit(r)
    \/ RunnerMute
    \/ RunnerCrash
    \/ RunnerShutdown
    \/ RunnerStart

-----------------------------------------------------------------------------
(* README ("terminates only the child tree owned by" the request): once the  *)
(* Runner has taken a cancellation, the record's child does not run on, in   *)
(* whichever order the cancellation and the launch came.  And results wait   *)
(* for their reader: a record leaves the ledger only after its result was    *)
(* read, so at its limit the Runner forgets no unread result and no running  *)
(* command.                                                                  *)
RunnerKeepsItsWord ==
    /\ [](live \cap cancelAsked = {})
    /\ [][up /\ up' => \A r \in Records : r \notin collected => exec'[r] # "absent"]_runnerVars
=============================================================================
