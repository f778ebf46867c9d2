--------------------------- MODULE RuntimeRestart ---------------------------
(***************************************************************************)
(* Restarting the HTTP runtime: the runtime queues a request against its   *)
(* own process (src/runtime/runtime_lifecycle.py), the lifecycle broker    *)
(* takes the oldest one, waits out its grace time and runs a script        *)
(* (src/runtime/runtime_lifecycle_broker.py, restart_pla.ps1) that checks  *)
(* who listens, stops it, waits for the port and starts another.  Runtime, *)
(* broker and script die on their own, and a script outlives its broker.   *)
(***************************************************************************)
EXTENDS Naturals, FiniteSets

CONSTANTS
    MaxRequests,   \* bound on restart requests, numbered in order
    MaxRuntimes    \* bound on runtime processes, numbered as they start

ASSUME RestartAssumption == MaxRequests \in Nat \ {0} /\ MaxRuntimes \in Nat \ {0}

Requests == 1..MaxRequests
NoRuntime == 0

VARIABLES
    listening,  \* runtime process that has the port, or NoRuntime
    spawned,    \* start_http processes that have not bound the port yet
    started,    \* runtime processes started so far
    expected,   \* request -> process that asked, NoRuntime before it is made
    onDisk,     \* requests whose request file exists
    restartStatus,     \* request -> state in its status file
    script,     \* request -> where its script stands
    runs,       \* request -> times its script was run
    oldPid,     \* request -> the listener its script saw and stops
    lifecycleBroker,     \* down, idle, delaying or watching
    current     \* request the broker works on, 0 when none

restartVars == <<listening, spawned, started, expected, onDisk, restartStatus, script, runs, oldPid, lifecycleBroker, current>>
port == <<listening, spawned, started>>
files == <<expected, onDisk, restartStatus>>

RestartTypeOK ==
    /\ listening \in 0..MaxRuntimes /\ spawned \in 0..MaxRequests /\ started \in 0..MaxRuntimes
    /\ expected \in [Requests -> 0..MaxRuntimes]
    /\ onDisk \subseteq {n \in Requests : expected[n] # NoRuntime}
    /\ restartStatus \in [Requests -> {"none", "queued", "running", "completed", "failed"}]
    /\ script \in [Requests -> {"none", "looking", "stopping", "waiting", "starting", "failed", "done"}]
    /\ runs \in [Requests -> 0..2] /\ oldPid \in [Requests -> 0..MaxRuntimes]
    /\ lifecycleBroker \in {"down", "idle", "delaying", "watching"}
    /\ current \in 0..MaxRequests /\ (current = 0 <=> lifecycleBroker \in {"down", "idle"})

RestartInit ==
    /\ listening = 1 /\ spawned = 0 /\ started = 1 /\ onDisk = {}
    /\ expected = [n \in Requests |-> NoRuntime] /\ restartStatus = [n \in Requests |-> "none"]
    /\ script = [n \in Requests |-> "none"] /\ runs = [n \in Requests |-> 0]
    /\ oldPid = [n \in Requests |-> NoRuntime]
    /\ lifecycleBroker = "idle" /\ current = 0

-----------------------------------------------------------------------------
(* The runtime *)

\* lifecycle_status: only a broker whose file is fresh is ready.
BrokerBeats == lifecycleBroker # "down"

\* request_http_restart: the status file.
QueueRestart(n) ==
    /\ listening # NoRuntime /\ BrokerBeats /\ restartStatus[n] = "none"
    /\ \A m \in 1..(n - 1) : restartStatus[m] # "none"
    /\ restartStatus' = [restartStatus EXCEPT ![n] = "queued"]
    /\ expected' = [expected EXCEPT ![n] = listening]
    /\ UNCHANGED <<port, onDisk, script, runs, oldPid, lifecycleBroker, current>>

\* The request file commits it, if the runtime that asked is still there.
CommitRestart(n) ==
    /\ restartStatus[n] = "queued" /\ n \notin onDisk /\ runs[n] = 0 /\ expected[n] = listening
    /\ onDisk' = onDisk \cup {n}
    /\ UNCHANGED <<port, expected, restartStatus, script, runs, oldPid, lifecycleBroker, current>>

\* The process ends, stopped or by itself, and frees the port.
RuntimeGone ==
    /\ listening # NoRuntime /\ listening' = NoRuntime
    /\ UNCHANGED <<spawned, started, files, script, runs, oldPid, lifecycleBroker, current>>

-----------------------------------------------------------------------------
(* The broker *)

Waiting == {n \in onDisk : restartStatus[n] = "queued"}

\* The oldest queued request; one too old or not valid fails.
TakeRestart ==
    \E n \in Waiting :
        /\ lifecycleBroker = "idle" /\ \A m \in Waiting : n <= m
        /\ \/ lifecycleBroker' = "delaying" /\ current' = n /\ UNCHANGED <<restartStatus, onDisk>>
           \/ /\ restartStatus' = [restartStatus EXCEPT ![n] = "failed"] /\ onDisk' = onDisk \ {n}
              /\ UNCHANGED <<lifecycleBroker, current>>
        /\ UNCHANGED <<port, expected, script, runs, oldPid>>

\* After not_before: running is written before the script is run.
MarkRunning ==
    /\ lifecycleBroker = "delaying" /\ restartStatus[current] = "queued"
    /\ restartStatus' = [restartStatus EXCEPT ![current] = "running"]
    /\ UNCHANGED <<port, expected, onDisk, script, runs, oldPid, lifecycleBroker, current>>

MayRun == lifecycleBroker = "delaying" /\ restartStatus[current] = "running"

RunScript ==
    /\ MayRun /\ lifecycleBroker' = "watching"
    /\ runs' = [runs EXCEPT ![current] = @ + 1]
    /\ script' = [script EXCEPT ![current] = "looking"]
    /\ UNCHANGED <<port, files, oldPid, current>>

\* The script ended, or its 45 seconds are over and it is killed; the
\* request file goes either way.
FinishRestart ==
    LET end == IF script[current] = "done" THEN "completed" ELSE "failed" IN
    /\ lifecycleBroker = "watching" /\ lifecycleBroker' = "idle" /\ current' = 0
    /\ restartStatus' = [restartStatus EXCEPT ![current] = end]
    /\ onDisk' = onDisk \ {current}
    /\ script' = [script EXCEPT ![current] = IF @ = "done" THEN "done" ELSE "failed"]
    /\ UNCHANGED <<port, expected, runs, oldPid>>

BrokerDies ==
    /\ lifecycleBroker # "down" /\ lifecycleBroker' = "down" /\ current' = 0
    /\ UNCHANGED <<port, files, script, runs, oldPid>>

LifecycleBrokerStarts ==
    /\ lifecycleBroker = "down" /\ lifecycleBroker' = "idle"
    /\ UNCHANGED <<port, files, script, runs, oldPid, current>>

-----------------------------------------------------------------------------
(* The script *)

Step(n, from, to) == script[n] = from /\ script' = [script EXCEPT ![n] = to]

\* Mutant: the script takes any listener of this project.
MayStopAny(n) == listening # NoRuntime

\* Whom the script may stop: the listener, if it is the one that asked.
MayStop(n) == listening = expected[n]

Look(n) ==
    /\ Step(n, "looking", IF MayStop(n) THEN "stopping" ELSE "failed")
    /\ oldPid' = [oldPid EXCEPT ![n] = IF MayStop(n) THEN listening ELSE @]
    /\ UNCHANGED <<port, files, runs, lifecycleBroker, current>>

\* taskkill of the process seen, which ends some time after (RuntimeGone);
\* it may be refused while that process is there.
Stop(n) ==
    /\ \/ Step(n, "stopping", "waiting")
       \/ listening = oldPid[n] /\ Step(n, "stopping", "failed")
    /\ UNCHANGED <<port, files, runs, oldPid, lifecycleBroker, current>>

PortFree == listening = NoRuntime

\* The port is free and start_http is spawned, or it stays taken too long.
StartHttp(n) ==
    /\ Step(n, "waiting", IF PortFree THEN "starting" ELSE "failed")
    /\ spawned' = IF PortFree THEN spawned + 1 ELSE spawned
    /\ UNCHANGED <<listening, started, files, runs, oldPid, lifecycleBroker, current>>

\* A spawned start_http binds the port, or ends without it.
SpawnEnds ==
    /\ spawned > 0 /\ spawned' = spawned - 1
    /\ \/ /\ listening = NoRuntime /\ started < MaxRuntimes
          /\ started' = started + 1 /\ listening' = started + 1
       \/ UNCHANGED <<listening, started>>
    /\ UNCHANGED <<files, script, runs, oldPid, lifecycleBroker, current>>

\* Somebody listens, or nobody for twenty seconds.
SeeListener(n) ==
    /\ Step(n, "starting", IF listening # NoRuntime THEN "done" ELSE "failed")
    /\ UNCHANGED <<port, files, runs, oldPid, lifecycleBroker, current>>

RestartNext ==
    \/ \E n \in Requests :
          QueueRestart(n) \/ CommitRestart(n) \/ Look(n) \/ Stop(n)
          \/ StartHttp(n) \/ SeeListener(n)
    \/ RuntimeGone \/ SpawnEnds \/ TakeRestart \/ MarkRunning \/ RunScript \/ FinishRestart \/ BrokerDies \/ LifecycleBrokerStarts

RestartSpec == RestartInit /\ [][RestartNext]_restartVars

-----------------------------------------------------------------------------
(* Properties *)

RestartRequest == INSTANCE BrokerRequest WITH
    Tickets <- Requests,
    filed <- {n \in Requests : restartStatus[n] # "none"},
    begun <- runs,
    ending <- [n \in Requests |-> IF restartStatus[n] \in {"completed", "failed"} THEN restartStatus[n] ELSE "open"]

\* Whatever brokers die, a restart is one request and its script is run once.
\* Two restarts asked of one process do not both happen: the second would stop
\* the runtime, and the calls, that the first has just brought up.  And when a
\* restart is reported completed, the process that asked is gone.
RestartHappensOnce ==
    /\ RestartRequest!Spec
    /\ [](\A n \in Requests : restartStatus[n] = "completed" =>
              /\ listening # expected[n]
              /\ \A m \in Requests : restartStatus[m] = "completed" /\ expected[m] = expected[n] => m = n)
=============================================================================
