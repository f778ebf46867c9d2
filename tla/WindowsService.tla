--------------------------- MODULE WindowsService ---------------------------
(***************************************************************************)
(* Starting and stopping a Windows service: windows_action_capabilities.py *)
(* checks it and queues a request, the broker of the desktop               *)
(* (interactive_elevation_broker.py) starts an elevated worker for it, the *)
(* worker checks again, acts and writes a result file, and the client asks *)
(* for the outcome.  The same module restarts the broker.                  *)
(*                                                                         *)
(* ElevationBroker follows installers through the same broker; here there  *)
(* is one live broker at most (its mutex, shown there), known by its pid,  *)
(* and its heartbeat file, which ages while the broker waits or is dead.   *)
(***************************************************************************)
EXTENDS Naturals

CONSTANTS
    MaxServiceCalls,   \* bound on service_control calls that queue a request
    MaxBrokers,        \* bound on brokers started, numbered by pid
    MaxUserChanges     \* bound on what others do to the service

ASSUME ServiceAssumption ==
    {MaxServiceCalls, MaxBrokers} \subseteq Nat \ {0} /\ MaxUserChanges \in Nat

VARIABLES
    service,           \* status, disabled, has active dependents
    userChanges,       \* changes others made so far
    operation,         \* call -> operation of its request file, none without one
    callState,         \* call -> state in its status file, none without one
    exitCode,          \* call -> return code in it
    worker,            \* call -> step of its elevated worker
    resultFile,        \* call -> AfterStatus in its result file, none without one
    answered,          \* call -> what service_control_status said last
    broker,            \* pid of the live broker, 0 when none
    brokerStep,        \* idle, asking, started or waiting
    brokerCall,        \* call it is about, 0 when none
    brokers,           \* brokers started so far
    heartbeat,         \* broker_status.json: pid, call named in it, not yet old
    restart            \* restart_elevation_broker: step, pid it stops, pid it returned

serviceSide == <<service, userChanges>>
callSide == <<operation, callState, exitCode, worker, resultFile, answered>>
brokerSide == <<broker, brokerStep, brokerCall, brokers, heartbeat>>
serviceVars == <<serviceSide, callSide, brokerSide, restart>>

Calls == 1..MaxServiceCalls
Operations == {"start", "stop", "restart"}
Statuses == {"Running", "Stopped", "Pending"}
NoHeartbeat == [pid |-> 0, call |-> 0, fresh |-> FALSE]
NotRestarting == [at |-> "none", old |-> 0, new |-> 0]

ServiceTypeOK ==
    /\ service \in [status : Statuses, disabled : BOOLEAN, dependents : BOOLEAN]
    /\ userChanges \in 0..MaxUserChanges
    /\ operation \in [Calls -> Operations \cup {"none"}]
    /\ callState \in [Calls -> {"none", "queued", "requesting_elevation", "running",
                                "completed", "failed", "timeout"}]
    /\ exitCode \in [Calls -> 0..1]
    /\ worker \in [Calls -> {"none", "checking", "acting", "reading", "done", "bad"}]
    /\ resultFile \in [Calls -> Statuses \cup {"none"}]
    /\ answered \in [Calls -> {"none", "queued", "requesting_elevation", "running", "completed", "failed",
                               "timeout", "result_missing", "result_mismatch"}]
    /\ broker \in 0..MaxBrokers /\ brokers \in 0..MaxBrokers /\ brokerCall \in 0..MaxServiceCalls
    /\ brokerStep \in {"idle", "asking", "started", "waiting"}
    /\ heartbeat \in [pid : 0..MaxBrokers, call : 0..MaxServiceCalls, fresh : BOOLEAN]
    /\ restart \in [at : {"none", "stopping", "starting", "waiting", "completed", "failed"},
                    old : 0..MaxBrokers, new : 0..MaxBrokers]
    /\ brokerStep = "idle" <=> brokerCall = 0
    /\ broker = 0 => brokerCall = 0

ServiceInit ==
    /\ service = [status |-> "Stopped", disabled |-> FALSE, dependents |-> FALSE] /\ userChanges = 0
    /\ operation = [n \in Calls |-> "none"] /\ callState = [n \in Calls |-> "none"]
    /\ exitCode = [n \in Calls |-> 0] /\ worker = [n \in Calls |-> "none"]
    /\ resultFile = [n \in Calls |-> "none"] /\ answered = [n \in Calls |-> "none"]
    /\ broker = 1 /\ brokers = 1 /\ brokerStep = "idle" /\ brokerCall = 0
    /\ heartbeat = [pid |-> 1, call |-> 0, fresh |-> TRUE] /\ restart = NotRestarting

-----------------------------------------------------------------------------
(* The capabilities *)

\* A service that can be stopped; another one is a blocker that never goes.
Blocked(o) ==
    \/ service.status = "Pending"
    \/ o \in {"start", "restart"} /\ service.disabled
    \/ o \in {"stop", "restart"} /\ service.dependents

BrokerReady == heartbeat.pid # 0 /\ heartbeat.fresh

\* service_control: every check reads, then the request file is written.
QueueService(n, o) ==
    /\ operation[n] = "none" /\ \A m \in 1..(n - 1) : operation[m] # "none"
    /\ ~Blocked(o) /\ BrokerReady /\ heartbeat.call = 0
    /\ operation' = [operation EXCEPT ![n] = o]
    /\ UNCHANGED <<serviceSide, callState, exitCode, worker, resultFile, answered, brokerSide, restart>>

QueueServiceStatus(n) ==
    /\ operation[n] # "none" /\ callState[n] = "none"
    /\ callState' = [callState EXCEPT ![n] = "queued"]
    /\ UNCHANGED <<serviceSide, operation, exitCode, worker, resultFile, answered, brokerSide, restart>>

Expected(o) == IF o = "stop" THEN "Stopped" ELSE "Running"

\* Mutant: the return code says it all.
OutcomeOfByCode(n) ==
    IF callState[n] # "completed" THEN callState[n] ELSE IF exitCode[n] # 0 THEN "failed" ELSE "completed"

\* service_control_status.
OutcomeOf(n) ==
    CASE callState[n] # "completed" -> callState[n]
      [] callState[n] = "completed" /\ exitCode[n] # 0 -> "failed"
      [] OTHER -> IF resultFile[n] = "none" THEN "result_missing"
                  ELSE IF resultFile[n] = Expected(operation[n]) THEN "completed" ELSE "result_mismatch"

AskService(n) ==
    /\ callState[n] # "none" /\ answered' = [answered EXCEPT ![n] = OutcomeOf(n)]
    /\ UNCHANGED <<serviceSide, operation, callState, exitCode, worker, resultFile, brokerSide, restart>>

-----------------------------------------------------------------------------
(* Restarting the broker *)

\* Busy is what the heartbeat file says; a stop follows some reads later.
BeginRestart ==
    /\ restart.at \in {"none", "completed", "failed"} /\ brokers < MaxBrokers
    /\ BrokerReady /\ heartbeat.call = 0 /\ heartbeat.pid = broker
    /\ restart' = [at |-> "stopping", old |-> heartbeat.pid, new |-> 0]
    /\ UNCHANGED <<serviceSide, callSide, brokerSide>>

StopBroker ==
    /\ restart.at = "stopping"
    /\ IF broker = restart.old
       THEN /\ broker' = 0 /\ brokerStep' = "idle" /\ brokerCall' = 0
            /\ restart' = [restart EXCEPT !.at = "starting"]
       ELSE restart' = [restart EXCEPT !.at = "failed"] /\ UNCHANGED <<broker, brokerStep, brokerCall>>
    /\ UNCHANGED <<serviceSide, callSide, brokers, heartbeat>>

\* The start script; a broker that finds the mutex taken ends at once.
StartBroker ==
    /\ restart.at = "starting" /\ restart' = [restart EXCEPT !.at = "waiting"]
    /\ UNCHANGED <<serviceSide, callSide, brokerSide>>

\* Is the broker that answers another one, by its heartbeat and command line?
NewBroker == BrokerReady /\ heartbeat.pid # restart.old /\ heartbeat.pid = broker

\* At the deadline the start script is killed, with a broker it has started.
AwaitBroker ==
    /\ restart.at = "waiting"
    /\ \/ NewBroker /\ restart' = [restart EXCEPT !.at = "completed", !.new = heartbeat.pid]
          /\ UNCHANGED <<broker, brokerStep, brokerCall>>
       \/ /\ ~NewBroker /\ restart' = [restart EXCEPT !.at = "failed"]
          /\ \/ broker' = 0 /\ brokerStep' = "idle" /\ brokerCall' = 0
             \/ UNCHANGED <<broker, brokerStep, brokerCall>>
    /\ UNCHANGED <<serviceSide, callSide, brokers, heartbeat>>

-----------------------------------------------------------------------------
(* The broker and its worker *)

Beat(pid, call) == heartbeat' = [pid |-> pid, call |-> call, fresh |-> TRUE]

\* By the start script, of a restart or of the user.
BrokerComesUp ==
    /\ broker = 0 /\ brokers < MaxBrokers
    /\ broker' = brokers + 1 /\ brokers' = brokers + 1 /\ Beat(brokers + 1, 0)
    /\ UNCHANGED <<serviceSide, callSide, brokerStep, brokerCall, restart>>

BrokerBeats ==
    /\ broker # 0 /\ brokerStep = "idle" /\ Beat(broker, 0)
    /\ UNCHANGED <<serviceSide, callSide, broker, brokerStep, brokerCall, brokers, restart>>

HeartbeatAges ==
    /\ heartbeat.fresh /\ (broker # heartbeat.pid \/ brokerStep # "idle")
    /\ heartbeat' = [heartbeat EXCEPT !.fresh = FALSE]
    /\ UNCHANGED <<serviceSide, callSide, broker, brokerStep, brokerCall, brokers, restart>>

BrokerMoves(n, from, to, s) ==
    /\ broker # 0 /\ brokerStep = from /\ brokerStep' = to /\ broker' = broker
    /\ callState' = [callState EXCEPT ![n] = s]
    /\ brokerCall' = IF to = "idle" THEN 0 ELSE n

\* The policy no longer allows it: failed at once.
TakeService(n) ==
    /\ callState[n] = "queued" /\ \A m \in Calls : callState[m] = "queued" => n <= m
    /\ \/ BrokerMoves(n, "idle", "asking", "requesting_elevation") /\ Beat(broker, n)
       \/ BrokerMoves(n, "idle", "idle", "failed") /\ Beat(broker, 0)
    /\ UNCHANGED <<serviceSide, operation, exitCode, worker, resultFile, answered, brokers, restart>>

StartWorker(n) ==
    /\ brokerCall = n /\ BrokerMoves(n, "asking", "started", callState[n])
    /\ worker' = [worker EXCEPT ![n] = "checking"]
    /\ UNCHANGED <<serviceSide, operation, exitCode, resultFile, answered, brokers, heartbeat, restart>>

NoteWorker(n) ==
    /\ brokerCall = n /\ BrokerMoves(n, "started", "waiting", "running")
    /\ UNCHANGED <<serviceSide, operation, exitCode, worker, resultFile, answered, brokers, heartbeat, restart>>

\* The prompt is declined, or a status write fails.
GiveUp(n) ==
    /\ brokerCall = n /\ BrokerMoves(n, brokerStep, "idle", "failed") /\ Beat(broker, 0)
    /\ UNCHANGED <<serviceSide, operation, exitCode, worker, resultFile, answered, brokers, restart>>

\* The worker ended, or its minute is over and it goes on.
EndWait(n) ==
    /\ brokerCall = n
    /\ BrokerMoves(n, "waiting", "idle", IF worker[n] \in {"done", "bad"} THEN "completed" ELSE "timeout")
    /\ exitCode' = [exitCode EXCEPT ![n] = IF worker[n] = "bad" THEN 1 ELSE 0]
    /\ Beat(broker, 0)
    /\ UNCHANGED <<serviceSide, operation, worker, resultFile, answered, brokers, restart>>

BrokerStops ==
    /\ broker # 0 /\ broker' = 0 /\ brokerStep' = "idle" /\ brokerCall' = 0
    /\ UNCHANGED <<serviceSide, callSide, brokers, heartbeat, restart>>

WorkerGoes(n, from, to) == worker[n] = from /\ worker' = [worker EXCEPT ![n] = to]
Elsewhere(n) == UNCHANGED <<userChanges, operation, callState, exitCode, answered, brokerSide, restart>>

WorkerChecks(n) ==
    /\ WorkerGoes(n, "checking", IF Blocked(operation[n]) THEN "bad" ELSE "acting")
    /\ UNCHANGED <<service, resultFile>> /\ Elsewhere(n)

\* Start-Service, Stop-Service or Restart-Service, which may fail or take
\* longer than the worker waits; none stops a service with dependents.
WorkerActs(n) ==
    /\ \/ /\ WorkerGoes(n, "acting", "reading")
          /\ operation[n] \in {"start", "restart"} => ~service.disabled
          /\ operation[n] \in {"stop", "restart"} => ~service.dependents
          /\ service' = [service EXCEPT !.status = Expected(operation[n])]
       \/ WorkerGoes(n, "acting", "bad") /\ service' \in {service, [service EXCEPT !.status = "Pending"]}
    /\ UNCHANGED resultFile /\ Elsewhere(n)

\* The status is read again: others may have changed it.
WorkerWrites(n) ==
    /\ WorkerGoes(n, "reading", "done")
    /\ resultFile' = [resultFile EXCEPT ![n] = service.status]
    /\ UNCHANGED service /\ Elsewhere(n)

OthersChange ==
    /\ userChanges < MaxUserChanges /\ userChanges' = userChanges + 1
    /\ \/ \E s \in Statuses : service' = [service EXCEPT !.status = s]
       \/ service' = [service EXCEPT !.disabled = ~@]
       \/ service' = [service EXCEPT !.dependents = ~@]
    /\ UNCHANGED <<callSide, brokerSide, restart>>

ServiceNext ==
    \/ \E n \in Calls, o \in Operations : QueueService(n, o)
    \/ \E n \in Calls :
          QueueServiceStatus(n) \/ AskService(n) \/ TakeService(n) \/ StartWorker(n) \/ NoteWorker(n)
          \/ GiveUp(n) \/ EndWait(n) \/ WorkerChecks(n) \/ WorkerActs(n) \/ WorkerWrites(n)
    \/ BeginRestart \/ StopBroker \/ StartBroker \/ AwaitBroker
    \/ BrokerComesUp \/ BrokerBeats \/ HeartbeatAges \/ BrokerStops \/ OthersChange

ServiceSpec == ServiceInit /\ [][ServiceNext]_serviceVars

-----------------------------------------------------------------------------
(* Properties *)

ServiceRequest == INSTANCE BrokerRequest WITH
    Tickets <- Calls,
    filed <- {n \in Calls : operation[n] # "none"},
    begun <- [n \in Calls |-> IF worker[n] = "none" THEN 0 ELSE 1],
    ending <- [n \in Calls |-> IF callState[n] \in {"completed", "failed", "timeout"} THEN callState[n] ELSE "open"]

\* A service call is one request of the broker.  Completed is never told of it
\* from a queue, a timeout or a worker that gave up: its own worker acted and
\* then saw the service where the operation takes it (service_control_status
\* and the worker script).  And a restart of the broker that reports success
\* stopped the broker it found and names one started later, though the file of
\* the dead one stays fresh for a while (restart_elevation_broker).
OutcomesAreReached ==
    /\ ServiceRequest!Spec
    /\ [](\A n \in Calls : answered[n] = "completed" =>
              worker[n] = "done" /\ resultFile[n] = Expected(operation[n]))
    /\ [][restart'.at = "completed" /\ restart.at # "completed" =>
              restart'.new > restart'.old /\ broker # restart'.old]_serviceVars
=============================================================================
