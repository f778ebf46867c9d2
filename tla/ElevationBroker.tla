-------------------------- MODULE ElevationBroker --------------------------
(***************************************************************************)
(* Moving a program to another drive: the software-migration provider      *)
(* (providers/software_migration_server.py) checks the uninstall registry, *)
(* runs installers itself or queues them, as two files per launch, for the *)
(* broker of the user's desktop (src/host/interactive_elevation_broker.py),*)
(* which starts them elevated one at a time and reports in the status      *)
(* file.  Processes outlive the broker, and uninstallers their exit.       *)
(***************************************************************************)
EXTENDS Naturals, FiniteSets

CONSTANTS
    Brokers,      \* broker processes the desktop may start
    NoBroker,       \* the broker mutex is free
    MaxLaunches,  \* bound on launches, numbered in the order of their files
    Old, Target   \* the two places the program can be registered at

ASSUME ElevationAssumption ==
    NoBroker \notin Brokers /\ MaxLaunches \in Nat \ {0} /\ Old # Target

Launches == 1..MaxLaunches

VARIABLES
    entries,    \* uninstall entries that match the program
    op,         \* launch -> uninstall, install or none
    via,        \* launch -> direct or broker
    requested,  \* launches whose request file exists
    reported,     \* launch -> state in its status file, none without a file
    proc,       \* launch -> none, running, helper, done, bad
    processStarts,     \* launch -> times its command was started
    told,     \* launch -> the last semantic status told to the client
    mutex,      \* broker that holds the mutex
    stepOf,         \* broker -> down, idle, asking, started, waiting
    launchOf,        \* broker -> its launch, 0 when none
    file        \* state in broker_status.json

elevationVars == <<entries, op, via, requested, reported, proc, processStarts, told, mutex, stepOf, launchOf, file>>
client == <<entries, op, via, requested, told>>

ElevationTypeOK ==
    /\ entries \subseteq {Old, Target}
    /\ op \in [Launches -> {"none", "uninstall", "install"}]
    /\ via \in [Launches -> {"direct", "broker"}]
    /\ requested \subseteq Launches
    /\ reported \in [Launches -> {"none", "queued", "requesting_elevation", "running",
                                "completed", "failed", "timeout"}]
    /\ proc \in [Launches -> {"none", "running", "helper", "done", "bad"}]
    /\ processStarts \in [Launches -> 0..2]
    /\ told \in [Launches -> {"none", "external_pending", "completed", "failed", "timeout"}]
    /\ mutex \in Brokers \cup {NoBroker}
    /\ stepOf \in [Brokers -> {"down", "idle", "asking", "started", "waiting"}]
    /\ launchOf \in [Brokers -> 0..MaxLaunches]
    /\ file \in {"missing", "running", "stopped"}
    /\ \A b \in Brokers : launchOf[b] = 0 <=> stepOf[b] \in {"down", "idle"}

ElevationInit ==
    /\ entries = {Old} /\ requested = {} /\ mutex = NoBroker /\ file = "missing"
    /\ op = [n \in Launches |-> "none"] /\ via = [n \in Launches |-> "broker"]
    /\ reported = [n \in Launches |-> "none"] /\ told = [n \in Launches |-> "none"]
    /\ proc = [n \in Launches |-> "none"] /\ processStarts = [n \in Launches |-> 0]
    /\ stepOf = [b \in Brokers |-> "down"] /\ launchOf = [b \in Brokers |-> 0]

-----------------------------------------------------------------------------
(* The provider *)

IsNext(n) == op[n] = "none" /\ \A m \in 1..(n - 1) : op[m] # "none"

\* What must hold before the command: one entry to remove, none to replace.
Precondition(o) == IF o = "uninstall" THEN Cardinality(entries) = 1 ELSE entries = {}

Starts(n) == processStarts' = [processStarts EXCEPT ![n] = @ + 1] /\ proc' = [proc EXCEPT ![n] = "running"]

\* A ready broker is one whose file says running; the file of a dead one is
\* believed for five seconds more.
BrokerSaysReady == file = "running"

QueueRequest(n, o) ==
    /\ IsNext(n) /\ Precondition(o) /\ BrokerSaysReady
    /\ op' = [op EXCEPT ![n] = o] /\ via' = [via EXCEPT ![n] = "broker"]
    /\ requested' = requested \cup {n}
    /\ UNCHANGED <<entries, reported, proc, processStarts, told, mutex, stepOf, launchOf, file>>

\* The status file is written after the request, if the provider lives on.
QueueStatus(n) ==
    /\ n \in requested /\ reported[n] = "none" /\ told[n] = "none"
    /\ reported' = [reported EXCEPT ![n] = "queued"]
    /\ told' = [told EXCEPT ![n] = "external_pending"]
    /\ UNCHANGED <<entries, op, via, requested, proc, processStarts, mutex, stepOf, launchOf, file>>

\* An install need not ask for absence.
RunDirect(n, o) ==
    /\ IsNext(n) /\ (Precondition(o) \/ o = "install")
    /\ op' = [op EXCEPT ![n] = o] /\ via' = [via EXCEPT ![n] = "direct"]
    /\ Starts(n)
    /\ UNCHANGED <<entries, requested, reported, told, mutex, stepOf, launchOf, file>>

\* After the exit of an uninstaller the registry is polled for some seconds;
\* an install is believed on its exit code.
AnswerDirect(n) ==
    /\ via[n] = "direct" /\ told[n] = "none" /\ proc[n] \in {"helper", "done", "bad"}
    /\ told' = [told EXCEPT ![n] =
          IF proc[n] # "bad" /\ (op[n] = "uninstall" => entries = {}) THEN "completed" ELSE "failed"]
    /\ UNCHANGED <<entries, op, via, requested, reported, proc, processStarts, mutex, stepOf, launchOf, file>>

\* The run is cut off and its process killed; what it did stays done.
TimeoutDirect(n) ==
    /\ via[n] = "direct" /\ told[n] = "none" /\ proc[n] = "running"
    /\ told' = [told EXCEPT ![n] = "timeout"] /\ proc' = [proc EXCEPT ![n] = "bad"]
    /\ entries' \in {entries, IF op[n] = "uninstall" THEN {} ELSE entries \cup {Target}}
    /\ UNCHANGED <<op, via, requested, reported, processStarts, mutex, stepOf, launchOf, file>>

Pending == {"none", "queued", "requesting_elevation", "running"}

\* What the registry must show for a command that ended with code 0.
Effective(n) == IF op[n] = "uninstall" THEN entries = {} ELSE entries = {Target}

\* elevated_uninstall_status and elevated_install_status.
AskLaunch(n) ==
    /\ n \in requested
    /\ told' = [told EXCEPT ![n] =
          IF reported[n] \in Pending THEN "external_pending"
          ELSE IF reported[n] = "timeout" THEN "timeout"
          ELSE IF reported[n] = "completed" /\ proc[n] # "bad" /\ Effective(n) THEN "completed" ELSE "failed"]
    /\ UNCHANGED <<entries, op, via, requested, reported, proc, processStarts, mutex, stepOf, launchOf, file>>

-----------------------------------------------------------------------------
(* The processes *)

\* An uninstaller may leave the removal to a helper; an installer may ignore
\* the location it was given.
ProcessExits(n) ==
    /\ proc[n] = "running"
    /\ \/ proc' = [proc EXCEPT ![n] = "bad"] /\ UNCHANGED entries
       \/ /\ op[n] = "uninstall" /\ proc' = [proc EXCEPT ![n] = "done"] /\ entries' = {}
       \/ /\ op[n] = "uninstall" /\ proc' = [proc EXCEPT ![n] = "helper"] /\ UNCHANGED entries
       \/ /\ op[n] = "install" /\ proc' = [proc EXCEPT ![n] = "done"]
          /\ entries' \in {entries \cup {Target}, entries \cup {Old}}
    /\ UNCHANGED <<op, via, requested, reported, processStarts, told, mutex, stepOf, launchOf, file>>

HelperRemoves(n) ==
    /\ proc[n] = "helper" /\ proc' = [proc EXCEPT ![n] = "done"] /\ entries' = {}
    /\ UNCHANGED <<op, via, requested, reported, processStarts, told, mutex, stepOf, launchOf, file>>

-----------------------------------------------------------------------------
(* The broker *)

\* A second broker finds the mutex and ends.
ElevationBrokerStarts(b) ==
    /\ stepOf[b] = "down" /\ mutex = NoBroker
    /\ mutex' = b /\ stepOf' = [stepOf EXCEPT ![b] = "idle"] /\ file' = "running"
    /\ UNCHANGED <<client, reported, proc, processStarts, launchOf>>

\* Mutant: whatever has not ended is taken, so that nothing is forgotten.
QueuedOrOpen == {n \in requested : reported[n] \in {"queued", "requesting_elevation", "running"}}

Queued == {n \in requested : reported[n] = "queued"}

\* The oldest queued request; one that is not valid fails at once.
Take(b) ==
    \E n \in Queued :
        /\ stepOf[b] = "idle" /\ \A m \in Queued : n <= m
        /\ \/ /\ reported' = [reported EXCEPT ![n] = "requesting_elevation"]
              /\ stepOf' = [stepOf EXCEPT ![b] = "asking"] /\ launchOf' = [launchOf EXCEPT ![b] = n]
           \/ reported' = [reported EXCEPT ![n] = "failed"] /\ UNCHANGED <<stepOf, launchOf>>
        /\ file' = "running" /\ UNCHANGED <<client, proc, processStarts, mutex>>

Idle(b) == stepOf' = [stepOf EXCEPT ![b] = "idle"] /\ launchOf' = [launchOf EXCEPT ![b] = 0] /\ file' = "running"

\* The user answers the elevation prompt.
Elevate(b) ==
    /\ stepOf[b] = "asking" /\ Starts(launchOf[b]) /\ stepOf' = [stepOf EXCEPT ![b] = "started"]
    /\ UNCHANGED <<client, reported, mutex, launchOf, file>>

ReportRunning(b) ==
    /\ stepOf[b] = "started" /\ stepOf' = [stepOf EXCEPT ![b] = "waiting"]
    /\ reported' = [reported EXCEPT ![launchOf[b]] = "running"]
    /\ UNCHANGED <<client, proc, processStarts, mutex, launchOf, file>>

\* The wait is over: the process ended, or its time is up and it goes on.
ReportEnd(b) ==
    /\ stepOf[b] = "waiting" /\ Idle(b)
    /\ reported' = [reported EXCEPT ![launchOf[b]] = IF proc[launchOf[b]] = "running" THEN "timeout" ELSE "completed"]
    /\ UNCHANGED <<client, proc, processStarts, mutex>>

\* The prompt is declined, or the status file cannot be replaced because a
\* reader has it open: failed, whatever the process does.
ReportFailure(b) ==
    /\ stepOf[b] \in {"asking", "started", "waiting"} /\ Idle(b)
    /\ reported' = [reported EXCEPT ![launchOf[b]] = "failed"]
    /\ UNCHANGED <<client, proc, processStarts, mutex>>

\* A stop is seen between two requests, a death at any point.
BrokerEnds(b) ==
    /\ stepOf[b] # "down" /\ stepOf' = [stepOf EXCEPT ![b] = "down"] /\ launchOf' = [launchOf EXCEPT ![b] = 0]
    /\ mutex' = IF mutex = b THEN NoBroker ELSE mutex
    /\ file' \in IF stepOf[b] = "idle" THEN {"stopped", file} ELSE {file}
    /\ UNCHANGED <<client, reported, proc, processStarts>>

ElevationNext ==
    \/ \E n \in Launches, o \in {"uninstall", "install"} : QueueRequest(n, o) \/ RunDirect(n, o)
    \/ \E n \in Launches :
          QueueStatus(n) \/ AnswerDirect(n) \/ TimeoutDirect(n) \/ AskLaunch(n)
          \/ ProcessExits(n) \/ HelperRemoves(n)
    \/ \E b \in Brokers :
          ElevationBrokerStarts(b) \/ Take(b) \/ Elevate(b) \/ ReportRunning(b) \/ ReportEnd(b)
          \/ ReportFailure(b) \/ BrokerEnds(b)

ElevationSpec == ElevationInit /\ [][ElevationNext]_elevationVars

-----------------------------------------------------------------------------
(* Properties *)

LaunchRequest == INSTANCE BrokerRequest WITH
    Tickets <- Launches,
    filed <- requested,
    begun <- [n \in Launches |-> IF via[n] = "broker" THEN processStarts[n] ELSE 0],
    ending <- [n \in Launches |-> IF reported[n] \in {"completed", "failed", "timeout"} THEN reported[n] ELSE "open"]

\* However often brokers die and start again, a launch is one request: its
\* command is started once, a second uninstaller never runs over the first.
\* Two elevated processes run together only when the earlier one was given up:
\* reported as timed out or failed, or left behind by a broker's death.  And a
\* launch is told completed only when the registry shows what it was to do, at
\* a time when its process has ended.
LaunchesAreHonest ==
    /\ LaunchRequest!Spec
    /\ [](Cardinality({b \in Brokers : stepOf[b] \in {"started", "waiting"}
                                       /\ proc[launchOf[b]] = "running"}) <= 1)
    /\ [][\A n \in requested :
              told'[n] = "completed" /\ told[n] # "completed" =>
                  /\ proc[n] \in {"done", "helper"}
                  /\ entries = IF op[n] = "uninstall" THEN {} ELSE {Target}]_elevationVars
=============================================================================
