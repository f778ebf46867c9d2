-------------------------- MODULE RunnerSupervisor --------------------------
(***************************************************************************)
(* Starting, stopping and looking at the Execution Runner process:         *)
(* src/execution/execution_runner_runtime.py in the processes that         *)
(* supervise it, runner_transport.py and runner_process_identity.py, and   *)
(* serve of execution_runner_service.py in the Runner.  The module lock    *)
(* gives each process one call at a time; nothing orders two processes     *)
(* but the files and the mutex the Runner holds.                           *)
(*                                                                         *)
(* The n-th start writes the n-th key and spawns Runner n.  A process      *)
(* identity (pid, creation time, image) names one Runner: Dead is exact.   *)
(***************************************************************************)
EXTENDS Naturals, FiniteSets

CONSTANTS
    Supervisors,   \* processes that call start and stop
    MaxStarts      \* bound on the starts that spawn a Runner

ASSUME SupervisorAssumption == MaxStarts \in Nat \ {0}

VARIABLES
    stateFile,     \* STATE_PATH: its status, none without a file, and its Runner
    keyFile,       \* AUTH_PATH: the start that wrote the key, 0 without a file
    starts,        \* starts so far
    life,          \* Runner -> where its serve is
    keyOf,         \* Runner -> the key its listener was made with
    runnerMutex,   \* Runner that holds the mutex, 0 when none
    busy,          \* Runners with an active execution
    supCall        \* supervisor -> step of its call, Runner it is about, last answer

supFiles == <<stateFile, keyFile>>
runnerLife == <<life, keyOf, runnerMutex, busy>>
supervisorVars == <<supFiles, starts, runnerLife, supCall>>

Runners == 1..MaxStarts
NoState == [status |-> "none", runner |-> 0]
StartSteps == {"start ping", "clearing", "keying", "spawning", "waiting", "greeting"}
StopSteps == {"stop ping", "sweeping", "shutting", "polling", "unkeying", "unkeying stopped"}
Said == {"none", "already_running", "refused", "failed", "started", "stale_state_cleaned",
         "already_stopped", "stop_failed", "stopped", "stop_pending"}

SupervisorTypeOK ==
    /\ stateFile \in [status : {"none", "ready", "stopped"}, runner : 0..MaxStarts]
    /\ keyFile \in 0..MaxStarts /\ starts \in 0..MaxStarts
    /\ life \in [Runners -> {"none", "spawned", "owning", "keyed", "serving", "stopping", "releasing", "gone"}]
    /\ keyOf \in [Runners -> 0..MaxStarts] /\ runnerMutex \in 0..MaxStarts
    /\ busy \subseteq {r \in Runners : life[r] = "serving"}
    /\ supCall \in [Supervisors -> [at : {"idle"} \cup StartSteps \cup StopSteps,
                                    of : 0..MaxStarts, said : Said]]

SupervisorInit ==
    /\ stateFile = NoState /\ keyFile = 0 /\ starts = 0
    /\ life = [r \in Runners |-> "none"] /\ keyOf = [r \in Runners |-> 0]
    /\ runnerMutex = 0 /\ busy = {}
    /\ supCall = [s \in Supervisors |-> [at |-> "idle", of |-> 0, said |-> "none"]]

Dead(r) == r = 0 \/ life[r] = "gone"

\* Does a ping come back from Runner r?  The pipe opens with its key only.
Pings(r) == life[r] = "serving" /\ keyFile = keyOf[r]

Go(s, from, to) == supCall[s].at = from /\ supCall' = [supCall EXCEPT ![s].at = to]
About(s, from, to, r) ==
    supCall[s].at = from /\ supCall' = [supCall EXCEPT ![s] = [at |-> to, of |-> r, said |-> "none"]]
Says(s, from, said) ==
    supCall[s].at = from /\ supCall' = [supCall EXCEPT ![s] = [at |-> "idle", of |-> 0, said |-> said]]

-----------------------------------------------------------------------------
(* start_execution_runner *)

BeginStart(s) ==
    /\ starts < MaxStarts
    /\ IF stateFile.status # "ready" \/ Dead(stateFile.runner)
       THEN About(s, "idle", "clearing", starts + 1) /\ starts' = starts + 1
       ELSE About(s, "idle", "start ping", stateFile.runner) /\ UNCHANGED starts
    /\ UNCHANGED <<supFiles, runnerLife>>

\* A Runner that lives and does not answer is left alone.
PingStart(s) ==
    /\ supCall[s].at = "start ping"
    /\ Says(s, "start ping", IF Pings(supCall[s].of) THEN "already_running" ELSE "refused")
    /\ UNCHANGED <<supFiles, starts, runnerLife>>

ClearFiles(s) ==
    /\ Go(s, "clearing", "keying")
    /\ stateFile' = NoState /\ keyFile' = 0
    /\ UNCHANGED <<starts, runnerLife>>

WriteKey(s) ==
    /\ Go(s, "keying", "spawning") /\ keyFile' = supCall[s].of
    /\ UNCHANGED <<stateFile, starts, runnerLife>>

SpawnRunner(s) ==
    /\ Go(s, "spawning", "waiting")
    /\ life' = [life EXCEPT ![supCall[s].of] = "spawned"]
    /\ UNCHANGED <<supFiles, starts, keyOf, runnerMutex, busy>>

\* Any Runner that is ready will do; ten seconds may not be enough.
WaitReady(s) ==
    /\ \/ stateFile.status = "ready" /\ About(s, "waiting", "greeting", stateFile.runner)
       \/ Says(s, "waiting", "failed")
    /\ UNCHANGED <<supFiles, starts, runnerLife>>

Greet(s) ==
    /\ supCall[s].at = "greeting"
    /\ Says(s, "greeting", IF Pings(supCall[s].of) THEN "started" ELSE "failed")
    /\ UNCHANGED <<supFiles, starts, runnerLife>>

-----------------------------------------------------------------------------
(* stop_execution_runner *)

BeginStop(s) ==
    /\ IF stateFile.status # "ready" THEN About(s, "idle", "unkeying", 0)
       ELSE About(s, "idle", IF Dead(stateFile.runner) THEN "sweeping" ELSE "stop ping", stateFile.runner)
    /\ UNCHANGED <<supFiles, starts, runnerLife>>

Sweep(s) ==
    /\ Says(s, "sweeping", "stale_state_cleaned") /\ stateFile' = NoState /\ keyFile' = 0
    /\ UNCHANGED <<starts, runnerLife>>

PingStop(s) ==
    /\ supCall[s].at = "stop ping"
    /\ IF Pings(supCall[s].of) THEN Go(s, "stop ping", "shutting") ELSE Says(s, "stop ping", "stop_failed")
    /\ UNCHANGED <<supFiles, starts, runnerLife>>

\* Mutant: the mutex goes with the loop, before the last word in the state file.
StopServingReleased(r) == life' = [life EXCEPT ![r] = "stopping"] /\ runnerMutex' = 0

\* The Runner leaves its loop and closes its listener.
StopServing(r) == life' = [life EXCEPT ![r] = "stopping"] /\ UNCHANGED runnerMutex

\* A busy Runner refuses, and the caller does not look at what it replied.
Shutdown(s) ==
    LET r == supCall[s].of IN
    /\ supCall[s].at = "shutting"
    /\ IF ~Pings(r) THEN Says(s, "shutting", "stop_failed") /\ UNCHANGED <<life, runnerMutex>>
       ELSE /\ Go(s, "shutting", "polling")
            /\ IF r \in busy THEN UNCHANGED <<life, runnerMutex>> ELSE StopServing(r)
    /\ UNCHANGED <<supFiles, starts, keyOf, busy>>

SaysStopped == stateFile.status = "stopped"

PollStop(s) ==
    /\ \/ SaysStopped /\ Go(s, "polling", "unkeying stopped")
       \/ Says(s, "polling", "stop_pending")
    /\ UNCHANGED <<supFiles, starts, runnerLife>>

\* The key goes last, whosever it is by now.
RemoveKey(s) ==
    /\ \/ Says(s, "unkeying", "already_stopped")
       \/ Says(s, "unkeying stopped", "stopped")
    /\ keyFile' = 0
    /\ UNCHANGED <<stateFile, starts, runnerLife>>

SupervisorDies(s) ==
    /\ supCall[s].at # "idle" /\ Says(s, supCall[s].at, "none")
    /\ UNCHANGED <<supFiles, starts, runnerLife>>

-----------------------------------------------------------------------------
(* serve *)

\* A second Runner ends at once and leaves no trace.
Own(r) ==
    /\ life[r] = "spawned"
    /\ IF runnerMutex = 0 THEN life' = [life EXCEPT ![r] = "owning"] /\ runnerMutex' = r
       ELSE life' = [life EXCEPT ![r] = "gone"] /\ UNCHANGED runnerMutex
    /\ UNCHANGED <<supFiles, starts, keyOf, busy, supCall>>

\* The end of a process gives its mutex back.
Ends(r) ==
    /\ life' = [life EXCEPT ![r] = "gone"] /\ busy' = busy \ {r}
    /\ runnerMutex' = IF runnerMutex = r THEN 0 ELSE runnerMutex

ReadKey(r) ==
    /\ life[r] = "owning"
    /\ IF keyFile = 0 THEN Ends(r) /\ UNCHANGED keyOf
       ELSE /\ keyOf' = [keyOf EXCEPT ![r] = keyFile] /\ life' = [life EXCEPT ![r] = "keyed"]
            /\ UNCHANGED <<runnerMutex, busy>>
    /\ UNCHANGED <<supFiles, starts, supCall>>

Serve(r) ==
    /\ life[r] = "keyed" /\ life' = [life EXCEPT ![r] = "serving"]
    /\ stateFile' = [status |-> "ready", runner |-> r]
    /\ UNCHANGED <<keyFile, starts, keyOf, runnerMutex, busy, supCall>>

Work(r) ==
    /\ life[r] = "serving"
    /\ busy' = IF r \in busy THEN busy \ {r} ELSE busy \cup {r}
    /\ UNCHANGED <<supFiles, starts, life, keyOf, runnerMutex, supCall>>

\* The last word, which fails while somebody reads the file.
WriteStopped(r) ==
    /\ life[r] = "stopping" /\ life' = [life EXCEPT ![r] = "releasing"]
    /\ stateFile' \in {stateFile, [status |-> "stopped", runner |-> r]}
    /\ UNCHANGED <<keyFile, starts, keyOf, runnerMutex, busy, supCall>>

RunnerEnds(r) ==
    /\ life[r] \notin {"none", "gone"} /\ Ends(r)
    /\ UNCHANGED <<supFiles, starts, keyOf, supCall>>

SupervisorNext ==
    \/ \E s \in Supervisors :
          \/ BeginStart(s) \/ PingStart(s) \/ ClearFiles(s) \/ WriteKey(s) \/ SpawnRunner(s)
          \/ WaitReady(s) \/ Greet(s) \/ BeginStop(s) \/ Sweep(s) \/ PingStop(s) \/ Shutdown(s)
          \/ PollStop(s) \/ RemoveKey(s) \/ SupervisorDies(s)
    \/ \E r \in Runners :
          Own(r) \/ ReadKey(r) \/ Serve(r) \/ Work(r) \/ WriteStopped(r) \/ RunnerEnds(r)

SupervisorSpec == SupervisorInit /\ [][SupervisorNext]_supervisorVars

-----------------------------------------------------------------------------
(* Properties *)

\* The state file of a Runner that serves may be removed, but it never names
\* another Runner or says that it stopped: what its predecessor had to say,
\* it said before it gave the mutex up.  And stop answers "stopped" of a
\* Runner only when that Runner serves no more.
RunnerIsKnown ==
    /\ [](\A r \in Runners : life[r] = "serving" =>
              stateFile \in {NoState, [status |-> "ready", runner |-> r]})
    /\ [][\A s \in Supervisors : supCall[s].at = "unkeying stopped" /\ supCall'[s].said = "stopped" =>
              life[supCall[s].of] \in {"releasing", "gone"}]_supervisorVars
=============================================================================
