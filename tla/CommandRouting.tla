--------------------------- MODULE CommandRouting ---------------------------
(***************************************************************************)
(* What a command line means, where it is sent and on which backends it    *)
(* runs: command_semantics.py, semantic_execution_policy.py and            *)
(* capability_steering.py classify and route it, run_process and the       *)
(* confirmed runtime.*_process capabilities of local_tools.py accept it,   *)
(* run_oneshot and run_oneshot_backend run it, and                         *)
(* recover_run_process_result answers for it after a restart.              *)
(*                                                                         *)
(* A command line is its program, the action its arguments name and the    *)
(* few arguments the tables look at.  Every action stands for those the    *)
(* tables treat alike: rev-parse for the five repeatable queries, status   *)
(* for the other reads, reset for the high-risk mutations, branch for the  *)
(* other local writes, fetch for the network reads that write locally.     *)
(* One call is followed at a time; nothing of it is shared.                *)
(***************************************************************************)
EXTENDS Naturals, Sequences

CONSTANT NoCommand     \* the command of no call

VARIABLES
    command,           \* the command line and what it is called with
    way,               \* entry and backend the caller asked for
    phase,             \* step of the call
    ran,               \* how often the command was started here and by the Runner
    backendOutcome,           \* what the process or its backend gave
    route,             \* fallback, canary, shadow or production record, if any
    eventsTold,              \* execution events, in order
    reply              \* what the caller got

routingVars == <<command, way, phase, ran, backendOutcome, route, eventsTold, reply>>

GitActions == {"rev-parse", "status", "ls-remote", "push", "fetch", "remote", "config",
               "add", "rm", "commit", "tag", "reset", "branch", "unknown", "unlisted"}
GhActions == {"read", "clone", "write", "api", "unknown", "unlisted"}
PythonActions == {"pip query", "pip index", "pip install", "pip uninstall", "pip other",
                  "venv", "ensurepip", "pytest", "code", "script"}
OtherPrograms == {"pytest", "latexmk", "wsl", "node"}

\* reads: the nested arguments name a query (git remote, git config, gh api).
\* context: -c, -C, --git-dir or another option that moves git elsewhere.
Command(program, actions, reads, context) ==
    [program : {program}, action : actions, reads : reads, context : context,
     root : {"workspace", "pla"}, extras : BOOLEAN]
Commands ==
    UNION {Command("git", GitActions, {FALSE}, BOOLEAN),
           Command("git", {"remote", "config"}, {TRUE}, {FALSE}),
           Command("gh", GhActions, {FALSE}, {FALSE}), Command("gh", {"api"}, {TRUE}, {FALSE}),
           Command("python", PythonActions, {FALSE}, {FALSE}),
           UNION {Command(p, {"run"}, {FALSE}, {FALSE}) : p \in OtherPrograms}}

-----------------------------------------------------------------------------
(* What a command means *)

Means(domain, action, risk, effect, network, confidence) ==
    [domain |-> domain, action |-> action, risk |-> risk, effect |-> effect,
     network |-> network, confidence |-> confidence]

GitMeaning(c) ==
    LET Git(risk, effect, network, confidence) ==
            Means("git", c.action, risk, effect, network, confidence)
    IN  CASE c.action \in {"rev-parse", "status"} -> Git("read", "read_only", "none", "high")
          [] c.action = "ls-remote" -> Git("read", "read_only", "read", "high")
          [] c.action = "push" -> Git("write_external", "external_state_change", "write", "high")
          [] c.action = "fetch" -> Git("write_local", "local_state_change", "read", "high")
          [] c.action \in {"remote", "config"} ->
                IF c.reads THEN Git("read", "read_only", "none", "medium")
                           ELSE Git("write_local", "local_state_change", "none", "medium")
          [] c.action = "unknown" -> Git("write_local", "unknown", "none", "low")
          [] c.action = "unlisted" -> Git("write_local", "unknown", "possible", "low")
          [] OTHER -> Git("write_local", "local_state_change", "none", "high")

GhMeaning(c) ==
    LET Gh(risk, effect, network, confidence) ==
            Means("github", c.action, risk, effect, network, confidence)
    IN  CASE c.action = "read" -> Gh("read", "read_only", "read", "high")
          [] c.action = "clone" -> Gh("write_local", "local_state_change", "read", "high")
          [] c.action = "write" -> Gh("write_external", "external_state_change", "write", "high")
          [] c.action = "api" ->
                IF c.reads THEN Gh("read", "read_only", "read", "medium")
                           ELSE Gh("write_external", "external_state_change", "write", "medium")
          [] OTHER -> Gh("write_external", "unknown", "possible", "low")

PythonMeaning(c) ==
    LET Py(risk, effect, network, confidence) ==
            Means("python", c.action, risk, effect, network, confidence)
    IN  CASE c.action = "pip query" -> Py("read", "read_only", "none", "high")
          [] c.action = "pip index" -> Py("read", "read_only", "read", "high")
          [] c.action \in {"pip install", "ensurepip"} ->
                Py("write_local", "environment_change", "possible", "high")
          [] c.action \in {"pip uninstall", "venv"} ->
                Py("write_local", "environment_change", "none", "high")
          [] c.action = "pip other" -> Py("write_local", "local_state_change", "possible", "medium")
          [] c.action = "pytest" -> Means("test", "pytest", "write_local", "arbitrary_code", "possible", "high")
          [] OTHER -> Py("write_local", "arbitrary_code", "possible", "high")

Meaning(c) ==
    CASE c.program = "git" -> GitMeaning(c)
      [] c.program = "gh" -> GhMeaning(c)
      [] c.program = "python" -> PythonMeaning(c)
      [] c.program = "pytest" -> Means("test", "pytest", "write_local", "arbitrary_code", "possible", "high")
      [] c.program = "latexmk" -> Means("typesetting", "build", "write_local", "local_state_change", "none", "high")
      [] c.program = "wsl" -> Means("wsl", "bridge_execution", "write_local", "bridge_execution", "possible", "high")
      [] OTHER -> Means("generic", "unknown", "write_local", "unknown", "possible", "low")

\* run_process starts pytest as python -m pytest.
Started(c) == IF c.program = "pytest" THEN [c EXCEPT !.program = "python", !.action = "pytest"] ELSE c

-----------------------------------------------------------------------------
(* Where a command goes *)

HighRisk == {"reset"}
Specialized == {"add", "rm", "commit", "tag", "push"}

Policy(m) ==
    CASE m.risk = "write_external" -> "semantic_external_write"
      [] m.risk = "write_local" /\ m.effect = "environment_change" -> "environment_change"
      [] m.risk = "write_local" /\ m.domain = "git" /\ m.action \in HighRisk -> "high_risk_local_git"
      [] OTHER -> "none"

TargetPolicy == [semantic_external_write |-> "external_process",
           environment_change |-> "environment_process",
           high_risk_local_git |-> "local_mutation_process"]

Priority == [pla_source_git |-> 100, governed_git_mutation |-> 90, high_risk_local_git |-> 85,
             semantic_external_write |-> 80, environment_change |-> 75]

RuleMatches(rule, c) ==
    CASE rule = "pla_source_git" -> c.program = "git" /\ c.root = "pla"
      [] rule = "governed_git_mutation" ->
            c.program = "git" /\ c.root # "pla" /\ Meaning(c).action \in Specialized
      [] OTHER -> Policy(Meaning(c)) = rule /\ (rule = "high_risk_local_git" => c.program = "git")

\* The rule that steers the command away from run_process.
Rule(c) ==
    LET candidates == {rule \in DOMAIN Priority : RuleMatches(rule, c)}
    IN  IF candidates = {} THEN "none"
        ELSE CHOOSE rule \in candidates : \A other \in candidates : Priority[other] <= Priority[rule]

\* The capability a steered caller is sent to.
Suggested(c) ==
    CASE Rule(c) = "none" -> "none"
      [] Rule(c) \in {"pla_source_git", "governed_git_mutation"} -> "core.git"
      [] OTHER -> TargetPolicy[Policy(Meaning(c))]

\* Does a confirmed process capability take the command?
Accepts(entry, c) == Policy(Meaning(c)) # "none" /\ TargetPolicy[Policy(Meaning(c))] = entry

\* May the command be started a second time?
Repeatable(c) ==
    LET m == Meaning(c)
    IN  /\ ~c.extras /\ c.root # "pla"
        /\ m.domain = "git" /\ m.action \in {"rev-parse"}
        /\ m.risk = "read" /\ m.effect = "read_only" /\ m.network = "none" /\ m.confidence = "high"
        /\ ~c.context

-----------------------------------------------------------------------------
(* Running it *)

Backends == {"default", "production", "candidate", "shadow", "canary"}
Entries == {"run_process", "external_process", "environment_process", "local_mutation_process"}
Ways == {w \in [entry : Entries, backend : Backends] : w.entry # "run_process" => w.backend = "default"}

Code(n) == [kind |-> "code", code |-> n]
Raised(kind) == [kind |-> kind, code |-> 0]
Outcomes == {Code(0), Code(1)} \cup {Raised(kind) : kind \in {"none", "timeout", "error", "cancelled", "indeterminate"}}
NoRoute == [by |-> "none", status |-> "none"]
RouteAs(by, status) == [by |-> by, status |-> status]
Finished(o) == o.kind = "code"

\* What the Runner's record of an execution holds: code 2 stands for no code.
RunnerRecords == [runner : BOOLEAN, timeout : BOOLEAN, code : 0..2]
FromRunner(r) ==
    CASE ~r.runner -> Raised("error")
      [] r.runner /\ r.timeout -> Raised("timeout")
      [] r.runner /\ ~r.timeout /\ r.code = 2 -> Raised("error")
      [] OTHER -> Code(r.code)

\* The reply recovery rebuilds from the same record.
Recovered(r) ==
    IF ~r.runner \/ (~r.timeout /\ r.code = 2) THEN Raised("error")
    ELSE IF r.timeout THEN Raised("timeout") ELSE Code(r.code)

RoutingTypeOK ==
    /\ command \in Commands \cup {NoCommand} /\ way \in Ways
    /\ phase \in {"idle", "steered", "refused", "chosen", "runner", "local", "candidate", "settled",
                  "lost", "recovered", "answered"}
    /\ ran \in [here : 0..2, runner : 0..1]
    /\ backendOutcome \in Outcomes /\ reply \in Outcomes
    /\ route \in [by : {"none", "production", "canary", "shadow"},
                  status : {"none", "runner", "fallback_pre_submit", "indeterminate",
                            "fallback_indeterminate_read", "skipped", "candidate", "fallback",
                            "error", "matched", "mismatched"}]
    /\ eventsTold \in Seq({"started", "failed", "compared", "canary_routed", "production_routed", "completed"})

RoutingInit ==
    /\ command = NoCommand /\ way = [entry |-> "run_process", backend |-> "default"] /\ phase = "idle"
    /\ ran = [here |-> 0, runner |-> 0] /\ backendOutcome = Raised("none") /\ reply = Raised("none")
    /\ route = NoRoute /\ eventsTold = << >>

\* run_process: steered away, or on to run_oneshot.
RunProcess(c) ==
    /\ phase = "idle" /\ command' = c
    /\ \E backend \in Backends : way' = [entry |-> "run_process", backend |-> backend]
    /\ IF Rule(c) = "none" THEN phase' = "chosen" /\ eventsTold' = <<"started">>
                           ELSE phase' = "steered" /\ UNCHANGED eventsTold
    /\ UNCHANGED <<ran, backendOutcome, route, reply>>

\* runtime.external_process and its siblings classify the command again.
RunConfirmed(entry, c) ==
    /\ phase = "idle" /\ command' = c /\ way' = [entry |-> entry, backend |-> "default"]
    /\ IF Accepts(entry, c) THEN phase' = "chosen" /\ eventsTold' = <<"started">>
                            ELSE phase' = "refused" /\ UNCHANGED eventsTold
    /\ UNCHANGED <<ran, backendOutcome, route, reply>>

\* run_oneshot_backend: the backend the preference stands for.
ChooseBackend ==
    /\ phase = "chosen"
    /\ LET repeatable == Repeatable(Started(command))
       IN  /\ phase' = CASE way.backend = "production" -> "runner"
                         [] way.backend = "candidate" \/ (way.backend = "canary" /\ repeatable) -> "candidate"
                         [] OTHER -> "local"
           /\ route' = IF way.backend = "canary" /\ ~repeatable THEN RouteAs("canary", "skipped") ELSE NoRoute
    /\ UNCHANGED <<command, way, ran, backendOutcome, eventsTold, reply>>

SettleAs(o, r) == phase' = "settled" /\ backendOutcome' = o /\ route' = r
RunsOnRunner == ran' = [ran EXCEPT !.runner = @ + 1]

\* No Runner is ready: nothing was sent, so the command runs here.
RunnerUnavailable ==
    /\ phase = "runner" /\ phase' = "local" /\ route' = RouteAs("production", "fallback_pre_submit")
    /\ UNCHANGED <<command, way, ran, backendOutcome, eventsTold, reply>>

\* The answer is lost after the submission, which may have started the command.
RunnerIndeterminate ==
    /\ phase = "runner"
    /\ RunsOnRunner \/ UNCHANGED ran
    /\ IF Repeatable(Started(command))
       THEN /\ phase' = "local" /\ route' = RouteAs("production", "fallback_indeterminate_read")
            /\ UNCHANGED backendOutcome
       ELSE SettleAs(Raised("indeterminate"), RouteAs("production", "indeterminate"))
    /\ UNCHANGED <<command, way, eventsTold, reply>>

\* The Runner refuses the request, or its execution failed or was cancelled.
RunnerFails ==
    /\ phase = "runner"
    /\ RunsOnRunner \/ UNCHANGED ran
    /\ \E kind \in {"error", "cancelled"} : SettleAs(Raised(kind), NoRoute)
    /\ UNCHANGED <<command, way, eventsTold, reply>>

RunnerAnswers ==
    /\ phase = "runner" /\ RunsOnRunner
    /\ \E r \in RunnerRecords :
          SettleAs(FromRunner(r), IF FromRunner(r).kind = "error" THEN NoRoute ELSE RouteAs("production", "runner"))
    /\ UNCHANGED <<command, way, eventsTold, reply>>

\* Mutant: the fallback keeps nothing of what came before it.
RunHereForgets ==
    /\ phase = "local" /\ phase' = "settled" /\ route' = NoRoute
    /\ ran' = [ran EXCEPT !.here = @ + 1] /\ backendOutcome' = Code(0)
    /\ UNCHANGED <<command, way, eventsTold, reply>>

\* The process runs here; an exception leaves with no record of the route.
RunHere ==
    /\ phase = "local"
    /\ \E o \in {Code(0), Code(1), Raised("timeout"), Raised("cancelled"), Raised("error")} :
          /\ ran' = IF o.kind = "error" THEN ran ELSE [ran EXCEPT !.here = @ + 1]
          /\ backendOutcome' = o
          /\ IF Finished(o) /\ way.backend = "shadow" /\ Repeatable(Started(command))
             THEN phase' = "candidate" /\ UNCHANGED route
             ELSE /\ phase' = "settled"
                  /\ route' = IF ~Finished(o) THEN NoRoute
                              ELSE IF way.backend = "shadow" THEN RouteAs("shadow", "skipped") ELSE route
    /\ UNCHANGED <<command, way, eventsTold, reply>>

\* After the candidate: the shadow only compares, the canary falls back to a run here.
AfterCandidate(o) ==
    CASE way.backend = "shadow" ->
            /\ phase' = "settled" /\ UNCHANGED backendOutcome
            /\ route' = RouteAs("shadow", IF ~Finished(o) THEN "error"
                                          ELSE IF o = backendOutcome THEN "matched" ELSE "mismatched")
      [] way.backend = "canary" /\ Finished(o) -> SettleAs(o, RouteAs("canary", "candidate"))
      [] way.backend = "canary" /\ ~Finished(o) ->
            phase' = "local" /\ route' = RouteAs("canary", "fallback") /\ UNCHANGED backendOutcome
      [] OTHER -> SettleAs(o, NoRoute)

RunCandidate ==
    /\ phase = "candidate"
    /\ \/ UNCHANGED ran /\ AfterCandidate(Raised("error"))
       \/ RunsOnRunner /\ (AfterCandidate(Raised("error"))
                           \/ \E r \in RunnerRecords : AfterCandidate(FromRunner(r)))
    /\ UNCHANGED <<command, way, eventsTold, reply>>

RoutedEvent ==
    CASE route.by = "shadow" -> <<"compared">>
      [] route.by = "canary" -> <<"canary_routed">>
      [] route.by = "production" -> <<"production_routed">>
      [] OTHER -> << >>

\* The end of run_oneshot and of its caller.
Answer ==
    /\ phase = "settled" /\ phase' = "answered"
    /\ eventsTold' = eventsTold \o (IF Finished(backendOutcome) THEN RoutedEvent \o <<"completed">> ELSE <<"failed">>)
    /\ reply' = backendOutcome
    /\ UNCHANGED <<command, way, ran, backendOutcome, route>>

\* The process that asked dies while the Runner executes the command.
CallerDies ==
    /\ phase = "runner" /\ way.backend = "production" /\ RunsOnRunner
    /\ phase' = "lost" /\ UNCHANGED <<command, way, backendOutcome, route, eventsTold, reply>>

\* The next process answers the task from the Runner's record.
RecoverReply ==
    /\ phase = "lost" /\ phase' = "recovered"
    /\ \E r \in RunnerRecords : backendOutcome' = FromRunner(r) /\ reply' = Recovered(r)
    /\ UNCHANGED <<command, way, ran, route, eventsTold>>

RoutingNext ==
    \/ \E c \in Commands : RunProcess(c) \/ \E entry \in Entries \ {"run_process"} : RunConfirmed(entry, c)
    \/ ChooseBackend \/ RunnerUnavailable \/ RunnerIndeterminate \/ RunnerFails \/ RunnerAnswers
    \/ RunHere \/ RunCandidate \/ Answer \/ CallerDies \/ RecoverReply

RoutingSpec == RoutingInit /\ [][RoutingNext]_routingVars

-----------------------------------------------------------------------------
(* Properties *)

\* A command that changes anything, or is given input or environment of its
\* own, is started at most once, whatever the Runner answers or loses
\* (run_oneshot_backend; docs/codex_runtime_parity_audit.md, phases Q and V).
RepeatedIsReadOnly ==
    ran.here + ran.runner > 1 =>
        /\ Meaning(command).effect = "read_only" /\ Meaning(command).network = "none"
        /\ ~command.extras /\ ~command.context

\* A caller that run_process sends elsewhere is accepted there: the steering
\* rule and the second check of the confirmed capability agree, and a Git
\* mutation goes to a governed Git capability that exists for it.
RoutesAreAccepted ==
    phase = "steered" =>
        \/ Suggested(command) \in Entries /\ Accepts(Suggested(command), command)
        \/ /\ Suggested(command) = "core.git"
           /\ command.root # "pla" => command.action \in Specialized

\* A task answered from the Runner's record after a restart gets the answer it
\* would have had (recover_run_process_result and the direct path).
RecoveredLikeDirect == phase = "recovered" => reply = backendOutcome

\* The reply says so when a command was started twice and its last run ended.
SecondRunIsReported ==
    phase = "answered" /\ Finished(reply) /\ ran.here + ran.runner > 1 =>
        route.status \in {"fallback_indeterminate_read", "fallback", "error", "matched", "mismatched"}

\* Comparing with the candidate Runner never changes a reply: no step of a
\* shadow run after the run here changes the outcome.
ShadowIsInvisible ==
    [][phase = "candidate" /\ way.backend = "shadow" => backendOutcome' = backendOutcome]_routingVars

\* Wherever a command is run, in the Runner, in a candidate, in a shadow or
\* again on the default backend, the caller gets one honest answer, and is
\* sent only where it is accepted.
RoutingIsSound ==
    /\ [](RepeatedIsReadOnly /\ SecondRunIsReported /\ RoutesAreAccepted /\ RecoveredLikeDirect)
    /\ ShadowIsInvisible
=============================================================================
