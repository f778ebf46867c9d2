--------------------------- MODULE BrowserRuntime ---------------------------
(***************************************************************************)
(* The browser runtime, src/browser/browser_runtime.py, as the processes   *)
(* that call it share it (the browser role of desktop_runtime/entry.py,    *)
(* the broker's restore after a failure, the browser capabilities), and    *)
(* its keeper, src/browser/browser_session_keeper.py.  _LOCK gives each    *)
(* process one call at a time; nothing orders two processes.               *)
(*                                                                         *)
(* The n-th start spawns MCP n and keeper n, which runtime.json names      *)
(* together by pid and creation time.  One MCP at a time has the port: a   *)
(* second one ends when it tries to listen.  A status is one step.         *)
(***************************************************************************)
EXTENDS Naturals, FiniteSets

CONSTANTS
    Starters,         \* processes that start and stop the browser runtime
    MaxBrowserStarts  \* bound on the starts that spawn an MCP

ASSUME BrowserAssumption == MaxBrowserStarts \in Nat \ {0}

VARIABLES
    browserFile,    \* STATE_PATH: the start it names, 0 without a file
    readyFile,      \* KEEPER_READY_PATH: the start whose keeper wrote it, 0 without
    browserStarts,  \* starts so far
    mcpLife,        \* start -> its Playwright MCP
    keeperLife,     \* start -> its keeper
    browserCall     \* caller -> step of its call, what it is about, its last answer

browserVars == <<browserFile, readyFile, browserStarts, mcpLife, keeperLife, browserCall>>

BrowserStarts == 1..MaxBrowserStarts
Unnamed == {"waiting port", "spawning keeper", "naming"}
Cleaning == {"cleaning keeper", "cleaning mcp", "cleaning state", "cleaning ready"}
Stopping == {"stopping keeper", "stopping mcp", "unmarking", "unnaming", "checking"}

BrowserTypeOK ==
    /\ browserFile \in 0..MaxBrowserStarts /\ readyFile \in 0..MaxBrowserStarts
    /\ browserStarts \in 0..MaxBrowserStarts
    /\ mcpLife \in [BrowserStarts -> {"none", "starting", "serving", "gone"}]
    /\ keeperLife \in [BrowserStarts -> {"none", "starting", "connecting", "ready", "gone"}]
    /\ browserCall \in [Starters ->
          [at : {"idle", "restarting", "clearing", "spawning", "waiting keeper", "verifying"}
                    \cup Unnamed \cup Cleaning \cup Stopping,
           again : BOOLEAN,               \* the stop is part of a start
           spared : BOOLEAN,              \* a kill of its cleanup failed
           of : 0..MaxBrowserStarts,      \* start whose processes the call handles
           seen : 0..MaxBrowserStarts,    \* what it last read from or left in browserFile
           said : {"none", "ready", "raised", "stopped"}]]
    /\ Cardinality({n \in BrowserStarts : mcpLife[n] = "serving"}) <= 1

NoCall == [at |-> "idle", again |-> FALSE, spared |-> FALSE, of |-> 0, seen |-> 0, said |-> "none"]

BrowserInit ==
    /\ browserFile = 0 /\ readyFile = 0 /\ browserStarts = 0
    /\ mcpLife = [n \in BrowserStarts |-> "none"] /\ keeperLife = [n \in BrowserStarts |-> "none"]
    /\ browserCall = [c \in Starters |-> NoCall]

Lives(life, n) == n # 0 /\ life[n] \notin {"none", "gone"}
Listening == \E n \in BrowserStarts : mcpLife[n] = "serving"

\* The call that spawned them holds the handles of its processes, and until
\* it lets go Windows tells their creation time, ended or not.
HandlesHeld(n) ==
    \E c \in Starters : /\ browserCall[c].of = n
                        /\ browserCall[c].at \in Unnamed \cup Cleaning \cup {"waiting keeper", "verifying"}
StillSeen(life, n) == Lives(life, n) \/ (n # 0 /\ life[n] = "gone" /\ HandlesHeld(n))

KeeperReady(n) == StillSeen(keeperLife, n) /\ readyFile = n
BrowserStatus(n) ==
    CASE StillSeen(mcpLife, n) /\ KeeperReady(n) /\ Listening -> "ready"
      [] Listening /\ ~StillSeen(mcpLife, n) -> "conflict"
      [] OTHER -> IF StillSeen(mcpLife, n) \/ StillSeen(keeperLife, n) THEN "degraded" ELSE "stopped"

CallGoes(c, from, to) == browserCall[c].at = from /\ browserCall' = [browserCall EXCEPT ![c].at = to]
CallSays(c, from, said) ==
    browserCall[c].at = from /\ browserCall' = [browserCall EXCEPT ![c] = [NoCall EXCEPT !.said = said]]

browserFiles == <<browserFile, readyFile>>
browserLives == <<mcpLife, keeperLife>>

\* _terminate_tree of one process of start n.  It waits for the process to
\* be seen no more: while the handles are held it raises in the end.
Killed(life, n) == life' = IF Lives(life, n) THEN [life EXCEPT ![n] = "gone"] ELSE life
Survives(life, n) == Lives(life, n) /\ UNCHANGED life  \* taskkill fails

-----------------------------------------------------------------------------
(* start_browser_runtime *)

\* Mutant: a degraded runtime is not stopped first.
LooksFirstOnly(c, status) ==
    IF status = "ready" THEN CallSays(c, "idle", "ready")
    ELSE IF status = "conflict" THEN CallSays(c, "idle", "raised")
    ELSE browserCall' = [browserCall EXCEPT ![c] = [NoCall EXCEPT !.at = "clearing", !.seen = browserFile]]

LooksFirst(c, status) ==
    CASE status = "ready" -> CallSays(c, "idle", "ready")
      [] status = "conflict" -> CallSays(c, "idle", "raised")
      [] OTHER -> browserCall' = [browserCall EXCEPT ![c] =
             [NoCall EXCEPT !.at = IF status = "degraded" THEN "restarting" ELSE "clearing",
                            !.seen = browserFile]]

BeginBrowser(c) ==
    /\ browserCall[c].at = "idle" /\ browserStarts < MaxBrowserStarts
    /\ LooksFirst(c, BrowserStatus(browserFile))
    /\ UNCHANGED <<browserFiles, browserStarts, browserLives>>

ClearReady(c) ==
    /\ \/ CallGoes(c, "clearing", "spawning") /\ readyFile' = 0
       \/ CallSays(c, "clearing", "raised") /\ UNCHANGED readyFile  \* no node, or not the reviewed package
    /\ UNCHANGED <<browserFile, browserStarts, browserLives>>

SpawnMcp(c) ==
    /\ \/ /\ browserCall[c].at = "spawning" /\ browserStarts < MaxBrowserStarts
          /\ browserStarts' = browserStarts + 1
          /\ mcpLife' = [mcpLife EXCEPT ![browserStarts'] = "starting"]
          /\ browserCall' = [browserCall EXCEPT ![c].at = "waiting port", ![c].of = browserStarts']
       \/ CallSays(c, "spawning", "raised") /\ UNCHANGED <<browserStarts, mcpLife>>
    /\ UNCHANGED <<browserFiles, keeperLife>>

\* Any MCP on the port will do; the deadline ends the wait for none.
WaitPort(c) ==
    /\ IF Listening THEN CallGoes(c, "waiting port", "spawning keeper") ELSE CallGoes(c, "waiting port", "cleaning mcp")
    /\ UNCHANGED <<browserFiles, browserStarts, browserLives>>

SpawnKeeper(c) ==
    /\ \/ /\ CallGoes(c, "spawning keeper", "naming")
          /\ keeperLife' = [keeperLife EXCEPT ![browserCall[c].of] = "starting"]
       \/ CallGoes(c, "spawning keeper", "cleaning mcp") /\ UNCHANGED keeperLife
    /\ UNCHANGED <<browserFiles, browserStarts, mcpLife>>

\* The replacement of a file somebody reads fails.
WriteState(c) ==
    /\ browserCall[c].at = "naming"
    /\ \/ /\ browserFile' = browserCall[c].of
          /\ browserCall' = [browserCall EXCEPT ![c].at = "waiting keeper", ![c].seen = browserFile']
       \/ CallGoes(c, "naming", "cleaning keeper") /\ UNCHANGED browserFile
    /\ UNCHANGED <<readyFile, browserStarts, browserLives>>

\* The keeper of the start the file names by now, whosever it is.
WaitKeeper(c) ==
    /\ IF KeeperReady(browserFile) THEN CallGoes(c, "waiting keeper", "verifying")
       ELSE CallGoes(c, "waiting keeper", "cleaning keeper")
    /\ UNCHANGED <<browserFiles, browserStarts, browserLives>>

\* What fails here is left for the next start to find degraded.
VerifyReady(c) ==
    /\ CallSays(c, "verifying", IF BrowserStatus(browserFile) = "ready" THEN "ready" ELSE "raised")
    /\ UNCHANGED <<browserFiles, browserStarts, browserLives>>

\* The cleanup swallows what a kill raises.
CleanKeeper(c) ==
    /\ browserCall[c].at = "cleaning keeper"
    /\ \/ CallGoes(c, "cleaning keeper", "cleaning mcp") /\ Killed(keeperLife, browserCall[c].of)
       \/ /\ Survives(keeperLife, browserCall[c].of)
          /\ browserCall' = [browserCall EXCEPT ![c].at = "cleaning mcp", ![c].spared = TRUE]
    /\ UNCHANGED <<browserFiles, browserStarts, mcpLife>>

CleanMcp(c) ==
    /\ browserCall[c].at = "cleaning mcp"
    /\ \/ CallGoes(c, "cleaning mcp", "cleaning state") /\ Killed(mcpLife, browserCall[c].of)
       \/ /\ Survives(mcpLife, browserCall[c].of)
          /\ browserCall' = [browserCall EXCEPT ![c].at = "cleaning state", ![c].spared = TRUE]
    /\ UNCHANGED <<browserFiles, browserStarts, keeperLife>>

CleanState(c) ==
    /\ CallGoes(c, "cleaning state", "cleaning ready") /\ browserFile' = 0
    /\ UNCHANGED <<readyFile, browserStarts, browserLives>>

CleanReady(c) ==
    /\ CallSays(c, "cleaning ready", "raised") /\ readyFile' = 0
    /\ UNCHANGED <<browserFile, browserStarts, browserLives>>

-----------------------------------------------------------------------------
(* stop_browser_runtime, asked for or as the first part of a start *)

BeginBrowserStop(c) ==
    /\ browserCall[c].at \in {"idle", "restarting"}
    /\ browserCall' = [browserCall EXCEPT ![c] =
          [at |-> "stopping keeper", again |-> browserCall[c].at = "restarting",
           spared |-> FALSE, of |-> browserFile, seen |-> browserFile, said |-> "none"]]
    /\ UNCHANGED <<browserFiles, browserStarts, browserLives>>

StopKeeper(c) ==
    LET n == browserCall[c].of IN
    /\ \/ /\ Killed(keeperLife, n)
          /\ IF HandlesHeld(n) THEN CallSays(c, "stopping keeper", "raised")
             ELSE CallGoes(c, "stopping keeper", "stopping mcp")
       \/ Survives(keeperLife, n) /\ CallSays(c, "stopping keeper", "raised")
    /\ UNCHANGED <<browserFiles, browserStarts, mcpLife>>

StopMcp(c) ==
    LET n == browserCall[c].of IN
    /\ \/ /\ Killed(mcpLife, n)
          /\ IF HandlesHeld(n) THEN CallSays(c, "stopping mcp", "raised") ELSE CallGoes(c, "stopping mcp", "unmarking")
       \/ Survives(mcpLife, n) /\ CallSays(c, "stopping mcp", "raised")
    /\ UNCHANGED <<browserFiles, browserStarts, keeperLife>>

RemoveReady(c) ==
    /\ CallGoes(c, "unmarking", "unnaming") /\ readyFile' = 0
    /\ UNCHANGED <<browserFile, browserStarts, browserLives>>

RemoveState(c) ==
    /\ browserCall[c].at = "unnaming" /\ browserFile' = 0
    /\ browserCall' = [browserCall EXCEPT ![c].at = "checking", ![c].seen = 0]
    /\ UNCHANGED <<readyFile, browserStarts, browserLives>>

EndStop(c) ==
    /\ IF BrowserStatus(browserFile) = "conflict" THEN CallSays(c, "checking", "raised")
       ELSE IF browserCall[c].again THEN CallGoes(c, "checking", "clearing")
       ELSE CallSays(c, "checking", "stopped")
    /\ UNCHANGED <<browserFiles, browserStarts, browserLives>>

\* The process of the call dies, or a file it removes is in use.
CallerDies(c) ==
    /\ browserCall[c].at # "idle" /\ CallSays(c, browserCall[c].at, "none")
    /\ UNCHANGED <<browserFiles, browserStarts, browserLives>>

-----------------------------------------------------------------------------
(* The processes that were spawned *)

McpListens(n) ==
    /\ mcpLife[n] = "starting"
    /\ mcpLife' = [mcpLife EXCEPT ![n] = IF Listening THEN "gone" ELSE "serving"]
    /\ UNCHANGED <<browserFiles, browserStarts, keeperLife, browserCall>>

McpEnds(n) ==
    /\ Lives(mcpLife, n) /\ mcpLife' = [mcpLife EXCEPT ![n] = "gone"]
    /\ UNCHANGED <<browserFiles, browserStarts, keeperLife, browserCall>>

KeeperBegins(n) ==
    /\ keeperLife[n] = "starting" /\ keeperLife' = [keeperLife EXCEPT ![n] = "connecting"]
    /\ readyFile' = 0
    /\ UNCHANGED <<browserFile, browserStarts, mcpLife, browserCall>>

KeeperConnects(n) ==
    /\ keeperLife[n] = "connecting" /\ Listening
    /\ keeperLife' = [keeperLife EXCEPT ![n] = "ready"] /\ readyFile' = n
    /\ UNCHANGED <<browserFile, browserStarts, mcpLife, browserCall>>

\* By itself with the file gone, or killed from outside with the file left.
KeeperEnds(n) ==
    /\ Lives(keeperLife, n) /\ keeperLife' = [keeperLife EXCEPT ![n] = "gone"]
    /\ readyFile' \in {readyFile, 0}
    /\ UNCHANGED <<browserFile, browserStarts, mcpLife, browserCall>>

BrowserNext ==
    \/ \E c \in Starters :
          \/ BeginBrowser(c) \/ ClearReady(c) \/ SpawnMcp(c) \/ WaitPort(c) \/ SpawnKeeper(c)
          \/ WriteState(c) \/ WaitKeeper(c) \/ VerifyReady(c)
          \/ CleanKeeper(c) \/ CleanMcp(c) \/ CleanState(c) \/ CleanReady(c)
          \/ BeginBrowserStop(c) \/ StopKeeper(c) \/ StopMcp(c) \/ RemoveReady(c) \/ RemoveState(c)
          \/ EndStop(c) \/ CallerDies(c)
    \/ \E n \in BrowserStarts :
          McpListens(n) \/ McpEnds(n) \/ KeeperBegins(n) \/ KeeperConnects(n) \/ KeeperEnds(n)

BrowserSpec == BrowserInit /\ [][BrowserNext]_browserVars

-----------------------------------------------------------------------------
(* Properties *)

Astray(n) ==
    /\ Lives(mcpLife, n) \/ Lives(keeperLife, n)
    /\ browserFile # n
    /\ ~\E c \in Starters : browserCall[c].of = n /\ browserCall[c].at \in Unnamed \cup Cleaning

\* A process the runtime spawned is lost to it, alive and named by nobody,
\* in three cases only: its caller dies before it is named or cleaned up,
\* taskkill fails on it, or a call touches a file another process changed
\* since it read it.  And a stop that answers has ended what it read.  All
\* along one MCP at most has the port.
BrowserIsOwned ==
    /\ []BrowserTypeOK
    /\ [][\A n \in BrowserStarts : Astray(n)' /\ ~Astray(n) =>
             \/ \E c \in Starters : /\ browserCall[c].of = n /\ browserCall[c].at # "idle"
                                    /\ browserCall[c].spared \/ browserCall'[c] = NoCall
             \/ \E c \in Starters : browserCall'[c] # browserCall[c]
                                   /\ browserFile = n /\ browserCall[c].seen # n]_browserVars
    /\ [][\A c \in Starters : browserCall[c].at = "checking" /\ browserCall'[c].said = "stopped" =>
             ~Lives(mcpLife, browserCall[c].of) /\ ~Lives(keeperLife, browserCall[c].of)]_browserVars
=============================================================================
