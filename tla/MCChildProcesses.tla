------------------------- MODULE MCChildProcesses -------------------------
(***************************************************************************)
(* The two kinds of child processes that live on between tool calls, the   *)
(* sessions and the browser runtime.  They share no variable and no        *)
(* action: a behaviour of this module is one of the component `focus'      *)
(* names, the other standing in its initial state.                         *)
(***************************************************************************)
EXTENDS ProcessSession, BrowserRuntime, TLC

VARIABLE focus    \* the component that runs

MCInit == focus \in {"session", "browser"} /\ Init /\ BrowserInit

MCNext ==
    \/ focus = "session" /\ Next /\ UNCHANGED <<focus, browserVars>>
    \/ focus = "browser" /\ BrowserNext /\ UNCHANGED <<focus, vars>>

MCSpec == MCInit /\ [][MCNext]_<<focus, vars, browserVars>>

MCSymmetry == Permutations(Callers) \cup Permutations(Starters)
===========================================================================
