------------------------- MODULE InstallerOwnership -------------------------
(***************************************************************************)
(* Who may change the private component environments: the Desktop manager  *)
(* (src/desktop_runtime/manager.py) and the component broker inside the    *)
(* runtime it started (src/desktop_runtime/broker_component.py) each spawn *)
(* an installer as a child process and hold ComponentInstallLock           *)
(* (src/desktop_runtime/component_lock.py) for it.  The lock belongs to    *)
(* the parent: the operating system frees it when the parent dies, and the *)
(* child goes on.                                                          *)
(***************************************************************************)
EXTENDS Naturals, FiniteSets

CONSTANTS
    Manager, Runtime,   \* the two parents
    NoHolder,           \* the lock is free
    MaxOrphans          \* bound on installers that outlive their parent

ASSUME OwnershipAssumption ==
    Manager # Runtime /\ NoHolder \notin {Manager, Runtime} /\ MaxOrphans \in Nat

VARIABLES
    up,          \* parents that run
    managed,     \* the runtime that runs is a child of the manager that runs
    lockHolder,  \* parent that holds installer.lock
    installerOf,       \* parent -> its installer: none, running or exited
    orphanInstallers      \* installers that run and whose parent died

ownershipVars == <<up, managed, lockHolder, installerOf, orphanInstallers>>

InstallerParents == {Manager, Runtime}
Alone(p) == installerOf[p] # "running"

OwnershipTypeOK ==
    /\ up \subseteq InstallerParents
    /\ lockHolder \in up \cup {NoHolder}
    /\ installerOf \in [InstallerParents -> {"none", "running", "exited"}]
    /\ (\A p \in InstallerParents : installerOf[p] # "none" => p \in up)
    /\ orphanInstallers \in 0..MaxOrphans
    /\ managed \in BOOLEAN
    /\ (managed => up = InstallerParents)

OwnershipInit ==
    /\ up = {Manager} /\ lockHolder = NoHolder /\ orphanInstallers = 0
    /\ installerOf = [p \in InstallerParents |-> "none"] /\ managed = FALSE

Release(p) == lockHolder' = IF lockHolder = p THEN NoHolder ELSE lockHolder

\* The broker gives back what an ended installer left it; the manager waits
\* until installation_status is asked.
Acquire(p) ==
    /\ lockHolder = NoHolder \/ (p = Runtime /\ lockHolder = Runtime)
    /\ lockHolder' = p

\* provider_install, provider_bundle, repository operations, install_start.
StartInstaller(p) ==
    /\ p \in up /\ Alone(p)
    /\ Acquire(p)
    /\ installerOf' = [installerOf EXCEPT ![p] = "running"]
    /\ UNCHANGED <<up, managed, orphanInstallers>>

InstallerExits(p) ==
    /\ installerOf[p] = "running" /\ installerOf' = [installerOf EXCEPT ![p] = "exited"]
    /\ UNCHANGED <<up, managed, lockHolder, orphanInstallers>>

\* Mutant: asking gives the lock back whether the child has ended or not.
AskStatusAlways(p) ==
    /\ installerOf[p] \in {"running", "exited"} /\ Release(p)
    /\ installerOf' = [installerOf EXCEPT ![p] = IF @ = "exited" THEN "none" ELSE @]
    /\ UNCHANGED <<up, managed, orphanInstallers>>

\* installation_status and install_status: the lock of an ended child.
AskStatus(p) ==
    /\ installerOf[p] = "exited" /\ Release(p)
    /\ installerOf' = [installerOf EXCEPT ![p] = "none"]
    /\ UNCHANGED <<up, managed, orphanInstallers>>

\* start refuses a port somebody listens on.
StartRuntime ==
    /\ up = {Manager} /\ up' = InstallerParents /\ managed' = TRUE
    /\ UNCHANGED <<lockHolder, installerOf, orphanInstallers>>

\* stop: the installers of the manager, the runtime it started with its
\* children, and then the locks.  A runtime an earlier manager left is not
\* its child and goes on.
StopServices ==
    LET stopped == IF managed THEN InstallerParents ELSE {Manager} IN
    /\ Manager \in up
    /\ up' = {Manager} \cup (up \ stopped) /\ managed' = FALSE
    /\ lockHolder' = IF lockHolder \in stopped THEN NoHolder ELSE lockHolder
    /\ installerOf' = [p \in InstallerParents |-> IF p \in stopped THEN "none" ELSE installerOf[p]]
    /\ UNCHANGED orphanInstallers

\* A parent dies by itself: its lock is free, its installer runs on.
ParentDies(p) ==
    /\ p \in up /\ up' = up \ {p} /\ managed' = FALSE /\ Release(p)
    /\ orphanInstallers' = IF installerOf[p] = "running" THEN orphanInstallers + 1 ELSE orphanInstallers
    /\ orphanInstallers' <= MaxOrphans
    /\ installerOf' = [installerOf EXCEPT ![p] = "none"]

\* The shell starts a new manager; the runtime of the old one has the port.
RestartManager ==
    /\ Manager \notin up /\ up' = up \cup {Manager}
    /\ UNCHANGED <<managed, lockHolder, installerOf, orphanInstallers>>

OrphanEnds ==
    /\ orphanInstallers > 0 /\ orphanInstallers' = orphanInstallers - 1
    /\ UNCHANGED <<up, managed, lockHolder, installerOf>>

OwnershipNext ==
    \/ \E p \in InstallerParents : StartInstaller(p) \/ InstallerExits(p) \/ AskStatus(p) \/ ParentDies(p)
    \/ StartRuntime \/ StopServices \/ RestartManager \/ OrphanEnds

OwnershipSpec == OwnershipInit /\ [][OwnershipNext]_ownershipVars

-----------------------------------------------------------------------------
(* Properties *)

\* While their parents live, the manager's installer and the runtime's never
\* run together, whatever was stopped, asked or restarted in between.
OwnedInstallersExclude == ~(installerOf[Manager] = "running" /\ installerOf[Runtime] = "running")
=============================================================================
