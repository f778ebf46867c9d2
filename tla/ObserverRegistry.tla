-------------------------- MODULE ObserverRegistry --------------------------
(***************************************************************************)
(* The external observers: ExternalObserverRuntime (src/hooks/             *)
(* external_observer_runtime.py) keeps the hooks of ObserverHookRuntime    *)
(* (src/hooks/observer_hook_runtime.py) in step with the manifest files.   *)
(* Its operations hold one lock and run on the event loop that dispatches  *)
(* the events, so each is one step.  What they test of a plugin's          *)
(* environment can change under them: a registration may fail although the *)
(* check before it passed, and the operation ends where it raises.         *)
(***************************************************************************)
EXTENDS Naturals, FiniteSets

CONSTANTS
    ObserverIds,
    ObserverVersions,  \* versions of a manifest
    InstalledObserver, \* those whose Python and cwd exist
    AutostartObserver, \* those PLA_EXTERNAL_OBSERVERS=* selects
    NoObserver,        \* no manifest file, no hook, not active
    MaxObservers       \* MAX_EXTERNAL_OBSERVERS

ASSUME ObserverAssumption ==
    /\ InstalledObserver \subseteq ObserverVersions
    /\ AutostartObserver \subseteq ObserverVersions
    /\ NoObserver \notin ObserverVersions /\ MaxObservers \in Nat
    /\ IsFiniteSet(ObserverIds)

VARIABLES
    observerDisk,  \* id -> its manifest file
    activeAs,      \* id -> manifest in _active
    hookOf,        \* id -> manifest its registered hook runs
    hookOn,        \* ids whose hook is enabled
    forceOn,       \* _forced_enabled
    forceOff       \* _forced_disabled

observerVars == <<observerDisk, activeAs, hookOf, hookOn, forceOn, forceOff>>

Known == {o \in ObserverIds : observerDisk[o] # NoObserver}
Configured == {o \in ObserverIds : activeAs[o] # NoObserver}
SelectedIds == {o \in ObserverIds : observerDisk[o] \in AutostartObserver}

ObserverTypeOK ==
    /\ {observerDisk, activeAs, hookOf} \subseteq
          [ObserverIds -> ObserverVersions \cup {NoObserver}]
    /\ {hookOn, forceOn, forceOff} \subseteq SUBSET ObserverIds
    /\ \A o \in hookOn : hookOf[o] # NoObserver

\* configure_initial raises over the limit or for a missing environment.
ObserverInit ==
    /\ observerDisk \in [ObserverIds -> InstalledObserver \cup {NoObserver}]
    /\ Cardinality(SelectedIds) <= MaxObservers
    /\ activeAs = [o \in ObserverIds |->
                      IF o \in SelectedIds THEN observerDisk[o] ELSE NoObserver]
    /\ hookOf = activeAs /\ hookOn = SelectedIds
    /\ forceOn = {} /\ forceOff = {}

-----------------------------------------------------------------------------
(* Operations *)

\* A manifest file is written or removed, its environment with it.
EditObserver(o) ==
    /\ \E m \in ObserverVersions \cup {NoObserver} :
          observerDisk' = [observerDisk EXCEPT ![o] = m]
    /\ UNCHANGED <<activeAs, hookOf, hookOn, forceOn, forceOff>>

On(o) == o \notin forceOff

\* Mutant: observers that are no longer desired keep their hook.
ReplaceKeepsHook(gone, fresh, torn) ==
    /\ hookOf' = [o \in ObserverIds |->
          IF o \in fresh THEN observerDisk[o]
          ELSE IF o \in torn THEN NoObserver ELSE hookOf[o]]
    /\ hookOn' = (hookOn \ (fresh \cup torn)) \cup {o \in fresh : On(o)}
    /\ activeAs' = [o \in ObserverIds |->
          IF o \in fresh THEN observerDisk[o]
          ELSE IF o \in gone THEN NoObserver ELSE activeAs[o]]

\* The hooks of `gone' are removed, those of `fresh' registered anew; `torn'
\* lost its hook and raised before it got another.
Replace(gone, fresh, torn) ==
    /\ hookOf' = [o \in ObserverIds |->
          IF o \in fresh THEN observerDisk[o]
          ELSE IF o \in gone \cup torn THEN NoObserver ELSE hookOf[o]]
    /\ hookOn' = (hookOn \ (gone \cup fresh \cup torn)) \cup {o \in fresh : On(o)}
    /\ activeAs' = [o \in ObserverIds |->
          IF o \in fresh THEN observerDisk[o]
          ELSE IF o \in gone THEN NoObserver ELSE activeAs[o]]

Wanted == SelectedIds \cup (forceOn \cap Known)
Changed == {o \in Wanted \cap Configured : activeAs[o] # observerDisk[o]}
Added == Wanted \ Configured

\* The removals, then the changed ones, then the added ones, up to the first
\* that raises: unregistering a torn one, or registering.
RescanObservers ==
    /\ forceOn' = forceOn \cap Known /\ forceOff' = forceOff \cap Known
    /\ IF Cardinality(Wanted) <= MaxObservers /\ \A o \in Wanted : observerDisk[o] \in InstalledObserver
       THEN LET Torn == {o \in ObserverIds : o \in Configured /\ hookOf[o] = NoObserver}
                Removed == Configured \ Wanted
            IN \/ /\ Torn \cap (Removed \cup Changed) = {}
                  /\ Replace(Removed, Changed \cup Added, {})
               \/ /\ Torn \cap Removed = {}
                  /\ \E done \in SUBSET (Changed \cup Added), o \in Changed \cup Added :
                        /\ o \notin done /\ done \cap Torn = {}
                        /\ o \in Changed => done \subseteq Changed
                        /\ o \in Added => Changed \subseteq done
                        /\ Replace(Removed, done, {o} \cap Changed)
               \/ \E before \in SUBSET (Removed \ Torn) :
                        Torn \cap Removed # {} /\ Replace(before, {}, {})
       ELSE UNCHANGED <<activeAs, hookOf, hookOn>>
    /\ UNCHANGED observerDisk

ReloadObserver(o) ==
    /\ o \in Configured \cap Known /\ observerDisk[o] \in InstalledObserver
    /\ hookOf[o] # NoObserver
    /\ Replace({}, {o}, {}) \/ Replace({}, {}, {o})
    /\ UNCHANGED <<observerDisk, forceOn, forceOff>>

\* The overrides are written before the checks that may refuse.
EnableObserver(o) ==
    /\ o \in Known
    /\ forceOn' = forceOn \cup {o} /\ forceOff' = forceOff \ {o}
    /\ IF \/ observerDisk[o] \notin InstalledObserver
          \/ o \notin Configured /\ Cardinality(Configured) >= MaxObservers
          \/ o \in Configured /\ hookOf[o] = NoObserver
       THEN UNCHANGED <<activeAs, hookOf, hookOn>>
       ELSE \/ /\ hookOf' = [hookOf EXCEPT ![o] = observerDisk[o]]
               /\ activeAs' = [activeAs EXCEPT ![o] = observerDisk[o]]
               /\ hookOn' = hookOn \cup {o}
            \/ /\ activeAs[o] # observerDisk[o]
               /\ Replace({}, {}, {o} \cap Configured)
    /\ UNCHANGED observerDisk

DisableObserver(o) ==
    /\ o \in Configured
    /\ forceOn' = forceOn \ {o} /\ forceOff' = forceOff \cup {o}
    /\ hookOn' = hookOn \ {o}
    /\ UNCHANGED <<observerDisk, activeAs, hookOf>>

ObserverNext ==
    \/ \E o \in ObserverIds : EditObserver(o) \/ ReloadObserver(o)
                              \/ EnableObserver(o) \/ DisableObserver(o)
    \/ RescanObservers

ObserverSpec == ObserverInit /\ [][ObserverNext]_observerVars

\* The observers an event reaches: dispatch copies the enabled hooks, and no
\* handler that fails keeps it from the others.
Reached == {o \in hookOn : hookOf[o] # NoObserver}

-----------------------------------------------------------------------------
(* Properties *)

\* No event reaches an observer that was
\* disabled, through whatever edits, reloads, rescans and failed enables.
DisabledIsSilent == Reached \cap forceOff = {}

\* A hook runs the manifest its observer is active with, and goes with it.
HookIsItsObservers == \A o \in ObserverIds : hookOf[o] # NoObserver => hookOf[o] = activeAs[o]

\* The limit holds over enable, and over a rescan that stops half way.
ObserverLimit == Cardinality(Configured) <= MaxObservers

\* Whatever was enabled, disabled, reloaded or raised half way: who hears an
\* event is whom the operator left on, in the version that is active, within
\* the limit.
HooksObey == DisabledIsSilent /\ HookIsItsObservers /\ ObserverLimit
=============================================================================
