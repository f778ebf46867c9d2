-------------------------- MODULE ProviderRuntime --------------------------
(***************************************************************************)
(* One external MCP provider: the client manager (src/mcp_runtime/         *)
(* mcp_client_manager.py) that calls and discovers it, its entry in the    *)
(* CapabilityRegistry (src/capabilities/capability_registry.py) and the    *)
(* hot-plug operations of ExternalProviderRuntime (src/provider/           *)
(* external_provider_runtime.py).  Everything runs on one event loop: a    *)
(* step lasts from one await to the next, and the operations alone are     *)
(* serialized by the runtime's lock.                                       *)
(*                                                                         *)
(* A registration is the number of the add_provider call that made it; it  *)
(* names the transport and the persistent-session lock made there.  The    *)
(* queue of an asyncio.Lock is first in, first out, and its head holds it. *)
(* Retry backoff is left out: a probe may be forced.                       *)
(***************************************************************************)
EXTENDS Integers, Sequences, SequencesExt

CONSTANTS
    Manifests,         \* versions of the provider's manifest
    Persistent,        \* those with persistent_session
    Startable,         \* those whose executable exists (_can_start)
    Autostart,         \* those PLA_EXTERNAL_PROVIDERS selects
    NoManifest,        \* there is no manifest, or none is active
    Callers,           \* tool calls and doctor probes in flight at once
    Operation,         \* the task of the operation that holds the runtime lock
    MaxRegistrations   \* bound on the add_provider calls

ASSUME ProviderAssumption ==
    /\ Persistent \subseteq Manifests /\ Startable \subseteq Manifests
    /\ Autostart \subseteq Manifests
    /\ NoManifest \notin Manifests
    /\ Operation \notin Callers
    /\ MaxRegistrations \in Nat \ {0}

VARIABLES
    disk,         \* the manifest file
    active,       \* the manifest the provider is registered with
    forcedOn,     \* the provider is in _forced_enabled
    forcedOff,    \* the provider is in _forced_disabled
    registration, \* number of the latest registration
    enabled,      \* the manager's _enabled entry
    health,       \* MCPProviderState.state, "none" while unregistered
    registry,     \* the provider in the registry: absent, off or on
    client,       \* registration the persistent client talks to, 0 without one
    queue,        \* registration -> tasks at its persistent-session lock
    task,         \* task -> what it does
    op,           \* the operation under way
    vetoed        \* a disable has taken effect and no enable came since

manifestVars == <<disk, active, forcedOn, forcedOff, vetoed>>
managerVars == <<registration, enabled, health, registry>>
taskVars == <<client, queue, task, op>>
vars == <<manifestVars, managerVars, taskVars>>

Tasks == Callers \cup {Operation}
Registrations == 1..MaxRegistrations
Idle == [pc |-> "idle", kind |-> "none", lock |-> 0, source |-> 0]
NoOp == [next |-> "none", manifest |-> NoManifest]

ProviderTypeOK ==
    /\ disk \in Manifests \cup {NoManifest} /\ active \in Manifests \cup {NoManifest}
    /\ forcedOn \in BOOLEAN /\ forcedOff \in BOOLEAN /\ vetoed \in BOOLEAN
    /\ registration \in 0..MaxRegistrations
    /\ enabled \in BOOLEAN
    /\ health \in {"none", "configured", "ready", "error", "degraded"}
    /\ registry \in {"absent", "off", "on"}
    /\ client \in 0..MaxRegistrations
    /\ queue \in [Registrations -> Seq(Tasks)]
    /\ \A r \in Registrations : \A t \in Tasks :
          task[t].lock = r <=> t \in Range(queue[r])
    /\ task \in [Tasks ->
          [pc : {"idle", "begin", "lock", "connect", "request", "bad", "dropping", "closing"},
           kind : {"none", "call", "discover", "close"},
           lock : 0..MaxRegistrations, source : 0..MaxRegistrations]]
    /\ op \in [next : {"none", "remove", "register", "off", "discover"},
               manifest : Manifests \cup {NoManifest}]
    /\ op = NoOp <=> task[Operation] = Idle

\* The server as it starts to serve: configure_initial and discover_all ran.
Init ==
    /\ disk \in Manifests \cup {NoManifest}
    /\ forcedOn = FALSE /\ forcedOff = FALSE /\ vetoed = FALSE
    /\ active = IF disk \in Autostart \cap Startable THEN disk ELSE NoManifest
    /\ enabled = (active # NoManifest)
    /\ registration = IF enabled THEN 1 ELSE 0
    /\ health \in IF enabled THEN {"ready", "error"} ELSE {"none"}
    /\ registry = IF health = "ready" THEN "on" ELSE "absent"
    /\ client = IF health = "ready" /\ active \in Persistent THEN 1 ELSE 0
    /\ queue = [r \in Registrations |-> <<>>]
    /\ task = [t \in Tasks |-> Idle]
    /\ op = NoOp

-----------------------------------------------------------------------------
(* Steps of a task *)

Hidden == IF registry = "absent" THEN "absent" ELSE "off"

Leave(t) == queue' = [r \in Registrations |-> RemoveFirst(queue[r], t)]
Join(t, r) == queue' = [queue EXCEPT ![r] = Append(@, t)]

Becomes(t, pc) == task' = [task EXCEPT ![t].pc = pc]

\* Mutant: a failing task keeps its place at the lock.
KeepLock(t, pc) == task' = [task EXCEPT ![t].pc = pc] /\ UNCHANGED queue

\* The part under the lock (if there is one) is over.
Unlock(t, pc) == task' = [task EXCEPT ![t].pc = pc, ![t].lock = 0] /\ Leave(t)

End(t) ==
    /\ task' = [task EXCEPT ![t] = Idle]
    /\ op' = IF t = Operation THEN NoOp ELSE op

\* _call_tool_for_provider and _list_tools_for_provider, up to their await.
Enter(t, kind) ==
    IF active \in Persistent
    THEN /\ task' = [task EXCEPT ![t] =
                [pc |-> "lock", kind |-> kind, lock |-> registration, source |-> 0]]
         /\ Join(t, registration)
    ELSE /\ task' = [task EXCEPT ![t] =
                [pc |-> "request", kind |-> kind, lock |-> 0, source |-> registration]]
         /\ UNCHANGED queue

\* call_tool, for an available capability.
Call(t) ==
    /\ t \in Callers
    /\ task[t] = Idle
    /\ registry = "on" /\ enabled /\ health = "ready"
    /\ Enter(t, "call")
    /\ UNCHANGED <<manifestVars, managerVars, client, op>>

\* discover_provider, for a doctor's probe or for the operation.
Discover(t) ==
    /\ \/ t \in Callers /\ task[t] = Idle /\ active # NoManifest
       \/ task[t].pc = "begin"
    /\ Enter(t, "discover")
    /\ UNCHANGED <<manifestVars, managerVars, client, op>>

\* _ensure_persistent_client under the lock.
Locked(t) ==
    /\ task[t].pc = "lock"
    /\ Head(queue[task[t].lock]) = t
    /\ \/ /\ task[t].kind = "close"
          /\ client' = 0
          /\ Becomes(t, "closing") /\ UNCHANGED queue
       \/ /\ task[t].kind # "close" /\ client # 0
          /\ Becomes(t, "request") /\ UNCHANGED <<client, queue>>
       \/ /\ task[t].kind # "close" /\ client = 0 /\ active # NoManifest
          /\ task' = [task EXCEPT ![t].pc = "connect", ![t].source = registration]
          /\ UNCHANGED <<client, queue>>
       \/ /\ task[t].kind # "close" /\ client = 0 /\ active = NoManifest
          /\ Unlock(t, "bad") /\ UNCHANGED client
    /\ UNCHANGED <<manifestVars, managerVars, op>>

Connected(t) ==
    /\ task[t].pc = "connect"
    /\ client' = task[t].source
    /\ Becomes(t, "request")
    /\ UNCHANGED <<manifestVars, managerVars, queue, op>>

\* A timeout of wait_for, a transport or a protocol error, a refused tool list.
Failed(t) ==
    /\ task[t].kind # "close"
    /\ task[t].pc \in {"lock", "connect", "request"}
    /\ Unlock(t, "bad")
    /\ UNCHANGED <<manifestVars, managerVars, client, op>>

\* A ToolError, or the cancellation of the request: no handler marks anything.
Abandoned(t) ==
    /\ task[t].pc \in {"begin", "lock", "connect", "request", "dropping", "closing"}
    /\ Leave(t)
    /\ End(t)
    /\ UNCHANGED <<manifestVars, managerVars, client>>

-----------------------------------------------------------------------------
(* What call_tool and discover_provider record of an outcome *)

\* Mutant: a discovery offers the provider, whether it is enabled or not.
SucceededAsOffered(t) ==
    /\ task[t].pc = "request"
    /\ active # NoManifest
    /\ health' = "ready"
    /\ registry' = IF task[t].kind = "discover" THEN "on" ELSE registry
    /\ Leave(t)
    /\ End(t)
    /\ UNCHANGED <<manifestVars, registration, enabled, client>>

\* A provider that was removed meanwhile raises KeyError, and stays removed.
Succeeded(t) ==
    /\ task[t].pc = "request"
    /\ IF active = NoManifest THEN UNCHANGED <<health, registry>>
       ELSE /\ health' = "ready"
            /\ registry' = IF task[t].kind = "call" THEN registry
                           ELSE IF enabled THEN "on" ELSE "off"
    /\ Leave(t)
    /\ End(t)
    /\ UNCHANGED <<manifestVars, registration, enabled, client>>

MarkFailed(t) ==
    /\ IF active = NoManifest THEN UNCHANGED <<health, registry>>
       ELSE /\ health' = IF task[t].kind = "call" THEN "degraded" ELSE "error"
            /\ registry' = Hidden
    /\ End(t)
    /\ UNCHANGED <<manifestVars, registration, enabled, queue>>

\* The persistent client is dropped, whoever uses it by now, and closed.
DropClient(t) ==
    /\ task[t].pc = "bad" /\ active \in Persistent
    /\ client' = 0
    /\ Becomes(t, "dropping")
    /\ UNCHANGED <<manifestVars, managerVars, queue, op>>

RecordFailure(t) ==
    /\ task[t].pc = "dropping" \/ (task[t].pc = "bad" /\ active \notin Persistent)
    /\ MarkFailed(t)
    /\ UNCHANGED client

-----------------------------------------------------------------------------
(* rescan, reload, enable and disable under the runtime lock *)

Ready == op = NoOp /\ task[Operation] = Idle

\* close_provider_session, then what the operation does next.
StartClosing(next, m) ==
    /\ op' = [next |-> next, manifest |-> m]
    /\ task' = [task EXCEPT ![Operation] =
                  [pc |-> "lock", kind |-> "close", lock |-> registration, source |-> 0]]
    /\ Join(Operation, registration)

StartDiscovery ==
    /\ op' = [next |-> "discover", manifest |-> NoManifest]
    /\ task' = [task EXCEPT ![Operation] = [Idle EXCEPT !.pc = "begin", !.kind = "discover"]]

\* Mutant: the re-registered provider is enabled, whatever disable said.
RegisterEnabled(m, off) ==
    /\ registration' = registration + 1
    /\ active' = m
    /\ enabled' = TRUE
    /\ health' = "configured"
    /\ registry' = Hidden
    /\ StartDiscovery

\* _register_manifest, and the discovery that follows unless it is disabled.
Register(m, off) ==
    /\ registration' = registration + 1
    /\ active' = m
    /\ enabled' = ~off
    /\ health' = "configured"
    /\ registry' = Hidden
    /\ IF off THEN End(Operation) ELSE StartDiscovery

\* The provider is re-registered, after its session is closed if it has one.
Reregister(m, off) ==
    /\ registration < MaxRegistrations
    /\ IF active = NoManifest
       THEN Register(m, off) /\ UNCHANGED queue
       ELSE StartClosing("register", m) /\ UNCHANGED <<managerVars, active>>

\* set_provider_enabled(True)
SwitchOn ==
    /\ enabled' = TRUE
    /\ registry' = IF registry # "absent" /\ health = "ready" THEN "on" ELSE Hidden
    /\ UNCHANGED <<registration, health>>

\* An enabled provider is discovered again unless it is ready.
DiscoverUnlessReady ==
    /\ IF health = "ready" THEN UNCHANGED <<op, task>> ELSE StartDiscovery
    /\ UNCHANGED <<active, queue>>

Desired == disk \in Startable /\ (disk \in Autostart \/ forcedOn)

Rescan ==
    /\ Ready
    /\ forcedOn' = (forcedOn /\ disk # NoManifest)
    /\ forcedOff' = (forcedOff /\ disk # NoManifest)
    /\ vetoed' = (vetoed /\ disk # NoManifest)
    /\ \/ /\ ~Desired /\ active = NoManifest
          /\ UNCHANGED <<managerVars, active, queue, task, op>>
       \/ /\ ~Desired /\ active # NoManifest
          /\ StartClosing("remove", NoManifest)
          /\ UNCHANGED <<managerVars, active>>
       \/ Desired /\ disk # active /\ Reregister(disk, forcedOff)
       \/ /\ Desired /\ disk = active /\ forcedOff
          /\ IF enabled THEN StartClosing("off", NoManifest) ELSE UNCHANGED <<queue, task, op>>
          /\ UNCHANGED <<managerVars, active>>
       \/ /\ Desired /\ disk = active /\ ~forcedOff
          /\ IF enabled THEN UNCHANGED managerVars ELSE SwitchOn
          /\ DiscoverUnlessReady
    /\ UNCHANGED <<disk, client>>

Reload ==
    /\ Ready
    /\ disk # NoManifest
    /\ active # NoManifest \/ disk \in Autostart \/ forcedOn
    /\ Reregister(disk, forcedOff)
    /\ UNCHANGED <<disk, forcedOn, forcedOff, vetoed, client>>

Enable ==
    /\ Ready
    /\ disk \in Startable
    /\ forcedOff' = FALSE /\ forcedOn' = TRUE /\ vetoed' = FALSE
    /\ IF forcedOff \/ active # disk THEN Reregister(disk, FALSE)
       ELSE SwitchOn /\ DiscoverUnlessReady
    /\ UNCHANGED <<disk, client>>

Disable ==
    /\ Ready
    /\ active # NoManifest
    /\ forcedOff' = TRUE /\ forcedOn' = FALSE
    /\ StartClosing("off", NoManifest)
    /\ UNCHANGED <<disk, active, vetoed, managerVars, client>>

\* remove_provider and add_provider refuse while a persistent client is there.
Closed ==
    /\ task[Operation].pc = "closing"
    /\ Leave(Operation)
    /\ \/ /\ op.next = "remove" /\ client = 0
          /\ active' = NoManifest /\ enabled' = FALSE
          /\ health' = "none" /\ registry' = "absent"
          /\ End(Operation)
          /\ UNCHANGED <<registration, vetoed>>
       \/ /\ op.next = "register" /\ client = 0
          /\ Register(op.manifest, forcedOff)
          /\ UNCHANGED vetoed
       \/ /\ op.next \in {"remove", "register"} /\ client # 0
          /\ End(Operation)
          /\ UNCHANGED <<managerVars, active, vetoed>>
       \/ /\ op.next = "off"
          /\ enabled' = FALSE /\ registry' = Hidden /\ vetoed' = TRUE
          /\ End(Operation)
          /\ UNCHANGED <<registration, health, active>>
    /\ UNCHANGED <<disk, forcedOn, forcedOff, client>>

\* The manifest file is written or deleted.
EditManifest ==
    /\ \E m \in (Manifests \cup {NoManifest}) \ {disk} : disk' = m
    /\ UNCHANGED <<active, forcedOn, forcedOff, vetoed, managerVars, taskVars>>

-----------------------------------------------------------------------------
TaskStep(t) ==
    \/ Call(t) \/ Discover(t) \/ Locked(t) \/ Connected(t) \/ Failed(t) \/ Abandoned(t)
    \/ Succeeded(t) \/ DropClient(t) \/ RecordFailure(t)

Next ==
    \/ \E t \in Tasks : TaskStep(t)
    \/ Rescan \/ Reload \/ Enable \/ Disable \/ Closed \/ EditManifest

Spec == Init /\ [][Next]_vars

-----------------------------------------------------------------------------
(* src/docs/provider_lifecycle.md: what the registry offers is callable.    *)
(* Whatever calls, probes and hot-plug operations interleave, an available  *)
(* capability belongs to a registered, enabled provider in state ready.     *)
AvailableIsReady ==
    registry = "on" => active # NoManifest /\ enabled /\ health = "ready"

(* Once a disable has taken effect, no late discovery, late call, rescan or *)
(* reload makes the provider available again before it is enabled.          *)
VetoHolds == vetoed => ~enabled /\ registry # "on"

(* rescan "also recovers an unchanged selected provider whose transport     *)
(* previously failed, without disturbing ready ones": so a provider that a  *)
(* rescan leaves alone is available.  A call that succeeds after another    *)
(* failed, or after a reload, restores the state but not the registry.      *)
RescanLeavesAlone ==
    Ready /\ Desired /\ disk = active /\ ~forcedOff /\ enabled /\ health = "ready"

RescanRecovers == RescanLeavesAlone => registry = "on"

(* close_provider_session: "Release it on explicit disable, reload and      *)
(* removal".  A call that waited for the lock behind the closing disable    *)
(* opens a new persistent client on the disabled provider.                  *)
DisableReleases ==
    vetoed /\ (\A t \in Tasks : task[t] = Idle) => client = 0
=============================================================================
