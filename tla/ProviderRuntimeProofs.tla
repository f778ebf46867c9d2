----------------------- MODULE ProviderRuntimeProofs -----------------------
(***************************************************************************)
(* Why what the registry offers is callable, why a disable holds, and why  *)
(* a task stands at its own lock and at no other, for every set of         *)
(* manifests, callers and registrations.                                   *)
(*                                                                         *)
(* The first two need no lock: they hold at every await, whatever the      *)
(* tasks do there.  AvailableIsReady is inductive.  VetoHolds is not: a    *)
(* rescan enables a provider that is not in _forced_disabled, so one has   *)
(* to know that it still is there while a veto lasts, and already while    *)
(* the operation that will disable it closes the session.                  *)
(*                                                                         *)
(* The queues (LockInv) need that a task outside the part under the lock   *)
(* has none, so that it never joins a second queue or the same one twice,  *)
(* and that a re-registration still has its number when the session closed.*)
(***************************************************************************)
EXTENDS ProviderRuntime, SequenceTheorems, TLAPS

VetoIsForced == vetoed \/ op.next = "off" => forcedOff

Flags == vetoed \in BOOLEAN /\ forcedOff \in BOOLEAN /\ enabled \in BOOLEAN

ProviderInv ==
    /\ AvailableIsReady
    /\ VetoHolds
    /\ VetoIsForced
    /\ Flags

\* A step of a call, a probe or a discovery changes what is offered at most as
\* discover_provider does on success (the provider is offered if it is
\* enabled), or hides it; and it never touches what was forced.
OffersNoMore ==
    /\ UNCHANGED <<active, enabled, forcedOff, vetoed>>
    /\ \/ UNCHANGED <<registry, health>>
       \/ registry' # "on"
       \/ health' = "ready" /\ registry' = registry
       \/ health' = "ready" /\ registry' = "on" /\ enabled /\ active # NoManifest
    /\ op'.next = "off" => op.next = "off"

-----------------------------------------------------------------------------
\* _set_registry_available(False) never offers the provider.
LEMMA HiddenIsNotOn == Hidden # "on"
  BY DEF Hidden

\* End leaves the operation alone or ends it.
LEMMA EndKeepsOp ==
  ASSUME NEW t, End(t)
  PROVE  op'.next = "off" => op.next = "off"
  BY DEF End, NoOp

\* Every await of a call, a probe or a discovery, and what it records after it.
LEMMA TaskOffersNoMore ==
  ASSUME NEW t \in Tasks, TaskStep(t)
  PROVE  OffersNoMore
<1>1. CASE Call(t) \/ Discover(t) \/ Locked(t) \/ Connected(t) \/ Failed(t) \/ DropClient(t)
  BY <1>1 DEF Call, Discover, Locked, Connected, Failed, DropClient, OffersNoMore,
              manifestVars, managerVars
<1>2. CASE Abandoned(t)
  BY <1>2, EndKeepsOp DEF Abandoned, OffersNoMore, manifestVars, managerVars
<1>3. CASE Succeeded(t)
  BY <1>3, EndKeepsOp DEF Succeeded, OffersNoMore, manifestVars
<1>4. CASE RecordFailure(t)
  BY <1>4, EndKeepsOp, HiddenIsNotOn
  DEF RecordFailure, MarkFailed, OffersNoMore, manifestVars
<1> QED
  BY <1>1, <1>2, <1>3, <1>4 DEF TaskStep

\* A registered provider is hidden until its discovery, and enabled only if it
\* was not forced off.
LEMMA RegisterHides ==
  ASSUME NEW m, NEW off \in BOOLEAN, Register(m, off)
  PROVE  /\ registry' # "on"
         /\ enabled' = ~off
         /\ op'.next # "off"
  BY HiddenIsNotOn DEF Register, StartDiscovery, End, NoOp

\* Re-registering either does that at once, or closes the session first.
LEMMA ReregisterHides ==
  ASSUME NEW m, NEW off \in BOOLEAN, Reregister(m, off)
  PROVE  /\ op'.next # "off"
         /\ \/ UNCHANGED <<enabled, health, registry, active>>
            \/ registry' # "on" /\ enabled' = ~off
  BY RegisterHides DEF Reregister, StartClosing, managerVars

\* Enabling offers a provider only in state ready.
LEMMA SwitchOnOffers ==
  ASSUME SwitchOn
  PROVE  /\ enabled' = TRUE /\ UNCHANGED health
         /\ registry' = "on" => health = "ready"
  BY HiddenIsNotOn DEF SwitchOn

\* The discovery that enable starts does not end as a disable does.
LEMMA DiscoveryIsNotOff ==
  ASSUME DiscoverUnlessReady
  PROVE  op' = op \/ op'.next # "off"
  BY DEF DiscoverUnlessReady, StartDiscovery

-----------------------------------------------------------------------------
(* The operations of ExternalProviderRuntime, one by one.                   *)

LEMMA InitHolds == ASSUME ProviderAssumption, Init PROVE ProviderInv
  BY DEF ProviderAssumption, Init, ProviderInv, AvailableIsReady, VetoHolds, VetoIsForced,
         Flags, NoOp

LEMMA RescanKeeps == ASSUME ProviderAssumption, ProviderInv, Rescan PROVE ProviderInv'
<1> USE DEF ProviderInv, Flags
<1>1. /\ op.next = "none"
      /\ forcedOff' = (forcedOff /\ disk # NoManifest)
      /\ vetoed' = (vetoed /\ disk # NoManifest)
  BY DEF Rescan, Ready, NoOp
<1>2. vetoed => forcedOff
  BY DEF VetoIsForced
<1>3. CASE ~Desired /\ UNCHANGED <<managerVars, active, op>>
  BY <1>1, <1>2, <1>3 DEF managerVars, AvailableIsReady, VetoHolds, VetoIsForced
<1>4. CASE ~Desired /\ StartClosing("remove", NoManifest) /\ UNCHANGED <<managerVars, active>>
  BY <1>1, <1>2, <1>4
  DEF StartClosing, managerVars, AvailableIsReady, VetoHolds, VetoIsForced
<1>5. CASE Desired /\ Reregister(disk, forcedOff)
  BY <1>1, <1>2, <1>5, ReregisterHides DEF AvailableIsReady, VetoHolds, VetoIsForced
<1>6. ASSUME Desired PROVE disk # NoManifest
  BY <1>6 DEF Desired, ProviderAssumption
<1>7. CASE /\ Desired /\ forcedOff
           /\ IF enabled THEN StartClosing("off", NoManifest) ELSE UNCHANGED <<queue, task, op>>
           /\ UNCHANGED <<managerVars, active>>
  BY <1>1, <1>2, <1>6, <1>7
  DEF StartClosing, managerVars, AvailableIsReady, VetoHolds, VetoIsForced
<1>8. CASE /\ Desired /\ disk = active /\ ~forcedOff
           /\ IF enabled THEN UNCHANGED managerVars ELSE SwitchOn
           /\ DiscoverUnlessReady
  <2>1. vetoed = FALSE /\ vetoed' = FALSE /\ active # NoManifest /\ UNCHANGED active
    BY <1>1, <1>2, <1>6, <1>8 DEF DiscoverUnlessReady
  <2>2. op'.next # "off"
    BY <1>1, <1>8, DiscoveryIsNotOff
  <2>3. AvailableIsReady' /\ enabled' \in BOOLEAN
    BY <1>8, <2>1, SwitchOnOffers DEF managerVars, AvailableIsReady
  <2> QED
    BY <1>1, <2>1, <2>2, <2>3 DEF VetoHolds, VetoIsForced
<1> QED
  BY <1>3, <1>4, <1>5, <1>7, <1>8 DEF Rescan

LEMMA ReloadKeeps == ASSUME ProviderInv, Reload PROVE ProviderInv'
  BY ReregisterHides
  DEF Reload, ProviderInv, Flags, AvailableIsReady, VetoHolds, VetoIsForced

LEMMA EnableKeeps == ASSUME ProviderAssumption, ProviderInv, Enable PROVE ProviderInv'
<1> USE DEF ProviderInv, Flags
<1>1. vetoed' = FALSE /\ forcedOff' = FALSE /\ disk # NoManifest /\ op.next # "off"
  BY DEF Enable, Ready, NoOp, ProviderAssumption
<1>2. CASE Reregister(disk, FALSE)
  BY <1>1, <1>2, ReregisterHides DEF AvailableIsReady, VetoHolds, VetoIsForced
<1>3. CASE active = disk /\ SwitchOn /\ DiscoverUnlessReady
  <2>1. UNCHANGED active /\ op'.next # "off"
    BY <1>1, <1>3, DiscoveryIsNotOff DEF DiscoverUnlessReady
  <2> QED
    BY <1>1, <1>3, <2>1, SwitchOnOffers DEF AvailableIsReady, VetoHolds, VetoIsForced
<1> QED
  BY <1>2, <1>3 DEF Enable

LEMMA DisableKeeps == ASSUME ProviderInv, Disable PROVE ProviderInv'
  BY DEF Disable, ProviderInv, Flags, AvailableIsReady, VetoHolds, VetoIsForced, managerVars

\* What follows the closing of the session.
LEMMA ClosedKeeps == ASSUME ProviderInv, Closed PROVE ProviderInv'
<1> USE DEF ProviderInv, Flags
<1>1. UNCHANGED forcedOff /\ (vetoed => forcedOff)
  BY DEF Closed, VetoIsForced
<1>2. CASE /\ op.next = "remove" /\ active' = NoManifest /\ enabled' = FALSE
           /\ registry' = "absent" /\ End(Operation) /\ UNCHANGED vetoed
  BY <1>1, <1>2, EndKeepsOp DEF AvailableIsReady, VetoHolds, VetoIsForced
<1>3. CASE Register(op.manifest, forcedOff) /\ UNCHANGED vetoed
  BY <1>1, <1>3, RegisterHides DEF AvailableIsReady, VetoHolds, VetoIsForced
<1>4. CASE End(Operation) /\ UNCHANGED <<managerVars, active, vetoed>>
  BY <1>1, <1>4, EndKeepsOp DEF managerVars, AvailableIsReady, VetoHolds, VetoIsForced
<1>5. CASE /\ op.next = "off" /\ enabled' = FALSE /\ registry' = Hidden /\ vetoed' = TRUE
           /\ End(Operation)
  BY <1>1, <1>5, HiddenIsNotOn DEF AvailableIsReady, VetoHolds, VetoIsForced
<1> QED
  BY <1>2, <1>3, <1>4, <1>5 DEF Closed

LEMMA NextKeeps ==
  ASSUME ProviderAssumption, ProviderInv, [Next]_vars
  PROVE  ProviderInv'
<1>1. ASSUME NEW t \in Tasks, TaskStep(t) PROVE ProviderInv'
  <2>1. OffersNoMore
    BY <1>1, TaskOffersNoMore
  <2> QED
    BY <2>1
    DEF OffersNoMore, ProviderInv, Flags, AvailableIsReady, VetoHolds, VetoIsForced
<1>2. CASE EditManifest \/ UNCHANGED vars
  BY <1>2 DEF EditManifest, vars, manifestVars, managerVars, taskVars, ProviderInv, Flags,
              AvailableIsReady, VetoHolds, VetoIsForced
<1> QED
  BY <1>1, <1>2, RescanKeeps, ReloadKeeps, EnableKeeps, DisableKeeps, ClosedKeeps DEF Next

-----------------------------------------------------------------------------
\* What is offered is callable, a disable holds, and it holds because the
\* provider stays in _forced_disabled.
THEOREM InvariantHolds == ASSUME ProviderAssumption PROVE Spec => []ProviderInv
  BY InitHolds, NextKeeps, PTL DEF Spec

\* Whatever calls, probes and operations interleave, the registry offers the
\* capabilities of call_tool only while call_tool would accept them.
THEOREM OfferedIsCallable == Spec => []AvailableIsReady
<1>1. ProviderInv => AvailableIsReady
  BY DEF ProviderInv
<1> QED
  BY <1>1, InvariantHolds, ProviderAssumption, PTL

\* Once disable has taken effect, nothing late offers the provider again.
THEOREM DisableHolds == Spec => []VetoHolds
<1>1. ProviderInv => VetoHolds
  BY DEF ProviderInv
<1> QED
  BY <1>1, InvariantHolds, ProviderAssumption, PTL

-----------------------------------------------------------------------------
(* The persistent-session locks and their queues *)

TaskPcs == {"idle", "begin", "lock", "connect", "request", "bad", "dropping", "closing"}
TaskRecord == [pc : TaskPcs, kind : {"none", "call", "discover", "close"},
               lock : 0..MaxRegistrations, source : 0..MaxRegistrations]

\* A task waits at a lock at one place.
Once(q) == \A i, j \in 1..Len(q) : q[i] = q[j] => i = j

\* A task stands in the queue of its lock, once, and has none outside the part
\* under it.
QueuesOK ==
    /\ queue \in [Registrations -> Seq(Tasks)]
    /\ \A r \in Registrations : Once(queue[r])
    /\ \A r \in Registrations : \A t \in Tasks :
          task[t].lock = r <=> t \in Range(queue[r])
    /\ task \in [Tasks -> TaskRecord]
    /\ \A t \in Tasks : task[t].pc \in {"idle", "begin", "bad", "dropping"} => task[t].lock = 0

LockInv ==
    /\ ProviderTypeOK /\ QueuesOK
    /\ active # NoManifest => registration \in Registrations
    /\ op.next = "register" => registration < MaxRegistrations

LEMMA FirstPlace ==
  ASSUME NEW S, NEW q \in Seq(S), NEW t, NEW i \in 1..Len(q), q[i] = t, Once(q)
  PROVE  RemoveFirst(q, t) = SubSeq(q, 1, i - 1) \o SubSeq(q, i + 1, Len(q))
<1>1. {j \in 1..Len(q) : q[j] = t} = {i}
  BY DEF Once
<1>2. SelectInSeq(q, LAMBDA v : v = t) = i
  BY <1>1 DEF SelectInSeq, Min
<1> QED
  BY <1>2 DEF RemoveFirst, RemoveAt

\* Leaving a queue takes the task out and nobody else.
LEMMA LeavesQueue ==
  ASSUME NEW S, NEW q \in Seq(S), NEW t, Once(q)
  PROVE  /\ RemoveFirst(q, t) \in Seq(S) /\ Once(RemoveFirst(q, t))
         /\ Range(RemoveFirst(q, t)) = Range(q) \ {t}
<1>1. CASE \A i \in 1..Len(q) : q[i] # t
  <2>1. RemoveFirst(q, t) = q
    BY <1>1 DEF RemoveFirst
  <2>2. t \notin Range(q)
    BY <1>1 DEF Range
  <2> QED
    BY <2>1, <2>2
<1>2. ASSUME NEW i \in 1..Len(q), q[i] = t
      PROVE  /\ RemoveFirst(q, t) \in Seq(S) /\ Once(RemoveFirst(q, t))
             /\ Range(RemoveFirst(q, t)) = Range(q) \ {t}
  <2> DEFINE p == SubSeq(q, 1, i - 1)  s == SubSeq(q, i + 1, Len(q))
  <2>0. i \in Nat /\ i >= 1 /\ i <= Len(q) /\ Len(q) \in Nat
    OBVIOUS
  <2>1. RemoveFirst(q, t) = p \o s
    BY <1>2, FirstPlace
  <2>2. p \in Seq(S) /\ Len(p) = i - 1 /\ \A j \in 1..(i - 1) : p[j] = q[j]
    BY <2>0
  <2>3. s \in Seq(S) /\ Len(s) = Len(q) - i /\ \A j \in 1..(Len(q) - i) : s[j] = q[i + j]
    BY <2>0
  <2> HIDE DEF p, s
  <2>4. PICK u : u = p \o s
    OBVIOUS
  <2>5. /\ u \in Seq(S) /\ Len(u) = Len(q) - 1
        /\ \A j \in 1..(i - 1) : u[j] = q[j]
        /\ \A j \in i..(Len(q) - 1) : u[j] = q[j + 1]
    <3>1. /\ u \in Seq(S) /\ Len(u) = Len(p) + Len(s)
          /\ \A j \in 1..Len(u) : u[j] = IF j <= Len(p) THEN p[j] ELSE s[j - Len(p)]
      <4>1. /\ p \o s \in Seq(S) /\ Len(p \o s) = Len(p) + Len(s)
            /\ \A j \in 1..Len(p) + Len(s) : (p \o s)[j] = IF j <= Len(p) THEN p[j] ELSE s[j - Len(p)]
        BY <2>2, <2>3, ConcatProperties
      <4> QED
        BY <2>4, <4>1
    <3>2. Len(u) = Len(q) - 1
      BY <2>0, <2>2, <2>3, <3>1
    <3>3. \A j \in 1..(i - 1) : u[j] = q[j]
      BY <2>0, <2>2, <3>1, <3>2
    <3>4. ASSUME NEW j \in i..(Len(q) - 1) PROVE u[j] = q[j + 1]
      <4>1. j \in 1..Len(u) /\ ~(j <= Len(p)) /\ j - Len(p) \in 1..(Len(q) - i) /\ i + (j - Len(p)) = j + 1
        BY <2>0, <2>2, <3>2
      <4>2. u[j] = s[j - Len(p)]
        BY <3>1, <4>1
      <4> QED
        BY <2>3, <4>1, <4>2
    <3> QED
      BY <3>1, <3>2, <3>3, <3>4
  <2>6. Once(u)
    <3>1. SUFFICES ASSUME NEW j \in 1..Len(u), NEW k \in 1..Len(u), u[j] = u[k] PROVE j = k
      BY DEF Once
    <3>2. \E a \in 1..Len(q) : a # i /\ u[j] = q[a] /\ j = IF a < i THEN a ELSE a - 1
      BY <2>0, <2>5, <3>1
    <3>3. \E b \in 1..Len(q) : b # i /\ u[k] = q[b] /\ k = IF b < i THEN b ELSE b - 1
      BY <2>0, <2>5, <3>1
    <3> QED
      BY <3>1, <3>2, <3>3 DEF Once
  <2>7. Range(u) = Range(q) \ {t}
    <3>1. ASSUME NEW j \in 1..Len(u) PROVE u[j] \in Range(q) \ {t}
      <4>1. \E a \in 1..Len(q) : a # i /\ u[j] = q[a]
        BY <2>0, <2>5
      <4> QED
        BY <1>2, <4>1 DEF Range, Once
    <3>2. ASSUME NEW a \in 1..Len(q), q[a] # t PROVE \E j \in 1..Len(u) : u[j] = q[a]
      <4>1. CASE a < i
        BY <2>0, <2>5, <4>1
      <4>2. CASE a > i
        <5>1. a - 1 \in 1..Len(u) /\ a - 1 \in i..(Len(q) - 1) /\ u[a - 1] = q[(a - 1) + 1] /\ (a - 1) + 1 = a
          BY <2>0, <2>5, <4>2
        <5> QED
          BY <5>1
      <4> QED
        BY <1>2, <3>2, <4>1, <4>2
    <3>3. Range(u) = {u[j] : j \in 1..Len(u)} /\ Range(q) = {q[a] : a \in 1..Len(q)}
      BY <2>5, RangeEquality
    <3>4. ASSUME NEW v \in Range(q) \ {t} PROVE v \in Range(u)
      BY <3>2, <3>3
    <3>5. ASSUME NEW v \in Range(u) PROVE v \in Range(q) \ {t}
      BY <3>1, <3>3
    <3> QED
      BY <3>4, <3>5
  <2> QED
    BY <2>1, <2>4, <2>5, <2>6, <2>7
<1> QED
  BY <1>1, <1>2

LEMMA JoinsQueue ==
  ASSUME NEW S, NEW q \in Seq(S), NEW t \in S, t \notin Range(q), Once(q)
  PROVE  /\ Append(q, t) \in Seq(S) /\ Once(Append(q, t))
         /\ Range(Append(q, t)) = Range(q) \cup {t}
<1>1. PICK u : u = Append(q, t)
  OBVIOUS
<1>2. /\ u \in Seq(S) /\ Len(u) = Len(q) + 1 /\ Len(q) \in Nat /\ u[Len(q) + 1] = t
      /\ \A j \in 1..Len(q) : u[j] = q[j]
  BY <1>1
<1>3. \A j \in 1..Len(q) : q[j] # t
  BY DEF Range
<1>4. Once(u)
  BY <1>2, <1>3 DEF Once
<1>5. DOMAIN u = 1..Len(u) /\ DOMAIN q = 1..Len(q)
  BY <1>2
<1>6. Range(u) = Range(q) \cup {t}
  BY <1>2, <1>5 DEF Range
<1> QED
  BY <1>1, <1>2, <1>4, <1>6

\* How a step of one task may change its place at the locks.
Places(t, new) ==
    /\ task' = [task EXCEPT ![t] = new] /\ new \in TaskRecord
    /\ new.pc \in {"idle", "begin", "bad", "dropping"} => new.lock = 0
    /\ \/ UNCHANGED queue /\ new.lock = task[t].lock
       \/ Leave(t) /\ new.lock = 0
       \/ task[t].lock = 0 /\ new.lock \in Registrations /\ Join(t, new.lock)

LEMMA PlacesKept ==
  ASSUME QueuesOK, NEW t \in Tasks, NEW new, Places(t, new)
  PROVE  QueuesOK' /\ task'[t] = new /\ \A u \in Tasks \ {t} : task'[u] = task[u]
<1>1. /\ task' \in [Tasks -> TaskRecord] /\ task'[t] = new
      /\ \A u \in Tasks \ {t} : task'[u] = task[u]
      /\ \A u \in Tasks : task'[u].pc \in {"idle", "begin", "bad", "dropping"} => task'[u].lock = 0
  BY DEF Places, QueuesOK
<1>2. SUFFICES /\ queue' \in [Registrations -> Seq(Tasks)]
               /\ \A r \in Registrations : Once(queue'[r])
               /\ \A r \in Registrations : \A u \in Tasks : task'[u].lock = r <=> u \in Range(queue'[r])
  BY <1>1 DEF QueuesOK, Once
<1>3. /\ queue \in [Registrations -> Seq(Tasks)]
      /\ \A r \in Registrations : queue[r] \in Seq(Tasks) /\ Once(queue[r])
      /\ \A r \in Registrations : \A u \in Tasks : task[u].lock = r <=> u \in Range(queue[r])
      /\ 0 \notin Registrations
  BY DEF QueuesOK, Registrations
<1>4. CASE UNCHANGED queue /\ new.lock = task[t].lock
  BY <1>1, <1>3, <1>4
<1>5. CASE Leave(t) /\ new.lock = 0
  <2>1. \A r \in Registrations : queue'[r] = RemoveFirst(queue[r], t)
    BY <1>5 DEF Leave
  <2>2. ASSUME NEW r \in Registrations
        PROVE  queue'[r] \in Seq(Tasks) /\ Once(queue'[r]) /\ Range(queue'[r]) = Range(queue[r]) \ {t}
    BY <1>3, <2>1, LeavesQueue
  <2>3. queue' = [r \in Registrations |-> queue'[r]]
    BY <1>5 DEF Leave
  <2>4. queue' \in [Registrations -> Seq(Tasks)]
    BY <2>2, <2>3
  <2>5. ASSUME NEW r \in Registrations, NEW u \in Tasks
        PROVE  task'[u].lock = r <=> u \in Range(queue'[r])
    BY <1>1, <1>3, <1>5, <2>2
  <2> QED
    BY <2>2, <2>4, <2>5
<1>6. CASE task[t].lock = 0 /\ new.lock \in Registrations /\ Join(t, new.lock)
  <2>1. /\ queue'[new.lock] = Append(queue[new.lock], t)
        /\ \A r \in Registrations \ {new.lock} : queue'[r] = queue[r]
    BY <1>3, <1>6 DEF Join
  <2>2. t \notin Range(queue[new.lock])
    BY <1>3, <1>6
  <2>3. /\ queue'[new.lock] \in Seq(Tasks) /\ Once(queue'[new.lock])
        /\ Range(queue'[new.lock]) = Range(queue[new.lock]) \cup {t}
    BY <1>3, <1>6, <2>1, <2>2, JoinsQueue
  <2>4. queue' \in [Registrations -> Seq(Tasks)]
    BY <1>3, <1>6, <2>1, <2>3 DEF Join
  <2>5. \A r \in Registrations : Once(queue'[r])
    BY <1>3, <2>1, <2>3
  <2>6. ASSUME NEW r \in Registrations, NEW u \in Tasks
        PROVE  task'[u].lock = r <=> u \in Range(queue'[r])
    <3>1. CASE r = new.lock
      BY <1>1, <1>3, <1>6, <2>3, <3>1
    <3>2. CASE r # new.lock
      BY <1>1, <1>3, <1>6, <2>1, <3>2
    <3> QED
      BY <3>1, <3>2
  <2> QED
    BY <2>4, <2>5, <2>6
<1> QED
  BY <1>4, <1>5, <1>6 DEF Places

\* What is recorded of the provider beside its tasks.
RecordsOK ==
    /\ disk \in Manifests \cup {NoManifest} /\ active \in Manifests \cup {NoManifest}
    /\ forcedOn \in BOOLEAN /\ forcedOff \in BOOLEAN /\ vetoed \in BOOLEAN
    /\ registration \in 0..MaxRegistrations
    /\ enabled \in BOOLEAN
    /\ health \in {"none", "configured", "ready", "error", "degraded"}
    /\ registry \in {"absent", "off", "on"}
    /\ client \in 0..MaxRegistrations
    /\ active # NoManifest => registration \in Registrations

OperationOK ==
    /\ op \in [next : {"none", "remove", "register", "off", "discover"},
               manifest : Manifests \cup {NoManifest}]
    /\ op = NoOp <=> task[Operation] = Idle
    /\ op.next = "register" => registration < MaxRegistrations

LEMMA LockInvParts ==
  /\ LockInv <=> RecordsOK /\ OperationOK /\ QueuesOK
  /\ LockInv' <=> RecordsOK' /\ OperationOK' /\ QueuesOK'
BY DEF LockInv, ProviderTypeOK, RecordsOK, OperationOK, QueuesOK, TaskRecord, TaskPcs

\* The step of a task ends it, and the operation if it is its task, or goes on.
Moves(t, new) ==
    /\ Places(t, new)
    /\ \/ new = Idle /\ op' = (IF t = Operation THEN NoOp ELSE op)
       \/ new # Idle /\ op' = op /\ (t = Operation => task[t] # Idle)

LEMMA IdleRecord == Idle \in TaskRecord /\ Idle.pc = "idle" /\ Idle.lock = 0
BY ProviderAssumption DEF Idle, TaskRecord, TaskPcs, ProviderAssumption

LEMMA EndMoves ==
  ASSUME NEW t \in Tasks, End(t), Leave(t) \/ (UNCHANGED queue /\ task[t].lock = 0)
  PROVE  Moves(t, Idle)
BY IdleRecord DEF End, Moves, Places

\* A task that is on its way and takes the next step.
LEMMA StepMoves ==
  ASSUME RecordsOK, QueuesOK, NEW t \in Tasks, task[t].pc # "idle", NEW pc \in TaskPcs \ {"idle"},
         NEW s \in 0..MaxRegistrations, UNCHANGED op,
         \/ /\ Becomes(t, pc) /\ UNCHANGED queue
            /\ pc \in {"begin", "bad", "dropping"} => task[t].lock = 0
         \/ /\ task' = [task EXCEPT ![t].pc = pc, ![t].source = s] /\ UNCHANGED queue
            /\ pc \notin {"begin", "bad", "dropping"}
         \/ Unlock(t, pc)
  PROVE  \E new : Moves(t, new)
<1>1. PICK old : old = task[t]
  OBVIOUS
<1>2. old \in TaskRecord /\ old # Idle /\ task \in [Tasks -> TaskRecord] /\ 0 \in 0..MaxRegistrations
  BY <1>1, IdleRecord, ProviderAssumption DEF QueuesOK, ProviderAssumption
<1>3. /\ Becomes(t, pc) => task' = [task EXCEPT ![t] = [old EXCEPT !.pc = pc]]
      /\ task' = [task EXCEPT ![t].pc = pc, ![t].source = s] =>
            task' = [task EXCEPT ![t] = [old EXCEPT !.pc = pc, !.source = s]]
      /\ Unlock(t, pc) => task' = [task EXCEPT ![t] = [old EXCEPT !.pc = pc, !.lock = 0]] /\ Leave(t)
  BY <1>1, <1>2 DEF Becomes, Unlock
<1>4. /\ [old EXCEPT !.pc = pc] \in TaskRecord /\ [old EXCEPT !.pc = pc] # Idle
      /\ [old EXCEPT !.pc = pc].pc = pc /\ [old EXCEPT !.pc = pc].lock = old.lock
  BY <1>2, IdleRecord DEF TaskRecord
<1>5. /\ [old EXCEPT !.pc = pc, !.source = s] \in TaskRecord /\ [old EXCEPT !.pc = pc, !.source = s] # Idle
      /\ [old EXCEPT !.pc = pc, !.source = s].pc = pc /\ [old EXCEPT !.pc = pc, !.source = s].lock = old.lock
  BY <1>2, IdleRecord DEF TaskRecord
<1>6. /\ [old EXCEPT !.pc = pc, !.lock = 0] \in TaskRecord /\ [old EXCEPT !.pc = pc, !.lock = 0] # Idle
      /\ [old EXCEPT !.pc = pc, !.lock = 0].lock = 0
  BY <1>2, IdleRecord DEF TaskRecord
<1>7. task[t] # Idle
  BY <1>1, <1>2
<1>8. ASSUME NEW new \in TaskRecord, new # Idle, task' = [task EXCEPT ![t] = new],
             \/ UNCHANGED queue /\ new.lock = task[t].lock /\ (new.pc \notin {"idle", "begin", "bad", "dropping"} \/ new.lock = 0)
             \/ Leave(t) /\ new.lock = 0
      PROVE  Moves(t, new)
  BY <1>7, <1>8 DEF Moves, Places
<1>9. CASE /\ Becomes(t, pc) /\ UNCHANGED queue
           /\ pc \in {"begin", "bad", "dropping"} => task[t].lock = 0
  BY <1>1, <1>3, <1>4, <1>8, <1>9
<1>10. CASE /\ task' = [task EXCEPT ![t].pc = pc, ![t].source = s] /\ UNCHANGED queue
            /\ pc \notin {"begin", "bad", "dropping"}
  BY <1>1, <1>3, <1>5, <1>8, <1>10
<1>11. CASE Unlock(t, pc)
  BY <1>3, <1>6, <1>8, <1>11
<1> QED
  BY <1>9, <1>10, <1>11

LEMMA EnterMoves ==
  ASSUME RecordsOK, QueuesOK, NEW t \in Tasks, task[t].pc \in {"idle", "begin"},
         t = Operation => task[t].pc = "begin",
         NEW kind \in {"call", "discover"}, Enter(t, kind), UNCHANGED op
  PROVE  \E new : Moves(t, new)
<1>1. task[t].lock = 0 /\ (t = Operation => task[t] # Idle) /\ registration \in 0..MaxRegistrations /\ 0 \in 0..MaxRegistrations
  BY IdleRecord, ProviderAssumption DEF QueuesOK, RecordsOK, ProviderAssumption
<1>2. CASE active \in Persistent
  <2> DEFINE new == [pc |-> "lock", kind |-> kind, lock |-> registration, source |-> 0]
  <2>1. registration \in Registrations
    BY <1>2, ProviderAssumption DEF RecordsOK, ProviderAssumption
  <2>2. new \in TaskRecord /\ new # Idle /\ new.lock = registration /\ new.pc = "lock"
    BY <1>1, IdleRecord DEF TaskRecord, TaskPcs
  <2>3. task' = [task EXCEPT ![t] = new] /\ Join(t, registration)
    BY <1>2 DEF Enter
  <2> HIDE DEF new
  <2> QED
    BY <1>1, <2>1, <2>2, <2>3 DEF Moves, Places
<1>3. CASE active \notin Persistent
  <2> DEFINE new == [pc |-> "request", kind |-> kind, lock |-> 0, source |-> registration]
  <2>1. new \in TaskRecord /\ new # Idle /\ new.lock = 0 /\ new.pc = "request"
    BY <1>1, IdleRecord DEF TaskRecord, TaskPcs
  <2>2. task' = [task EXCEPT ![t] = new] /\ UNCHANGED queue
    BY <1>3 DEF Enter
  <2> HIDE DEF new
  <2> QED
    BY <1>1, <2>1, <2>2 DEF Moves, Places
<1> QED
  BY <1>2, <1>3

\* Every await of a task, and what it records after it.
LEMMA TaskMoves ==
  ASSUME LockInv, NEW t \in Tasks, TaskStep(t)
  PROVE  \E new : Moves(t, new)
<1>0. RecordsOK /\ OperationOK /\ QueuesOK
  BY LockInvParts
<1>1. 0 \in 0..MaxRegistrations /\ registration \in 0..MaxRegistrations /\ Operation \notin Callers
  BY <1>0, ProviderAssumption DEF RecordsOK, ProviderAssumption
<1>2. task[t].pc \in {"idle", "begin", "bad", "dropping"} => task[t].lock = 0
  BY <1>0 DEF QueuesOK
<1>3. CASE Call(t)
  BY <1>0, <1>1, <1>3, EnterMoves, IdleRecord DEF Call
<1>4. CASE Discover(t)
  BY <1>0, <1>1, <1>4, EnterMoves, IdleRecord DEF Discover
<1>5. CASE Locked(t)
  <2>1. task[t].pc = "lock" /\ UNCHANGED op
    BY <1>5 DEF Locked
  <2>2. \/ Becomes(t, "closing") /\ UNCHANGED queue
        \/ Becomes(t, "request") /\ UNCHANGED queue
        \/ task' = [task EXCEPT ![t].pc = "connect", ![t].source = registration] /\ UNCHANGED queue
        \/ Unlock(t, "bad")
    BY <1>5 DEF Locked
  <2>3. {"closing", "request", "connect", "bad"} \subseteq TaskPcs \ {"idle"}
    BY DEF TaskPcs
  <2> QED
    BY <1>0, <1>1, <2>1, <2>2, <2>3, StepMoves
<1>6. CASE Connected(t)
  <2>1. task[t].pc = "connect" /\ UNCHANGED op /\ Becomes(t, "request") /\ UNCHANGED queue
    BY <1>6 DEF Connected
  <2>2. "request" \in TaskPcs \ {"idle"} /\ "request" \notin {"begin", "bad", "dropping"}
    BY DEF TaskPcs
  <2> QED
    BY <1>0, <1>1, <2>1, <2>2, StepMoves
<1>7. CASE Failed(t)
  BY <1>0, <1>1, <1>7, StepMoves DEF Failed, TaskPcs
<1>8. CASE DropClient(t)
  BY <1>0, <1>1, <1>2, <1>8, StepMoves DEF DropClient, TaskPcs
<1>9. CASE Abandoned(t) \/ Succeeded(t)
  BY <1>9, EndMoves DEF Abandoned, Succeeded
<1>10. CASE RecordFailure(t)
  BY <1>2, <1>10, EndMoves DEF RecordFailure, MarkFailed
<1> QED
  BY <1>3, <1>4, <1>5, <1>6, <1>7, <1>8, <1>9, <1>10 DEF TaskStep

\* What a move leaves of the locks and of the operation.
LEMMA MovesKeep ==
  ASSUME OperationOK, QueuesOK, NEW t \in Tasks, NEW new, Moves(t, new), registration' = registration
  PROVE  QueuesOK' /\ OperationOK'
<1>1. QueuesOK' /\ task'[t] = new /\ \A u \in Tasks \ {t} : task'[u] = task[u]
  BY PlacesKept DEF Moves
<1>2. Operation \in Tasks /\ NoOp.next = "none" /\ NoOp \in
         [next : {"none", "remove", "register", "off", "discover"}, manifest : Manifests \cup {NoManifest}]
  BY DEF Tasks, NoOp
<1>3. CASE new = Idle /\ op' = (IF t = Operation THEN NoOp ELSE op)
  <2>1. CASE t = Operation
    BY <1>1, <1>2, <1>3, <2>1 DEF OperationOK
  <2>2. CASE t # Operation
    BY <1>1, <1>2, <1>3, <2>2 DEF OperationOK
  <2> QED
    BY <2>1, <2>2
<1>4. CASE new # Idle /\ op' = op /\ (t = Operation => task[t] # Idle)
  <2>1. task'[Operation] = Idle <=> task[Operation] = Idle
    BY <1>1, <1>2, <1>4
  <2> QED
    BY <1>1, <1>4, <2>1 DEF OperationOK
<1> QED
  BY <1>3, <1>4 DEF Moves

LEMMA TaskRecordsKept ==
  ASSUME RecordsOK, QueuesOK, NEW t \in Tasks, TaskStep(t)
  PROVE  RecordsOK' /\ registration' = registration
<1>0. task[t] \in TaskRecord /\ 0 \in 0..MaxRegistrations
  BY ProviderAssumption DEF QueuesOK, ProviderAssumption
<1> USE DEF RecordsOK, manifestVars, managerVars
<1>1. CASE Call(t) \/ Discover(t) \/ Failed(t) \/ Abandoned(t)
  BY <1>1 DEF Call, Discover, Failed, Abandoned
<1>2. CASE Locked(t) \/ DropClient(t)
  BY <1>0, <1>2 DEF Locked, DropClient
<1>3. CASE Connected(t)
  BY <1>0, <1>3 DEF Connected, TaskRecord
<1>4. CASE Succeeded(t)
  BY <1>4 DEF Succeeded
<1>5. CASE RecordFailure(t)
  BY <1>5 DEF RecordFailure, MarkFailed, Hidden
<1> QED
  BY <1>1, <1>2, <1>3, <1>4, <1>5 DEF TaskStep

-----------------------------------------------------------------------------
(* The operations *)

\* What an operation does to its own task, its queue and op.
Operates ==
    \/ UNCHANGED <<queue, task, op>>
    \/ \E next \in {"remove", "off", "register"}, m \in Manifests \cup {NoManifest} :
          /\ Ready /\ active # NoManifest /\ UNCHANGED registration
          /\ next = "register" => registration < MaxRegistrations
          /\ StartClosing(next, m)
    \/ (StartDiscovery \/ End(Operation))
       /\ \/ UNCHANGED queue /\ task[Operation] = Idle
          \/ Leave(Operation)

LEMMA OperatesKeeps ==
  ASSUME RecordsOK, OperationOK, QueuesOK, Operates,
         UNCHANGED registration \/ op'.next # "register"
  PROVE  QueuesOK' /\ OperationOK'
<1>0. /\ Operation \in Tasks /\ 0 \in 0..MaxRegistrations /\ Idle.lock = 0
      /\ op = NoOp <=> task[Operation] = Idle
  BY IdleRecord, ProviderAssumption DEF Tasks, ProviderAssumption, OperationOK
<1>1. CASE UNCHANGED <<queue, task, op>>
  BY <1>1 DEF QueuesOK, OperationOK
<1>2. ASSUME NEW next \in {"remove", "off", "register"}, NEW m \in Manifests \cup {NoManifest},
             Ready, active # NoManifest, UNCHANGED registration,
             next = "register" => registration < MaxRegistrations, StartClosing(next, m)
      PROVE  QueuesOK' /\ OperationOK'
  <2> DEFINE new == [pc |-> "lock", kind |-> "close", lock |-> registration, source |-> 0]
  <2>1. registration \in Registrations /\ registration \in 0..MaxRegistrations
    BY <1>2 DEF RecordsOK
  <2>2. new \in TaskRecord /\ new # Idle /\ new.lock = registration /\ new.pc = "lock"
    BY <1>0, <2>1 DEF TaskRecord, TaskPcs, Idle
  <2>3. task' = [task EXCEPT ![Operation] = new] /\ Join(Operation, registration)
        /\ op' = [next |-> next, manifest |-> m]
    BY <1>2 DEF StartClosing
  <2>4. task[Operation].lock = 0
    BY <1>0, <1>2 DEF Ready
  <2> HIDE DEF new
  <2>5. Places(Operation, new)
    BY <2>1, <2>2, <2>3, <2>4 DEF Places
  <2>6. QueuesOK' /\ task'[Operation] = new
    BY <1>0, <2>5, PlacesKept
  <2>7. op' # NoOp /\ op'.next = next
        /\ op' \in [next : {"none", "remove", "register", "off", "discover"},
                    manifest : Manifests \cup {NoManifest}]
    BY <2>3 DEF NoOp
  <2> QED
    BY <1>2, <2>2, <2>6, <2>7 DEF OperationOK
<1>3. CASE /\ StartDiscovery \/ End(Operation)
           /\ \/ UNCHANGED queue /\ task[Operation] = Idle
              \/ Leave(Operation)
  <2> DEFINE began == [Idle EXCEPT !.pc = "begin", !.kind = "discover"]
  <2>1. began \in TaskRecord /\ began # Idle /\ began.lock = 0 /\ began.pc = "begin"
    BY <1>0 DEF TaskRecord, TaskPcs, Idle
  <2>2. \/ task' = [task EXCEPT ![Operation] = began] /\ op' = [next |-> "discover", manifest |-> NoManifest]
        \/ task' = [task EXCEPT ![Operation] = Idle] /\ op' = NoOp
    BY <1>3 DEF StartDiscovery, End
  <2> HIDE DEF began
  <2>3. CASE task' = [task EXCEPT ![Operation] = began] /\ op' = [next |-> "discover", manifest |-> NoManifest]
    <3>1. Places(Operation, began)
      BY <1>0, <1>3, <2>1, <2>3 DEF Places
    <3>2. QueuesOK' /\ task'[Operation] = began
      BY <1>0, <3>1, PlacesKept
    <3>3. op' # NoOp /\ op'.next = "discover"
          /\ op' \in [next : {"none", "remove", "register", "off", "discover"},
                      manifest : Manifests \cup {NoManifest}]
      BY <2>3 DEF NoOp
    <3> QED
      BY <2>1, <3>2, <3>3 DEF OperationOK
  <2>4. CASE task' = [task EXCEPT ![Operation] = Idle] /\ op' = NoOp
    <3>1. Places(Operation, Idle)
      BY <1>0, <1>3, <2>4, IdleRecord DEF Places
    <3>2. QueuesOK' /\ task'[Operation] = Idle
      BY <1>0, <3>1, PlacesKept
    <3>3. op' = NoOp /\ op'.next = "none"
          /\ op' \in [next : {"none", "remove", "register", "off", "discover"},
                      manifest : Manifests \cup {NoManifest}]
      BY <2>4 DEF NoOp
    <3> QED
      BY <3>2, <3>3 DEF OperationOK
  <2> QED
    BY <2>2, <2>3, <2>4
<1> QED
  BY <1>1, <1>2, <1>3 DEF Operates

\* How the provider is registered and shown.
ShownOK ==
    /\ active \in Manifests \cup {NoManifest}
    /\ registration \in 0..MaxRegistrations
    /\ enabled \in BOOLEAN
    /\ health \in {"none", "configured", "ready", "error", "degraded"}
    /\ registry \in {"absent", "off", "on"}
    /\ active # NoManifest => registration \in Registrations

\* What an operation does, all in all.
OperationStep ==
    Operates /\ ShownOK' /\ (UNCHANGED registration \/ op'.next # "register")

LEMMA HiddenTypes == RecordsOK => ShownOK /\ Hidden \in {"absent", "off"}
BY DEF RecordsOK, ShownOK, Hidden

LEMMA RegisterKeeps ==
  ASSUME RecordsOK, NEW m \in Manifests \cup {NoManifest}, NEW off \in BOOLEAN,
         registration < MaxRegistrations, Register(m, off)
  PROVE  /\ ShownOK' /\ op'.next # "register"
         /\ StartDiscovery \/ End(Operation)
<1>1. /\ registration' = registration + 1 /\ active' = m /\ enabled' = ~off
      /\ health' = "configured" /\ registry' = Hidden
      /\ StartDiscovery \/ End(Operation)
  BY DEF Register
<1>2. registration' \in 0..MaxRegistrations /\ registration' \in Registrations
  BY <1>1, ProviderAssumption DEF RecordsOK, Registrations, ProviderAssumption
<1>3. ShownOK'
  BY <1>1, <1>2, HiddenTypes DEF ShownOK
<1>4. op'.next # "register"
  BY <1>1 DEF StartDiscovery, End, NoOp
<1> QED
  BY <1>1, <1>3, <1>4

LEMMA ReregisterKeeps ==
  ASSUME RecordsOK, Ready, NEW m \in Manifests \cup {NoManifest}, NEW off \in BOOLEAN, Reregister(m, off)
  PROVE  OperationStep
<1>1. CASE active = NoManifest /\ Register(m, off) /\ UNCHANGED queue
  <2>1. registration < MaxRegistrations /\ task[Operation] = Idle
    BY DEF Reregister, Ready
  <2> QED
    BY <1>1, <2>1, RegisterKeeps DEF OperationStep, Operates
<1>2. CASE active # NoManifest /\ StartClosing("register", m) /\ UNCHANGED <<managerVars, active>>
  <2>1. registration < MaxRegistrations
    BY DEF Reregister
  <2>2. UNCHANGED registration /\ ShownOK'
    BY <1>2, HiddenTypes DEF managerVars, ShownOK
  <2> QED
    BY <1>2, <2>1, <2>2 DEF OperationStep, Operates
<1> QED
  BY <1>1, <1>2 DEF Reregister

LEMMA SwitchOnKeeps ==
  ASSUME RecordsOK, Ready, SwitchOn \/ UNCHANGED managerVars, DiscoverUnlessReady
  PROVE  OperationStep
<1>1. UNCHANGED registration /\ ShownOK'
  BY HiddenTypes DEF SwitchOn, managerVars, DiscoverUnlessReady, ShownOK
<1>2. Operates
  BY DEF Operates, DiscoverUnlessReady, Ready
<1> QED
  BY <1>1, <1>2 DEF OperationStep

LEMMA ClosingKeeps ==
  ASSUME RecordsOK, Ready, active # NoManifest, NEW next \in {"remove", "off"}, StartClosing(next, NoManifest),
         UNCHANGED <<managerVars, active>>
  PROVE  OperationStep
<1>1. UNCHANGED registration /\ ShownOK' /\ next # "register"
  BY HiddenTypes DEF managerVars, ShownOK
<1>2. Operates
  BY <1>1 DEF Operates
<1> QED
  BY <1>1, <1>2 DEF OperationStep

LEMMA OperationsKeep ==
  ASSUME LockInv, Rescan \/ Reload \/ Enable \/ Disable \/ Closed
  PROVE  LockInv'
<1>0. RecordsOK /\ OperationOK /\ QueuesOK
  BY LockInvParts
<1>1. forcedOff \in BOOLEAN /\ disk \in Manifests \cup {NoManifest}
  BY <1>0 DEF RecordsOK
<1>2. ASSUME Rescan PROVE OperationStep
  <2>1. Ready
    BY <1>2 DEF Rescan
  <2>2. CASE UNCHANGED <<managerVars, active, queue, task, op>>
    BY <1>0, <2>2, HiddenTypes DEF OperationStep, Operates, ShownOK, managerVars
  <2>3. CASE active # NoManifest /\ StartClosing("remove", NoManifest) /\ UNCHANGED <<managerVars, active>>
    BY <1>0, <2>1, <2>3, ClosingKeeps
  <2>4. CASE Reregister(disk, forcedOff)
    BY <1>0, <1>1, <2>1, <2>4, ReregisterKeeps
  <2>5. CASE /\ Desired /\ disk = active
             /\ IF enabled THEN StartClosing("off", NoManifest) ELSE UNCHANGED <<queue, task, op>>
             /\ UNCHANGED <<managerVars, active>>
    <3>1. active # NoManifest
      BY <2>5, ProviderAssumption DEF Desired, ProviderAssumption
    <3> QED
      BY <1>0, <2>1, <2>2, <2>5, <3>1, ClosingKeeps
  <2>6. CASE (IF enabled THEN UNCHANGED managerVars ELSE SwitchOn) /\ DiscoverUnlessReady
    BY <1>0, <2>1, <2>6, SwitchOnKeeps
  <2> QED
    BY <1>2, <2>2, <2>3, <2>4, <2>5, <2>6 DEF Rescan
<1>3. ASSUME Reload PROVE OperationStep
  BY <1>0, <1>1, <1>3, ReregisterKeeps DEF Reload
<1>4. ASSUME Enable PROVE OperationStep
  BY <1>0, <1>1, <1>4, ReregisterKeeps, SwitchOnKeeps DEF Enable
<1>5. ASSUME Disable PROVE OperationStep
  BY <1>0, <1>5, ClosingKeeps DEF Disable
<1>6. ASSUME Closed PROVE OperationStep
  <2>1. CASE Register(op.manifest, forcedOff) /\ op.next = "register"
    <3>1. registration < MaxRegistrations /\ op.manifest \in Manifests \cup {NoManifest}
      BY <1>0, <2>1 DEF OperationOK
    <3>2. Leave(Operation)
      BY <1>6 DEF Closed
    <3> QED
      BY <1>0, <1>1, <2>1, <3>1, <3>2, RegisterKeeps DEF OperationStep, Operates
  <2>2. CASE Leave(Operation) /\ End(Operation) /\ UNCHANGED registration
             /\ \/ active' = NoManifest /\ enabled' = FALSE /\ health' = "none" /\ registry' = "absent"
                \/ UNCHANGED <<managerVars, active>>
                \/ enabled' = FALSE /\ registry' = Hidden /\ UNCHANGED <<health, active>>
    <3>1. ShownOK'
      BY <1>0, <2>2, HiddenTypes DEF ShownOK, managerVars
    <3> QED
      BY <2>2, <3>1 DEF OperationStep, Operates
  <2> QED
    BY <1>6, <2>1, <2>2 DEF Closed, managerVars
<1>7. OperationStep
  BY <1>2, <1>3, <1>4, <1>5, <1>6
<1>8. QueuesOK' /\ OperationOK'
  BY <1>0, <1>7, OperatesKeeps DEF OperationStep
<1>9. /\ UNCHANGED <<disk, client>>
      /\ forcedOn' \in BOOLEAN /\ forcedOff' \in BOOLEAN /\ vetoed' \in BOOLEAN
  BY <1>0 DEF RecordsOK, Rescan, Reload, Enable, Disable, Closed
<1>10. RecordsOK'
  BY <1>0, <1>7, <1>9 DEF RecordsOK, OperationStep, ShownOK
<1> QED
  BY <1>8, <1>10, LockInvParts

LEMMA LockInvStep ==
  ASSUME LockInv, [Next]_vars
  PROVE  LockInv'
<1>0. RecordsOK /\ OperationOK /\ QueuesOK
  BY LockInvParts
<1>1. ASSUME NEW t \in Tasks, TaskStep(t) PROVE LockInv'
  BY <1>0, <1>1, TaskMoves, MovesKeep, TaskRecordsKept, LockInvParts
<1>2. CASE EditManifest
  <2>1. /\ disk' \in Manifests \cup {NoManifest}
        /\ UNCHANGED <<active, forcedOn, forcedOff, vetoed, registration, enabled, health, registry,
                      client, queue, task, op>>
    BY <1>2 DEF EditManifest, managerVars, taskVars
  <2> QED
    BY <1>0, <2>1, LockInvParts DEF RecordsOK, OperationOK, QueuesOK
<1>3. CASE UNCHANGED vars
  BY <1>0, <1>3, LockInvParts
  DEF vars, manifestVars, managerVars, taskVars, RecordsOK, OperationOK, QueuesOK
<1> QED
  BY <1>1, <1>2, <1>3, OperationsKeep DEF Next

LEMMA LockInvInit == Init => LockInv
<1> SUFFICES ASSUME Init PROVE LockInv
  OBVIOUS
<1>1. RecordsOK
  <2>1. active \in Manifests \cup {NoManifest} /\ registration \in 0..MaxRegistrations /\ (active # NoManifest => registration = 1)
        /\ 1 \in Registrations /\ client \in 0..MaxRegistrations
    <3>1. 1 \in Registrations /\ 0 \in 0..MaxRegistrations /\ 1 \in 0..MaxRegistrations
      BY ProviderAssumption DEF ProviderAssumption, Registrations
    <3>2. disk \in Manifests \cup {NoManifest} /\ active = (IF disk \in Autostart \cap Startable THEN disk ELSE NoManifest)
          /\ enabled = (active # NoManifest) /\ registration = (IF enabled THEN 1 ELSE 0) /\ client \in {0, 1}
      BY DEF Init
    <3>3. active \in Manifests \cup {NoManifest}
      BY <3>2
    <3> QED
      BY <3>1, <3>2, <3>3
  <2> QED
    BY <2>1 DEF Init, RecordsOK
<1>2. OperationOK
  BY DEF Init, OperationOK, Tasks, NoOp
<1>3. QueuesOK
  <2>1. task = [t \in Tasks |-> Idle] /\ queue = [r \in Registrations |-> <<>>] /\ 0 \notin Registrations
    BY DEF Init, Registrations
  <2>2. <<>> \in Seq(Tasks) /\ Once(<<>>) /\ Range(<<>>) = {}
    BY DEF Once, Range
  <2> QED
    BY <2>1, <2>2, IdleRecord DEF QueuesOK
<1> QED
  BY <1>1, <1>2, <1>3, LockInvParts

\* mcp_client_manager.py: however calls, probes, failures, cancellations and
\* operations interleave, a task stands in the queue of its own lock and in no
\* other, and the operation under way has its task.
THEOREM ProviderTypesHold == Spec => []ProviderTypeOK
<1>1. LockInv => ProviderTypeOK
  BY DEF LockInv
<1> QED
  BY <1>1, LockInvInit, LockInvStep, PTL DEF Spec
=============================================================================
