---------------------- MODULE DesktopLifecycleProofs ----------------------
(***************************************************************************)
(* Proofs about the parts that start, stop and install other programs of   *)
(* the desktop: the desktop manager, the restart of the Runtime, the       *)
(* elevation of installers, and the installation of providers; for every   *)
(* number of ports, requests, launches and versions.                       *)
(*                                                                         *)
(* The windows that matter are between two steps of different actors, and  *)
(* each invariant says what the later step may rely on: a child that runs  *)
(* has the ports of its setup (ManagerInv); a script that stops a process  *)
(* holds the process its request expected, and process numbers only grow   *)
(* (RestartInv); the broker that works has the mutex, and what the files   *)
(* say of its launch is what happened (ElevationInv); and each step of an  *)
(* installation or a removal knows which files the journal can put back    *)
(* (InstallInv). At the end, with the other components of the host, the    *)
(* types of all of them.                                                   *)
(***************************************************************************)
EXTENDS HostOperationsProofs, MCHostOperations, FiniteSetTheorems, TLAPS

(***************************************************************************)
(* The desktop manager                                                     *)
(***************************************************************************)
\* The Skill Library may be granted no more than the registry gives.
Fits(g) == g.read \subseteq Readable /\ g.write \subseteq Writable

ManagerInv ==
    /\ ManagerTypeOK
    /\ \A r \in Ports : Alive(r) => child[r].ports = setup
    /\ ~unseen => Fits(grants) /\ (request = "grants" => Fits(proposed))

Children == [life : {"none", "alive", "exited"}, ports : Setups \cup {NoSetup}]

\* A child comes or goes, in one role.
OneChild(role, c) ==
    /\ child' \in [Roles -> Children] /\ child'[role] = c
    /\ \A r \in Roles \ {role} : child'[r] = child[r]

LEMMA ChildChanges ==
  ASSUME ManagerTypeOK, NEW role \in Roles
  PROVE  /\ child' = Spawned(role) => OneChild(role, [life |-> "alive", ports |-> setup])
         /\ child' = Gone(role) => OneChild(role, NoChild)
<1>1. \A c \in Children : child' = [child EXCEPT ![role] = c] => OneChild(role, c)
  BY DEF ManagerTypeOK, OneChild, Children
<1>2. NoChild \in Children /\ [life |-> "alive", ports |-> setup] \in Children
  BY DEF NoChild, Children, ManagerTypeOK
<1> QED
  BY <1>1, <1>2 DEF Spawned, Gone

\* What a reconciliation leaves is granted by the rights it looked at.
LEMMA ReconciledFits ==
  ASSUME ManagerTypeOK, NEW rights \in [Roots -> Rights]
  PROVE  /\ Reconciled(rights) \in Grants
         /\ \A r \in Reconciled(rights).read : r \in Roots /\ rights[r] # "none"
         /\ \A r \in Reconciled(rights).write : r \in Roots /\ rights[r] = "write"
<1>1. grants.read \subseteq Roots /\ grants.write \subseteq Roots
  BY DEF ManagerTypeOK, Grants
<1> QED
  BY <1>1 DEF Reconciled, Grants, Rights

LEMMA EnvironmentFits ==
  ASSUME ManagerTypeOK, Environment, UNCHANGED roots
  PROVE  unseen' = FALSE /\ grants' \in Grants /\ Fits(grants)'
<1>1. grants' = Reconciled(roots) /\ unseen' = FALSE /\ roots \in [Roots -> Rights]
  BY DEF Environment, ManagerTypeOK
<1>2. PICK g : g = Reconciled(roots)
  OBVIOUS
<1>3. g \in Grants /\ g.read \subseteq Readable /\ g.write \subseteq Writable
  BY <1>1, <1>2, ReconciledFits DEF Readable, Writable
<1> QED
  BY <1>1, <1>2, <1>3 DEF Fits, Readable, Writable

\* Grants, registry and review stay, or are reconciled.
GrantsStep ==
    /\ UNCHANGED roots
    /\ \/ UNCHANGED <<grants, unseen>>
       \/ Environment /\ request' # "grants"
    /\ request' = "grants" => request = "grants" /\ UNCHANGED proposed

LEMMA GrantsKept ==
  ASSUME ManagerInv, GrantsStep
  PROVE  /\ roots' \in [Roots -> Rights] /\ grants' \in Grants /\ unseen' \in BOOLEAN
         /\ ~unseen' => Fits(grants)' /\ (request' = "grants" => Fits(proposed)')
<1>1. ManagerTypeOK /\ (~unseen => Fits(grants) /\ (request = "grants" => Fits(proposed)))
  BY DEF ManagerInv
<1>2. CASE UNCHANGED <<grants, unseen>>
  BY <1>1, <1>2 DEF GrantsStep, ManagerTypeOK, Fits, Readable, Writable
<1>3. CASE Environment /\ request' # "grants"
  BY <1>1, <1>3, EnvironmentFits DEF GrantsStep, ManagerTypeOK
<1> QED
  BY <1>2, <1>3 DEF GrantsStep

WindowRequests == {"none", "restart", "browser", "runtime", "probe", "browserProbe", "grants"}

\* A step that leaves the configuration, and at most one child, keeps the rest.
LEMMA ManagerStepKeeps ==
  ASSUME ManagerInv, GrantsStep, UNCHANGED setup,
         child' \in [Roles -> Children],
         \A r \in Ports : child'[r] = child[r] \/ child'[r].life # "alive" \/ child'[r].ports = setup,
         browserOn' \in BOOLEAN, petOn' \in BOOLEAN, orphans' \subseteq Ports \X Setups,
         request' \in WindowRequests, verified' \in {"no", "current", "older"},
         skills' \in {"off", "on", "refused"},
         skills' # "off" => child'["runtime"].life = "alive",
         proposed' \in Grants, proposed' # NoGrants => request' = "grants"
  PROVE  ManagerInv'
<1>1. /\ roots' \in [Roots -> Rights] /\ grants' \in Grants /\ unseen' \in BOOLEAN
      /\ ~unseen' => Fits(grants)' /\ (request' = "grants" => Fits(proposed)')
  BY GrantsKept
<1>2. setup' \in Setups
  BY DEF ManagerInv, ManagerTypeOK
<1>3. ManagerTypeOK'
  BY <1>1, <1>2 DEF ManagerTypeOK, Children, WindowRequests
<1>4. \A r \in Ports : Alive(r)' => child'[r].ports = setup'
  BY DEF ManagerInv, Alive
<1> QED
  BY <1>1, <1>3, <1>4 DEF ManagerInv

LEMMA ManagerFacts ==
  ASSUME ManagerInv
  PROVE  /\ ManagerTypeOK /\ setup \in Setups /\ child \in [Roles -> Children]
         /\ browserOn \in BOOLEAN /\ petOn \in BOOLEAN /\ orphans \subseteq Ports \X Setups
         /\ request \in WindowRequests /\ verified \in {"no", "current", "older"}
         /\ skills \in {"off", "on", "refused"} /\ (skills # "off" => child["runtime"].life = "alive")
         /\ proposed \in Grants /\ NoGrants \in Grants /\ (proposed # NoGrants => request = "grants")
         /\ "runtime" \in Roles /\ "pet" \in Roles /\ "browser" \in Roles /\ "tunnel" \in Roles
         /\ Ports \subseteq Roles /\ "pet" \notin Ports
BY DEF ManagerInv, ManagerTypeOK, Children, WindowRequests, Grants, NoGrants, Roles, Ports

\* Steps under which no child comes or goes.
LEMMA NoChildMoves ==
  ASSUME ManagerInv,
         \/ StartServices \/ Verify \/ EnableSkills \/ DisableSkills \/ OrphanExits
         \/ \E on \in BOOLEAN : BrowserAnswers(on)
  PROVE  ManagerInv'
<1> USE ManagerFacts
<1>1. UNCHANGED <<child, setup>> /\ child' \in [Roles -> Children]
  BY DEF StartServices, Verify, EnableSkills, DisableSkills, OrphanExits, BrowserAnswers
<1>2. GrantsStep
  BY DEF StartServices, Verify, EnableSkills, DisableSkills, OrphanExits, BrowserAnswers, GrantsStep
<1>3. /\ browserOn' \in BOOLEAN /\ petOn' \in BOOLEAN /\ request' \in WindowRequests
      /\ verified' \in {"no", "current", "older"} /\ skills' \in {"off", "on", "refused"}
      /\ skills' # "off" => child'["runtime"].life = "alive"
      /\ orphans' \subseteq Ports \X Setups
      /\ proposed' \in Grants /\ (proposed' # NoGrants => request' = "grants")
  BY <1>1 DEF StartServices, Verify, EnableSkills, DisableSkills, OrphanExits, BrowserAnswers,
              Alive, WindowRequests
<1> QED
  BY <1>1, <1>2, <1>3, ManagerStepKeeps

\* Steps that start or remove one child.
LEMMA OneChildMoves ==
  ASSUME ManagerInv,
         \/ StartBrowser \/ StartRuntimeChild \/ ProbeAnswers \/ Connect \/ Status \/ PetStatus
         \/ BrowserTimesOut \/ \E on \in BOOLEAN : PetAction(on) \/ BrowserAction(on)
  PROVE  ManagerInv'
<1> USE ManagerFacts
<1> DEFINE New == [life |-> "alive", ports |-> setup]
<1>0. NoChild.life = "none" /\ New.life = "alive" /\ New.ports = setup
  BY DEF NoChild
<1>1. /\ UNCHANGED <<setup, orphans, roots>>
      /\ \/ UNCHANGED child
         \/ \E role \in Roles : child' = Spawned(role)
         \/ \E role \in Roles \ {"runtime"} : child' = Gone(role)
      /\ UNCHANGED <<skills, proposed>> /\ request # "grants"
  BY DEF StartBrowser, StartRuntimeChild, ProbeAnswers, Connect, Status, PetStatus, BrowserTimesOut,
         PetAction, BrowserAction, StartPet
<1>2. \/ UNCHANGED child
      \/ \E role \in Roles : OneChild(role, New)
      \/ \E role \in Roles \ {"runtime"} : OneChild(role, NoChild)
  BY <1>1, ChildChanges
<1> HIDE DEF New
<1>3. /\ child' \in [Roles -> Children]
      /\ \A r \in Ports : child'[r] = child[r] \/ child'[r].life # "alive" \/ child'[r].ports = setup
      /\ skills' # "off" => child'["runtime"].life = "alive"
  BY <1>0, <1>1, <1>2 DEF OneChild
<1>4. GrantsStep
  BY DEF StartBrowser, StartRuntimeChild, ProbeAnswers, Connect, Status, PetStatus, BrowserTimesOut,
         PetAction, BrowserAction, StartPet, GrantsStep
<1>5. /\ browserOn' \in BOOLEAN /\ petOn' \in BOOLEAN /\ request' \in WindowRequests
      /\ verified' \in {"no", "current", "older"}
  BY DEF StartBrowser, StartRuntimeChild, ProbeAnswers, Connect, Status, PetStatus, BrowserTimesOut,
         PetAction, BrowserAction, WindowRequests
<1> QED
  BY <1>1, <1>3, <1>4, <1>5, ManagerStepKeeps

\* Steps that remove every child, and the exit of one.
LEMMA ChildrenGo ==
  ASSUME ManagerInv,
         \/ StartTimesOut \/ ManagerKilled \/ \E next \in {"none", "restart"} : StopRequest(next)
         \/ \E role \in Roles : ChildExits(role)
  PROVE  ManagerInv'
<1> USE ManagerFacts
<1>0. NoChild \in Children /\ NoChild.life = "none"
      /\ [NoChild EXCEPT !.life = "exited"] \in Children /\ [NoChild EXCEPT !.life = "exited"].life = "exited"
  BY DEF NoChild, Children
<1>1. CASE StartTimesOut \/ ManagerKilled \/ \E next \in {"none", "restart"} : StopRequest(next)
  <2>1. child' = [r \in Roles |-> NoChild] /\ skills' = "off" /\ UNCHANGED <<setup, browserOn, petOn>>
    BY <1>1 DEF StartTimesOut, ManagerKilled, StopRequest, StopAll
  <2>2. child' \in [Roles -> Children] /\ \A r \in Ports : child'[r].life # "alive"
    BY <1>0, <2>1
  <2>3. GrantsStep
    BY <1>1 DEF StartTimesOut, ManagerKilled, StopRequest, StopAll, GrantsStep
  <2>4. request' \in WindowRequests /\ verified' \in {"no", "current", "older"}
        /\ proposed' \in Grants /\ (proposed' # NoGrants => request' = "grants")
    BY <1>1 DEF StartTimesOut, ManagerKilled, StopRequest, StopAll, WindowRequests
  <2>5. orphans' \subseteq Ports \X Setups
    <3>1. CASE ManagerKilled
      <4>1. \A r \in Ports : Alive(r) => child[r].ports \in Setups
        BY DEF ManagerInv
      <4> QED
        BY <3>1, <4>1 DEF ManagerKilled
    <3> QED
      BY <1>1, <3>1 DEF StartTimesOut, StopRequest, StopAll
  <2> QED
    BY <2>1, <2>2, <2>3, <2>4, <2>5, ManagerStepKeeps
<1>2. ASSUME NEW role \in Roles, ChildExits(role)
      PROVE  ManagerInv'
  <2>1. PICK c \in Children : child' = [child EXCEPT ![role] = c] /\ c.life # "alive"
    BY <1>0, <1>2 DEF ChildExits
  <2>2. child' \in [Roles -> Children] /\ child'[role] = c /\ \A r \in Roles \ {role} : child'[r] = child[r]
    BY <2>1
  <2>3. GrantsStep
    BY <1>2 DEF ChildExits, GrantsStep
  <2>4. /\ UNCHANGED <<setup, browserOn, orphans, request, verified, petOn, proposed>>
        /\ skills' = IF role = "runtime" THEN "off" ELSE skills
    BY <1>2 DEF ChildExits
  <2> QED
    BY <2>1, <2>2, <2>3, <2>4, ManagerStepKeeps
<1> QED
  BY <1>1, <1>2

\* The window's own changes of ports and roots, the review of grants, and the
\* Runtime's changes, after which the grants are no longer known to fit.
LEMMA SettingsMove ==
  ASSUME ManagerInv,
         \/ \E s \in Setups : Configure(s)
         \/ \E r \in Roots, right \in Rights : WorkspaceSave(r, right) \/ RuntimeEditsRoot(r, right)
         \/ \E g \in Grants : ReviewGrants(g)
         \/ SaveGrants
  PROVE  ManagerInv'
<1> USE ManagerFacts
<1>0. /\ roots \in [Roots -> Rights] /\ grants \in Grants /\ unseen \in BOOLEAN
      /\ ~unseen => Fits(grants) /\ (request = "grants" => Fits(proposed))
      /\ \A r \in Ports : Alive(r) => child[r].ports = setup
  BY DEF ManagerInv, ManagerTypeOK
<1>1. UNCHANGED <<browserOn, child, orphans, verified, petOn, skills>>
  BY DEF Configure, WorkspaceSave, RuntimeEditsRoot, ReviewGrants, SaveGrants
<1>2. CASE \E s \in Setups : Configure(s)
  <2>1. UNCHANGED <<request, roots, grants, proposed, unseen>> /\ setup' \in Setups
        /\ \A r \in Roles : ~Alive(r)
    BY <1>2 DEF Configure
  <2> QED
    BY <1>0, <1>1, <2>1 DEF ManagerInv, ManagerTypeOK, Fits, Readable, Writable, Alive
<1>3. ASSUME setup' = setup, roots' \in [Roots -> Rights], grants' \in Grants, unseen' \in BOOLEAN,
             ~unseen' => Fits(grants)' /\ (request' = "grants" => Fits(proposed)'),
             proposed' \in Grants, proposed' # NoGrants => request' = "grants", request' \in WindowRequests
      PROVE  ManagerInv'
  BY <1>0, <1>1, <1>3 DEF ManagerInv, ManagerTypeOK, Alive, WindowRequests
<1>4. ASSUME NEW r \in Roots, NEW right \in Rights, WorkspaceSave(r, right)
      PROVE  ManagerInv'
  <2>1. roots' \in [Roots -> Rights]
    BY <1>0, <1>4 DEF WorkspaceSave
  <2>2. PICK rights \in [Roots -> Rights] : rights = roots'
    BY <2>1
  <2>3. grants' = Reconciled(rights) /\ request = "none"
        /\ UNCHANGED <<setup, request, proposed>> /\ unseen' = FALSE
    BY <1>4, <2>2 DEF WorkspaceSave
  <2>4. PICK g : g = Reconciled(rights)
    OBVIOUS
  <2>5. g \in Grants /\ (\A q \in g.read : q \in Roots /\ rights[q] # "none")
        /\ (\A q \in g.write : q \in Roots /\ rights[q] = "write")
    BY <2>4, ReconciledFits
  <2>6. Fits(grants)'
    BY <2>2, <2>3, <2>4, <2>5 DEF Fits, Readable, Writable
  <2> QED
    BY <1>3, <2>1, <2>3, <2>4, <2>5, <2>6
<1>5. ASSUME NEW r \in Roots, NEW right \in Rights, RuntimeEditsRoot(r, right)
      PROVE  ManagerInv'
  BY <1>0, <1>3, <1>5 DEF RuntimeEditsRoot
<1>6. ASSUME NEW g \in Grants, ReviewGrants(g)
      PROVE  ManagerInv'
  <2>1. Environment /\ UNCHANGED <<roots, setup>> /\ proposed' = g /\ request' = "grants"
        /\ g.read \subseteq Readable /\ g.write \subseteq Writable
    BY <1>6 DEF ReviewGrants
  <2>2. unseen' = FALSE /\ grants' \in Grants /\ Fits(grants)'
    BY <2>1, EnvironmentFits
  <2>3. Fits(proposed)'
    BY <2>1 DEF Fits, Readable, Writable
  <2> QED
    BY <1>0, <1>3, <2>1, <2>2, <2>3 DEF WindowRequests
<1>7. CASE SaveGrants
  <2>1. /\ UNCHANGED <<roots, setup, unseen>> /\ proposed' = NoGrants /\ request' = "none"
        /\ request = "grants" /\ grants' \in {grants, proposed}
    BY <1>7 DEF SaveGrants
  <2>2. ~unseen' => Fits(grants)'
    BY <1>0, <2>1 DEF Fits, Readable, Writable
  <2> QED
    BY <1>0, <1>3, <2>1, <2>2 DEF WindowRequests
<1> QED
  BY <1>2, <1>4, <1>5, <1>6, <1>7

LEMMA ManagerInvInit == ManagerInit => ManagerInv
<1> SUFFICES ASSUME ManagerInit PROVE ManagerInv
  OBVIOUS
<1>1. NoChild \in Children /\ NoChild.life = "none" /\ NoGrants \in Grants
  BY DEF NoChild, Children, NoGrants, Grants
<1>2. child \in [Roles -> Children] /\ (\A r \in Roles : child[r] = NoChild) /\ Ports \subseteq Roles
  BY <1>1 DEF ManagerInit, Roles, Ports
<1>3. ManagerTypeOK
  BY <1>1, <1>2 DEF ManagerInit, ManagerTypeOK, Children, Rights
<1>4. Fits(grants)
  BY DEF ManagerInit, Fits, NoGrants
<1>5. \A r \in Ports : ~Alive(r)
  BY <1>1, <1>2 DEF Alive
<1> QED
  BY <1>3, <1>4, <1>5 DEF ManagerInv, ManagerInit

LEMMA ManagerInvKept == ManagerInv /\ [ManagerNext]_managerVars => ManagerInv'
<1> SUFFICES ASSUME ManagerInv, [ManagerNext]_managerVars PROVE ManagerInv'
  OBVIOUS
<1>1. CASE UNCHANGED managerVars
  BY <1>1 DEF managerVars, ManagerInv, ManagerTypeOK, Fits, Readable, Writable, Alive
<1>2. CASE \/ StartServices \/ Verify \/ EnableSkills \/ DisableSkills \/ OrphanExits
           \/ \E on \in BOOLEAN : BrowserAnswers(on)
  BY <1>2, NoChildMoves
<1>3. CASE \/ StartBrowser \/ StartRuntimeChild \/ ProbeAnswers \/ Connect \/ Status \/ PetStatus
           \/ BrowserTimesOut \/ \E on \in BOOLEAN : PetAction(on) \/ BrowserAction(on)
  BY <1>3, OneChildMoves
<1>4. CASE \/ StartTimesOut \/ ManagerKilled \/ \E next \in {"none", "restart"} : StopRequest(next)
           \/ \E role \in Roles : ChildExits(role)
  BY <1>4, ChildrenGo
<1>5. CASE \/ \E s \in Setups : Configure(s)
           \/ \E r \in Roots, right \in Rights : WorkspaceSave(r, right) \/ RuntimeEditsRoot(r, right)
           \/ \E g \in Grants : ReviewGrants(g)
           \/ SaveGrants
  BY <1>5, SettingsMove
<1> QED
  BY <1>1, <1>2, <1>3, <1>4, <1>5 DEF ManagerNext

\* Every child that runs uses the configured ports, and the Skill Library is
\* refused only for what the Runtime itself changed: manager.py configures
\* without children only, and revokes before each child and each review.
THEOREM WindowObeyed == ManagerSpec => WindowIsObeyed
<1>1. ManagerInv => \A r \in Ports : Alive(r) => child[r].ports = setup
  BY DEF ManagerInv
<1>2. ManagerInv /\ [ManagerNext]_managerVars =>
        [skills # "refused" /\ skills' = "refused" => unseen]_managerVars
  <2> SUFFICES ASSUME ManagerInv, ManagerNext, skills # "refused", skills' = "refused"
               PROVE  unseen
    OBVIOUS
  <2>1. EnableSkills
    BY DEF ManagerNext, StartServices, StartBrowser, StartRuntimeChild, ProbeAnswers, StartTimesOut,
           StopRequest, StopAll, Connect, Status, PetStatus, Verify, PetAction, BrowserAction,
           BrowserAnswers, BrowserTimesOut, Configure, WorkspaceSave, RuntimeEditsRoot, ReviewGrants,
           SaveGrants, DisableSkills, ChildExits, ManagerKilled, OrphanExits
  <2> QED
    BY <2>1 DEF EnableSkills, ManagerInv, Fits, ManagerTypeOK
<1> QED
  BY <1>1, <1>2, ManagerInvInit, ManagerInvKept, PTL DEF ManagerSpec, WindowIsObeyed

(***************************************************************************)
(* The restart of the Runtime                                              *)
(***************************************************************************)
\* A process that had the port and has it no more: numbers only grow.
Past(p) == p \in 1..started /\ listening # p

RestartTypes ==
    /\ listening \in {0, started} /\ started \in 0..MaxRuntimes
    /\ expected \in [Requests -> 0..MaxRuntimes]
    /\ restartStatus \in [Requests -> {"none", "queued", "running", "completed", "failed"}]
    /\ script \in [Requests -> {"none", "looking", "stopping", "waiting", "starting", "failed", "done"}]
    /\ runs \in [Requests -> 0..1] /\ onDisk \subseteq Requests
    /\ lifecycleBroker \in {"down", "idle", "delaying", "watching"}
    /\ lifecycleBroker \in {"delaying", "watching"} => current \in Requests

\* What the state file of a request says of its script, and what the broker
\* knows of the request it works on.
RequestKnown(n) ==
    /\ restartStatus[n] # "none" => expected[n] \in 1..started
    /\ restartStatus[n] \in {"none", "queued"} => runs[n] = 0
    /\ runs[n] = 0 => script[n] = "none"
    /\ script[n] \in {"starting", "done"} => Past(expected[n])
    /\ restartStatus[n] = "completed" => Past(expected[n])

CurrentKnown ==
    /\ lifecycleBroker = "delaying" => restartStatus[current] \in {"queued", "running"} /\ runs[current] = 0
    /\ lifecycleBroker = "watching" => restartStatus[current] = "running" /\ runs[current] = 1

\* Of the requests one process made, one is completed at most; and while one
\* is, no watched script has got past the look at that process.
OneRestart ==
    /\ \A n, m \in Requests :
          restartStatus[n] = "completed" /\ restartStatus[m] = "completed" /\ expected[n] = expected[m] => n = m
    /\ lifecycleBroker = "watching" /\ script[current] \in {"stopping", "waiting", "starting", "done"} =>
          \A n \in Requests : restartStatus[n] = "completed" => expected[n] # expected[current]

RestartInv ==
    /\ RestartTypes /\ CurrentKnown /\ OneRestart
    /\ \A n \in Requests : RequestKnown(n)

LEMMA RequestNumbers == 0 \notin Requests /\ 0 \in 0..MaxRuntimes /\ 1 \in 0..MaxRuntimes
BY RestartAssumption DEF Requests

LEMMA RestartInvInit == RestartInit => RestartInv
BY RequestNumbers DEF RestartInit, RestartInv, RestartTypes, CurrentKnown, OneRestart, RequestKnown, NoRuntime

LEMMA RestartFacts ==
  ASSUME RestartInv, NEW n \in Requests
  PROVE  /\ restartStatus[n] \in {"none", "queued", "running", "completed", "failed"}
         /\ script[n] \in {"none", "looking", "stopping", "waiting", "starting", "failed", "done"}
         /\ expected[n] \in 0..MaxRuntimes /\ runs[n] \in 0..1 /\ RequestKnown(n)
BY DEF RestartInv, RestartTypes

\* What is past stays past.
LEMMA PastStays ==
  ASSUME RestartInv, NEW p,
         \/ UNCHANGED <<listening, started>>
         \/ listening' = NoRuntime /\ started' = started
         \/ listening = NoRuntime /\ listening' = started + 1 /\ started' = started + 1,
         p \in 1..started
  PROVE  p \in 1..(started') /\ (listening # p => listening' # p)
BY DEF RestartInv, RestartTypes, NoRuntime

\* Steps of the script.
LEMMA ScriptMoves ==
  ASSUME RestartInv, NEW n \in Requests, Look(n) \/ Stop(n) \/ StartHttp(n) \/ SeeListener(n)
  PROVE  RestartInv'
<1>0. UNCHANGED <<listening, started, expected, onDisk, restartStatus, runs, lifecycleBroker, current>>
  BY DEF Look, Stop, StartHttp, SeeListener, port, files
<1>1. PICK to \in {"stopping", "waiting", "starting", "done", "failed"} :
        /\ script' = [script EXCEPT ![n] = to] /\ script[n] # "none"
        /\ to \in {"starting", "done"} =>
              script[n] = "starting" \/ (listening = NoRuntime /\ script[n] = "waiting")
        /\ to = "stopping" => listening = expected[n]
        /\ to = "waiting" => script[n] = "stopping"
  <2>1. CASE Look(n)
    BY <2>1 DEF Look, Step, MayStop
  <2>2. CASE Stop(n)
    BY <2>2 DEF Stop, Step
  <2>3. CASE StartHttp(n)
    BY <2>3 DEF StartHttp, Step, PortFree
  <2>4. CASE SeeListener(n)
    BY <2>4, RestartFacts DEF SeeListener, Step, RequestKnown, Past
  <2> QED
    BY <2>1, <2>2, <2>3, <2>4
<1>2. RestartTypes /\ RestartTypes'
  BY <1>0, <1>1 DEF RestartInv, RestartTypes
<1>3. script'[n] = to /\ \A m \in Requests \ {n} : script'[m] = script[m]
  BY <1>1, <1>2 DEF RestartTypes
<1>4. RequestKnown(n)'
  <2>1. RequestKnown(n) /\ runs[n] # 0 /\ restartStatus[n] # "none"
    BY <1>1, RestartFacts DEF RequestKnown
  <2>2. to \in {"starting", "done"} => Past(expected[n])
    BY <1>1, <2>1 DEF RequestKnown, Past, NoRuntime
  <2> QED
    BY <1>0, <1>3, <2>1, <2>2 DEF RequestKnown, Past
<1>5. \A m \in Requests \ {n} : RequestKnown(m)'
  BY <1>0, <1>3, RestartFacts DEF RequestKnown, Past
<1>6. CurrentKnown'
  BY <1>0, <1>2 DEF RestartInv, CurrentKnown
<1>7. OneRestart'
  <2>1. OneRestart
    BY DEF RestartInv
  <2>2. CASE current # n
    BY <1>0, <1>2, <1>3, <2>1, <2>2 DEF OneRestart, RestartTypes
  <2>3. CASE current = n
    <3>1. ASSUME to = "stopping", NEW m \in Requests, restartStatus[m] = "completed"
          PROVE  expected[m] # expected[n]
      BY <1>1, <3>1, RestartFacts DEF RequestKnown, Past
    <3>2. CASE to \in {"waiting", "starting", "done"}
      BY <1>0, <1>1, <1>3, <2>1, <2>3, <3>2 DEF OneRestart
    <3> QED
      BY <1>0, <1>1, <1>3, <2>1, <2>3, <3>1, <3>2 DEF OneRestart
  <2> QED
    BY <2>2, <2>3
<1> QED
  BY <1>2, <1>4, <1>5, <1>6, <1>7 DEF RestartInv

\* Steps of the runtime processes.
LEMMA RuntimeMoves ==
  ASSUME RestartInv, RuntimeGone \/ SpawnEnds
  PROVE  RestartInv'
<1>0. UNCHANGED <<expected, onDisk, restartStatus, script, runs, lifecycleBroker, current>>
  BY DEF RuntimeGone, SpawnEnds, files
<1>1. \/ UNCHANGED <<listening, started>>
      \/ listening' = NoRuntime /\ started' = started
      \/ listening = NoRuntime /\ listening' = started + 1 /\ started' = started + 1 /\ started < MaxRuntimes
  BY DEF RuntimeGone, SpawnEnds
<1>2. RestartTypes /\ RestartTypes'
  BY <1>0, <1>1, RestartAssumption DEF RestartInv, RestartTypes, NoRuntime
<1>3. \A p : p \in 1..started => p \in 1..(started') /\ (listening # p => listening' # p)
  BY <1>1, PastStays
<1>4. \A m \in Requests : RequestKnown(m)'
  BY <1>0, <1>3, RestartFacts DEF RequestKnown, Past
<1>5. CurrentKnown' /\ OneRestart'
  BY <1>0 DEF RestartInv, CurrentKnown, OneRestart
<1> QED
  BY <1>2, <1>4, <1>5 DEF RestartInv

\* A request is made: its status, then the file that commits it.
LEMMA StatusMoves ==
  ASSUME RestartInv, NEW n \in Requests,
         QueueRestart(n) \/ CommitRestart(n)
  PROVE  RestartInv'
<1>0. UNCHANGED <<listening, started, script, runs, lifecycleBroker, current>>
  BY DEF QueueRestart, CommitRestart, port
<1>1. CASE CommitRestart(n)
  <2>1. UNCHANGED <<expected, restartStatus>> /\ onDisk' = onDisk \cup {n}
    BY <1>1 DEF CommitRestart
  <2> QED
    BY <1>0, <2>1 DEF RestartInv, RestartTypes, CurrentKnown, OneRestart, RequestKnown, Past
<1>2. CASE QueueRestart(n)
  <2>1. /\ restartStatus' = [restartStatus EXCEPT ![n] = "queued"] /\ restartStatus[n] = "none"
        /\ expected' = [expected EXCEPT ![n] = listening] /\ listening # NoRuntime /\ onDisk' = onDisk
    BY <1>2 DEF QueueRestart
  <2>2. RestartTypes /\ RestartTypes'
    BY <1>0, <2>1, RestartAssumption DEF RestartInv, RestartTypes
  <2>3. /\ restartStatus'[n] = "queued" /\ expected'[n] = listening /\ listening \in 1..started
        /\ \A m \in Requests \ {n} : restartStatus'[m] = restartStatus[m] /\ expected'[m] = expected[m]
    BY <2>1, <2>2 DEF RestartTypes, NoRuntime
  <2>4. \A m \in Requests : RequestKnown(m)'
    BY <1>0, <2>1, <2>3, RestartFacts DEF RequestKnown, Past
  <2>5. CurrentKnown'
    BY <1>0, <2>1, <2>2, <2>3 DEF RestartInv, CurrentKnown, RestartTypes
  <2>7. lifecycleBroker = "watching" => current \in Requests \ {n}
    BY <2>1, <2>2 DEF RestartInv, CurrentKnown, RestartTypes
  <2>6. OneRestart'
    BY <1>0, <2>3, <2>7 DEF RestartInv, OneRestart
  <2> QED
    BY <2>2, <2>4, <2>5, <2>6 DEF RestartInv
<1> QED
  BY <1>1, <1>2

\* Steps of the broker.
LEMMA BrokerMoves ==
  ASSUME RestartInv,
         TakeRestart \/ MarkRunning \/ RunScript \/ FinishRestart \/ BrokerDies \/ LifecycleBrokerStarts
  PROVE  RestartInv'
<1>0. /\ UNCHANGED <<listening, started, expected>>
      /\ RestartTypes /\ CurrentKnown /\ OneRestart /\ \A m \in Requests : RequestKnown(m)
  BY DEF RestartInv, TakeRestart, MarkRunning, RunScript, FinishRestart, BrokerDies,
         LifecycleBrokerStarts, port, files
<1>1. CASE BrokerDies \/ LifecycleBrokerStarts
  <2>1. /\ UNCHANGED <<onDisk, restartStatus, script, runs>> /\ lifecycleBroker' \in {"down", "idle"}
    BY <1>1 DEF BrokerDies, LifecycleBrokerStarts, files
  <2> QED
    BY <1>0, <2>1 DEF RestartInv, RestartTypes, CurrentKnown, OneRestart, RequestKnown, Past
<1>2. CASE TakeRestart
  <2>1. PICK n \in Waiting :
          /\ lifecycleBroker = "idle" /\ UNCHANGED <<script, runs>>
          /\ \/ lifecycleBroker' = "delaying" /\ current' = n /\ UNCHANGED <<restartStatus, onDisk>>
             \/ /\ restartStatus' = [restartStatus EXCEPT ![n] = "failed"] /\ onDisk' = onDisk \ {n}
                /\ UNCHANGED <<lifecycleBroker, current>>
    BY <1>2 DEF TakeRestart
  <2>2. n \in Requests /\ restartStatus[n] = "queued" /\ runs[n] = 0
    BY <1>0, <2>1 DEF Waiting, RestartTypes, RequestKnown
  <2>3. CASE UNCHANGED restartStatus
    BY <1>0, <2>1, <2>2, <2>3 DEF RestartInv, RestartTypes, CurrentKnown, OneRestart, RequestKnown, Past
  <2>4. CASE /\ restartStatus' = [restartStatus EXCEPT ![n] = "failed"] /\ onDisk' = onDisk \ {n}
             /\ UNCHANGED <<lifecycleBroker, current>>
    <3>1. restartStatus'[n] = "failed" /\ \A m \in Requests \ {n} : restartStatus'[m] = restartStatus[m]
      BY <1>0, <2>2, <2>4 DEF RestartTypes
    <3> QED
      BY <1>0, <2>1, <2>2, <2>4, <3>1 DEF RestartInv, RestartTypes, CurrentKnown, OneRestart, RequestKnown, Past
  <2> QED
    BY <2>1, <2>3, <2>4
<1>3. CASE MarkRunning
  <2>1. /\ lifecycleBroker = "delaying" /\ restartStatus' = [restartStatus EXCEPT ![current] = "running"]
        /\ UNCHANGED <<onDisk, script, runs, lifecycleBroker, current>> /\ current \in Requests
        /\ restartStatus[current] = "queued"
    BY <1>0, <1>3 DEF MarkRunning, RestartTypes
  <2>2. restartStatus'[current] = "running" /\ \A m \in Requests \ {current} : restartStatus'[m] = restartStatus[m]
    BY <1>0, <2>1 DEF RestartTypes
  <2>3. RestartTypes'
    BY <1>0, <2>1 DEF RestartTypes
  <2>4. \A m \in Requests : RequestKnown(m)'
    BY <1>0, <2>1, <2>2 DEF RequestKnown, Past
  <2>5. CurrentKnown' /\ OneRestart'
    BY <1>0, <2>1, <2>2 DEF CurrentKnown, OneRestart
  <2> QED
    BY <2>3, <2>4, <2>5 DEF RestartInv
<1>4. CASE RunScript
  <2>1. /\ lifecycleBroker = "delaying" /\ restartStatus[current] = "running" /\ current \in Requests
        /\ runs' = [runs EXCEPT ![current] = @ + 1] /\ script' = [script EXCEPT ![current] = "looking"]
        /\ UNCHANGED <<onDisk, restartStatus, current>> /\ lifecycleBroker' = "watching"
    BY <1>0, <1>4 DEF RunScript, MayRun, RestartTypes, files
  <2>2. /\ runs'[current] = 1 /\ script'[current] = "looking"
        /\ \A m \in Requests \ {current} : runs'[m] = runs[m] /\ script'[m] = script[m]
    BY <1>0, <2>1 DEF RestartTypes, CurrentKnown
  <2>3. RestartTypes'
    <3>1. runs' = [runs EXCEPT ![current] = 1]
      BY <1>0, <2>1 DEF RestartTypes, CurrentKnown
    <3> QED
      BY <1>0, <2>1, <3>1 DEF RestartTypes
  <2>4. \A m \in Requests : RequestKnown(m)'
    BY <1>0, <2>1, <2>2 DEF RequestKnown, Past
  <2>5. CurrentKnown' /\ OneRestart'
    BY <1>0, <2>1, <2>2 DEF CurrentKnown, OneRestart
  <2> QED
    BY <2>3, <2>4, <2>5 DEF RestartInv
<1>5. CASE FinishRestart
  <2>1. /\ lifecycleBroker = "watching" /\ lifecycleBroker' = "idle" /\ current \in Requests
        /\ UNCHANGED runs /\ onDisk' = onDisk \ {current}
    BY <1>0, <1>5 DEF FinishRestart, RestartTypes
  <2>2. PICK end \in {"completed", "failed"} :
          /\ restartStatus' = [restartStatus EXCEPT ![current] = end]
          /\ (end = "completed" <=> script[current] = "done")
    BY <1>5 DEF FinishRestart
  <2>3. PICK to \in {"done", "failed"} :
          /\ script' = [script EXCEPT ![current] = to] /\ (to = "done" <=> script[current] = "done")
    BY <1>5 DEF FinishRestart
  <2>4. /\ restartStatus'[current] = end /\ script'[current] = to
        /\ \A m \in Requests \ {current} : restartStatus'[m] = restartStatus[m] /\ script'[m] = script[m]
    BY <1>0, <2>1, <2>2, <2>3 DEF RestartTypes
  <2>5. RestartTypes'
    BY <1>0, <2>1, <2>2, <2>3 DEF RestartTypes
  <2>6. \A m \in Requests : RequestKnown(m)'
    BY <1>0, <2>1, <2>2, <2>3, <2>4 DEF RequestKnown, Past, CurrentKnown
  <2>7. CurrentKnown' /\ OneRestart'
    BY <1>0, <2>1, <2>2, <2>4 DEF CurrentKnown, OneRestart
  <2> QED
    BY <2>5, <2>6, <2>7 DEF RestartInv
<1> QED
  BY <1>1, <1>2, <1>3, <1>4, <1>5

LEMMA RestartInvKept == RestartInv /\ [RestartNext]_restartVars => RestartInv'
<1> SUFFICES ASSUME RestartInv, [RestartNext]_restartVars PROVE RestartInv'
  OBVIOUS
<1>1. CASE UNCHANGED restartVars
  BY <1>1 DEF restartVars, RestartInv, RestartTypes, CurrentKnown, OneRestart, RequestKnown, Past
<1>2. ASSUME NEW n \in Requests, Look(n) \/ Stop(n) \/ StartHttp(n) \/ SeeListener(n)
      PROVE  RestartInv'
  BY <1>2, ScriptMoves
<1>3. ASSUME NEW n \in Requests, QueueRestart(n) \/ CommitRestart(n)
      PROVE  RestartInv'
  BY <1>3, StatusMoves
<1>4. CASE RuntimeGone \/ SpawnEnds
  BY <1>4, RuntimeMoves
<1>5. CASE TakeRestart \/ MarkRunning \/ RunScript \/ FinishRestart \/ BrokerDies \/ LifecycleBrokerStarts
  BY <1>5, BrokerMoves
<1> QED
  BY <1>1, <1>2, <1>3, <1>4, <1>5 DEF RestartNext

\* How a request ends, as its state file tells it.
Ended(s) == [n \in Requests |-> IF s[n] \in {"completed", "failed"} THEN s[n] ELSE "open"]
Filed(s) == {n \in Requests : s[n] # "none"}

LEMMA RestartEnds ==
  ASSUME NEW s, NEW n \in Requests, NEW to,
         s \in [Requests -> {"none", "queued", "running", "completed", "failed"}]
  PROVE  /\ s[n] = "none" /\ to = "queued" => /\ Ended([s EXCEPT ![n] = to]) = Ended(s)
                                             /\ Filed([s EXCEPT ![n] = to]) = Filed(s) \cup {n}
         /\ s[n] = "queued" /\ to = "running" => /\ Ended([s EXCEPT ![n] = to]) = Ended(s)
                                                /\ Filed([s EXCEPT ![n] = to]) = Filed(s)
BY DEF Ended, Filed

LEMMA RestartEndsOnce ==
  ASSUME NEW s, NEW n \in Requests, NEW to \in {"completed", "failed"},
         s \in [Requests -> {"none", "queued", "running", "completed", "failed"}],
         s[n] \in {"queued", "running"}
  PROVE  /\ Ended([s EXCEPT ![n] = to]) = [Ended(s) EXCEPT ![n] = to]
         /\ Filed([s EXCEPT ![n] = to]) = Filed(s)
BY DEF Ended, Filed

\* Every step of the brokers and scripts is a step of the abstract request, or none.
LEMMA RestartStepImplements ==
  RestartInv /\ [RestartNext]_restartVars => [RestartRequest!Next]_RestartRequest!requestVars
<1> SUFFICES ASSUME RestartInv, [RestartNext]_restartVars
             PROVE  [RestartRequest!Next]_RestartRequest!requestVars
  OBVIOUS
<1>0. /\ restartStatus \in [Requests -> {"none", "queued", "running", "completed", "failed"}]
      /\ runs \in [Requests -> 0..1]
      /\ lifecycleBroker \in {"delaying", "watching"} => current \in Requests
      /\ CurrentKnown /\ \A n \in Requests : RequestKnown(n)
  BY DEF RestartInv, RestartTypes
<1>1. CASE UNCHANGED <<restartStatus, runs>>
  BY <1>1 DEF RestartRequest!requestVars
<1>2. ASSUME NEW n \in Requests, restartStatus[n] = "none", UNCHANGED runs,
             restartStatus' = [restartStatus EXCEPT ![n] = "queued"]
      PROVE  RestartRequest!Next
  <2>1. Ended(restartStatus') = Ended(restartStatus) /\ Filed(restartStatus') = Filed(restartStatus) \cup {n}
    BY <1>0, <1>2, RestartEnds
  <2>2. n \notin Filed(restartStatus)
    BY <1>2 DEF Filed
  <2>3. RestartRequest!File(n)
    BY <1>2, <2>1, <2>2 DEF RestartRequest!File, Ended, Filed
  <2> QED
    BY <2>3 DEF RestartRequest!Next
<1>3. ASSUME NEW n \in Requests, restartStatus[n] = "queued", UNCHANGED runs,
             restartStatus' = [restartStatus EXCEPT ![n] = "running"]
      PROVE  UNCHANGED RestartRequest!requestVars
  <2>1. Ended(restartStatus') = Ended(restartStatus) /\ Filed(restartStatus') = Filed(restartStatus)
    BY <1>0, <1>3, RestartEnds
  <2> QED
    BY <1>3, <2>1 DEF RestartRequest!requestVars, Ended, Filed
<1>4. ASSUME NEW n \in Requests, NEW to \in {"completed", "failed"}, UNCHANGED runs,
             restartStatus[n] \in {"queued", "running"}, to = "completed" => runs[n] = 1,
             restartStatus' = [restartStatus EXCEPT ![n] = to]
      PROVE  RestartRequest!Next
  <2>1. /\ Ended(restartStatus') = [Ended(restartStatus) EXCEPT ![n] = to]
        /\ Filed(restartStatus') = Filed(restartStatus)
    <3>1. PICK s : s = restartStatus
      OBVIOUS
    <3>2. Ended([s EXCEPT ![n] = to]) = [Ended(s) EXCEPT ![n] = to] /\ Filed([s EXCEPT ![n] = to]) = Filed(s)
      BY <1>0, <1>4, <3>1, RestartEndsOnce
    <3> QED
      BY <1>4, <3>1, <3>2
  <2>2. n \in Filed(restartStatus) /\ Ended(restartStatus)[n] = "open"
    BY <1>4 DEF Filed, Ended
  <2>3. RestartRequest!End(n, to)
    BY <1>4, <2>1, <2>2 DEF RestartRequest!End, Ended, Filed
  <2> QED
    BY <2>3 DEF RestartRequest!Next, RestartRequest!Endings
<1>5. CASE TakeRestart
  <2>1. PICK n \in Waiting :
          /\ UNCHANGED runs
          /\ \/ UNCHANGED restartStatus
             \/ restartStatus' = [restartStatus EXCEPT ![n] = "failed"]
    BY <1>5 DEF TakeRestart
  <2>2. n \in Requests /\ restartStatus[n] = "queued"
    BY DEF Waiting, RestartInv, RestartTypes
  <2> QED
    BY <1>1, <1>4, <2>1, <2>2
<1>6. CASE MarkRunning
  BY <1>0, <1>3, <1>6 DEF MarkRunning
<1>7. CASE RunScript
  <2>1. /\ current \in Requests /\ restartStatus[current] = "running" /\ runs[current] = 0
        /\ runs' = [runs EXCEPT ![current] = @ + 1] /\ UNCHANGED restartStatus
    BY <1>0, <1>7 DEF RunScript, MayRun, CurrentKnown, files
  <2>2. runs' = [runs EXCEPT ![current] = 1]
    BY <1>0, <2>1
  <2>3. Ended(restartStatus)[current] = "open" /\ current \in Filed(restartStatus)
    BY <2>1 DEF Ended, Filed
  <2>4. RestartRequest!Begin(current)
    BY <2>1, <2>2, <2>3 DEF RestartRequest!Begin, Ended, Filed
  <2> QED
    BY <2>1, <2>4 DEF RestartRequest!Next
<1>8. CASE FinishRestart
  <2>1. /\ current \in Requests /\ restartStatus[current] = "running" /\ runs[current] = 1 /\ UNCHANGED runs
        /\ \E to \in {"completed", "failed"} : restartStatus' = [restartStatus EXCEPT ![current] = to]
    BY <1>0, <1>8 DEF FinishRestart, CurrentKnown
  <2> QED
    BY <1>4, <2>1
<1>9. ASSUME NEW n \in Requests, QueueRestart(n)
      PROVE  RestartRequest!Next
  BY <1>2, <1>9 DEF QueueRestart
<1>10. CASE UNCHANGED restartVars \/ RuntimeGone \/ SpawnEnds \/ BrokerDies \/ LifecycleBrokerStarts
            \/ \E n \in Requests : CommitRestart(n) \/ Look(n) \/ Stop(n) \/ StartHttp(n) \/ SeeListener(n)
  BY <1>1, <1>10 DEF restartVars, RuntimeGone, SpawnEnds, BrokerDies, LifecycleBrokerStarts,
                     CommitRestart, Look, Stop, StartHttp, SeeListener, files
<1> QED
  BY <1>5, <1>6, <1>7, <1>8, <1>9, <1>10 DEF RestartNext

\* runtime_lifecycle_broker.py and restart_pla.ps1: whatever dies when, a restart
\* is one request whose script runs once; two restarts asked of one process do
\* not both happen, and a completed one has that process gone.
THEOREM RestartOnce == RestartSpec => RestartHappensOnce
<1>1. RestartInit => RestartRequest!Init
  BY DEF RestartInit, RestartRequest!Init
<1>2. RestartInv => \A n \in Requests : restartStatus[n] = "completed" =>
              /\ listening # expected[n]
              /\ \A m \in Requests : restartStatus[m] = "completed" /\ expected[m] = expected[n] => m = n
  BY DEF RestartInv, RequestKnown, Past, OneRestart
<1> QED
  BY <1>1, <1>2, RestartInvInit, RestartInvKept, RestartStepImplements, PTL
  DEF RestartSpec, RestartHappensOnce, RestartRequest!Spec

(***************************************************************************)
(* The elevation of installers                                             *)
(***************************************************************************)
ElevationTypes ==
    /\ op \in [Launches -> {"none", "uninstall", "install"}]
    /\ via \in [Launches -> {"direct", "broker"}]
    /\ requested \subseteq Launches
    /\ reported \in [Launches -> {"none", "queued", "requesting_elevation", "running",
                                  "completed", "failed", "timeout"}]
    /\ proc \in [Launches -> {"none", "running", "helper", "done", "bad"}]
    /\ processStarts \in [Launches -> 0..1]
    /\ told \in [Launches -> {"none", "external_pending", "completed", "failed", "timeout"}]
    /\ stepOf \in [Brokers -> {"down", "idle", "asking", "started", "waiting"}]
    /\ launchOf \in [Brokers -> 0..MaxLaunches]

\* What the files of a launch say of its process.
LaunchKnown(n) ==
    /\ op[n] = "none" => n \notin requested /\ via[n] = "broker"
    /\ n \in requested => via[n] = "broker"
    /\ n \notin requested => reported[n] = "none"
    /\ processStarts[n] = 0 <=> proc[n] = "none"
    /\ via[n] = "broker" /\ reported[n] \in {"none", "queued"} => processStarts[n] = 0
    /\ reported[n] = "completed" => proc[n] \notin {"none", "running"}

\* The broker that works has the mutex, and knows its launch.
BrokerKnows(b) ==
    /\ stepOf[b] # "down" => mutex = b
    /\ stepOf[b] \in {"asking", "started", "waiting"} => launchOf[b] \in Launches /\ launchOf[b] \in requested
    /\ stepOf[b] \in {"asking", "started"} => reported[launchOf[b]] = "requesting_elevation"
    /\ stepOf[b] = "waiting" => reported[launchOf[b]] = "running"
    /\ stepOf[b] = "asking" => processStarts[launchOf[b]] = 0
    /\ stepOf[b] \in {"started", "waiting"} => processStarts[launchOf[b]] = 1

ElevationInv ==
    /\ ElevationTypes
    /\ \A n \in Launches : LaunchKnown(n)
    /\ \A b \in Brokers : BrokerKnows(b)

LEMMA ElevationInvInit == ElevationInit => ElevationInv
<1> SUFFICES ASSUME ElevationInit PROVE ElevationInv
  OBVIOUS
<1>1. 0 \in 0..MaxLaunches /\ 0 \in 0..1
  BY ElevationAssumption
<1>2. ElevationTypes
  BY <1>1 DEF ElevationInit, ElevationTypes
<1> QED
  BY <1>2 DEF ElevationInit, ElevationInv, LaunchKnown, BrokerKnows

LEMMA ElevationFacts ==
  ASSUME ElevationInv
  PROVE  ElevationTypes /\ (\A n \in Launches : LaunchKnown(n)) /\ (\A b \in Brokers : BrokerKnows(b))
BY DEF ElevationInv

\* Steps of the provider that start nothing.
LEMMA ProviderMoves ==
  ASSUME ElevationInv, NEW n \in Launches,
         \/ \E o \in {"uninstall", "install"} : QueueRequest(n, o)
         \/ QueueStatus(n) \/ AnswerDirect(n) \/ AskLaunch(n)
  PROVE  ElevationInv'
<1> USE ElevationFacts
<1>0. UNCHANGED <<proc, processStarts, mutex, stepOf, launchOf>>
  BY DEF QueueRequest, QueueStatus, AnswerDirect, AskLaunch
<1>1. CASE AnswerDirect(n) \/ AskLaunch(n)
  <2>1. /\ UNCHANGED <<op, via, requested, reported>>
        /\ told' \in [Launches -> {"none", "external_pending", "completed", "failed", "timeout"}]
    BY <1>1 DEF AnswerDirect, AskLaunch, ElevationTypes
  <2> QED
    BY <1>0, <2>1 DEF ElevationInv, ElevationTypes, LaunchKnown, BrokerKnows
<1>2. CASE QueueStatus(n)
  <2>1. /\ UNCHANGED <<op, via, requested>> /\ reported' = [reported EXCEPT ![n] = "queued"]
        /\ reported[n] = "none" /\ n \in requested
        /\ told' \in [Launches -> {"none", "external_pending", "completed", "failed", "timeout"}]
    BY <1>2 DEF QueueStatus, ElevationTypes
  <2>2. reported'[n] = "queued" /\ \A m \in Launches \ {n} : reported'[m] = reported[m]
    BY <2>1 DEF ElevationTypes
  <2>3. ElevationTypes'
    BY <1>0, <2>1 DEF ElevationTypes
  <2>4. \A m \in Launches : LaunchKnown(m)'
    BY <1>0, <2>1, <2>2 DEF LaunchKnown
  <2>5. \A b \in Brokers : BrokerKnows(b)'
    BY <1>0, <2>1, <2>2 DEF BrokerKnows
  <2> QED
    BY <2>3, <2>4, <2>5 DEF ElevationInv
<1>3. ASSUME NEW o \in {"uninstall", "install"}, QueueRequest(n, o)
      PROVE  ElevationInv'
  <2>1. /\ UNCHANGED <<reported, told>> /\ op[n] = "none" /\ op' = [op EXCEPT ![n] = o]
        /\ via' = [via EXCEPT ![n] = "broker"] /\ requested' = requested \cup {n}
    BY <1>3 DEF QueueRequest, IsNext
  <2>2. op'[n] = o /\ via'[n] = "broker" /\ \A m \in Launches \ {n} : op'[m] = op[m] /\ via'[m] = via[m]
    BY <2>1 DEF ElevationTypes
  <2>3. ElevationTypes'
    BY <1>0, <2>1 DEF ElevationTypes
  <2>4. \A m \in Launches : LaunchKnown(m)'
    BY <1>0, <2>1, <2>2 DEF LaunchKnown
  <2>5. \A b \in Brokers : BrokerKnows(b)'
    BY <1>0, <2>1 DEF BrokerKnows
  <2> QED
    BY <2>3, <2>4, <2>5 DEF ElevationInv
<1> QED
  BY <1>1, <1>2, <1>3

\* A process that ends, or is killed.
LEMMA ProcessMoves ==
  ASSUME ElevationInv, NEW n \in Launches, TimeoutDirect(n) \/ ProcessExits(n) \/ HelperRemoves(n)
  PROVE  ElevationInv'
<1> USE ElevationFacts
<1>0. UNCHANGED <<op, via, requested, reported, processStarts, mutex, stepOf, launchOf>>
  BY DEF TimeoutDirect, ProcessExits, HelperRemoves
<1>1. PICK end \in {"helper", "done", "bad"} : proc' = [proc EXCEPT ![n] = end] /\ proc[n] \in {"running", "helper"}
  BY DEF TimeoutDirect, ProcessExits, HelperRemoves
<1>2. told' \in [Launches -> {"none", "external_pending", "completed", "failed", "timeout"}]
  BY DEF TimeoutDirect, ProcessExits, HelperRemoves, ElevationTypes
<1>3. proc'[n] = end /\ \A m \in Launches \ {n} : proc'[m] = proc[m]
  BY <1>1 DEF ElevationTypes
<1>4. ElevationTypes'
  BY <1>0, <1>1, <1>2 DEF ElevationTypes
<1>5. \A m \in Launches : LaunchKnown(m)'
  BY <1>0, <1>1, <1>3 DEF LaunchKnown
<1>6. \A b \in Brokers : BrokerKnows(b)'
  BY <1>0 DEF BrokerKnows
<1> QED
  BY <1>4, <1>5, <1>6 DEF ElevationInv

\* A command is started, by the provider or by the broker.
LEMMA CommandStarts ==
  ASSUME ElevationInv, NEW n \in Launches, processStarts[n] = 0, Starts(n)
  PROVE  /\ processStarts' = [processStarts EXCEPT ![n] = 1] /\ processStarts' \in [Launches -> 0..1]
         /\ proc' \in [Launches -> {"none", "running", "helper", "done", "bad"}]
         /\ processStarts'[n] = 1 /\ proc'[n] = "running"
         /\ \A m \in Launches \ {n} : processStarts'[m] = processStarts[m] /\ proc'[m] = proc[m]
BY ElevationFacts DEF Starts, ElevationTypes

LEMMA DirectStarts ==
  ASSUME ElevationInv, NEW n \in Launches, NEW o \in {"uninstall", "install"}, RunDirect(n, o)
  PROVE  ElevationInv'
<1> USE ElevationFacts
<1>1. /\ op[n] = "none" /\ op' = [op EXCEPT ![n] = o] /\ via' = [via EXCEPT ![n] = "direct"] /\ Starts(n)
      /\ UNCHANGED <<requested, reported, told, mutex, stepOf, launchOf>>
  BY DEF RunDirect, IsNext
<1>2. n \notin requested /\ reported[n] = "none" /\ processStarts[n] = 0
  BY <1>1 DEF LaunchKnown
<1>3. op'[n] = o /\ via'[n] = "direct" /\ \A m \in Launches \ {n} : op'[m] = op[m] /\ via'[m] = via[m]
  BY <1>1 DEF ElevationTypes
<1>4. ElevationTypes'
  BY <1>1, <1>2, CommandStarts DEF ElevationTypes
<1>5. \A m \in Launches : LaunchKnown(m)'
  BY <1>1, <1>2, <1>3, CommandStarts DEF LaunchKnown
<1>6. \A b \in Brokers : BrokerKnows(b)'
  <2> SUFFICES ASSUME NEW b \in Brokers PROVE BrokerKnows(b)'
    OBVIOUS
  <2>1. stepOf[b] \in {"asking", "started", "waiting"} => launchOf[b] \in Launches \ {n}
    BY <1>2 DEF BrokerKnows
  <2> QED
    BY <1>1, <1>2, <2>1, CommandStarts DEF BrokerKnows
<1> QED
  BY <1>4, <1>5, <1>6 DEF ElevationInv

\* Only one broker works.
LEMMA OneBroker ==
  ASSUME ElevationInv, NEW b \in Brokers, stepOf[b] # "down" \/ mutex = NoBroker,
         NEW c \in Brokers \ {b}
  PROVE  stepOf[c] = "down"
BY ElevationAssumption DEF ElevationInv, BrokerKnows

\* A step of broker b: the others are down, before and after.
LEMMA OthersDown ==
  ASSUME ElevationInv, NEW b \in Brokers, stepOf[b] # "down" \/ mutex = NoBroker,
         NEW to, stepOf' = [stepOf EXCEPT ![b] = to]
  PROVE  stepOf'[b] = to /\ \A c \in Brokers \ {b} : BrokerKnows(c)'
<1>1. \A c \in Brokers \ {b} : stepOf[c] = "down"
  BY OneBroker
<1>2. stepOf'[b] = to /\ \A c \in Brokers \ {b} : stepOf'[c] = "down"
  BY <1>1, ElevationFacts DEF ElevationTypes
<1> QED
  BY <1>2 DEF BrokerKnows

LEMMA BrokerComesGoes ==
  ASSUME ElevationInv, NEW b \in Brokers, ElevationBrokerStarts(b) \/ BrokerEnds(b)
  PROVE  ElevationInv'
<1> USE ElevationFacts
<1>0. UNCHANGED <<op, via, requested, reported, told, proc, processStarts>>
  BY DEF ElevationBrokerStarts, BrokerEnds, client
<1>1. PICK to \in {"idle", "down"} :
        /\ stepOf' = [stepOf EXCEPT ![b] = to] /\ (stepOf[b] # "down" \/ mutex = NoBroker)
        /\ to = "idle" => mutex' = b
  BY DEF ElevationBrokerStarts, BrokerEnds
<1>2. launchOf' \in [Brokers -> 0..MaxLaunches]
  <2>1. 0 \in 0..MaxLaunches
    BY ElevationAssumption
  <2> QED
    BY <2>1 DEF ElevationBrokerStarts, BrokerEnds, ElevationTypes
<1>3. ElevationTypes'
  BY <1>0, <1>1, <1>2 DEF ElevationTypes
<1>4. stepOf'[b] = to /\ \A c \in Brokers \ {b} : BrokerKnows(c)'
  BY <1>1, OthersDown
<1>5. BrokerKnows(b)'
  BY <1>1, <1>4 DEF BrokerKnows
<1>6. \A m \in Launches : LaunchKnown(m)'
  BY <1>0 DEF LaunchKnown
<1> QED
  BY <1>3, <1>4, <1>5, <1>6 DEF ElevationInv

\* The broker writes the status file of launch n.
Writes(b, n, to, how) ==
    /\ UNCHANGED <<op, via, requested, told, proc, processStarts, mutex>>
    /\ stepOf[b] # "down" /\ stepOf' = [stepOf EXCEPT ![b] = to]
    /\ reported' = [reported EXCEPT ![n] = how]

LEMMA StatusWritten ==
  ASSUME ElevationInv, NEW b \in Brokers, NEW n \in Launches,
         NEW to \in {"idle", "asking", "waiting"},
         NEW how \in {"requesting_elevation", "running", "completed", "failed", "timeout"},
         Writes(b, n, to, how), n \in requested, launchOf' \in [Brokers -> 0..MaxLaunches],
         how = "completed" => proc[n] \notin {"none", "running"},
         to = "asking" => launchOf'[b] = n /\ how = "requesting_elevation" /\ processStarts[n] = 0,
         to = "waiting" => launchOf'[b] = n /\ how = "running" /\ processStarts[n] = 1
  PROVE  ElevationInv'
<1> USE ElevationFacts
<1>1. ElevationTypes'
  BY DEF Writes, ElevationTypes
<1>2. reported'[n] = how /\ \A m \in Launches \ {n} : reported'[m] = reported[m]
  BY DEF Writes, ElevationTypes
<1>3. \A m \in Launches : LaunchKnown(m)'
  BY <1>2 DEF Writes, LaunchKnown
<1>4. stepOf'[b] = to /\ \A c \in Brokers \ {b} : BrokerKnows(c)'
  BY OthersDown DEF Writes
<1>5. BrokerKnows(b)'
  BY <1>2, <1>4 DEF Writes, BrokerKnows
<1> QED
  BY <1>1, <1>3, <1>4, <1>5 DEF ElevationInv

LEMMA BrokerReports ==
  ASSUME ElevationInv, NEW b \in Brokers, Take(b) \/ ReportRunning(b) \/ ReportEnd(b) \/ ReportFailure(b)
  PROVE  ElevationInv'
<1> USE ElevationFacts
<1>0. 0 \in 0..MaxLaunches /\ Launches \subseteq 0..MaxLaunches
  BY ElevationAssumption DEF Launches
<1>1. CASE Take(b)
  <2>1. PICK n \in Queued :
          /\ stepOf[b] = "idle" /\ UNCHANGED <<op, via, requested, told, proc, processStarts, mutex>>
          /\ \/ /\ reported' = [reported EXCEPT ![n] = "requesting_elevation"]
                /\ stepOf' = [stepOf EXCEPT ![b] = "asking"] /\ launchOf' = [launchOf EXCEPT ![b] = n]
             \/ reported' = [reported EXCEPT ![n] = "failed"] /\ UNCHANGED <<stepOf, launchOf>>
    BY <1>1 DEF Take, client
  <2>2. n \in Launches /\ n \in requested /\ processStarts[n] = 0
    BY <2>1 DEF Queued, ElevationTypes, LaunchKnown
  <2>3. CASE /\ reported' = [reported EXCEPT ![n] = "requesting_elevation"]
             /\ stepOf' = [stepOf EXCEPT ![b] = "asking"] /\ launchOf' = [launchOf EXCEPT ![b] = n]
    <3>1. launchOf' \in [Brokers -> 0..MaxLaunches] /\ launchOf'[b] = n
      BY <1>0, <2>2, <2>3 DEF ElevationTypes
    <3>2. Writes(b, n, "asking", "requesting_elevation")
      BY <2>1, <2>3 DEF Writes
    <3> QED
      BY <2>2, <3>1, <3>2, StatusWritten
  <2>4. CASE reported' = [reported EXCEPT ![n] = "failed"] /\ UNCHANGED <<stepOf, launchOf>>
    <3>1. launchOf' \in [Brokers -> 0..MaxLaunches] /\ stepOf' = [stepOf EXCEPT ![b] = "idle"]
      BY <2>1, <2>4 DEF ElevationTypes
    <3>2. Writes(b, n, "idle", "failed")
      BY <2>1, <2>4, <3>1 DEF Writes
    <3> QED
      BY <2>2, <3>1, <3>2, StatusWritten
  <2> QED
    BY <2>1, <2>3, <2>4
<1>2. CASE ReportRunning(b)
  <2>1. /\ stepOf[b] = "started" /\ launchOf[b] \in Launches /\ launchOf[b] \in requested
        /\ processStarts[launchOf[b]] = 1 /\ UNCHANGED launchOf
    BY <1>2 DEF ReportRunning, BrokerKnows
  <2>2. Writes(b, launchOf[b], "waiting", "running")
    BY <1>2 DEF ReportRunning, Writes, client
  <2>3. launchOf' \in [Brokers -> 0..MaxLaunches] /\ launchOf'[b] = launchOf[b]
    BY <2>1 DEF ElevationTypes
  <2> QED
    BY <2>1, <2>2, <2>3, StatusWritten
<1>3. CASE ReportEnd(b) \/ ReportFailure(b)
  <2>1. /\ stepOf[b] \in {"asking", "started", "waiting"}
        /\ launchOf[b] \in Launches /\ launchOf[b] \in requested
        /\ stepOf[b] = "waiting" => processStarts[launchOf[b]] = 1
    BY <1>3 DEF ReportEnd, ReportFailure, BrokerKnows
  <2>2. PICK how \in {"completed", "failed", "timeout"} :
          /\ reported' = [reported EXCEPT ![launchOf[b]] = how]
          /\ how = "completed" => stepOf[b] = "waiting" /\ proc[launchOf[b]] # "running"
    BY <1>3 DEF ReportEnd, ReportFailure
  <2>3. Writes(b, launchOf[b], "idle", how)
    BY <1>3, <2>1, <2>2 DEF ReportEnd, ReportFailure, Idle, Writes, client
  <2>4. launchOf' \in [Brokers -> 0..MaxLaunches]
    BY <1>0, <1>3 DEF ReportEnd, ReportFailure, Idle, ElevationTypes
  <2>5. how = "completed" => proc[launchOf[b]] \notin {"none", "running"}
    BY <2>1, <2>2 DEF LaunchKnown
  <2> QED
    BY <2>1, <2>3, <2>4, <2>5, StatusWritten
<1> QED
  BY <1>1, <1>2, <1>3

LEMMA BrokerElevates ==
  ASSUME ElevationInv, NEW b \in Brokers, Elevate(b)
  PROVE  ElevationInv' /\ launchOf[b] \in Launches /\ processStarts[launchOf[b]] = 0
<1> USE ElevationFacts
<1> DEFINE n == launchOf[b]
<1>1. /\ n \in Launches /\ n \in requested /\ processStarts[n] = 0
      /\ stepOf[b] = "asking" /\ Starts(n) /\ stepOf' = [stepOf EXCEPT ![b] = "started"]
      /\ UNCHANGED <<op, via, requested, told, reported, mutex, launchOf>>
      /\ reported[n] = "requesting_elevation"
  BY DEF Elevate, BrokerKnows, client
<1>2. n' = n
  BY <1>1
<1> HIDE DEF n
<1>3. ElevationTypes'
  BY <1>1, CommandStarts DEF ElevationTypes
<1>4. \A m \in Launches : LaunchKnown(m)'
  BY <1>1, CommandStarts DEF LaunchKnown
<1>5. stepOf'[b] = "started" /\ \A c \in Brokers \ {b} : BrokerKnows(c)'
  BY <1>1, OthersDown
<1>6. processStarts'[n] = 1
  BY <1>1, CommandStarts
<1>7. BrokerKnows(b)'
  BY <1>1, <1>5, <1>6 DEF BrokerKnows, n
<1> QED
  BY <1>1, <1>3, <1>4, <1>5, <1>7 DEF ElevationInv, n

LEMMA ElevationInvKept == ElevationInv /\ [ElevationNext]_elevationVars => ElevationInv'
<1> SUFFICES ASSUME ElevationInv, [ElevationNext]_elevationVars PROVE ElevationInv'
  OBVIOUS
<1>1. CASE UNCHANGED elevationVars
  BY <1>1 DEF elevationVars, ElevationInv, ElevationTypes, LaunchKnown, BrokerKnows
<1>2. ASSUME NEW n \in Launches, NEW o \in {"uninstall", "install"}, QueueRequest(n, o) \/ RunDirect(n, o)
      PROVE  ElevationInv'
  BY <1>2, ProviderMoves, DirectStarts
<1>3. ASSUME NEW n \in Launches,
             QueueStatus(n) \/ AnswerDirect(n) \/ TimeoutDirect(n) \/ AskLaunch(n)
             \/ ProcessExits(n) \/ HelperRemoves(n)
      PROVE  ElevationInv'
  BY <1>3, ProviderMoves, ProcessMoves
<1>4. ASSUME NEW b \in Brokers,
             ElevationBrokerStarts(b) \/ Take(b) \/ Elevate(b) \/ ReportRunning(b) \/ ReportEnd(b)
             \/ ReportFailure(b) \/ BrokerEnds(b)
      PROVE  ElevationInv'
  BY <1>4, BrokerComesGoes, BrokerReports, BrokerElevates
<1> QED
  BY <1>1, <1>2, <1>3, <1>4 DEF ElevationNext

\* What of a launch the abstract request sees.
Begun(v, s) == [n \in Launches |-> IF v[n] = "broker" THEN s[n] ELSE 0]
LaunchEnded(r) == [n \in Launches |-> IF r[n] \in {"completed", "failed", "timeout"} THEN r[n] ELSE "open"]

\* The direct runs, the processes and the client leave the request as it is.
LEMMA RequestUntouched ==
  ASSUME ElevationInv, requested' = requested, LaunchEnded(reported') = LaunchEnded(reported),
         Begun(via', processStarts') = Begun(via, processStarts)
  PROVE  UNCHANGED LaunchRequest!requestVars
BY DEF LaunchRequest!requestVars, Begun, LaunchEnded

LEMMA LaunchStepImplements ==
  ElevationInv /\ [ElevationNext]_elevationVars => [LaunchRequest!Next]_LaunchRequest!requestVars
<1> SUFFICES ASSUME ElevationInv, [ElevationNext]_elevationVars
             PROVE  [LaunchRequest!Next]_LaunchRequest!requestVars
  OBVIOUS
<1>0. ElevationTypes /\ (\A n \in Launches : LaunchKnown(n)) /\ (\A b \in Brokers : BrokerKnows(b))
  BY ElevationFacts
<1>1. CASE UNCHANGED <<requested, reported, via, processStarts>>
  BY <1>1 DEF LaunchRequest!requestVars
<1>2. ASSUME NEW n \in Launches, NEW o \in {"uninstall", "install"}, QueueRequest(n, o)
      PROVE  LaunchRequest!Next
  <2>1. op[n] = "none" /\ requested' = requested \cup {n} /\ via' = [via EXCEPT ![n] = "broker"]
        /\ UNCHANGED <<reported, processStarts>>
    BY <1>2 DEF QueueRequest, IsNext
  <2>2. n \notin requested /\ via[n] = "broker"
    BY <1>0, <2>1 DEF LaunchKnown
  <2>3. via' = via
    BY <1>0, <2>1, <2>2 DEF ElevationTypes
  <2>4. LaunchRequest!File(n)
    BY <2>1, <2>2, <2>3 DEF LaunchRequest!File
  <2> QED
    BY <2>4 DEF LaunchRequest!Next
<1>3. ASSUME NEW n \in Launches, NEW o \in {"uninstall", "install"}, RunDirect(n, o)
      PROVE  UNCHANGED LaunchRequest!requestVars
  <2>1. op[n] = "none" /\ via' = [via EXCEPT ![n] = "direct"] /\ Starts(n) /\ UNCHANGED <<requested, reported>>
    BY <1>3 DEF RunDirect, IsNext
  <2>2. via[n] = "broker" /\ reported[n] = "none" /\ processStarts[n] = 0
    BY <1>0, <2>1 DEF LaunchKnown
  <2>3. /\ via'[n] = "direct" /\ \A m \in Launches \ {n} : via'[m] = via[m]
        /\ \A m \in Launches \ {n} : processStarts'[m] = processStarts[m]
    BY <1>0, <2>1, <2>2, CommandStarts DEF ElevationTypes
  <2>4. Begun(via', processStarts') = Begun(via, processStarts)
    BY <2>2, <2>3 DEF Begun
  <2> QED
    BY <2>1, <2>4, RequestUntouched
<1>4. ASSUME NEW n \in Launches, QueueStatus(n)
      PROVE  UNCHANGED LaunchRequest!requestVars
  <2>1. reported[n] = "none" /\ reported' = [reported EXCEPT ![n] = "queued"]
        /\ UNCHANGED <<requested, via, processStarts>>
    BY <1>4 DEF QueueStatus
  <2>2. LaunchEnded(reported') = LaunchEnded(reported)
    <3>1. PICK r : r = reported
      OBVIOUS
    <3>2. r \in [Launches -> {"none", "queued", "requesting_elevation", "running",
                              "completed", "failed", "timeout"}]
          /\ r[n] \notin {"completed", "failed", "timeout"}
      BY <1>0, <2>1, <3>1 DEF ElevationTypes
    <3>3. LaunchEnded([r EXCEPT ![n] = "queued"]) = LaunchEnded(r)
      BY <3>2 DEF LaunchEnded
    <3> QED
      BY <2>1, <3>1, <3>3
  <2> QED
    BY <2>1, <2>2, RequestUntouched
<1>5. ASSUME NEW n \in Launches,
             AnswerDirect(n) \/ TimeoutDirect(n) \/ AskLaunch(n) \/ ProcessExits(n) \/ HelperRemoves(n)
      PROVE  UNCHANGED LaunchRequest!requestVars
  BY <1>1, <1>5 DEF AnswerDirect, TimeoutDirect, AskLaunch, ProcessExits, HelperRemoves,
                    LaunchRequest!requestVars
<1>6. ASSUME NEW n \in requested, reported[n] \notin {"completed", "failed", "timeout"},
             UNCHANGED <<requested, via, processStarts>>,
             NEW how \in {"requesting_elevation", "running", "completed", "failed", "timeout"},
             reported' = [reported EXCEPT ![n] = how], how = "completed" => processStarts[n] = 1
      PROVE  [LaunchRequest!Next]_LaunchRequest!requestVars
  <2>1. n \in Launches /\ via[n] = "broker"
    BY <1>0 DEF ElevationTypes, LaunchKnown
  <2>2. PICK r : r = reported
    OBVIOUS
  <2>3. r \in [Launches -> {"none", "queued", "requesting_elevation", "running",
                            "completed", "failed", "timeout"}]
        /\ r[n] \notin {"completed", "failed", "timeout"}
    BY <1>0, <1>6, <2>2 DEF ElevationTypes
  <2>4. CASE how \in {"queued", "requesting_elevation", "running"}
    <3>1. LaunchEnded([r EXCEPT ![n] = how]) = LaunchEnded(r)
      BY <2>1, <2>3, <2>4 DEF LaunchEnded
    <3> QED
      BY <1>6, <2>2, <3>1, RequestUntouched
  <2>5. CASE how \in {"completed", "failed", "timeout"}
    <3>1. LaunchEnded([r EXCEPT ![n] = how]) = [LaunchEnded(r) EXCEPT ![n] = how] /\ LaunchEnded(r)[n] = "open"
      BY <2>1, <2>3, <2>5 DEF LaunchEnded
    <3>2. Begun(via, processStarts)[n] = processStarts[n] /\ Begun(via', processStarts') = Begun(via, processStarts)
      BY <1>6, <2>1 DEF Begun
    <3>3. LaunchRequest!End(n, how)
      BY <1>6, <2>2, <3>1, <3>2 DEF LaunchRequest!End, LaunchEnded, Begun
    <3> QED
      BY <2>1, <2>5, <3>3 DEF LaunchRequest!Next, LaunchRequest!Endings
  <2> QED
    BY <2>4, <2>5
<1>7. ASSUME NEW b \in Brokers, Take(b)
      PROVE  [LaunchRequest!Next]_LaunchRequest!requestVars
  <2>1. PICK n \in Queued :
          /\ UNCHANGED <<requested, via, processStarts>>
          /\ \E how \in {"requesting_elevation", "failed"} : reported' = [reported EXCEPT ![n] = how]
    BY <1>7 DEF Take, client
  <2> QED
    BY <1>6, <2>1 DEF Queued
<1>8. ASSUME NEW b \in Brokers, ReportRunning(b) \/ ReportEnd(b) \/ ReportFailure(b)
      PROVE  [LaunchRequest!Next]_LaunchRequest!requestVars
  <2>1. /\ launchOf[b] \in requested
        /\ reported[launchOf[b]] \notin {"completed", "failed", "timeout"}
        /\ stepOf[b] = "waiting" => processStarts[launchOf[b]] = 1
        /\ UNCHANGED <<requested, via, processStarts>>
    BY <1>0, <1>8 DEF BrokerKnows, ReportRunning, ReportEnd, ReportFailure, client
  <2>2. \E how \in {"requesting_elevation", "running", "completed", "failed", "timeout"} :
           /\ reported' = [reported EXCEPT ![launchOf[b]] = how]
           /\ how = "completed" => stepOf[b] = "waiting"
    BY <1>8 DEF ReportRunning, ReportEnd, ReportFailure
  <2> QED
    BY <1>6, <2>1, <2>2
<1>9. ASSUME NEW b \in Brokers, Elevate(b)
      PROVE  LaunchRequest!Next
  <2>1. PICK n : n = launchOf[b]
    OBVIOUS
  <2>2. /\ n \in Launches /\ processStarts[n] = 0 /\ n \in requested
        /\ reported[n] = "requesting_elevation" /\ Starts(n) /\ UNCHANGED <<requested, via, reported>>
    BY <1>0, <1>9, <2>1 DEF Elevate, BrokerKnows, client
  <2>3. via[n] = "broker"
    BY <1>0, <2>2 DEF LaunchKnown
  <2>4. processStarts' = [processStarts EXCEPT ![n] = 1]
    BY <2>2, CommandStarts
  <2>5. Begun(via', processStarts') = [Begun(via, processStarts) EXCEPT ![n] = 1]
        /\ Begun(via, processStarts)[n] = 0
    BY <1>0, <2>2, <2>3, <2>4 DEF Begun, ElevationTypes
  <2>6. LaunchEnded(reported)[n] = "open"
    BY <2>2 DEF LaunchEnded
  <2>7. LaunchRequest!Begin(n)
    BY <2>2, <2>5, <2>6 DEF LaunchRequest!Begin, Begun, LaunchEnded
  <2> QED
    BY <2>2, <2>7 DEF LaunchRequest!Next
<1>10. ASSUME NEW b \in Brokers, ElevationBrokerStarts(b) \/ BrokerEnds(b)
       PROVE  UNCHANGED LaunchRequest!requestVars
  BY <1>10 DEF ElevationBrokerStarts, BrokerEnds, client, LaunchRequest!requestVars
<1>11. CASE UNCHANGED elevationVars
  BY <1>1, <1>11 DEF elevationVars
<1> QED
  BY <1>2, <1>3, <1>4, <1>5, <1>7, <1>8, <1>9, <1>10, <1>11 DEF ElevationNext

\* software_migration_server.py and interactive_elevation_broker.py: a launch is
\* one request, started once; one broker at a time watches a process; and a
\* launch is told completed when its process has ended and the registry shows it.
THEOREM LaunchesHonest == ElevationSpec => LaunchesAreHonest
<1>1. ElevationInit => LaunchRequest!Init
  BY DEF ElevationInit, LaunchRequest!Init
<1>2. ElevationInv =>
        Cardinality({b \in Brokers : stepOf[b] \in {"started", "waiting"} /\ proc[launchOf[b]] = "running"}) <= 1
  <2> SUFFICES ASSUME ElevationInv
               PROVE  Cardinality({b \in Brokers : stepOf[b] \in {"started", "waiting"}
                                                    /\ proc[launchOf[b]] = "running"}) <= 1
    OBVIOUS
  <2> DEFINE Watching == {b \in Brokers : stepOf[b] \in {"started", "waiting"} /\ proc[launchOf[b]] = "running"}
  <2>1. Watching \subseteq {mutex}
    BY DEF ElevationInv, BrokerKnows
  <2>2. IsFiniteSet({mutex}) /\ Cardinality({mutex}) = 1
    BY FS_Singleton
  <2>3. IsFiniteSet(Watching) /\ Cardinality(Watching) <= 1
    BY <2>1, <2>2, FS_Subset
  <2> QED
    BY <2>3
<1>3. ElevationInv /\ [ElevationNext]_elevationVars =>
        [\A n \in requested :
              told'[n] = "completed" /\ told[n] # "completed" =>
                  /\ proc[n] \in {"done", "helper"}
                  /\ entries = IF op[n] = "uninstall" THEN {} ELSE {Target}]_elevationVars
  <2> SUFFICES ASSUME ElevationInv, ElevationNext, NEW n \in requested,
                      told'[n] = "completed", told[n] # "completed"
               PROVE  /\ proc[n] \in {"done", "helper"}
                      /\ entries = IF op[n] = "uninstall" THEN {} ELSE {Target}
    OBVIOUS
  <2>1. n \in Launches /\ via[n] = "broker" /\ ElevationTypes /\ LaunchKnown(n)
    BY DEF ElevationInv, ElevationTypes, LaunchKnown
  <2>2. PICK m \in Launches : AnswerDirect(m) \/ TimeoutDirect(m) \/ AskLaunch(m) \/ QueueStatus(m)
    BY DEF ElevationNext, QueueRequest, RunDirect, ProcessExits, HelperRemoves, ElevationBrokerStarts,
           Take, Elevate, ReportRunning, ReportEnd, ReportFailure, BrokerEnds, client
  <2>3. PICK word : told' = [told EXCEPT ![m] = word]
    BY <2>2 DEF AnswerDirect, TimeoutDirect, AskLaunch, QueueStatus
  <2>4. m = n /\ word = "completed"
    BY <2>1, <2>3 DEF ElevationTypes
  <2>5. AskLaunch(n)
    BY <2>1, <2>2, <2>4 DEF AnswerDirect, TimeoutDirect, QueueStatus, ElevationTypes
  <2>6. reported[n] = "completed" /\ proc[n] # "bad" /\ Effective(n)
    BY <2>1, <2>5 DEF AskLaunch, ElevationTypes
  <2> QED
    BY <2>1, <2>6 DEF LaunchKnown, Effective, ElevationTypes
<1> QED
  BY <1>1, <1>2, <1>3, ElevationInvInit, ElevationInvKept, LaunchStepImplements, PTL
  DEF ElevationSpec, LaunchesAreHonest, LaunchRequest!Spec

(***************************************************************************)
(* The installation of providers                                           *)
(***************************************************************************)
InstallSteps == {"dependencies", "assets", "manifest", "write", "commit", "undo_manifest",
                 "put_back", "undo_assets", "unlink_assets", "undo_environment"}
RemovalSteps == {"move", "commit_removal", "unmove"}
Present == {"whole", "edited"}
AssetStates == {"none", "partial", "whole", "edited"}

\* Each file of an owned version is in place, or in a trash directory.
OwnedKept ==
    \A v \in owned :
        /\ assets[v] \in {"whole", "edited"} \/ (assets[v] = "none" /\ <<"assets", v>> \in trash)
        /\ v \in environment \/ <<"environment", v>> \in trash

\* What is in the trash came out of the installed version, its manifest first.
TrashKnown ==
    trash # {} /\ job.pc # "clean" =>
        /\ job.pc \in {"none"} \cup RemovalSteps
        /\ record # NoVersion /\ manifest = NoVersion /\ <<"manifest", record>> \in trash
        /\ \A item \in trash : IF item[1] = "manifest" THEN item[2] = record ELSE item[2] \in owned

\* How far an installation, or its undo, has come.
InstallKnown ==
    job.pc \in InstallSteps =>
        /\ job.version \in PackageVersions \ owned /\ job.old = record
        /\ job.pc \in {"dependencies", "assets", "manifest", "write"} => manifest = record
        /\ job.pc \in {"assets", "manifest", "write", "commit"} => job.version \in environment
        /\ job.pc \in {"manifest", "write", "commit"} => assets[job.version] \in Present
        /\ job.pc = "commit" => manifest = job.version
        /\ job.pc = "undo_manifest" =>
              manifest = record \/ (manifest = job.version /\ assets[job.version] \in Present /\ job.version \in environment)
        /\ job.pc = "put_back" =>
              manifest = job.version /\ assets[job.version] \in Present /\ job.version \in environment
        /\ job.pc \in {"undo_assets", "unlink_assets", "undo_environment"} =>
              manifest = record \/ (manifest = job.version /\ ~pristine)
        /\ job.pc = "undo_environment" => assets[job.version] \in {"none", "edited"}

RemovalKnown ==
    /\ job.pc \in RemovalSteps =>
          /\ job.old = record /\ record # NoVersion
          /\ trash = {} => manifest = record
          /\ job.pc = "commit_removal" =>
                manifest = NoVersion /\ \A v \in owned : assets[v] = "none" /\ v \notin environment
    /\ job.pc = "clean" => record = NoVersion /\ manifest = NoVersion /\ owned = {}

\* As long as no job was cut off, what no record owns is nowhere, but for what
\* the user changed while it was installed.
UnownedGone ==
    ~torn =>
        /\ \A v \in PackageVersions \ owned :
              \/ job.pc \in InstallSteps /\ v = job.version
              \/ assets[v] \in {"none", "edited"} /\ v \notin environment
        /\ job.pc = "none" => trash = {} /\ (pristine => manifest = record)

\* A file that a step is about to touch was as the job saw it, or edited since.
LateKnown ==
    /\ job.pc \in RemovalSteps => \A v \in owned : assets[v] = "edited" => <<"assets", v>> \in late
    /\ job.pc = "unlink_assets" /\ assets[job.version] = "edited" => <<"assets", job.version>> \in late
    /\ job.pc \in RemovalSteps \cup {"write", "put_back"} /\ manifest # NoVersion /\ ~pristine =>
          <<"manifest", manifest>> \in late

InstallInv ==
    /\ InstallTypeOK /\ (job.pc = "none" => job = NoJob)
    /\ OwnedKept /\ TrashKnown /\ InstallKnown /\ RemovalKnown /\ UnownedGone /\ LateKnown
    /\ ManifestIsRunnable

LEMMA InstallFacts ==
  ASSUME InstallInv
  PROVE  /\ InstallTypeOK /\ (job.pc = "none" => job = NoJob)
         /\ OwnedKept /\ TrashKnown /\ InstallKnown /\ RemovalKnown /\ UnownedGone /\ LateKnown
         /\ ManifestIsRunnable
         /\ InstallSteps \cap RemovalSteps = {} /\ "clean" \notin InstallSteps /\ "clean" \notin RemovalSteps
         /\ "none" \notin InstallSteps /\ "none" \notin RemovalSteps
         /\ record \in PackageVersions \cup {NoVersion} /\ (record # NoVersion <=> record \in owned)
         /\ NoVersion \notin PackageVersions
BY PackageAssumption DEF InstallInv, InstallTypeOK, InstallSteps, RemovalSteps

\* The program counter of a job moves, and nothing else of it.
Steps == {"none", "dependencies", "assets", "manifest", "write", "commit",
          "undo_manifest", "put_back", "undo_assets", "unlink_assets", "undo_environment",
          "move", "commit_removal", "unmove", "clean"}

Jobs == [pc : Steps, version : PackageVersions \cup {NoVersion}, old : PackageVersions \cup {NoVersion}]
Plans == [operation : {"install", "upgrade", "uninstall"}, version : PackageVersions \cup {NoVersion},
          seen : [version : PackageVersions \cup {NoVersion}, owned : SUBSET PackageVersions]]

LEMMA JobGoes ==
  ASSUME InstallTypeOK, NEW pc \in Steps, Goto(pc)
  PROVE  job' \in Jobs /\ job'.pc = pc /\ job'.version = job.version /\ job'.old = job.old /\ late' = late
<1>1. job \in Jobs
  BY DEF InstallTypeOK, Jobs, Steps
<1> QED
  BY <1>1 DEF Goto, Jobs

LEMMA JobLooks ==
  ASSUME InstallTypeOK, NEW pc \in Steps, LookThen(pc)
  PROVE  job' \in Jobs /\ job'.pc = pc /\ job'.version = job.version /\ job'.old = job.old /\ late' = {}
<1>1. job \in Jobs
  BY DEF InstallTypeOK, Jobs, Steps
<1> QED
  BY <1>1 DEF LookThen, Jobs

LEMMA JobEnds == FinishJob => job' = NoJob /\ job' \in Jobs /\ job'.pc = "none" /\ late' = {}
BY DEF FinishJob, NoJob, Jobs, Steps

LateTypes == late' \subseteq {"manifest", "assets"} \X PackageVersions

LEMMA LateTyped == InstallTypeOK /\ (late' = late \/ late' = {}) => LateTypes
BY DEF InstallTypeOK, LateTypes

\* A job that touches no file next has nothing to know of late edits.
LEMMA LateFree ==
  ASSUME job'.pc \notin RemovalSteps \cup {"write", "put_back", "unlink_assets"}
  PROVE  LateKnown'
BY DEF LateKnown, RemovalSteps

\* Steps that change no file: a review, the start of a job, a failure.
LEMMA JobMoves ==
  ASSUME InstallInv, UNCHANGED <<record, owned, diskVars, torn>>,
         job' \in Jobs,
         job'.pc = "none" => job' = NoJob,
         plans' \subseteq Plans, LateTypes,
         TrashKnown', InstallKnown', RemovalKnown', UnownedGone', LateKnown'
  PROVE  InstallInv'
BY InstallFacts
DEF InstallInv, InstallTypeOK, Jobs, Plans, Steps, OwnedKept, ManifestIsRunnable, diskVars, LateTypes

LEMMA PlansKept ==
  ASSUME InstallInv, UNCHANGED plans
  PROVE  plans' \subseteq Plans
BY InstallFacts DEF InstallTypeOK, Plans

LEMMA ReviewMoves ==
  ASSUME InstallInv,
         \/ \E operation \in {"install", "upgrade", "uninstall"}, v \in PackageVersions :
               PrepareJob(operation, v)
         \/ \E plan \in plans : DropPlan(plan)
  PROVE  InstallInv'
<1> USE InstallFacts
<1>1. UNCHANGED <<record, owned, diskVars, job, torn, late>>
  BY DEF PrepareJob, DropPlan
<1>2. plans' \subseteq Plans
  <2>1. ASSUME NEW operation \in {"install", "upgrade", "uninstall"}, NEW v \in PackageVersions,
               PrepareJob(operation, v)
        PROVE  plans' \subseteq Plans
    <3>1. PlanOf(operation, v) \in Plans
      BY DEF PlanOf, Snapshot, InstallTypeOK, Plans
    <3> QED
      BY <2>1, <3>1 DEF PrepareJob
  <2>2. (\E plan \in plans : DropPlan(plan)) => plans' \subseteq Plans
    BY DEF DropPlan, InstallTypeOK, Plans
  <2> QED
    BY <2>1, <2>2 DEF Plans
<1>3. job' \in Jobs /\ (job'.pc = "none" => job' = NoJob)
  BY <1>1 DEF InstallTypeOK, Jobs, Steps
<1>4. TrashKnown' /\ InstallKnown' /\ RemovalKnown' /\ UnownedGone' /\ LateKnown'
  BY <1>1 DEF TrashKnown, InstallKnown, RemovalKnown, UnownedGone, LateKnown, diskVars
<1> QED
  BY <1>1, <1>2, <1>3, <1>4, JobMoves, LateTyped

LEMMA JobStarts ==
  ASSUME InstallInv, NEW plan \in plans, StartJob(plan)
  PROVE  InstallInv'
<1> USE InstallFacts
<1>1. job = NoJob /\ job.pc = "none" /\ UNCHANGED <<record, owned, diskVars, torn, plans, late>>
  BY DEF StartJob, NoJob
<1>2. PICK v \in PackageVersions, pc \in {"move", "dependencies"} :
        /\ job' = [pc |-> pc, version |-> v, old |-> record]
        /\ pc = "dependencies" => Vacant(v) /\ (\/ record = NoVersion /\ manifest = NoVersion
                                                \/ record # NoVersion /\ Verified)
        /\ pc = "move" => record # NoVersion /\ Verified
  BY DEF StartJob, Allowed, InstallTypeOK
<1>3. trash = {} /\ manifest = record
  BY <1>1, <1>2 DEF TrashKnown, Verified
<1>4. /\ job'.pc = pc /\ job'.version = v /\ job'.old = record
      /\ job' \in Jobs
  BY <1>2 DEF Jobs, Steps
<1>5. TrashKnown'
  BY <1>1, <1>3 DEF TrashKnown, diskVars
<1>6. InstallKnown'
  BY <1>1, <1>2, <1>3, <1>4 DEF InstallKnown, Vacant, OwnedKept, diskVars, InstallSteps
<1>7. RemovalKnown'
  BY <1>1, <1>2, <1>3, <1>4 DEF RemovalKnown, Verified, diskVars, RemovalSteps
<1>8. UnownedGone'
  BY <1>1, <1>4 DEF UnownedGone, diskVars, InstallSteps
<1>9. LateKnown'
  <2>1. CASE pc = "move"
    BY <1>1, <1>2, <1>4, <2>1 DEF LateKnown, Verified, diskVars
  <2>2. CASE pc = "dependencies"
    BY <1>4, <2>2, LateFree DEF RemovalSteps
  <2> QED
    BY <2>1, <2>2
<1> QED
  BY <1>1, <1>4, <1>5, <1>6, <1>7, <1>8, <1>9, JobMoves, PlansKept, LateTyped

LEMMA JobFails ==
  ASSUME InstallInv, FailInstall \/ FailUninstall
  PROVE  InstallInv'
<1> USE InstallFacts
<1>1. /\ UNCHANGED <<record, owned, diskVars, torn, plans>>
      /\ \/ job.pc \in {"dependencies", "assets", "manifest", "write", "commit"} /\ Goto("undo_manifest")
         \/ job.pc \in {"move", "commit_removal"} /\ Goto("unmove")
  BY DEF FailInstall, FailUninstall
<1>2. /\ job'.version = job.version /\ job'.old = job.old /\ late' = late
      /\ job' \in Jobs
      /\ \/ job.pc \in {"dependencies", "assets", "manifest", "write", "commit"} /\ job'.pc = "undo_manifest"
         \/ job.pc \in {"move", "commit_removal"} /\ job'.pc = "unmove"
  BY <1>1, JobGoes DEF Steps
<1>3. TrashKnown'
  BY <1>1, <1>2 DEF TrashKnown, diskVars, RemovalSteps
<1>4. InstallKnown'
  BY <1>1, <1>2 DEF InstallKnown, diskVars, InstallSteps
<1>5. RemovalKnown'
  BY <1>1, <1>2 DEF RemovalKnown, diskVars, RemovalSteps
<1>6. UnownedGone'
  BY <1>1, <1>2 DEF UnownedGone, diskVars, InstallSteps
<1>7. LateKnown'
  BY <1>1, <1>2 DEF LateKnown, diskVars, RemovalSteps
<1> QED
  BY <1>1, <1>2, <1>3, <1>4, <1>5, <1>6, <1>7, JobMoves, PlansKept, LateTyped

\* Installation steps: only files of a version nobody owns change.
LEMMA InstallMoves ==
  ASSUME InstallInv, job.pc \in InstallSteps,
         UNCHANGED <<record, owned, trash, plans, torn>>,
         job' \in Jobs,
         \/ job'.pc \in InstallSteps /\ job'.version = job.version /\ job'.old = job.old
         \/ job' = NoJob /\ job'.pc = "none" /\ assets'[job.version] \in {"none", "edited"}
            /\ job.version \notin environment' /\ (pristine' => manifest' = record),
         manifest' \in PackageVersions \cup {NoVersion}, pristine' \in BOOLEAN,
         assets' \in [PackageVersions -> {"none", "partial", "whole", "edited"}],
         environment' \subseteq PackageVersions,
         \A v \in PackageVersions \ {job.version} :
             assets'[v] = assets[v] /\ (v \in environment' <=> v \in environment),
         LateTypes, LateKnown', InstallKnown', ManifestIsRunnable'
  PROVE  InstallInv'
<1> USE InstallFacts
<1>1. trash = {} /\ job.version \in PackageVersions \ owned /\ owned \subseteq PackageVersions
  BY DEF TrashKnown, InstallKnown, InstallTypeOK, InstallSteps, RemovalSteps
<1>2. OwnedKept'
  BY <1>1 DEF OwnedKept
<1>3. TrashKnown' /\ RemovalKnown'
  BY <1>1 DEF TrashKnown, RemovalKnown, InstallSteps, RemovalSteps
<1>4. UnownedGone'
  <2> SUFFICES ASSUME ~torn PROVE UnownedGone'
    BY DEF UnownedGone
  <2>1. ASSUME NEW v \in PackageVersions \ owned, v # job.version
        PROVE  assets'[v] \in {"none", "edited"} /\ v \notin environment'
    BY <2>1 DEF UnownedGone
  <2> QED
    BY <1>1, <2>1 DEF UnownedGone, InstallSteps
<1>5. InstallTypeOK'
  BY InstallFacts DEF InstallTypeOK, Jobs, Plans, Steps, LateTypes
<1>6. job'.pc = "none" => job' = NoJob
  BY DEF InstallSteps
<1> QED
  BY <1>2, <1>3, <1>4, <1>5, <1>6 DEF InstallInv

LEMMA InstallStepKeeps ==
  ASSUME InstallInv,
         \/ InstallDependencies \/ WriteAssets \/ LookAgain \/ WriteManifest
         \/ UndoManifest \/ UndoAssets \/ UndoEnvironment
  PROVE  InstallInv'
<1> USE InstallFacts
<1>0. /\ UNCHANGED <<record, owned, trash, plans, torn>> /\ job.pc \in InstallSteps
      /\ manifest \in PackageVersions \cup {NoVersion} /\ pristine \in BOOLEAN
      /\ assets \in [PackageVersions -> AssetStates]
      /\ environment \subseteq PackageVersions /\ owned \subseteq PackageVersions
  BY DEF InstallDependencies, WriteAssets, LookAgain, WriteManifest, UndoManifest, UndoAssets,
         UndoEnvironment, InstallSteps, InstallTypeOK, AssetStates, diskVars
<1>1. /\ job.version \in PackageVersions \ owned /\ job.old = record
      /\ trash = {} /\ record # job.version
  BY <1>0 DEF InstallKnown, TrashKnown
<1>2. PICK v \in PackageVersions \ owned : v = job.version
  BY <1>1
<1>3. \A u \in owned : assets[u] \in Present /\ u \in environment
  BY <1>1 DEF OwnedKept, Present
<1>4. ASSUME NEW pc \in Steps, Goto(pc)
      PROVE  job' \in Jobs /\ job'.pc = pc /\ job'.version = v /\ job'.old = record /\ late' = late /\ LateTypes
  BY <1>1, <1>2, <1>4, JobGoes, LateTyped
<1>41. ASSUME NEW pc \in Steps, LookThen(pc)
      PROVE  job' \in Jobs /\ job'.pc = pc /\ job'.version = v /\ job'.old = record /\ late' = {} /\ LateTypes
  BY <1>1, <1>2, <1>41, JobLooks, LateTyped
<1>5. CASE InstallDependencies
  <2>1. /\ job.pc = "dependencies" /\ environment' = environment \cup {v}
        /\ UNCHANGED <<manifest, pristine, assets>> /\ Goto("assets")
    BY <1>2, <1>5 DEF InstallDependencies
  <2>2. job' \in Jobs /\ job'.pc = "assets" /\ job'.version = v /\ job'.old = record /\ LateTypes
    BY <1>4, <2>1 DEF Steps
  <2>3. InstallKnown' /\ ManifestIsRunnable' /\ LateKnown'
    BY <1>0, <1>1, <1>2, <2>1, <2>2, LateFree DEF InstallKnown, ManifestIsRunnable, RemovalSteps
  <2> QED
    BY <1>0, <1>1, <1>2, <2>1, <2>2, <2>3, InstallMoves DEF InstallSteps, AssetStates
<1>6. CASE WriteAssets
  <2>1. /\ job.pc = "assets" /\ UNCHANGED <<manifest, pristine, environment>>
        /\ \E to \in {"partial", "whole", "edited"} : assets' = [assets EXCEPT ![v] = to]
        /\ \/ Goto("assets")
           \/ Goto("manifest") /\ \E to \in Present : assets' = [assets EXCEPT ![v] = to]
    <3>1. assets[v] = "none" \/ assets[v] = "edited" \/ assets[v] \in {"partial", "whole"}
      BY <1>0 DEF AssetStates
    <3> QED
      BY <1>2, <1>6, <3>1 DEF WriteAssets, Present
  <2>2. /\ assets' \in [PackageVersions -> AssetStates]
        /\ \A u \in PackageVersions \ {v} : assets'[u] = assets[u]
    BY <1>0, <2>1 DEF AssetStates
  <2>3. /\ job' \in Jobs /\ job'.version = v /\ job'.old = record /\ LateTypes
        /\ job'.pc \in {"assets", "manifest"} /\ (job'.pc = "manifest" => assets'[v] \in Present)
    BY <1>0, <1>4, <2>1 DEF Steps
  <2>4. manifest # v
    BY <1>1, <1>2, <2>1 DEF InstallKnown, InstallSteps
  <2>5. InstallKnown' /\ ManifestIsRunnable' /\ LateKnown'
    BY <1>0, <1>1, <1>2, <2>1, <2>2, <2>3, <2>4, LateFree
    DEF InstallKnown, ManifestIsRunnable, InstallSteps, RemovalSteps
  <2> QED
    BY <1>0, <1>1, <1>2, <2>1, <2>2, <2>3, <2>5, InstallMoves DEF InstallSteps, AssetStates
<1>7. CASE LookAgain
  <2>1. /\ job.pc = "manifest" /\ LookThen("write") /\ UNCHANGED diskVars
        /\ IF record = NoVersion THEN manifest = NoVersion ELSE Verified
    BY <1>1, <1>7 DEF LookAgain
  <2>2. job' \in Jobs /\ job'.pc = "write" /\ job'.version = v /\ job'.old = record /\ LateTypes
    BY <1>41, <2>1 DEF Steps
  <2>3. InstallKnown' /\ ManifestIsRunnable'
    BY <1>0, <1>1, <1>2, <2>1, <2>2 DEF InstallKnown, ManifestIsRunnable, diskVars
  <2>4. LateKnown'
    BY <2>1, <2>2 DEF LateKnown, RemovalSteps, Verified, diskVars
  <2> QED
    BY <1>0, <1>1, <1>2, <2>1, <2>2, <2>3, <2>4, InstallMoves DEF InstallSteps, AssetStates, diskVars
<1>8. CASE WriteManifest
  <2>1. /\ job.pc = "write" /\ manifest' = v /\ pristine' = TRUE /\ Goto("commit")
        /\ UNCHANGED <<assets, environment>>
    BY <1>2, <1>8 DEF WriteManifest
  <2>2. job' \in Jobs /\ job'.pc = "commit" /\ job'.version = v /\ job'.old = record /\ LateTypes
    BY <1>4, <2>1 DEF Steps
  <2>3. assets[v] \in Present /\ v \in environment
    BY <1>0, <1>2, <2>1 DEF InstallKnown
  <2>4. InstallKnown' /\ ManifestIsRunnable' /\ LateKnown'
    BY <1>0, <1>1, <1>2, <2>1, <2>2, <2>3, LateFree DEF InstallKnown, ManifestIsRunnable, RemovalSteps, Present
  <2> QED
    BY <1>0, <1>1, <1>2, <2>1, <2>2, <2>4, InstallMoves DEF InstallSteps, AssetStates
<1>9. CASE UndoManifest /\ job.pc = "undo_manifest"
  <2>1. /\ UNCHANGED <<assets, environment, manifest, pristine>>
        /\ \/ manifest = v /\ pristine /\ LookThen("put_back")
           \/ ~(manifest = v /\ pristine) /\ Goto("undo_assets")
    BY <1>2, <1>9 DEF UndoManifest
  <2>2. /\ job' \in Jobs /\ job'.version = v /\ job'.old = record /\ LateTypes
        /\ \/ job'.pc = "put_back" /\ manifest = v /\ pristine
           \/ job'.pc = "undo_assets" /\ ~(manifest = v /\ pristine)
    BY <1>4, <1>41, <2>1 DEF Steps
  <2>3. manifest = record \/ (manifest = v /\ assets[v] \in Present /\ v \in environment)
    BY <1>0, <1>2, <1>9 DEF InstallKnown
  <2>4. InstallKnown'
    BY <1>0, <1>1, <1>2, <2>1, <2>2, <2>3 DEF InstallKnown
  <2>5. ManifestIsRunnable' /\ LateKnown'
    BY <2>1, <2>2 DEF ManifestIsRunnable, LateKnown, RemovalSteps
  <2> QED
    BY <1>0, <1>1, <1>2, <2>1, <2>2, <2>4, <2>5, InstallMoves DEF InstallSteps, AssetStates
<1>10. CASE UndoManifest /\ job.pc = "put_back"
  <2>1. Goto("undo_assets") /\ UNCHANGED <<assets, environment>> /\ manifest' = record /\ pristine' = TRUE
    BY <1>1, <1>10 DEF UndoManifest
  <2>2. job' \in Jobs /\ job'.pc = "undo_assets" /\ job'.version = v /\ job'.old = record /\ LateTypes
    BY <1>4, <2>1 DEF Steps
  <2>3. InstallKnown' /\ LateKnown'
    BY <1>0, <1>1, <1>2, <2>1, <2>2, LateFree DEF InstallKnown, RemovalSteps
  <2>4. ManifestIsRunnable'
    <3>1. record # NoVersion => assets[record] \in Present /\ record \in environment
      BY <1>3
    <3> QED
      BY <2>1, <3>1 DEF ManifestIsRunnable, Present
  <2> QED
    BY <1>0, <1>1, <1>2, <2>1, <2>2, <2>3, <2>4, InstallMoves DEF InstallSteps, AssetStates
<1>11. CASE UndoAssets
  <2>1. /\ job.pc \in {"undo_assets", "unlink_assets"} /\ UNCHANGED <<manifest, pristine, environment>>
        /\ \/ assets[v] = "edited" /\ Goto("undo_environment") /\ UNCHANGED assets
           \/ assets[v] # "edited" /\ LookThen("unlink_assets") /\ UNCHANGED assets
           \/ Goto("undo_environment") /\ assets' = [assets EXCEPT ![v] = "none"]
    BY <1>2, <1>11 DEF UndoAssets
  <2>2. /\ job' \in Jobs /\ job'.version = v /\ job'.old = record /\ LateTypes
        /\ \/ job'.pc = "undo_environment" /\ assets'[v] \in {"none", "edited"}
           \/ job'.pc = "unlink_assets" /\ assets'[v] # "edited"
    BY <1>0, <1>4, <1>41, <2>1 DEF Steps
  <2>3. /\ assets' \in [PackageVersions -> AssetStates]
        /\ \A u \in PackageVersions \ {v} : assets'[u] = assets[u]
    BY <1>0, <2>1 DEF AssetStates
  <2>4. manifest = record \/ (manifest = v /\ ~pristine)
    BY <1>0, <1>2, <2>1 DEF InstallKnown
  <2>5. InstallKnown' /\ ManifestIsRunnable' /\ LateKnown'
    BY <1>0, <1>1, <1>2, <1>3, <2>1, <2>2, <2>3, <2>4
    DEF InstallKnown, ManifestIsRunnable, LateKnown, RemovalSteps, Present
  <2> QED
    BY <1>0, <1>1, <1>2, <2>1, <2>2, <2>3, <2>5, InstallMoves DEF InstallSteps, AssetStates
<1>12. CASE UndoEnvironment
  <2>1. /\ job.pc = "undo_environment" /\ FinishJob /\ UNCHANGED <<manifest, pristine, assets>>
        /\ environment' = environment \ {v}
    BY <1>2, <1>12 DEF UndoEnvironment
  <2>2. job' = NoJob /\ job' \in Jobs /\ job'.pc = "none" /\ LateTypes
    BY <2>1, JobEnds, LateTyped
  <2>3. (manifest = record \/ (manifest = v /\ ~pristine)) /\ assets[v] \in {"none", "edited"}
    BY <1>0, <1>2, <2>1 DEF InstallKnown
  <2>4. InstallKnown' /\ ManifestIsRunnable' /\ LateKnown'
    BY <1>0, <1>1, <1>2, <1>3, <2>1, <2>2, <2>3, LateFree
    DEF InstallKnown, ManifestIsRunnable, RemovalSteps, Present
  <2> QED
    BY <1>0, <1>1, <1>2, <2>1, <2>2, <2>3, <2>4, InstallMoves DEF AssetStates
<1> QED
  BY <1>5, <1>6, <1>7, <1>8, <1>9, <1>10, <1>11, <1>12 DEF UndoManifest

LEMMA InstallCommits ==
  ASSUME InstallInv, CommitInstall
  PROVE  InstallInv'
<1> USE InstallFacts
<1>0. /\ job.pc = "commit" /\ FinishJob /\ UNCHANGED <<manifest, pristine, assets, environment, trash, plans, torn>>
      /\ record' = job.version /\ owned' = owned \cup {job.version}
  BY DEF CommitInstall, diskVars
<1>1. /\ job.version \in PackageVersions \ owned /\ assets[job.version] \in Present /\ job.version \in environment
      /\ manifest = job.version /\ trash = {}
  BY <1>0 DEF InstallKnown, TrashKnown, InstallSteps, RemovalSteps
<1>2. PICK v \in PackageVersions \ owned : v = job.version
  BY <1>1
<1>3. job' = NoJob /\ job' \in Jobs /\ job'.pc = "none" /\ LateTypes
  BY <1>0, JobEnds, LateTyped
<1>4. InstallTypeOK'
  BY <1>0, <1>1, <1>2, <1>3 DEF InstallTypeOK, Jobs, Steps, LateTypes
<1>5. OwnedKept' /\ TrashKnown' /\ InstallKnown' /\ RemovalKnown' /\ ManifestIsRunnable' /\ LateKnown'
  BY <1>0, <1>1, <1>2, <1>3, LateFree
  DEF OwnedKept, TrashKnown, InstallKnown, RemovalKnown, ManifestIsRunnable, Present, RemovalSteps
<1>6. UnownedGone'
  BY <1>0, <1>1, <1>2, <1>3 DEF UnownedGone
<1> QED
  BY <1>3, <1>4, <1>5, <1>6 DEF InstallInv

\* What happens beside and to a job.
LEMMA JobDisturbed ==
  ASSUME InstallInv, JobDies \/ ConfigureManifest \/ \E v \in PackageVersions : EditAssets(v)
  PROVE  InstallInv'
<1> USE InstallFacts
<1>1. CASE JobDies
  <2>1. /\ job' = NoJob /\ torn' = TRUE /\ (trash' = IF job.pc = "clean" THEN {} ELSE trash)
        /\ UNCHANGED <<record, owned, manifest, pristine, assets, environment, plans>> /\ job.pc # "none"
    BY <1>1 DEF JobDies, FinishJob
  <2>2. job' \in Jobs /\ job'.pc = "none" /\ LateTypes
    BY <1>1, JobEnds, LateTyped DEF JobDies
  <2>3. InstallTypeOK'
    BY <2>1, <2>2 DEF InstallTypeOK, Jobs, Steps, LateTypes
  <2>4. OwnedKept' /\ TrashKnown'
    BY <2>1, <2>2 DEF OwnedKept, TrashKnown, RemovalKnown
  <2>5. InstallKnown' /\ RemovalKnown' /\ UnownedGone' /\ ManifestIsRunnable' /\ LateKnown'
    BY <2>1, <2>2, LateFree DEF InstallKnown, RemovalKnown, UnownedGone, ManifestIsRunnable, RemovalSteps
  <2> QED
    BY <2>1, <2>3, <2>4, <2>5 DEF InstallInv
<1>2. CASE ConfigureManifest
  <2>1. /\ pristine' = FALSE /\ manifest \in PackageVersions
        /\ late \subseteq late' /\ LateTypes /\ (job.pc # "none" => <<"manifest", manifest>> \in late')
        /\ UNCHANGED <<record, owned, manifest, assets, environment, trash, plans, job, torn>>
    BY <1>2 DEF ConfigureManifest, Edited, InstallTypeOK, LateTypes, NoJob
  <2>2. InstallTypeOK' /\ (job'.pc = "none" => job' = NoJob)
    BY <2>1 DEF InstallTypeOK, LateTypes
  <2>3. /\ OwnedKept' /\ TrashKnown' /\ RemovalKnown' /\ ManifestIsRunnable'
        /\ LateKnown'
    BY <2>1 DEF OwnedKept, TrashKnown, RemovalKnown, ManifestIsRunnable, LateKnown, RemovalSteps
  <2>4. UnownedGone' /\ InstallKnown'
    BY <2>1 DEF UnownedGone, InstallKnown
  <2> QED
    BY <2>2, <2>3, <2>4 DEF InstallInv
<1>3. ASSUME NEW v \in PackageVersions, EditAssets(v)
      PROVE  InstallInv'
  <2>1. /\ assets[v] \in {"partial", "whole"} /\ assets' = [assets EXCEPT ![v] = "edited"]
        /\ UNCHANGED <<record, owned, manifest, pristine, environment, trash, plans, job, torn>>
        /\ assets \in [PackageVersions -> AssetStates]
        /\ owned \subseteq PackageVersions /\ manifest \in PackageVersions \cup {NoVersion}
        /\ late \subseteq late' /\ LateTypes /\ (job.pc # "none" => <<"assets", v>> \in late')
    BY <1>3 DEF EditAssets, Edited, NoJob, InstallTypeOK, LateTypes, AssetStates
  <2>2. /\ assets' \in [PackageVersions -> AssetStates] /\ assets'[v] = "edited"
        /\ \A u \in PackageVersions \ {v} : assets'[u] = assets[u]
    BY <2>1 DEF AssetStates
  <2>3. InstallTypeOK' /\ (job'.pc = "none" => job' = NoJob)
    BY <2>1, <2>2 DEF InstallTypeOK, LateTypes, AssetStates
  <2>4. OwnedKept' /\ ManifestIsRunnable' /\ TrashKnown'
    BY <2>1, <2>2 DEF OwnedKept, ManifestIsRunnable, TrashKnown
  <2>5. RemovalKnown'
    <3>1. job.pc = "commit_removal" => v \notin owned
      BY <2>1 DEF RemovalKnown, RemovalSteps
    <3> QED
      BY <2>1, <2>2, <3>1 DEF RemovalKnown
  <2>6. InstallKnown'
    BY <2>1, <2>2 DEF InstallKnown, Present
  <2>7. UnownedGone'
    BY <2>1, <2>2 DEF UnownedGone
  <2>8. LateKnown'
    BY <2>1, <2>2 DEF LateKnown, RemovalSteps
  <2> QED
    BY <2>3, <2>4, <2>5, <2>6, <2>7, <2>8 DEF InstallInv
<1> QED
  BY <1>1, <1>2, <1>3

\* What a move changes, one kind of file at a time.
LEMMA PutOne ==
  ASSUME InstallTypeOK, NEW item \in JobKinds \X PackageVersions, NEW there \in BOOLEAN, Put(item, there)
  PROVE  /\ item[1] \in JobKinds /\ item[2] \in PackageVersions /\ item = <<item[1], item[2]>>
         /\ item[1] = "manifest" => /\ manifest' = IF there THEN item[2] ELSE NoVersion
                                    /\ UNCHANGED <<assets, environment>>
         /\ item[1] = "assets" => /\ UNCHANGED <<manifest, environment>>
                                  /\ assets'[item[2]] = IF ~there THEN "none"
                                                        ELSE IF item \in late THEN "edited" ELSE "whole"
                                  /\ \A v \in PackageVersions \ {item[2]} : assets'[v] = assets[v]
         /\ item[1] = "environment" => /\ UNCHANGED <<manifest, assets>>
                                       /\ item[2] \in environment' <=> there
                                       /\ \A v \in PackageVersions \ {item[2]} : v \in environment' <=> v \in environment
         /\ assets' \in [PackageVersions -> {"none", "partial", "whole", "edited"}]
         /\ environment' \subseteq PackageVersions /\ manifest' \in PackageVersions \cup {NoVersion}
<1>1. item[1] \in JobKinds /\ item[2] \in PackageVersions /\ item = <<item[1], item[2]>>
  OBVIOUS
<1>2. PICK k \in JobKinds, u \in PackageVersions : k = item[1] /\ u = item[2]
  BY <1>1
<1>3. /\ assets \in [PackageVersions -> {"none", "partial", "whole", "edited"}]
      /\ environment \subseteq PackageVersions /\ manifest \in PackageVersions \cup {NoVersion}
  BY DEF InstallTypeOK
<1>4. /\ manifest' = IF k # "manifest" THEN manifest ELSE IF there THEN u ELSE NoVersion
      /\ assets' = IF k # "assets" THEN assets
                   ELSE [assets EXCEPT ![u] = IF ~there THEN "none" ELSE IF item \in late THEN "edited" ELSE "whole"]
      /\ environment' = IF k # "environment" THEN environment
                        ELSE IF there THEN environment \cup {u} ELSE environment \ {u}
  BY <1>2 DEF Put
<1>5. CASE k = "manifest"
  BY <1>1, <1>2, <1>3, <1>4, <1>5
<1>6. CASE k = "assets"
  BY <1>1, <1>2, <1>3, <1>4, <1>6
<1>7. CASE k = "environment"
  BY <1>1, <1>2, <1>3, <1>4, <1>7
<1> QED
  BY <1>5, <1>6, <1>7 DEF JobKinds

LEMMA FileMovesOut ==
  ASSUME InstallInv, NEW item \in JobKinds \X PackageVersions, MoveToTrash(item)
  PROVE  InstallInv'
<1> USE InstallFacts
<1>1. /\ job.pc = "move" /\ item \in Remaining /\ (manifest = job.old => item[1] = "manifest")
      /\ Put(item, FALSE) /\ trash' = trash \cup {item}
      /\ UNCHANGED <<record, owned, pristine, plans, torn>>
      /\ Goto(IF Remaining = {item} THEN "commit_removal" ELSE "move")
  BY DEF MoveToTrash
<1>2. /\ job.old = record /\ record # NoVersion /\ record \in owned /\ (trash = {} => manifest = record)
  BY <1>1 DEF RemovalKnown, RemovalSteps
<1>3. /\ trash # {} => /\ manifest = NoVersion /\ <<"manifest", record>> \in trash
                       /\ \A i \in trash : IF i[1] = "manifest" THEN i[2] = record ELSE i[2] \in owned
  BY <1>1 DEF TrashKnown
<1>4. /\ job' \in Jobs /\ job'.version = job.version /\ job'.old = record
      /\ job'.pc \in {"move", "commit_removal"} /\ (job'.pc = "commit_removal" => Remaining = {item})
      /\ late' = late
  BY <1>1, <1>2, JobGoes DEF Steps
<1>5. /\ item[1] \in JobKinds /\ item[2] \in PackageVersions /\ item = <<item[1], item[2]>>
      /\ item[1] = "manifest" => manifest' = NoVersion /\ UNCHANGED <<assets, environment>>
      /\ item[1] = "assets" => /\ UNCHANGED <<manifest, environment>>
                               /\ assets'[item[2]] = "none"
                               /\ \A v \in PackageVersions \ {item[2]} : assets'[v] = assets[v]
      /\ item[1] = "environment" => /\ UNCHANGED <<manifest, assets>>
                                    /\ item[2] \notin environment'
                                    /\ \A v \in PackageVersions \ {item[2]} : v \in environment' <=> v \in environment
      /\ assets' \in [PackageVersions -> {"none", "partial", "whole", "edited"}]
      /\ environment' \subseteq PackageVersions /\ manifest' \in PackageVersions \cup {NoVersion}
  BY <1>1, PutOne
<1>6. item \in Targets /\ InPlace(item)
  BY <1>1 DEF Remaining
<1>7. /\ item[1] = "manifest" => item[2] = record /\ manifest = record
      /\ item[1] # "manifest" => item[2] \in owned
  BY <1>2, <1>6 DEF Targets, InPlace
<1>8. manifest' = NoVersion /\ <<"manifest", record>> \in trash'
  BY <1>1, <1>2, <1>3, <1>5, <1>7 DEF JobKinds
<1>9. owned \subseteq PackageVersions
  BY DEF InstallTypeOK
<1>10. InstallTypeOK'
  <2>1. trash' \subseteq JobKinds \X PackageVersions
    BY <1>1 DEF InstallTypeOK
  <2> QED
    BY <1>1, <1>4, <1>5, <2>1 DEF InstallTypeOK, Jobs, Steps
<1>11. OwnedKept'
  <2> SUFFICES ASSUME NEW v \in owned
               PROVE  /\ assets'[v] \in {"whole", "edited"} \/ (assets'[v] = "none" /\ <<"assets", v>> \in trash')
                      /\ v \in environment' \/ <<"environment", v>> \in trash'
    BY <1>1 DEF OwnedKept
  <2>1. /\ assets[v] \in {"whole", "edited"} \/ (assets[v] = "none" /\ <<"assets", v>> \in trash)
        /\ v \in environment \/ <<"environment", v>> \in trash
    BY DEF OwnedKept
  <2>2. item \in trash' /\ trash \subseteq trash'
    BY <1>1
  <2> QED
    BY <1>5, <1>9, <2>1, <2>2 DEF JobKinds
<1>12. TrashKnown'
  BY <1>1, <1>2, <1>3, <1>4, <1>7, <1>8 DEF TrashKnown, RemovalSteps
<1>13. InstallKnown'
  BY <1>4 DEF InstallKnown, InstallSteps
<1>14. RemovalKnown'
  <2>1. ASSUME Remaining = {item}, NEW v \in owned
        PROVE  assets'[v] = "none" /\ v \notin environment'
    <3>1. <<"assets", v>> \in Targets /\ <<"environment", v>> \in Targets
      BY DEF Targets
    <3>2. /\ <<"assets", v>> # item => ~InPlace(<<"assets", v>>)
          /\ <<"environment", v>> # item => ~InPlace(<<"environment", v>>)
      BY <2>1, <3>1 DEF Remaining
    <3>3. /\ InPlace(<<"assets", v>>) <=> assets[v] # "none"
          /\ InPlace(<<"environment", v>>) <=> v \in environment
      BY DEF InPlace
    <3> QED
      BY <1>5, <1>9, <3>2, <3>3 DEF JobKinds
  <2>2. trash' # {}
    BY <1>1
  <2> QED
    BY <1>1, <1>2, <1>4, <1>8, <2>1, <2>2 DEF RemovalKnown
<1>15. UnownedGone'
  <2>1. ASSUME ~torn, NEW v \in PackageVersions \ owned
        PROVE  assets'[v] \in {"none", "edited"} /\ v \notin environment'
    <3>1. assets[v] \in {"none", "edited"} /\ v \notin environment
      BY <1>1, <2>1 DEF UnownedGone, InstallSteps
    <3> QED
      BY <1>5, <1>7, <3>1 DEF JobKinds
  <2> QED
    BY <1>1, <1>4, <2>1 DEF UnownedGone
<1>16. ManifestIsRunnable' /\ job'.pc # "none"
  BY <1>4, <1>8 DEF ManifestIsRunnable
<1>17. LateKnown'
  <2>1. \A v \in owned : assets'[v] = "edited" => <<"assets", v>> \in late
    BY <1>1, <1>5, <1>9 DEF LateKnown, RemovalSteps, JobKinds
  <2> QED
    BY <1>1, <1>4, <1>8, <2>1 DEF LateKnown
<1> QED
  BY <1>10, <1>11, <1>12, <1>13, <1>14, <1>15, <1>16, <1>17 DEF InstallInv

LEMMA FileMovesBack ==
  ASSUME InstallInv, NEW item \in JobKinds \X PackageVersions, MoveBack(item)
  PROVE  InstallInv'
<1> USE InstallFacts
<1>1. /\ job.pc = "unmove" /\ item \in trash /\ (item[1] = "manifest" => trash = {item})
      /\ Put(item, TRUE) /\ trash' = trash \ {item}
      /\ UNCHANGED <<record, owned, pristine, plans, torn>>
      /\ IF trash = {item} THEN FinishJob ELSE UNCHANGED <<job, late>>
  BY DEF MoveBack
<1>2. /\ job.old = record /\ record # NoVersion /\ record \in owned
  BY <1>1 DEF RemovalKnown, RemovalSteps
<1>3. /\ manifest = NoVersion /\ <<"manifest", record>> \in trash
      /\ \A i \in trash : IF i[1] = "manifest" THEN i[2] = record ELSE i[2] \in owned
  BY <1>1 DEF TrashKnown
<1>4. /\ job' \in Jobs /\ (job'.pc = "none" => job' = NoJob)
      /\ \/ trash = {item} /\ job' = NoJob /\ job'.pc = "none" /\ late' = {}
         \/ trash # {item} /\ job' = job /\ late' = late
  BY <1>1, JobEnds DEF InstallTypeOK, Jobs, Steps
<1>5. /\ item[1] \in JobKinds /\ item[2] \in PackageVersions /\ item = <<item[1], item[2]>>
      /\ item[1] = "manifest" => manifest' = item[2] /\ UNCHANGED <<assets, environment>>
      /\ item[1] = "assets" => /\ UNCHANGED <<manifest, environment>>
                               /\ assets'[item[2]] = IF item \in late THEN "edited" ELSE "whole"
                               /\ \A v \in PackageVersions \ {item[2]} : assets'[v] = assets[v]
      /\ item[1] = "environment" => /\ UNCHANGED <<manifest, assets>>
                                    /\ item[2] \in environment'
                                    /\ \A v \in PackageVersions \ {item[2]} : v \in environment' <=> v \in environment
      /\ assets' \in [PackageVersions -> {"none", "partial", "whole", "edited"}]
      /\ environment' \subseteq PackageVersions /\ manifest' \in PackageVersions \cup {NoVersion}
  BY <1>1, PutOne
<1>6. /\ item[1] = "manifest" => item[2] = record
      /\ item[1] # "manifest" => item[2] \in owned /\ item # <<"manifest", record>>
  BY <1>1, <1>3
<1>7. \/ item[1] = "manifest" /\ trash' = {} /\ manifest' = record
      \/ item[1] # "manifest" /\ trash # {item} /\ <<"manifest", record>> \in trash' /\ manifest' = NoVersion
  BY <1>1, <1>3, <1>5, <1>6 DEF JobKinds
<1>8. owned \subseteq PackageVersions
  BY DEF InstallTypeOK
<1>9. InstallTypeOK'
  <2>1. trash' \subseteq JobKinds \X PackageVersions
    BY <1>1 DEF InstallTypeOK
  <2> QED
    BY <1>1, <1>4, <1>5, <2>1 DEF InstallTypeOK, Jobs, Steps
<1>10. OwnedKept'
  <2> SUFFICES ASSUME NEW v \in owned
               PROVE  /\ assets'[v] \in {"whole", "edited"} \/ (assets'[v] = "none" /\ <<"assets", v>> \in trash')
                      /\ v \in environment' \/ <<"environment", v>> \in trash'
    BY <1>1 DEF OwnedKept
  <2>1. /\ assets[v] \in {"whole", "edited"} \/ (assets[v] = "none" /\ <<"assets", v>> \in trash)
        /\ v \in environment \/ <<"environment", v>> \in trash
    BY DEF OwnedKept
  <2>2. \A i \in trash : i = item \/ i \in trash'
    BY <1>1
  <2>3. /\ <<"assets", v>> = item => item[1] = "assets" /\ item[2] = v
        /\ <<"environment", v>> = item => item[1] = "environment" /\ item[2] = v
    OBVIOUS
  <2> QED
    BY <1>5, <1>8, <2>1, <2>2, <2>3 DEF JobKinds
<1>11. TrashKnown'
  BY <1>1, <1>2, <1>3, <1>4, <1>7 DEF TrashKnown, RemovalSteps
<1>12. InstallKnown'
  BY <1>1, <1>4 DEF InstallKnown, InstallSteps
<1>13. LateKnown'
  <2>1. CASE trash = {item}
    BY <1>4, <2>1, LateFree DEF RemovalSteps
  <2>2. CASE trash # {item}
    <3>1. \A v \in owned : assets'[v] = "edited" => <<"assets", v>> \in late
      BY <1>1, <1>5, <1>8 DEF LateKnown, RemovalSteps, JobKinds
    <3> QED
      BY <1>1, <1>4, <1>7, <2>2, <3>1 DEF LateKnown
  <2> QED
    BY <2>1, <2>2
<1>14. RemovalKnown'
  BY <1>1, <1>2, <1>4, <1>7 DEF RemovalKnown
<1>15. UnownedGone'
  <2>1. ASSUME ~torn, NEW v \in PackageVersions \ owned
        PROVE  assets'[v] \in {"none", "edited"} /\ v \notin environment'
    <3>1. assets[v] \in {"none", "edited"} /\ v \notin environment
      BY <1>1, <2>1 DEF UnownedGone, InstallSteps
    <3> QED
      BY <1>5, <1>6, <3>1 DEF JobKinds
  <2>2. job'.pc = "none" => trash' = {} /\ manifest' = record
    BY <1>1, <1>4, <1>7
  <2> QED
    BY <1>1, <2>1, <2>2 DEF UnownedGone
<1>16. ManifestIsRunnable'
  <2>1. trash' = {} => assets'[record] \in {"whole", "edited"} /\ record \in environment'
    BY <1>1, <1>2, <1>10 DEF OwnedKept
  <2> QED
    BY <1>7, <2>1 DEF ManifestIsRunnable
<1> QED
  BY <1>4, <1>9, <1>10, <1>11, <1>12, <1>13, <1>14, <1>15, <1>16 DEF InstallInv

LEMMA RemovalEnds ==
  ASSUME InstallInv, NothingMoved \/ CommitRemoval \/ CleanTrash
  PROVE  InstallInv'
<1> USE InstallFacts
<1>1. CASE NothingMoved
  <2>1. /\ UNCHANGED <<record, owned, diskVars, torn, plans>> /\ FinishJob
        /\ job.pc = "unmove" /\ trash = {}
    BY <1>1 DEF NothingMoved
  <2>2. job' = NoJob /\ job' \in Jobs /\ job'.pc = "none" /\ LateTypes
    BY <2>1, JobEnds, LateTyped
  <2>3. manifest = record
    BY <2>1 DEF RemovalKnown, RemovalSteps
  <2>4. TrashKnown' /\ InstallKnown' /\ RemovalKnown' /\ LateKnown'
    BY <2>1, <2>2, LateFree DEF TrashKnown, InstallKnown, RemovalKnown, RemovalSteps, diskVars
  <2>5. UnownedGone'
    BY <2>1, <2>2, <2>3 DEF UnownedGone, diskVars, InstallSteps
  <2> QED
    BY <2>1, <2>2, <2>4, <2>5, JobMoves, PlansKept
<1>2. CASE CommitRemoval
  <2>1. /\ job.pc = "commit_removal" /\ record' = NoVersion /\ owned' = {} /\ pristine' = TRUE /\ Goto("clean")
        /\ UNCHANGED <<manifest, assets, environment, trash, plans, torn>>
    BY <1>2 DEF CommitRemoval, diskVars
  <2>2. job' \in Jobs /\ job'.pc = "clean" /\ LateTypes
    BY <2>1, JobGoes, LateTyped DEF Steps
  <2>3. manifest = NoVersion /\ \A v \in owned : assets[v] = "none" /\ v \notin environment
    BY <2>1 DEF RemovalKnown, RemovalSteps
  <2>4. InstallTypeOK'
    BY <2>1, <2>2 DEF InstallTypeOK, Jobs, Steps, LateTypes
  <2>5. OwnedKept' /\ TrashKnown' /\ InstallKnown' /\ RemovalKnown' /\ ManifestIsRunnable' /\ LateKnown'
    BY <2>1, <2>2, <2>3, LateFree
    DEF OwnedKept, TrashKnown, InstallKnown, RemovalKnown, ManifestIsRunnable, InstallSteps, RemovalSteps
  <2>6. UnownedGone'
    BY <2>1, <2>2, <2>3 DEF UnownedGone, InstallSteps
  <2> QED
    BY <2>2, <2>4, <2>5, <2>6 DEF InstallInv
<1>3. CASE CleanTrash
  <2>1. /\ job.pc = "clean" /\ FinishJob /\ trash' = {}
        /\ UNCHANGED <<record, owned, manifest, pristine, assets, environment, plans, torn>>
        /\ record = NoVersion /\ manifest = NoVersion /\ owned = {}
    BY <1>3 DEF CleanTrash, RemovalKnown
  <2>2. job' = NoJob /\ job' \in Jobs /\ job'.pc = "none" /\ LateTypes
    BY <2>1, JobEnds, LateTyped
  <2>3. InstallTypeOK'
    BY <2>1, <2>2 DEF InstallTypeOK, Jobs, Steps, LateTypes
  <2>4. OwnedKept' /\ TrashKnown' /\ InstallKnown' /\ RemovalKnown' /\ ManifestIsRunnable' /\ LateKnown'
    BY <2>1, <2>2, LateFree
    DEF OwnedKept, TrashKnown, InstallKnown, RemovalKnown, ManifestIsRunnable, InstallSteps, RemovalSteps
  <2>5. UnownedGone'
    BY <2>1, <2>2 DEF UnownedGone, InstallSteps
  <2> QED
    BY <2>2, <2>3, <2>4, <2>5 DEF InstallInv
<1> QED
  BY <1>1, <1>2, <1>3

LEMMA InstallInvInit == InstallInit => InstallInv
<1> SUFFICES ASSUME InstallInit PROVE InstallInv
  OBVIOUS
<1>1. job = NoJob /\ job \in Jobs /\ job.pc = "none"
  BY DEF InstallInit, NoJob, Jobs, Steps
<1>2. InstallTypeOK
  BY <1>1, PackageAssumption DEF InstallInit, InstallTypeOK, Jobs, Steps
<1> QED
  BY <1>1, <1>2 DEF InstallInit, InstallInv, OwnedKept, TrashKnown, InstallKnown, RemovalKnown,
                    UnownedGone, LateKnown, ManifestIsRunnable, InstallSteps, RemovalSteps

LEMMA InstallInvKept == InstallInv /\ [InstallNext]_installVars => InstallInv'
<1> SUFFICES ASSUME InstallInv, [InstallNext]_installVars PROVE InstallInv'
  OBVIOUS
<1>1. CASE UNCHANGED installVars
  <2>1. /\ UNCHANGED <<record, owned, diskVars, job, torn, plans, late>>
        /\ job' \in Jobs /\ (job'.pc = "none" => job' = NoJob)
    BY <1>1, InstallFacts DEF installVars, diskVars, InstallTypeOK, Jobs, Steps
  <2>2. TrashKnown' /\ InstallKnown' /\ RemovalKnown' /\ UnownedGone' /\ LateKnown'
    BY <2>1, InstallFacts DEF TrashKnown, InstallKnown, RemovalKnown, UnownedGone, LateKnown, diskVars
  <2> QED
    BY <2>1, <2>2, InstallFacts, JobMoves, PlansKept, LateTyped
<1>2. CASE \/ \E operation \in {"install", "upgrade", "uninstall"}, v \in PackageVersions :
                 PrepareJob(operation, v)
           \/ \E plan \in plans : StartJob(plan) \/ DropPlan(plan)
  BY <1>2, ReviewMoves, JobStarts
<1>3. CASE InstallStep
  BY <1>3, InstallStepKeeps, InstallCommits, JobFails DEF InstallStep
<1>4. CASE UninstallStep
  BY <1>4, FileMovesOut, FileMovesBack, RemovalEnds, JobFails DEF UninstallStep
<1>5. CASE JobDies \/ ConfigureManifest \/ \E v \in PackageVersions : EditAssets(v)
  BY <1>5, JobDisturbed
<1> QED
  BY <1>1, <1>2, <1>3, <1>4, <1>5 DEF InstallNext

\* Assets the user changed: only an undo or a removal touches them, and only
\* when the change came after its look.
LEMMA EditedAssetsStay ==
  ASSUME InstallInv, InstallNext, NEW v \in PackageVersions, assets[v] = "edited"
  PROVE  assets'[v] = "edited" \/ <<"assets", v>> \in late
<1> USE InstallFacts
<1>1. assets \in [PackageVersions -> AssetStates]
  BY DEF InstallTypeOK, AssetStates
<1>2. CASE WriteAssets
  <2>1. \E to : assets' = [assets EXCEPT ![job.version] = IF @ = "edited" THEN @ ELSE to]
    BY <1>1, <1>2 DEF WriteAssets, AssetStates
  <2> QED
    BY <1>1, <2>1
<1>3. CASE UndoAssets
  <2>1. \/ UNCHANGED assets
        \/ job.pc = "unlink_assets" /\ \E to : assets' = [assets EXCEPT ![job.version] = to]
    BY <1>3 DEF UndoAssets
  <2> QED
    BY <1>1, <2>1 DEF LateKnown
<1>4. ASSUME NEW item \in JobKinds \X PackageVersions, NEW there \in BOOLEAN, Put(item, there),
             job.pc \in RemovalSteps, item[1] = "assets" => item[2] \in owned
      PROVE  assets'[v] = "edited" \/ <<"assets", v>> \in late
  <2>1. item[1] = "assets" => item[2] # v \/ <<"assets", v>> \in late
    BY <1>4 DEF LateKnown
  <2> QED
    BY <1>4, <2>1, PutOne DEF JobKinds
<1>5. ASSUME NEW item \in JobKinds \X PackageVersions, MoveToTrash(item)
      PROVE  assets'[v] = "edited" \/ <<"assets", v>> \in late
  BY <1>4, <1>5 DEF MoveToTrash, Remaining, Targets, RemovalSteps
<1>6. ASSUME NEW item \in JobKinds \X PackageVersions, MoveBack(item)
      PROVE  assets'[v] = "edited" \/ <<"assets", v>> \in late
  BY <1>4, <1>6 DEF MoveBack, TrashKnown, RemovalSteps
<1>7. ASSUME NEW u \in PackageVersions, EditAssets(u)
      PROVE  assets'[v] = "edited"
  BY <1>1, <1>7 DEF EditAssets
<1>8. CASE UNCHANGED assets
  BY <1>8
<1> QED
  BY <1>2, <1>3, <1>5, <1>6, <1>7, <1>8
  DEF InstallNext, InstallStep, UninstallStep, PrepareJob, StartJob, DropPlan, InstallDependencies,
      LookAgain, WriteManifest, CommitInstall, FailInstall, UndoManifest, UndoEnvironment,
      FailUninstall, NothingMoved, CommitRemoval, CleanTrash, JobDies, ConfigureManifest, diskVars

\* A manifest the user changed: an installation replaces it, its undo puts the
\* old one back and a removal moves it, each only when the change came after the
\* look.
LEMMA EditedManifestStays ==
  ASSUME InstallInv, InstallNext, manifest # NoVersion, ~pristine
  PROVE  (manifest' = manifest /\ ~pristine') \/ <<"manifest", manifest>> \in late
<1> USE InstallFacts
<1>1. CASE WriteManifest
  BY <1>1 DEF WriteManifest, LateKnown
<1>2. CASE UndoManifest
  <2>1. UNCHANGED <<manifest, pristine>> \/ job.pc = "put_back"
    BY <1>2 DEF UndoManifest
  <2> QED
    BY <2>1 DEF LateKnown
<1>3. ASSUME NEW item \in JobKinds \X PackageVersions, MoveToTrash(item)
      PROVE  <<"manifest", manifest>> \in late
  BY <1>3 DEF MoveToTrash, LateKnown, RemovalSteps
<1>4. ASSUME NEW item \in JobKinds \X PackageVersions, MoveBack(item)
      PROVE  <<"manifest", manifest>> \in late
  BY <1>4 DEF MoveBack, LateKnown, RemovalSteps
<1>5. ~CommitRemoval
  BY DEF CommitRemoval, RemovalKnown, RemovalSteps
<1>6. CASE ConfigureManifest
  BY <1>6 DEF ConfigureManifest
<1>7. CASE UNCHANGED <<manifest, pristine>>
  BY <1>7
<1> QED
  BY <1>1, <1>2, <1>3, <1>4, <1>5, <1>6, <1>7
  DEF InstallNext, InstallStep, UninstallStep, PrepareJob, StartJob, DropPlan, InstallDependencies,
      WriteAssets, LookAgain, CommitInstall, FailInstall, UndoAssets, UndoEnvironment,
      FailUninstall, NothingMoved, CleanTrash, JobDies, EditAssets, diskVars

\* provider_lifecycle.py: wherever an installation, upgrade or removal fails or
\* dies, a manifest names files that are there and every file of a recorded
\* version is in place or in the trash; a job that could undo its work leaves on
\* disk what the record says, and what the user changed of the rest; and no file
\* the user changed before the job looked at it is touched.
THEOREM InstallationWhole == InstallSpec => InstallationIsWhole
<1>1. InstallInv => ManifestIsRunnable /\ RecordMatchesDisk /\ NothingIsLost
  <2> SUFFICES ASSUME InstallInv PROVE RecordMatchesDisk /\ NothingIsLost
    BY InstallFacts
  <2> USE InstallFacts
  <2>1. NothingIsLost
    <3>1. \A v : /\ InPlace(<<"assets", v>>) <=> assets[v] # "none"
                 /\ InPlace(<<"environment", v>>) <=> v \in environment
      BY DEF InPlace
    <3> QED
      BY <3>1 DEF NothingIsLost, OwnedKept
  <2>2. RecordMatchesDisk
    <3> SUFFICES ASSUME job = NoJob, ~torn, pristine
                 PROVE  /\ manifest = record
                        /\ \A v \in PackageVersions :
                              IF v \in owned THEN assets[v] \in {"whole", "edited"} /\ v \in environment
                                             ELSE assets[v] \in {"none", "edited"} /\ v \notin environment
      BY DEF RecordMatchesDisk
    <3>1. job.pc = "none"
      BY DEF NoJob
    <3> QED
      BY <3>1 DEF UnownedGone, OwnedKept
  <2> QED
    BY <2>1, <2>2
<1>2. InstallInv /\ [InstallNext]_installVars =>
        [/\ \A v \in PackageVersions :
               assets[v] = "edited" => assets'[v] = "edited" \/ <<"assets", v>> \in late
         /\ manifest # NoVersion /\ ~pristine =>
               (manifest' = manifest /\ ~pristine') \/ <<"manifest", manifest>> \in late]_installVars
  BY EditedAssetsStay, EditedManifestStays
<1> QED
  BY <1>1, <1>2, InstallInvInit, InstallInvKept, PTL DEF InstallSpec, InstallationIsWhole, EditedIsKept

(***************************************************************************)
(* The form of every file, lock and process                                *)
(***************************************************************************)
\* Requests whose script has spawned a Runtime, or never will.
Spent == {n \in Requests : script[n] \in {"starting", "done", "failed"}}

\* What RestartInv leaves out of the types. A script spawns once.
RestartRest ==
    /\ spawned \in Nat /\ spawned <= Cardinality(Spent)
    /\ oldPid \in [Requests -> 0..MaxRuntimes]
    /\ \A n \in onDisk : expected[n] # NoRuntime
    /\ current \in 0..MaxRequests /\ (current = 0 <=> lifecycleBroker \in {"down", "idle"})

LEMMA SpentGrows ==
  ASSUME Spent \subseteq Spent'
  PROVE  /\ Cardinality(Spent) \in Nat /\ Cardinality(Spent') \in Nat
         /\ Cardinality(Spent) <= Cardinality(Spent')
         /\ Cardinality(Spent) <= MaxRequests
         /\ \A n \in Spent' \ Spent : Cardinality(Spent) + 1 <= Cardinality(Spent')
<1>1. IsFiniteSet(Requests) /\ Cardinality(Requests) = MaxRequests
  BY RestartAssumption, FS_Interval DEF Requests
<1>2. Spent \subseteq Requests /\ Spent' \subseteq Requests
  BY DEF Spent
<1>3. IsFiniteSet(Spent) /\ IsFiniteSet(Spent') /\ Cardinality(Spent) <= MaxRequests
  BY <1>1, <1>2, FS_Subset
<1>4. Cardinality(Spent) \in Nat /\ Cardinality(Spent') \in Nat /\ Cardinality(Spent) <= Cardinality(Spent')
  BY <1>3, FS_Subset, FS_CardinalityType
<1>5. ASSUME NEW n \in Spent' \ Spent PROVE Cardinality(Spent) + 1 <= Cardinality(Spent')
  <2>1. IsFiniteSet(Spent \cup {n}) /\ Cardinality(Spent \cup {n}) = Cardinality(Spent) + 1
    BY <1>3, <1>5, FS_AddElement
  <2>2. Spent \cup {n} \subseteq Spent'
    BY <1>5
  <2> QED
    BY <1>3, <2>1, <2>2, FS_Subset
<1> QED
  BY <1>3, <1>4, <1>5

LEMMA RestartRestInit == RestartInit => RestartRest
<1> SUFFICES ASSUME RestartInit PROVE RestartRest
  OBVIOUS
<1>1. Spent = {} /\ Cardinality(Spent) = 0
  BY FS_EmptySet DEF RestartInit, Spent
<1> QED
  BY <1>1, RestartAssumption DEF RestartInit, RestartRest, NoRuntime

LEMMA RestartRestKept == RestartInv /\ RestartRest /\ [RestartNext]_restartVars => RestartRest'
<1> SUFFICES ASSUME RestartInv, RestartRest, [RestartNext]_restartVars PROVE RestartRest'
  OBVIOUS
<1> USE RestartAssumption DEF RestartRest
<1>0. RestartTypes /\ CurrentKnown /\ \A n \in Requests : RequestKnown(n)
  BY DEF RestartInv
<1>1. ASSUME UNCHANGED script, spawned' \in Nat, spawned' <= spawned
      PROVE  spawned' <= Cardinality(Spent)'
  <2>1. Spent' = Spent /\ Cardinality(Spent) \in Nat
    BY <1>1, SpentGrows DEF Spent
  <2> QED
    BY <1>1, <2>1
<1>2. CASE \E n \in Requests : QueueRestart(n)
  <2>1. PICK n \in Requests : QueueRestart(n)
    BY <1>2
  <2>2. UNCHANGED <<spawned, onDisk, script, oldPid, lifecycleBroker, current>>
    BY <2>1 DEF QueueRestart, port
  <2>3. listening # NoRuntime /\ expected' = [expected EXCEPT ![n] = listening]
    BY <2>1 DEF QueueRestart
  <2>4. \A m \in onDisk' : expected'[m] # NoRuntime
    BY <1>0, <2>2, <2>3 DEF RestartTypes
  <2> QED
    BY <1>1, <2>2, <2>4
<1>3. CASE \E n \in Requests : CommitRestart(n)
  <2>1. PICK n \in Requests : CommitRestart(n)
    BY <1>3
  <2>2. UNCHANGED <<spawned, expected, script, oldPid, lifecycleBroker, current>> /\ onDisk' = onDisk \cup {n}
    BY <2>1 DEF CommitRestart, port
  <2>3. expected[n] # NoRuntime
    BY <1>0, <2>1 DEF CommitRestart, RequestKnown, NoRuntime
  <2> QED
    BY <1>1, <2>2, <2>3
<1>4. CASE \E n \in Requests : Look(n) \/ Stop(n) \/ StartHttp(n) \/ SeeListener(n)
  <2>1. PICK n \in Requests : Look(n) \/ Stop(n) \/ StartHttp(n) \/ SeeListener(n)
    BY <1>4
  <2>2. UNCHANGED <<onDisk, expected, lifecycleBroker, current>>
    BY <2>1 DEF Look, Stop, StartHttp, SeeListener, port, files
  <2>3. oldPid' \in [Requests -> 0..MaxRuntimes]
    BY <1>0, <2>1 DEF Look, Stop, StartHttp, SeeListener, RestartTypes
  <2>4. script[n] \in {"looking", "stopping", "waiting", "starting"}
    BY <2>1 DEF Look, Stop, StartHttp, SeeListener, Step
  <2>5. PICK to \in {"stopping", "waiting", "starting", "done", "failed"} :
          /\ script' = [script EXCEPT ![n] = to]
          /\ script[n] = "starting" => to \in {"done", "failed"}
          /\ \/ spawned' = spawned
             \/ spawned' = spawned + 1 /\ to = "starting" /\ script[n] = "waiting"
    <3>1. CASE Look(n)
      BY <3>1 DEF Look, Step, port
    <3>2. CASE Stop(n)
      BY <3>2 DEF Stop, Step, port
    <3>3. CASE StartHttp(n)
      BY <3>3 DEF StartHttp, Step
    <3>4. CASE SeeListener(n)
      BY <3>4 DEF SeeListener, Step, port
    <3> QED
      BY <2>1, <3>1, <3>2, <3>3, <3>4
  <2>6. script'[n] = to /\ \A m \in Requests \ {n} : script'[m] = script[m]
    BY <1>0, <2>5 DEF RestartTypes
  <2>7. Spent \subseteq Spent'
    BY <2>4, <2>5, <2>6 DEF Spent
  <2>8. spawned' = spawned + 1 => n \in Spent' \ Spent
    BY <2>5, <2>6 DEF Spent
  <2>9. spawned' \in Nat /\ spawned' <= Cardinality(Spent)'
    BY <2>5, <2>7, <2>8, SpentGrows
  <2> QED
    BY <2>2, <2>3, <2>9
<1>5. CASE RuntimeGone \/ SpawnEnds \/ BrokerDies \/ LifecycleBrokerStarts \/ UNCHANGED restartVars
  <2>1. UNCHANGED <<onDisk, expected, script, oldPid>>
    BY <1>5 DEF RuntimeGone, SpawnEnds, BrokerDies, LifecycleBrokerStarts, port, files, restartVars
  <2>2. spawned' \in Nat /\ spawned' <= spawned
    BY <1>5 DEF RuntimeGone, SpawnEnds, BrokerDies, LifecycleBrokerStarts, port, restartVars
  <2>3. current' \in 0..MaxRequests /\ (current' = 0 <=> lifecycleBroker' \in {"down", "idle"})
    BY <1>5 DEF RuntimeGone, SpawnEnds, BrokerDies, LifecycleBrokerStarts, restartVars
  <2> QED
    BY <1>1, <2>1, <2>2, <2>3
<1>6. CASE TakeRestart \/ MarkRunning
  <2>1. UNCHANGED <<spawned, expected, script, oldPid>> /\ onDisk' \subseteq onDisk
    BY <1>6 DEF TakeRestart, MarkRunning, port
  <2>2. current' \in 0..MaxRequests /\ (current' = 0 <=> lifecycleBroker' \in {"down", "idle"})
    <3>1. CASE UNCHANGED <<lifecycleBroker, current>>
      BY <3>1
    <3>2. CASE lifecycleBroker' = "delaying" /\ current' \in Waiting
      <4>1. current' \in Requests
        BY <1>0, <3>2 DEF Waiting, RestartTypes
      <4> QED
        BY <3>2, <4>1 DEF Requests
    <3> QED
      BY <1>6, <3>1, <3>2 DEF TakeRestart, MarkRunning
  <2> QED
    BY <1>1, <2>1, <2>2
<1>7. CASE RunScript
  <2>1. UNCHANGED <<spawned, onDisk, expected, oldPid, current>> /\ lifecycleBroker' = "watching"
    BY <1>7 DEF RunScript, port, files
  <2>2. current \in Requests /\ script[current] = "none"
    BY <1>0, <1>7 DEF RunScript, MayRun, RestartTypes, CurrentKnown, RequestKnown
  <2>3. current # 0
    BY <2>2 DEF Requests
  <2>4. Spent \subseteq Spent'
    BY <1>0, <1>7, <2>2 DEF RunScript, Spent, RestartTypes
  <2> QED
    BY <2>1, <2>3, <2>4, SpentGrows
<1>8. CASE FinishRestart
  <2>1. /\ UNCHANGED <<spawned, expected, oldPid>> /\ onDisk' \subseteq onDisk
        /\ lifecycleBroker' = "idle" /\ current' = 0
    BY <1>8 DEF FinishRestart, port
  <2>2. Spent \subseteq Spent'
    BY <1>0, <1>8 DEF FinishRestart, Spent, RestartTypes
  <2> QED
    BY <2>1, <2>2, SpentGrows
<1> QED
  BY <1>2, <1>3, <1>4, <1>5, <1>6, <1>7, <1>8 DEF RestartNext

\* What ElevationInv leaves out of the types.
ElevationRest ==
    /\ entries \subseteq {Old, Target}
    /\ mutex \in Brokers \cup {NoBroker} /\ file \in {"missing", "running", "stopped"}
    /\ \A b \in Brokers : launchOf[b] = 0 <=> stepOf[b] \in {"down", "idle"}

LEMMA ElevationRestKept == ElevationInv /\ ElevationRest /\ [ElevationNext]_elevationVars => ElevationRest'
<1> SUFFICES ASSUME ElevationInv, ElevationRest, [ElevationNext]_elevationVars PROVE ElevationRest'
  OBVIOUS
<1> USE ElevationAssumption DEF ElevationRest
<1>0. ElevationTypes /\ 0 \notin Launches /\ \A b \in Brokers : BrokerKnows(b)
  BY DEF ElevationInv, Launches
<1>1. ASSUME NEW n \in Launches,
             \/ \E o \in {"uninstall", "install"} : QueueRequest(n, o) \/ RunDirect(n, o)
             \/ QueueStatus(n) \/ AnswerDirect(n) \/ TimeoutDirect(n) \/ AskLaunch(n)
             \/ ProcessExits(n) \/ HelperRemoves(n)
      PROVE  ElevationRest'
  <2>1. UNCHANGED <<mutex, stepOf, launchOf, file>>
    BY <1>1 DEF QueueRequest, RunDirect, QueueStatus, AnswerDirect, TimeoutDirect, AskLaunch, ProcessExits, HelperRemoves
  <2>2. entries' \subseteq {Old, Target}
    BY <1>1 DEF QueueRequest, RunDirect, QueueStatus, AnswerDirect, TimeoutDirect, AskLaunch, ProcessExits, HelperRemoves
  <2> QED
    BY <2>1, <2>2
<1>2. ASSUME NEW b \in Brokers,
             \/ ElevationBrokerStarts(b) \/ Take(b) \/ Elevate(b) \/ ReportRunning(b) \/ ReportEnd(b)
             \/ ReportFailure(b) \/ BrokerEnds(b)
      PROVE  ElevationRest'
  <2>1. UNCHANGED entries
    BY <1>2 DEF ElevationBrokerStarts, Take, Elevate, ReportRunning, ReportEnd, ReportFailure, BrokerEnds, client
  <2>2. mutex' \in {mutex, b, NoBroker} /\ file' \in {file, "running", "stopped"}
    BY <1>2 DEF ElevationBrokerStarts, Take, Elevate, ReportRunning, ReportEnd, ReportFailure, BrokerEnds, Idle, client
  <2>3. \A c \in Brokers : launchOf'[c] = 0 <=> stepOf'[c] \in {"down", "idle"}
    <3>1. CASE ElevationBrokerStarts(b)
      BY <1>0, <3>1 DEF ElevationBrokerStarts, ElevationTypes
    <3>2. CASE Take(b)
      BY <1>0, <3>2 DEF Take, ElevationTypes, Queued
    <3>3. CASE Elevate(b) \/ ReportRunning(b)
      BY <1>0, <3>3 DEF Elevate, ReportRunning, ElevationTypes
    <3>4. CASE ReportEnd(b) \/ ReportFailure(b) \/ BrokerEnds(b)
      BY <1>0, <3>4 DEF ReportEnd, ReportFailure, BrokerEnds, Idle, ElevationTypes
    <3> QED
      BY <1>2, <3>1, <3>2, <3>3, <3>4
  <2> QED
    BY <2>1, <2>2, <2>3
<1>3. CASE UNCHANGED elevationVars
  BY <1>3 DEF elevationVars
<1> QED
  BY <1>1, <1>2, <1>3 DEF ElevationNext

\* The components of the host move one at a time, so that each keeps its
\* invariant in their composition.
HostInv ==
    /\ InstallInv /\ OwnershipInv /\ RecordInv /\ GitInv /\ ChangeInv /\ SupervisorInv /\ ManagerInv
    /\ ElevationInv /\ ElevationRest /\ RestartInv /\ RestartRest

LEMMA HostComponentMoves ==
  ASSUME [MCNext]_mcVars
  PROVE  /\ [InstallNext]_installVars /\ [OwnershipNext]_ownershipVars /\ [ElevationNext]_elevationVars
         /\ [RestartNext]_restartVars /\ [RecordNext]_recordVars /\ [GitNext]_gitVars
         /\ [ChangeNext]_changeVars /\ [SupervisorNext]_supervisorVars /\ [ManagerNext]_managerVars
BY Zenon DEF MCNext, mcVars

LEMMA GitInvKept == GitInv /\ [GitNext]_gitVars => GitInv'
BY GitHistoryKept, GitCallTypesKept, GitCallKept DEF GitInv

\* Whatever the components of the host do, their files, locks and process records
\* keep their form, and a lock is held by whom the code thinks holds it.
THEOREM HostTypesCorrect == MCSpec => []HostTypesOK
<1>1. MCInit => HostInv
  <2>1. ElevationInit => ElevationRest
    BY DEF ElevationInit, ElevationRest
  <2> QED
    BY <2>1, RestartRestInit, InstallInvInit, OwnershipInvInit, RecordInvInit, GitInvInit, ChangeInvInit,
       SupervisorInvInit, ManagerInvInit, ElevationInvInit, RestartInvInit DEF MCInit, HostInv
<1>2. HostInv /\ [MCNext]_mcVars => HostInv'
  BY HostComponentMoves, InstallInvKept, OwnershipInvKept, RecordInvKept, GitInvKept, ChangeInvKept,
     SupervisorInvKept, ManagerInvKept, ElevationInvKept, ElevationRestKept, RestartInvKept,
     RestartRestKept DEF HostInv
<1>3. HostInv => HostTypesOK
  <2>1. ElevationInv /\ ElevationRest => ElevationTypeOK
    BY ElevationAssumption DEF ElevationInv, ElevationRest, ElevationTypes, ElevationTypeOK
  <2>2. RestartInv /\ RestartRest => RestartTypeOK
    <3> SUFFICES ASSUME RestartInv, RestartRest PROVE RestartTypeOK
      OBVIOUS
    <3>1. Cardinality(Spent) \in Nat /\ Cardinality(Spent) <= MaxRequests
      <4>1. IsFiniteSet(Requests) /\ Cardinality(Requests) = MaxRequests /\ Spent \subseteq Requests
        BY RestartAssumption, FS_Interval DEF Requests, Spent
      <4> QED
        BY <4>1, FS_Subset, FS_CardinalityType
    <3> QED
      BY <3>1, RestartAssumption DEF RestartInv, RestartRest, RestartTypes, RestartTypeOK, NoRuntime
  <2>3. GitInv => GitTypeOK
    BY DEF GitInv, GitCallTypes, GitHistory, GitFiles, GitTypeOK, CommitRecord
  <2> QED
    BY <2>1, <2>2, <2>3 DEF HostInv, HostTypesOK, InstallInv, OwnershipInv, RecordInv, ChangeInv,
       SupervisorInv, ManagerInv
<1> QED
  BY <1>1, <1>2, <1>3, PTL DEF MCSpec

===========================================================================
