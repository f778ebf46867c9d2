--------------------------- MODULE DesktopManager ---------------------------
(***************************************************************************)
(* The desktop manager (desktop_runtime/manager.py): the process behind    *)
(* the desktop window.  It serves one management request at a time from    *)
(* its standard input, owns the Runtime, the tunnel, the browser component *)
(* and the pet as children, keeps the ports in desktop.json, the workspace *)
(* roots in the registry both it and the Runtime edit, and the roots the   *)
(* Skill Library was granted in a file of its own that the provider reads  *)
(* when it is enabled.                                                     *)
(*                                                                         *)
(* A setup stands for one choice of the three ports; two setups share no   *)
(* port.  A request that waits (start, browser enable, skill permissions)  *)
(* is a step per wait: its children, the Runtime and the user's task       *)
(* manager move meanwhile.                                                 *)
(***************************************************************************)
EXTENDS Integers, FiniteSets

CONSTANTS Roots,          \* names of the workspace roots a user may configure
          Setups,         \* choices of the runtime, tunnel and browser ports
          NoSetup         \* the ports of no child

VARIABLES setup,          \* the ports in desktop.json
          browserOn,      \* browser_enabled in desktop.json
          child,          \* role -> the child the manager owns in it
          orphans,        \* children of a killed manager that still run
          request,        \* what the request under way waits for
          verified,       \* local_verified: "no", earned by this Runtime or an older one
          petOn,          \* the pet's opt-in
          roots,          \* root -> the right the registry gives
          grants,         \* the Skill Library's roots
          proposed,       \* the grants the request under way has checked
          unseen,         \* the Runtime edited the registry after the last reconciliation
          skills          \* the Skill Library in the Runtime

managerVars == <<setup, browserOn, child, orphans, request, verified, petOn,
                 roots, grants, proposed, unseen, skills>>

Ports == {"runtime", "tunnel", "browser"}
Roles == Ports \cup {"pet"}
Rights == {"none", "read", "write"}
Grants == [read : SUBSET Roots, write : SUBSET Roots]
NoChild == [life |-> "none", ports |-> NoSetup]
NoGrants == [read |-> {}, write |-> {}]

ManagerTypeOK ==
  /\ setup \in Setups /\ browserOn \in BOOLEAN /\ petOn \in BOOLEAN /\ unseen \in BOOLEAN
  /\ child \in [Roles -> [life : {"none", "alive", "exited"}, ports : Setups \cup {NoSetup}]]
  /\ orphans \subseteq (Ports \X Setups)
  /\ request \in {"none", "restart", "browser", "runtime", "probe", "browserProbe", "grants"}
  /\ verified \in {"no", "current", "older"}
  /\ roots \in [Roots -> Rights]
  /\ grants \in Grants /\ proposed \in Grants
  /\ skills \in {"off", "on", "refused"}
  /\ (skills # "off" => child["runtime"].life = "alive")
  /\ (proposed # NoGrants => request = "grants")

ManagerInit ==
  /\ setup \in Setups
  /\ browserOn = FALSE /\ petOn = FALSE /\ unseen = FALSE
  /\ child = [r \in Roles |-> NoChild]
  /\ orphans = {}
  /\ request = "none"
  /\ verified = "no"
  /\ roots = [r \in Roots |-> "none"]
  /\ grants = NoGrants /\ proposed = NoGrants
  /\ skills = "off"

Alive(role) == child[role].life = "alive"
FreePort(role) == <<role, setup>> \notin orphans
Gone(role) == [child EXCEPT ![role] = NoChild]
Spawned(role) == [child EXCEPT ![role] = [life |-> "alive", ports |-> setup]]

Readable == {r \in Roots : roots[r] # "none"}
Writable == {r \in Roots : roots[r] = "write"}

\* What stays of the grants under the registry's rights: nothing is ever added.
Reconciled(rights) ==
  LET read == {r \in grants.read : rights[r] # "none"}
  IN [read |-> read, write |-> {r \in grants.write \cap read : rights[r] = "write"}]

\* The environment of a child is built: stale grants are revoked first.
Environment ==
  /\ grants' = Reconciled(roots)
  /\ unseen' = FALSE

-----------------------------------------------------------------------------
(* Starting and stopping *)

\* start: refused while anything listens on the Runtime's port.
StartServices ==
  /\ request \in {"none", "restart"}
  /\ ~ Alive("runtime")
  /\ request' = IF ~ FreePort("runtime") THEN "none"
                ELSE IF browserOn /\ ~ Alive("browser") THEN "browser" ELSE "runtime"
  /\ UNCHANGED <<setup, browserOn, child, orphans, verified, petOn, roots,
                 grants, proposed, unseen, skills>>

StartBrowser ==
  /\ request = "browser"
  /\ IF FreePort("browser")
     THEN /\ child' = Spawned("browser") /\ request' = "runtime" /\ Environment
     ELSE /\ request' = "none" /\ UNCHANGED <<child, grants, unseen>>
  /\ UNCHANGED <<setup, browserOn, orphans, verified, petOn, roots,
                 proposed, skills>>

StartRuntimeChild ==
  /\ request = "runtime"
  /\ child' = Spawned("runtime")
  /\ verified' = IF verified = "no" THEN "no" ELSE "older"
  /\ Environment
  /\ request' = "probe"
  /\ UNCHANGED <<setup, browserOn, orphans, petOn, roots, proposed, skills>>

\* The pet starts with the Runtime unless it was closed in this session.
PetStarts == petOn /\ Alive("runtime") /\ child["pet"].life = "none"

StartPet == IF PetStarts THEN child' = Spawned("pet") /\ Environment
            ELSE UNCHANGED <<child, grants, unseen>>

ProbeAnswers ==
  /\ request = "probe" /\ Alive("runtime")
  /\ StartPet
  /\ request' = "none"
  /\ UNCHANGED <<setup, browserOn, orphans, verified, petOn, roots,
                 proposed, skills>>

\* stop: every child is terminated; restart goes on to start, a failed start ends.
StopAll(next) ==
  /\ child' = [r \in Roles |-> NoChild]
  /\ verified' = "no"
  /\ skills' = "off"
  /\ request' = next
  /\ UNCHANGED <<setup, browserOn, orphans, petOn, roots, grants, proposed,
                 unseen>>

StopRequest(next) == request = "none" /\ StopAll(next)
StartTimesOut == request = "probe" /\ StopAll("none")

Connect ==
  /\ request = "none"
  /\ Alive("runtime") /\ ~ Alive("tunnel") /\ FreePort("tunnel")
  /\ child' = Spawned("tunnel")
  /\ UNCHANGED <<setup, browserOn, orphans, request, verified, petOn, roots,
                 grants, proposed, unseen, skills>>

-----------------------------------------------------------------------------
(* What the window asks *)

Status ==
  /\ request = "none" /\ ~ Alive("runtime")
  /\ child' = Gone("pet")
  /\ verified' = "no"
  /\ UNCHANGED <<setup, browserOn, orphans, request, petOn, roots, grants,
                 proposed, unseen, skills>>

PetStatus ==
  /\ request = "none" /\ ~ Alive("runtime")
  /\ child' = Gone("pet")
  /\ UNCHANGED <<setup, browserOn, orphans, request, verified, petOn, roots,
                 grants, proposed, unseen, skills>>

Verify ==
  /\ request = "none" /\ Alive("runtime")
  /\ verified' = "current"
  /\ UNCHANGED <<setup, browserOn, child, orphans, request, petOn, roots,
                 grants, proposed, unseen, skills>>

PetAction(on) ==
  /\ request = "none"
  /\ petOn' = on
  /\ IF on /\ Alive("runtime")
     THEN /\ child' = IF Alive("pet") THEN child ELSE Spawned("pet")
          /\ IF Alive("pet") THEN UNCHANGED <<grants, unseen>> ELSE Environment
     ELSE /\ child' = IF on /\ Alive("pet") THEN child ELSE Gone("pet")
          /\ UNCHANGED <<grants, unseen>>
  /\ UNCHANGED <<setup, browserOn, orphans, request, verified, roots,
                 proposed, skills>>

\* Mutant: the guard asks for the Runtime only, as the workspace commands do.
ConfigureRuntimeStopped(s) ==
  /\ request = "none" /\ ~ Alive("runtime")
  /\ setup' = s
  /\ UNCHANGED <<browserOn, child, orphans, request, verified, petOn, roots,
                 grants, proposed, unseen, skills>>

Configure(s) ==
  /\ request = "none" /\ \A r \in Roles : ~ Alive(r)
  /\ setup' = s
  /\ UNCHANGED <<browserOn, child, orphans, request, verified, petOn, roots,
                 grants, proposed, unseen, skills>>

\* provider_action on the browser: without a Runtime only the selection is saved;
\* with one the component is started and probed before the Runtime is told.
BrowserAction(on) ==
  /\ request = "none"
  /\ IF Alive("runtime") /\ on /\ ~ Alive("browser")
     THEN /\ FreePort("browser")
          /\ child' = Spawned("browser") /\ request' = "browserProbe" /\ Environment
          /\ UNCHANGED browserOn
     ELSE /\ browserOn' = on
          /\ child' = IF Alive("runtime") /\ ~ on THEN Gone("browser") ELSE child
          /\ UNCHANGED <<request, grants, unseen>>
  /\ UNCHANGED <<setup, orphans, verified, petOn, roots, proposed, skills>>

\* The probe answered and the Runtime took the enable, or refused it: then the
\* child stays and the selection does not.
BrowserAnswers(enabled) ==
  /\ request = "browserProbe" /\ Alive("browser")
  /\ browserOn' = (enabled \/ browserOn)
  /\ request' = "none"
  /\ UNCHANGED <<setup, child, orphans, verified, petOn, roots, grants,
                 proposed, unseen, skills>>

BrowserTimesOut ==
  /\ request = "browserProbe"
  /\ child' = Gone("browser")
  /\ request' = "none"
  /\ UNCHANGED <<setup, browserOn, orphans, verified, petOn, roots, grants,
                 proposed, unseen, skills>>

-----------------------------------------------------------------------------
(* Workspace roots and the Skill Library's grants *)

\* workspace_save and workspace_remove: only without a Runtime of this manager.
WorkspaceSave(r, right) ==
  /\ request = "none" /\ ~ Alive("runtime")
  /\ right # roots[r]
  /\ roots' = [roots EXCEPT ![r] = right]
  /\ grants' = Reconciled(roots')
  /\ unseen' = FALSE
  /\ UNCHANGED <<setup, browserOn, child, orphans, request, verified, petOn, proposed,
                 skills>>

\* skill_permissions with arguments: revoke, check the lists against the roots ...
ReviewGrants(g) ==
  /\ request = "none"
  /\ g.read \subseteq Readable /\ g.write \subseteq (g.read \cap Writable)
  /\ Environment
  /\ proposed' = g /\ request' = "grants"
  /\ UNCHANGED <<setup, browserOn, child, orphans, verified, petOn, roots,
                 skills>>

\* ... ask the Runtime whether the provider is enabled, and write them.
SaveGrants ==
  /\ request = "grants"
  /\ grants' = IF skills = "on" THEN grants ELSE proposed
  /\ proposed' = NoGrants /\ request' = "none"
  /\ UNCHANGED <<setup, browserOn, child, orphans, verified, petOn, roots,
                 unseen, skills>>

\* workspace_root_upsert and workspace_root_remove in a Runtime, an orphan included.
RuntimeEditsRoot(r, right) ==
  /\ Alive("runtime") \/ \E s \in Setups : <<"runtime", s>> \in orphans
  /\ right # roots[r]
  /\ roots' = [roots EXCEPT ![r] = right]
  /\ unseen' = TRUE
  /\ UNCHANGED <<setup, browserOn, child, orphans, request, verified, petOn, grants,
                 proposed, skills>>

\* The provider process reads the grants and the registry once, when it starts,
\* and refuses to start on a grant the registry does not give.
EnableSkills ==
  /\ Alive("runtime") /\ skills # "on"
  /\ skills' = IF grants.read \subseteq Readable /\ grants.write \subseteq Writable
               THEN "on" ELSE "refused"
  /\ UNCHANGED <<setup, browserOn, child, orphans, request, verified, petOn, roots,
                 grants, proposed, unseen>>

DisableSkills ==
  /\ Alive("runtime") /\ skills = "on"
  /\ skills' = "off"
  /\ UNCHANGED <<setup, browserOn, child, orphans, request, verified, petOn, roots,
                 grants, proposed, unseen>>

-----------------------------------------------------------------------------
(* Children and the manager die *)

\* Only a pet that exited differs from one never started: it stays closed.
ChildExits(role) ==
  /\ Alive(role)
  /\ child' = [child EXCEPT ![role] =
                IF role = "pet" THEN [NoChild EXCEPT !.life = "exited"] ELSE NoChild]
  /\ skills' = IF role = "runtime" THEN "off" ELSE skills
  /\ UNCHANGED <<setup, browserOn, orphans, request, verified, petOn, roots,
                 grants, proposed, unseen>>

\* A killed manager skips stop: its children run on, and the next manager knows
\* none.  Bound: no manager is killed while orphans of another still run.
ManagerKilled ==
  /\ orphans = {} /\ \E r \in Ports : Alive(r)
  /\ orphans' = {<<r, child[r].ports>> : r \in {x \in Ports : Alive(x)}}
  /\ child' = [r \in Roles |-> NoChild]
  /\ request' = "none" /\ verified' = "no"
  /\ proposed' = NoGrants /\ skills' = "off"
  /\ UNCHANGED <<setup, browserOn, petOn, roots, grants, unseen>>

OrphanExits ==
  /\ \E o \in orphans : orphans' = orphans \ {o}
  /\ UNCHANGED <<setup, browserOn, child, request, verified, petOn, roots,
                 grants, proposed, unseen, skills>>

-----------------------------------------------------------------------------
ManagerNext ==
  \/ StartServices \/ StartBrowser \/ StartRuntimeChild \/ ProbeAnswers \/ StartTimesOut
  \/ \E next \in {"none", "restart"} : StopRequest(next)
  \/ Connect \/ Status \/ PetStatus \/ Verify
  \/ \E on \in BOOLEAN : PetAction(on) \/ BrowserAction(on) \/ BrowserAnswers(on)
  \/ BrowserTimesOut
  \/ \E s \in Setups : Configure(s)
  \/ \E r \in Roots, right \in Rights : WorkspaceSave(r, right) \/ RuntimeEditsRoot(r, right)
  \/ \E g \in Grants : ReviewGrants(g)
  \/ SaveGrants \/ EnableSkills \/ DisableSkills
  \/ \E role \in Roles : ChildExits(role)
  \/ ManagerKilled \/ OrphanExits

ManagerSpec == ManagerInit /\ [][ManagerNext]_managerVars

-----------------------------------------------------------------------------
\* What the window configured and granted is what its children run with.  A
\* child that runs uses the configured ports: configuration is refused while
\* any child lives, not only while the Runtime does, so that a tunnel that
\* survived its Runtime never forwards to a port nobody is told to serve
\* (manager.py configure).  And the Skill Library is refused only for a
\* registry the Runtime itself changed after the last reconciliation: whatever
\* the window changed, in whatever order with starts, stops and permission
\* reviews, was revoked before the provider reads.
WindowIsObeyed ==
    /\ [](\A r \in Ports : Alive(r) => child[r].ports = setup)
    /\ [][skills # "refused" /\ skills' = "refused" => unseen]_managerVars
=============================================================================
