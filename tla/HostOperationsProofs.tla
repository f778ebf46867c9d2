------------------------ MODULE HostOperationsProofs ------------------------
(***************************************************************************)
(* Proofs about the operations that change the host, for every number of   *)
(* files, commits, revisions, checks, supervisors and Runners: installers  *)
(* that share a lock, a change of several files and its way back, the      *)
(* controlled Git operations beside a user, the promotion of a project     *)
(* state, and the supervision of the Execution Runner.                     *)
(*                                                                         *)
(* Each component has an invariant of its own, and a theorem that needs    *)
(* nothing of the others: they share no variable.                          *)
(***************************************************************************)
EXTENDS InstallerOwnership, ChangeSet, GitRepository, ProjectRecord, RunnerSupervisor, TLAPS

\* An installer runs under the lock of its parent.
OwnershipInv ==
    /\ OwnershipTypeOK
    /\ \A p \in InstallerParents : installerOf[p] = "running" => lockHolder = p

ChangeInv ==
    /\ ChangeTypeOK
    /\ changeStep \in {"rechecking", "replacing"} => backup = Paths
    /\ outcome # "none" => changeStep \in {"cleaning", "idle", "dead"}
    /\ outcome = "rolled_back" => restored = Applied
    /\ \A f \in Paths : target[f] = "new" => f \in Applied \ restored
    /\ outcome # "completed" => Applied \ restored \subseteq backup
    /\ seen # {} => \/ changeStep = "replacing" /\ seen \cap Applied = {}
                    \/ changeStep = "restoring" /\ left > 0 /\ seen = {applied[left]}

\* An evaluation that passed has evidence of its revision for every check.
PassesWithEvidence(e) ==
    evaluated[e].status = "pass" =>
        \A c \in Checks : \E n \in evaluated[e].bound[c] :
            /\ n \in DOMAIN evidence
            /\ evidence[n].rev = evaluated[e].rev /\ evidence[n].status = "pass"

\* Verdict d promotes the revision it was reached for, under the contract in force.
Promotes(d) ==
    /\ d.of \in DOMAIN evaluated /\ evaluated[d.of].status = "pass"
    /\ evaluated[d.of].rev = d.rev /\ evaluated[d.of].contract = contract
    /\ d.status = "verified" /\ d.contract = contract /\ d.promoted = d.rev + 1

\* What verification v looked at, and what it has written when it promotes.
VerificationOK(v) ==
    LET e == verifying[v].of IN
    /\ verifying[v].at # "idle" =>
          /\ e \in DOMAIN evaluated /\ evaluated[e].status = "pass"
          /\ evaluated[e].rev = state.rev => state.life = "frozen"
    /\ verifying[v].at = "promoting" =>
          /\ state.rev < MaxRevision /\ Matches(e)
          /\ \E d \in verdicts : Promotes(d) /\ d.of = e /\ d.rev = state.rev

RecordInv ==
    /\ RecordTypeOK
    /\ \A e \in DOMAIN evaluated : PassesWithEvidence(e)
    /\ \A v \in Verifiers : VerificationOK(v)
    /\ state.life = "verified" => \E d \in verdicts : Promotes(d) /\ d.promoted = state.rev

Owning == {"owning", "keyed", "serving", "stopping", "releasing"}
Starting == {"clearing", "keying", "spawning"}

-----------------------------------------------------------------------------
(* Installers *)

LEMMA OwnershipInvInit == OwnershipInit => OwnershipInv
<1> SUFFICES ASSUME OwnershipInit PROVE OwnershipInv
  OBVIOUS
<1>1. \A p \in InstallerParents : installerOf[p] = "none"
  BY DEF OwnershipInit
<1>2. OwnershipTypeOK
  <2>1. orphanInstallers \in 0..MaxOrphans
    BY OwnershipAssumption DEF OwnershipInit
  <2>2. installerOf \in [InstallerParents -> {"none", "running", "exited"}]
    BY DEF OwnershipInit
  <2> QED
    BY <1>1, <2>1, <2>2 DEF OwnershipInit, OwnershipTypeOK, InstallerParents
<1> QED
  BY <1>1, <1>2 DEF OwnershipInv

LEMMA OwnershipInvKept == OwnershipInv /\ [OwnershipNext]_ownershipVars => OwnershipInv'
<1> SUFFICES ASSUME OwnershipInv, [OwnershipNext]_ownershipVars PROVE OwnershipInv'
  OBVIOUS
<1> USE OwnershipAssumption DEF OwnershipInv, OwnershipTypeOK, InstallerParents, Release
<1>1. ASSUME NEW p \in InstallerParents, StartInstaller(p)
      PROVE  OwnershipInv'
  BY <1>1 DEF StartInstaller, Acquire, Alone
<1>2. ASSUME NEW p \in InstallerParents, InstallerExits(p)
      PROVE  OwnershipInv'
  BY <1>2 DEF InstallerExits
<1>3. ASSUME NEW p \in InstallerParents, AskStatus(p)
      PROVE  OwnershipInv'
  BY <1>3 DEF AskStatus
<1>4. ASSUME NEW p \in InstallerParents, ParentDies(p)
      PROVE  OwnershipInv'
  <2>1. orphanInstallers' \in 0..MaxOrphans
    BY <1>4 DEF ParentDies
  <2>2. /\ up' = up \ {p} /\ managed' = FALSE
        /\ lockHolder' = IF lockHolder = p THEN NoHolder ELSE lockHolder
        /\ installerOf' = [installerOf EXCEPT ![p] = "none"]
    BY <1>4 DEF ParentDies
  <2> QED
    BY <2>1, <2>2
<1>5. CASE StartRuntime
  BY <1>5 DEF StartRuntime
<1>6. CASE StopServices
  BY <1>6 DEF StopServices
<1>7. CASE RestartManager
  BY <1>7 DEF RestartManager
<1>8. CASE OrphanEnds
  BY <1>8 DEF OrphanEnds
<1>9. CASE UNCHANGED ownershipVars
  BY <1>9 DEF ownershipVars
<1> QED
  BY <1>1, <1>2, <1>3, <1>4, <1>5, <1>6, <1>7, <1>8, <1>9 DEF OwnershipNext

(* The manager's installer and the runtime's never run together while their   *)
(* parents live: each runs under component_lock.py's lock, through stops,     *)
(* status questions, dead parents and new managers.                          *)
THEOREM InstallersExclude == OwnershipSpec => []OwnedInstallersExclude
<1>1. OwnershipInv => OwnedInstallersExclude
  BY OwnershipAssumption DEF OwnershipInv, OwnedInstallersExclude, InstallerParents
<1> QED
  BY <1>1, OwnershipInvInit, OwnershipInvKept, PTL DEF OwnershipSpec

-----------------------------------------------------------------------------
(* A change of several files *)

\* What the steps know of the order in which files were replaced.
LEMMA AppliedGrows ==
  ASSUME applied \in Seq(Paths), NEW f \in Paths, applied' = Append(applied, f)
  PROVE  /\ Applied' = Applied \cup {f} /\ applied' \in Seq(Paths) /\ Len(applied) \in Nat
         /\ Len(applied') = Len(applied) + 1 /\ DOMAIN applied' = 1..Len(applied) + 1
         /\ DOMAIN applied = 1..Len(applied)
         /\ \A i \in DOMAIN applied : applied'[i] = applied[i]
         /\ applied'[Len(applied) + 1] = f
<1>1. /\ applied' \in Seq(Paths) /\ Len(applied) \in Nat
      /\ Len(applied') = Len(applied) + 1 /\ DOMAIN applied' = 1..Len(applied) + 1
      /\ DOMAIN applied = 1..Len(applied)
      /\ \A i \in DOMAIN applied : applied'[i] = applied[i]
      /\ applied'[Len(applied) + 1] = f
  OBVIOUS
<1>2. Applied' = Applied \cup {f}
  BY <1>1 DEF Applied
<1> QED
  BY <1>1, <1>2

LEMMA ChangeInvInit == ChangeInit => ChangeInv
<1> SUFFICES ASSUME ChangeInit PROVE ChangeInv
  OBVIOUS
<1>1. applied = <<>> /\ Len(applied) = 0 /\ DOMAIN applied = {} /\ Applied = {}
  BY DEF ChangeInit, Applied
<1>2. applied \in Seq(Paths)
  BY <1>1
<1>3. ChangeTypeOK
  BY <1>1, <1>2, ChangeSetAssumption DEF ChangeInit, ChangeTypeOK
<1> QED
  BY <1>1, <1>3 DEF ChangeInit, ChangeInv

LEMMA ChangeInvKept == ChangeInv /\ [ChangeNext]_changeVars => ChangeInv'
<1> SUFFICES ASSUME ChangeInv, [ChangeNext]_changeVars PROVE ChangeInv'
  OBVIOUS
<1>0. /\ ChangeTypeOK /\ applied \in Seq(Paths) /\ Len(applied) \in Nat
      /\ DOMAIN applied = 1..Len(applied) /\ Applied \subseteq Paths /\ MaxOutside \in Nat
      /\ \A i \in DOMAIN applied : applied[i] \in Applied
  BY ChangeSetAssumption DEF ChangeInv, ChangeTypeOK, Applied
<1>1. ASSUME NEW f \in Paths, ReplaceOne(f)
      PROVE  ChangeInv'
  <2>1. /\ applied' = Append(applied, f) /\ changeStep = "replacing" /\ seen = {f} /\ seen' = {}
        /\ target' = [target EXCEPT ![f] = "new"] /\ stagedFiles' = stagedFiles \ {f}
        /\ UNCHANGED <<backup, restored, outcome, outside>>
        /\ changeStep' \in {"replacing", "restoring"}
        /\ left' = IF changeStep' = "restoring" THEN Len(applied') ELSE 0
    BY <1>1 DEF ReplaceOne, Record
  <2>2. /\ Applied' = Applied \cup {f} /\ applied' \in Seq(Paths)
        /\ Len(applied') = Len(applied) + 1 /\ DOMAIN applied' = 1..Len(applied) + 1
        /\ \A i \in DOMAIN applied : applied'[i] = applied[i]
        /\ applied'[Len(applied) + 1] = f
    BY <1>0, <2>1, AppliedGrows
  <2>3. f \notin Applied /\ restored \subseteq Applied
    BY <1>0, <2>1 DEF ChangeInv, ChangeTypeOK
  <2>4. \A i, j \in DOMAIN applied' : applied'[i] = applied'[j] => i = j
    <3>1. \A i \in DOMAIN applied : applied'[i] # f /\ applied'[i] = applied[i]
      BY <1>0, <2>2, <2>3
    <3>2. \A i \in DOMAIN applied' : i \in DOMAIN applied \/ i = Len(applied) + 1
      BY <1>0, <2>2
    <3>3. \A i, j \in DOMAIN applied : applied[i] = applied[j] => i = j
      BY <1>0 DEF ChangeTypeOK
    <3> QED
      BY <2>2, <3>1, <3>2, <3>3
  <2>5. ChangeTypeOK'
    BY <1>0, <2>1, <2>2, <2>3, <2>4 DEF ChangeTypeOK
  <2>6. outcome = "none" /\ backup = Paths
    BY <2>1 DEF ChangeInv, ChangeTypeOK
  <2>7. \A g \in Paths : target'[g] = "new" => g \in Applied' \ restored'
    BY <1>0, <2>1, <2>2, <2>3 DEF ChangeInv, ChangeTypeOK
  <2> QED
    BY <1>0, <2>1, <2>2, <2>5, <2>6, <2>7 DEF ChangeInv
<1>2. ASSUME UNCHANGED applied
      PROVE  Applied' = Applied
  BY <1>2 DEF Applied
<1> USE DEF ChangeInv, ChangeTypeOK, disk, Move
<1>3. CASE ReadAll
  BY <1>2, <1>3 DEF ReadAll
<1>4. ASSUME NEW f \in Paths, Stage(f)
      PROVE  ChangeInv'
  BY <1>2, <1>4 DEF Stage
<1>5. CASE StageEnds
  BY <1>2, <1>5 DEF StageEnds
<1>6. CASE Recheck
  BY <1>2, <1>6 DEF Recheck
<1>7. ASSUME NEW f \in Paths, CheckOne(f)
      PROVE  ChangeInv'
  BY <1>2, <1>7 DEF CheckOne
<1>8. CASE Complete
  BY <1>0, <1>2, <1>8 DEF Complete
<1>9. CASE ChangeFails
  BY <1>0, <1>2, <1>9 DEF ChangeFails
<1>10. CASE CheckRestore
  BY <1>0, <1>2, <1>10 DEF CheckRestore
<1>11. CASE RestoreOne
  <2>1. left > 0 /\ seen = {applied[left]} /\ seen \subseteq Applied
    BY <1>0, <1>11 DEF RestoreOne
  <2> QED
    BY <1>0, <1>2, <1>11, <2>1 DEF RestoreOne
<1>12. CASE RestoreFails
  BY <1>0, <1>2, <1>12 DEF RestoreFails
<1>13. CASE RestoreEnds
  BY <1>0, <1>2, <1>13 DEF RestoreEnds
<1>14. CASE CleanUp
  BY <1>0, <1>2, <1>14 DEF CleanUp, Kept
<1>15. CASE ServerDies
  BY <1>0, <1>2, <1>15 DEF ServerDies
<1>16. ASSUME NEW f \in Paths, OutsideEdit(f)
       PROVE  ChangeInv'
  BY <1>0, <1>2, <1>16 DEF OutsideEdit
<1>17. CASE UNCHANGED changeVars
  BY <1>0, <1>2, <1>17 DEF changeVars
<1> QED
  BY <1>1, <1>3, <1>4, <1>5, <1>6, <1>7, <1>8, <1>9, <1>10, <1>11, <1>12, <1>13, <1>14, <1>15,
     <1>16, <1>17 DEF ChangeNext

(* A change that fails, at whatever file of it or of its way back, leaves the *)
(* old bytes of a file or a backup of them, and says which, although an       *)
(* editor writes to the files at any moment and the server may die.           *)
THEOREM ChangeUndoable == ChangeSpec => []ChangeIsUndoable
<1>1. ChangeInv => ChangeIsUndoable
  BY DEF ChangeInv, ChangeTypeOK, ChangeIsUndoable, OriginalsKept, ErrorsAreClean
<1> QED
  BY <1>1, ChangeInvInit, ChangeInvKept, PTL DEF ChangeSpec

-----------------------------------------------------------------------------
(* The controlled Git operations *)

CommitRecord == [tree : Contents, parent : 0..MaxCommits, paths : SUBSET Files]

GitCallTypes ==
    /\ indexLock \in {"none", "tool", "user", "stale"} /\ adding \subseteq Files
    /\ gitCall \in [op : IndexOps \cup {"none", "commit", "tag", "push"},
                 at : {"idle", "begun", "locked", "prepared", "built", "installed", "checked", "treed"},
                 paths : SUBSET Files, head : 0..MaxCommits, want : Contents, new : Contents]
    /\ indexLock = "tool" <=> gitCall.at \in {"locked", "prepared", "built"}

GitHistory ==
    /\ commits \in Seq(CommitRecord) /\ Len(commits) <= MaxCommits
    /\ head = Len(commits) /\ head # 0 /\ tag \in 0..Len(commits) /\ remote \in 1..Len(commits)
    /\ CommitsOnlyPaths /\ NoCommitLost

GitFiles ==
    /\ worktree \in Contents /\ index \in Contents /\ edits \in Bytes
    /\ touched \subseteq Files \X {"prepared", "built"}

\* What the call that runs has seen and will rely on: a file that is not as it
\* was named was edited since, and a blob that is not was written in between.
GitCallOK ==
    /\ gitCall.at = "treed" => Differ(gitCall.new, Tree(gitCall.head)) = gitCall.paths
    /\ gitCall.at # "idle" => gitCall.head \in 1..Len(commits)
    /\ gitCall.op # "remove" => \A f \in gitCall.paths :
          /\ gitCall.at = "prepared" /\ worktree[f] # gitCall.want[f] => <<f, "prepared">> \in touched
          /\ gitCall.at = "built" /\ gitCall.new[f] # gitCall.want[f] =>
                /\ <<f, "prepared">> \in touched
                /\ worktree[f] # gitCall.want[f] \/ <<f, "built">> \in touched

GitInv == GitCallTypes /\ GitHistory /\ GitFiles /\ GitCallOK

\* A commit on the head keeps what is known of the commits.
LEMMA NewCommitKeeps ==
  ASSUME commits \in Seq(CommitRecord), Len(commits) <= MaxCommits, head = Len(commits), Len(commits) # 0,
         CommitsOnlyPaths, NoCommitLost,
         NEW tree \in Contents, NEW paths \in SUBSET Files, Differ(tree, Tree(head)) = paths,
         NewCommit(tree, head, paths)
  PROVE  /\ commits' \in Seq(CommitRecord) /\ Len(commits') <= MaxCommits /\ head' = Len(commits')
         /\ Len(commits) \in Nat /\ Len(commits') = Len(commits) + 1
         /\ DOMAIN commits = 1..Len(commits) /\ DOMAIN commits' = 1..Len(commits')
         /\ \A c \in 1..Len(commits) : commits'[c] = commits[c]
         /\ CommitsOnlyPaths' /\ NoCommitLost'
<1> DEFINE new == [tree |-> tree, parent |-> head, paths |-> paths]
<1>0. MaxCommits \in Nat /\ Len(commits) \in Nat \ {0}
  BY GitAssumption
<1>1. new \in CommitRecord
  BY <1>0 DEF CommitRecord
<1>2. commits' = Append(commits, new) /\ Len(commits) < MaxCommits /\ head' = Len(commits) + 1
  BY DEF NewCommit
<1>3. /\ commits' \in Seq(CommitRecord) /\ Len(commits') = Len(commits) + 1
      /\ DOMAIN commits = 1..Len(commits) /\ DOMAIN commits' = 1..Len(commits')
      /\ \A c \in 1..Len(commits) : commits'[c] = commits[c]
      /\ commits'[Len(commits) + 1] = new
  <2> HIDE DEF new
  <2> QED
    BY <1>1, <1>2
<1>4. NoCommitLost'
  <2> SUFFICES ASSUME NEW c \in 2..Len(commits')
               PROVE  commits'[c].parent = c - 1
    BY DEF NoCommitLost
  <2>1. c \in 2..Len(commits) => commits'[c].parent = c - 1
    BY <1>3 DEF NoCommitLost
  <2>2. c = Len(commits) + 1 => commits'[c].parent = c - 1
    BY <1>3
  <2> QED
    BY <1>0, <1>3, <2>1, <2>2
<1>5. CommitsOnlyPaths'
  <2> SUFFICES ASSUME NEW c \in 2..Len(commits')
               PROVE  Differ(commits'[c].tree, commits'[commits'[c].parent].tree) = commits'[c].paths
    BY DEF CommitsOnlyPaths, Tree, Differ
  <2>1. CASE c \in 2..Len(commits)
    <3>1. commits[c].parent \in 1..Len(commits) /\ c \in 1..Len(commits)
      BY <1>0, <2>1 DEF NoCommitLost
    <3>2. commits'[c] = commits[c] /\ commits'[commits[c].parent] = commits[commits[c].parent]
      BY <1>3, <3>1
    <3> QED
      BY <2>1, <3>2 DEF CommitsOnlyPaths, Tree
  <2>2. CASE c = Len(commits) + 1
    <3>1. commits'[c] = new /\ commits'[head] = commits[head]
      BY <1>0, <1>3, <2>2
    <3> QED
      BY <3>1 DEF Tree
  <2> QED
    BY <1>0, <1>3, <2>1, <2>2
<1> QED
  BY <1>0, <1>2, <1>3, <1>4, <1>5

LEMMA GitInvInit == GitInit => GitInv
<1> SUFFICES ASSUME GitInit PROVE GitInv
  OBVIOUS
<1> USE GitAssumption
<1>1. /\ worktree \in Contents /\ index = worktree /\ edits = 1 /\ edits \in Bytes
      /\ touched = {}
  BY DEF GitInit, Contents, Bytes
<1>2. /\ [f \in Files |-> 0] \in Contents /\ gitCall = NoGitCall
      /\ gitCall.at = "idle" /\ gitCall.op = "none" /\ gitCall.paths = {}
  BY DEF GitInit, NoGitCall, Contents, Bytes
<1>3. GitCallTypes
  BY <1>2 DEF GitInit, GitCallTypes, NoGitCall
<1>4. GitFiles
  BY <1>1, <1>2 DEF GitFiles
<1>5. GitHistory
  <2> DEFINE first == [tree |-> worktree, parent |-> 0, paths |-> {}]
  <2>1. first \in CommitRecord
    BY <1>1 DEF CommitRecord
  <2>2. commits = <<first>> /\ Len(commits) = 1
    BY DEF GitInit
  <2>3. commits \in Seq(CommitRecord)
    <3> HIDE DEF first
    <3> QED
      BY <2>1, <2>2
  <2>4. CommitsOnlyPaths /\ NoCommitLost
    BY <2>2 DEF CommitsOnlyPaths, NoCommitLost
  <2> QED
    BY <2>2, <2>3, <2>4 DEF GitInit, GitHistory
<1>6. GitCallOK
  BY <1>2 DEF GitCallOK
<1> QED
  BY <1>3, <1>4, <1>5, <1>6 DEF GitInv

\* Who changes commits, and how.
LEMMA GitHistoryKept ==
  ASSUME GitInv, [GitNext]_gitVars
  PROVE  /\ GitHistory' /\ Len(commits) \in Nat /\ Len(commits') \in Nat /\ Len(commits') >= Len(commits)
         /\ \A c \in 1..Len(commits) : commits'[c] = commits[c]
<1>0. /\ GitHistory /\ GitCallOK /\ commits \in Seq(CommitRecord) /\ Len(commits) \in Nat \ {0}
      /\ head \in 1..Len(commits) /\ GitCallTypes /\ GitFiles
  BY DEF GitInv, GitHistory
<1>1. ASSUME UNCHANGED <<commits, head>>, tag' \in 0..Len(commits), remote' \in 1..Len(commits)
      PROVE  GitHistory'
  BY <1>0, <1>1 DEF GitHistory, CommitsOnlyPaths, NoCommitLost, Tree, Differ
<1>2. ASSUME UNCHANGED refs
      PROVE  GitHistory' /\ UNCHANGED commits
  BY <1>0, <1>1, <1>2 DEF refs, GitHistory
<1>3. ASSUME NEW tree \in Contents, NEW paths \in SUBSET Files, Differ(tree, Tree(head)) = paths,
             NewCommit(tree, head, paths), UNCHANGED <<tag, remote>>
      PROVE  /\ GitHistory' /\ Len(commits') = Len(commits) + 1
             /\ \A c \in 1..Len(commits) : commits'[c] = commits[c]
  <2>1. /\ Len(commits) <= MaxCommits /\ head = Len(commits) /\ Len(commits) # 0
        /\ CommitsOnlyPaths /\ NoCommitLost
        /\ tag \in 0..Len(commits) /\ remote \in 1..Len(commits)
    BY <1>0 DEF GitHistory
  <2>2. /\ commits' \in Seq(CommitRecord) /\ Len(commits') <= MaxCommits /\ head' = Len(commits')
        /\ Len(commits') = Len(commits) + 1
        /\ \A c \in 1..Len(commits) : commits'[c] = commits[c]
        /\ CommitsOnlyPaths' /\ NoCommitLost'
    BY <1>0, <1>3, <2>1, NewCommitKeeps
  <2> QED
    BY <1>0, <1>3, <2>1, <2>2 DEF GitHistory
<1>4. CASE UpdateRef
  <2>1. /\ gitCall.new \in Contents /\ gitCall.paths \in SUBSET Files /\ gitCall.head = head
        /\ Differ(gitCall.new, Tree(head)) = gitCall.paths
        /\ NewCommit(gitCall.new, head, gitCall.paths) /\ UNCHANGED <<tag, remote>>
    BY <1>0, <1>4 DEF UpdateRef, HeadIs, GitCallOK, GitCallTypes
  <2> QED
    BY <1>0, <1>3, <2>1
<1>5. CASE UserCommits
  <2>1. /\ index \in Contents /\ Differ(index, Tree(head)) \in SUBSET Files
        /\ NewCommit(index, head, Differ(index, Tree(head))) /\ UNCHANGED <<tag, remote>>
    BY <1>0, <1>5 DEF UserCommits, GitFiles, Differ
  <2> QED
    BY <1>0, <1>3, <2>1
<1>6. CASE CreateTag
  <2>1. gitCall.head \in 0..Len(commits) /\ tag' = gitCall.head /\ UNCHANGED <<commits, head, remote>>
    BY <1>0, <1>6 DEF CreateTag, GitCallOK
  <2> QED
    BY <1>0, <1>1, <2>1 DEF GitHistory
<1>7. CASE Push
  <2>1. remote' = head /\ UNCHANGED <<commits, head, tag>>
    BY <1>7 DEF Push
  <2> QED
    BY <1>0, <1>1, <2>1 DEF GitHistory
<1>8. UNCHANGED refs \/ UpdateRef \/ UserCommits \/ CreateTag \/ Push
  BY DEF GitNext, gitVars, repository, refs, BeginGit, LockIndex, Prepare, Build, Install, FinishIndex,
     CheckStaged, WriteTree, Preflight, CallFails, CallDies, UserInstalls, RemoveStaleLock, Edit, UserAdds
<1>9. \/ GitHistory' /\ UNCHANGED commits
      \/ /\ GitHistory' /\ Len(commits') = Len(commits) + 1
         /\ \A c \in 1..Len(commits) : commits'[c] = commits[c]
  <2>1. CreateTag \/ Push => UNCHANGED commits
    BY DEF CreateTag, Push
  <2>2. UpdateRef \/ UserCommits =>
           /\ Len(commits') = Len(commits) + 1
           /\ \A c \in 1..Len(commits) : commits'[c] = commits[c]
    <3>1. \A tree, paths : NewCommit(tree, head, paths) \/ NewCommit(tree, gitCall.head, paths) =>
             /\ Len(commits') = Len(commits) + 1
             /\ \A c \in 1..Len(commits) : commits'[c] = commits[c]
      <4> SUFFICES ASSUME NEW r, commits' = Append(commits, r)
                   PROVE  /\ Len(commits') = Len(commits) + 1
                          /\ \A c \in 1..Len(commits) : commits'[c] = commits[c]
        BY DEF NewCommit
      <4> QED
        BY <1>0
    <3> QED
      BY <3>1 DEF UpdateRef, UserCommits
  <2> QED
    BY <1>2, <1>4, <1>5, <1>6, <1>7, <1>8, <2>1, <2>2
<1> QED
  BY <1>0, <1>9

LEMMA GitCallTypesKept ==
  ASSUME GitInv, [GitNext]_gitVars
  PROVE  GitCallTypes' /\ GitFiles'
<1>0. /\ GitCallTypes /\ GitFiles /\ head \in 0..MaxCommits
      /\ [f \in Files |-> 0] \in Contents /\ NoGitCall.want = [f \in Files |-> 0]
  BY GitAssumption DEF GitInv, GitHistory, Contents, Bytes, NoGitCall
<1> DEFINE Calls == [op : IndexOps \cup {"none", "commit", "tag", "push"},
                 at : {"idle", "begun", "locked", "prepared", "built", "installed", "checked", "treed"},
                 paths : SUBSET Files, head : 0..MaxCommits, want : Contents, new : Contents]
<1>1. NoGitCall \in Calls /\ NoGitCall.at = "idle" /\ gitCall \in Calls
  BY <1>0, GitAssumption DEF NoGitCall, GitCallTypes
<1>2. gitCall.want \in Contents /\ gitCall.new \in Contents /\ index \in Contents /\ worktree \in Contents
  BY <1>0 DEF GitCallTypes, GitFiles
<1>4. GitFiles'
  <2>1. ASSUME UNCHANGED <<worktree, edits, touched>>, index' \in Contents
        PROVE  GitFiles'
    BY <1>0, <2>1 DEF GitFiles
  <2>2. CASE BeginGit \/ LockIndex \/ Build \/ CheckStaged \/ WriteTree \/ Preflight \/ RemoveStaleLock
             \/ UserCommits \/ (\E f \in Files : UserAdds(f)) \/ FinishIndex \/ UpdateRef
             \/ CreateTag \/ Push \/ CallFails \/ CallDies
    BY <1>2, <2>1, <2>2 DEF BeginGit, LockIndex, Build, CheckStaged, WriteTree, Preflight, RemoveStaleLock,
       UserCommits, UserAdds, FinishIndex, UpdateRef, CreateTag, Push, CallFails, CallDies, user, repository
  <2>3. CASE Prepare
    BY <1>0, <2>3 DEF Prepare, GitFiles
  <2>4. ASSUME NEW f \in Files, Edit(f)
        PROVE  GitFiles'
    <3>1. edits' = edits + 1 /\ edits' \in Bytes /\ 0..(edits + 1) \subseteq Bytes
      BY <1>0, <2>4, GitAssumption DEF Edit, GitFiles, Bytes
    <3>2. \E b \in 0..(edits + 1) : worktree' = [worktree EXCEPT ![f] = b]
      BY <2>4 DEF Edit
    <3>3. worktree' \in Contents
      BY <1>2, <3>1, <3>2 DEF Contents
    <3>4. touched' \subseteq Files \X {"prepared", "built"} /\ UNCHANGED index
      BY <1>0, <2>4 DEF Edit, GitFiles
    <3> QED
      BY <1>2, <3>1, <3>3, <3>4 DEF GitFiles
  <2>5. CASE UserInstalls
    <3>1. index' \in Contents
      BY <1>2, <2>5 DEF UserInstalls, Contents
    <3> QED
      BY <2>1, <2>5, <3>1 DEF UserInstalls
  <2>6. CASE Install
    <3>1. index' \in Contents /\ UNCHANGED <<worktree, edits, touched>>
      BY <1>2, <2>6 DEF Install, user
    <3> QED
      BY <2>1, <3>1
  <2>7. CASE UNCHANGED gitVars
    BY <1>2, <2>1, <2>7 DEF gitVars
  <2> QED
    BY <2>2, <2>3, <2>4, <2>5, <2>6, <2>7 DEF GitNext
<1>5. GitCallTypes'
  <2> USE DEF GitCallTypes
  <2>1. CASE BeginGit
    <3>1. gitCall' \in Calls
      BY <1>0, <1>2, <2>1 DEF BeginGit
    <3> QED
      BY <1>0, <1>1, <2>1, <3>1 DEF BeginGit, repository
  <2>2. CASE LockIndex \/ Prepare \/ Install \/ CheckStaged \/ WriteTree \/ Preflight
    BY <1>0, <1>1, <1>2, <2>2 DEF LockIndex, Prepare, Install, CheckStaged, WriteTree, Preflight,
       At, user, repository, IndexOps
  <2>3. CASE Build
    <3>1. [f \in Files |-> IF f \in gitCall.paths THEN worktree[f] ELSE index[f]] \in Contents
      BY <1>2 DEF Contents
    <3> QED
      BY <1>0, <1>1, <2>3, <3>1 DEF Build, repository
  <2>4. CASE FinishIndex \/ UpdateRef \/ CreateTag \/ Push \/ CallFails \/ CallDies
    BY <1>0, <1>1, <2>4 DEF FinishIndex, UpdateRef, CreateTag, Push, CallFails, CallDies, user
  <2>5. CASE UserInstalls \/ UserCommits \/ RemoveStaleLock \/ (\E f \in Files : Edit(f) \/ UserAdds(f))
    BY <1>0, <2>5 DEF UserInstalls, UserCommits, RemoveStaleLock, Edit, UserAdds, user
  <2>6. CASE UNCHANGED gitVars
    BY <1>0, <2>6 DEF gitVars
  <2> QED
    BY <2>1, <2>2, <2>3, <2>4, <2>5, <2>6 DEF GitNext
<1> QED
  BY <1>4, <1>5

LEMMA GitCallKept ==
  ASSUME GitInv, [GitNext]_gitVars
  PROVE  GitCallOK'
<1>0. /\ GitCallTypes /\ GitFiles /\ GitCallOK /\ GitHistory
      /\ Len(commits) \in Nat /\ Len(commits') \in Nat /\ Len(commits') >= Len(commits)
      /\ \A c \in 1..Len(commits) : commits'[c] = commits[c]
  BY GitHistoryKept DEF GitInv
<1>1. gitCall.paths \subseteq Files /\ worktree \in Contents
  BY <1>0 DEF GitCallTypes, GitFiles
<1>2. CASE gitCall' = NoGitCall
  BY <1>2 DEF GitCallOK, NoGitCall
<1>3. ASSUME UNCHANGED <<gitCall, worktree, touched>>
      PROVE  GitCallOK'
  BY <1>0, <1>3 DEF GitCallOK, Tree
<1>4. ASSUME NEW f \in Files, Edit(f)
      PROVE  GitCallOK'
  <2>1. UNCHANGED <<gitCall, commits>> /\ touched \subseteq touched'
    BY <1>4 DEF Edit, refs
  <2>2. \A g \in gitCall.paths :
           \/ worktree'[g] = worktree[g]
           \/ gitCall.at \in {"prepared", "built"} => <<g, gitCall.at>> \in touched'
    BY <1>1, <1>4 DEF Edit, Contents
  <2> QED
    BY <1>0, <2>1, <2>2 DEF GitCallOK, Tree
<1>5. CASE BeginGit
  BY <1>0, <1>5 DEF BeginGit, GitCallOK, GitHistory, repository
<1>6. CASE LockIndex
  BY <1>0, <1>6 DEF LockIndex, At, GitCallOK, GitCallTypes
<1>7. CASE Prepare
  <2>1. gitCall.op # "remove" => \A f \in gitCall.paths : worktree'[f] = gitCall.want[f]
    BY <1>7 DEF Prepare
  <2>2. gitCall' = [gitCall EXCEPT !.at = "prepared"] /\ gitCall.at = "locked" /\ UNCHANGED commits
    BY <1>7 DEF Prepare, At, refs
  <2> QED
    BY <1>0, <2>1, <2>2 DEF GitCallOK, GitCallTypes
<1>8. CASE Build
  <2> DEFINE new == [f \in Files |-> IF f \in gitCall.paths THEN worktree[f] ELSE index[f]]
  <2>1. /\ gitCall' = [gitCall EXCEPT !.at = "built", !.new = new] /\ gitCall.at = "prepared"
        /\ UNCHANGED <<commits, worktree, touched>>
    BY <1>8 DEF Build, repository
  <2>2. \A f \in gitCall.paths : new[f] = worktree[f]
    BY <1>1
  <2> HIDE DEF new
  <2>3. /\ gitCall'.at = "built" /\ gitCall'.new = new /\ gitCall'.op = gitCall.op
        /\ gitCall'.paths = gitCall.paths /\ gitCall'.want = gitCall.want /\ gitCall'.head = gitCall.head
    BY <1>0, <2>1 DEF GitCallTypes
  <2> QED
    BY <1>0, <2>1, <2>2, <2>3 DEF GitCallOK
<1>9. CASE Install \/ CheckStaged \/ Preflight
  <2>1. gitCall'.at \in {"installed", "checked"} /\ gitCall.at # "idle" /\ gitCall'.head = gitCall.head
    BY <1>0, <1>9 DEF Install, CheckStaged, Preflight, At, GitCallTypes
  <2> QED
    BY <1>0, <2>1 DEF GitCallOK
<1>10. CASE WriteTree
  <2>1. /\ gitCall' = [gitCall EXCEPT !.at = "treed", !.new = index] /\ gitCall.at = "checked"
        /\ Differ(index, Tree(gitCall.head)) = gitCall.paths /\ UNCHANGED commits
    BY <1>10 DEF WriteTree, ExactTree, repository, refs
  <2>2. /\ gitCall'.at = "treed" /\ gitCall'.new = index
        /\ gitCall'.paths = gitCall.paths /\ gitCall'.head = gitCall.head
    BY <1>0, <2>1 DEF GitCallTypes
  <2> QED
    BY <1>0, <2>1, <2>2 DEF GitCallOK, Tree, Differ
<1>11. UNCHANGED <<gitCall, worktree, touched>> \/ gitCall' = NoGitCall \/ (\E f \in Files : Edit(f))
       \/ BeginGit \/ LockIndex \/ Prepare \/ Build \/ Install \/ CheckStaged \/ Preflight \/ WriteTree
  BY DEF GitNext, gitVars, UserAdds, UserInstalls, UserCommits, RemoveStaleLock,
     FinishIndex, UpdateRef, CreateTag, Push, CallFails, CallDies, user
<1> QED
  BY <1>2, <1>3, <1>4, <1>5, <1>6, <1>7, <1>8, <1>9, <1>10, <1>11

LEMMA GitInvHolds == GitSpec => []GitInv
<1>1. GitInv /\ [GitNext]_gitVars => GitInv'
  BY GitHistoryKept, GitCallTypesKept, GitCallKept DEF GitInv
<1> QED
  BY <1>1, GitInvInit, PTL DEF GitSpec

(* A call commits the paths its caller named, and no commit is dropped,       *)
(* however the user edits, stages and commits meanwhile; and it stages the    *)
(* bytes its caller named, but for a file that was changed before its blob    *)
(* was written and changed back before the last look.                         *)
THEOREM GitExact == GitSpec => GitIsExact
<1>1. GitInv => CommitsOnlyPaths /\ NoCommitLost
  BY DEF GitInv, GitHistory
<1>2. ASSUME GitInv, [GitNext]_gitVars, gitCall.at = "built", gitCall'.at = "installed",
             NEW f \in gitCall.paths, gitCall.op # "remove"
      PROVE  index'[f] = gitCall.want[f] \/ {f} \X {"prepared", "built"} \subseteq touched
  <2>1. Install
    <3>1. gitCall \in [op : IndexOps \cup {"none", "commit", "tag", "push"},
                 at : {"idle", "begun", "locked", "prepared", "built", "installed", "checked", "treed"},
                 paths : SUBSET Files, head : 0..MaxCommits, want : Contents, new : Contents]
      BY <1>2 DEF GitInv, GitCallTypes
    <3>2. gitCall' # gitCall /\ gitCall' # NoGitCall
      BY <1>2 DEF NoGitCall
    <3> QED
      BY <1>2, <3>1, <3>2 DEF GitNext, gitVars, repository, BeginGit, LockIndex, Prepare, Build, FinishIndex,
         CheckStaged, WriteTree, UpdateRef, Preflight, CreateTag, Push, CallFails, CallDies,
         UserInstalls, UserCommits, RemoveStaleLock, Edit, UserAdds, At
  <2>2. index' = gitCall.new /\ worktree[f] = gitCall.want[f]
    BY <1>2, <2>1 DEF Install, Unchanged
  <2>3. \/ gitCall.new[f] = gitCall.want[f]
        \/ <<f, "prepared">> \in touched /\ <<f, "built">> \in touched
    BY <1>2, <2>2 DEF GitInv, GitCallOK
  <2> QED
    BY <2>2, <2>3
<1>3. GitInv /\ [GitNext]_gitVars =>
        [gitCall.at = "built" /\ gitCall'.at = "installed" /\ gitCall.op # "remove" =>
          \A f \in gitCall.paths :
             index'[f] = gitCall.want[f] \/ {f} \X {"prepared", "built"} \subseteq touched]_gitVars
  BY <1>2
<1> QED
  BY <1>1, <1>3, GitInvHolds, PTL DEF GitSpec, GitIsExact, StagedIsExpected

-----------------------------------------------------------------------------
(* Supervision of the Execution Runner *)

\* What a supervisor's call knows of the Runner it is about.
CallKnows(s) ==
    /\ supCall[s].at \in {"start ping", "stop ping", "greeting", "shutting"} => supCall[s].of \in Runners
    /\ supCall[s].at \in Starting => supCall[s].of \in 1..starts /\ life[supCall[s].of] = "none"
    /\ supCall[s].at \in {"polling", "unkeying stopped"} =>
          supCall[s].of \in Runners /\ life[supCall[s].of] \in {"serving", "stopping", "releasing", "gone"}
    /\ supCall[s].at = "unkeying stopped" => life[supCall[s].of] \in {"releasing", "gone"}

RunnersKnown ==
    /\ \A r \in Runners : life[r] \in Owning => runnerMutex = r
    /\ \A r \in Runners : r > starts => life[r] = "none"
    /\ stateFile.status = "ready" => stateFile.runner \in Runners
    /\ \A r \in Runners : life[r] \in {"serving", "stopping"} =>
          stateFile \in {NoState, [status |-> "ready", runner |-> r]}

StartsApart ==
    \A s, t \in Supervisors :
        s # t /\ supCall[s].at \in Starting /\ supCall[t].at \in Starting => supCall[s].of # supCall[t].of

SupervisorInv ==
    /\ SupervisorTypeOK /\ RunnersKnown /\ StartsApart
    /\ \A s \in Supervisors : CallKnows(s)

LEMMA SupervisorInvInit == SupervisorInit => SupervisorInv
<1> SUFFICES ASSUME SupervisorInit PROVE SupervisorInv
  OBVIOUS
<1> USE SupervisorAssumption
<1>1. SupervisorTypeOK
  BY DEF SupervisorInit, SupervisorTypeOK, NoState, Said, Runners
<1> QED
  BY <1>1 DEF SupervisorInit, SupervisorInv, RunnersKnown, StartsApart, CallKnows, Owning, Starting, NoState

CallSteps == {"idle"} \cup StartSteps \cup StopSteps
SupCalls == [Supervisors -> [at : CallSteps, of : 0..MaxStarts, said : Said]]

\* Supervisor s goes to step `to', about Runner r, from step `from'.
Moved(s, from, to, r) ==
    /\ supCall' \in SupCalls /\ \A t \in Supervisors \ {s} : supCall'[t] = supCall[t]
    /\ supCall[s].at = from /\ supCall'[s].at = to /\ supCall'[s].of = r

LEMMA CallMoves ==
  ASSUME supCall \in SupCalls, NEW s \in Supervisors, NEW from, NEW to \in CallSteps
  PROVE  /\ \A r \in 0..MaxStarts : About(s, from, to, r) => Moved(s, from, to, r)
         /\ \A said \in Said : Says(s, from, said) => Moved(s, from, "idle", 0)
         /\ Go(s, from, to) => Moved(s, from, to, supCall[s].of)
<1>0. 0 \in 0..MaxStarts /\ "none" \in Said /\ "idle" \in CallSteps
  BY SupervisorAssumption DEF Said, CallSteps
<1>1. ASSUME NEW c \in [at : CallSteps, of : 0..MaxStarts, said : Said],
             supCall' = [supCall EXCEPT ![s] = c], supCall[s].at = from
      PROVE  Moved(s, from, c.at, c.of)
  BY <1>1 DEF Moved, SupCalls
<1>2. ASSUME NEW r \in 0..MaxStarts, About(s, from, to, r)
      PROVE  Moved(s, from, to, r)
  <2> DEFINE c == [at |-> to, of |-> r, said |-> "none"]
  <2>1. c \in [at : CallSteps, of : 0..MaxStarts, said : Said] /\ c.at = to /\ c.of = r
    BY <1>0
  <2>2. supCall' = [supCall EXCEPT ![s] = c] /\ supCall[s].at = from
    BY <1>2 DEF About
  <2> HIDE DEF c
  <2> QED
    BY <1>1, <2>1, <2>2
<1>3. ASSUME NEW said \in Said, Says(s, from, said)
      PROVE  Moved(s, from, "idle", 0)
  <2> DEFINE c == [at |-> "idle", of |-> 0, said |-> said]
  <2>1. c \in [at : CallSteps, of : 0..MaxStarts, said : Said] /\ c.at = "idle" /\ c.of = 0
    BY <1>0
  <2>2. supCall' = [supCall EXCEPT ![s] = c] /\ supCall[s].at = from
    BY <1>3 DEF Says
  <2> HIDE DEF c
  <2> QED
    BY <1>1, <2>1, <2>2
<1>4. ASSUME Go(s, from, to)
      PROVE  Moved(s, from, to, supCall[s].of)
  BY <1>4 DEF Go, Moved, SupCalls
<1> QED
  BY <1>2, <1>3, <1>4

\* Runners go on: none is spawned, and none that stops serves again.
LaterLife ==
    \A r \in Runners :
        /\ life[r] = "none" => life'[r] = "none"
        /\ life[r] \in {"serving", "stopping", "releasing", "gone"} =>
              life'[r] \in {"serving", "stopping", "releasing", "gone"}
        /\ life[r] \in {"releasing", "gone"} => life'[r] \in {"releasing", "gone"}

LEMMA CallsKept ==
  ASSUME SupervisorInv, LaterLife, UNCHANGED starts,
         \A t \in Supervisors :
            \/ supCall'[t] = supCall[t]
            \/ /\ CallKnows(t)'
               /\ supCall'[t].at \in Starting => supCall[t].at \in Starting /\ supCall'[t].of = supCall[t].of
  PROVE  StartsApart' /\ \A t \in Supervisors : CallKnows(t)'
<1>1. \A t \in Supervisors : CallKnows(t)'
  <2> SUFFICES ASSUME NEW t \in Supervisors, supCall'[t] = supCall[t]
               PROVE  CallKnows(t)'
    OBVIOUS
  <2>1. CallKnows(t) /\ starts \in 0..MaxStarts
    BY DEF SupervisorInv, SupervisorTypeOK
  <2>2. supCall[t].of \in 1..starts => supCall[t].of \in Runners
    BY <2>1, SupervisorAssumption DEF Runners
  <2> QED
    BY <2>1, <2>2 DEF CallKnows, LaterLife
<1>2. \A t \in Supervisors : supCall'[t].at \in Starting =>
         supCall[t].at \in Starting /\ supCall'[t].of = supCall[t].of
  OBVIOUS
<1>3. StartsApart'
  BY <1>2 DEF SupervisorInv, StartsApart
<1> QED
  BY <1>1, <1>3

\* The files change, and some Runner's life, under the mutex.
LEMMA RunnersKept ==
  ASSUME RunnersKnown, UNCHANGED starts,
         stateFile'.status = "ready" => stateFile'.runner \in Runners,
         \A r \in Runners :
            /\ life'[r] \in Owning => runnerMutex' = r
            /\ life[r] = "none" => life'[r] = "none"
            /\ life'[r] \in {"serving", "stopping"} =>
                  \/ life[r] \in {"serving", "stopping"} /\ stateFile' \in {stateFile, NoState}
                  \/ stateFile' = [status |-> "ready", runner |-> r]
  PROVE  RunnersKnown'
  BY DEF RunnersKnown

LEMMA NoStateTyped == NoState \in [status : {"none", "ready", "stopped"}, runner : 0..MaxStarts]
<1>1. 0 \in 0..MaxStarts
  BY SupervisorAssumption
<1> QED
  BY <1>1 DEF NoState

\* A supervisor's step that leaves the Runners alone keeps the invariant when
\* it knows what it should of the Runner its call is now about.
LEMMA MoveKeeps ==
  ASSUME SupervisorInv, UNCHANGED <<starts, runnerLife>>, stateFile' \in {stateFile, NoState},
         keyFile' \in 0..MaxStarts,
         NEW s \in Supervisors, NEW from, NEW to, NEW r, Moved(s, from, to, r),
         to \in {"start ping", "stop ping", "greeting", "shutting"} => r \in Runners,
         to \in Starting => from \in Starting /\ r = supCall[s].of,
         to \in {"polling", "unkeying stopped"} =>
            r \in Runners /\ life[r] \in {"serving", "stopping", "releasing", "gone"},
         to = "unkeying stopped" => life[r] \in {"releasing", "gone"}
  PROVE  SupervisorInv'
<1>0. SupervisorTypeOK /\ RunnersKnown /\ CallKnows(s) /\ MaxStarts \in Nat
  BY SupervisorAssumption DEF SupervisorInv
<1>1. UNCHANGED <<life, keyOf, runnerMutex, busy, starts>>
  BY DEF runnerLife
<1>2. CallKnows(s)'
  BY <1>0, <1>1 DEF CallKnows, Moved
<1>3. LaterLife
  BY <1>1 DEF LaterLife
<1>4. \A t \in Supervisors :
         \/ supCall'[t] = supCall[t]
         \/ /\ CallKnows(t)'
            /\ supCall'[t].at \in Starting => supCall[t].at \in Starting /\ supCall'[t].of = supCall[t].of
  BY <1>2 DEF Moved
<1>5. StartsApart' /\ \A t \in Supervisors : CallKnows(t)'
  BY <1>1, <1>3, <1>4, CallsKept
<1>6. RunnersKnown'
  <2>1. NoState.status # "ready"
    BY DEF NoState
  <2> QED
    BY <1>0, <1>1, <2>1 DEF RunnersKnown
<1>7. SupervisorTypeOK'
  <2>1. stateFile' \in [status : {"none", "ready", "stopped"}, runner : 0..MaxStarts]
    <3>1. NoState \in [status : {"none", "ready", "stopped"}, runner : 0..MaxStarts]
      BY NoStateTyped
    <3> QED
      BY <1>0, <3>1 DEF SupervisorTypeOK
  <2>2. supCall' \in SupCalls
    BY DEF Moved
  <2> QED
    BY <1>0, <1>1, <2>1, <2>2 DEF SupervisorTypeOK, SupCalls, CallSteps
<1> QED
  BY <1>5, <1>6, <1>7 DEF SupervisorInv

LEMMA SupervisorStep ==
  ASSUME SupervisorInv, NEW s \in Supervisors,
         \/ PingStart(s) \/ ClearFiles(s) \/ WriteKey(s) \/ WaitReady(s) \/ Greet(s) \/ BeginStop(s)
         \/ Sweep(s) \/ PingStop(s) \/ PollStop(s) \/ RemoveKey(s) \/ SupervisorDies(s)
  PROVE  SupervisorInv'
<1>0. /\ supCall \in SupCalls /\ RunnersKnown /\ CallKnows(s) /\ supCall[s].of \in 0..MaxStarts
      /\ keyFile \in 0..MaxStarts /\ 0 \in 0..MaxStarts
  BY SupervisorAssumption DEF SupervisorInv, SupervisorTypeOK, SupCalls, CallSteps
<1>1. /\ UNCHANGED <<starts, runnerLife>> /\ stateFile' \in {stateFile, NoState}
      /\ keyFile' \in 0..MaxStarts
  <2>1. CASE PingStart(s) \/ WaitReady(s) \/ Greet(s) \/ BeginStop(s) \/ PingStop(s) \/ PollStop(s)
             \/ SupervisorDies(s)
    BY <1>0, <2>1 DEF PingStart, WaitReady, Greet, BeginStop, PingStop, PollStop, SupervisorDies, supFiles
  <2>2. CASE ClearFiles(s) \/ Sweep(s)
    BY <1>0, <2>2 DEF ClearFiles, Sweep
  <2>3. CASE WriteKey(s) \/ RemoveKey(s)
    BY <1>0, <2>3 DEF WriteKey, RemoveKey
  <2> QED
    BY <2>1, <2>2, <2>3
<1>2. ASSUME stateFile.status = "ready"
      PROVE  stateFile.runner \in Runners /\ stateFile.runner \in 0..MaxStarts
  BY <1>0, <1>2, SupervisorAssumption DEF RunnersKnown, Runners
<1>3. {"idle", "keying", "spawning", "greeting", "unkeying", "sweeping", "stop ping", "shutting",
       "unkeying stopped"} \subseteq CallSteps
  BY DEF CallSteps, StartSteps, StopSteps
<1>4. CASE PingStart(s) \/ Greet(s) \/ Sweep(s) \/ RemoveKey(s) \/ SupervisorDies(s)
  <2>1. \E from : \E said \in Said : Says(s, from, said)
    BY <1>4 DEF PingStart, Greet, Sweep, RemoveKey, SupervisorDies, Said
  <2>2. \E from : Moved(s, from, "idle", 0)
    BY <1>0, <1>3, <2>1, CallMoves
  <2> QED
    BY <1>1, <2>2, MoveKeeps DEF Starting
<1>5. CASE ClearFiles(s) \/ WriteKey(s)
  <2>1. \/ Moved(s, "clearing", "keying", supCall[s].of)
        \/ Moved(s, "keying", "spawning", supCall[s].of)
    BY <1>0, <1>3, <1>5, CallMoves DEF ClearFiles, WriteKey
  <2> QED
    BY <1>1, <2>1, MoveKeeps DEF Starting
<1>6. CASE WaitReady(s)
  <2>1. \/ Moved(s, "waiting", "idle", 0)
        \/ stateFile.status = "ready" /\ Moved(s, "waiting", "greeting", stateFile.runner)
    <3>1. "failed" \in Said
      BY DEF Said
    <3> QED
      BY <1>0, <1>2, <1>3, <1>6, <3>1, CallMoves DEF WaitReady
  <2> QED
    BY <1>1, <1>2, <2>1, MoveKeeps DEF Starting
<1>7. CASE BeginStop(s)
  <2>1. \/ Moved(s, "idle", "unkeying", 0)
        \/ /\ stateFile.status = "ready"
           /\ \/ Moved(s, "idle", "sweeping", stateFile.runner)
              \/ Moved(s, "idle", "stop ping", stateFile.runner)
    BY <1>0, <1>2, <1>3, <1>7, CallMoves DEF BeginStop
  <2> QED
    BY <1>1, <1>2, <2>1, MoveKeeps DEF Starting
<1>8. CASE PingStop(s)
  <2>1. \/ Moved(s, "stop ping", "idle", 0)
        \/ Moved(s, "stop ping", "shutting", supCall[s].of)
    <3>1. "stop_failed" \in Said
      BY DEF Said
    <3> QED
      BY <1>0, <1>3, <1>8, <3>1, CallMoves DEF PingStop
  <2>2. supCall[s].at = "stop ping" => supCall[s].of \in Runners
    BY <1>0 DEF CallKnows
  <2>3. supCall[s].at = "stop ping"
    BY <2>1 DEF Moved
  <2> QED
    BY <1>1, <2>1, <2>2, <2>3, MoveKeeps DEF Starting
<1>9. CASE PollStop(s)
  <2>1. \/ Moved(s, "polling", "idle", 0)
        \/ SaysStopped /\ Moved(s, "polling", "unkeying stopped", supCall[s].of)
    <3>1. "stop_pending" \in Said
      BY DEF Said
    <3> QED
      BY <1>0, <1>3, <1>9, <3>1, CallMoves DEF PollStop
  <2>2. supCall[s].at = "polling"
    BY <2>1 DEF Moved
  <2>3. supCall[s].of \in Runners /\ life[supCall[s].of] \in {"serving", "stopping", "releasing", "gone"}
    BY <1>0, <2>2 DEF CallKnows
  <2>4. SaysStopped => life[supCall[s].of] \in {"releasing", "gone"}
    <3>1. NoState.status = "none" /\ \A r : [status |-> "ready", runner |-> r].status = "ready"
      BY DEF NoState
    <3>2. SaysStopped => stateFile # NoState /\ \A r : stateFile # [status |-> "ready", runner |-> r]
      BY <3>1 DEF SaysStopped
    <3> QED
      BY <1>0, <2>3, <3>2 DEF RunnersKnown
  <2> QED
    BY <1>1, <2>1, <2>3, <2>4, MoveKeeps DEF Starting
<1> QED
  BY <1>4, <1>5, <1>6, <1>7, <1>8, <1>9

\* The steps that spawn a Runner, ask one to stop, or take the number of a start.
LEMMA BeginStartKeeps ==
  ASSUME SupervisorInv, NEW s \in Supervisors, BeginStart(s)
  PROVE  SupervisorInv'
<1>0. /\ supCall \in SupCalls /\ RunnersKnown /\ starts \in 0..MaxStarts /\ MaxStarts \in Nat
      /\ SupervisorTypeOK /\ \A t \in Supervisors : CallKnows(t)
  BY SupervisorAssumption DEF SupervisorInv, SupervisorTypeOK, SupCalls, CallSteps
<1>1. "start ping" \in CallSteps /\ "clearing" \in CallSteps /\ stateFile \in {stateFile, NoState}
  BY DEF CallSteps, StartSteps
<1>2. CASE About(s, "idle", "start ping", stateFile.runner) /\ UNCHANGED starts /\ stateFile.status = "ready"
  <2>1. stateFile.runner \in Runners /\ stateFile.runner \in 0..MaxStarts
    <3>1. stateFile.runner \in Runners
      BY <1>0, <1>2 DEF RunnersKnown
    <3> QED
      BY <1>0, <3>1 DEF Runners
  <2>2. Moved(s, "idle", "start ping", stateFile.runner)
    BY <1>0, <1>1, <1>2, <2>1, CallMoves
  <2>3. UNCHANGED <<starts, runnerLife>> /\ UNCHANGED <<stateFile, keyFile>> /\ keyFile \in 0..MaxStarts
    BY <1>0, <1>2 DEF BeginStart, supFiles, SupervisorTypeOK
  <2> QED
    BY <2>1, <2>2, <2>3, MoveKeeps DEF Starting
<1>3. CASE About(s, "idle", "clearing", starts + 1) /\ starts' = starts + 1 /\ starts < MaxStarts
  <2>1. starts + 1 \in 0..MaxStarts /\ starts + 1 \in Runners /\ starts + 1 > starts
    BY <1>0, <1>3 DEF Runners
  <2>2. Moved(s, "idle", "clearing", starts + 1)
    BY <1>0, <1>1, <1>3, <2>1, CallMoves
  <2>3. UNCHANGED <<stateFile, keyFile, life, keyOf, runnerMutex, busy>>
    BY DEF BeginStart, supFiles, runnerLife
  <2>4. SupervisorTypeOK'
    BY <1>0, <1>3, <2>1, <2>2, <2>3 DEF SupervisorTypeOK, Moved, SupCalls, CallSteps
  <2>5. RunnersKnown'
    BY <1>0, <1>3, <2>3 DEF RunnersKnown, Runners
  <2>6. CallKnows(s)'
    <3>1. life[starts + 1] = "none" /\ starts + 1 \in 1..(starts + 1)
      BY <1>0, <2>1 DEF RunnersKnown
    <3> QED
      BY <1>3, <2>2, <2>3, <3>1 DEF CallKnows, Moved, Starting
  <2>7. \A t \in Supervisors \ {s} : CallKnows(t)' /\ supCall'[t] = supCall[t]
                                     /\ (supCall[t].at \in Starting => supCall[t].of \in 1..starts)
    <3> SUFFICES ASSUME NEW t \in Supervisors \ {s}
                 PROVE  CallKnows(t)' /\ supCall'[t] = supCall[t]
                        /\ (supCall[t].at \in Starting => supCall[t].of \in 1..starts)
      OBVIOUS
    <3>1. supCall'[t] = supCall[t] /\ CallKnows(t)
      BY <1>0, <2>2 DEF Moved
    <3>2. supCall[t].of \in 1..starts => supCall[t].of \in 1..starts'
      BY <1>0, <1>3
    <3> QED
      BY <2>3, <3>1, <3>2 DEF CallKnows
  <2>8. StartsApart'
    <3>1. supCall'[s].of = starts + 1 /\ starts + 1 \notin 1..starts
      BY <1>0, <2>2 DEF Moved
    <3>2. \A t \in Supervisors \ {s} : supCall'[t].at \in Starting => supCall'[t].of # supCall'[s].of
      BY <2>7, <3>1
    <3> QED
      BY <2>7, <3>2 DEF SupervisorInv, StartsApart
  <2> QED
    BY <2>4, <2>5, <2>6, <2>7, <2>8 DEF SupervisorInv
<1> QED
  BY <1>2, <1>3 DEF BeginStart

LEMMA SpawnKeeps ==
  ASSUME SupervisorInv, NEW s \in Supervisors, SpawnRunner(s)
  PROVE  SupervisorInv'
<1>0. /\ supCall \in SupCalls /\ RunnersKnown /\ SupervisorTypeOK /\ StartsApart
      /\ starts \in 0..MaxStarts /\ MaxStarts \in Nat /\ \A t \in Supervisors : CallKnows(t)
  BY SupervisorAssumption DEF SupervisorInv, SupervisorTypeOK, SupCalls, CallSteps
<1> DEFINE r == supCall[s].of
<1>1. Moved(s, "spawning", "waiting", r)
  <2>1. "waiting" \in CallSteps
    BY DEF CallSteps, StartSteps
  <2> QED
    BY <1>0, <2>1, CallMoves DEF SpawnRunner
<1>2. r \in 1..starts /\ r \in Runners /\ life[r] = "none"
  <2>1. supCall[s].at = "spawning" /\ CallKnows(s)
    BY <1>0, <1>1 DEF Moved
  <2>2. r \in 1..starts /\ life[r] = "none"
    BY <2>1 DEF CallKnows, Starting
  <2>3. 1..starts \subseteq Runners
    BY <1>0 DEF Runners
  <2> QED
    BY <2>2, <2>3
<1>3. /\ life' = [life EXCEPT ![r] = "spawned"]
      /\ UNCHANGED <<stateFile, keyFile, starts, keyOf, runnerMutex, busy>>
  BY DEF SpawnRunner, supFiles
<1> HIDE DEF r
<1>4. life'[r] = "spawned" /\ \A q \in Runners \ {r} : life'[q] = life[q]
  BY <1>0, <1>2, <1>3 DEF SupervisorTypeOK
<1>5. SupervisorTypeOK'
  <2>1. busy' \subseteq {q \in Runners : life'[q] = "serving"}
    BY <1>0, <1>2, <1>3, <1>4 DEF SupervisorTypeOK
  <2> QED
    BY <1>0, <1>1, <1>3, <2>1 DEF SupervisorTypeOK, Moved, SupCalls, CallSteps
<1>6. RunnersKnown'
  <2>1. \A q \in Runners : q > starts => q # r
    BY <1>0, <1>2
  <2> QED
    BY <1>0, <1>2, <1>3, <1>4, <2>1 DEF RunnersKnown, Owning
<1>7. ASSUME NEW t \in Supervisors
      PROVE  CallKnows(t)' /\ (supCall'[t].at \in Starting =>
                                 supCall[t].at \in Starting /\ supCall'[t].of = supCall[t].of)
  <2>1. CASE t = s
    BY <1>1, <2>1 DEF CallKnows, Moved, Starting
  <2>2. CASE t # s
    <3>1. supCall'[t] = supCall[t]
      BY <1>1, <2>2 DEF Moved
    <3>2. supCall[t].at \in Starting => supCall[t].of # r
      BY <1>0, <1>1, <2>2 DEF StartsApart, Moved, Starting, r
    <3>3. supCall[t].of \in 1..starts => supCall[t].of \in Runners
      BY <1>0 DEF Runners
    <3>4. \A q \in Runners : life[q] \in {"serving", "stopping", "releasing", "gone"} => q # r
      BY <1>2
    <3>5. CallKnows(t)
      BY <1>0
    <3> QED
      BY <1>3, <1>4, <3>1, <3>2, <3>3, <3>4, <3>5 DEF CallKnows
  <2> QED
    BY <2>1, <2>2
<1>8. StartsApart'
  BY <1>0, <1>7 DEF StartsApart
<1> QED
  BY <1>5, <1>6, <1>7, <1>8 DEF SupervisorInv

LEMMA ShutdownKeeps ==
  ASSUME SupervisorInv, NEW s \in Supervisors, Shutdown(s)
  PROVE  SupervisorInv'
<1>0. /\ supCall \in SupCalls /\ RunnersKnown /\ SupervisorTypeOK /\ CallKnows(s) /\ MaxStarts \in Nat
  BY SupervisorAssumption DEF SupervisorInv, SupervisorTypeOK, SupCalls, CallSteps
<1> DEFINE r == supCall[s].of
<1>1. /\ supCall[s].at = "shutting" /\ r \in Runners /\ r \in 0..MaxStarts
      /\ UNCHANGED <<stateFile, keyFile, starts, keyOf, busy, runnerMutex>>
      /\ UNCHANGED life \/ (Pings(r) /\ r \notin busy /\ life' = [life EXCEPT ![r] = "stopping"])
  BY <1>0 DEF Shutdown, CallKnows, supFiles, StopServing, Runners
<1>2. \/ Moved(s, "shutting", "idle", 0) /\ UNCHANGED life
      \/ Moved(s, "shutting", "polling", r) /\ Pings(r)
  <2>1. "polling" \in CallSteps /\ "stop_failed" \in Said
    BY DEF CallSteps, StopSteps, Said
  <2> QED
    BY <1>0, <2>1, CallMoves DEF Shutdown
<1> HIDE DEF r
<1>3. Pings(r) => life[r] = "serving"
  BY DEF Pings
<1>4. /\ \A q \in Runners \ {r} : life'[q] = life[q]
      /\ life'[r] = life[r] \/ (life[r] = "serving" /\ life'[r] = "stopping" /\ r \notin busy)
      /\ life' \in [Runners -> {"none", "spawned", "owning", "keyed", "serving", "stopping", "releasing", "gone"}]
  BY <1>0, <1>1, <1>3 DEF SupervisorTypeOK
<1>5. SupervisorTypeOK'
  <2>1. supCall' \in SupCalls
    BY <1>2 DEF Moved
  <2>2. busy' \subseteq {q \in Runners : life'[q] = "serving"}
    BY <1>0, <1>1, <1>4 DEF SupervisorTypeOK
  <2> QED
    BY <1>0, <1>1, <1>4, <2>1, <2>2 DEF SupervisorTypeOK, SupCalls, CallSteps
<1>6. RunnersKnown'
  BY <1>0, <1>1, <1>4 DEF RunnersKnown, Owning
<1>7. LaterLife
  BY <1>4 DEF LaterLife
<1>8. CallKnows(s)'
  <2>1. Moved(s, "shutting", "polling", r) /\ Pings(r) => CallKnows(s)'
    BY <1>1, <1>3, <1>4 DEF CallKnows, Moved, Starting
  <2>2. Moved(s, "shutting", "idle", 0) => CallKnows(s)'
    BY DEF CallKnows, Moved, Starting
  <2> QED
    BY <1>2, <2>1, <2>2
<1>9. \A t \in Supervisors :
         \/ supCall'[t] = supCall[t]
         \/ /\ CallKnows(t)'
            /\ supCall'[t].at \in Starting => supCall[t].at \in Starting /\ supCall'[t].of = supCall[t].of
  BY <1>2, <1>8 DEF Moved, Starting
<1>10. StartsApart' /\ \A t \in Supervisors : CallKnows(t)'
  BY <1>1, <1>7, <1>9, CallsKept
<1> QED
  BY <1>5, <1>6, <1>10 DEF SupervisorInv

\* A Runner's own step: no call moves.
LEMMA RunnerStep ==
  ASSUME SupervisorInv, NEW r \in Runners,
         Own(r) \/ ReadKey(r) \/ Serve(r) \/ Work(r) \/ WriteStopped(r) \/ RunnerEnds(r)
  PROVE  SupervisorInv'
<1>0. /\ RunnersKnown /\ SupervisorTypeOK /\ MaxStarts \in Nat
      /\ r \in 0..MaxStarts /\ r # 0 /\ 0 \in 0..MaxStarts
  BY SupervisorAssumption DEF SupervisorInv, Runners
<1>1. UNCHANGED <<starts, supCall>>
  BY DEF Own, ReadKey, Serve, Work, WriteStopped, RunnerEnds
<1> DEFINE Held == {"none", "spawned", "owning", "keyed", "serving", "stopping", "releasing", "gone"}
<1>2. /\ \A q \in Runners \ {r} : life'[q] = life[q]
      /\ life' \in [Runners -> Held]
      /\ life[r] # "none" /\ LaterLife
  <2>1. CASE Own(r)
    BY <1>0, <2>1 DEF Own, SupervisorTypeOK, LaterLife
  <2>2. CASE ReadKey(r)
    BY <1>0, <2>2 DEF ReadKey, Ends, SupervisorTypeOK, LaterLife
  <2>3. CASE Serve(r)
    BY <1>0, <2>3 DEF Serve, SupervisorTypeOK, LaterLife
  <2>4. CASE Work(r)
    BY <1>0, <2>4 DEF Work, SupervisorTypeOK, LaterLife
  <2>5. CASE WriteStopped(r)
    BY <1>0, <2>5 DEF WriteStopped, SupervisorTypeOK, LaterLife
  <2>6. CASE RunnerEnds(r)
    BY <1>0, <2>6 DEF RunnerEnds, Ends, SupervisorTypeOK, LaterLife
  <2> QED
    BY <2>1, <2>2, <2>3, <2>4, <2>5, <2>6
\* One Runner owns the mutex, so the others neither own it nor speak.
<1>3. /\ life'[r] \in Owning => runnerMutex' = r
      /\ runnerMutex' = runnerMutex \/ runnerMutex \in {0, r}
      /\ runnerMutex' \in 0..MaxStarts
  <2>1. CASE Own(r)
    BY <1>0, <2>1 DEF Own, SupervisorTypeOK, Owning
  <2>2. CASE ReadKey(r)
    BY <1>0, <2>2 DEF ReadKey, Ends, SupervisorTypeOK, RunnersKnown, Owning
  <2>3. CASE Serve(r) \/ WriteStopped(r)
    BY <1>0, <2>3 DEF Serve, WriteStopped, SupervisorTypeOK, RunnersKnown, Owning
  <2>4. CASE Work(r)
    BY <1>0, <2>4 DEF Work, SupervisorTypeOK, RunnersKnown, Owning
  <2>5. CASE RunnerEnds(r)
    BY <1>0, <2>5 DEF RunnerEnds, Ends, SupervisorTypeOK, Owning
  <2> QED
    BY <2>1, <2>2, <2>3, <2>4, <2>5
<1>4. /\ stateFile' = stateFile \/ (life[r] \in Owning /\
            stateFile' \in {[status |-> "ready", runner |-> r], [status |-> "stopped", runner |-> r]})
      /\ life'[r] = "serving" => stateFile' = [status |-> "ready", runner |-> r]
                                 \/ (life[r] = "serving" /\ stateFile' = stateFile)
      /\ life'[r] # "stopping"
  <2>1. CASE Own(r)
    BY <1>0, <2>1 DEF Own, SupervisorTypeOK, supFiles
  <2>2. CASE ReadKey(r)
    BY <1>0, <2>2 DEF ReadKey, Ends, SupervisorTypeOK, supFiles
  <2>3. CASE Serve(r) \/ WriteStopped(r)
    BY <1>0, <2>3 DEF Serve, WriteStopped, SupervisorTypeOK, Owning
  <2>4. CASE Work(r)
    BY <1>0, <2>4 DEF Work, supFiles
  <2>5. CASE RunnerEnds(r)
    BY <1>0, <2>5 DEF RunnerEnds, Ends, SupervisorTypeOK, supFiles
  <2> QED
    BY <2>1, <2>2, <2>3, <2>4, <2>5
<1>5. /\ keyFile' = keyFile /\ keyOf' \in [Runners -> 0..MaxStarts]
      /\ busy' \subseteq {q \in Runners : life'[q] = "serving"}
  <2>1. CASE Own(r)
    BY <1>0, <1>2, <2>1 DEF Own, SupervisorTypeOK, supFiles
  <2>2. CASE ReadKey(r)
    <3>1. busy' \subseteq busy \ {r}
      BY <1>0, <2>2 DEF ReadKey, Ends, SupervisorTypeOK
    <3>2. keyFile' = keyFile /\ keyOf' \in [Runners -> 0..MaxStarts]
      BY <1>0, <2>2 DEF ReadKey, SupervisorTypeOK, supFiles
    <3> QED
      BY <1>0, <1>2, <3>1, <3>2 DEF SupervisorTypeOK
  <2>3. CASE Serve(r) \/ WriteStopped(r)
    <3>1. r \notin busy /\ UNCHANGED <<busy, keyFile, keyOf>>
      BY <1>0, <2>3 DEF Serve, WriteStopped, SupervisorTypeOK
    <3> QED
      BY <1>0, <1>2, <3>1 DEF SupervisorTypeOK
  <2>4. CASE Work(r)
    BY <1>0, <2>4 DEF Work, SupervisorTypeOK, supFiles
  <2>5. CASE RunnerEnds(r)
    BY <1>0, <1>2, <2>5 DEF RunnerEnds, Ends, SupervisorTypeOK, supFiles
  <2> QED
    BY <2>1, <2>2, <2>3, <2>4, <2>5
<1>6. SupervisorTypeOK'
  <2>1. stateFile' \in [status : {"none", "ready", "stopped"}, runner : 0..MaxStarts]
    BY <1>0, <1>4 DEF SupervisorTypeOK
  <2> QED
    BY <1>0, <1>1, <1>2, <1>3, <1>5, <2>1 DEF SupervisorTypeOK
<1>7. RunnersKnown'
  <2>1. ASSUME NEW q \in Runners
        PROVE  /\ life'[q] \in Owning => runnerMutex' = q
               /\ q > starts => life'[q] = "none"
               /\ life'[q] \in {"serving", "stopping"} =>
                     stateFile' \in {NoState, [status |-> "ready", runner |-> q]}
    <3>1. CASE q = r
      BY <1>0, <1>2, <1>3, <1>4, <3>1 DEF RunnersKnown
    <3>2. CASE q # r
      <4>1. life'[q] = life[q] /\ q # 0
        BY <1>2, <3>2, SupervisorAssumption DEF Runners
      <4>2. life[q] \in Owning => runnerMutex = q /\ runnerMutex' = q /\ life[r] \notin Owning
        BY <1>0, <1>3, <3>2, <4>1 DEF RunnersKnown
      <4>3. life[q] \in {"serving", "stopping"} => stateFile' = stateFile
        BY <1>4, <4>2 DEF Owning
      <4> QED
        BY <1>0, <4>1, <4>2, <4>3 DEF RunnersKnown
    <3> QED
      BY <3>1, <3>2
  <2>2. stateFile'.status = "ready" => stateFile'.runner \in Runners
    BY <1>0, <1>4 DEF RunnersKnown
  <2> QED
    BY <1>1, <2>1, <2>2 DEF RunnersKnown
<1>8. \A t \in Supervisors : supCall'[t] = supCall[t]
  BY <1>1
<1>9. StartsApart' /\ \A t \in Supervisors : CallKnows(t)'
  BY <1>1, <1>2, <1>8, CallsKept
<1> QED
  BY <1>6, <1>7, <1>9 DEF SupervisorInv

LEMMA SupervisorInvKept == SupervisorInv /\ [SupervisorNext]_supervisorVars => SupervisorInv'
<1> SUFFICES ASSUME SupervisorInv, [SupervisorNext]_supervisorVars PROVE SupervisorInv'
  OBVIOUS
<1>1. CASE UNCHANGED supervisorVars
  BY <1>1 DEF supervisorVars, supFiles, runnerLife, SupervisorInv, SupervisorTypeOK, RunnersKnown,
              StartsApart, CallKnows
<1>2. ASSUME NEW s \in Supervisors, BeginStart(s) PROVE SupervisorInv'
  BY <1>2, BeginStartKeeps
<1>3. ASSUME NEW s \in Supervisors, SpawnRunner(s) PROVE SupervisorInv'
  BY <1>3, SpawnKeeps
<1>4. ASSUME NEW s \in Supervisors, Shutdown(s) PROVE SupervisorInv'
  BY <1>4, ShutdownKeeps
<1>5. ASSUME NEW s \in Supervisors,
             \/ PingStart(s) \/ ClearFiles(s) \/ WriteKey(s) \/ WaitReady(s) \/ Greet(s) \/ BeginStop(s)
             \/ Sweep(s) \/ PingStop(s) \/ PollStop(s) \/ RemoveKey(s) \/ SupervisorDies(s)
      PROVE  SupervisorInv'
  BY <1>5, SupervisorStep
<1>6. ASSUME NEW r \in Runners,
             Own(r) \/ ReadKey(r) \/ Serve(r) \/ Work(r) \/ WriteStopped(r) \/ RunnerEnds(r)
      PROVE  SupervisorInv'
  BY <1>6, RunnerStep
<1> QED
  BY <1>1, <1>2, <1>3, <1>4, <1>5, <1>6 DEF SupervisorNext

\* The state file of a Runner that serves is its own or gone, and stop says
\* "stopped" only of a Runner that serves no more, however many processes
\* supervise: a Runner speaks under the mutex, its last word included.
THEOREM RunnerKnown == SupervisorSpec => RunnerIsKnown
<1>1. SupervisorInit => SupervisorInv
  BY SupervisorInvInit
<1>2. SupervisorInv /\ [SupervisorNext]_supervisorVars => SupervisorInv'
  BY SupervisorInvKept
<1>3. SupervisorInv => \A r \in Runners : life[r] = "serving" =>
                          stateFile \in {NoState, [status |-> "ready", runner |-> r]}
  BY DEF SupervisorInv, RunnersKnown
<1>4. SupervisorInv /\ [SupervisorNext]_supervisorVars =>
        [\A s \in Supervisors : supCall[s].at = "unkeying stopped" /\ supCall'[s].said = "stopped" =>
            life[supCall[s].of] \in {"releasing", "gone"}]_supervisorVars
  BY DEF SupervisorInv, CallKnows
<1> QED
  BY <1>1, <1>2, <1>3, <1>4, PTL DEF SupervisorSpec, RunnerIsKnown

-----------------------------------------------------------------------------
(* The record of a project *)

LEMMA RecordInvInit == RecordInit => RecordInv
<1> SUFFICES ASSUME RecordInit PROVE RecordInv
  OBVIOUS
<1>1. 1 \in 1..MaxRevision /\ 1 \in 1..MaxEvaluations /\ 0 \in 0..MaxContract
      /\ 0 <= MaxEvidence /\ 0 <= MaxEvaluations
  BY RecordAssumption
<1>2. \A v \in Verifiers : verifying[v].at = "idle"
  BY DEF RecordInit, NotVerifying
<1>3. RecordTypeOK
  <2>1. verifying \in [Verifiers -> [at : {"idle", "checking", "promoting"}, of : 1..MaxEvaluations]]
    BY <1>1 DEF RecordInit, NotVerifying
  <2>2. /\ evidence \in Seq(Evidence) /\ Len(evidence) <= MaxEvidence /\ DOMAIN evidence = {}
        /\ evaluated \in Seq(Evaluation) /\ Len(evaluated) <= MaxEvaluations /\ DOMAIN evaluated = {}
    BY <1>1 DEF RecordInit
  <2>3. \A v \in Verifiers : verifying[v].at = "promoting" <=> recordLock = v
    BY <1>2, RecordAssumption DEF RecordInit
  <2> QED
    BY <1>1, <2>1, <2>2, <2>3 DEF RecordInit, RecordTypeOK, Lifecycles
<1> QED
  BY <1>2, <1>3 DEF RecordInit, RecordInv, VerificationOK

\* A contract whose every check passed has a passing record for each.
LEMMA PassIsBacked ==
  ASSUME NEW bound \in [Checks -> SUBSET Current], StatusOf(bound) = "pass", NEW c \in Checks
  PROVE  \E n \in bound[c] : /\ n \in DOMAIN evidence
                             /\ evidence[n].rev = state.rev /\ evidence[n].status = "pass"
<1>1. "pass" \in {evidence[e].status : e \in bound[c]}
  BY DEF StatusOf
<1>2. bound[c] \subseteq Current
  OBVIOUS
<1> QED
  BY <1>1, <1>2 DEF Current

NothingForgotten ==
    /\ \A n \in DOMAIN evidence : n \in DOMAIN evidence' /\ evidence'[n] = evidence[n]
    /\ \A e \in DOMAIN evaluated : e \in DOMAIN evaluated' /\ evaluated'[e] = evaluated[e]

LEMMA RecordsKept ==
  ASSUME NothingForgotten
  PROVE  /\ \A e \in DOMAIN evaluated : PassesWithEvidence(e) => PassesWithEvidence(e)'
         /\ UNCHANGED contract => \A d \in verdicts : Promotes(d) => Promotes(d)'
BY DEF NothingForgotten, PassesWithEvidence, Promotes

\* The state and the contract stay, the verdicts stay, and no verification
\* goes on: the rest of the invariant holds as it did.
LEMMA VerificationsKept ==
  ASSUME RecordInv, NothingForgotten, UNCHANGED <<state, contract>>, verdicts \subseteq verdicts',
         NEW v \in Verifiers, verifying'[v] = verifying[v] \/ verifying'[v].at = "idle"
  PROVE  VerificationOK(v)'
<1>1. VerificationOK(v)
  BY DEF RecordInv
<1>2. \A d \in verdicts : Promotes(d) => Promotes(d)' /\ d \in verdicts'
  BY RecordsKept
<1>3. CASE verifying'[v].at = "idle"
  BY <1>3 DEF VerificationOK
<1>4. CASE verifying'[v] = verifying[v]
  BY <1>1, <1>2, <1>4 DEF VerificationOK, NothingForgotten, Matches
<1> QED
  BY <1>3, <1>4

LEMMA RecordStepKeeps ==
  ASSUME RecordInv,
         InitProject \/ CrashProject \/ RecordEvidence \/ Evaluate \/ \E v \in Verifiers : VerifyRefused(v)
  PROVE  RecordInv'
<1>0. /\ RecordTypeOK /\ \A e \in DOMAIN evaluated : PassesWithEvidence(e)
      /\ state.rev \in 1..MaxRevision /\ 1 \in 1..MaxEvaluations
      /\ MaxEvidence \in Nat /\ MaxEvaluations \in Nat /\ MaxRevision \in Nat /\ MaxContract \in Nat
  BY RecordAssumption DEF RecordInv, RecordTypeOK
<1>1. UNCHANGED <<state, contract, verdicts>>
  BY DEF InitProject, CrashProject, RecordEvidence, Evaluate, VerifyRefused
<1>2. /\ evidence' \in Seq(Evidence) /\ Len(evidence') <= MaxEvidence
      /\ \A n \in DOMAIN evidence' : evidence'[n].rev <= state.rev
      /\ \A n \in DOMAIN evidence : n \in DOMAIN evidence' /\ evidence'[n] = evidence[n]
  <2>1. CASE UNCHANGED evidence
    BY <1>0, <2>1 DEF RecordTypeOK
  <2>2. CASE RecordEvidence
    <3> PICK status \in {"pass", "fail"} :
          Len(evidence) < MaxEvidence /\ evidence' = Append(evidence, [rev |-> state.rev, status |-> status])
      BY <2>2 DEF RecordEvidence
    <3> DEFINE x == [rev |-> state.rev, status |-> status]
    <3>1. x \in Evidence /\ x.rev = state.rev /\ evidence' = Append(evidence, x)
      BY <1>0 DEF Evidence
    <3> HIDE DEF x
    <3> QED
      BY <1>0, <3>1 DEF RecordTypeOK
  <2> QED
    BY <2>1, <2>2 DEF InitProject, CrashProject, Evaluate, VerifyRefused
<1>3. /\ evaluated' \in Seq(Evaluation) /\ Len(evaluated') <= MaxEvaluations
      /\ \A e \in DOMAIN evaluated' : evaluated'[e].rev <= state.rev
      /\ \A e \in DOMAIN evaluated : e \in DOMAIN evaluated' /\ evaluated'[e] = evaluated[e]
      /\ \A e \in DOMAIN evaluated' \ DOMAIN evaluated : UNCHANGED evidence /\ PassesWithEvidence(e)'
  <2>1. CASE UNCHANGED evaluated
    BY <1>0, <2>1 DEF RecordTypeOK
  <2>2. CASE Evaluate
    <3> PICK bound \in [Checks -> SUBSET Current] :
          /\ contract > 0 /\ Len(evaluated) < MaxEvaluations /\ UNCHANGED evidence
          /\ evaluated' = Append(evaluated,
                [rev |-> state.rev, contract |-> contract, status |-> StatusOf(bound), bound |-> bound])
      BY <2>2 DEF Evaluate
    <3> DEFINE x == [rev |-> state.rev, contract |-> contract, status |-> StatusOf(bound), bound |-> bound]
    <3>1. x \in Evaluation
      <4>1. Current \subseteq 1..MaxEvidence
        BY <1>0 DEF Current, RecordTypeOK
      <4>2. bound \in [Checks -> SUBSET (1..MaxEvidence)]
        BY <4>1
      <4>3. StatusOf(bound) \in {"pass", "fail", "incomplete"}
        BY DEF StatusOf
      <4>4. contract \in 1..MaxContract
        BY <1>0 DEF RecordTypeOK
      <4> QED
        BY <1>0, <4>2, <4>3, <4>4 DEF Evaluation
    <3>2. x.rev = state.rev /\ x.bound = bound /\ x.status = StatusOf(bound)
      OBVIOUS
    <3>3. x.status = "pass" => \A c \in Checks : \E n \in x.bound[c] :
              n \in DOMAIN evidence /\ evidence[n].rev = x.rev /\ evidence[n].status = "pass"
      BY <3>2, PassIsBacked
    <3>4. evaluated' = Append(evaluated, x)
      OBVIOUS
    <3> HIDE DEF x
    <3>5. /\ evaluated' \in Seq(Evaluation) /\ Len(evaluated') = Len(evaluated) + 1
          /\ DOMAIN evaluated' = 1..(Len(evaluated) + 1) /\ DOMAIN evaluated = 1..Len(evaluated)
          /\ evaluated'[Len(evaluated) + 1] = x
          /\ \A e \in DOMAIN evaluated : evaluated'[e] = evaluated[e]
      BY <1>0, <3>1, <3>4 DEF RecordTypeOK
    <3>6. \A e \in DOMAIN evaluated' \ DOMAIN evaluated : evaluated'[e] = x
      BY <1>0, <3>5 DEF RecordTypeOK
    <3>7. \A e \in DOMAIN evaluated' \ DOMAIN evaluated : PassesWithEvidence(e)'
      BY <3>3, <3>6 DEF PassesWithEvidence
    <3> QED
      BY <1>0, <3>2, <3>5, <3>6, <3>7 DEF RecordTypeOK
  <2> QED
    BY <2>1, <2>2 DEF InitProject, CrashProject, RecordEvidence, VerifyRefused
<1>4. NothingForgotten
  BY <1>2, <1>3 DEF NothingForgotten
<1>5. \A e \in DOMAIN evaluated' : PassesWithEvidence(e)'
  BY <1>0, <1>3, <1>4, RecordsKept
<1>6. /\ verifying' \in [Verifiers -> [at : {"idle", "checking", "promoting"}, of : 1..MaxEvaluations]]
      /\ recordLock' \in Verifiers \cup {NoVerifier}
      /\ \A v \in Verifiers : verifying'[v].at = "promoting" <=> recordLock' = v
      /\ \A v \in Verifiers : verifying'[v] = verifying[v] \/ verifying'[v].at = "idle"
  <2>1. CASE UNCHANGED <<verifying, recordLock>>
    BY <1>0, <2>1 DEF RecordTypeOK
  <2>2. CASE CrashProject
    BY <1>0, <2>2, RecordAssumption DEF CrashProject, NotVerifying
  <2>3. ASSUME NEW v \in Verifiers, VerifyRefused(v)
        PROVE  /\ verifying' \in [Verifiers -> [at : {"idle", "checking", "promoting"}, of : 1..MaxEvaluations]]
               /\ recordLock' \in Verifiers \cup {NoVerifier}
               /\ \A u \in Verifiers : verifying'[u].at = "promoting" <=> recordLock' = u
               /\ \A u \in Verifiers : verifying'[u] = verifying[u] \/ verifying'[u].at = "idle"
    <3>1. NotVerifying \in [at : {"idle", "checking", "promoting"}, of : 1..MaxEvaluations]
          /\ NotVerifying.at = "idle"
      BY <1>0 DEF NotVerifying
    <3>2. verifying' = [verifying EXCEPT ![v] = NotVerifying] /\ verifying[v].at = "checking" /\ UNCHANGED recordLock
      BY <2>3 DEF VerifyRefused
    <3> QED
      BY <1>0, <3>1, <3>2 DEF RecordTypeOK
  <2> QED
    BY <2>1, <2>2, <2>3 DEF InitProject, RecordEvidence, Evaluate
<1>7. RecordTypeOK'
  <2>1. recordDir' \in {"absent", "partial", "ready"}
    BY <1>0 DEF RecordTypeOK, InitProject, CrashProject, RecordEvidence, Evaluate, VerifyRefused
  <2> QED
    BY <1>0, <1>1, <1>2, <1>3, <1>6, <2>1 DEF RecordTypeOK
<1>8. \A v \in Verifiers : VerificationOK(v)'
  BY <1>1, <1>4, <1>6, VerificationsKept
<1>9. state'.life = "verified" => \E d \in verdicts' : Promotes(d)' /\ d.promoted = state'.rev
  BY <1>1, <1>4, RecordsKept DEF RecordInv
<1> QED
  BY <1>5, <1>7, <1>8, <1>9 DEF RecordInv


LEMMA RevisionsTyped ==
  ASSUME RecordTypeOK
  PROVE  /\ \A n \in DOMAIN evidence : evidence[n].rev \in 1..MaxRevision /\ evidence[n].rev <= state.rev
         /\ \A e \in DOMAIN evaluated : evaluated[e].rev \in 1..MaxRevision /\ evaluated[e].rev <= state.rev
<1>1. \A n \in DOMAIN evidence : evidence[n] \in Evidence /\ evidence[n].rev <= state.rev
  BY DEF RecordTypeOK
<1>2. \A e \in DOMAIN evaluated : evaluated[e] \in Evaluation /\ evaluated[e].rev <= state.rev
  BY DEF RecordTypeOK
<1>3. \A x \in Evidence : x.rev \in 1..MaxRevision
  BY DEF Evidence
<1>4. \A x \in Evaluation : x.rev \in 1..MaxRevision
  BY DEF Evaluation
<1> QED
  BY <1>1, <1>2, <1>3, <1>4

\* A later revision makes what was looked at stale, and reopens a verified state.
LEMMA UpdateKeeps ==
  ASSUME RecordInv, Update \/ SetContract
  PROVE  RecordInv'
<1>0. /\ RecordTypeOK /\ state.rev \in 1..MaxRevision /\ MaxRevision \in Nat /\ MaxContract \in Nat
      /\ \A e \in DOMAIN evaluated : PassesWithEvidence(e) /\ evaluated[e].rev <= state.rev
      /\ \A v \in Verifiers : VerificationOK(v)
  BY RecordAssumption DEF RecordInv, RecordTypeOK
<1>1. /\ UNCHANGED <<recordDir, evidence, evaluated, verdicts, verifying, recordLock>>
      /\ recordLock = NoVerifier /\ state'.life # "verified"
  BY DEF Update, SetContract, Unlocked, Lifecycles, Revisable
<1>2. /\ state' \in [rev : 1..MaxRevision, life : Lifecycles \cup {"verified"}]
      /\ contract' \in 0..MaxContract
      /\ state' = state \/ state'.rev = state.rev + 1
  BY <1>0 DEF Update, SetContract, RecordTypeOK
<1>3. \A r \in 1..MaxRevision : r <= state.rev => r <= state'.rev
  BY <1>0, <1>2
<1>4. RecordTypeOK'
  <2>1. \A n \in DOMAIN evidence : evidence[n].rev \in 1..MaxRevision
    BY <1>0, RevisionsTyped
  <2>2. \A e \in DOMAIN evaluated : evaluated[e].rev \in 1..MaxRevision
    BY <1>0, RevisionsTyped
  <2> QED
    BY <1>0, <1>1, <1>2, <1>3, <2>1, <2>2 DEF RecordTypeOK
<1>5. \A e \in DOMAIN evaluated' : PassesWithEvidence(e)'
  BY <1>0, <1>1 DEF PassesWithEvidence
<1>6. ASSUME NEW v \in Verifiers
      PROVE  VerificationOK(v)'
  <2>1. verifying[v].at # "promoting"
    BY <1>0, <1>1, RecordAssumption DEF RecordTypeOK
  <2>2. verifying[v].at # "idle" =>
           verifying[v].of \in DOMAIN evaluated /\ evaluated[verifying[v].of].status = "pass"
           /\ (evaluated[verifying[v].of].rev = state.rev => state.life = "frozen")
    BY <1>0 DEF VerificationOK
  <2>3. \A e \in DOMAIN evaluated : evaluated[e].rev = state'.rev => state' = state
    BY <1>0, <1>2
  <2> QED
    BY <1>1, <2>1, <2>2, <2>3 DEF VerificationOK
<1> QED
  BY <1>1, <1>4, <1>5, <1>6 DEF RecordInv

LEMMA StartVerifyKeeps ==
  ASSUME RecordInv, NEW v \in Verifiers, StartVerify(v)
  PROVE  RecordInv'
<1>0. RecordTypeOK /\ \A u \in Verifiers : VerificationOK(u)
  BY DEF RecordInv
<1>1. PICK e \in DOMAIN evaluated :
        /\ verifying[v].at = "idle" /\ evaluated[e].status = "pass" /\ state.life = "frozen"
        /\ verifying' = [verifying EXCEPT ![v] = [at |-> "checking", of |-> e]]
        /\ UNCHANGED <<recordDir, state, contract, evidence, evaluated, verdicts, recordLock>>
  BY DEF StartVerify
<1>2. e \in 1..MaxEvaluations
  <2>1. DOMAIN evaluated = 1..Len(evaluated) /\ Len(evaluated) \in Nat /\ Len(evaluated) <= MaxEvaluations
    BY <1>0 DEF RecordTypeOK
  <2>2. MaxEvaluations \in Nat
    BY RecordAssumption
  <2> QED
    BY <2>1, <2>2
<1>3. /\ verifying'[v].at = "checking" /\ verifying'[v].of = e
      /\ \A u \in Verifiers \ {v} : verifying'[u] = verifying[u]
      /\ verifying' \in [Verifiers -> [at : {"idle", "checking", "promoting"}, of : 1..MaxEvaluations]]
  BY <1>0, <1>1, <1>2 DEF RecordTypeOK
<1>4. RecordTypeOK'
  BY <1>0, <1>1, <1>3 DEF RecordTypeOK
<1>5. NothingForgotten
  BY <1>1 DEF NothingForgotten
<1>6. VerificationOK(v)'
  BY <1>1, <1>3 DEF VerificationOK
<1>7. \A u \in Verifiers \ {v} : VerificationOK(u)'
  BY <1>1, <1>3, <1>5, VerificationsKept
<1>8. \A d \in verdicts : Promotes(d) => Promotes(d)'
  BY <1>1, <1>5, RecordsKept
<1>9. \A f \in DOMAIN evaluated' : PassesWithEvidence(f)'
  BY <1>1, <1>5, RecordsKept DEF RecordInv
<1> QED
  BY <1>1, <1>4, <1>6, <1>7, <1>8, <1>9 DEF RecordInv

\* The second look and the verification file are one step under the lock.
LEMMA FinishVerifyKeeps ==
  ASSUME RecordInv, NEW v \in Verifiers, FinishVerify(v)
  PROVE  RecordInv'
<1>0. RecordTypeOK /\ VerificationOK(v) /\ state.rev \in 1..MaxRevision /\ MaxRevision \in Nat
  BY RecordAssumption DEF RecordInv, RecordTypeOK
<1> DEFINE e == verifying[v].of
           verdict(result) == [rev |-> state.rev, contract |-> contract, of |-> e, status |-> result,
                               promoted |-> IF result = "verified" THEN state.rev + 1 ELSE 0]
<1>1. PICK result \in {"failed", "verified", "incomplete"} :
        /\ verifying[v].at = "checking" /\ recordLock = NoVerifier /\ Matches(e)
        /\ result = "verified" => state.rev < MaxRevision
        /\ verdicts' = verdicts \cup {verdict(result)}
        /\ verifying' = [verifying EXCEPT ![v] = IF result = "verified" THEN [at |-> "promoting", of |-> e]
                                                 ELSE NotVerifying]
        /\ recordLock' = IF result = "verified" THEN v ELSE NoVerifier
        /\ UNCHANGED <<recordDir, state, contract, evidence, evaluated>>
  <2>1. \A found : AllOutcomes(found) \in {"failed", "verified", "incomplete"}
    BY DEF AllOutcomes
  <2> QED
    BY <2>1 DEF FinishVerify, Unlocked, StillMatches
<1>2. /\ e \in DOMAIN evaluated /\ evaluated[e].status = "pass" /\ e \in 1..MaxEvaluations
      /\ evaluated[e].rev = state.rev /\ evaluated[e].contract = contract /\ contract \in 1..MaxContract
  <2>1. e \in DOMAIN evaluated /\ evaluated[e].status = "pass"
    BY <1>0, <1>1 DEF VerificationOK
  <2>2. evaluated[e].rev = state.rev /\ evaluated[e].contract = contract
    BY <1>1 DEF Matches
  <2>3. e \in 1..MaxEvaluations
    BY <1>0 DEF RecordTypeOK
  <2>4. evaluated[e] \in Evaluation
    BY <1>0, <2>1 DEF RecordTypeOK
  <2> QED
    BY <2>1, <2>2, <2>3, <2>4 DEF Evaluation
<1>3. verdict(result) \in Verdict
  <2>1. (IF result = "verified" THEN state.rev + 1 ELSE 0) \in 0..MaxRevision
    BY <1>0, <1>1
  <2> QED
    BY <1>0, <1>2, <2>1 DEF Verdict
<1>4. result = "verified" => /\ Promotes(verdict(result))
                             /\ verdict(result).of = e /\ verdict(result).rev = state.rev
  BY <1>2 DEF Promotes
<1>5. PICK d \in Verdict :
        /\ verdicts' = verdicts \cup {d}
        /\ result = "verified" => Promotes(d) /\ d.of = e /\ d.rev = state.rev
  BY <1>1, <1>3, <1>4
<1> HIDE DEF verdict
<1>6. NotVerifying \in [at : {"idle", "checking", "promoting"}, of : 1..MaxEvaluations]
      /\ NotVerifying.at = "idle"
  <2>1. 1 \in 1..MaxEvaluations
    BY RecordAssumption
  <2> QED
    BY <2>1 DEF NotVerifying
<1>7. PICK x \in [at : {"idle", "checking", "promoting"}, of : 1..MaxEvaluations] :
        /\ verifying' = [verifying EXCEPT ![v] = x]
        /\ x.at = IF result = "verified" THEN "promoting" ELSE "idle"
        /\ result = "verified" => x.of = e
  <2>1. CASE result = "verified"
    <3> DEFINE x == [at |-> "promoting", of |-> e]
    <3>1. /\ x \in [at : {"idle", "checking", "promoting"}, of : 1..MaxEvaluations]
          /\ x.at = "promoting" /\ x.of = e
      BY <1>2
    <3>2. verifying' = [verifying EXCEPT ![v] = x]
      BY <1>1, <2>1
    <3> HIDE DEF x, e
    <3> QED
      BY <2>1, <3>1, <3>2
  <2>2. CASE result # "verified"
    <3>1. verifying' = [verifying EXCEPT ![v] = NotVerifying]
      BY <1>1, <2>2
    <3> HIDE DEF e
    <3> QED
      BY <1>6, <2>2, <3>1
  <2> QED
    BY <2>1, <2>2
<1>8. /\ verifying' \in [Verifiers -> [at : {"idle", "checking", "promoting"}, of : 1..MaxEvaluations]]
      /\ verifying'[v] = x /\ \A u \in Verifiers \ {v} : verifying'[u] = verifying[u]
  BY <1>0, <1>7 DEF RecordTypeOK
<1>9. \A u \in Verifiers : verifying[u].at # "promoting"
  BY <1>0, <1>1, RecordAssumption DEF RecordTypeOK
<1>10. RecordTypeOK'
  <2>1. \A u \in Verifiers : verifying'[u].at = "promoting" <=> recordLock' = u
    BY <1>1, <1>7, <1>8, <1>9, RecordAssumption
  <2>2. verdicts' \subseteq Verdict
    BY <1>0, <1>5 DEF RecordTypeOK
  <2>3. recordLock' \in Verifiers \cup {NoVerifier}
    BY <1>1
  <2> QED
    BY <1>0, <1>1, <1>8, <2>1, <2>2, <2>3 DEF RecordTypeOK
<1>11. NothingForgotten
  BY <1>1 DEF NothingForgotten
<1>12. \A c \in verdicts' : Promotes(c) => Promotes(c)'
  BY <1>1 DEF Promotes
<1>13. VerificationOK(v)'
  <2>1. state.life = "frozen"
    BY <1>0, <1>1, <1>2 DEF VerificationOK
  <2>2. CASE result = "verified"
    <3>1. Promotes(d)' /\ d \in verdicts' /\ d.of = e /\ d.rev = state'.rev
      BY <1>1, <1>5, <1>12, <2>2
    <3>2. Matches(e) /\ verifying'[v].at = "promoting" /\ verifying'[v].of = e
      BY <1>1, <1>7, <1>8, <2>2
    <3> HIDE DEF e
    <3> QED
      BY <1>1, <1>2, <2>1, <2>2, <3>1, <3>2 DEF VerificationOK, Matches
  <2>3. CASE result # "verified"
    BY <1>7, <1>8, <2>3 DEF VerificationOK
  <2> QED
    BY <2>2, <2>3
<1>14. \A u \in Verifiers \ {v} : VerificationOK(u)'
  BY <1>1, <1>8, <1>11, VerificationsKept
<1>15. \A f \in DOMAIN evaluated' : PassesWithEvidence(f)'
  BY <1>1, <1>11, RecordsKept DEF RecordInv
<1> QED
  BY <1>1, <1>10, <1>12, <1>13, <1>14, <1>15 DEF RecordInv

\* The holder of the lock has written the file its promotion rests on, and
\* while it holds the lock the state is frozen: what it takes back when it
\* fails is nobody's reason.
LEMMA PromoteKeeps ==
  ASSUME RecordInv, NEW v \in Verifiers, Promote(v) \/ PromoteFails(v)
  PROVE  RecordInv'
<1>0. RecordTypeOK /\ VerificationOK(v) /\ state.rev \in 1..MaxRevision /\ MaxRevision \in Nat
  BY RecordAssumption DEF RecordInv, RecordTypeOK
<1>1. /\ recordLock = v /\ recordLock' = NoVerifier /\ verifying' = [verifying EXCEPT ![v] = NotVerifying]
      /\ UNCHANGED <<recordDir, contract, evidence, evaluated>>
  BY DEF Promote, PromoteFails
<1>2. \A u \in Verifiers : verifying[u].at = "promoting" <=> u = v
  BY <1>0, <1>1 DEF RecordTypeOK
<1>3. /\ state.rev < MaxRevision /\ state.life = "frozen"
      /\ \E d \in verdicts : Promotes(d) /\ d.rev = state.rev
  BY <1>0, <1>2 DEF VerificationOK, Matches
<1>4. NotVerifying \in [at : {"idle", "checking", "promoting"}, of : 1..MaxEvaluations]
      /\ NotVerifying.at = "idle"
  <2>1. 1 \in 1..MaxEvaluations
    BY RecordAssumption
  <2> QED
    BY <2>1 DEF NotVerifying
<1>5. /\ verifying' \in [Verifiers -> [at : {"idle", "checking", "promoting"}, of : 1..MaxEvaluations]]
      /\ verifying'[v].at = "idle" /\ \A u \in Verifiers \ {v} : verifying'[u] = verifying[u]
  BY <1>0, <1>1, <1>4 DEF RecordTypeOK
<1>6. \A u \in Verifiers : verifying'[u].at # "promoting"
  BY <1>2, <1>5
<1>7. verdicts' \subseteq verdicts
  BY DEF Promote, PromoteFails
<1>8. /\ state' = state \/ (state' = [rev |-> state.rev + 1, life |-> "verified"] /\ UNCHANGED verdicts)
      /\ state' \in [rev : 1..MaxRevision, life : Lifecycles \cup {"verified"}]
  <2>1. CASE Promote(v)
    <3>1. state.rev + 1 \in 1..MaxRevision
      BY <1>0, <1>3
    <3> QED
      BY <2>1, <3>1 DEF Promote
  <2>2. CASE PromoteFails(v)
    BY <1>0, <2>2 DEF PromoteFails, RecordTypeOK
  <2> QED
    BY <2>1, <2>2
<1>9. RecordTypeOK'
  <2>1. \A n \in DOMAIN evidence : evidence[n].rev <= state'.rev
    <3>1. \A n \in DOMAIN evidence : evidence[n].rev \in 1..MaxRevision /\ evidence[n].rev <= state.rev
      BY <1>0, RevisionsTyped
    <3>2. state'.rev \in {state.rev, state.rev + 1}
      BY <1>8
    <3> QED
      BY <1>0, <3>1, <3>2
  <2>2. \A f \in DOMAIN evaluated : evaluated[f].rev <= state'.rev
    <3>1. \A f \in DOMAIN evaluated : evaluated[f].rev \in 1..MaxRevision /\ evaluated[f].rev <= state.rev
      BY <1>0, RevisionsTyped
    <3>2. state'.rev \in {state.rev, state.rev + 1}
      BY <1>8
    <3> QED
      BY <1>0, <3>1, <3>2
  <2>3. \A u \in Verifiers : verifying'[u].at = "promoting" <=> recordLock' = u
    BY <1>1, <1>6, RecordAssumption
  <2> QED
    BY <1>0, <1>1, <1>5, <1>7, <1>8, <2>1, <2>2, <2>3 DEF RecordTypeOK
<1>10. NothingForgotten /\ \A d \in verdicts : Promotes(d) => Promotes(d)'
  BY <1>1, RecordsKept DEF NothingForgotten
<1>11. \A f \in DOMAIN evaluated' : PassesWithEvidence(f)'
  BY <1>1, <1>10, RecordsKept DEF RecordInv
<1>12. ASSUME NEW u \in Verifiers
       PROVE  VerificationOK(u)'
  <2>1. CASE u = v
    BY <1>5, <2>1 DEF VerificationOK
  <2>2. CASE u # v
    <3>1. VerificationOK(u) /\ verifying'[u] = verifying[u]
      BY <1>5, <2>2 DEF RecordInv
    <3>2. \A f \in DOMAIN evaluated : evaluated[f].rev = state'.rev => state' = state
      <4>1. \A f \in DOMAIN evaluated : evaluated[f].rev \in Nat /\ evaluated[f].rev <= state.rev
        <5>1. 1..MaxRevision \subseteq Nat
          BY <1>0
        <5> QED
          BY <1>0, <5>1, RevisionsTyped
      <4>2. state' = state \/ state'.rev = state.rev + 1
        BY <1>8
      <4> QED
        BY <1>0, <4>1, <4>2
    <3> QED
      BY <1>1, <1>6, <3>1, <3>2 DEF VerificationOK
  <2> QED
    BY <2>1, <2>2
<1>13. state'.life = "verified" => \E d \in verdicts' : Promotes(d)' /\ d.promoted = state'.rev
  <2> SUFFICES ASSUME state'.life = "verified"
               PROVE  \E d \in verdicts' : Promotes(d)' /\ d.promoted = state'.rev
    OBVIOUS
  <2>1. state'.rev = state.rev + 1 /\ verdicts' = verdicts
    BY <1>3, <1>8
  <2>2. PICK d \in verdicts : Promotes(d) /\ d.rev = state.rev
    BY <1>3
  <2>3. d.promoted = state.rev + 1
    BY <2>2 DEF Promotes
  <2> QED
    BY <1>10, <2>1, <2>2, <2>3
<1> QED
  BY <1>9, <1>11, <1>12, <1>13 DEF RecordInv

LEMMA RecordInvKept == RecordInv /\ [RecordNext]_recordVars => RecordInv'
<1> SUFFICES ASSUME RecordInv, [RecordNext]_recordVars PROVE RecordInv'
  OBVIOUS
<1>1. CASE UNCHANGED recordVars
  BY <1>1 DEF recordVars, RecordInv, RecordTypeOK, PassesWithEvidence, VerificationOK, Promotes, Matches
<1>2. CASE InitProject \/ CrashProject \/ RecordEvidence \/ Evaluate \/ \E v \in Verifiers : VerifyRefused(v)
  BY <1>2, RecordStepKeeps
<1>3. CASE Update \/ SetContract
  BY <1>3, UpdateKeeps
<1>4. ASSUME NEW v \in Verifiers, StartVerify(v) PROVE RecordInv'
  BY <1>4, StartVerifyKeeps
<1>5. ASSUME NEW v \in Verifiers, FinishVerify(v) PROVE RecordInv'
  BY <1>5, FinishVerifyKeeps
<1>6. ASSUME NEW v \in Verifiers, Promote(v) \/ PromoteFails(v) PROVE RecordInv'
  BY <1>6, PromoteKeeps
<1> QED
  BY <1>1, <1>2, <1>3, <1>4, <1>5, <1>6 DEF RecordNext

\* A verified state rests on a verification of the frozen revision before it
\* and on evidence recorded for that revision, and the promotion loses no
\* update made while the tests ran without the lock.
THEOREM PromotionEarned == RecordSpec => PromotionIsEarned
<1>1. RecordInv => VerifiedIsEarned
  <2> SUFFICES ASSUME RecordInv, state.life = "verified" PROVE VerifiedIsEarned
    BY DEF VerifiedIsEarned
  <2>1. PICK d \in verdicts : Promotes(d) /\ d.promoted = state.rev
    BY DEF RecordInv
  <2>2. PassesWithEvidence(d.of)
    BY <2>1 DEF RecordInv, Promotes
  <2> QED
    BY <2>1, <2>2 DEF VerifiedIsEarned, Promotes, PassesWithEvidence
<1>2. RecordInv /\ [RecordNext]_recordVars =>
        [\A v \in Verifiers : verifying[v].at = "checking" /\ verifying'[v].at = "promoting" =>
            state.life = "frozen" /\ evaluated[verifying[v].of].rev = state.rev]_recordVars
  <2> SUFFICES ASSUME RecordInv, RecordNext, NEW v \in Verifiers,
                      verifying[v].at = "checking", verifying'[v].at = "promoting"
               PROVE  state.life = "frozen" /\ evaluated[verifying[v].of].rev = state.rev
    OBVIOUS
  <2>0. verifying \in [Verifiers -> [at : {"idle", "checking", "promoting"}, of : 1..MaxEvaluations]]
        /\ VerificationOK(v)
    BY DEF RecordInv, RecordTypeOK
  <2>1. FinishVerify(v)
    <3>1. NotVerifying.at = "idle"
      BY DEF NotVerifying
    <3>2. CASE InitProject \/ Update \/ RecordEvidence \/ SetContract \/ Evaluate
      BY <3>2 DEF InitProject, Update, RecordEvidence, SetContract, Evaluate
    <3>3. CASE CrashProject
      BY <3>1, <3>3 DEF CrashProject
    <3>4. ASSUME NEW u \in Verifiers, StartVerify(u)
          PROVE  FALSE
      BY <2>0, <3>4 DEF StartVerify
    <3>5. ASSUME NEW u \in Verifiers, Promote(u) \/ PromoteFails(u) \/ VerifyRefused(u)
          PROVE  FALSE
      <4>1. verifying' = [verifying EXCEPT ![u] = NotVerifying]
        BY <3>5 DEF Promote, PromoteFails, VerifyRefused
      <4> QED
        BY <2>0, <3>1, <4>1
    <3>6. ASSUME NEW u \in Verifiers, FinishVerify(u), u # v
          PROVE  FALSE
      <4>1. \E x : verifying' = [verifying EXCEPT ![u] = x]
        BY <3>6 DEF FinishVerify
      <4> QED
        BY <2>0, <3>6, <4>1
    <3> QED
      BY <3>2, <3>3, <3>4, <3>5, <3>6 DEF RecordNext
  <2>2. Matches(verifying[v].of)
    BY <2>1 DEF FinishVerify, StillMatches
  <2> QED
    BY <2>0, <2>2 DEF Matches, VerificationOK
<1> QED
  BY <1>1, <1>2, RecordInvInit, RecordInvKept, PTL DEF RecordSpec, PromotionIsEarned, PromotionKeepsUpdates
=============================================================================
