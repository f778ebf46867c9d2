--------------------------- MODULE ProviderInstall ---------------------------
(***************************************************************************)
(* Installing, upgrading and uninstalling one repository provider:         *)
(* ProviderLifecycleManager (src/provider/provider_lifecycle.py), run by a *)
(* reviewed job (src/desktop_runtime/repository_jobs.py) in a process of   *)
(* its own while the installer lock is held, so one at a time.             *)
(*                                                                         *)
(* Every replace, move or removal on disk is a step; after any of them the *)
(* job may fail, and then undoes what it did, or die, and then does not.   *)
(* The job looks at the hashes of what it is about to replace, move or     *)
(* remove, and does so in later steps.  The user edits the manifest        *)
(* (configure_manifest) and the assets at any time: `late' holds the files *)
(* edited since the job under way looked at them.                          *)
(***************************************************************************)
EXTENDS Naturals, FiniteSets

CONSTANTS
    PackageVersions,   \* versions the repository offers
    NoVersion          \* nothing installed, no manifest, no job

ASSUME PackageAssumption == NoVersion \notin PackageVersions

VARIABLES
    record,     \* provider_states.json: the version installed
    owned,      \* and every version its record owns
    manifest,   \* version the manifest file runs, NoVersion without a file
    pristine,   \* the manifest is as the installation wrote it
    assets,     \* version -> its asset files
    environment,\* versions whose environment directory exists
    trash,      \* what the job has moved to its .repository-trash directory
    plans,      \* reviewed plans
    job,        \* the job under way
    torn,       \* a job died, or could not undo, and nothing repaired that
    late        \* files edited during the job, after its last look

installVars == <<record, owned, manifest, pristine, assets, environment, trash,
                 plans, job, torn, late>>
diskVars == <<manifest, pristine, assets, environment, trash>>

NoJob == [pc |-> "none", version |-> NoVersion, old |-> NoVersion]
JobKinds == {"manifest", "assets", "environment"}
Snapshot == [version |-> record, owned |-> owned]

InstallTypeOK ==
    /\ record \in PackageVersions \cup {NoVersion} /\ owned \subseteq PackageVersions
    /\ record # NoVersion <=> record \in owned
    /\ manifest \in PackageVersions \cup {NoVersion} /\ pristine \in BOOLEAN
    /\ assets \in [PackageVersions -> {"none", "partial", "whole", "edited"}]
    /\ environment \subseteq PackageVersions
    /\ trash \subseteq JobKinds \X PackageVersions
    /\ plans \subseteq [operation : {"install", "upgrade", "uninstall"},
                        version : PackageVersions \cup {NoVersion},
                        seen : [version : PackageVersions \cup {NoVersion},
                                owned : SUBSET PackageVersions]]
    /\ job \in [pc : {"none", "dependencies", "assets", "manifest", "write", "commit",
                      "undo_manifest", "put_back", "undo_assets", "unlink_assets",
                      "undo_environment", "move", "commit_removal", "unmove", "clean"},
                version : PackageVersions \cup {NoVersion},
                old : PackageVersions \cup {NoVersion}]
    /\ torn \in BOOLEAN
    /\ late \subseteq {"manifest", "assets"} \X PackageVersions

InstallInit ==
    /\ record = NoVersion /\ owned = {} /\ manifest = NoVersion /\ pristine = TRUE
    /\ assets = [v \in PackageVersions |-> "none"]
    /\ environment = {} /\ trash = {} /\ plans = {} /\ job = NoJob /\ torn = FALSE
    /\ late = {}

-----------------------------------------------------------------------------
(* Review, and the start of a job *)

\* _verify_record: the manifest and the assets of every owned version.
Verified == /\ manifest = record /\ pristine
            /\ \A v \in owned : assets[v] = "whole"

Vacant(v) == assets[v] = "none" /\ v \notin environment

Allowed(operation, v) ==
    IF operation = "install" THEN record = NoVersion /\ manifest = NoVersion /\ Vacant(v)
    ELSE /\ record # NoVersion /\ Verified
         /\ operation = "upgrade" => record # v /\ Vacant(v)

PlanOf(operation, v) ==
    [operation |-> operation, seen |-> Snapshot,
     version |-> IF operation = "uninstall" THEN NoVersion ELSE v]

\* prepare; no lock is needed to look.  One plan at a time is enough.
PrepareJob(operation, v) ==
    /\ Allowed(operation, v) /\ plans = {}
    /\ plans' = {PlanOf(operation, v)}
    /\ UNCHANGED <<record, owned, diskVars, job, torn, late>>

\* load: the plan is as it was reviewed and so is what it was reviewed against.
StillReviewed(plan) == plan.seen = Snapshot

StartJob(plan) ==
    /\ job = NoJob /\ plan \in plans /\ StillReviewed(plan)
    /\ \E v \in PackageVersions :
          /\ plan.operation # "uninstall" => v = plan.version
          /\ plan.operation = "uninstall" => v = record
          /\ Allowed(plan.operation, v)
          /\ job' = [pc |-> IF plan.operation = "uninstall" THEN "move" ELSE "dependencies",
                     version |-> v, old |-> record]
    /\ UNCHANGED <<record, owned, diskVars, plans, torn, late>>

DropPlan(plan) ==
    /\ plan \in plans /\ plans' = plans \ {plan}
    /\ UNCHANGED <<record, owned, diskVars, job, torn, late>>

Goto(pc) == job' = [job EXCEPT !.pc = pc] /\ UNCHANGED late
FinishJob == job' = NoJob /\ late' = {}

\* The hashes are compared in this step; the files are touched in the next.
LookThen(pc) == job' = [job EXCEPT !.pc = pc] /\ late' = {}

-----------------------------------------------------------------------------
(* _install *)

InstallDependencies ==
    /\ job.pc = "dependencies"
    /\ environment' = environment \cup {job.version} /\ Goto("assets")
    /\ UNCHANGED <<record, owned, manifest, pristine, assets, trash, plans, torn>>

\* Two writes stand for the files of a version; an edited one stays edited.
WriteAssets ==
    /\ job.pc = "assets"
    /\ assets' = [assets EXCEPT ![job.version] =
                     IF @ = "none" THEN "partial" ELSE IF @ = "edited" THEN @ ELSE "whole"]
    /\ Goto(IF assets[job.version] = "none" THEN "assets" ELSE "manifest")
    /\ UNCHANGED <<record, owned, manifest, pristine, environment, trash, plans, torn>>

\* The old record is verified again, or there must still be no manifest.
LookAgain ==
    /\ job.pc = "manifest" /\ LookThen("write")
    /\ IF job.old = NoVersion THEN manifest = NoVersion ELSE Verified
    /\ UNCHANGED <<record, owned, diskVars, plans, torn>>

\* Mutant: the manifest is replaced before the assets are there.
WriteManifestEarly ==
    /\ job.pc \in {"assets", "write"} /\ manifest # job.version
    /\ manifest' = job.version /\ pristine' = TRUE
    /\ Goto(IF job.pc = "assets" THEN "assets" ELSE "commit")
    /\ UNCHANGED <<record, owned, assets, environment, trash, plans, torn>>

WriteManifest ==
    /\ job.pc = "write"
    /\ manifest' = job.version /\ pristine' = TRUE /\ Goto("commit")
    /\ UNCHANGED <<record, owned, assets, environment, trash, plans, torn>>

CommitInstall ==
    /\ job.pc = "commit"
    /\ record' = job.version /\ owned' = owned \cup {job.version} /\ FinishJob
    /\ UNCHANGED <<diskVars, plans, torn>>

FailInstall ==
    /\ job.pc \in {"dependencies", "assets", "manifest", "write", "commit"}
    /\ Goto("undo_manifest")
    /\ UNCHANGED <<record, owned, diskVars, plans, torn>>

\* The manifest is put back if it is the one this job wrote.
UndoManifest ==
    /\ \/ /\ job.pc = "undo_manifest"
          /\ IF manifest = job.version /\ pristine THEN LookThen("put_back") ELSE Goto("undo_assets")
          /\ UNCHANGED <<manifest, pristine>>
       \/ /\ job.pc = "put_back" /\ Goto("undo_assets")
          /\ manifest' = job.old /\ pristine' = TRUE
    /\ UNCHANGED <<record, owned, assets, environment, trash, plans, torn>>

\* The files that are as they were written are removed; an edited one stays.
UndoAssets ==
    /\ \/ /\ job.pc = "undo_assets"
          /\ IF assets[job.version] = "edited" THEN Goto("undo_environment") ELSE LookThen("unlink_assets")
          /\ UNCHANGED assets
       \/ /\ job.pc = "unlink_assets" /\ Goto("undo_environment")
          /\ assets' = [assets EXCEPT ![job.version] = "none"]
    /\ UNCHANGED <<record, owned, manifest, pristine, environment, trash, plans, torn>>

UndoEnvironment ==
    /\ job.pc = "undo_environment" /\ FinishJob
    /\ environment' = environment \ {job.version}
    /\ UNCHANGED <<record, owned, manifest, pristine, assets, trash, plans, torn>>

-----------------------------------------------------------------------------
(* uninstall_provider *)

InPlace(item) ==
    \/ item[1] = "manifest" /\ manifest = item[2]
    \/ item[1] = "assets" /\ assets[item[2]] # "none"
    \/ item[1] = "environment" /\ item[2] \in environment

Targets == ({"manifest"} \X {job.old}) \cup ({"assets", "environment"} \X owned)
Remaining == {item \in Targets : InPlace(item)}

Put(item, there) ==
    /\ manifest' = IF item[1] # "manifest" THEN manifest ELSE IF there THEN item[2] ELSE NoVersion
    /\ assets' = IF item[1] # "assets" THEN assets
                 ELSE [assets EXCEPT ![item[2]] =
                          IF ~there THEN "none" ELSE IF item \in late THEN "edited" ELSE "whole"]
    /\ environment' = IF item[1] # "environment" THEN environment
                      ELSE IF there THEN environment \cup {item[2]} ELSE environment \ {item[2]}

\* The manifest goes first, and comes back last.  Nothing is looked at again.
MoveToTrash(item) ==
    /\ job.pc = "move" /\ item \in Remaining
    /\ manifest = job.old => item[1] = "manifest"
    /\ Put(item, FALSE) /\ trash' = trash \cup {item}
    /\ Goto(IF Remaining = {item} THEN "commit_removal" ELSE "move")
    /\ UNCHANGED <<record, owned, pristine, plans, torn>>

FailUninstall ==
    /\ job.pc \in {"move", "commit_removal"} /\ Goto("unmove")
    /\ UNCHANGED <<record, owned, diskVars, plans, torn>>

MoveBack(item) ==
    /\ job.pc = "unmove" /\ item \in trash
    /\ item[1] = "manifest" => trash = {item}
    /\ Put(item, TRUE) /\ trash' = trash \ {item}
    /\ IF trash = {item} THEN FinishJob ELSE UNCHANGED <<job, late>>
    /\ UNCHANGED <<record, owned, pristine, plans, torn>>

NothingMoved ==
    /\ job.pc = "unmove" /\ trash = {} /\ FinishJob
    /\ UNCHANGED <<record, owned, diskVars, plans, torn>>

CommitRemoval ==
    /\ job.pc = "commit_removal"
    /\ record' = NoVersion /\ owned' = {} /\ pristine' = TRUE /\ Goto("clean")
    /\ UNCHANGED <<manifest, assets, environment, trash, plans, torn>>

\* A cleanup that does not succeed leaves files nothing refers to.
CleanTrash ==
    /\ job.pc = "clean" /\ FinishJob
    /\ trash' = {}
    /\ UNCHANGED <<record, owned, manifest, pristine, assets, environment, plans, torn>>

-----------------------------------------------------------------------------
(* What else happens *)

\* The process dies, or an undo raises: the rest of it does not happen.
JobDies ==
    /\ job # NoJob /\ FinishJob /\ torn' = TRUE
    /\ trash' = IF job.pc = "clean" THEN {} ELSE trash
    /\ UNCHANGED <<record, owned, manifest, pristine, assets, environment, plans>>

Edited(file) == late' = IF job = NoJob THEN late ELSE late \cup {file}

ConfigureManifest ==
    /\ manifest # NoVersion /\ pristine' = FALSE /\ Edited(<<"manifest", manifest>>)
    /\ UNCHANGED <<record, owned, manifest, assets, environment, trash, plans, job, torn>>

EditAssets(v) ==
    /\ assets[v] \in {"partial", "whole"} /\ assets' = [assets EXCEPT ![v] = "edited"]
    /\ Edited(<<"assets", v>>)
    /\ UNCHANGED <<record, owned, manifest, pristine, environment, trash, plans, job, torn>>

InstallStep == InstallDependencies \/ WriteAssets \/ LookAgain \/ WriteManifest \/ CommitInstall
               \/ FailInstall \/ UndoManifest \/ UndoAssets \/ UndoEnvironment
UninstallStep == \/ \E item \in JobKinds \X PackageVersions : MoveToTrash(item) \/ MoveBack(item)
                 \/ FailUninstall \/ NothingMoved \/ CommitRemoval \/ CleanTrash

InstallNext ==
    \/ \E operation \in {"install", "upgrade", "uninstall"}, v \in PackageVersions :
          PrepareJob(operation, v)
    \/ \E plan \in plans : StartJob(plan) \/ DropPlan(plan)
    \/ InstallStep \/ UninstallStep
    \/ JobDies \/ ConfigureManifest \/ \E v \in PackageVersions : EditAssets(v)

InstallSpec == InstallInit /\ [][InstallNext]_installVars

-----------------------------------------------------------------------------
(* Properties *)

\* A manifest the user has not touched never names missing files, wherever an
\* installation, upgrade or removal fails or dies: a provider that can be
\* enabled can be started.
ManifestIsRunnable ==
    manifest # NoVersion /\ pristine => assets[manifest] \in {"whole", "edited"} /\ manifest \in environment

\* Whatever fails, and wherever, between two jobs the record says exactly what
\* is on disk, as long as every job lived to undo its work and the user left
\* the manifest alone; of an installation that was undone there is at most what
\* the user changed of it.
RecordMatchesDisk ==
    job = NoJob /\ ~torn /\ pristine =>
        /\ manifest = record
        /\ \A v \in PackageVersions :
              IF v \in owned THEN assets[v] \in {"whole", "edited"} /\ v \in environment
                             ELSE assets[v] \in {"none", "edited"} /\ v \notin environment

\* Even a job that dies loses nothing of a recorded version: each of its files
\* is in place or in a trash directory.
NothingIsLost ==
    \A v \in owned, kind \in {"assets", "environment"} :
        InPlace(<<kind, v>>) \/ <<kind, v>> \in trash

\* A file the user changed stays as it is, unless the change came after the
\* job under way had looked at the file: such a change is replaced, moved to
\* the trash or removed with the file.
EditedIsKept ==
    [][/\ \A v \in PackageVersions :
             assets[v] = "edited" => assets'[v] = "edited" \/ <<"assets", v>> \in late
       /\ manifest # NoVersion /\ ~pristine =>
             (manifest' = manifest /\ ~pristine') \/ <<"manifest", manifest>> \in late]_installVars

\* However a job ends, by itself, by a failure, by its undo or by a death, the
\* disk holds a whole version, and what the user changed before the job looked
\* is kept.
InstallationIsWhole ==
    [](ManifestIsRunnable /\ RecordMatchesDisk /\ NothingIsLost) /\ EditedIsKept
=============================================================================
