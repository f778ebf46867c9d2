----------------------------- MODULE ChangeSet -----------------------------
(***************************************************************************)
(* One change of several files (src/project/changeset_manager.py) in steps:*)
(* read and check all, stage the new bytes and a backup of each, check all *)
(* again, replace one after the other, and on an error put back what was   *)
(* replaced.  The workspace lock keeps the other tools of the server out,  *)
(* the single-file edits of src/tooling/local_tools.py among them, but not *)
(* an editor, and the server may die between any two steps.                *)
(***************************************************************************)
EXTENDS Naturals, Sequences

CONSTANTS
    Paths,      \* the files of the change
    MaxOutside  \* bound on edits from outside

ASSUME ChangeSetAssumption == MaxOutside \in Nat

VARIABLES
    target,   \* file -> old, new, outside: whose bytes it has
    stagedFiles,   \* files whose new bytes are in a temporary file
    backup,   \* files whose old bytes are in a temporary file
    applied,  \* replaced files, in order
    restored, \* replaced files that were put back
    left,     \* replaced files still to put back
    seen,     \* file that was just checked, and is replaced next
    changeStep,       \* step of the call
    outcome,  \* what the call answered: none, completed, rolled_back, error
    outside   \* edits from outside so far

changeVars == <<target, stagedFiles, backup, applied, restored, left, seen, changeStep, outcome, outside>>
disk == <<target, stagedFiles, backup>>

Applied == {applied[i] : i \in DOMAIN applied}

ChangeTypeOK ==
    /\ target \in [Paths -> {"old", "new", "outside"}]
    /\ stagedFiles \subseteq Paths /\ backup \subseteq Paths
    /\ applied \in Seq(Paths) /\ \A i, j \in DOMAIN applied : applied[i] = applied[j] => i = j
    /\ restored \subseteq Applied
    /\ seen \subseteq Paths /\ left \in 0..Len(applied)
    /\ changeStep \in {"idle", "reading", "staging", "rechecking", "replacing", "restoring", "cleaning", "dead"}
    /\ outcome \in {"none", "completed", "rolled_back", "error"}
    /\ outside \in 0..MaxOutside
    /\ Applied # {} => changeStep \in {"replacing", "restoring", "cleaning", "idle", "dead"}

ChangeInit ==
    /\ target = [f \in Paths |-> "old"] /\ stagedFiles = {} /\ backup = {} /\ applied = <<>>
    /\ restored = {} /\ left = 0 /\ seen = {} /\ changeStep = "reading" /\ outcome = "none" /\ outside = 0

-----------------------------------------------------------------------------
(* The call *)

Move(from, to) == changeStep = from /\ changeStep' = to

\* preflight: every file has the bytes the caller named.
ReadAll ==
    /\ Move("reading", "staging") /\ \A f \in Paths : target[f] = "old"
    /\ UNCHANGED <<disk, applied, restored, left, seen, outcome, outside>>

\* stage: the new bytes, then the backup.
Stage(f) ==
    /\ changeStep = "staging" /\ f \notin backup
    /\ IF f \in stagedFiles THEN backup' = backup \cup {f} /\ UNCHANGED stagedFiles
       ELSE target[f] = "old" /\ stagedFiles' = stagedFiles \cup {f} /\ UNCHANGED backup
    /\ UNCHANGED <<target, applied, restored, left, seen, changeStep, outcome, outside>>

StageEnds ==
    /\ Move("staging", "rechecking") /\ backup = Paths
    /\ UNCHANGED <<disk, applied, restored, left, seen, outcome, outside>>

\* The last look at the whole set, before the first write.
Recheck ==
    /\ Move("rechecking", "replacing") /\ \A f \in Paths : target[f] = "old"
    /\ UNCHANGED <<disk, applied, restored, left, seen, outcome, outside>>

\* commit: check one file more, in the order of the request.
CheckOne(f) ==
    /\ changeStep = "replacing" /\ f \notin Applied /\ seen = {} /\ target[f] = "old" /\ seen' = {f}
    /\ UNCHANGED <<disk, applied, restored, left, changeStep, outcome, outside>>

\* Mutant: it is recorded after the cached bytecode is removed, unless that
\* fails.
RecordLater(f) == applied' \in {Append(applied, f), applied}

\* The replacement is recorded before anything else may fail.
Record(f) == applied' = Append(applied, f)

\* Whatever an editor wrote after the check is replaced too.
ReplaceOne(f) ==
    /\ changeStep = "replacing" /\ seen = {f} /\ seen' = {}
    /\ target' = [target EXCEPT ![f] = "new"] /\ stagedFiles' = stagedFiles \ {f}
    /\ Record(f)
    /\ changeStep' \in IF applied' = applied THEN {"restoring"} ELSE {"replacing", "restoring"}
    /\ left' = IF changeStep' = "restoring" THEN Len(applied') ELSE 0
    /\ UNCHANGED <<backup, restored, outcome, outside>>

Complete ==
    /\ Move("replacing", "cleaning") /\ Applied = Paths /\ outcome' = "completed"
    /\ UNCHANGED <<disk, applied, restored, left, seen, outside>>

\* A check or a write fails, or the task is cancelled before the commit.
ChangeFails ==
    /\ changeStep \in {"reading", "staging", "rechecking", "replacing"} /\ Applied # Paths
    /\ changeStep' = "restoring" /\ seen' = {} /\ left' = Len(applied)
    /\ UNCHANGED <<disk, applied, restored, outcome, outside>>

-----------------------------------------------------------------------------
(* The way back, in reverse order *)

\* An edit from outside since then is not overwritten ...
CheckRestore ==
    /\ changeStep = "restoring" /\ left > 0 /\ seen = {}
    /\ target[applied[left]] = "new" /\ seen' = {applied[left]}
    /\ UNCHANGED <<disk, applied, restored, left, changeStep, outcome, outside>>

\* ... unless it comes after the check.
RestoreOne ==
    /\ changeStep = "restoring" /\ seen # {} /\ seen' = {} /\ left' = left - 1
    /\ target' = [f \in Paths |-> IF f \in seen THEN "old" ELSE target[f]]
    /\ backup' = backup \ seen /\ restored' = restored \cup seen
    /\ UNCHANGED <<stagedFiles, applied, changeStep, outcome, outside>>

\* The check or the replacement fails; the next file is tried.
RestoreFails ==
    /\ changeStep = "restoring" /\ left > 0 /\ seen' = {} /\ left' = left - 1
    /\ UNCHANGED <<disk, applied, restored, changeStep, outcome, outside>>

RestoreEnds ==
    /\ left = 0 /\ Move("restoring", "cleaning")
    /\ outcome' = IF Applied # {} /\ restored = Applied THEN "rolled_back" ELSE "error"
    /\ UNCHANGED <<disk, applied, restored, left, seen, outside>>

\* Backups that stay: those of files left with our bytes or somebody's.
Kept == IF outcome = "completed" THEN {} ELSE Applied \ restored

CleanUp ==
    /\ Move("cleaning", "idle") /\ stagedFiles' = {} /\ backup' = backup \cap Kept
    /\ UNCHANGED <<target, applied, restored, left, seen, outcome, outside>>

-----------------------------------------------------------------------------

OutsideEdit(f) ==
    /\ outside < MaxOutside /\ outside' = outside + 1
    /\ target' = [target EXCEPT ![f] = "outside"]
    /\ UNCHANGED <<stagedFiles, backup, applied, restored, left, seen, changeStep, outcome>>

ServerDies ==
    /\ changeStep \notin {"idle", "dead"} /\ changeStep' = "dead" /\ seen' = {}
    /\ UNCHANGED <<disk, applied, restored, left, outcome, outside>>

ChangeNext ==
    \/ ReadAll \/ StageEnds \/ Recheck \/ Complete \/ ChangeFails \/ CheckRestore \/ RestoreOne
    \/ RestoreFails \/ RestoreEnds \/ CleanUp \/ ServerDies
    \/ \E f \in Paths : Stage(f) \/ CheckOne(f) \/ ReplaceOne(f) \/ OutsideEdit(f)

ChangeSpec == ChangeInit /\ [][ChangeNext]_changeVars

-----------------------------------------------------------------------------
(* Properties *)

\* Until the whole change is in place, the bytes of every replaced file are
\* in a backup next to it: after a failed rollback, after a dead server.
OriginalsKept ==
    \A f \in Paths : target[f] = "new" /\ outcome # "completed" =>
        f \in backup

\* A call that ended in an error left none of its bytes, unless it says so.
ErrorsAreClean ==
    changeStep \in {"cleaning", "idle"} /\ outcome \in {"rolled_back", "error"} =>
        \A f \in Paths : target[f] = "new" => outcome = "error" /\ f \in Applied \ restored

\* A change that fails, at whatever file of it or of its rollback, leaves the
\* old bytes or a backup of them, and says which.
ChangeIsUndoable == OriginalsKept /\ ErrorsAreClean
=============================================================================
