--------------------------- MODULE GitRepository ---------------------------
(***************************************************************************)
(* The controlled Git operations (src/tooling/local_tools.py): stage,      *)
(* remove and refresh build a candidate index under index.lock and rename  *)
(* it over the index; commit, tag and push work on what they find there.   *)
(* One call runs at a time; the user edits, stages and commits in between. *)
(* Bytes are numbered, 0 is no file; an edit may bring earlier ones back.  *)
(* A call reads a file three times, in steps of their own: it compares the *)
(* hash, has git write the bytes to a blob, and compares the hash again.   *)
(***************************************************************************)
EXTENDS Naturals, Sequences

CONSTANTS
    Files,
    MaxEdits,    \* bound on edits of the user
    MaxCommits   \* bound on commits

ASSUME GitAssumption == MaxEdits \in Nat \ {0} /\ MaxCommits \in Nat \ {0}

VARIABLES
    worktree,  \* file -> its bytes
    index,     \* file -> staged bytes
    commits,   \* commits: tree, parent and the paths that were asked for
    head,      \* commit of the current branch
    tag,       \* commit of the release tag, 0 when there is none
    remote,    \* commit of the branch in the remote
    indexLock,      \* index.lock: none, of the tool, of the user, or stale
    adding,    \* files the git of the user is staging, none when it is not
    edits,     \* edits made
    gitCall,      \* the call that runs
    touched    \* files of the call edited since it first read them, and when

gitVars == <<worktree, index, commits, head, tag, remote, indexLock, adding, edits, gitCall, touched>>
repository == <<worktree, index, commits, head, tag, remote, indexLock, adding, edits, touched>>
refs == <<commits, head, tag, remote>>
user == <<worktree, adding, edits, touched>>

Bytes == 0..MaxEdits
Contents == [Files -> Bytes]
IndexOps == {"stage", "remove", "refresh"}
NoGitCall == [op |-> "none", at |-> "idle", paths |-> {}, head |-> 0,
           want |-> [f \in Files |-> 0], new |-> [f \in Files |-> 0]]

Tree(c) == commits[c].tree
Differ(a, b) == {f \in Files : a[f] # b[f]}
Clean == index = Tree(head)

GitTypeOK ==
    /\ worktree \in Contents /\ index \in Contents
    /\ commits \in Seq([tree : Contents, parent : 0..MaxCommits, paths : SUBSET Files])
    /\ Len(commits) <= MaxCommits
    /\ head \in DOMAIN commits /\ tag \in 0..Len(commits) /\ remote \in DOMAIN commits
    /\ indexLock \in {"none", "tool", "user", "stale"} /\ adding \subseteq Files /\ edits \in Bytes
    /\ gitCall \in [op : IndexOps \cup {"none", "commit", "tag", "push"},
                 at : {"idle", "begun", "locked", "prepared", "built", "installed", "checked", "treed"},
                 paths : SUBSET Files, head : 0..MaxCommits, want : Contents, new : Contents]
    /\ touched \subseteq Files \X {"prepared", "built"}
    /\ indexLock = "tool" <=> gitCall.at \in {"locked", "prepared", "built"}

GitInit ==
    /\ worktree = [f \in Files |-> 1] /\ index = worktree /\ edits = 1
    /\ commits = <<[tree |-> worktree, parent |-> 0, paths |-> {}]>>
    /\ head = 1 /\ tag = 0 /\ remote = 1 /\ indexLock = "none" /\ adding = {} /\ gitCall = NoGitCall
    /\ touched = {}

At(from, to) == gitCall.at = from /\ gitCall' = [gitCall EXCEPT !.at = to]

\* A refresh changes no content: nothing staged, no edit in these files.
Refreshable(paths) == Clean /\ \A f \in paths : worktree[f] = index[f]

\* The caller names the head and the bytes it has seen.
BeginGit ==
    \E op \in IndexOps \cup {"commit", "tag", "push"}, paths \in SUBSET Files :
        /\ gitCall = NoGitCall /\ (op \in {"tag", "push"} <=> paths = {})
        /\ op = "refresh" => Refreshable(paths)
        /\ gitCall' = [op |-> op, at |-> "begun", paths |-> paths, head |-> head,
                    want |-> worktree, new |-> index]
        /\ UNCHANGED repository

-----------------------------------------------------------------------------
(* git_stage, git_remove, git_refresh_index *)

LockIndex ==
    /\ gitCall.op \in IndexOps /\ At("begun", "locked")
    /\ indexLock = "none" /\ indexLock' = "tool"
    /\ UNCHANGED <<user, refs, index>>

\* HEAD as expected, nothing staged yet, the files as the caller saw them.
Prepare ==
    /\ At("locked", "prepared") /\ head = gitCall.head /\ Clean /\ touched' = {}
    /\ \A f \in gitCall.paths :
          /\ gitCall.op = "remove" => worktree[f] = 0 /\ index[f] # 0
          /\ gitCall.op # "remove" => worktree[f] # 0 /\ worktree[f] = gitCall.want[f]
    /\ UNCHANGED <<worktree, adding, edits, refs, index, indexLock>>

\* The candidate of a refresh must be the tree there was.
SameTree(new) == new = gitCall.new

\* git reads the files again into the candidate, which must differ from HEAD in
\* these paths.
Build ==
    LET new == [f \in Files |-> IF f \in gitCall.paths THEN worktree[f] ELSE index[f]] IN
    /\ gitCall.at = "prepared"
    /\ gitCall.op = "refresh" => SameTree(new)
    /\ gitCall.op # "refresh" => Differ(new, Tree(gitCall.head)) = gitCall.paths
    /\ \A f \in gitCall.paths : new[f] = 0 <=> gitCall.op = "remove"
    /\ gitCall' = [gitCall EXCEPT !.at = "built", !.new = new]
    /\ UNCHANGED repository

\* Mutant: the files are not looked at again.
UnchangedHead == head = gitCall.head /\ Clean

\* A last look before the index is replaced: at the files, not at the blobs.
Unchanged ==
    /\ head = gitCall.head /\ Clean
    /\ gitCall.op # "remove" => \A f \in gitCall.paths : worktree[f] = gitCall.want[f]

\* The rename of index.lock over the index gives the lock back.
Install ==
    /\ At("built", "installed") /\ Unchanged
    /\ index' = gitCall.new /\ indexLock' = "none"
    /\ UNCHANGED <<user, refs>>

\* The end removes any index.lock it finds, of whomever.
FinishIndex ==
    /\ gitCall.at = "installed" /\ gitCall' = NoGitCall /\ indexLock' = "none"
    /\ UNCHANGED <<user, refs, index>>

-----------------------------------------------------------------------------
(* git_commit, git_tag, git_push *)

\* What is staged is what was named, and the worktree has the same bytes.
CheckStaged ==
    /\ gitCall.op = "commit" /\ At("begun", "checked") /\ head = gitCall.head
    /\ Differ(index, Tree(head)) = gitCall.paths
    /\ \A f \in gitCall.paths : worktree[f] = index[f]
    /\ UNCHANGED repository

ExactTree(paths) == Differ(index, Tree(gitCall.head)) = paths

\* write-tree takes the index of now; its paths are compared once more.
WriteTree ==
    /\ gitCall.op = "commit" /\ gitCall.at = "checked" /\ ExactTree(gitCall.paths)
    /\ gitCall' = [gitCall EXCEPT !.at = "treed", !.new = index]
    /\ UNCHANGED repository

NewCommit(tree, parent, paths) ==
    /\ Len(commits) < MaxCommits
    /\ commits' = Append(commits, [tree |-> tree, parent |-> parent, paths |-> paths])
    /\ head' = Len(commits) + 1

\* update-ref with the old value.
HeadIs(c) == head = c

UpdateRef ==
    /\ gitCall.at = "treed" /\ HeadIs(gitCall.head)
    /\ NewCommit(gitCall.new, gitCall.head, gitCall.paths) /\ gitCall' = NoGitCall
    /\ UNCHANGED <<user, index, tag, remote, indexLock>>

\* The release preflight; the tags of a push must be at the head.
Preflight ==
    /\ gitCall.op \in {"tag", "push"} /\ At("begun", "checked")
    /\ head = gitCall.head /\ Clean /\ worktree = index
    /\ UNCHANGED repository

CreateTag ==
    /\ gitCall.op = "tag" /\ gitCall.at = "checked" /\ tag = 0
    /\ tag' = gitCall.head /\ gitCall' = NoGitCall
    /\ UNCHANGED <<user, index, commits, head, remote, indexLock>>

\* The refspec names the branch: what it points to now is pushed, and only
\* the answer tells whether it was the expected head.
Push ==
    /\ gitCall.op = "push" /\ gitCall.at = "checked"
    /\ remote' = head /\ gitCall' = NoGitCall
    /\ UNCHANGED <<user, index, commits, head, tag, indexLock>>

\* Mutant: index.lock is not unlinked when the call fails.
CallFailsKeepsLock ==
    /\ gitCall.at # "idle" /\ gitCall' = NoGitCall
    /\ UNCHANGED <<user, refs, index, indexLock>>

\* A check fails, or a git command: the end of the call is the same.
CallFails ==
    /\ gitCall.at # "idle" /\ gitCall' = NoGitCall
    /\ indexLock' = IF gitCall.at \in {"locked", "prepared", "built", "installed"} THEN "none" ELSE indexLock
    /\ UNCHANGED <<user, refs, index>>

\* The server dies: index.lock stays until the user removes it.
CallDies ==
    /\ gitCall.at # "idle" /\ gitCall' = NoGitCall
    /\ indexLock' = IF indexLock = "tool" THEN "stale" ELSE indexLock
    /\ UNCHANGED <<user, refs, index>>

-----------------------------------------------------------------------------
(* The user *)

\* New bytes, earlier ones, or none.
Edit(f) ==
    /\ edits < MaxEdits /\ edits' = edits + 1
    /\ \E b \in 0..(edits + 1) : b # worktree[f] /\ worktree' = [worktree EXCEPT ![f] = b]
    /\ touched' = IF f \in gitCall.paths /\ gitCall.at \in {"prepared", "built"}
                  THEN touched \cup {<<f, gitCall.at>>} ELSE touched
    /\ UNCHANGED <<index, refs, indexLock, adding, gitCall>>

UserAdds(f) ==
    /\ indexLock = "none" /\ adding = {} /\ indexLock' = "user" /\ adding' = {f}
    /\ UNCHANGED <<worktree, index, refs, edits, gitCall, touched>>

\* The rename of the user fails when the lock file is gone.
UserInstalls ==
    /\ adding # {} /\ adding' = {}
    /\ index' = IF indexLock = "user" THEN [f \in Files |-> IF f \in adding THEN worktree[f] ELSE index[f]] ELSE index
    /\ indexLock' = IF indexLock = "user" THEN "none" ELSE indexLock
    /\ UNCHANGED <<worktree, refs, edits, gitCall, touched>>

UserCommits ==
    /\ indexLock = "none" /\ ~Clean /\ NewCommit(index, head, Differ(index, Tree(head)))
    /\ UNCHANGED <<worktree, index, tag, remote, indexLock, adding, edits, gitCall, touched>>

RemoveStaleLock ==
    /\ indexLock = "stale" /\ indexLock' = "none"
    /\ UNCHANGED <<user, refs, index, gitCall>>

GitNext ==
    \/ BeginGit \/ LockIndex \/ Prepare \/ Build \/ Install \/ FinishIndex
    \/ CheckStaged \/ WriteTree \/ UpdateRef \/ Preflight \/ CreateTag \/ Push
    \/ CallFails \/ CallDies \/ UserInstalls \/ UserCommits \/ RemoveStaleLock
    \/ \E f \in Files : Edit(f) \/ UserAdds(f)

GitSpec == GitInit /\ [][GitNext]_gitVars

-----------------------------------------------------------------------------
(* Properties *)

\* A commit changes exactly the paths the caller named, whatever was staged
\* while it was made.
CommitsOnlyPaths ==
    \A c \in 2..Len(commits) : Differ(Tree(c), Tree(commits[c].parent)) = commits[c].paths

\* No commit drops another: each one is made on the one before it, the
\* user's commit during a call included.
NoCommitLost == \A c \in 2..Len(commits) : commits[c].parent = c - 1

\* What a call puts into the index are the bytes its caller named.  The last
\* look is at the file, so there is one exception: a file changed between the
\* first look and the writing of its blob, and changed back after it.
StagedIsExpected ==
    [][gitCall.at = "built" /\ gitCall'.at = "installed" /\ gitCall.op # "remove" =>
          \A f \in gitCall.paths :
             index'[f] = gitCall.want[f] \/ {f} \X {"prepared", "built"} \subseteq touched]_gitVars

\* A call commits the paths it was asked for and drops no commit, whatever the
\* user does beside it; and no single edit makes it stage other bytes than named.
GitIsExact == [](CommitsOnlyPaths /\ NoCommitLost) /\ StagedIsExpected
=============================================================================
