---------------------------- MODULE ArtifactStore ----------------------------
(***************************************************************************)
(* The artifact store (src/artifacts/artifact_bridge.py) and the           *)
(* invocations that stage artifacts for a provider and import what it      *)
(* wrote (ArtifactInvocation, src/artifacts/artifact_runtime.py).          *)
(*                                                                         *)
(* An artifact is a directory: reserved while it has no metadata, exported *)
(* once it has, and linked when the metadata names the parents as well.    *)
(* Artifacts expire when time passes; invocations run for so long that     *)
(* their inputs may.  The calls below run on the event loop, one at a time *)
(* up to a crash; `importing' is the import under way.  A call that made   *)
(* outputs is not used again.                                              *)
(***************************************************************************)
EXTENDS Naturals, FiniteSets

CONSTANTS
    ArtifactIds,
    ArtifactCalls,    \* ArtifactInvocations
    NoImport,         \* no import is under way
    MaxOutputCount    \* the policy's max_output_artifacts

ASSUME ArtifactAssumption ==
    MaxOutputCount \in Nat /\ NoImport \notin ArtifactIds /\ IsFiniteSet(ArtifactIds)

VARIABLES
    dir,          \* id -> "free", "reserved", "exported", "removed"
    parentsOf,    \* id -> parents its metadata records
    expired,      \* ids whose expires_at has passed
    revoked,      \* ids a caller revoked
    stagedInputs,       \* call -> artifacts staged as its inputs
    outputs,      \* call -> artifacts imported as its outputs
    open,         \* calls whose invocation directory exists
    importing,    \* artifact import_internal_artifact has exported, not linked
    collecting    \* artifacts artifact_gc has still to remove

artifactVars == <<dir, parentsOf, expired, revoked, stagedInputs, outputs, open,
                  importing, collecting>>

Present == {a \in ArtifactIds : dir[a] = "exported"}   \* with valid metadata
Live == Present \ expired
LoopFree == importing = NoImport /\ collecting = {}

ArtifactTypeOK ==
    /\ dir \in [ArtifactIds -> {"free", "reserved", "exported", "removed"}]
    /\ parentsOf \in [ArtifactIds -> SUBSET ArtifactIds]
    /\ expired \subseteq ArtifactIds /\ revoked \subseteq ArtifactIds
    /\ stagedInputs \in [ArtifactCalls -> SUBSET ArtifactIds]
    /\ outputs \in [ArtifactCalls -> SUBSET ArtifactIds]
    /\ open \subseteq ArtifactCalls
    /\ importing \in Present \cup {NoImport}
    /\ collecting \subseteq Present \cap expired
    /\ \A c \in ArtifactCalls : stagedInputs[c] # {} => c \in open

ArtifactInit ==
    /\ dir = [a \in ArtifactIds |-> "free"]
    /\ parentsOf = [a \in ArtifactIds |-> {}]
    /\ expired = {} /\ revoked = {} /\ open = {} /\ collecting = {}
    /\ importing = NoImport
    /\ stagedInputs = [c \in ArtifactCalls |-> {}] /\ outputs = [c \in ArtifactCalls |-> {}]

-----------------------------------------------------------------------------
\* export_artifact: the directory, the payload, the metadata; what raises on
\* the way removes the directory again, a crash leaves it reserved.  The tool
\* may run in a thread of its own.
ExportArtifact(a) ==
    /\ dir[a] = "free"
    /\ \E outcome \in {"reserved", "exported"} : dir' = [dir EXCEPT ![a] = outcome]
    /\ UNCHANGED <<parentsOf, expired, revoked, stagedInputs, outputs, open, importing, collecting>>

OpenInvocation(c) ==
    /\ LoopFree /\ c \notin open /\ outputs[c] = {}
    /\ open' = open \cup {c}
    /\ UNCHANGED <<dir, parentsOf, expired, revoked, stagedInputs, outputs, importing, collecting>>

\* An input has to be live, and is copied.
StageInput(c, a) ==
    /\ LoopFree /\ c \in open /\ outputs[c] = {} /\ a \in Live
    /\ stagedInputs' = [stagedInputs EXCEPT ![c] = @ \cup {a}]
    /\ UNCHANGED <<dir, parentsOf, expired, revoked, outputs, open, importing, collecting>>

\* What an output records as its parents, all of them live still.
Parents(c) == stagedInputs[c]

\* import_output, import_internal_artifact: the parents are validated, the
\* output is exported without them, and its metadata written again.
ImportOutput(c, a) ==
    /\ LoopFree /\ c \in open /\ dir[a] = "free"
    /\ Cardinality(outputs[c]) < MaxOutputCount
    /\ stagedInputs[c] \subseteq Live
    /\ dir' = [dir EXCEPT ![a] = "exported"]
    /\ outputs' = [outputs EXCEPT ![c] = @ \cup {a}]
    /\ importing' = a
    /\ UNCHANGED <<parentsOf, expired, revoked, stagedInputs, open, collecting>>

LinkParents(c, a) ==
    /\ importing = a /\ a \in outputs[c]
    /\ parentsOf' = [parentsOf EXCEPT ![a] = Parents(c)]
    /\ importing' = NoImport
    /\ UNCHANGED <<dir, expired, revoked, stagedInputs, outputs, open, collecting>>

\* Leaving the context removes its directory; artifacts imported before a
\* later step failed stay.
CloseInvocation(c) ==
    /\ LoopFree /\ c \in open
    /\ open' = open \ {c}
    /\ stagedInputs' = [stagedInputs EXCEPT ![c] = {}]
    /\ UNCHANGED <<dir, parentsOf, expired, revoked, outputs, importing, collecting>>

Expire(a) ==
    /\ a \in Live /\ expired' = expired \cup {a}
    /\ UNCHANGED <<dir, parentsOf, revoked, stagedInputs, outputs, open, importing, collecting>>

-----------------------------------------------------------------------------
\* Mutant: the parents of live artifacts, not all their ancestors.
ParentsOnly(from) == from \cup UNION {parentsOf[a] : a \in from}

\* The artifacts of `from' and their recorded ancestors that are present.
Ancestry(from) ==
    LET reach[n \in 0..Cardinality(ArtifactIds)] ==
          IF n = 0 THEN from
          ELSE reach[n - 1] \cup ((UNION {parentsOf[a] : a \in reach[n - 1]}) \cap Present)
    IN reach[Cardinality(ArtifactIds)]

\* artifact_gc with dry_run=False; directories without metadata are no
\* candidates.
CollectGarbage ==
    /\ LoopFree /\ collecting' = (Present \cap expired) \ Ancestry(Live)
    /\ UNCHANGED <<dir, parentsOf, expired, revoked, stagedInputs, outputs, open, importing>>

RemoveCandidate(a) ==
    /\ a \in collecting /\ collecting' = collecting \ {a}
    /\ dir' = [dir EXCEPT ![a] = "removed"]
    /\ UNCHANGED <<parentsOf, expired, revoked, stagedInputs, outputs, open, importing>>

RevokeArtifact(a) ==
    /\ LoopFree /\ dir[a] \in {"reserved", "exported"}
    /\ dir' = [dir EXCEPT ![a] = "removed"] /\ revoked' = revoked \cup {a}
    /\ UNCHANGED <<parentsOf, expired, stagedInputs, outputs, open, importing, collecting>>

\* The process dies: an import stays unlinked, a collection stops half way,
\* and invocation directories are forgotten.
ArtifactCrash ==
    /\ importing' = NoImport /\ collecting' = {} /\ open' = {}
    /\ stagedInputs' = [c \in ArtifactCalls |-> {}]
    /\ UNCHANGED <<dir, parentsOf, expired, revoked, outputs>>

ArtifactNext ==
    \/ \E a \in ArtifactIds : \/ ExportArtifact(a) \/ Expire(a)
                              \/ RemoveCandidate(a) \/ RevokeArtifact(a)
    \/ \E c \in ArtifactCalls :
          \/ OpenInvocation(c) \/ CloseInvocation(c)
          \/ \E a \in ArtifactIds : StageInput(c, a) \/ ImportOutput(c, a) \/ LinkParents(c, a)
    \/ CollectGarbage \/ ArtifactCrash

ArtifactSpec == ArtifactInit /\ [][ArtifactNext]_artifactVars

-----------------------------------------------------------------------------
(* Properties *)

\* docs/artifact_security.md, "Artifact GC": the recorded ancestors of a live
\* artifact are kept although their own time has passed, unless a caller
\* revoked one.
AncestorsKept ==
    \A a \in Ancestry(Live) : \A p \in parentsOf[a] \ revoked : p \in Present

\* The parents an output records are all the inputs its provider was given:
\* provenance names no artifact the call did not stage, and misses none.
OutputsNameInputs ==
    \A c \in open : \A a \in outputs[c] \ {importing} : parentsOf[a] = stagedInputs[c]

\* What an artifact was made from is named in full and is still there.
ProvenanceIsKept == AncestorsKept /\ OutputsNameInputs
=============================================================================
