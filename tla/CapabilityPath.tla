--------------------------- MODULE CapabilityPath ---------------------------
(***************************************************************************)
(* CapabilityBroker.invoke (src/capabilities/capability_broker.py) with    *)
(* the gate hooks (src/hooks/gate_hook_runtime.py) before it, the events   *)
(* (src/runtime/event_runtime.py) around it and the recovery of a browser  *)
(* download whose transport failed.                                        *)
(*                                                                         *)
(* Invocations are coroutines of one event loop: the code between two      *)
(* awaits belongs to the invocation in `running', and only a crash of the  *)
(* process can come between.  Gate decisions, events and files outlive it. *)
(* What an invocation does is named by the invocation: the file a browser  *)
(* download produces in the shared result folder has its name.             *)
(***************************************************************************)
EXTENDS Naturals, Sequences, FiniteSets

CONSTANTS
    Invocations,
    Gates,         \* the enabled gate hooks
    Nobody,        \* no invocation holds the event loop
    MaxOutputs     \* the policy's max_output_artifacts

ASSUME PathAssumption ==
    /\ Nobody \notin Invocations
    /\ MaxOutputs \in Nat \ {0}

VARIABLES
    running,     \* the invocation whose synchronous code runs
    kind,        \* invocation -> the sort of capability it names
    stage,       \* invocation -> where it is
    unheard,     \* invocation -> gates still to evaluate
    refused,     \* invocation -> its deny_hook_ids is not empty
    decisions,   \* the rows of the decision store
    events,      \* the rows of the event store, in their sequence
    causation,   \* invocation -> row of its before_invoke event, 0 without one
    effect,      \* invocation -> what the provider knows and did of it
    answer,      \* invocation -> how its terminal event describes it
    folder,      \* invocation -> the file it left in the result folder
    snapshot,    \* invocation -> the folder when it was dispatched
    polled,      \* invocation -> the folder at its last poll
    artifacts,   \* invocation -> files imported as its artifacts
    truncated    \* files imported before they were whole, as they were then

gateVars == <<unheard, refused, decisions>>
fileVars == <<folder, snapshot, polled, artifacts, truncated>>
pathVars == <<kind, running, stage, gateVars, events, causation, effect, answer, fileVars>>

\* A control capability has a control tag; a pdf shows the mark of an end.
InvocationKinds == {"control", "plain", "download", "pdf download"}
Download(i) == kind[i] \in {"download", "pdf download"}

Final == {"rejected", "denied", "cancelled", "ended", "lost"}
Terminal == {"capability.succeeded", "capability.failed"}

\* A pdf is marked when its last 8192 bytes hold an %%EOF and more is to come.
Unfinished == {"partial", "marked"}
DownloadStates == Unfinished \cup {"absent", "whole", "removed"}
Empty == [d \in Invocations |-> "absent"]

PathTypeOK ==
    /\ running \in Invocations \cup {Nobody}
    /\ kind \in [Invocations -> InvocationKinds]
    /\ stage \in [Invocations -> Final \cup
          {"new", "gates", "dispatch", "awaiting", "polling", "restoring", "terminal"}]
    /\ unheard \in [Invocations -> SUBSET Gates]
    /\ refused \in [Invocations -> BOOLEAN]
    /\ decisions \subseteq Invocations \X Gates \X {"allow", "deny"}
    /\ events \in Seq([type : Terminal \cup {"capability.gate_denied", "capability.before_invoke"},
                       of : Invocations, cause : Nat])
    /\ causation \in [Invocations -> 0..Len(events)]
    /\ effect \in [Invocations -> {"unsent", "sent", "performed"}]
    /\ answer \in [Invocations -> {"none", "capability.succeeded", "capability.failed"}]
    /\ folder \in [Invocations -> DownloadStates]
    /\ snapshot \in [Invocations -> [Invocations -> DownloadStates]]
    /\ polled \in [Invocations -> [Invocations -> DownloadStates]]
    /\ artifacts \in [Invocations -> SUBSET Invocations]
    /\ truncated \subseteq Invocations \X Unfinished

PathInit ==
    /\ kind \in [Invocations -> InvocationKinds]
    /\ running = Nobody
    /\ stage = [i \in Invocations |-> "new"]
    /\ unheard = [i \in Invocations |-> {}]
    /\ refused = [i \in Invocations |-> FALSE]
    /\ decisions = {} /\ events = <<>>
    /\ effect = [i \in Invocations |-> "unsent"]
    /\ causation = [i \in Invocations |-> 0]
    /\ answer = [i \in Invocations |-> "none"]
    /\ folder = Empty
    /\ snapshot = [i \in Invocations |-> Empty] /\ polled = [i \in Invocations |-> Empty]
    /\ artifacts = [i \in Invocations |-> {}] /\ truncated = {}

-----------------------------------------------------------------------------
(* Until the provider has been called *)

\* _emit_runtime_event: nothing for a control capability, and a store that
\* fails is ignored.
Emit(i, type, cause) ==
    \/ UNCHANGED events
    \/ kind[i] # "control" /\ events' = Append(events, [type |-> type, of |-> i, cause |-> cause])

\* Validation of the descriptor and the arguments; a refusal leaves no trace.
BeginInvoke(i) ==
    /\ running = Nobody /\ stage[i] = "new"
    /\ \/ stage' = [stage EXCEPT ![i] = "rejected"] /\ UNCHANGED <<running, unheard>>
       \/ /\ running' = i
          /\ stage' = [stage EXCEPT ![i] = "gates"]
          /\ unheard' = [unheard EXCEPT ![i] = IF kind[i] = "control" THEN {} ELSE Gates]
    /\ UNCHANGED <<refused, decisions, events, causation, effect, answer, fileVars>>

\* Mutant: a decision that could not be stored does not deny.
RefusesUnlessUnstored(decision, stored) == decision = "deny" /\ stored

\* Does the evaluation of a gate put it, or the store, on the deny list?
Refuses(decision, stored) == decision = "deny" \/ ~stored

\* GateDecisionStore.record commits one row, or raises.
RecordDecision(i, g, decision, stored) ==
    decisions' = IF stored THEN decisions \cup {<<i, g, decision>>} ELSE decisions

\* A handler that raises denies; every gate is heard.
EvaluateGate(i, g) ==
    /\ running = i /\ stage[i] = "gates" /\ g \in unheard[i]
    /\ unheard' = [unheard EXCEPT ![i] = @ \ {g}]
    /\ \E decision \in {"allow", "deny"}, stored \in BOOLEAN :
          /\ RecordDecision(i, g, decision, stored)
          /\ refused' = [refused EXCEPT ![i] = @ \/ Refuses(decision, stored)]
    /\ UNCHANGED <<running, stage, events, causation, effect, answer, fileVars>>

Denied(i) ==
    /\ running = i /\ stage[i] = "gates" /\ unheard[i] = {} /\ refused[i]
    /\ Emit(i, "capability.gate_denied", 0)
    /\ stage' = [stage EXCEPT ![i] = "denied"] /\ running' = Nobody
    /\ UNCHANGED <<gateVars, causation, effect, answer, fileVars>>

\* Mutant: the cause of the terminal event is counted before the insert.
BeforeInvokeOffByOne(i) ==
    /\ running = i /\ stage[i] = "gates" /\ unheard[i] = {} /\ ~refused[i]
    /\ Emit(i, "capability.before_invoke", 0)
    /\ causation' = [causation EXCEPT ![i] = Len(events) + 1]
    /\ stage' = [stage EXCEPT ![i] = "dispatch"]
    /\ UNCHANGED <<running, gateVars, effect, answer, fileVars>>

\* Mutant: a denied capability is reported and then invoked all the same.
BeforeInvokeAnyway(i) ==
    /\ running = i /\ stage[i] = "gates" /\ unheard[i] = {}
    /\ IF refused[i] THEN Emit(i, "capability.gate_denied", 0)
                     ELSE Emit(i, "capability.before_invoke", 0)
    /\ causation' = [causation EXCEPT ![i] = IF events' = events THEN 0 ELSE Len(events')]
    /\ stage' = [stage EXCEPT ![i] = "dispatch"]
    /\ UNCHANGED <<running, gateVars, effect, answer, fileVars>>

BeforeInvoke(i) ==
    /\ running = i /\ stage[i] = "gates" /\ unheard[i] = {} /\ ~refused[i]
    /\ Emit(i, "capability.before_invoke", 0)
    /\ causation' = [causation EXCEPT ![i] = IF events' = events THEN 0 ELSE Len(events')]
    /\ stage' = [stage EXCEPT ![i] = "dispatch"]
    /\ UNCHANGED <<running, gateVars, effect, answer, fileVars>>

\* The locals of a download go out of scope.
Forget(i) == snapshot' = [snapshot EXCEPT ![i] = Empty] /\ polled' = [polled EXCEPT ![i] = Empty]

Conclude(i, outcome) ==
    /\ answer' = [answer EXCEPT ![i] = outcome]
    /\ stage' = [stage EXCEPT ![i] = "terminal"]
    /\ running' = i

\* _invoke_without_events up to its await; staging the inputs may raise.
Dispatch(i) ==
    /\ running = i /\ stage[i] = "dispatch"
    /\ \/ /\ stage' = [stage EXCEPT ![i] = "awaiting"] /\ running' = Nobody
          /\ snapshot' = IF Download(i) THEN [snapshot EXCEPT ![i] = folder] ELSE snapshot
          /\ effect' = [effect EXCEPT ![i] = "sent"]
          /\ UNCHANGED answer
       \/ Conclude(i, "capability.failed") /\ UNCHANGED <<snapshot, effect>>
    /\ UNCHANGED <<gateVars, events, causation, folder, polled, artifacts, truncated>>

-----------------------------------------------------------------------------
(* The provider and its answer *)

\* What the browser makes of a download it writes: more of it, or all of it.
\* Bytes before the end of a linearized or an updated pdf carry a mark.
Grown(i, from) ==
    (IF from = "absent" THEN {"partial"} ELSE {"whole"})
        \cup (IF kind[i] = "pdf download" THEN Unfinished \ {from} ELSE {})

\* The provider performs the call, perhaps after the invocation gave up or the
\* process died: it is another process.
Perform(i) ==
    /\ \/ effect[i] = "sent" /\ effect' = [effect EXCEPT ![i] = "performed"]
          /\ IF Download(i) THEN \E to \in Grown(i, "absent") : folder' = [folder EXCEPT ![i] = to]
                            ELSE UNCHANGED folder
       \/ /\ Download(i) /\ folder[i] \in Unfinished
          /\ \E to \in Grown(i, folder[i]) : folder' = [folder EXCEPT ![i] = to]
          /\ UNCHANGED effect
    /\ UNCHANGED <<running, stage, gateVars, events, causation, answer,
                   snapshot, polled, artifacts, truncated>>

\* What import_discovered_output does with files of the result folder.
Import(i, files) ==
    /\ artifacts' = [artifacts EXCEPT ![i] = @ \cup files]
    /\ folder' = [d \in Invocations |-> IF d \in files THEN "removed" ELSE folder[d]]
    /\ truncated' = truncated \cup {<<d, folder[d]>> : d \in {e \in files : folder[e] \in Unfinished}}

\* The provider answers without an error.  The file its text names is
\* imported, unless it is gone or the policy refuses it.
Succeed(i) ==
    /\ running = Nobody /\ stage[i] = "awaiting" /\ effect[i] = "performed"
    /\ Download(i) => folder[i] \notin Unfinished
    /\ \/ ~Download(i) /\ Conclude(i, "capability.succeeded") /\ UNCHANGED fileVars
       \/ /\ Download(i) /\ folder[i] = "whole"
          /\ Import(i, {i}) /\ Conclude(i, "capability.succeeded")
          /\ UNCHANGED <<snapshot, polled>>
       \/ Download(i) /\ Conclude(i, "capability.failed") /\ UNCHANGED fileVars
    /\ UNCHANGED <<gateVars, events, causation, effect>>

\* An error result, a semantic failure or an exception.  A download waits for
\* its file when the browser provider looks broken.
ProviderFails(i) ==
    /\ running = Nobody /\ stage[i] = "awaiting"
    /\ \/ Conclude(i, "capability.failed") /\ UNCHANGED polled
       \/ /\ Download(i)
          /\ stage' = [stage EXCEPT ![i] = "polling"]
          /\ polled' = [polled EXCEPT ![i] = Empty]
          /\ UNCHANGED <<running, answer>>
    /\ UNCHANGED <<gateVars, events, causation, effect, folder, snapshot, artifacts, truncated>>

\* CancelledError is no Exception: no terminal event.
Cancel(i) ==
    /\ running = Nobody /\ stage[i] \in {"awaiting", "polling", "restoring"}
    /\ stage' = [stage EXCEPT ![i] = "cancelled"]
    /\ Forget(i)
    /\ UNCHANGED <<running, gateVars, events, causation, effect, answer,
                   folder, artifacts, truncated>>

\* A file that is there and was not, or was another, at the dispatch.
Candidates(i) == {d \in Invocations : /\ folder[d] \in Unfinished \cup {"whole"}
                                      /\ folder[d] # snapshot[i][d]}

\* Mutant: a file that did not change between two polls is complete.
StableSize(i) == {d \in Candidates(i) : polled[i][d] = folder[d]}

\* The same at two polls, and a pdf has the mark of an end, or the end itself.
Stable(i) == {d \in Candidates(i) : /\ polled[i][d] = folder[d]
                                    /\ kind[d] = "pdf download" => folder[d] # "partial"}

\* One round of _wait_for_browser_downloads, and the imports after the last.
Poll(i) ==
    /\ running = Nobody /\ stage[i] = "polling"
    /\ IF Stable(i) # {}
       THEN /\ \E files \in SUBSET Stable(i) : Cardinality(files) <= MaxOutputs /\ Import(i, files)
            /\ stage' = [stage EXCEPT ![i] = "restoring"]
            /\ UNCHANGED polled
       ELSE /\ polled' = [polled EXCEPT ![i] = folder]
            /\ UNCHANGED <<stage, folder, artifacts, truncated>>
    /\ UNCHANGED <<running, gateVars, events, causation, effect, answer, snapshot>>

Deadline(i) ==
    /\ running = Nobody /\ stage[i] = "polling" /\ Stable(i) = {}
    /\ stage' = [stage EXCEPT ![i] = "restoring"]
    /\ UNCHANGED <<running, gateVars, events, causation, effect, answer, fileVars>>

\* _restore_browser_provider_after_failure never raises.
Restored(i) ==
    /\ running = Nobody /\ stage[i] = "restoring"
    /\ Conclude(i, IF artifacts[i] = {} THEN "capability.failed" ELSE "capability.succeeded")
    /\ UNCHANGED <<gateVars, events, causation, effect, fileVars>>

EmitTerminal(i) ==
    /\ running = i /\ stage[i] = "terminal"
    /\ Emit(i, answer[i], causation[i])
    /\ stage' = [stage EXCEPT ![i] = "ended"] /\ running' = Nobody
    /\ Forget(i)
    /\ UNCHANGED <<gateVars, causation, effect, answer, folder, artifacts, truncated>>

\* The process dies, and another one serves the invocations still to come.
PathCrash ==
    /\ \E i \in Invocations : stage[i] \notin Final \cup {"new"}
    /\ stage' = [i \in Invocations |->
                    IF stage[i] \in Final \cup {"new"} THEN stage[i] ELSE "lost"]
    /\ running' = Nobody
    /\ unheard' = [i \in Invocations |-> {}] /\ refused' = [i \in Invocations |-> FALSE]
    /\ snapshot' = [i \in Invocations |-> Empty] /\ polled' = [i \in Invocations |-> Empty]
    /\ UNCHANGED <<decisions, events, causation, effect, answer, folder, artifacts, truncated>>

LoopStep(i) ==
    \/ BeginInvoke(i) \/ (\E g \in Gates : EvaluateGate(i, g)) \/ Denied(i) \/ BeforeInvoke(i)
    \/ Dispatch(i) \/ Poll(i) \/ Deadline(i) \/ Restored(i) \/ EmitTerminal(i)

PathNext ==
    /\ \/ \E i \in Invocations : LoopStep(i) \/ Perform(i) \/ Succeed(i) \/ ProviderFails(i) \/ Cancel(i)
       \/ PathCrash
    /\ UNCHANGED kind

PathSpec == PathInit /\ [][PathNext]_pathVars

-----------------------------------------------------------------------------
(* Properties *)

\* Gates fail closed: what a provider has done was allowed by every gate in a
\* row that survives a crash, and denied by none.
ActedWasAllowed ==
    \A i \in Invocations, g \in Gates : kind[i] # "control" /\ effect[i] = "performed" =>
        <<i, g, "allow">> \in decisions /\ <<i, g, "deny">> \notin decisions

\* The event log tells one story of an invocation, whatever the store refused
\* to keep: a terminal event names the before_invoke of its own invocation as
\* its cause, there is at most one, and a denial stands alone and is true.
EventsTellOneStory ==
    \A n \in DOMAIN events : LET e == events[n] IN
        /\ e.type \in Terminal =>
              /\ e.cause # 0 => /\ e.cause < n /\ events[e.cause].of = e.of
                                /\ events[e.cause].type = "capability.before_invoke"
              /\ \A m \in 1..(n-1) : events[m].of = e.of => m = e.cause
        /\ e.type = "capability.gate_denied" =>
              /\ effect[e.of] = "unsent"
              /\ \A m \in DOMAIN events : events[m].of = e.of => m = n

\* A file of the shared result folder becomes an artifact of one invocation
\* only, however many of them recover at once.
DeliveredOnce == \A i, j \in Invocations : i # j => artifacts[i] \cap artifacts[j] = {}

\* A PDF that was still being written is handed over only when what was there
\* looked like an end; nothing tells such a PDF from a whole one.
CutPdfsWereMarked == \A c \in truncated : kind[c[1]] = "pdf download" => c[2] = "marked"

\* A recovery does not hand over what another download had left complete in
\* the folder before this one was dispatched.
NothingOlderTaken ==
    \A i, d \in Invocations : d \in artifacts[i] => snapshot[i][d] # "whole"

\* Recoveries that watch one folder, where browsers still write, hand over a
\* file once, none that lay there before, and no PDF without an %%EOF in its tail.
DownloadsAreDelivered == DeliveredOnce /\ CutPdfsWereMarked /\ NothingOlderTaken
=============================================================================
