------------------------ MODULE CapabilityPathProofs ------------------------
(***************************************************************************)
(* Why no provider acts without its gates' leave, why the event log tells  *)
(* one story of an invocation, and why a downloaded file is handed over    *)
(* once: for every number of invocations and gates, through cancellations, *)
(* late providers and crashes of the process.                              *)
(*                                                                         *)
(* Gates: what was heard of an invocation and not refused is a row already *)
(* (GatesOK), so a crash between the decision and the call loses nothing.  *)
(* Events: an invocation on its way has at most its before_invoke event in *)
(* the log, where its causation points (StoryOK).  Files: an imported file *)
(* is gone from the result folder and never comes back, and one that was   *)
(* whole at a dispatch stays whole until it goes (FilesOK).                *)
(***************************************************************************)
EXTENDS CapabilityPath, TLAPS

BeforeDispatch == {"new", "gates", "dispatch"}
OnItsWay == {"dispatch", "awaiting", "polling", "restoring", "terminal"}

Cleared(i) ==
    \A g \in Gates : <<i, g, "allow">> \in decisions /\ <<i, g, "deny">> \notin decisions

Unjudged(i, g) == <<i, g, "allow">> \notin decisions /\ <<i, g, "deny">> \notin decisions

GatesOK(i) ==
    /\ stage[i] = "new" => \A g \in Gates : Unjudged(i, g)
    /\ stage[i] = "gates" => \A g \in Gates :
          IF g \in unheard[i] THEN Unjudged(i, g)
          ELSE ~refused[i] => <<i, g, "allow">> \in decisions /\ <<i, g, "deny">> \notin decisions
    /\ stage[i] = "dispatch" \/ effect[i] # "unsent" => Cleared(i)

EffectOK(i) ==
    /\ effect[i] # "unsent" => stage[i] \notin BeforeDispatch \cup {"denied"}
    /\ effect[i] # "performed" => folder[i] = "absent"
    /\ stage[i] = "terminal" => answer[i] \in Terminal

StoryOK(i) ==
    /\ stage[i] \in {"new", "gates"} => \A n \in DOMAIN events : events[n].of # i
    /\ stage[i] \in OnItsWay =>
          /\ causation[i] # 0 => /\ events[causation[i]].of = i
                                 /\ events[causation[i]].type = "capability.before_invoke"
          /\ \A n \in DOMAIN events : events[n].of = i => n = causation[i]

DenialsAreFinal ==
    \A n \in DOMAIN events : events[n].type = "capability.gate_denied" => stage[events[n].of] = "denied"

FilesOK ==
    /\ \A i, d \in Invocations : d \in artifacts[i] => folder[d] = "removed"
    /\ \A i, d \in Invocations : snapshot[i][d] = "whole" => folder[d] \in {"whole", "removed"}
    /\ \A i \in Invocations : snapshot[i][i] = "absent"
    /\ DownloadsAreDelivered

PathInv ==
    /\ PathTypeOK
    /\ \A i \in Invocations : kind[i] # "control" => GatesOK(i)
    /\ \A i \in Invocations : EffectOK(i) /\ StoryOK(i)
    /\ DenialsAreFinal
    /\ EventsTellOneStory
    /\ FilesOK

EventRecord ==
    [type : Terminal \cup {"capability.gate_denied", "capability.before_invoke"},
     of : Invocations, cause : Nat]

\* _emit_runtime_event adds at most one row, at the end.
LEMMA EmitAppends ==
  ASSUME events \in Seq(EventRecord), NEW i \in Invocations,
         NEW type \in Terminal \cup {"capability.gate_denied", "capability.before_invoke"},
         NEW cause \in Nat, Emit(i, type, cause)
  PROVE  /\ events' \in Seq(EventRecord)
         /\ \/ events' = events
            \/ /\ Len(events') = Len(events) + 1
               /\ \A n \in 1..Len(events) : events'[n] = events[n]
               /\ events'[Len(events) + 1] = [type |-> type, of |-> i, cause |-> cause]
<1>1. [type |-> type, of |-> i, cause |-> cause] \in EventRecord
  BY DEF EventRecord
<1> QED
  BY <1>1 DEF Emit

\* The columns of the two sorts of rows, which PathTypeOK spells out.
LEMMA EventsTyped == PathTypeOK => events \in Seq(EventRecord) /\ Len(events) \in Nat
  BY DEF PathTypeOK, EventRecord

\* What BeforeInvoke notes of its event: its row, or none.
LEMMA BeforeInvokeNotes ==
  ASSUME PathTypeOK, NEW i \in Invocations, BeforeInvoke(i)
  PROVE  /\ events' \in Seq(EventRecord)
         /\ causation' \in [Invocations -> 0..Len(events')]
         /\ \/ events' = events /\ causation'[i] = 0
            \/ /\ Len(events') = Len(events) + 1 /\ causation'[i] = Len(events) + 1
               /\ \A n \in 1..Len(events) : events'[n] = events[n]
               /\ events'[Len(events) + 1] =
                     [type |-> "capability.before_invoke", of |-> i, cause |-> 0]
<1>1. events \in Seq(EventRecord) /\ Len(events) \in Nat /\ causation \in [Invocations -> 0..Len(events)]
  BY EventsTyped DEF PathTypeOK
<1>2. /\ Emit(i, "capability.before_invoke", 0)
      /\ causation' = [causation EXCEPT ![i] = IF events' = events THEN 0 ELSE Len(events')]
  BY DEF BeforeInvoke
<1>3. CASE events' = events
  BY <1>1, <1>2, <1>3
<1>4. CASE events' # events
  <2>1. /\ events' \in Seq(EventRecord) /\ Len(events') = Len(events) + 1
        /\ \A n \in 1..Len(events) : events'[n] = events[n]
        /\ events'[Len(events) + 1] =
              [type |-> "capability.before_invoke", of |-> i, cause |-> 0]
    BY <1>1, <1>2, <1>4, EmitAppends
  <2>2. causation' = [causation EXCEPT ![i] = Len(events) + 1]
    BY <1>2, <1>4, <2>1
  <2>3. causation' \in [Invocations -> 0..Len(events')]
    BY <1>1, <2>1, <2>2
  <2> QED
    BY <1>1, <2>1, <2>2, <2>3
<1> QED
  BY <1>3, <1>4

\* PathTypeOK in three parts.
ControlTypes ==
    /\ running \in Invocations \cup {Nobody}
    /\ kind \in [Invocations -> InvocationKinds]
    /\ stage \in [Invocations -> Final \cup
          {"new", "gates", "dispatch", "awaiting", "polling", "restoring", "terminal"}]
    /\ unheard \in [Invocations -> SUBSET Gates]
    /\ refused \in [Invocations -> BOOLEAN]
    /\ decisions \subseteq Invocations \X Gates \X {"allow", "deny"}
    /\ effect \in [Invocations -> {"unsent", "sent", "performed"}]
    /\ answer \in [Invocations -> {"none", "capability.succeeded", "capability.failed"}]

EventTypes ==
    /\ events \in Seq(EventRecord)
    /\ causation \in [Invocations -> 0..Len(events)]

FileTypes ==
    /\ folder \in [Invocations -> DownloadStates]
    /\ snapshot \in [Invocations -> [Invocations -> DownloadStates]]
    /\ polled \in [Invocations -> [Invocations -> DownloadStates]]
    /\ artifacts \in [Invocations -> SUBSET Invocations]
    /\ truncated \subseteq Invocations \X Unfinished

LEMMA TypesInParts ==
  /\ PathTypeOK <=> ControlTypes /\ EventTypes /\ FileTypes
  /\ PathTypeOK' <=> ControlTypes' /\ EventTypes' /\ FileTypes'
  BY DEF PathTypeOK, ControlTypes, EventTypes, FileTypes, EventRecord

LEMMA ControlTypesKept ==
  ASSUME ControlTypes, [PathNext]_pathVars
  PROVE  ControlTypes'
<1> USE DEF ControlTypes, gateVars, Final
<1>1. ASSUME NEW i \in Invocations, BeginInvoke(i), UNCHANGED kind
      PROVE  ControlTypes'
  <2>1. unheard' \in [Invocations -> SUBSET Gates]
    BY <1>1 DEF BeginInvoke
  <2> QED
    BY <1>1, <2>1 DEF BeginInvoke
<1>2. ASSUME NEW i \in Invocations, NEW g \in Gates, EvaluateGate(i, g), UNCHANGED kind
      PROVE  ControlTypes'
  BY <1>2 DEF EvaluateGate, RecordDecision
<1>3. ASSUME NEW i \in Invocations, UNCHANGED kind,
             Denied(i) \/ BeforeInvoke(i) \/ Cancel(i) \/ Deadline(i) \/ EmitTerminal(i) \/ Poll(i)
      PROVE  ControlTypes'
  BY <1>3 DEF Denied, BeforeInvoke, Cancel, Deadline, EmitTerminal, Poll
<1>4. ASSUME NEW i \in Invocations, UNCHANGED kind,
             Dispatch(i) \/ Succeed(i) \/ ProviderFails(i) \/ Restored(i)
      PROVE  ControlTypes'
  <2>1. /\ UNCHANGED gateVars /\ (effect' = effect \/ effect' = [effect EXCEPT ![i] = "sent"])
        /\ \/ \E outcome \in Terminal : Conclude(i, outcome)
           \/ \E where \in {"awaiting", "polling"} :
                 /\ stage' = [stage EXCEPT ![i] = where]
                 /\ running' \in {running, Nobody} /\ UNCHANGED answer
    BY <1>4 DEF Dispatch, Succeed, ProviderFails, Restored, Terminal
  <2> QED
    BY <1>4, <2>1 DEF Conclude, Terminal
<1>5. ASSUME NEW i \in Invocations, Perform(i), UNCHANGED kind
      PROVE  ControlTypes'
  BY <1>5 DEF Perform
<1>6. ASSUME PathCrash, UNCHANGED kind
      PROVE  ControlTypes'
  BY <1>6 DEF PathCrash
<1>7. CASE UNCHANGED pathVars
  BY <1>7 DEF pathVars
<1> QED
  BY <1>1, <1>2, <1>3, <1>4, <1>5, <1>6, <1>7 DEF PathNext, LoopStep

LEMMA EventTypesKept ==
  ASSUME PathTypeOK, \A i \in Invocations : EffectOK(i), [PathNext]_pathVars
  PROVE  EventTypes'
<1>1. EventTypes /\ Len(events) \in Nat
  BY EventsTyped, TypesInParts
<1>2. ASSUME events' \in Seq(EventRecord), Len(events') >= Len(events), UNCHANGED causation
      PROVE  EventTypes'
  BY <1>1, <1>2 DEF EventTypes
<1>3. ASSUME NEW i \in Invocations, Denied(i)
      PROVE  EventTypes'
  <2>1. Emit(i, "capability.gate_denied", 0) /\ UNCHANGED causation
    BY <1>3 DEF Denied
  <2>2. events \in Seq(EventRecord)
    BY <1>1 DEF EventTypes
  <2>3. events' \in Seq(EventRecord) /\ (events' = events \/ Len(events') = Len(events) + 1)
    BY <2>1, <2>2, EmitAppends
  <2> QED
    BY <1>1, <1>2, <2>1, <2>3
<1>4. ASSUME NEW i \in Invocations, EmitTerminal(i)
      PROVE  EventTypes'
  <2>1. /\ Emit(i, answer[i], causation[i]) /\ UNCHANGED causation
        /\ answer[i] \in Terminal /\ causation[i] \in Nat
    BY <1>1, <1>4 DEF EmitTerminal, EffectOK, EventTypes
  <2>2. events \in Seq(EventRecord)
    BY <1>1 DEF EventTypes
  <2>3. events' \in Seq(EventRecord) /\ (events' = events \/ Len(events') = Len(events) + 1)
    BY <2>1, <2>2, EmitAppends
  <2> QED
    BY <1>1, <1>2, <2>1, <2>3
<1>5. ASSUME NEW i \in Invocations, BeforeInvoke(i)
      PROVE  EventTypes'
  BY <1>5, BeforeInvokeNotes DEF EventTypes
<1>6. UNCHANGED <<events, causation>> => EventTypes'
  BY <1>1 DEF EventTypes
<1>7. \/ UNCHANGED <<events, causation>>
      \/ \E i \in Invocations : Denied(i) \/ EmitTerminal(i) \/ BeforeInvoke(i)
  BY DEF PathNext, LoopStep, pathVars, BeginInvoke, EvaluateGate, Dispatch, Perform, Succeed,
     ProviderFails, Cancel, Poll, Deadline, Restored, PathCrash
<1> QED
  BY <1>3, <1>4, <1>5, <1>6, <1>7

LEMMA FileTypesKept ==
  ASSUME FileTypes, [PathNext]_pathVars
  PROVE  FileTypes'
<1> USE DEF FileTypes
<1>0. Empty \in [Invocations -> DownloadStates]
  BY DEF Empty, DownloadStates
<1>1. ASSUME NEW i \in Invocations, NEW files \in SUBSET Invocations, Import(i, files),
             UNCHANGED <<snapshot, polled>>
      PROVE  FileTypes'
  <2>1. folder' \in [Invocations -> DownloadStates]
    BY <1>1 DEF Import, DownloadStates
  <2>2. artifacts' \in [Invocations -> SUBSET Invocations]
    BY <1>1 DEF Import
  <2>3. truncated' \subseteq Invocations \X Unfinished
    BY <1>1 DEF Import
  <2> QED
    BY <1>1, <2>1, <2>2, <2>3 DEF Import
<1>2. ASSUME NEW i \in Invocations, Forget(i), UNCHANGED <<folder, artifacts, truncated>>
      PROVE  FileTypes'
  BY <1>0, <1>2 DEF Forget
<1>3. ASSUME NEW i \in Invocations, Dispatch(i)
      PROVE  FileTypes'
  <2>1. snapshot' \in [Invocations -> [Invocations -> DownloadStates]]
    BY <1>3 DEF Dispatch
  <2> QED
    BY <1>3, <2>1 DEF Dispatch
<1>4. ASSUME NEW i \in Invocations, Perform(i)
      PROVE  FileTypes'
  <2>1. \A from \in {"absent", "partial", "marked"} : Grown(i, from) \subseteq DownloadStates
    BY DEF Grown, DownloadStates, Unfinished
  <2>2. \/ folder' = folder
        \/ \E to \in DownloadStates : folder' = [folder EXCEPT ![i] = to]
    BY <1>4, <2>1 DEF Perform, Unfinished
  <2>3. folder' \in [Invocations -> DownloadStates]
    BY <2>2
  <2> QED
    BY <1>4, <2>3 DEF Perform
<1>5. ASSUME NEW i \in Invocations, ProviderFails(i)
      PROVE  FileTypes'
  BY <1>0, <1>5 DEF ProviderFails
<1>6. ASSUME NEW i \in Invocations, Poll(i)
      PROVE  FileTypes'
  <2>1. CASE Stable(i) # {}
    <3>1. PICK files \in SUBSET Stable(i) : Import(i, files)
      BY <1>6, <2>1 DEF Poll
    <3>2. files \subseteq Invocations
      BY <3>1 DEF Stable, Candidates
    <3> QED
      BY <1>1, <1>6, <2>1, <3>1, <3>2 DEF Poll
  <2>2. CASE Stable(i) = {}
    BY <1>6, <2>2 DEF Poll
  <2> QED
    BY <2>1, <2>2
<1>7. ASSUME NEW i \in Invocations, Succeed(i)
      PROVE  FileTypes'
  <2>1. \/ UNCHANGED fileVars
        \/ Import(i, {i}) /\ UNCHANGED <<snapshot, polled>>
    BY <1>7 DEF Succeed
  <2> QED
    BY <1>1, <2>1 DEF fileVars
<1>8. ASSUME PathCrash
      PROVE  FileTypes'
  BY <1>0, <1>8 DEF PathCrash
<1>9. \/ UNCHANGED fileVars \/ PathCrash
      \/ \E i \in Invocations : \/ Forget(i) /\ UNCHANGED <<folder, artifacts, truncated>>
                                \/ Dispatch(i) \/ Perform(i) \/ ProviderFails(i) \/ Poll(i)
                                \/ Succeed(i)
  BY DEF PathNext, LoopStep, pathVars, BeginInvoke, EvaluateGate, Denied, BeforeInvoke, Cancel,
     Deadline, Restored, EmitTerminal, fileVars
<1> QED
  BY <1>2, <1>3, <1>4, <1>5, <1>6, <1>7, <1>8, <1>9 DEF fileVars

-----------------------------------------------------------------------------
(* Gates *)

\* Only the gates' own step adds rows, and they are of its invocation.
LEMMA OtherRowsKept ==
  ASSUME NEW i \in Invocations, NEW j \in Invocations, NEW g \in Gates, NEW h \in Gates,
         EvaluateGate(j, g), i # j \/ h # g, NEW decision \in {"allow", "deny"}
  PROVE  <<i, h, decision>> \in decisions' <=> <<i, h, decision>> \in decisions
  BY DEF EvaluateGate, RecordDecision

LEMMA GatesKept ==
  ASSUME PathTypeOK, [PathNext]_pathVars, NEW i \in Invocations,
         kind[i] # "control", GatesOK(i), EffectOK(i)
  PROVE  GatesOK(i)'
<1>0. ControlTypes
  BY TypesInParts
<1>1. ASSUME UNCHANGED decisions, stage'[i] = stage[i],
             unheard'[i] = unheard[i], refused'[i] = refused[i],
             effect'[i] # "unsent" => effect[i] # "unsent"
      PROVE  GatesOK(i)'
  BY <1>1 DEF GatesOK, Unjudged, Cleared
<1>2. ASSUME UNCHANGED decisions, stage'[i] \notin {"new", "gates"},
             stage'[i] = "dispatch" \/ effect'[i] # "unsent" => Cleared(i)
      PROVE  GatesOK(i)'
  BY <1>2 DEF GatesOK, Cleared
<1>3. ASSUME NEW j \in Invocations, NEW g \in Gates, EvaluateGate(j, g)
      PROVE  GatesOK(i)'
  <2>1. CASE i # j
    <3>1. \A h \in Gates, decision \in {"allow", "deny"} :
            <<i, h, decision>> \in decisions' <=> <<i, h, decision>> \in decisions
      BY <1>3, <2>1, OtherRowsKept
    <3>2. /\ stage'[i] = stage[i] /\ unheard'[i] = unheard[i] /\ refused'[i] = refused[i]
          /\ effect'[i] = effect[i]
      BY <1>0, <1>3, <2>1 DEF EvaluateGate, ControlTypes
    <3> QED
      BY <3>1, <3>2 DEF GatesOK, Unjudged, Cleared
  <2>2. CASE i = j
    <3>1. stage[i] = "gates" /\ stage'[i] = "gates" /\ effect'[i] = "unsent"
      BY <1>0, <1>3, <2>2 DEF EvaluateGate, EffectOK, BeforeDispatch, ControlTypes
    <3>2. ASSUME NEW h \in Gates, h # g
          PROVE  IF h \in unheard'[i] THEN Unjudged(i, h)'
                 ELSE ~refused'[i] =>
                        <<i, h, "allow">> \in decisions' /\ <<i, h, "deny">> \notin decisions'
      <4>1. /\ <<i, h, "allow">> \in decisions' <=> <<i, h, "allow">> \in decisions
            /\ <<i, h, "deny">> \in decisions' <=> <<i, h, "deny">> \in decisions
        BY <1>3, <2>2, <3>2, OtherRowsKept
      <4>2. /\ h \in unheard'[i] <=> h \in unheard[i]
            /\ ~refused'[i] => ~refused[i]
        BY <1>0, <1>3, <2>2, <3>2 DEF EvaluateGate, ControlTypes
      <4> QED
        BY <3>1, <4>1, <4>2 DEF GatesOK, Unjudged
    <3>3. /\ g \notin unheard'[i]
          /\ ~refused'[i] =>
                <<i, g, "allow">> \in decisions' /\ <<i, g, "deny">> \notin decisions'
      <4>1. g \in unheard[i] /\ Unjudged(i, g) /\ unheard'[i] = unheard[i] \ {g}
        BY <1>0, <1>3, <2>2, <3>1 DEF EvaluateGate, ControlTypes, GatesOK
      <4>2. PICK decision \in {"allow", "deny"}, stored \in BOOLEAN :
              /\ RecordDecision(i, g, decision, stored)
              /\ refused' = [refused EXCEPT ![i] = @ \/ Refuses(decision, stored)]
        BY <1>3, <2>2 DEF EvaluateGate
      <4>3. ~refused'[i] => decision = "allow" /\ stored
        BY <1>0, <4>2 DEF Refuses, ControlTypes
      <4>4. decision = "allow" /\ stored => decisions' = decisions \cup {<<i, g, "allow">>}
        BY <4>2 DEF RecordDecision
      <4> QED
        BY <4>1, <4>3, <4>4 DEF Unjudged
    <3> QED
      BY <3>1, <3>2, <3>3 DEF GatesOK
  <2> QED
    BY <2>1, <2>2
<1>4. ASSUME NEW j \in Invocations, BeginInvoke(j)
      PROVE  GatesOK(i)'
  <2>1. CASE i # j
    BY <1>0, <1>1, <1>4, <2>1 DEF BeginInvoke, ControlTypes
  <2>2. CASE i = j /\ stage'[i] = "rejected"
    BY <1>0, <1>2, <1>4, <2>2 DEF BeginInvoke, EffectOK, BeforeDispatch
  <2>3. CASE i = j /\ stage'[i] = "gates" /\ unheard'[i] = Gates
    <3>1. /\ \A h \in Gates : Unjudged(i, h)
          /\ UNCHANGED <<decisions, effect>> /\ effect[i] = "unsent"
      BY <1>0, <1>4, <2>3 DEF BeginInvoke, GatesOK, EffectOK, BeforeDispatch, ControlTypes
    <3> QED
      BY <2>3, <3>1 DEF GatesOK, Unjudged
  <2> QED
    BY <1>0, <1>4, <2>1, <2>2, <2>3 DEF BeginInvoke, ControlTypes
<1>5. ASSUME NEW j \in Invocations, BeforeInvoke(j)
      PROVE  GatesOK(i)'
  <2>1. CASE i # j
    BY <1>0, <1>1, <1>5, <2>1 DEF BeforeInvoke, gateVars, ControlTypes
  <2>2. CASE i = j
    <3>1. stage[i] = "gates" /\ unheard[i] = {} /\ ~refused[i] /\ stage'[i] = "dispatch"
      BY <1>0, <1>5, <2>2 DEF BeforeInvoke, ControlTypes
    <3>2. Cleared(i)
      BY <3>1 DEF GatesOK, Cleared
    <3> QED
      BY <1>2, <1>5, <3>1, <3>2 DEF BeforeInvoke, gateVars
  <2> QED
    BY <2>1, <2>2
<1>6. ASSUME NEW j \in Invocations, Dispatch(j)
      PROVE  GatesOK(i)'
  <2>1. CASE i # j
    BY <1>0, <1>1, <1>6, <2>1 DEF Dispatch, Conclude, gateVars, ControlTypes
  <2>2. CASE i = j
    <3>1. stage[i] = "dispatch" /\ stage'[i] \in {"awaiting", "terminal"} /\ UNCHANGED decisions
      BY <1>0, <1>6, <2>2 DEF Dispatch, Conclude, gateVars, ControlTypes
    <3> QED
      BY <1>2, <3>1 DEF GatesOK
  <2> QED
    BY <2>1, <2>2
<1>7. ASSUME NEW j \in Invocations, Perform(j)
      PROVE  GatesOK(i)'
  BY <1>0, <1>1, <1>7 DEF Perform, gateVars, ControlTypes
<1>8. ASSUME NEW j \in Invocations,
             \/ Denied(j) \/ Poll(j) \/ Deadline(j) \/ Restored(j) \/ EmitTerminal(j)
             \/ Succeed(j) \/ ProviderFails(j) \/ Cancel(j)
      PROVE  GatesOK(i)'
  <2>1. UNCHANGED <<gateVars, effect>>
    BY <1>8 DEF Denied, Poll, Deadline, Restored, EmitTerminal, Succeed, ProviderFails, Cancel
  <2>2. \/ stage'[i] = stage[i]
        \/ stage'[i] \notin BeforeDispatch
    BY <1>0, <1>8 DEF Denied, Poll, Deadline, Restored, EmitTerminal, Succeed, ProviderFails,
       Cancel, Conclude, BeforeDispatch, ControlTypes
  <2> QED
    BY <1>1, <1>2, <2>1, <2>2 DEF gateVars, GatesOK, BeforeDispatch
<1>9. ASSUME PathCrash
      PROVE  GatesOK(i)'
  <2>1. /\ UNCHANGED <<decisions, effect>>
        /\ stage'[i] = IF stage[i] \in Final \cup {"new"} THEN stage[i] ELSE "lost"
    BY <1>9 DEF PathCrash
  <2>2. CASE stage[i] = "new"
    BY <2>1, <2>2 DEF GatesOK, Unjudged, Cleared
  <2>3. CASE stage[i] # "new"
    BY <1>2, <2>1, <2>3 DEF GatesOK, Final
  <2> QED
    BY <2>2, <2>3
<1>10. CASE UNCHANGED pathVars
  BY <1>1, <1>10 DEF pathVars, gateVars
<1> QED
  BY <1>3, <1>4, <1>5, <1>6, <1>7, <1>8, <1>9, <1>10 DEF PathNext, LoopStep

-----------------------------------------------------------------------------
(* Effects and files *)

LEMMA EffectKept ==
  ASSUME PathTypeOK, [PathNext]_pathVars, \A i \in Invocations : EffectOK(i),
         NEW i \in Invocations
  PROVE  EffectOK(i)'
<1>0. ControlTypes /\ FileTypes /\ EffectOK(i)
  BY TypesInParts
<1>1. ASSUME UNCHANGED <<effect, folder>>,
             stage'[i] = stage[i] \/ stage'[i] \notin BeforeDispatch \cup {"denied", "terminal"},
             answer'[i] = answer[i]
      PROVE  EffectOK(i)'
  BY <1>0, <1>1 DEF EffectOK
<1>2. ASSUME NEW j \in Invocations, BeginInvoke(j) \/ Denied(j) \/ BeforeInvoke(j)
      PROVE  EffectOK(i)'
  <2>1. CASE i # j
    BY <1>0, <1>1, <1>2, <2>1 DEF BeginInvoke, Denied, BeforeInvoke, fileVars, ControlTypes
  <2>2. CASE i = j
    BY <1>0, <1>2, <2>2 DEF BeginInvoke, Denied, BeforeInvoke, fileVars, ControlTypes, EffectOK,
       BeforeDispatch
  <2> QED
    BY <2>1, <2>2
<1>3. ASSUME NEW j \in Invocations, NEW g \in Gates, EvaluateGate(j, g)
      PROVE  EffectOK(i)'
  BY <1>1, <1>3 DEF EvaluateGate, fileVars
<1>4. ASSUME NEW j \in Invocations, Dispatch(j)
      PROVE  EffectOK(i)'
  BY <1>0, <1>4 DEF Dispatch, Conclude, ControlTypes, EffectOK, BeforeDispatch, Terminal
<1>5. ASSUME NEW j \in Invocations, Perform(j)
      PROVE  EffectOK(i)'
  <2>1. folder'[i] = folder[i] \/ (i = j /\ effect'[i] = "performed")
    <3>1. effect[j] # "performed" => folder[j] \notin Unfinished
      BY <1>0 DEF EffectOK, Unfinished
    <3> QED
      BY <1>0, <1>5, <3>1 DEF Perform, ControlTypes, FileTypes
  <2>2. /\ UNCHANGED <<stage, answer>>
        /\ effect'[i] = effect[i] \/ (effect[i] = "sent" /\ effect'[i] = "performed")
    BY <1>0, <1>5 DEF Perform, ControlTypes
  <2> QED
    BY <1>0, <2>1, <2>2 DEF EffectOK
<1>6. ASSUME NEW j \in Invocations, ProviderFails(j) \/ Restored(j)
      PROVE  EffectOK(i)'
  BY <1>0, <1>6 DEF ProviderFails, Restored, Conclude, fileVars, ControlTypes, EffectOK,
     BeforeDispatch, Terminal
<1>7. ASSUME NEW files, Import(i, files) \/ \E j \in Invocations : Import(j, files),
             \A d \in files : folder[d] # "absent", UNCHANGED <<effect>>,
             stage'[i] = stage[i] \/ stage'[i] \notin BeforeDispatch \cup {"denied"},
             stage'[i] = "terminal" => answer'[i] \in Terminal
      PROVE  EffectOK(i)'
  <2>1. folder'[i] = IF i \in files THEN "removed" ELSE folder[i]
    BY <1>7 DEF Import
  <2>2. i \in files => effect[i] = "performed"
    BY <1>0, <1>7 DEF EffectOK
  <2> QED
    BY <1>0, <1>7, <2>1, <2>2 DEF EffectOK
<1>8. ASSUME NEW j \in Invocations, Succeed(j)
      PROVE  EffectOK(i)'
  <2>1. /\ UNCHANGED effect
        /\ stage'[i] = stage[i] \/ stage'[i] \notin BeforeDispatch \cup {"denied"}
        /\ stage'[i] = "terminal" => answer'[i] \in Terminal
    BY <1>0, <1>8 DEF Succeed, Conclude, ControlTypes, EffectOK, BeforeDispatch, Terminal
  <2>2. CASE UNCHANGED fileVars
    BY <1>0, <2>1, <2>2 DEF EffectOK, fileVars
  <2>3. CASE Import(j, {j}) /\ folder[j] = "whole"
    BY <1>7, <2>1, <2>3
  <2> QED
    BY <1>8, <2>2, <2>3 DEF Succeed
<1>9. ASSUME NEW j \in Invocations, Poll(j)
      PROVE  EffectOK(i)'
  <2>1. /\ UNCHANGED <<effect, answer>>
        /\ stage'[i] = stage[i] \/ stage'[i] = "restoring"
    BY <1>0, <1>9 DEF Poll, ControlTypes
  <2>2. CASE UNCHANGED folder
    BY <1>1, <2>1, <2>2 DEF BeforeDispatch
  <2>3. ASSUME NEW files \in SUBSET Stable(j), Import(j, files)
        PROVE  EffectOK(i)'
    <3>1. \A d \in files : folder[d] # "absent"
      BY DEF Stable, Candidates, Unfinished
    <3>2. stage'[i] = "terminal" => answer'[i] \in Terminal
      BY <1>0, <2>1 DEF EffectOK
    <3> QED
      BY <1>7, <2>1, <2>3, <3>1, <3>2 DEF BeforeDispatch
  <2> QED
    BY <1>9, <2>2, <2>3 DEF Poll
<1>10. ASSUME NEW j \in Invocations, Cancel(j) \/ Deadline(j) \/ EmitTerminal(j)
       PROVE  EffectOK(i)'
  BY <1>0, <1>1, <1>10 DEF Cancel, Deadline, EmitTerminal, fileVars, ControlTypes, BeforeDispatch
<1>11. ASSUME PathCrash
       PROVE  EffectOK(i)'
  BY <1>0, <1>1, <1>11 DEF PathCrash, BeforeDispatch, Final
<1>12. CASE UNCHANGED pathVars
  BY <1>0, <1>12 DEF pathVars, fileVars, EffectOK
<1> QED
  BY <1>2, <1>3, <1>4, <1>5, <1>6, <1>8, <1>9, <1>10, <1>11, <1>12 DEF PathNext, LoopStep

\* What has become whole stays so until it is handed over.
LEMMA FilesStay ==
  ASSUME FileTypes, \A i \in Invocations : EffectOK(i), NEW j \in Invocations, Perform(j)
  PROVE  \A d \in Invocations : folder[d] \in {"whole", "removed"} => folder'[d] = folder[d]
<1>1. folder[j] \notin {"whole", "removed"} \/ UNCHANGED folder
  BY DEF Perform, EffectOK, Unfinished
<1> QED
  BY <1>1 DEF Perform, FileTypes

LEMMA FilesKept ==
  ASSUME PathTypeOK, [PathNext]_pathVars, \A i \in Invocations : EffectOK(i), FilesOK
  PROVE  FilesOK'
<1> USE DEF DownloadsAreDelivered
<1>0. FileTypes /\ ControlTypes /\ UNCHANGED kind
  BY TypesInParts DEF PathNext, pathVars
<1>1. ASSUME UNCHANGED <<artifacts, truncated>>,
             \A d \in Invocations : folder[d] \in {"whole", "removed"} => folder'[d] = folder[d],
             \A i, d \in Invocations :
                \/ snapshot'[i][d] \in {snapshot[i][d], "absent"}
                \/ snapshot'[i][d] = folder[d] /\ folder' = folder /\ d # i
      PROVE  FilesOK'
  <2>1. \A i, d \in Invocations : d \in artifacts'[i] => folder'[d] = "removed"
    BY <1>1 DEF FilesOK
  <2>2. \A i, d \in Invocations : snapshot'[i][d] = "whole" => folder'[d] \in {"whole", "removed"}
    BY <1>1 DEF FilesOK
  <2>3. \A i \in Invocations : snapshot'[i][i] = "absent"
    BY <1>1 DEF FilesOK
  <2>4. NothingOlderTaken'
    BY <1>1 DEF FilesOK, NothingOlderTaken
  <2>5. DeliveredOnce' /\ CutPdfsWereMarked'
    BY <1>0, <1>1 DEF FilesOK, DeliveredOnce, CutPdfsWereMarked
  <2> QED
    BY <2>1, <2>2, <2>3, <2>4, <2>5 DEF FilesOK
<1>2. ASSUME NEW j \in Invocations, NEW files \in SUBSET Invocations, Import(j, files),
             UNCHANGED snapshot,
             \A d \in files : /\ folder[d] # "removed"
                              /\ kind[d] = "pdf download" => folder[d] # "partial"
                              /\ snapshot[j][d] # "whole"
      PROVE  FilesOK'
  <2>1. \A d \in Invocations : folder'[d] = IF d \in files THEN "removed" ELSE folder[d]
    BY <1>2 DEF Import
  <2>2. \A i \in Invocations : artifacts'[i] = IF i = j THEN artifacts[i] \cup files ELSE artifacts[i]
    BY <1>0, <1>2 DEF Import, FileTypes
  <2>3. \A i \in Invocations : artifacts[i] \cap files = {}
    BY <1>0, <1>2 DEF FilesOK, FileTypes
  <2>4. \A i, d \in Invocations : d \in artifacts'[i] => folder'[d] = "removed"
    BY <2>1, <2>2 DEF FilesOK
  <2>5. DeliveredOnce'
    BY <2>2, <2>3 DEF FilesOK, DeliveredOnce
  <2>6. CutPdfsWereMarked'
    <3>1. \A c \in truncated' : c \in truncated \/ \E d \in files : c = <<d, folder[d]>> /\ folder[d] \in Unfinished
      BY <1>2 DEF Import
    <3>2. \A d \in files : kind'[d] = "pdf download" /\ folder[d] \in Unfinished => folder[d] = "marked"
      BY <1>0, <1>2 DEF Unfinished
    <3>3. \A c \in truncated : kind'[c[1]] = "pdf download" => c[2] = "marked"
      BY <1>0 DEF FilesOK, CutPdfsWereMarked
    <3>4. ASSUME NEW c \in truncated', kind'[c[1]] = "pdf download"
          PROVE  c[2] = "marked"
      <4>1. CASE c \in truncated
        BY <3>3, <3>4, <4>1
      <4>2. ASSUME NEW d \in files, c = <<d, folder[d]>>, folder[d] \in Unfinished
            PROVE  c[2] = "marked"
        <5>1. c[1] = d /\ c[2] = folder[d]
          BY <4>2
        <5> QED
          BY <3>2, <3>4, <4>2, <5>1
      <4> QED
        BY <3>1, <4>1, <4>2
    <3> QED
      BY <3>4 DEF CutPdfsWereMarked
  <2>7. NothingOlderTaken'
    BY <1>2, <2>2 DEF FilesOK, NothingOlderTaken
  <2>8. /\ \A i, d \in Invocations : snapshot'[i][d] = "whole" => folder'[d] \in {"whole", "removed"}
        /\ \A i \in Invocations : snapshot'[i][i] = "absent"
    BY <1>2, <2>1 DEF FilesOK
  <2> QED
    BY <2>4, <2>5, <2>6, <2>7, <2>8 DEF FilesOK
<1>3. ASSUME NEW j \in Invocations, Perform(j)
      PROVE  FilesOK'
  BY <1>0, <1>1, <1>3, FilesStay DEF Perform
<1>4. ASSUME NEW j \in Invocations, Succeed(j)
      PROVE  FilesOK'
  <2>1. CASE UNCHANGED fileVars
    BY <1>1, <2>1 DEF fileVars
  <2>2. CASE Import(j, {j}) /\ folder[j] = "whole" /\ UNCHANGED snapshot
    <3>1. PICK files \in SUBSET Invocations : files = {j}
      OBVIOUS
    <3>2. Import(j, files)
      BY <2>2, <3>1
    <3>3. \A d \in files : /\ folder[d] # "removed"
                           /\ kind[d] = "pdf download" => folder[d] # "partial"
                           /\ snapshot[j][d] # "whole"
      BY <2>2, <3>1 DEF FilesOK
    <3> QED
      BY <1>2, <2>2, <3>2, <3>3
  <2> QED
    BY <1>4, <2>1, <2>2 DEF Succeed
<1>5. ASSUME NEW j \in Invocations, Poll(j)
      PROVE  FilesOK'
  <2>1. CASE UNCHANGED <<folder, artifacts, truncated>>
    BY <1>1, <1>5, <2>1 DEF Poll
  <2>2. ASSUME NEW files \in SUBSET Stable(j), Import(j, files)
        PROVE  FilesOK'
    <3>1. files \subseteq Invocations
      BY DEF Stable, Candidates
    <3>2. \A d \in files : /\ folder[d] # "removed"
                           /\ kind[d] = "pdf download" => folder[d] # "partial"
      BY DEF Stable, Candidates, Unfinished
    <3>3. \A d \in files : snapshot[j][d] # "whole"
      <4>1. \A d \in files : d \in Invocations /\ folder[d] # snapshot[j][d]
        BY DEF Stable, Candidates
      <4>2. \A d \in Invocations : snapshot[j][d] = "whole" => folder[d] \in {"whole", "removed"}
        BY DEF FilesOK
      <4> QED
        BY <3>2, <4>1, <4>2
    <3> QED
      BY <1>2, <1>5, <2>2, <3>1, <3>2, <3>3 DEF Poll
  <2> QED
    BY <1>5, <2>1, <2>2 DEF Poll
<1>6. ASSUME NEW j \in Invocations, Dispatch(j)
      PROVE  FilesOK'
  <2>1. folder[j] = "absent"
    BY <1>6 DEF Dispatch, EffectOK, BeforeDispatch
  <2>2. UNCHANGED <<folder, artifacts, truncated>>
    BY <1>6 DEF Dispatch
  <2>3. \A i, d \in Invocations :
           \/ snapshot'[i][d] \in {snapshot[i][d], "absent"}
           \/ snapshot'[i][d] = folder[d] /\ d # i
    BY <1>0, <1>6, <2>1 DEF Dispatch, FileTypes
  <2> QED
    BY <1>1, <2>2, <2>3
<1>7. ASSUME UNCHANGED <<folder, artifacts, truncated>>,
             \A i \in Invocations : snapshot'[i] = snapshot[i] \/ snapshot'[i] = Empty
      PROVE  FilesOK'
  <2>1. \A i, d \in Invocations : snapshot'[i][d] \in {snapshot[i][d], "absent"}
    BY <1>7 DEF Empty
  <2> QED
    BY <1>1, <1>7, <2>1
<1>8. ASSUME NEW j \in Invocations, Cancel(j) \/ EmitTerminal(j)
      PROVE  FilesOK'
  <2>1. \A i \in Invocations : snapshot'[i] = snapshot[i] \/ snapshot'[i] = Empty
    BY <1>0, <1>8 DEF Cancel, EmitTerminal, Forget, FileTypes
  <2> QED
    BY <1>7, <1>8, <2>1 DEF Cancel, EmitTerminal
<1>9. CASE PathCrash
  BY <1>7, <1>9 DEF PathCrash
<1>10. CASE UNCHANGED <<folder, artifacts, truncated, snapshot>>
  BY <1>7, <1>10
<1>11. \/ UNCHANGED <<folder, artifacts, truncated, snapshot>> \/ PathCrash
       \/ \E i \in Invocations : \/ Perform(i) \/ Poll(i) \/ Succeed(i)
                                 \/ Dispatch(i) \/ Cancel(i) \/ EmitTerminal(i)
  BY DEF PathNext, LoopStep, pathVars, BeginInvoke, EvaluateGate, Denied, BeforeInvoke,
     ProviderFails, Deadline, Restored, fileVars
<1> QED
  BY <1>3, <1>4, <1>5, <1>6, <1>8, <1>9, <1>10, <1>11

-----------------------------------------------------------------------------
(* Events *)

\* A row e of invocation j comes last in the log.
Adds(j, e) ==
    /\ events' \in Seq(EventRecord) /\ Len(events') = Len(events) + 1
    /\ \A n \in 1..Len(events) : events'[n] = events[n]
    /\ events'[Len(events) + 1] = e
    /\ e \in EventRecord /\ e.of = j

\* _emit_runtime_event, in these terms.
LEMMA EmitAdds ==
  ASSUME EventTypes, NEW j \in Invocations,
         NEW type \in Terminal \cup {"capability.gate_denied", "capability.before_invoke"},
         NEW cause \in Nat, Emit(j, type, cause)
  PROVE  events' = events \/ Adds(j, [type |-> type, of |-> j, cause |-> cause])
<1> DEFINE e == [type |-> type, of |-> j, cause |-> cause]
<1>1. e \in EventRecord /\ e.of = j
  BY DEF EventRecord
<1>2. /\ events' \in Seq(EventRecord)
      /\ \/ events' = events
         \/ /\ Len(events') = Len(events) + 1
            /\ \A n \in 1..Len(events) : events'[n] = events[n]
            /\ events'[Len(events) + 1] = e
  <2>1. events \in Seq(EventRecord)
    BY DEF EventTypes
  <2> QED
    BY <2>1, EmitAppends
<1> HIDE DEF e
<1>3. events' = events \/ Adds(j, e)
  BY <1>1, <1>2 DEF Adds
<1> QED
  BY <1>3 DEF e

\* The rows that were there keep their story, given the new row's own.
LEMMA OldRowsKept ==
  ASSUME EventTypes, DenialsAreFinal, EventsTellOneStory, NEW j \in Invocations, NEW e, Adds(j, e),
         stage[j] # "denied", NEW n \in 1..Len(events),
         events[n].type = "capability.gate_denied" => effect'[events[n].of] = "unsent"
  PROVE  /\ events'[n].type \in Terminal =>
              /\ events'[n].cause # 0 =>
                    /\ events'[n].cause < n /\ events'[events'[n].cause].of = events'[n].of
                    /\ events'[events'[n].cause].type = "capability.before_invoke"
              /\ \A m \in 1..(n-1) : events'[m].of = events'[n].of => m = events'[n].cause
         /\ events'[n].type = "capability.gate_denied" =>
              /\ effect'[events'[n].of] = "unsent"
              /\ \A m \in DOMAIN events' : events'[m].of = events'[n].of => m = n
<1>1. /\ Len(events) \in Nat /\ n \in DOMAIN events /\ events'[n] = events[n]
      /\ events[n] \in EventRecord /\ DOMAIN events' = 1..Len(events) + 1
      /\ DOMAIN events = 1..Len(events)
  BY DEF EventTypes, Adds
<1>2. events[n].cause \in Nat
  BY <1>1 DEF EventRecord
<1>3. ASSUME events[n].type \in Terminal
      PROVE  /\ events[n].cause # 0 =>
                    /\ events[n].cause < n /\ events'[events[n].cause].of = events[n].of
                    /\ events'[events[n].cause].type = "capability.before_invoke"
             /\ \A m \in 1..(n-1) : events'[m].of = events[n].of => m = events[n].cause
  <2>1. /\ events[n].cause # 0 =>
                /\ events[n].cause < n /\ events[events[n].cause].of = events[n].of
                /\ events[events[n].cause].type = "capability.before_invoke"
        /\ \A m \in 1..(n-1) : events[m].of = events[n].of => m = events[n].cause
    BY <1>1, <1>3 DEF EventsTellOneStory
  <2>2. \A m \in 1..(n-1) : events'[m] = events[m]
    BY <1>1 DEF Adds
  <2>3. events[n].cause # 0 => events[n].cause \in 1..(n-1)
    BY <1>1, <1>2, <2>1
  <2> QED
    BY <2>1, <2>2, <2>3
<1>4. ASSUME events[n].type = "capability.gate_denied", NEW m \in DOMAIN events',
             events'[m].of = events[n].of
      PROVE  m = n
  <2>1. stage[events[n].of] = "denied"
    BY <1>1, <1>4 DEF DenialsAreFinal
  <2>2. m # Len(events) + 1
    BY <1>4, <2>1 DEF Adds
  <2>3. m \in DOMAIN events /\ events'[m] = events[m]
    BY <1>1, <1>4, <2>2 DEF Adds
  <2> QED
    BY <1>1, <1>4, <2>3 DEF EventsTellOneStory
<1> QED
  BY <1>1, <1>3, <1>4

\* The log after a row of j that tells j's story.
LEMMA NewRowTells ==
  ASSUME EventTypes, DenialsAreFinal, EventsTellOneStory, NEW j \in Invocations, NEW e, Adds(j, e),
         stage[j] # "denied", UNCHANGED effect, \A i \in Invocations : EffectOK(i),
         \A i \in Invocations \ {j} : stage'[i] = stage[i],
         e.type \in Terminal =>
              /\ e.cause # 0 => /\ e.cause <= Len(events) /\ events[e.cause].of = j
                                /\ events[e.cause].type = "capability.before_invoke"
              /\ \A m \in 1..Len(events) : events[m].of = j => m = e.cause,
         e.type = "capability.gate_denied" =>
              /\ effect[j] = "unsent" /\ stage'[j] = "denied"
              /\ \A m \in 1..Len(events) : events[m].of # j
  PROVE  EventsTellOneStory' /\ DenialsAreFinal'
<1>1. /\ Len(events) \in Nat /\ DOMAIN events' = 1..Len(events) + 1 /\ DOMAIN events = 1..Len(events)
      /\ \A n \in 1..Len(events) : events[n] \in EventRecord /\ events'[n] = events[n]
      /\ events'[Len(events) + 1] = e /\ e \in EventRecord /\ e.of = j
  BY DEF EventTypes, Adds
<1>2. \A n \in 1..Len(events) : events[n].type = "capability.gate_denied" =>
         stage[events[n].of] = "denied" /\ events[n].of \in Invocations \ {j}
  BY <1>1 DEF DenialsAreFinal, EventRecord
<1>3. DenialsAreFinal'
  BY <1>1, <1>2 DEF DenialsAreFinal
<1> DEFINE Tells(n) ==
             /\ events'[n].type \in Terminal =>
                  /\ events'[n].cause # 0 =>
                        /\ events'[n].cause < n /\ events'[events'[n].cause].of = events'[n].of
                        /\ events'[events'[n].cause].type = "capability.before_invoke"
                  /\ \A m \in 1..(n-1) : events'[m].of = events'[n].of => m = events'[n].cause
             /\ events'[n].type = "capability.gate_denied" =>
                  /\ effect'[events'[n].of] = "unsent"
                  /\ \A m \in DOMAIN events' : events'[m].of = events'[n].of => m = n
<1>4. ASSUME NEW n \in 1..Len(events)
      PROVE  Tells(n)
  <2>1. events[n].type = "capability.gate_denied" => effect'[events[n].of] = "unsent"
    BY <1>2 DEF EffectOK
  <2> QED
    BY <2>1, OldRowsKept
<1>5. Tells(Len(events) + 1)
  <2> DEFINE last == Len(events) + 1
  <2>1. last - 1 = Len(events) /\ events'[last] = e
    BY <1>1
  <2>2. ASSUME e.type \in Terminal
        PROVE  /\ e.cause # 0 =>
                    /\ e.cause < last /\ events'[e.cause].of = e.of
                    /\ events'[e.cause].type = "capability.before_invoke"
               /\ \A m \in 1..Len(events) : events'[m].of = e.of => m = e.cause
    <3>1. e.cause \in Nat
      BY <1>1 DEF EventRecord
    <3>2. e.cause # 0 => e.cause \in 1..Len(events)
      BY <1>1, <2>2, <3>1
    <3> QED
      BY <1>1, <2>2, <3>1, <3>2
  <2>3. ASSUME e.type = "capability.gate_denied"
        PROVE  /\ effect'[e.of] = "unsent"
               /\ \A m \in DOMAIN events' : events'[m].of = e.of => m = last
    BY <1>1, <2>3
  <2> QED
    BY <2>1, <2>2, <2>3
<1>6. \A n \in DOMAIN events' : Tells(n)
  BY <1>1, <1>4, <1>5
<1> QED
  BY <1>3, <1>6 DEF EventsTellOneStory

\* A row of j, or a step of j without one, is not of the others' story.
LEMMA OtherStoryKept ==
  ASSUME EventTypes, NEW j \in Invocations, NEW e, Adds(j, e) \/ events' = events,
         NEW i \in Invocations, i # j, StoryOK(i),
         stage'[i] = stage[i], causation'[i] = causation[i]
  PROVE  StoryOK(i)'
<1>1. /\ Len(events) \in Nat /\ DOMAIN events = 1..Len(events) /\ causation[i] \in 0..Len(events)
  BY DEF EventTypes
<1>2. CASE events' = events
  BY <1>2 DEF StoryOK
<1>3. CASE Adds(j, e)
  <2>1. /\ DOMAIN events' = 1..Len(events) + 1
        /\ \A n \in 1..Len(events) : events'[n] = events[n]
        /\ events'[Len(events) + 1].of # i
    BY <1>1, <1>3 DEF Adds
  <2>2. causation[i] # 0 => causation[i] \in 1..Len(events)
    BY <1>1
  <2>3. stage[i] \in OnItsWay /\ causation[i] # 0 =>
          /\ events'[causation[i]].of = i
          /\ events'[causation[i]].type = "capability.before_invoke"
    BY <2>1, <2>2 DEF StoryOK
  <2>4. ASSUME NEW n \in DOMAIN events', events'[n].of = i
        PROVE  n \in DOMAIN events /\ events[n].of = i
    BY <1>1, <2>1, <2>4
  <2> QED
    BY <2>3, <2>4 DEF StoryOK
<1> QED
  BY <1>2, <1>3

StoryInv ==
    /\ \A i \in Invocations : StoryOK(i)
    /\ DenialsAreFinal /\ EventsTellOneStory

LEMMA StoryKept ==
  ASSUME PathTypeOK, [PathNext]_pathVars, StoryInv,
         \A i \in Invocations : EffectOK(i), \A i \in Invocations : EffectOK(i)'
  PROVE  StoryInv'
<1>0. /\ ControlTypes /\ EventTypes /\ Len(events) \in Nat /\ DOMAIN events = 1..Len(events)
      /\ \A n \in DOMAIN events : events[n] \in EventRecord /\ events[n].of \in Invocations
  <2>1. ControlTypes /\ EventTypes
    BY TypesInParts
  <2>2. events \in Seq(EventRecord)
    BY <2>1 DEF EventTypes
  <2>3. /\ Len(events) \in Nat /\ DOMAIN events = 1..Len(events)
        /\ \A n \in DOMAIN events : events[n] \in EventRecord
    BY <2>2
  <2>4. \A r \in EventRecord : r.of \in Invocations
    BY DEF EventRecord
  <2> QED
    BY <2>1, <2>3, <2>4
<1>1. ASSUME UNCHANGED <<events, causation>>,
             \A i \in Invocations :
                /\ stage'[i] \in {"new", "gates"} => stage[i] \in {"new", "gates"}
                /\ stage'[i] \in OnItsWay => stage[i] \in OnItsWay
                /\ stage[i] = "denied" => stage'[i] = "denied"
      PROVE  StoryInv'
  <2>1. \A i \in Invocations : StoryOK(i)'
    BY <1>1 DEF StoryInv, StoryOK
  <2>2. DenialsAreFinal'
    BY <1>0, <1>1 DEF StoryInv, DenialsAreFinal
  <2>3. \A n \in DOMAIN events : events[n].type = "capability.gate_denied" =>
           effect'[events[n].of] = "unsent"
    BY <1>0, <1>1, <2>2 DEF DenialsAreFinal, EffectOK
  <2>4. EventsTellOneStory'
    BY <1>1, <2>3 DEF StoryInv, EventsTellOneStory
  <2> QED
    BY <2>1, <2>2, <2>4 DEF StoryInv
<1>2. ASSUME NEW j \in Invocations, Denied(j)
      PROVE  StoryInv'
  <2> DEFINE e == [type |-> "capability.gate_denied", of |-> j, cause |-> 0]
  <2>1. /\ stage[j] = "gates" /\ stage' = [stage EXCEPT ![j] = "denied"] /\ stage'[j] = "denied"
        /\ \A i \in Invocations \ {j} : stage'[i] = stage[i]
        /\ UNCHANGED <<causation, effect>> /\ Emit(j, "capability.gate_denied", 0)
    BY <1>0, <1>2 DEF Denied, ControlTypes
  <2>2. events' = events \/ Adds(j, e)
    BY <1>0, <2>1, EmitAdds
  <2>3. CASE events' = events
    BY <1>1, <2>1, <2>3 DEF OnItsWay
  <2>4. CASE Adds(j, e)
    <3>1. \A m \in 1..Len(events) : events[m].of # j
      BY <1>0, <2>1 DEF StoryInv, StoryOK
    <3>2. EventsTellOneStory' /\ DenialsAreFinal'
      <4>1. effect[j] = "unsent" /\ e.type \notin Terminal
        BY <2>1 DEF EffectOK, BeforeDispatch, Terminal
      <4> HIDE DEF e
      <4> QED
        BY <1>0, <2>1, <2>4, <3>1, <4>1, NewRowTells DEF StoryInv
    <3>3. \A i \in Invocations \ {j} : StoryOK(i)'
      BY <1>0, <2>1, <2>4, OtherStoryKept DEF StoryInv
    <3>4. StoryOK(j)'
      BY <2>1 DEF StoryOK, OnItsWay
    <3> QED
      BY <3>2, <3>3, <3>4 DEF StoryInv
  <2> QED
    BY <2>2, <2>3, <2>4
<1>3. ASSUME NEW j \in Invocations, BeforeInvoke(j)
      PROVE  StoryInv'
  <2> DEFINE e == [type |-> "capability.before_invoke", of |-> j, cause |-> 0]
  <2>1. /\ stage[j] = "gates" /\ stage'[j] = "dispatch"
        /\ \A i \in Invocations \ {j} : stage'[i] = stage[i] /\ causation'[i] = causation[i]
        /\ UNCHANGED effect
    BY <1>0, <1>3 DEF BeforeInvoke, ControlTypes, EventTypes
  <2>2. \/ events' = events /\ causation'[j] = 0
        \/ Adds(j, e) /\ causation'[j] = Len(events) + 1
    BY <1>3, BeforeInvokeNotes DEF Adds, EventRecord
  <2>3. \A m \in 1..Len(events) : events[m].of # j
    BY <1>0, <2>1 DEF StoryInv, StoryOK
  <2>4. \A i \in Invocations \ {j} : StoryOK(i)'
    BY <1>0, <2>1, <2>2, OtherStoryKept DEF StoryInv
  <2>5. CASE events' = events /\ causation'[j] = 0
    <3>1. StoryOK(j)'
      BY <1>0, <2>1, <2>3, <2>5 DEF StoryOK
    <3>2. DenialsAreFinal' /\ EventsTellOneStory'
      BY <1>0, <2>1, <2>3, <2>5 DEF StoryInv, DenialsAreFinal, EventsTellOneStory
    <3> QED
      BY <2>4, <3>1, <3>2 DEF StoryInv
  <2>6. CASE Adds(j, e) /\ causation'[j] = Len(events) + 1
    <3>1. EventsTellOneStory' /\ DenialsAreFinal'
      <4>1. e.type \notin Terminal /\ e.type # "capability.gate_denied"
        BY DEF Terminal
      <4> HIDE DEF e
      <4> QED
        BY <1>0, <2>1, <2>6, <4>1, NewRowTells DEF StoryInv
    <3>2. StoryOK(j)'
      BY <1>0, <2>1, <2>3, <2>6 DEF StoryOK, Adds
    <3> QED
      BY <2>4, <3>1, <3>2 DEF StoryInv
  <2> QED
    BY <2>2, <2>5, <2>6
<1>4. ASSUME NEW j \in Invocations, EmitTerminal(j)
      PROVE  StoryInv'
  <2> DEFINE e == [type |-> answer[j], of |-> j, cause |-> causation[j]]
  <2>1. /\ stage[j] = "terminal" /\ stage'[j] = "ended"
        /\ \A i \in Invocations \ {j} : stage'[i] = stage[i]
        /\ UNCHANGED <<causation, effect>> /\ Emit(j, answer[j], causation[j])
        /\ answer[j] \in Terminal /\ causation[j] \in 0..Len(events)
    BY <1>0, <1>4 DEF EmitTerminal, ControlTypes, EffectOK, EventTypes
  <2>2. events' = events \/ Adds(j, e)
    <3>1. causation[j] \in Nat
      BY <1>0, <2>1
    <3> QED
      BY <1>0, <2>1, <3>1, EmitAdds
  <2>3. CASE events' = events
    BY <1>1, <2>1, <2>3 DEF OnItsWay
  <2>4. CASE Adds(j, e)
    <3>1. /\ causation[j] # 0 => /\ causation[j] <= Len(events) /\ events[causation[j]].of = j
                                 /\ events[causation[j]].type = "capability.before_invoke"
          /\ \A m \in 1..Len(events) : events[m].of = j => m = causation[j]
      BY <1>0, <2>1 DEF StoryInv, StoryOK, OnItsWay
    <3>2. EventsTellOneStory' /\ DenialsAreFinal'
      <4>1. e.type # "capability.gate_denied" /\ e.cause = causation[j]
        BY <2>1 DEF Terminal
      <4> HIDE DEF e
      <4> QED
        BY <1>0, <2>1, <2>4, <3>1, <4>1, NewRowTells DEF StoryInv
    <3>3. \A i \in Invocations \ {j} : StoryOK(i)'
      BY <1>0, <2>1, <2>4, OtherStoryKept DEF StoryInv
    <3>4. StoryOK(j)'
      BY <2>1 DEF StoryOK, OnItsWay
    <3> QED
      BY <3>2, <3>3, <3>4 DEF StoryInv
  <2> QED
    BY <2>2, <2>3, <2>4
<1>5. ASSUME NEW j \in Invocations,
             \/ BeginInvoke(j) \/ (\E g \in Gates : EvaluateGate(j, g)) \/ Dispatch(j) \/ Poll(j)
             \/ Deadline(j) \/ Restored(j) \/ Perform(j) \/ Succeed(j) \/ ProviderFails(j) \/ Cancel(j)
      PROVE  StoryInv'
  <2>1. UNCHANGED <<events, causation>>
    BY <1>5 DEF BeginInvoke, EvaluateGate, Dispatch, Poll, Deadline, Restored, Perform, Succeed,
       ProviderFails, Cancel
  <2>2. \/ UNCHANGED stage
        \/ /\ stage[j] = "new" /\ \E where \in {"rejected", "gates"} : stage' = [stage EXCEPT ![j] = where]
        \/ /\ stage[j] \in OnItsWay
           /\ \E where \in (OnItsWay \ {"dispatch"}) \cup {"cancelled"} : stage' = [stage EXCEPT ![j] = where]
    BY <1>5 DEF BeginInvoke, EvaluateGate, Dispatch, Poll, Deadline, Restored, Perform, Succeed,
       ProviderFails, Cancel, Conclude, OnItsWay
  <2> QED
    BY <1>0, <1>1, <2>1, <2>2 DEF OnItsWay, ControlTypes
<1>6. ASSUME PathCrash
      PROVE  StoryInv'
  BY <1>0, <1>1, <1>6 DEF PathCrash, OnItsWay, Final
<1>7. CASE UNCHANGED pathVars
  BY <1>1, <1>7 DEF pathVars
<1> QED
  BY <1>2, <1>3, <1>4, <1>5, <1>6, <1>7 DEF PathNext, LoopStep

-----------------------------------------------------------------------------
(* The inductive invariant *)

LEMMA PathInvInit == PathInit => PathInv
<1> SUFFICES ASSUME PathInit PROVE PathInv
  OBVIOUS
<1>1. PathTypeOK
  <2>1. ControlTypes
    BY DEF PathInit, ControlTypes
  <2>2. EventTypes
    <3>1. <<>> \in Seq(EventRecord) /\ Len(<<>>) = 0
      OBVIOUS
    <3> QED
      BY <3>1 DEF PathInit, EventTypes
  <2>3. FileTypes
    BY DEF PathInit, FileTypes, Empty, DownloadStates
  <2> QED
    BY <2>1, <2>2, <2>3, TypesInParts
<1>2. DOMAIN events = {}
  BY DEF PathInit
<1>3. \A i \in Invocations : GatesOK(i) /\ EffectOK(i) /\ StoryOK(i)
  BY <1>2 DEF PathInit, GatesOK, Unjudged, EffectOK, BeforeDispatch, Empty, StoryOK, OnItsWay
<1>4. DenialsAreFinal /\ EventsTellOneStory
  BY <1>2 DEF DenialsAreFinal, EventsTellOneStory
<1>5. FilesOK
  BY DEF PathInit, FilesOK, DownloadsAreDelivered, DeliveredOnce, CutPdfsWereMarked,
     NothingOlderTaken, Empty
<1> QED
  BY <1>1, <1>3, <1>4, <1>5 DEF PathInv

LEMMA PathInvKept == PathInv /\ [PathNext]_pathVars => PathInv'
<1> SUFFICES ASSUME PathInv, [PathNext]_pathVars PROVE PathInv'
  OBVIOUS
<1>1. /\ PathTypeOK /\ StoryInv /\ FilesOK
      /\ \A i \in Invocations : EffectOK(i)
      /\ \A i \in Invocations : kind[i] # "control" => GatesOK(i)
  BY DEF PathInv, StoryInv
<1>2. PathTypeOK'
  <2>1. ControlTypes' /\ FileTypes'
    BY <1>1, TypesInParts, ControlTypesKept, FileTypesKept
  <2> QED
    BY <1>1, <2>1, TypesInParts, EventTypesKept
<1>3. \A i \in Invocations : EffectOK(i)'
  BY <1>1, EffectKept
<1>4. \A i \in Invocations : kind'[i] # "control" => GatesOK(i)'
  <2>1. UNCHANGED kind
    BY DEF PathNext, pathVars
  <2> QED
    BY <1>1, <2>1, GatesKept
<1>5. StoryInv'
  BY <1>1, <1>3, StoryKept
<1>6. FilesOK'
  BY <1>1, FilesKept
<1> QED
  BY <1>2, <1>3, <1>4, <1>5, <1>6 DEF PathInv, StoryInv

LEMMA PathInvHolds == PathSpec => []PathInv
  BY PathInvInit, PathInvKept, PTL DEF PathSpec

(* Every variable of an invocation, of the event log and of the result folder *)
(* keeps its type; the cause of an event is a row of the log.                *)
THEOREM PathTypeCorrect == PathSpec => []PathTypeOK
<1>1. PathInv => PathTypeOK
  BY DEF PathInv
<1> QED
  BY <1>1, PathInvHolds, PTL

(* Gates fail closed: whatever handlers raise, stores refuse and crashes      *)
(* interrupt, what a provider did was allowed by every gate, in rows on disk. *)
THEOREM GatesFailClosed == PathSpec => []ActedWasAllowed
<1>1. PathInv => ActedWasAllowed
  BY DEF PathInv, ActedWasAllowed, GatesOK, Cleared
<1> QED
  BY <1>1, PathInvHolds, PTL

(* One story of an invocation in the event log: at most one terminal event,   *)
(* caused by its own before_invoke; a denial alone, of a call never sent.     *)
THEOREM OneStory == PathSpec => []EventsTellOneStory
<1>1. PathInv => EventsTellOneStory
  BY DEF PathInv
<1> QED
  BY <1>1, PathInvHolds, PTL

(* A downloaded file is the artifact of one invocation, however many recover  *)
(* at once from the shared folder; what lay there whole at a dispatch is not  *)
(* handed to it; and an unfinished PDF only with an %%EOF in its tail.        *)
THEOREM DownloadsDelivered == PathSpec => []DownloadsAreDelivered
<1>1. PathInv => DownloadsAreDelivered
  BY DEF PathInv, FilesOK
<1> QED
  BY <1>1, PathInvHolds, PTL
=============================================================================
