---------------------- MODULE CapabilitySupportProofs ---------------------
(***************************************************************************)
(* Proofs about what stands around a capability call: the observers that   *)
(* are told of it, the artifacts it makes, the backend that runs its       *)
(* command, and the Windows services it changes through the elevated       *)
(* broker; for every number of observers, artifacts, invocations and       *)
(* calls.                                                                  *)
(*                                                                         *)
(* Observers: every step registers and removes a hook together with its    *)
(* activation (ObserverInv). Artifacts: there is a set of artifacts the    *)
(* collector will not touch, closed under the recorded parents, that holds *)
(* the live ones and, while an output is imported, the inputs it will name *)
(* (Keeps); when a collection begins, the ancestry of the live artifacts   *)
(* is such a set again. Routing: each phase knows what was started where   *)
(* so far (RoutingInv). Services: the broker knows the call it is about,   *)
(* and the files of a call say of its worker only what happened            *)
(* (ServiceInv). At the end, with the invocation path, the types of all    *)
(* that a call passes through.                                             *)
(***************************************************************************)
EXTENDS CapabilityPathProofs, MCCapabilityPath, FiniteSetTheorems,
        SequenceTheorems, TLAPS

(***************************************************************************)
(* Observers and artifacts                                                 *)
(***************************************************************************)
ObserverInv ==
    /\ ObserverTypeOK
    /\ hookOn \cap forceOff = {}
    /\ HookIsItsObservers /\ ObserverLimit

Keeps(S) ==
    /\ S \subseteq Present /\ Live \subseteq S /\ S \cap collecting = {}
    /\ \A a \in S : parentsOf[a] \ revoked \subseteq S
    /\ \A c \in ArtifactCalls : importing \in outputs[c] => stagedInputs[c] \subseteq S

RecordsOK ==
    /\ \A a \in ArtifactIds : dir[a] \in {"free", "reserved"} => parentsOf[a] = {}
    /\ \A a \in revoked : dir[a] = "removed"
    /\ \A c \in ArtifactCalls : \A a \in outputs[c] : dir[a] \in {"exported", "removed"}
    /\ \A c, d \in ArtifactCalls : c # d => outputs[c] \cap outputs[d] = {}
    /\ importing # NoImport => collecting = {}

ArtifactInv ==
    /\ ArtifactTypeOK /\ RecordsOK /\ OutputsNameInputs
    /\ \E S \in SUBSET ArtifactIds : Keeps(S)

-----------------------------------------------------------------------------
(* Observers *)

\* What a change of registrations needs to keep the invariant: `fresh' has
\* manifests to register, and the limit is kept.
LEMMA ReplaceKeeps ==
  ASSUME ObserverInv, NEW gone, NEW fresh, NEW torn, Replace(gone, fresh, torn),
         fresh \subseteq Known, UNCHANGED observerDisk,
         forceOn' \subseteq forceOn, forceOff' \subseteq forceOff,
         Cardinality(Configured') <= MaxObservers
  PROVE  ObserverInv'
<1> USE ObserverAssumption DEF Known
<1>1. ObserverTypeOK
  BY DEF ObserverInv
<1>2. ObserverTypeOK'
  <2>1. hookOf' \in [ObserverIds -> ObserverVersions \cup {NoObserver}]
    BY <1>1 DEF ObserverTypeOK, Replace
  <2>2. activeAs' \in [ObserverIds -> ObserverVersions \cup {NoObserver}]
    BY <1>1 DEF ObserverTypeOK, Replace
  <2>3. hookOn' \subseteq ObserverIds
    BY <1>1 DEF ObserverTypeOK, Replace
  <2>4. \A o \in hookOn' : hookOf'[o] # NoObserver
    BY <1>1, <2>3 DEF ObserverTypeOK, Replace
  <2> QED
    BY <1>1, <2>1, <2>2, <2>3, <2>4 DEF ObserverTypeOK
<1>3. (hookOn \cap forceOff)' = {}
  BY DEF ObserverInv, Replace, On
<1>4. HookIsItsObservers'
  BY DEF ObserverInv, HookIsItsObservers, Replace
<1> QED
  BY <1>2, <1>3, <1>4 DEF ObserverInv, ObserverLimit

\* A set of observers no larger than another has no more of them.
LEMMA FewerObservers ==
  ASSUME NEW S \in SUBSET ObserverIds, NEW T \in SUBSET S
  PROVE  /\ Cardinality(S) \in Nat /\ Cardinality(T) \in Nat
         /\ Cardinality(T) <= Cardinality(S)
<1>1. IsFiniteSet(S)
  BY ObserverAssumption, FS_Subset
<1> QED
  BY <1>1, FS_Subset, FS_CardinalityType

LEMMA RescanKeeps ==
  ASSUME ObserverInv, RescanObservers
  PROVE  ObserverInv'
<1> DEFINE Torn == {o \in ObserverIds : o \in Configured /\ hookOf[o] = NoObserver}
           Removed == Configured \ Wanted
<1>0. /\ ObserverTypeOK /\ UNCHANGED observerDisk /\ forceOn' = forceOn \cap Known
      /\ forceOff' = forceOff \cap Known /\ MaxObservers \in Nat
      /\ Configured \in SUBSET ObserverIds /\ Wanted \subseteq Known /\ Wanted \subseteq ObserverIds
      /\ Cardinality(Configured) <= MaxObservers
  BY ObserverAssumption DEF ObserverInv, ObserverLimit, RescanObservers, Configured, Wanted, SelectedIds, Known
<1>1. ASSUME NEW gone, NEW fresh \in SUBSET (Changed \cup Added), NEW torn, Replace(gone, fresh, torn),
             Removed \subseteq gone, Cardinality(Wanted) <= MaxObservers
      PROVE  ObserverInv'
  <2>1. fresh \subseteq Wanted
    BY DEF Changed, Added
  <2>2. Configured' \in SUBSET Wanted
    BY <1>1, <2>1 DEF Configured, Replace
  <2>3. Cardinality(Configured') <= MaxObservers
    <3>1. Cardinality(Configured') <= Cardinality(Wanted)
      BY <1>0, <2>2, FewerObservers
    <3>2. Cardinality(Configured') \in Nat /\ Cardinality(Wanted) \in Nat
      BY <1>0, <2>2, FewerObservers
    <3> QED
      BY <1>0, <1>1, <3>1, <3>2
  <2> QED
    BY <1>0, <1>1, <2>1, <2>3, ReplaceKeeps
<1>2. ASSUME NEW before, Replace(before, {}, {})
      PROVE  ObserverInv'
  <2>1. Configured' \in SUBSET Configured
    BY <1>2 DEF Configured, Replace
  <2>2. Cardinality(Configured') <= MaxObservers
    <3>1. /\ Cardinality(Configured') <= Cardinality(Configured)
          /\ Cardinality(Configured') \in Nat /\ Cardinality(Configured) \in Nat
      BY <1>0, <2>1, FewerObservers
    <3> QED
      BY <1>0, <3>1
  <2> QED
    BY <1>0, <1>2, <2>2, ReplaceKeeps
<1>3. ASSUME UNCHANGED <<activeAs, hookOf, hookOn>>
      PROVE  ObserverInv'
  <2>1. ObserverTypeOK'
    BY <1>0, <1>3 DEF ObserverTypeOK
  <2> QED
    BY <1>0, <1>3, <2>1 DEF ObserverInv, HookIsItsObservers, ObserverLimit, Configured
<1>4. \/ /\ Cardinality(Wanted) <= MaxObservers
         /\ \/ Replace(Removed, Changed \cup Added, {})
            \/ \E done \in SUBSET (Changed \cup Added) : \E o : Replace(Removed, done, {o} \cap Changed)
            \/ \E before : Replace(before, {}, {})
      \/ UNCHANGED <<activeAs, hookOf, hookOn>>
  BY DEF RescanObservers
<1> QED
  BY <1>1, <1>2, <1>3, <1>4

LEMMA ObserverInvInit == ObserverInit => ObserverInv
<1> SUFFICES ASSUME ObserverInit PROVE ObserverInv
  OBVIOUS
<1> USE ObserverAssumption
<1>1. ObserverTypeOK
  BY DEF ObserverInit, ObserverTypeOK, SelectedIds
<1>2. Configured = SelectedIds
  BY DEF ObserverInit, Configured, SelectedIds
<1> QED
  BY <1>1, <1>2 DEF ObserverInit, ObserverInv, HookIsItsObservers, ObserverLimit

LEMMA ObserverInvKept == ObserverInv /\ [ObserverNext]_observerVars => ObserverInv'
<1> SUFFICES ASSUME ObserverInv, [ObserverNext]_observerVars PROVE ObserverInv'
  OBVIOUS
<1>0. /\ ObserverTypeOK /\ MaxObservers \in Nat
      /\ Configured \in SUBSET ObserverIds /\ Cardinality(Configured) <= MaxObservers
  BY ObserverAssumption DEF ObserverInv, ObserverLimit, Configured
<1>1. ASSUME NEW o \in ObserverIds, EditObserver(o)
      PROVE  ObserverInv'
  <2>1. ObserverTypeOK'
    BY <1>0, <1>1 DEF EditObserver, ObserverTypeOK
  <2> QED
    BY <1>1, <2>1 DEF EditObserver, ObserverInv, HookIsItsObservers, ObserverLimit, Configured
<1>2. ASSUME NEW o \in ObserverIds, ReloadObserver(o)
      PROVE  ObserverInv'
  <2>1. o \in Known /\ UNCHANGED <<observerDisk, forceOn, forceOff>>
    BY <1>2 DEF ReloadObserver
  <2>2. Configured' \in SUBSET Configured
    BY <1>2 DEF ReloadObserver, Replace, Configured
  <2>3. Cardinality(Configured') <= MaxObservers
    <3>1. /\ Cardinality(Configured') <= Cardinality(Configured)
          /\ Cardinality(Configured') \in Nat /\ Cardinality(Configured) \in Nat
      BY <1>0, <2>2, FewerObservers
    <3> QED
      BY <1>0, <3>1
  <2>4. Replace({}, {o}, {}) \/ Replace({}, {}, {o})
    BY <1>2 DEF ReloadObserver
  <2> QED
    BY <2>1, <2>3, <2>4, ReplaceKeeps
<1>3. ASSUME NEW o \in ObserverIds, EnableObserver(o)
      PROVE  ObserverInv'
  <2>1. /\ o \in Known /\ UNCHANGED observerDisk /\ forceOn' \subseteq ObserverIds
        /\ forceOff' = forceOff \ {o}
    BY <1>0, <1>3 DEF EnableObserver, Known, ObserverTypeOK
  <2>2. CASE UNCHANGED <<activeAs, hookOf, hookOn>>
    <3>1. ObserverTypeOK'
      BY <1>0, <2>1, <2>2 DEF ObserverTypeOK
    <3> QED
      BY <2>1, <2>2, <3>1 DEF ObserverInv, HookIsItsObservers, ObserverLimit, Configured
  <2>3. ASSUME o \notin Configured => Cardinality(Configured) < MaxObservers,
               hookOf' = [hookOf EXCEPT ![o] = observerDisk[o]],
               activeAs' = [activeAs EXCEPT ![o] = observerDisk[o]], hookOn' = hookOn \cup {o}
        PROVE  ObserverInv'
    <3>1. ObserverTypeOK'
      BY <1>0, <2>1, <2>3 DEF ObserverTypeOK, Known
    <3>2. Configured' = Configured \cup {o}
      BY <1>0, <2>1, <2>3 DEF Configured, Known, ObserverTypeOK
    <3>3. Cardinality(Configured') <= MaxObservers
      <4>1. IsFiniteSet(Configured) /\ Cardinality(Configured) \in Nat
        BY <1>0, ObserverAssumption, FS_Subset, FS_CardinalityType
      <4>2. Cardinality(Configured') =
               IF o \in Configured THEN Cardinality(Configured) ELSE Cardinality(Configured) + 1
        BY <3>2, <4>1, FS_AddElement
      <4> QED
        BY <1>0, <2>3, <4>1, <4>2
    <3>4. HookIsItsObservers'
      BY <1>0, <2>3 DEF ObserverInv, HookIsItsObservers, ObserverTypeOK
    <3> QED
      BY <2>1, <2>3, <3>1, <3>3, <3>4 DEF ObserverInv, ObserverLimit
  <2>4. ASSUME Replace({}, {}, {o} \cap Configured)
        PROVE  ObserverInv'
    <3>1. Configured' = Configured
      BY <1>0, <2>4 DEF Replace, Configured, ObserverTypeOK
    <3>2. ObserverTypeOK'
      BY <1>0, <2>1, <2>4 DEF Replace, ObserverTypeOK
    <3> QED
      BY <1>0, <2>1, <2>4, <3>1, <3>2
      DEF ObserverInv, HookIsItsObservers, ObserverLimit, Replace, ObserverTypeOK
  <2>5. \/ o \notin Configured /\ Cardinality(Configured) >= MaxObservers
        \/ (o \notin Configured => Cardinality(Configured) < MaxObservers)
    <3>1. Cardinality(Configured) \in Nat
      BY <1>0, FewerObservers
    <3> QED
      BY <1>0, <3>1
  <2> QED
    BY <1>3, <2>2, <2>3, <2>4, <2>5 DEF EnableObserver
<1>4. ASSUME NEW o \in ObserverIds, DisableObserver(o)
      PROVE  ObserverInv'
  <2>1. ObserverTypeOK'
    BY <1>0, <1>4 DEF DisableObserver, ObserverTypeOK
  <2> QED
    BY <1>4, <2>1 DEF DisableObserver, ObserverInv, HookIsItsObservers, ObserverLimit, Configured
<1>5. CASE UNCHANGED observerVars
  BY <1>5 DEF observerVars, ObserverInv, ObserverTypeOK, HookIsItsObservers, ObserverLimit, Configured
<1> QED
  BY <1>1, <1>2, <1>3, <1>4, <1>5, RescanKeeps DEF ObserverNext

(* Whatever was edited, enabled, disabled, reloaded or raised half way: no    *)
(* disabled observer hears an event, hooks run the version that is active,   *)
(* and the limit holds.                                                      *)
THEOREM ObserversObey == ObserverSpec => []HooksObey
<1>1. ObserverInv => HooksObey
  BY DEF ObserverInv, HooksObey, DisabledIsSilent, Reached
<1> QED
  BY <1>1, ObserverInvInit, ObserverInvKept, PTL DEF ObserverSpec

-----------------------------------------------------------------------------
(* The ancestry of artifacts *)

\* Induction over the naturals for a set: were n missing, i + 1 would be an
\* injection of the members below n into those above 0.
LEMMA SetInduction ==
  ASSUME NEW S, 0 \in S, \A n \in Nat : n \in S => n + 1 \in S
  PROVE  Nat \subseteq S
<1> SUFFICES ASSUME NEW n \in Nat, n \notin S
             PROVE  FALSE
  OBVIOUS
<1> DEFINE T == {i \in 0..n : i \in S}
           U == T \ {0}
           next == [i \in T |-> i + 1]
<1>1. IsFiniteSet(T)
  <2>1. IsFiniteSet(0..n)
    BY FS_Interval
  <2> QED
    BY <2>1, FS_Subset
<1>2. IsFiniteSet(U) /\ Cardinality(U) = Cardinality(T) - 1 /\ Cardinality(T) \in Nat
  <2>1. 0 \in T
    OBVIOUS
  <2> HIDE DEF T
  <2> QED
    BY <1>1, <2>1, FS_RemoveElement, FS_CardinalityType
<1>3. next \in [T -> U]
  OBVIOUS
<1>4. \E i, j \in T : i # j /\ next[i] = next[j]
  <2> HIDE DEF T, U, next
  <2> QED
    BY <1>1, <1>2, <1>3, FS_PigeonHole
<1> QED
  BY <1>4

ParentsIn(from) == (UNION {parentsOf[a] : a \in from}) \cap Present

\* The rounds in which the ancestry of `from' is gathered.
Rounds(reach, from) ==
    /\ Ancestry(from) = reach[Cardinality(ArtifactIds)]
    /\ reach[0] = from
    /\ \A n \in 1..Cardinality(ArtifactIds) :
          reach[n] = reach[n - 1] \cup ParentsIn(reach[n - 1])

\* The function Ancestry defines by recursion exists, so it is as defined.
LEMMA AncestryDefined ==
  ASSUME NEW from
  PROVE  Cardinality(ArtifactIds) \in Nat /\ \E reach : Rounds(reach, from)
<1> DEFINE N == Cardinality(ArtifactIds)
           Val(r, n) == IF n = 0 THEN from ELSE r[n - 1] \cup ParentsIn(r[n - 1])
           IsReach(r, m) == \A n \in 0..m : r[n] = Val(r, n)
           S == {m \in Nat : \E r : IsReach(r, m)}
<1>0. N \in Nat
  BY ArtifactAssumption, FS_CardinalityType
<1> HIDE DEF N
<1>1. 0 \in S
  <2>1. IsReach([n \in {0} |-> from], 0)
    OBVIOUS
  <2> QED
    BY <2>1
<1>2. ASSUME NEW m \in Nat, m \in S
      PROVE  m + 1 \in S
  <2> HIDE DEF Val
  <2>1. PICK r : IsReach(r, m)
    BY <1>2
  <2> HIDE DEF IsReach
  <2> DEFINE r1 == [n \in 0..m + 1 |-> IF n = m + 1 THEN Val(r, n) ELSE r[n]]
  <2>2. ASSUME NEW n \in 0..m + 1
        PROVE  r1[n] = Val(r1, n)
    <3>1. Val(r, n) = Val(r1, n)
      <4>1. n # 0 => r1[n - 1] = r[n - 1]
        OBVIOUS
      <4> HIDE DEF r1
      <4> QED
        BY <4>1 DEF Val
    <3>2. n # m + 1 => r[n] = Val(r, n)
      BY <2>1 DEF IsReach
    <3> QED
      BY <3>1, <3>2
  <2>3. IsReach(r1, m + 1)
    BY <2>2 DEF IsReach
  <2> QED
    BY <2>3
<1>3. N \in S
  <2>1. \A m \in Nat : m \in S => m + 1 \in S
    BY <1>2
  <2> HIDE DEF S
  <2> QED
    BY <1>0, <1>1, <2>1, SetInduction
<1>4. PICK r : IsReach(r, N)
  BY <1>3
<1> DEFINE Fits(g) == g = [n \in 0..N |-> Val(g, n)]
           reach == CHOOSE g : Fits(g)
<1>5. Fits([n \in 0..N |-> r[n]])
  <2> DEFINE g == [n \in 0..N |-> r[n]]
  <2>1. \A n \in 0..N : g[n] = Val(g, n)
    <3> TAKE n \in 0..N
    <3>1. g[n] = Val(r, n)
      BY <1>4
    <3>2. n # 0 => g[n - 1] = r[n - 1]
      BY <1>0
    <3> HIDE DEF g
    <3> QED
      BY <3>1, <3>2
  <2> HIDE DEF Val
  <2> QED
    BY <2>1
<1>6. Fits(reach)
  <2> HIDE DEF Fits
  <2> QED
    BY <1>5
<1>7. Ancestry(from) = reach[N]
  BY DEF Ancestry, N, ParentsIn
<1>8. \A n \in 0..N : reach[n] = Val(reach, n)
  <2> HIDE DEF Val, reach
  <2> QED
    BY <1>6
<1> HIDE DEF reach, Fits
<1>9. reach[0] = from
  <2>1. 0 \in 0..N
    BY <1>0
  <2> QED
    BY <1>8, <2>1
<1>10. ASSUME NEW n \in 1..N
       PROVE  reach[n] = reach[n - 1] \cup ParentsIn(reach[n - 1])
  <2>1. n \in 0..N /\ n # 0
    BY <1>0
  <2> QED
    BY <1>8, <2>1
<1> QED
  BY <1>0, <1>7, <1>9, <1>10 DEF N, Rounds

\* The ancestry holds every recorded parent, at any distance, that is present:
\* a round that is not the last adds an artifact, and there are no more rounds
\* to need than artifacts.
LEMMA AncestryCloses ==
  ASSUME NEW from \in SUBSET ArtifactIds, parentsOf \in [ArtifactIds -> SUBSET ArtifactIds]
  PROVE  /\ from \subseteq Ancestry(from) /\ Ancestry(from) \subseteq ArtifactIds
         /\ ParentsIn(Ancestry(from)) \subseteq Ancestry(from)
<1> DEFINE N == Cardinality(ArtifactIds)
<1>rounds. PICK reach : Rounds(reach, from)
  BY AncestryDefined
<1>1. /\ Ancestry(from) = reach[N] /\ reach[0] = from
      /\ \A n \in 1..N : reach[n] = reach[n - 1] \cup ParentsIn(reach[n - 1])
  BY <1>rounds DEF Rounds
<1>0. N \in Nat /\ IsFiniteSet(ArtifactIds)
  BY ArtifactAssumption, FS_CardinalityType
<1> HIDE DEF N
<1> DEFINE Done(s) == ParentsIn(s) \subseteq s
<1> DEFINE S == {n \in Nat : n <= N =>
                    /\ from \subseteq reach[n] /\ reach[n] \subseteq ArtifactIds
                    /\ Done(reach[n]) \/ Cardinality(reach[n]) >= n}
<1>2. \A s \in SUBSET ArtifactIds : /\ ParentsIn(s) \subseteq ArtifactIds
                                    /\ IsFiniteSet(s) /\ Cardinality(s) \in Nat
  <2> TAKE s \in SUBSET ArtifactIds
  <2>1. IsFiniteSet(s) /\ Cardinality(s) \in Nat
    BY <1>0, FS_Subset, FS_CardinalityType
  <2> QED
    BY <2>1 DEF ParentsIn, Present
<1>3. 0 \in S
  <2>1. Cardinality(reach[0]) >= 0
    BY <1>1, <1>2
  <2> QED
    BY <1>1, <2>1
<1>4. ASSUME NEW n \in Nat, n \in S
      PROVE  n + 1 \in S
  <2> SUFFICES ASSUME n + 1 <= N
               PROVE  /\ from \subseteq reach[n + 1] /\ reach[n + 1] \subseteq ArtifactIds
                      /\ Done(reach[n + 1]) \/ Cardinality(reach[n + 1]) >= n + 1
    OBVIOUS
  <2>1. /\ from \subseteq reach[n] /\ reach[n] \in SUBSET ArtifactIds
        /\ Done(reach[n]) \/ Cardinality(reach[n]) >= n
    BY <1>0, <1>4
  <2>2. reach[n + 1] = reach[n] \cup ParentsIn(reach[n])
    <3>1. n + 1 \in 1..N /\ (n + 1) - 1 = n
      BY <1>0
    <3> QED
      BY <1>1, <3>1
  <2>3. from \subseteq reach[n + 1] /\ reach[n + 1] \in SUBSET ArtifactIds
    BY <1>2, <2>1, <2>2
  <2>4. CASE Done(reach[n])
    <3>1. reach[n + 1] = reach[n]
      BY <2>2, <2>4
    <3> QED
      BY <2>3, <2>4, <3>1
  <2>5. CASE ~Done(reach[n])
    <3>1. PICK p : p \in reach[n + 1] /\ p \notin reach[n]
      BY <2>2, <2>5
    <3>2. reach[n] \cup {p} \in SUBSET reach[n + 1]
      BY <2>2, <3>1
    <3>3. /\ IsFiniteSet(reach[n]) /\ Cardinality(reach[n]) \in Nat
          /\ IsFiniteSet(reach[n + 1]) /\ Cardinality(reach[n + 1]) \in Nat
      BY <1>2, <2>1, <2>3
    <3>4. Cardinality(reach[n] \cup {p}) = Cardinality(reach[n]) + 1
      BY <3>1, <3>3, FS_AddElement
    <3>5. Cardinality(reach[n] \cup {p}) <= Cardinality(reach[n + 1])
      BY <3>2, <3>3, FS_Subset
    <3> QED
      BY <2>1, <2>3, <2>5, <3>3, <3>4, <3>5
  <2> QED
    BY <2>4, <2>5
<1>5. N \in S
  <2>1. \A n \in Nat : n \in S => n + 1 \in S
    BY <1>4
  <2> HIDE DEF S
  <2> QED
    BY <1>0, <1>3, <2>1, SetInduction
<1>6. /\ from \subseteq reach[N] /\ reach[N] \in SUBSET ArtifactIds
      /\ Done(reach[N]) \/ Cardinality(reach[N]) >= N
  BY <1>0, <1>5
<1>7. ASSUME Cardinality(reach[N]) >= N
      PROVE  Done(reach[N])
  <2>1. Cardinality(reach[N]) <= N /\ Cardinality(reach[N]) \in Nat
    BY <1>0, <1>2, <1>6, FS_Subset DEF N
  <2>2. Cardinality(reach[N]) = Cardinality(ArtifactIds)
    BY <1>0, <1>7, <2>1 DEF N
  <2>3. reach[N] = ArtifactIds
    BY <1>0, <1>6, <2>2, FS_Subset
  <2> QED
    BY <1>2, <2>3
<1> QED
  BY <1>1, <1>6, <1>7

\* It is the least such set.
LEMMA AncestryLeast ==
  ASSUME NEW from, NEW S, from \subseteq S, ParentsIn(S) \subseteq S
  PROVE  Ancestry(from) \subseteq S
<1> DEFINE N == Cardinality(ArtifactIds)
<1>rounds. PICK reach : Rounds(reach, from)
  BY AncestryDefined
<1>1. /\ Ancestry(from) = reach[N] /\ reach[0] = from
      /\ \A n \in 1..N : reach[n] = reach[n - 1] \cup ParentsIn(reach[n - 1])
  BY <1>rounds DEF Rounds
<1>2. N \in Nat
  BY AncestryDefined
<1> HIDE DEF N
<1> DEFINE T == {n \in Nat : n <= N => reach[n] \subseteq S}
<1>3. ASSUME NEW n \in Nat, n \in T
      PROVE  n + 1 \in T
  <2> SUFFICES ASSUME n + 1 <= N
               PROVE  reach[n + 1] \subseteq S
    OBVIOUS
  <2>1. n + 1 \in 1..N /\ (n + 1) - 1 = n /\ reach[n] \subseteq S
    BY <1>2, <1>3
  <2>2. reach[n + 1] = reach[n] \cup ParentsIn(reach[n])
    BY <1>1, <2>1
  <2>3. ParentsIn(reach[n]) \subseteq ParentsIn(S)
    BY <2>1 DEF ParentsIn
  <2> QED
    BY <2>1, <2>2, <2>3
<1>4. 0 \in T
  BY <1>1
<1>5. N \in T
  <2>1. \A n \in Nat : n \in T => n + 1 \in T
    BY <1>3
  <2> HIDE DEF T
  <2> QED
    BY <1>2, <1>4, <2>1, SetInduction
<1> QED
  BY <1>1, <1>2, <1>5

-----------------------------------------------------------------------------
(* Artifacts *)

LEMMA ArtifactInvInit == ArtifactInit => ArtifactInv
<1> SUFFICES ASSUME ArtifactInit PROVE ArtifactInv
  OBVIOUS
<1>1. ArtifactTypeOK
  BY DEF ArtifactInit, ArtifactTypeOK
<1>2. RecordsOK /\ OutputsNameInputs
  BY DEF ArtifactInit, RecordsOK, OutputsNameInputs
<1>3. Keeps({})
  BY DEF ArtifactInit, Keeps, Present, Live
<1> QED
  BY <1>1, <1>2, <1>3 DEF ArtifactInv

LEMMA ArtifactTypesKept ==
  ASSUME ArtifactTypeOK, RecordsOK, [ArtifactNext]_artifactVars
  PROVE  ArtifactTypeOK'
<1> USE ArtifactAssumption DEF ArtifactTypeOK, Present, LoopFree
<1>1. ASSUME NEW a \in ArtifactIds, ExportArtifact(a)
      PROVE  ArtifactTypeOK'
  BY <1>1 DEF ExportArtifact
<1>2. ASSUME NEW a \in ArtifactIds, Expire(a)
      PROVE  ArtifactTypeOK'
  BY <1>2 DEF Expire, Live
<1>3. ASSUME NEW a \in ArtifactIds, RemoveCandidate(a)
      PROVE  ArtifactTypeOK'
  BY <1>3 DEF RemoveCandidate, RecordsOK
<1>4. ASSUME NEW a \in ArtifactIds, RevokeArtifact(a)
      PROVE  ArtifactTypeOK'
  BY <1>4 DEF RevokeArtifact
<1>5. ASSUME NEW c \in ArtifactCalls, OpenInvocation(c) \/ CloseInvocation(c)
      PROVE  ArtifactTypeOK'
  BY <1>5 DEF OpenInvocation, CloseInvocation
<1>6. ASSUME NEW c \in ArtifactCalls, NEW a \in ArtifactIds, StageInput(c, a)
      PROVE  ArtifactTypeOK'
  BY <1>6 DEF StageInput, Live
<1>7. ASSUME NEW c \in ArtifactCalls, NEW a \in ArtifactIds, ImportOutput(c, a)
      PROVE  ArtifactTypeOK'
  BY <1>7 DEF ImportOutput
<1>8. ASSUME NEW c \in ArtifactCalls, NEW a \in ArtifactIds, LinkParents(c, a)
      PROVE  ArtifactTypeOK'
  BY <1>8 DEF LinkParents, Parents
<1>9. CASE CollectGarbage
  BY <1>9 DEF CollectGarbage
<1>10. CASE ArtifactCrash
  BY <1>10 DEF ArtifactCrash
<1>11. CASE UNCHANGED artifactVars
  BY <1>11 DEF artifactVars
<1> QED
  BY <1>1, <1>2, <1>3, <1>4, <1>5, <1>6, <1>7, <1>8, <1>9, <1>10, <1>11 DEF ArtifactNext

LEMMA RecordsKept ==
  ASSUME ArtifactTypeOK, RecordsOK, OutputsNameInputs, [ArtifactNext]_artifactVars
  PROVE  RecordsOK' /\ OutputsNameInputs'
<1> USE ArtifactAssumption DEF ArtifactTypeOK, Present, LoopFree, RecordsOK, OutputsNameInputs
<1>1. ASSUME NEW a \in ArtifactIds, ExportArtifact(a)
      PROVE  RecordsOK' /\ OutputsNameInputs'
  BY <1>1 DEF ExportArtifact
<1>2. ASSUME NEW a \in ArtifactIds, Expire(a)
      PROVE  RecordsOK' /\ OutputsNameInputs'
  BY <1>2 DEF Expire
<1>3. ASSUME NEW a \in ArtifactIds, RemoveCandidate(a)
      PROVE  RecordsOK' /\ OutputsNameInputs'
  BY <1>3 DEF RemoveCandidate
<1>4. ASSUME NEW a \in ArtifactIds, RevokeArtifact(a)
      PROVE  RecordsOK' /\ OutputsNameInputs'
  BY <1>4 DEF RevokeArtifact
<1>5. ASSUME NEW c \in ArtifactCalls, OpenInvocation(c) \/ CloseInvocation(c)
      PROVE  RecordsOK' /\ OutputsNameInputs'
  BY <1>5 DEF OpenInvocation, CloseInvocation
<1>6. ASSUME NEW c \in ArtifactCalls, NEW a \in ArtifactIds, StageInput(c, a)
      PROVE  RecordsOK' /\ OutputsNameInputs'
  BY <1>6 DEF StageInput
<1>7. ASSUME NEW c \in ArtifactCalls, NEW a \in ArtifactIds, ImportOutput(c, a)
      PROVE  RecordsOK' /\ OutputsNameInputs'
  <2>1. \A d \in ArtifactCalls : a \notin outputs[d]
    BY <1>7 DEF ImportOutput
  <2>2. /\ dir' = [dir EXCEPT ![a] = "exported"] /\ importing' = a /\ importing = NoImport
        /\ outputs' = [outputs EXCEPT ![c] = @ \cup {a}] /\ collecting = {}
        /\ UNCHANGED <<parentsOf, expired, revoked, stagedInputs, open, collecting>>
    BY <1>7 DEF ImportOutput
  <2>3. \A d, e \in ArtifactCalls : d # e => outputs'[d] \cap outputs'[e] = {}
    BY <2>1, <2>2
  <2>4. RecordsOK'
    BY <1>7, <2>2, <2>3 DEF ImportOutput
  <2>5. OutputsNameInputs'
    BY <2>2
  <2> QED
    BY <2>4, <2>5
<1>8. ASSUME NEW c \in ArtifactCalls, NEW a \in ArtifactIds, LinkParents(c, a)
      PROVE  RecordsOK' /\ OutputsNameInputs'
  <2>1. \A d \in ArtifactCalls \ {c} : a \notin outputs[d]
    BY <1>8 DEF LinkParents
  <2> QED
    BY <1>8, <2>1 DEF LinkParents, Parents
<1>9. CASE CollectGarbage
  BY <1>9 DEF CollectGarbage
<1>10. CASE ArtifactCrash
  BY <1>10 DEF ArtifactCrash
<1>11. CASE UNCHANGED artifactVars
  BY <1>11 DEF artifactVars
<1> QED
  BY <1>1, <1>2, <1>3, <1>4, <1>5, <1>6, <1>7, <1>8, <1>9, <1>10, <1>11 DEF ArtifactNext

\* The live artifacts' ancestry is present, revoked parents apart.
LEMMA AncestryPresent ==
  ASSUME ArtifactTypeOK, RecordsOK, NEW S, Keeps(S)
  PROVE  /\ Ancestry(Live) \subseteq S
         /\ \A a \in Ancestry(Live) : parentsOf[a] \ revoked \subseteq Present
<1>1. ParentsIn(S) \subseteq S
  <2> SUFFICES ASSUME NEW a \in S, NEW p \in parentsOf[a], p \in Present
               PROVE  p \in S
    BY DEF ParentsIn
  <2>1. p \notin revoked
    BY DEF RecordsOK, Present
  <2> QED
    BY <2>1 DEF Keeps
<1>2. Ancestry(Live) \subseteq S
  BY <1>1, AncestryLeast DEF Keeps
<1> QED
  BY <1>2 DEF Keeps

LEMMA KeepsKept ==
  ASSUME ArtifactTypeOK, RecordsOK, [ArtifactNext]_artifactVars, NEW S, Keeps(S)
  PROVE  \E T \in SUBSET ArtifactIds : Keeps(T)'
<1> USE DEF ArtifactTypeOK, Present, Live, LoopFree
<1>0. S \in SUBSET ArtifactIds
  BY DEF Keeps
<1>1. ASSUME NEW a \in ArtifactIds, ExportArtifact(a)
      PROVE  \E T \in SUBSET ArtifactIds : Keeps(T)'
  <2>1. CASE dir' = [dir EXCEPT ![a] = "reserved"]
    BY <1>0, <1>1, <2>1 DEF ExportArtifact, Keeps
  <2>2. CASE dir' = [dir EXCEPT ![a] = "exported"]
    <3>1. parentsOf[a] = {} /\ a \notin collecting
      BY <1>1 DEF ExportArtifact, RecordsOK
    <3>2. Keeps(S \cup {a})'
      BY <1>0, <1>1, <2>2, <3>1 DEF ExportArtifact, Keeps
    <3> QED
      BY <1>0, <3>2
  <2> QED
    BY <1>1, <2>1, <2>2 DEF ExportArtifact
<1>2. ASSUME NEW a \in ArtifactIds, Expire(a) \/ RemoveCandidate(a)
      PROVE  Keeps(S)'
  BY <1>2 DEF Expire, RemoveCandidate, Keeps
<1>3. ASSUME NEW a \in ArtifactIds, RevokeArtifact(a)
      PROVE  Keeps(S \ {a})'
  <2>1. \A c \in ArtifactCalls : importing \notin outputs[c]
    BY <1>3, ArtifactAssumption DEF RevokeArtifact
  <2> QED
    BY <1>3, <2>1 DEF RevokeArtifact, Keeps
<1>4. ASSUME NEW c \in ArtifactCalls, OpenInvocation(c) \/ CloseInvocation(c)
      PROVE  Keeps(S)'
  BY <1>4 DEF OpenInvocation, CloseInvocation, Keeps
<1>5. ASSUME NEW c \in ArtifactCalls, NEW a \in ArtifactIds, StageInput(c, a)
      PROVE  Keeps(S)'
  <2>1. \A d \in ArtifactCalls : importing \notin outputs[d]
    BY <1>5, ArtifactAssumption DEF StageInput
  <2> QED
    BY <1>5, <2>1 DEF StageInput, Keeps
<1>6. ASSUME NEW c \in ArtifactCalls, NEW a \in ArtifactIds, ImportOutput(c, a)
      PROVE  \E T \in SUBSET ArtifactIds : Keeps(T)'
  <2>1. parentsOf[a] = {} /\ a \notin collecting /\ \A d \in ArtifactCalls : a \notin outputs[d]
    BY <1>6 DEF ImportOutput, RecordsOK
  <2>2. Keeps(S \cup {a})'
    <3>1. /\ (S \cup {a} \subseteq Present /\ Live \subseteq S \cup {a})'
          /\ (S \cup {a}) \cap collecting' = {}
      BY <1>6, <2>1 DEF ImportOutput, Keeps
    <3>2. \A b \in S \cup {a} : parentsOf'[b] \ revoked' \subseteq S \cup {a}
      BY <1>6, <2>1 DEF ImportOutput, Keeps
    <3>3. \A d \in ArtifactCalls : importing' \in outputs'[d] => d = c
      BY <1>6, <2>1 DEF ImportOutput
    <3>4. stagedInputs'[c] \subseteq S
      BY <1>6 DEF ImportOutput, Keeps
    <3> QED
      BY <3>1, <3>2, <3>3, <3>4 DEF Keeps
  <2> QED
    BY <1>0, <2>2
<1>7. ASSUME NEW c \in ArtifactCalls, NEW a \in ArtifactIds, LinkParents(c, a)
      PROVE  Keeps(S)'
  <2>1. stagedInputs[c] \subseteq S /\ \A d \in ArtifactCalls : NoImport \notin outputs[d]
    BY <1>7, ArtifactAssumption DEF LinkParents, Keeps
  <2> QED
    BY <1>7, <2>1 DEF LinkParents, Parents, Keeps
<1>8. ASSUME CollectGarbage
      PROVE  \E T \in SUBSET ArtifactIds : Keeps(T)'
  <2>1. PICK T : T = Ancestry(Live)
    OBVIOUS
  <2>2. Live \subseteq T /\ ParentsIn(T) \subseteq T /\ T \subseteq ArtifactIds
    BY <2>1, AncestryCloses
  <2>3. T \subseteq Present /\ \A a \in T : parentsOf[a] \ revoked \subseteq Present
    BY <2>1, AncestryPresent DEF Keeps
  <2>4. ASSUME NEW a \in T, NEW p \in parentsOf[a] \ revoked
        PROVE  p \in T
    <3>1. p \in Present
      BY <2>3
    <3> QED
      BY <2>2, <3>1 DEF ParentsIn
  <2>5. \A c \in ArtifactCalls : importing \notin outputs[c]
    BY <1>8, ArtifactAssumption DEF CollectGarbage
  <2>6. /\ collecting' = (Present \cap expired) \ T
        /\ UNCHANGED <<dir, parentsOf, expired, revoked, stagedInputs, outputs, importing>>
    BY <1>8, <2>1 DEF CollectGarbage
  <2>7. Keeps(T)'
    BY <2>2, <2>3, <2>4, <2>5, <2>6 DEF Keeps
  <2> QED
    BY <2>2, <2>7
<1>9. ASSUME ArtifactCrash
      PROVE  Keeps(S)'
  <2>1. \A d \in ArtifactCalls : NoImport \notin outputs[d]
    BY ArtifactAssumption
  <2> QED
    BY <1>9, <2>1 DEF ArtifactCrash, Keeps
<1>10. ASSUME UNCHANGED artifactVars
       PROVE  Keeps(S)'
  BY <1>10 DEF artifactVars, Keeps
<1> QED
  BY <1>0, <1>1, <1>2, <1>3, <1>4, <1>5, <1>6, <1>7, <1>8, <1>9, <1>10 DEF ArtifactNext

LEMMA ArtifactInvKept == ArtifactInv /\ [ArtifactNext]_artifactVars => ArtifactInv'
<1> SUFFICES ASSUME ArtifactInv, [ArtifactNext]_artifactVars PROVE ArtifactInv'
  OBVIOUS
<1>1. /\ ArtifactTypeOK /\ RecordsOK /\ OutputsNameInputs
      /\ \E S \in SUBSET ArtifactIds : Keeps(S)
  BY DEF ArtifactInv
<1>2. ArtifactTypeOK' /\ RecordsOK' /\ OutputsNameInputs'
  BY <1>1, ArtifactTypesKept, RecordsKept
<1>3. \E T \in SUBSET ArtifactIds : Keeps(T)'
  BY <1>1, KeepsKept
<1> QED
  BY <1>2, <1>3 DEF ArtifactInv

(* What an artifact was made from is named in full and stays, while live      *)
(* artifacts come of it, until a caller revokes it: through collections that  *)
(* stop half way, inputs that expire while an import runs, and crashes.       *)
THEOREM ProvenanceKept == ArtifactSpec => []ProvenanceIsKept
<1>1. ArtifactInv => ProvenanceIsKept
  <2> SUFFICES ASSUME ArtifactInv PROVE AncestorsKept
    BY DEF ProvenanceIsKept, ArtifactInv
  <2>1. PICK S : Keeps(S)
    BY DEF ArtifactInv
  <2> QED
    BY <2>1, AncestryPresent DEF ArtifactInv, AncestorsKept
<1> QED
  BY <1>1, ArtifactInvInit, ArtifactInvKept, PTL DEF ArtifactSpec

(***************************************************************************)
(* The routing of commands                                                 *)
(***************************************************************************)
\* What may be started twice, and the routes that own up to it.
MayRepeat == command \in Commands /\ Repeatable(Started(command))
OwnsUp == {"fallback_indeterminate_read", "fallback", "error", "matched", "mismatched"}

RunsKnown ==
    /\ phase # "idle" => command \in Commands
    /\ phase \in {"idle", "steered", "refused", "chosen", "runner"} => ran.here = 0 /\ ran.runner = 0
    /\ phase = "runner" => way.backend = "production"
    /\ phase = "local" =>
          /\ ran.here = 0
          /\ ran.runner # 0 =>
                MayRepeat /\ way.backend # "shadow" /\ route.status \in {"fallback_indeterminate_read", "fallback"}
    /\ phase = "candidate" =>
          /\ ran.runner = 0 /\ ran.here \in 0..1
          /\ way.backend \in {"shadow", "canary"} \/ ran.here = 1 => MayRepeat
          /\ ran.here = 1 => way.backend = "shadow"
    /\ phase \in {"settled", "answered"} =>
          /\ ran.here \in 0..1
          /\ ran.here + ran.runner > 1 =>
                MayRepeat /\ (Finished(backendOutcome) => route.status \in OwnsUp)
    /\ phase \in {"lost", "recovered"} => ran.here = 0
    /\ phase \in {"answered", "recovered"} => reply = backendOutcome

RoutingInv ==
    /\ RoutingTypeOK /\ RunsKnown
    /\ phase = "steered" => Rule(command) # "none"

Words == {"started", "failed", "compared", "canary_routed", "production_routed", "completed"}

-----------------------------------------------------------------------------
(* The tables *)

LEMMA CommandRecords ==
  ASSUME NEW c \in Commands
  PROVE  /\ c = [program |-> c.program, action |-> c.action, reads |-> c.reads, context |-> c.context,
                 root |-> c.root, extras |-> c.extras]
         /\ c.extras \in BOOLEAN /\ c.context \in BOOLEAN /\ c.reads \in BOOLEAN
         /\ c.root \in {"workspace", "pla"}
<1>1. ASSUME NEW p, NEW actions, NEW reads \in SUBSET BOOLEAN, NEW context \in SUBSET BOOLEAN,
             c \in Command(p, actions, reads, context)
      PROVE  /\ c = [program |-> c.program, action |-> c.action, reads |-> c.reads, context |-> c.context,
                     root |-> c.root, extras |-> c.extras]
             /\ c.extras \in BOOLEAN /\ c.context \in BOOLEAN /\ c.reads \in BOOLEAN
             /\ c.root \in {"workspace", "pla"}
  BY <1>1 DEF Command
<1>2. {FALSE} \in SUBSET BOOLEAN /\ {TRUE} \in SUBSET BOOLEAN /\ BOOLEAN \in SUBSET BOOLEAN
  OBVIOUS
<1>3. CASE c \in Command("git", GitActions, {FALSE}, BOOLEAN)
  BY <1>1, <1>2, <1>3
<1>4. CASE c \in Command("git", {"remote", "config"}, {TRUE}, {FALSE})
  BY <1>1, <1>2, <1>4
<1>5. CASE c \in Command("gh", GhActions, {FALSE}, {FALSE})
  BY <1>1, <1>2, <1>5
<1>6. CASE c \in Command("gh", {"api"}, {TRUE}, {FALSE})
  BY <1>1, <1>2, <1>6
<1>7. CASE c \in Command("python", PythonActions, {FALSE}, {FALSE})
  BY <1>1, <1>2, <1>7
<1>8. CASE \E p \in OtherPrograms : c \in Command(p, {"run"}, {FALSE}, {FALSE})
  BY <1>1, <1>2, <1>8
<1> QED
  BY <1>3, <1>4, <1>5, <1>6, <1>7, <1>8 DEF Commands

\* What is repeatable is a read that neither reaches out nor is given anything.
LEMMA RepeatableReads ==
  ASSUME NEW c \in Commands, Repeatable(Started(c))
  PROVE  /\ Meaning(c).effect = "read_only" /\ Meaning(c).network = "none"
         /\ ~c.extras /\ ~c.context
<1>1. c.program # "pytest"
  <2> SUFFICES ASSUME c.program = "pytest" PROVE FALSE
    OBVIOUS
  <2>1. Started(c).program = "python" /\ Started(c).action = "pytest"
    BY CommandRecords DEF Started
  <2>2. Meaning(Started(c)).domain = "test"
    BY <2>1 DEF Meaning, PythonMeaning, Means
  <2> QED
    BY <2>2 DEF Repeatable
<1>2. Started(c) = c
  BY <1>1 DEF Started
<1> QED
  BY <1>2 DEF Repeatable

LEMMA GitActionKept == ASSUME NEW c, c.program = "git" PROVE Meaning(c).action = c.action
BY DEF Meaning, GitMeaning, Means

RuleNames == {"pla_source_git", "governed_git_mutation", "high_risk_local_git",
              "semantic_external_write", "environment_change"}

LEMMA Priorities ==
  /\ DOMAIN Priority = RuleNames
  /\ Priority["pla_source_git"] = 100 /\ Priority["governed_git_mutation"] = 90
  /\ Priority["high_risk_local_git"] = 85 /\ Priority["semantic_external_write"] = 80
  /\ Priority["environment_change"] = 75
BY DEF Priority, RuleNames

\* Of several rules that match there is one of the highest priority.
LEMMA RuleIsAMatch ==
  ASSUME NEW c, Rule(c) # "none"
  PROVE  Rule(c) \in RuleNames /\ RuleMatches(Rule(c), c)
<1> DEFINE candidates == {rule \in DOMAIN Priority : RuleMatches(rule, c)}
<1>1. candidates # {} /\ Rule(c) = CHOOSE rule \in candidates : \A other \in candidates : Priority[other] <= Priority[rule]
  BY DEF Rule
<1>2. candidates \subseteq RuleNames
  BY Priorities
<1>3. \A rule \in candidates : RuleMatches(rule, c)
  OBVIOUS
<1> HIDE DEF candidates
<1>4. \E rule \in candidates : \A other \in candidates : Priority[other] <= Priority[rule]
  <2>1. ASSUME NEW top \in candidates, \A other \in candidates : Priority[other] <= Priority[top]
        PROVE  \E rule \in candidates : \A other \in candidates : Priority[other] <= Priority[rule]
    BY <2>1
  <2>2. \A other \in candidates : Priority[other] \in {100, 90, 85, 80, 75}
    BY <1>2, Priorities DEF RuleNames
  <2>3. CASE "pla_source_git" \in candidates
    <3>1. \A other \in candidates : Priority[other] <= Priority["pla_source_git"]
      BY <2>2, Priorities
    <3> QED
      BY <2>1, <2>3, <3>1
  <2>4. CASE "pla_source_git" \notin candidates /\ "governed_git_mutation" \in candidates
    <3>1. \A other \in candidates : Priority[other] <= Priority["governed_git_mutation"]
      BY <1>2, <2>4, Priorities DEF RuleNames
    <3> QED
      BY <2>1, <2>4, <3>1
  <2>5. CASE /\ "pla_source_git" \notin candidates /\ "governed_git_mutation" \notin candidates
             /\ "high_risk_local_git" \in candidates
    <3>1. \A other \in candidates : Priority[other] <= Priority["high_risk_local_git"]
      BY <1>2, <2>5, Priorities DEF RuleNames
    <3> QED
      BY <2>1, <2>5, <3>1
  <2>6. CASE /\ "pla_source_git" \notin candidates /\ "governed_git_mutation" \notin candidates
             /\ "high_risk_local_git" \notin candidates /\ "semantic_external_write" \in candidates
    <3>1. \A other \in candidates : Priority[other] <= Priority["semantic_external_write"]
      BY <1>2, <2>6, Priorities DEF RuleNames
    <3> QED
      BY <2>1, <2>6, <3>1
  <2>7. CASE candidates \subseteq {"environment_change"}
    <3>1. "environment_change" \in candidates
      <4>1. candidates # {}
        BY <1>1
      <4> QED
        BY <2>7, <4>1
    <3>2. \A other \in candidates : Priority[other] <= Priority["environment_change"]
      BY <2>2, <2>7, Priorities
    <3> QED
      BY <2>1, <3>1, <3>2
  <2> QED
    BY <1>2, <2>3, <2>4, <2>5, <2>6, <2>7 DEF RuleNames
<1>5. Rule(c) \in candidates
  BY <1>1, <1>4
<1> QED
  BY <1>2, <1>3, <1>5

LEMMA SteeredIsAccepted ==
  ASSUME NEW c \in Commands, Rule(c) # "none"
  PROVE  \/ Suggested(c) \in Entries /\ Accepts(Suggested(c), c)
         \/ Suggested(c) = "core.git" /\ (c.root # "pla" => c.action \in Specialized)
<1>1. Rule(c) \in RuleNames /\ RuleMatches(Rule(c), c)
  BY RuleIsAMatch
<1>2. CASE Rule(c) = "pla_source_git"
  BY <1>1, <1>2 DEF Suggested, RuleMatches
<1>3. CASE Rule(c) = "governed_git_mutation"
  <2>1. c.program = "git" /\ Meaning(c).action \in Specialized
    BY <1>1, <1>3 DEF RuleMatches
  <2> QED
    BY <1>3, <2>1, GitActionKept DEF Suggested
<1>4. CASE Rule(c) \in {"high_risk_local_git", "semantic_external_write", "environment_change"}
  <2>1. Policy(Meaning(c)) = Rule(c)
    BY <1>1, <1>4 DEF RuleMatches
  <2>2. Suggested(c) = TargetPolicy[Policy(Meaning(c))]
    BY <1>4 DEF Suggested
  <2>3. TargetPolicy[Policy(Meaning(c))] \in Entries
    BY <1>4, <2>1 DEF TargetPolicy, Entries
  <2> QED
    BY <1>4, <2>1, <2>2, <2>3 DEF Accepts
<1> QED
  BY <1>1, <1>2, <1>3, <1>4 DEF RuleNames

\* A record of the Runner is read alike before and after a restart.
LEMMA RecoveredAlike ==
  ASSUME NEW r \in RunnerRecords
  PROVE  Recovered(r) = FromRunner(r) /\ FromRunner(r) \in Outcomes
<1>1. Code(0) \in Outcomes /\ Code(1) \in Outcomes /\ Raised("error") \in Outcomes /\ Raised("timeout") \in Outcomes
  BY DEF Outcomes
<1>2. r.runner \in BOOLEAN /\ r.timeout \in BOOLEAN /\ r.code \in 0..2
  BY DEF RunnerRecords
<1>3. CASE ~r.runner
  BY <1>1, <1>3 DEF Recovered, FromRunner
<1>4. CASE r.runner /\ r.timeout
  BY <1>1, <1>4 DEF Recovered, FromRunner
<1>5. CASE r.runner /\ ~r.timeout /\ r.code = 2
  BY <1>1, <1>5 DEF Recovered, FromRunner
<1>6. CASE r.runner /\ ~r.timeout /\ r.code # 2
  <2>1. r.code = 0 \/ r.code = 1
    BY <1>2, <1>6
  <2> QED
    BY <1>1, <1>6, <2>1 DEF Recovered, FromRunner
<1> QED
  BY <1>2, <1>3, <1>4, <1>5, <1>6

-----------------------------------------------------------------------------
(* The steps of a call *)

LEMMA RoutingFacts ==
  ASSUME RoutingInv
  PROVE  /\ command \in Commands \cup {NoCommand} /\ way \in Ways
         /\ way.backend \in Backends
         /\ ran \in [here : 0..2, runner : 0..1] /\ ran.here \in 0..2 /\ ran.runner \in 0..1
         /\ ran = [here |-> ran.here, runner |-> ran.runner]
         /\ backendOutcome \in Outcomes /\ reply \in Outcomes
         /\ eventsTold \in Seq(Words) /\ RunsKnown
         /\ route \in [by : {"none", "production", "canary", "shadow"},
                       status : {"none", "runner", "fallback_pre_submit", "indeterminate",
                                 "fallback_indeterminate_read", "skipped", "candidate", "fallback",
                                 "error", "matched", "mismatched"}]
BY DEF RoutingInv, RoutingTypeOK, Ways, Words

\* A run counts once: nothing ran on that side before.
LEMMA RunCounted ==
  ASSUME RoutingInv
  PROVE  /\ RunsOnRunner /\ ran.runner = 0 => /\ ran' \in [here : 0..2, runner : 0..1]
                                              /\ ran'.here = ran.here /\ ran'.runner = 1
         /\ ran' = [ran EXCEPT !.here = @ + 1] /\ ran.here = 0 =>
                /\ ran' \in [here : 0..2, runner : 0..1] /\ ran'.here = 1 /\ ran'.runner = ran.runner
BY RoutingFacts DEF RunsOnRunner

LEMMA OutcomeKinds ==
  /\ \A what \in {"none", "timeout", "error", "cancelled", "indeterminate"} :
        Raised(what) \in Outcomes /\ ~Finished(Raised(what))
  /\ Code(0) \in Outcomes /\ Code(1) \in Outcomes
BY DEF Raised, Code, Outcomes, Finished

LEMMA RouteKinds ==
  /\ NoRoute \in [by : {"none", "production", "canary", "shadow"},
                  status : {"none", "runner", "fallback_pre_submit", "indeterminate",
                            "fallback_indeterminate_read", "skipped", "candidate", "fallback",
                            "error", "matched", "mismatched"}]
  /\ \A by \in {"production", "canary", "shadow"},
        status \in {"runner", "fallback_pre_submit", "indeterminate", "fallback_indeterminate_read",
                    "skipped", "candidate", "fallback", "error", "matched", "mismatched"} :
        /\ RouteAs(by, status).status = status
        /\ RouteAs(by, status) \in [by : {"none", "production", "canary", "shadow"},
                  status : {"none", "runner", "fallback_pre_submit", "indeterminate",
                            "fallback_indeterminate_read", "skipped", "candidate", "fallback",
                            "error", "matched", "mismatched"}]
BY DEF NoRoute, RouteAs

LEMMA CallBegins ==
  ASSUME RoutingInv, NEW c \in Commands,
         RunProcess(c) \/ \E entry \in Entries \ {"run_process"} : RunConfirmed(entry, c)
  PROVE  RoutingInv'
<1> USE RoutingFacts
<1>1. /\ phase = "idle" /\ command' = c /\ UNCHANGED <<ran, backendOutcome, route, reply>>
      /\ phase' \in {"chosen", "steered", "refused"} /\ (phase' = "steered" => Rule(c) # "none")
      /\ eventsTold' = <<"started">> \/ UNCHANGED eventsTold
  BY DEF RunProcess, RunConfirmed
<1>2. way' \in Ways
  BY DEF RunProcess, RunConfirmed, Ways, Entries, Backends
<1>3. eventsTold' \in Seq(Words)
  <2>1. "started" \in Words
    BY DEF Words
  <2>2. <<"started">> \in Seq(Words)
    BY <2>1
  <2> QED
    BY <1>1, <2>2
<1>4. RoutingTypeOK'
  BY <1>1, <1>2, <1>3 DEF RoutingTypeOK, RoutingInv, Words
<1>5. RunsKnown'
  BY <1>1 DEF RunsKnown
<1> QED
  BY <1>1, <1>4, <1>5 DEF RoutingInv

\* Between the first event and the answer only the run itself is recorded.
LEMMA CallRuns ==
  ASSUME RoutingInv, UNCHANGED <<command, way>>,
         phase' \in {"refused", "chosen", "runner", "local", "candidate", "settled", "lost", "recovered", "answered"},
         ran' \in [here : 0..2, runner : 0..1], backendOutcome' \in Outcomes, reply' \in Outcomes,
         eventsTold' \in Seq(Words),
         route' \in [by : {"none", "production", "canary", "shadow"},
                     status : {"none", "runner", "fallback_pre_submit", "indeterminate",
                               "fallback_indeterminate_read", "skipped", "candidate", "fallback",
                               "error", "matched", "mismatched"}],
         RunsKnown'
  PROVE  RoutingInv'
BY DEF RoutingInv, RoutingTypeOK, Words

LEMMA RunnerAsked ==
  ASSUME RoutingInv,
         ChooseBackend \/ RunnerUnavailable \/ RunnerIndeterminate \/ RunnerFails \/ RunnerAnswers \/ CallerDies
  PROVE  RoutingInv'
<1> USE RoutingFacts, RouteKinds, OutcomeKinds
<1>1. CASE ChooseBackend
  <2>1. /\ phase = "chosen" /\ UNCHANGED <<command, way, ran, backendOutcome, eventsTold, reply>>
        /\ phase' \in {"runner", "candidate", "local"} /\ (phase' = "runner" => way.backend = "production")
        /\ phase' = "candidate" /\ way.backend \in {"shadow", "canary"} => Repeatable(Started(command))
        /\ route' \in {RouteAs("canary", "skipped"), NoRoute}
    BY <1>1 DEF ChooseBackend
  <2>2. RunsKnown'
    BY <2>1 DEF RunsKnown, MayRepeat
  <2> QED
    BY <2>1, <2>2, CallRuns
<1>2. CASE ~ChooseBackend
  <2>1. /\ phase = "runner" /\ ran.here = 0 /\ ran.runner = 0 /\ command \in Commands
        /\ UNCHANGED <<command, way, eventsTold, reply>> /\ (RunsOnRunner \/ UNCHANGED ran)
    BY <1>2 DEF RunnerUnavailable, RunnerIndeterminate, RunnerFails, RunnerAnswers, CallerDies, RunsKnown
  <2>2. ran' \in [here : 0..2, runner : 0..1] /\ ran'.here = 0 /\ ran'.runner \in 0..1
    BY <2>1, RunCounted
  <2>3. CASE RunnerUnavailable
    <3>1. RunsKnown'
      BY <2>1, <2>3 DEF RunnerUnavailable, RunsKnown
    <3> QED
      BY <2>1, <2>2, <2>3, <3>1, CallRuns DEF RunnerUnavailable
  <2>4. CASE phase' = "local" /\ route' = RouteAs("production", "fallback_indeterminate_read")
             /\ Repeatable(Started(command)) /\ UNCHANGED backendOutcome /\ RunnerIndeterminate
    <3>1. RunsKnown'
      <4>1. way.backend # "shadow"
        BY <2>1 DEF RunsKnown
      <4> QED
        BY <2>1, <2>2, <2>4, <4>1 DEF RunsKnown, MayRepeat
    <3> QED
      BY <2>1, <2>2, <2>4, <3>1, CallRuns
  <2>5. ASSUME NEW o \in Outcomes, NEW r \in {NoRoute, RouteAs("production", "indeterminate"), RouteAs("production", "runner")},
               SettleAs(o, r)
        PROVE  RoutingInv'
    <3>1. phase' = "settled" /\ backendOutcome' = o /\ route' = r
      BY <2>5 DEF SettleAs
    <3>2. RunsKnown'
      BY <2>1, <2>2, <3>1 DEF RunsKnown
    <3> QED
      BY <2>1, <2>2, <2>5, <3>1, <3>2, CallRuns
  <2>6. CASE CallerDies
    <3>1. RunsKnown'
      BY <2>1, <2>2, <2>6 DEF CallerDies, RunsKnown
    <3> QED
      BY <2>1, <2>2, <2>6, <3>1, CallRuns DEF CallerDies
  <2>7. CASE RunnerAnswers
    <3>1. PICK r \in RunnerRecords :
            SettleAs(FromRunner(r), IF FromRunner(r).kind = "error" THEN NoRoute ELSE RouteAs("production", "runner"))
      BY <2>7 DEF RunnerAnswers
    <3>2. FromRunner(r) \in Outcomes
      BY RecoveredAlike
    <3> QED
      BY <2>5, <3>1, <3>2
  <2>8. CASE RunnerFails
    BY <2>5, <2>8 DEF RunnerFails
  <2> QED
    BY <1>2, <2>3, <2>4, <2>5, <2>6, <2>7, <2>8 DEF RunnerIndeterminate
<1> QED
  BY <1>1, <1>2

LEMMA RanHere ==
  ASSUME RoutingInv, RunHere
  PROVE  RoutingInv'
<1> USE RoutingFacts, RouteKinds, OutcomeKinds
<1>1. /\ phase = "local" /\ ran.here = 0 /\ command \in Commands
      /\ UNCHANGED <<command, way, eventsTold, reply>>
  BY DEF RunHere, RunsKnown
<1>2. PICK o \in {Code(0), Code(1), Raised("timeout"), Raised("cancelled"), Raised("error")} :
          /\ ran' = IF o.kind = "error" THEN ran ELSE [ran EXCEPT !.here = @ + 1]
          /\ backendOutcome' = o
          /\ IF Finished(o) /\ way.backend = "shadow" /\ Repeatable(Started(command))
             THEN phase' = "candidate" /\ UNCHANGED route
             ELSE /\ phase' = "settled"
                  /\ route' = IF ~Finished(o) THEN NoRoute
                              ELSE IF way.backend = "shadow" THEN RouteAs("shadow", "skipped") ELSE route
  BY DEF RunHere
<1>3. o \in Outcomes
  OBVIOUS
<1>4. ran' \in [here : 0..2, runner : 0..1] /\ ran'.here \in 0..1 /\ ran'.runner = ran.runner
  BY <1>1, <1>2, RunCounted
<1>5. Finished(o) => ran'.here = 1
  <2>1. Finished(o) => o.kind # "error"
    BY DEF Finished
  <2> QED
    BY <1>1, <1>2, <2>1, RunCounted
<1>6. ran.runner # 0 => /\ MayRepeat /\ way.backend # "shadow"
                        /\ route.status \in {"fallback_indeterminate_read", "fallback"}
  BY <1>1 DEF RunsKnown
<1>7. MayRepeat' <=> MayRepeat
  BY <1>1 DEF MayRepeat
<1>8. RunsKnown'
  <2>1. CASE phase' = "candidate"
    <3>1. way.backend = "shadow" /\ Repeatable(Started(command)) /\ Finished(o)
      BY <1>2, <2>1
    <3>2. ran'.runner = 0 /\ ran'.here = 1
      BY <1>4, <1>5, <1>6, <3>1
    <3>3. MayRepeat'
      BY <1>1, <1>7, <3>1 DEF MayRepeat
    <3> QED
      BY <1>1, <2>1, <3>1, <3>2, <3>3 DEF RunsKnown
  <2>2. CASE phase' = "settled"
    <3>1. ASSUME ran'.here + ran'.runner > 1
          PROVE  MayRepeat' /\ (Finished(backendOutcome') => route'.status \in OwnsUp)
      <4>1. ran.runner # 0
        BY <1>4, <3>1
      <4>2. Finished(o) => route' = route
        BY <1>2, <1>6, <2>2, <4>1
      <4> QED
        BY <1>2, <1>6, <1>7, <4>1, <4>2 DEF OwnsUp
    <3> QED
      BY <1>1, <1>4, <2>2, <3>1 DEF RunsKnown
  <2> QED
    BY <1>2, <2>1, <2>2
<1> QED
  BY <1>1, <1>2, <1>3, <1>4, <1>8, CallRuns

\* What follows the candidate, whatever it answered.
LEMMA AfterTheCandidate ==
  ASSUME RoutingInv, phase = "candidate", NEW o \in Outcomes, AfterCandidate(o),
         UNCHANGED <<command, way, eventsTold, reply>>, RunsOnRunner \/ UNCHANGED ran
  PROVE  RoutingInv' /\ (way.backend = "shadow" => UNCHANGED backendOutcome)
<1> USE RoutingFacts, RouteKinds, OutcomeKinds
<1>1. /\ ran.runner = 0 /\ ran.here \in 0..1
      /\ way.backend \in {"shadow", "canary"} \/ ran.here = 1 => MayRepeat
      /\ ran.here = 1 => way.backend = "shadow"
  BY DEF RunsKnown
<1>2. ran' \in [here : 0..2, runner : 0..1] /\ ran'.here = ran.here /\ ran'.runner \in 0..1
  BY <1>1, RunCounted
<1>3. MayRepeat' <=> MayRepeat
  BY DEF MayRepeat
<1>4. command \in Commands
  BY DEF RunsKnown
<1>5. CASE way.backend = "shadow"
  <2>1. PICK status \in {"error", "matched", "mismatched"} :
           phase' = "settled" /\ UNCHANGED backendOutcome /\ route' = RouteAs("shadow", status)
    BY <1>5 DEF AfterCandidate
  <2>2. route'.status = status
    BY <2>1
  <2>3. RunsKnown'
    BY <1>1, <1>2, <1>3, <1>4, <1>5, <2>1, <2>2 DEF RunsKnown, OwnsUp
  <2> QED
    BY <1>2, <2>1, <2>3, CallRuns
<1>6. CASE way.backend = "canary" /\ ~Finished(o)
  <2>1. phase' = "local" /\ route' = RouteAs("canary", "fallback") /\ UNCHANGED backendOutcome
    BY <1>6 DEF AfterCandidate
  <2>2. route'.status = "fallback"
    BY <2>1
  <2>3. ran'.here = 0
    BY <1>1, <1>2, <1>6
  <2>4. RunsKnown'
    BY <1>1, <1>2, <1>3, <1>4, <1>6, <2>1, <2>2, <2>3 DEF RunsKnown
  <2> QED
    BY <1>2, <1>6, <2>1, <2>4, CallRuns
<1>7. CASE way.backend # "shadow" /\ ~(way.backend = "canary" /\ ~Finished(o))
  <2>1. PICK r \in {NoRoute, RouteAs("canary", "candidate")} : SettleAs(o, r)
    <3>1. CASE way.backend = "canary"
      BY <1>7, <3>1 DEF AfterCandidate
    <3>2. CASE way.backend # "canary"
      BY <1>7, <3>2 DEF AfterCandidate
    <3> QED
      BY <3>1, <3>2
  <2>2. phase' = "settled" /\ backendOutcome' = o /\ route' = r
    BY <2>1 DEF SettleAs
  <2>3. ran'.here = 0
    BY <1>1, <1>2, <1>7
  <2>4. RunsKnown'
    BY <1>1, <1>2, <1>3, <1>4, <2>2, <2>3 DEF RunsKnown
  <2> QED
    BY <1>2, <1>7, <2>2, <2>4, CallRuns
<1> QED
  BY <1>5, <1>6, <1>7

LEMMA CandidateRan ==
  ASSUME RoutingInv, RunCandidate
  PROVE  RoutingInv' /\ (way.backend = "shadow" => UNCHANGED backendOutcome)
<1>1. phase = "candidate" /\ UNCHANGED <<command, way, eventsTold, reply>> /\ (RunsOnRunner \/ UNCHANGED ran)
  BY DEF RunCandidate
<1>2. PICK o \in {Raised("error")} \cup {FromRunner(r) : r \in RunnerRecords} : AfterCandidate(o)
  BY DEF RunCandidate
<1>3. o \in Outcomes
  BY RecoveredAlike, OutcomeKinds
<1> QED
  BY <1>1, <1>2, <1>3, AfterTheCandidate

LEMMA Answered ==
  ASSUME RoutingInv, Answer \/ RecoverReply
  PROVE  RoutingInv'
<1> USE RoutingFacts
<1>1. CASE Answer
  <2>1. /\ phase = "settled" /\ phase' = "answered" /\ reply' = backendOutcome
        /\ UNCHANGED <<command, way, ran, backendOutcome, route>>
    BY <1>1 DEF Answer
  <2>2. PICK told \in {<<"failed">>, <<"completed">>} \cup {RoutedEvent \o <<"completed">>} : eventsTold' = eventsTold \o told
    BY <1>1 DEF Answer
  <2>3. told \in Seq(Words)
    <3>1. \A word \in Words : <<word>> \in Seq(Words)
      OBVIOUS
    <3>2. /\ <<"compared">> \in Seq(Words) /\ <<"canary_routed">> \in Seq(Words)
          /\ <<"production_routed">> \in Seq(Words) /\ << >> \in Seq(Words)
          /\ <<"completed">> \in Seq(Words) /\ <<"failed">> \in Seq(Words)
      BY <3>1 DEF Words
    <3>4. RoutedEvent \in Seq(Words)
      BY <3>2 DEF RoutedEvent
    <3>3. RoutedEvent \o <<"completed">> \in Seq(Words)
      BY <3>2, <3>4, ConcatProperties
    <3> QED
      BY <3>2, <3>3
  <2>4. eventsTold' \in Seq(Words)
    BY <2>2, <2>3, ConcatProperties
  <2>5. RunsKnown'
    BY <2>1 DEF RunsKnown, MayRepeat
  <2> QED
    BY <2>1, <2>4, <2>5, CallRuns
<1>2. CASE RecoverReply
  <2>1. phase = "lost" /\ phase' = "recovered" /\ UNCHANGED <<command, way, ran, route, eventsTold>>
    BY <1>2 DEF RecoverReply
  <2>2. PICK r \in RunnerRecords : backendOutcome' = FromRunner(r) /\ reply' = Recovered(r)
    BY <1>2 DEF RecoverReply
  <2>3. backendOutcome' = reply' /\ backendOutcome' \in Outcomes
    BY <2>2, RecoveredAlike
  <2>4. RunsKnown'
    BY <2>1, <2>3 DEF RunsKnown
  <2> QED
    BY <2>1, <2>3, <2>4, CallRuns
<1> QED
  BY <1>1, <1>2

-----------------------------------------------------------------------------
(* The theorem *)

LEMMA RoutingInvInit == RoutingInit => RoutingInv
<1> SUFFICES ASSUME RoutingInit PROVE RoutingInv
  OBVIOUS
<1>1. way \in Ways
  BY DEF RoutingInit, Ways, Entries, Backends
<1>2. RoutingTypeOK
  <2>1. eventsTold \in Seq(Words)
    BY DEF RoutingInit
  <2> QED
    BY <1>1, <2>1, OutcomeKinds, RouteKinds DEF RoutingInit, RoutingTypeOK, Words
<1> QED
  BY <1>2 DEF RoutingInit, RoutingInv, RunsKnown

LEMMA RoutingInvKept == RoutingInv /\ [RoutingNext]_routingVars => RoutingInv'
<1> SUFFICES ASSUME RoutingInv, [RoutingNext]_routingVars PROVE RoutingInv'
  OBVIOUS
<1>1. CASE \E c \in Commands : RunProcess(c) \/ \E entry \in Entries \ {"run_process"} : RunConfirmed(entry, c)
  BY <1>1, CallBegins
<1>2. CASE ChooseBackend \/ RunnerUnavailable \/ RunnerIndeterminate \/ RunnerFails \/ RunnerAnswers \/ CallerDies
  BY <1>2, RunnerAsked
<1>3. CASE RunHere
  BY <1>3, RanHere
<1>4. CASE RunCandidate
  BY <1>4, CandidateRan
<1>5. CASE Answer \/ RecoverReply
  BY <1>5, Answered
<1>6. CASE UNCHANGED routingVars
  BY <1>6 DEF routingVars, RoutingInv, RoutingTypeOK, RunsKnown, MayRepeat
<1> QED
  BY <1>1, <1>2, <1>3, <1>4, <1>5, <1>6 DEF RoutingNext

\* What the invariant says of a call, whatever its phase.
LEMMA RunTwice ==
  ASSUME RoutingInv, ran.here + ran.runner > 1
  PROVE  MayRepeat
BY RoutingFacts DEF RunsKnown, RoutingTypeOK, RoutingInv

LEMMA SoundInState ==
  RoutingInv => RepeatedIsReadOnly /\ SecondRunIsReported /\ RoutesAreAccepted /\ RecoveredLikeDirect
<1> SUFFICES ASSUME RoutingInv
             PROVE  RepeatedIsReadOnly /\ SecondRunIsReported /\ RoutesAreAccepted /\ RecoveredLikeDirect
  OBVIOUS
<1> USE RoutingFacts
<1>1. RepeatedIsReadOnly
  BY RunTwice, RepeatableReads DEF RepeatedIsReadOnly, MayRepeat
<1>2. SecondRunIsReported
  BY DEF SecondRunIsReported, RunsKnown, OwnsUp
<1>3. RoutesAreAccepted
  <2> SUFFICES ASSUME phase = "steered"
               PROVE  \/ Suggested(command) \in Entries /\ Accepts(Suggested(command), command)
                      \/ /\ Suggested(command) = "core.git"
                         /\ command.root # "pla" => command.action \in Specialized
    BY DEF RoutesAreAccepted
  <2>1. command \in Commands /\ Rule(command) # "none"
    BY DEF RoutingInv, RunsKnown
  <2> QED
    BY <2>1, SteeredIsAccepted
<1>4. RecoveredLikeDirect
  BY DEF RecoveredLikeDirect, RunsKnown
<1> QED
  BY <1>1, <1>2, <1>3, <1>4

LEMMA ShadowKeepsOutcome ==
  RoutingInv /\ [RoutingNext]_routingVars =>
      [phase = "candidate" /\ way.backend = "shadow" => backendOutcome' = backendOutcome]_routingVars
<1> SUFFICES ASSUME RoutingInv, RoutingNext, phase = "candidate", way.backend = "shadow"
             PROVE  backendOutcome' = backendOutcome
  BY DEF routingVars
<1>1. RunCandidate
  BY DEF RoutingNext, RunProcess, RunConfirmed, ChooseBackend, RunnerUnavailable, RunnerIndeterminate,
         RunnerFails, RunnerAnswers, RunHere, Answer, CallerDies, RecoverReply
<1> QED
  BY <1>1, CandidateRan

\* Whatever backend runs a command, only a read is started twice, the reply
\* owns up to it, a steered caller is accepted where it is sent, recovery
\* answers what the direct path would have, and a shadow run changes nothing.
THEOREM RoutingSound == RoutingSpec => RoutingIsSound
<1>1. RoutingSpec => []RoutingInv
  BY RoutingInvInit, RoutingInvKept, PTL DEF RoutingSpec
<1>2. RoutingSpec => ShadowIsInvisible
  BY <1>1, ShadowKeepsOutcome, PTL DEF RoutingSpec, ShadowIsInvisible
<1> QED
  BY <1>1, <1>2, SoundInState, PTL DEF RoutingIsSound

(***************************************************************************)
(* The Windows services                                                    *)
(***************************************************************************)
CallStates == {"none", "queued", "requesting_elevation", "running", "completed", "failed", "timeout"}
EndStates == {"completed", "failed", "timeout"}
WorkerSteps == {"none", "checking", "acting", "reading", "done", "bad"}
Answers == {"none", "queued", "requesting_elevation", "running", "completed", "failed",
            "timeout", "result_missing", "result_mismatch"}
RestartSteps == {"none", "stopping", "starting", "waiting", "completed", "failed"}

ServiceTypes ==
    /\ operation \in [Calls -> Operations \cup {"none"}] /\ callState \in [Calls -> CallStates]
    /\ exitCode \in [Calls -> 0..1] /\ worker \in [Calls -> WorkerSteps]
    /\ resultFile \in [Calls -> Statuses \cup {"none"}] /\ answered \in [Calls -> Answers]
    /\ service \in [status : Statuses, disabled : BOOLEAN, dependents : BOOLEAN]

BrokerTypes ==
    /\ broker \in 0..MaxBrokers /\ brokers \in 0..MaxBrokers
    /\ brokerCall \in 0..MaxServiceCalls /\ brokerStep \in {"idle", "asking", "started", "waiting"}
    /\ heartbeat \in [pid : 0..MaxBrokers, call : 0..MaxServiceCalls, fresh : BOOLEAN]
    /\ restart \in [at : RestartSteps, old : 0..MaxBrokers, new : 0..MaxBrokers]

\* What the files of a call say of its worker, and of what was told.
CallKnown(n) ==
    /\ operation[n] = "none" => callState[n] = "none"
    /\ callState[n] \in {"none", "queued"} => worker[n] = "none"
    /\ worker[n] = "done" <=> resultFile[n] # "none"
    /\ callState[n] = "completed" => worker[n] = (IF exitCode[n] = 0 THEN "done" ELSE "bad")
    /\ answered[n] = "completed" => worker[n] = "done" /\ resultFile[n] = Expected(operation[n])

\* The broker knows the call it is about.
BrokerWorks ==
    /\ brokerStep = "idle" <=> brokerCall = 0
    /\ brokerCall # 0 =>
          /\ brokerCall \in Calls
          /\ callState[brokerCall] = IF brokerStep = "waiting" THEN "running" ELSE "requesting_elevation"
          /\ worker[brokerCall] = "none" <=> brokerStep = "asking"

\* Brokers are numbered as they come; the one a restart found is gone for good.
BrokersFollow ==
    /\ broker # 0 => broker = brokers
    /\ restart.old <= brokers
    /\ restart.at \in {"starting", "waiting"} => broker = 0 \/ broker > restart.old

ServiceInv ==
    /\ ServiceTypes /\ BrokerTypes
    /\ \A n \in Calls : CallKnown(n)
    /\ BrokerWorks /\ BrokersFollow

LEMMA ServiceFacts ==
  ASSUME ServiceInv
  PROVE  ServiceTypes /\ BrokerTypes /\ (\A n \in Calls : CallKnown(n)) /\ BrokerWorks /\ BrokersFollow
BY DEF ServiceInv

LEMMA CallNumbers ==
  /\ 0 \in 0..MaxServiceCalls /\ 0 \in 0..MaxBrokers /\ 1 \in 0..MaxBrokers
  /\ \A n \in Calls : n \in 0..MaxServiceCalls /\ n # 0
BY ServiceAssumption DEF Calls

LEMMA ServiceInvInit == ServiceInit => ServiceInv
<1> SUFFICES ASSUME ServiceInit PROVE ServiceInv
  OBVIOUS
<1> USE CallNumbers
<1>1. ServiceTypes
  BY DEF ServiceInit, ServiceTypes, CallStates, WorkerSteps, Answers, Statuses
<1>2. BrokerTypes
  BY DEF ServiceInit, BrokerTypes, NotRestarting, RestartSteps
<1>3. BrokerWorks /\ BrokersFollow /\ \A n \in Calls : CallKnown(n)
  BY DEF ServiceInit, BrokerWorks, BrokersFollow, CallKnown, NotRestarting
<1> QED
  BY <1>1, <1>2, <1>3 DEF ServiceInv

\* A step that touches one call only, and neither broker nor restart.
OnlyCall(n) ==
    /\ UNCHANGED <<broker, brokerStep, brokerCall, brokers, heartbeat, restart>>
    /\ \A m \in Calls \ {n} :
          /\ operation'[m] = operation[m] /\ callState'[m] = callState[m] /\ exitCode'[m] = exitCode[m]
          /\ worker'[m] = worker[m] /\ resultFile'[m] = resultFile[m] /\ answered'[m] = answered[m]

LEMMA OneCallMoves ==
  ASSUME ServiceInv, NEW n \in Calls, OnlyCall(n), ServiceTypes', CallKnown(n)', callState'[n] = callState[n] \/ brokerCall # n,
         worker'[n] = "none" <=> worker[n] = "none"
  PROVE  ServiceInv'
<1>1. \A m \in Calls : CallKnown(m)'
  BY ServiceFacts DEF OnlyCall, CallKnown
<1>2. BrokerWorks'
  BY ServiceFacts DEF OnlyCall, BrokerWorks
<1>3. BrokerTypes' /\ BrokersFollow'
  BY ServiceFacts DEF OnlyCall, BrokerTypes, BrokersFollow
<1> QED
  BY <1>1, <1>2, <1>3 DEF ServiceInv

LEMMA CallerMoves ==
  ASSUME ServiceInv, NEW n \in Calls,
         (\E o \in Operations : QueueService(n, o)) \/ QueueServiceStatus(n) \/ AskService(n)
  PROVE  ServiceInv'
<1> USE ServiceFacts
<1>0. UNCHANGED <<service, exitCode, worker, resultFile>> /\ UNCHANGED <<broker, brokerStep, brokerCall, brokers, heartbeat, restart>>
  BY DEF QueueService, QueueServiceStatus, AskService, brokerSide, serviceSide
<1>1. CASE \E o \in Operations : QueueService(n, o)
  <2>1. PICK o \in Operations : operation[n] = "none" /\ operation' = [operation EXCEPT ![n] = o]
                                /\ UNCHANGED <<callState, answered>>
    BY <1>1 DEF QueueService
  <2>2. operation'[n] = o /\ \A m \in Calls \ {n} : operation'[m] = operation[m]
    BY <2>1 DEF ServiceTypes
  <2>3. callState[n] = "none" /\ worker[n] = "none" /\ answered[n] # "completed"
    BY <2>1 DEF CallKnown
  <2>4. ServiceTypes'
    BY <1>0, <2>1 DEF ServiceTypes
  <2>5. OnlyCall(n) /\ CallKnown(n)'
    BY <1>0, <2>1, <2>2, <2>3 DEF OnlyCall, CallKnown
  <2> QED
    BY <1>0, <2>1, <2>4, <2>5, OneCallMoves
<1>2. CASE QueueServiceStatus(n)
  <2>1. /\ operation[n] # "none" /\ callState[n] = "none" /\ callState' = [callState EXCEPT ![n] = "queued"]
        /\ UNCHANGED <<operation, answered>>
    BY <1>2 DEF QueueServiceStatus
  <2>2. callState'[n] = "queued" /\ \A m \in Calls \ {n} : callState'[m] = callState[m]
    BY <2>1 DEF ServiceTypes
  <2>3. ServiceTypes'
    BY <1>0, <2>1 DEF ServiceTypes, CallStates
  <2>4. OnlyCall(n) /\ CallKnown(n)'
    BY <1>0, <2>1, <2>2 DEF OnlyCall, CallKnown
  <2>5. brokerCall # n
    BY <2>1, CallNumbers DEF BrokerWorks
  <2> QED
    BY <1>0, <2>3, <2>4, <2>5, OneCallMoves
<1>3. CASE AskService(n)
  <2>1. /\ answered' = [answered EXCEPT ![n] = OutcomeOf(n)] /\ UNCHANGED <<operation, callState>>
    BY <1>3 DEF AskService
  <2>2. /\ OutcomeOf(n) \in Answers
        /\ OutcomeOf(n) = "completed" =>
               callState[n] = "completed" /\ exitCode[n] = 0 /\ resultFile[n] = Expected(operation[n])
    <3>1. callState[n] \in CallStates
      BY DEF ServiceTypes
    <3>2. CASE callState[n] # "completed"
      <4>1. OutcomeOf(n) = callState[n]
        BY <3>2 DEF OutcomeOf
      <4> QED
        BY <3>1, <3>2, <4>1 DEF CallStates, Answers
    <3>3. CASE callState[n] = "completed"
      BY <3>3 DEF OutcomeOf, Answers
    <3> QED
      BY <3>2, <3>3
  <2>3. answered'[n] = OutcomeOf(n) /\ \A m \in Calls \ {n} : answered'[m] = answered[m]
    BY <2>1 DEF ServiceTypes
  <2>4. ServiceTypes'
    BY <1>0, <2>1, <2>2 DEF ServiceTypes
  <2>5. OnlyCall(n)
    BY <1>0, <2>1, <2>3 DEF OnlyCall
  <2>6. CallKnown(n)'
    BY <1>0, <2>1, <2>2, <2>3 DEF CallKnown
  <2> QED
    BY <1>0, <2>1, <2>4, <2>5, <2>6, OneCallMoves
<1> QED
  BY <1>1, <1>2, <1>3

LEMMA WorkerMoves ==
  ASSUME ServiceInv, NEW n \in Calls, WorkerChecks(n) \/ WorkerActs(n) \/ WorkerWrites(n)
  PROVE  ServiceInv'
<1> USE ServiceFacts
<1>0. /\ UNCHANGED <<operation, callState, exitCode, answered>>
      /\ UNCHANGED <<broker, brokerStep, brokerCall, brokers, heartbeat, restart>>
  BY DEF WorkerChecks, WorkerActs, WorkerWrites, Elsewhere, brokerSide
<1>1. ASSUME NEW to \in {"acting", "reading", "done", "bad"}, worker[n] \in {"checking", "acting", "reading"},
             worker' = [worker EXCEPT ![n] = to],
             service' \in [status : Statuses, disabled : BOOLEAN, dependents : BOOLEAN],
             to = "done" => resultFile' = [resultFile EXCEPT ![n] = service.status],
             to # "done" => UNCHANGED resultFile
      PROVE  ServiceInv'
  <2>1. worker'[n] = to /\ \A m \in Calls \ {n} : worker'[m] = worker[m]
    BY <1>1 DEF ServiceTypes
  <2>2. /\ resultFile' \in [Calls -> Statuses \cup {"none"}]
        /\ \A m \in Calls \ {n} : resultFile'[m] = resultFile[m]
        /\ to = "done" <=> resultFile'[n] # "none"
    <3>1. CASE to = "done"
      BY <1>1, <3>1 DEF ServiceTypes, Statuses
    <3>2. CASE to # "done"
      BY <1>1, <3>2 DEF ServiceTypes, CallKnown
    <3> QED
      BY <3>1, <3>2
  <2>3. ServiceTypes'
    BY <1>0, <1>1, <2>2 DEF ServiceTypes, WorkerSteps
  <2>4. callState[n] \notin {"none", "queued", "completed"} /\ answered[n] # "completed"
    BY <1>1 DEF CallKnown
  <2>5. CallKnown(n)'
    BY <1>0, <2>1, <2>2, <2>4 DEF CallKnown
  <2>6. OnlyCall(n)
    BY <1>0, <2>1, <2>2 DEF OnlyCall
  <2>7. worker'[n] = "none" <=> worker[n] = "none"
    BY <1>1, <2>1
  <2> QED
    BY <1>0, <2>3, <2>5, <2>6, <2>7, OneCallMoves
<1>2. service \in [status : Statuses, disabled : BOOLEAN, dependents : BOOLEAN] /\ service.status \in Statuses
  BY DEF ServiceTypes
<1>3. CASE WorkerChecks(n)
  <2>1. \E to \in {"acting", "bad"} : worker' = [worker EXCEPT ![n] = to]
    BY <1>3 DEF WorkerChecks, WorkerGoes
  <2> QED
    BY <1>1, <1>2, <1>3, <2>1 DEF WorkerChecks, WorkerGoes
<1>4. CASE WorkerActs(n)
  <2>1. Expected(operation[n]) \in Statuses /\ "Pending" \in Statuses
    BY DEF Expected, Statuses
  <2>2. service' \in [status : Statuses, disabled : BOOLEAN, dependents : BOOLEAN]
    BY <1>2, <1>4, <2>1 DEF WorkerActs, ServiceTypes
  <2>3. \E to \in {"reading", "bad"} : worker' = [worker EXCEPT ![n] = to]
    BY <1>4 DEF WorkerActs, WorkerGoes
  <2> QED
    BY <1>1, <1>4, <2>2, <2>3 DEF WorkerActs, WorkerGoes
<1>5. CASE WorkerWrites(n)
  BY <1>1, <1>2, <1>5 DEF WorkerWrites, WorkerGoes
<1> QED
  BY <1>3, <1>4, <1>5

LEMMA OthersMove ==
  ASSUME ServiceInv, OthersChange \/ UNCHANGED serviceVars
  PROVE  ServiceInv'
<1> USE ServiceFacts
<1>1. /\ UNCHANGED <<operation, callState, exitCode, worker, resultFile, answered>>
      /\ UNCHANGED <<broker, brokerStep, brokerCall, brokers, heartbeat, restart>>
  BY DEF OthersChange, serviceVars, callSide, brokerSide
<1>2. service' \in [status : Statuses, disabled : BOOLEAN, dependents : BOOLEAN]
  BY DEF OthersChange, serviceVars, serviceSide, ServiceTypes, Statuses
<1>3. ServiceTypes' /\ BrokerTypes'
  BY <1>1, <1>2 DEF ServiceTypes, BrokerTypes
<1>4. BrokerWorks' /\ BrokersFollow' /\ \A n \in Calls : CallKnown(n)'
  BY <1>1 DEF BrokerWorks, BrokersFollow, CallKnown
<1> QED
  BY <1>3, <1>4 DEF ServiceInv

\* The broker writes the status file of the call it is about, or only a heartbeat.
BrokerWrites(n, s, e) ==
    /\ UNCHANGED <<service, operation, resultFile, answered, brokers, broker, restart>>
    /\ callState' = [callState EXCEPT ![n] = s]
    /\ exitCode' \in {exitCode, [exitCode EXCEPT ![n] = e]}

LEMMA CallWritten ==
  ASSUME ServiceInv, NEW n \in Calls, NEW s \in CallStates, NEW e \in 0..1, BrokerWrites(n, s, e),
         worker' = worker \/ (worker[n] = "none" /\ worker' = [worker EXCEPT ![n] = "checking"]),
         operation[n] # "none", callState[n] \notin {"completed", "failed", "timeout"},
         s \notin {"none", "queued"},
         s = "completed" => /\ exitCode' = [exitCode EXCEPT ![n] = e]
                            /\ worker'[n] = (IF e = 0 THEN "done" ELSE "bad"),
         heartbeat' \in [pid : 0..MaxBrokers, call : 0..MaxServiceCalls, fresh : BOOLEAN],
         brokerStep' \in {"idle", "asking", "started", "waiting"},
         brokerStep' = "idle" <=> brokerCall' = 0,
         brokerCall' \in {0, n},
         brokerCall' = n => /\ s = IF brokerStep' = "waiting" THEN "running" ELSE "requesting_elevation"
                            /\ worker'[n] = "none" <=> brokerStep' = "asking"
  PROVE  ServiceInv'
<1> USE ServiceFacts
<1>1. callState'[n] = s /\ \A m \in Calls \ {n} : callState'[m] = callState[m] /\ worker'[m] = worker[m] /\ exitCode'[m] = exitCode[m]
  BY DEF BrokerWrites, ServiceTypes
<1>2. worker' \in [Calls -> WorkerSteps] /\ (worker'[n] \in {worker[n], "checking"})
  <2>1. "checking" \in WorkerSteps
    BY DEF WorkerSteps
  <2> QED
    BY <2>1 DEF ServiceTypes
<1>3. exitCode' \in [Calls -> 0..1]
  BY DEF BrokerWrites, ServiceTypes
<1>4. ServiceTypes'
  BY <1>2, <1>3 DEF BrokerWrites, ServiceTypes
<1>5. BrokerTypes'
  BY CallNumbers DEF BrokerWrites, BrokerTypes
<1>6. \A m \in Calls : CallKnown(m)'
  <2>1. CallKnown(n)'
    <3>1. s = "completed" => exitCode'[n] = e
      BY DEF ServiceTypes
    <3>2. CallKnown(n)
      OBVIOUS
    <3>3. worker'[n] = "done" <=> worker[n] = "done"
      BY <1>2
    <3> QED
      BY <1>1, <1>2, <3>1, <3>2, <3>3 DEF CallKnown, BrokerWrites
  <2>2. \A m \in Calls \ {n} : CallKnown(m)'
    BY <1>1 DEF CallKnown, BrokerWrites
  <2> QED
    BY <2>1, <2>2
<1>7. BrokerWorks'
  BY <1>1, CallNumbers DEF BrokerWorks
<1>8. BrokersFollow'
  BY DEF BrokerWrites, BrokersFollow
<1> QED
  BY <1>4, <1>5, <1>6, <1>7, <1>8 DEF ServiceInv

LEMMA HeartbeatKept ==
  ASSUME ServiceInv,
         \/ UNCHANGED heartbeat \/ heartbeat' = [heartbeat EXCEPT !.fresh = FALSE]
         \/ \E pid \in 0..MaxBrokers, call \in 0..MaxServiceCalls : Beat(pid, call)
  PROVE  heartbeat' \in [pid : 0..MaxBrokers, call : 0..MaxServiceCalls, fresh : BOOLEAN]
<1>1. heartbeat \in [pid : 0..MaxBrokers, call : 0..MaxServiceCalls, fresh : BOOLEAN]
  BY ServiceFacts DEF BrokerTypes
<1>2. CASE \E pid \in 0..MaxBrokers, call \in 0..MaxServiceCalls : Beat(pid, call)
  BY <1>2 DEF Beat
<1>3. CASE heartbeat' = [heartbeat EXCEPT !.fresh = FALSE]
  BY <1>1, <1>3
<1> QED
  BY <1>1, <1>2, <1>3

LEMMA BrokerWritesCall ==
  ASSUME ServiceInv, NEW n \in Calls,
         TakeService(n) \/ StartWorker(n) \/ NoteWorker(n) \/ GiveUp(n) \/ EndWait(n)
  PROVE  /\ ServiceInv' /\ operation[n] # "none" /\ callState[n] \notin EndStates
         /\ \E s \in CallStates : callState' = [callState EXCEPT ![n] = s] /\ (s = "completed" => worker[n] \in {"done", "bad"})
         /\ UNCHANGED operation
         /\ \/ worker' = worker
            \/ worker[n] = "none" /\ UNCHANGED callState /\ worker' = [worker EXCEPT ![n] = "checking"]
         /\ UNCHANGED <<restart, answered>>
<1> USE ServiceFacts, CallNumbers
<1>0. /\ UNCHANGED <<service, operation, resultFile, answered, brokers, broker, restart>>
      /\ heartbeat' \in [pid : 0..MaxBrokers, call : 0..MaxServiceCalls, fresh : BOOLEAN]
  <2>1. broker \in 0..MaxBrokers /\ n \in 0..MaxServiceCalls
    BY DEF BrokerTypes
  <2>2. UNCHANGED heartbeat \/ Beat(broker, 0) \/ Beat(broker, n)
    BY DEF TakeService, StartWorker, NoteWorker, GiveUp, EndWait
  <2>3. heartbeat' \in [pid : 0..MaxBrokers, call : 0..MaxServiceCalls, fresh : BOOLEAN]
    BY <2>1, <2>2, HeartbeatKept
  <2> QED
    BY <2>3 DEF TakeService, StartWorker, NoteWorker, GiveUp, EndWait, BrokerMoves, serviceSide
<1>1. CASE TakeService(n)
  <2>1. /\ brokerStep = "idle" /\ callState[n] = "queued" /\ UNCHANGED <<worker, exitCode>>
        /\ \/ /\ brokerStep' = "asking" /\ brokerCall' = n
              /\ callState' = [callState EXCEPT ![n] = "requesting_elevation"]
           \/ /\ brokerStep' = "idle" /\ brokerCall' = 0
              /\ callState' = [callState EXCEPT ![n] = "failed"]
    BY <1>1 DEF TakeService, BrokerMoves
  <2>2. operation[n] # "none" /\ worker[n] = "none"
    BY <2>1 DEF CallKnown
  <2>3. PICK s \in {"requesting_elevation", "failed"} :
          /\ callState' = [callState EXCEPT ![n] = s]
          /\ s = "requesting_elevation" => brokerStep' = "asking" /\ brokerCall' = n
          /\ s = "failed" => brokerStep' = "idle" /\ brokerCall' = 0
    BY <2>1
  <2>4. BrokerWrites(n, s, 0) /\ s \in CallStates
    BY <1>0, <2>1, <2>3 DEF BrokerWrites, CallStates
  <2>5. ServiceInv'
    BY <1>0, <2>1, <2>2, <2>3, <2>4, CallWritten
  <2> QED
    BY <1>0, <2>1, <2>2, <2>3, <2>4, <2>5 DEF EndStates
<1>2. ASSUME brokerCall = n
      PROVE  /\ operation[n] # "none" /\ brokerStep # "idle"
             /\ callState[n] = IF brokerStep = "waiting" THEN "running" ELSE "requesting_elevation"
             /\ worker[n] = "none" <=> brokerStep = "asking"
  BY <1>2 DEF BrokerWorks, CallKnown
<1>3. CASE StartWorker(n)
  <2>1. /\ brokerCall = n /\ brokerStep = "asking" /\ brokerStep' = "started" /\ brokerCall' = n
        /\ callState' = [callState EXCEPT ![n] = callState[n]]
        /\ worker' = [worker EXCEPT ![n] = "checking"] /\ UNCHANGED exitCode
    BY <1>3 DEF StartWorker, BrokerMoves
  <2>2. callState[n] = "requesting_elevation" /\ worker[n] = "none" /\ operation[n] # "none"
    BY <1>2, <2>1
  <2>3. callState' = callState /\ worker'[n] = "checking"
    BY <2>1 DEF ServiceTypes
  <2>4. BrokerWrites(n, "requesting_elevation", 0) /\ "requesting_elevation" \in CallStates /\ 0 \in 0..1
    BY <1>0, <2>1, <2>2 DEF BrokerWrites, CallStates
  <2>6. /\ brokerStep' \in {"idle", "asking", "started", "waiting"} /\ brokerCall' \in {0, n}
        /\ brokerStep' = "idle" <=> brokerCall' = 0
        /\ worker' = worker \/ (worker[n] = "none" /\ worker' = [worker EXCEPT ![n] = "checking"])
        /\ callState[n] \notin {"completed", "failed", "timeout"}
        /\ "requesting_elevation" = IF brokerStep' = "waiting" THEN "running" ELSE "requesting_elevation"
        /\ worker'[n] = "none" <=> brokerStep' = "asking"
    BY <2>1, <2>2, <2>3
  <2>5. ServiceInv'
    BY <1>0, <2>2, <2>4, <2>6, CallWritten
  <2> QED
    BY <1>0, <2>1, <2>2, <2>3, <2>4, <2>5 DEF EndStates
<1>4. CASE NoteWorker(n)
  <2>1. /\ brokerCall = n /\ brokerStep = "started" /\ brokerStep' = "waiting" /\ brokerCall' = n
        /\ callState' = [callState EXCEPT ![n] = "running"] /\ UNCHANGED <<worker, exitCode>>
    BY <1>4 DEF NoteWorker, BrokerMoves
  <2>2. callState[n] = "requesting_elevation" /\ worker[n] # "none" /\ operation[n] # "none"
    BY <1>2, <2>1
  <2>3. BrokerWrites(n, "running", 0) /\ "running" \in CallStates
    BY <1>0, <2>1 DEF BrokerWrites, CallStates
  <2>4. ServiceInv'
    BY <1>0, <2>1, <2>2, <2>3, CallWritten
  <2> QED
    BY <1>0, <2>1, <2>2, <2>3, <2>4 DEF EndStates
<1>5. CASE GiveUp(n)
  <2>1. /\ brokerCall = n /\ brokerStep' = "idle" /\ brokerCall' = 0
        /\ callState' = [callState EXCEPT ![n] = "failed"] /\ UNCHANGED <<worker, exitCode>>
    BY <1>5 DEF GiveUp, BrokerMoves
  <2>2. callState[n] \in {"running", "requesting_elevation"} /\ operation[n] # "none"
    BY <1>2, <2>1
  <2>3. BrokerWrites(n, "failed", 0) /\ "failed" \in CallStates
    BY <1>0, <2>1 DEF BrokerWrites, CallStates
  <2>4. ServiceInv'
    BY <1>0, <2>1, <2>2, <2>3, CallWritten
  <2> QED
    BY <1>0, <2>1, <2>2, <2>3, <2>4 DEF EndStates
<1>6. CASE EndWait(n)
  <2>1. PICK s \in {"completed", "timeout"}, e \in 0..1 :
          /\ callState' = [callState EXCEPT ![n] = s] /\ exitCode' = [exitCode EXCEPT ![n] = e]
          /\ s = "completed" <=> worker[n] \in {"done", "bad"}
          /\ e = 1 <=> worker[n] = "bad"
    <3>1. 0 \in 0..1 /\ 1 \in 0..1
      OBVIOUS
    <3>2. /\ callState' = [callState EXCEPT ![n] = IF worker[n] \in {"done", "bad"} THEN "completed" ELSE "timeout"]
          /\ exitCode' = [exitCode EXCEPT ![n] = IF worker[n] = "bad" THEN 1 ELSE 0]
      BY <1>6 DEF EndWait, BrokerMoves
    <3>3. CASE worker[n] = "done"
      BY <3>1, <3>2, <3>3
    <3>4. CASE worker[n] = "bad"
      BY <3>1, <3>2, <3>4
    <3>5. CASE worker[n] \notin {"done", "bad"}
      <4>1. /\ callState' = [callState EXCEPT ![n] = "timeout"]
            /\ exitCode' = [exitCode EXCEPT ![n] = 0]
        BY <3>2, <3>5
      <4> QED
        BY <3>1, <3>5, <4>1
    <3> QED
      BY <3>3, <3>4, <3>5
  <2>2. brokerCall = n /\ brokerStep' = "idle" /\ brokerCall' = 0 /\ UNCHANGED worker
    BY <1>6 DEF EndWait, BrokerMoves
  <2>3. callState[n] \in {"running", "requesting_elevation"} /\ operation[n] # "none"
    BY <1>2, <2>2
  <2>4. BrokerWrites(n, s, e) /\ s \in CallStates
    BY <1>0, <2>1 DEF BrokerWrites, CallStates
  <2>5. s = "completed" => worker'[n] = IF e = 0 THEN "done" ELSE "bad"
    BY <2>1, <2>2
  <2>6. ServiceInv'
    BY <1>0, <2>1, <2>2, <2>3, <2>4, <2>5, CallWritten
  <2> QED
    BY <1>0, <2>1, <2>2, <2>3, <2>4, <2>6 DEF EndStates
<1> QED
  BY <1>1, <1>3, <1>4, <1>5, <1>6

LEMMA BrokersMove ==
  ASSUME ServiceInv,
         \/ BeginRestart \/ StopBroker \/ StartBroker \/ AwaitBroker
         \/ BrokerComesUp \/ BrokerBeats \/ HeartbeatAges \/ BrokerStops
  PROVE  ServiceInv'
<1> USE ServiceFacts, CallNumbers
<1>1. UNCHANGED <<service, operation, callState, exitCode, worker, resultFile, answered>>
  BY DEF BeginRestart, StopBroker, StartBroker, AwaitBroker, BrokerComesUp, BrokerBeats, HeartbeatAges,
         BrokerStops, serviceSide, callSide
<1>2. UNCHANGED <<brokerStep, brokerCall>> \/ (brokerStep' = "idle" /\ brokerCall' = 0)
  BY DEF BeginRestart, StopBroker, StartBroker, AwaitBroker, BrokerComesUp, BrokerBeats, HeartbeatAges,
         BrokerStops, brokerSide
<1>3. BrokerWorks'
  BY <1>1, <1>2 DEF BrokerWorks
<1>4. ServiceTypes' /\ \A n \in Calls : CallKnown(n)'
  BY <1>1 DEF ServiceTypes, CallKnown
<1>5. BrokerTypes'
  <2>1. heartbeat' \in [pid : 0..MaxBrokers, call : 0..MaxServiceCalls, fresh : BOOLEAN]
    <3>1. CASE BrokerComesUp
      <4>1. brokers + 1 \in 0..MaxBrokers
        BY <3>1, ServiceAssumption DEF BrokerComesUp, BrokerTypes
      <4> QED
        BY <3>1, <4>1, HeartbeatKept DEF BrokerComesUp
    <3>2. CASE BrokerBeats \/ HeartbeatAges
      <4>1. broker \in 0..MaxBrokers
        BY DEF BrokerTypes
      <4> QED
        BY <3>2, <4>1, HeartbeatKept DEF BrokerBeats, HeartbeatAges
    <3>3. CASE UNCHANGED heartbeat
      BY <3>3, HeartbeatKept
    <3> QED
      BY <3>1, <3>2, <3>3 DEF BeginRestart, StopBroker, StartBroker, AwaitBroker, BrokerStops, brokerSide
  <2>2. broker' \in 0..MaxBrokers /\ brokers' \in 0..MaxBrokers
    BY ServiceAssumption DEF BeginRestart, StopBroker, StartBroker, AwaitBroker, BrokerComesUp, BrokerBeats,
       HeartbeatAges, BrokerStops, brokerSide, BrokerTypes
  <2>3. restart' \in [at : RestartSteps, old : 0..MaxBrokers, new : 0..MaxBrokers]
    <3>1. restart \in [at : RestartSteps, old : 0..MaxBrokers, new : 0..MaxBrokers] /\ heartbeat.pid \in 0..MaxBrokers
      BY DEF BrokerTypes
    <3>2. {"stopping", "starting", "waiting", "completed", "failed"} \subseteq RestartSteps
      BY DEF RestartSteps
    <3>3. CASE BeginRestart
      BY <3>1, <3>2, <3>3 DEF BeginRestart
    <3>4. CASE StopBroker
      BY <3>1, <3>2, <3>4 DEF StopBroker
    <3>5. CASE StartBroker
      BY <3>1, <3>2, <3>5 DEF StartBroker
    <3>6. CASE AwaitBroker
      BY <3>1, <3>2, <3>6 DEF AwaitBroker
    <3>7. CASE BrokerComesUp \/ BrokerBeats \/ HeartbeatAges \/ BrokerStops
      BY <3>1, <3>7 DEF BrokerComesUp, BrokerBeats, HeartbeatAges, BrokerStops
    <3> QED
      BY <3>3, <3>4, <3>5, <3>6, <3>7
  <2> QED
    BY <1>2, <2>1, <2>2, <2>3 DEF BrokerTypes
<1>6. BrokersFollow'
  <2> USE DEF BrokersFollow, BrokerTypes
  <2>1. CASE BeginRestart
    <3>1. restart'.at = "stopping" /\ restart'.old = broker /\ broker # 0 /\ UNCHANGED <<broker, brokers>>
      BY <2>1 DEF BeginRestart, BrokerReady, brokerSide
    <3> QED
      BY <3>1
  <2>2. CASE StopBroker
    <3>1. restart' = [restart EXCEPT !.at = restart'.at] /\ UNCHANGED brokers
      BY <2>2 DEF StopBroker
    <3>2. restart'.old = restart.old
      BY <3>1
    <3> QED
      BY <2>2, <3>1, <3>2 DEF StopBroker
  <2>3. CASE StartBroker
    BY <2>3 DEF StartBroker, brokerSide
  <2>4. CASE AwaitBroker
    <3>1. restart'.at \in {"completed", "failed"} /\ restart'.old = restart.old /\ UNCHANGED brokers
          /\ broker' \in {0, broker}
      BY <2>4 DEF AwaitBroker
    <3> QED
      BY <3>1
  <2>5. CASE BrokerComesUp
    <3>1. broker' = brokers + 1 /\ brokers' = brokers + 1 /\ UNCHANGED restart
      BY <2>5 DEF BrokerComesUp
    <3>2. restart.old \in 0..MaxBrokers
      OBVIOUS
    <3> QED
      BY <3>1, <3>2, ServiceAssumption
  <2>6. CASE BrokerBeats \/ HeartbeatAges \/ BrokerStops
    BY <2>6 DEF BrokerBeats, HeartbeatAges, BrokerStops
  <2> QED
    BY <2>1, <2>2, <2>3, <2>4, <2>5, <2>6
<1> QED
  BY <1>3, <1>4, <1>5, <1>6 DEF ServiceInv

LEMMA ServiceInvKept == ServiceInv /\ [ServiceNext]_serviceVars => ServiceInv'
<1> SUFFICES ASSUME ServiceInv, [ServiceNext]_serviceVars PROVE ServiceInv'
  OBVIOUS
<1>1. ASSUME NEW n \in Calls, NEW o \in Operations, QueueService(n, o)
      PROVE  ServiceInv'
  BY <1>1, CallerMoves
<1>2. ASSUME NEW n \in Calls,
             QueueServiceStatus(n) \/ AskService(n) \/ TakeService(n) \/ StartWorker(n) \/ NoteWorker(n)
             \/ GiveUp(n) \/ EndWait(n) \/ WorkerChecks(n) \/ WorkerActs(n) \/ WorkerWrites(n)
      PROVE  ServiceInv'
  BY <1>2, CallerMoves, BrokerWritesCall, WorkerMoves
<1>3. CASE BeginRestart \/ StopBroker \/ StartBroker \/ AwaitBroker
           \/ BrokerComesUp \/ BrokerBeats \/ HeartbeatAges \/ BrokerStops
  BY <1>3, BrokersMove
<1>4. CASE OthersChange \/ UNCHANGED serviceVars
  BY <1>4, OthersMove
<1> QED
  BY <1>1, <1>2, <1>3, <1>4 DEF ServiceNext

-----------------------------------------------------------------------------
(* A service call is one request of the broker *)

CallEnded(s) == [n \in Calls |-> IF s[n] \in EndStates THEN s[n] ELSE "open"]
CallBegun(w) == [n \in Calls |-> IF w[n] = "none" THEN 0 ELSE 1]
CallFiled(o) == {n \in Calls : o[n] # "none"}

LEMMA CallUntouched ==
  ASSUME CallFiled(operation') = CallFiled(operation), CallBegun(worker') = CallBegun(worker),
         CallEnded(callState') = CallEnded(callState)
  PROVE  UNCHANGED ServiceRequest!requestVars
BY DEF ServiceRequest!requestVars, CallFiled, CallBegun, CallEnded, EndStates

LEMMA CallEnds ==
  ASSUME NEW n \in Calls, NEW st \in [Calls -> CallStates], NEW s \in CallStates, st[n] \notin EndStates
  PROVE  /\ s \notin EndStates => CallEnded([st EXCEPT ![n] = s]) = CallEnded(st)
         /\ s \in EndStates => CallEnded([st EXCEPT ![n] = s]) = [CallEnded(st) EXCEPT ![n] = s]
         /\ CallEnded(st)[n] = "open"
<1>1. CallEnded(st)[n] = "open"
  BY DEF CallEnded
<1>2. s \notin EndStates => CallEnded([st EXCEPT ![n] = s]) = CallEnded(st)
  BY DEF CallEnded
<1>3. s \in EndStates => CallEnded([st EXCEPT ![n] = s]) = [CallEnded(st) EXCEPT ![n] = s]
  BY DEF CallEnded
<1> QED
  BY <1>1, <1>2, <1>3

LEMMA ServiceStepImplements ==
  ServiceInv /\ [ServiceNext]_serviceVars => [ServiceRequest!Next]_ServiceRequest!requestVars
<1> SUFFICES ASSUME ServiceInv, [ServiceNext]_serviceVars
             PROVE  [ServiceRequest!Next]_ServiceRequest!requestVars
  OBVIOUS
<1> USE ServiceFacts
<1>1. CASE UNCHANGED <<operation, callState, worker>>
  BY <1>1, CallUntouched
<1>2. ASSUME NEW n \in Calls, NEW o \in Operations, QueueService(n, o)
      PROVE  ServiceRequest!Next
  <2>1. operation[n] = "none" /\ operation' = [operation EXCEPT ![n] = o] /\ UNCHANGED <<callState, worker>>
    BY <1>2 DEF QueueService
  <2>2. o # "none"
    BY DEF Operations
  <2>3. CallFiled(operation') = CallFiled(operation) \cup {n} /\ n \notin CallFiled(operation)
    BY <2>1, <2>2 DEF CallFiled, ServiceTypes
  <2>4. ServiceRequest!File(n)
    BY <2>1, <2>3 DEF ServiceRequest!File, CallFiled
  <2> QED
    BY <2>4 DEF ServiceRequest!Next
<1>3. ASSUME NEW n \in Calls, QueueServiceStatus(n)
      PROVE  UNCHANGED ServiceRequest!requestVars
  <2>1. callState[n] = "none" /\ callState' = [callState EXCEPT ![n] = "queued"] /\ UNCHANGED <<operation, worker>>
    BY <1>3 DEF QueueServiceStatus
  <2>2. PICK st : st = callState
    OBVIOUS
  <2>3. st \in [Calls -> CallStates] /\ st[n] \notin EndStates /\ "queued" \in CallStates /\ "queued" \notin EndStates
    BY <2>1, <2>2 DEF ServiceTypes, EndStates, CallStates
  <2>4. CallEnded([st EXCEPT ![n] = "queued"]) = CallEnded(st)
    BY <2>3, CallEnds
  <2> QED
    BY <2>1, <2>2, <2>4, CallUntouched
<1>4. ASSUME NEW n \in Calls, WorkerChecks(n) \/ WorkerActs(n) \/ WorkerWrites(n)
      PROVE  UNCHANGED ServiceRequest!requestVars
  <2>1. PICK to \in {"acting", "reading", "done", "bad"} :
           worker[n] # "none" /\ worker' = [worker EXCEPT ![n] = to] /\ UNCHANGED <<operation, callState>>
    BY <1>4 DEF WorkerChecks, WorkerActs, WorkerWrites, WorkerGoes, Elsewhere
  <2>2. CallBegun(worker') = CallBegun(worker)
    BY <2>1 DEF CallBegun, ServiceTypes
  <2> QED
    BY <2>1, <2>2, CallUntouched
<1>5. ASSUME NEW n \in Calls, TakeService(n) \/ StartWorker(n) \/ NoteWorker(n) \/ GiveUp(n) \/ EndWait(n)
      PROVE  [ServiceRequest!Next]_ServiceRequest!requestVars
  <2>1. /\ operation[n] # "none" /\ callState[n] \notin EndStates
        /\ \E s \in CallStates : callState' = [callState EXCEPT ![n] = s] /\ (s = "completed" => worker[n] \in {"done", "bad"})
        /\ UNCHANGED operation
        /\ \/ worker' = worker
           \/ worker[n] = "none" /\ UNCHANGED callState /\ worker' = [worker EXCEPT ![n] = "checking"]
    BY <1>5, BrokerWritesCall
  <2>2. PICK st : st = callState
    OBVIOUS
  <2>3. st \in [Calls -> CallStates] /\ st[n] \notin EndStates
    BY <2>1, <2>2 DEF ServiceTypes
  <2>4. CASE worker' = worker
    <3>1. PICK s \in CallStates : callState' = [callState EXCEPT ![n] = s] /\ (s = "completed" => worker[n] \in {"done", "bad"})
      BY <2>1
    <3>2. CASE s \notin EndStates
      <4>1. CallEnded([st EXCEPT ![n] = s]) = CallEnded(st)
        BY <2>3, <3>2 DEF CallEnded
      <4>2. CallEnded(callState') = CallEnded(callState)
        BY <2>2, <3>1, <4>1
      <4>3. CallFiled(operation') = CallFiled(operation) /\ CallBegun(worker') = CallBegun(worker)
        BY <2>1, <2>4
      <4> QED
        BY <4>2, <4>3, CallUntouched
    <3>3. CASE s \in EndStates
      <4>1. CallEnded([st EXCEPT ![n] = s]) = [CallEnded(st) EXCEPT ![n] = s] /\ CallEnded(st)[n] = "open"
        BY <2>3, <3>3, CallEnds
      <4>2. s = "completed" => CallBegun(worker)[n] = 1
        BY <3>1 DEF CallBegun
      <4>3. CallEnded(callState') = [CallEnded(callState) EXCEPT ![n] = s] /\ CallEnded(callState)[n] = "open"
        BY <2>2, <3>1, <4>1
      <4>4. n \in CallFiled(operation)
        BY <2>1 DEF CallFiled
      <4>5. ServiceRequest!End(n, s)
        BY <2>1, <2>4, <4>2, <4>3, <4>4
        DEF ServiceRequest!End, CallEnded, CallBegun, CallFiled, EndStates
      <4> QED
        BY <3>3, <4>5 DEF ServiceRequest!Next, ServiceRequest!Endings, EndStates
    <3> QED
      BY <3>2, <3>3
  <2>5. CASE worker[n] = "none" /\ UNCHANGED callState /\ worker' = [worker EXCEPT ![n] = "checking"]
    <3>1. CallBegun(worker') = [CallBegun(worker) EXCEPT ![n] = 1] /\ CallBegun(worker)[n] = 0
      BY <2>5 DEF CallBegun, ServiceTypes
    <3>2. n \in CallFiled(operation) /\ CallEnded(callState)[n] = "open"
      BY <2>1 DEF CallFiled, CallEnded
    <3>3. ServiceRequest!Begin(n)
      BY <2>1, <2>5, <3>1, <3>2 DEF ServiceRequest!Begin, CallBegun, CallFiled, CallEnded, EndStates
    <3> QED
      BY <3>3 DEF ServiceRequest!Next
  <2> QED
    BY <2>1, <2>4, <2>5
<1>6. CASE \/ BeginRestart \/ StopBroker \/ StartBroker \/ AwaitBroker
           \/ BrokerComesUp \/ BrokerBeats \/ HeartbeatAges \/ BrokerStops \/ OthersChange \/ UNCHANGED serviceVars
           \/ \E n \in Calls : AskService(n)
  BY <1>1, <1>6 DEF BeginRestart, StopBroker, StartBroker, AwaitBroker, BrokerComesUp, BrokerBeats,
     HeartbeatAges, BrokerStops, OthersChange, serviceVars, callSide, AskService
<1> QED
  BY <1>2, <1>3, <1>4, <1>5, <1>6 DEF ServiceNext

LEMMA RestartNamesNew ==
  ServiceInv /\ [ServiceNext]_serviceVars =>
      [restart'.at = "completed" /\ restart.at # "completed" =>
           restart'.new > restart'.old /\ broker # restart'.old]_serviceVars
<1> SUFFICES ASSUME ServiceInv, ServiceNext, restart'.at = "completed", restart.at # "completed"
             PROVE  restart'.new > restart'.old /\ broker # restart'.old
  OBVIOUS
<1> USE ServiceFacts
<1>1. restart' # restart
  OBVIOUS
<1>2. BeginRestart \/ StopBroker \/ StartBroker \/ AwaitBroker
  BY <1>1 DEF ServiceNext, QueueService, QueueServiceStatus, AskService, TakeService, StartWorker, NoteWorker,
     GiveUp, EndWait, WorkerChecks, WorkerActs, WorkerWrites, Elsewhere, BrokerComesUp, BrokerBeats,
     HeartbeatAges, BrokerStops, OthersChange
<1>3. AwaitBroker /\ restart.at = "waiting"
  BY <1>2 DEF BeginRestart, StopBroker, StartBroker, AwaitBroker, BrokerTypes
<1>4. NewBroker /\ restart' = [restart EXCEPT !.at = "completed", !.new = heartbeat.pid]
  BY <1>3 DEF AwaitBroker, BrokerTypes
<1>5. restart'.new = broker /\ restart'.old = restart.old /\ broker # 0 /\ broker # restart.old
  BY <1>4 DEF NewBroker, BrokerReady, BrokerTypes
<1> QED
  BY <1>3, <1>5 DEF BrokersFollow

\* windows_action_capabilities.py: a call is one request whose worker is started
\* once, completed is told of it only when its own worker acted and then saw what
\* was asked, and a restart of the broker that succeeds names a later broker.
THEOREM OutcomesReached == ServiceSpec => OutcomesAreReached
<1>1. ServiceInit => ServiceRequest!Init
  BY DEF ServiceInit, ServiceRequest!Init
<1>2. ServiceInv => \A n \in Calls : answered[n] = "completed" =>
                        worker[n] = "done" /\ resultFile[n] = Expected(operation[n])
  BY DEF ServiceInv, CallKnown
<1> QED
  BY <1>1, <1>2, ServiceInvInit, ServiceInvKept, ServiceStepImplements, RestartNamesNew, PTL
  DEF ServiceSpec, OutcomesAreReached, ServiceRequest!Spec

(***************************************************************************)
(* The form of every record                                                *)
(***************************************************************************)
\* What ServiceInv leaves out of the types: a broker that is gone has no call.
ServiceRest ==
    /\ userChanges \in 0..MaxUserChanges
    /\ broker = 0 => brokerCall = 0

LEMMA ServiceRestKept == ServiceInv /\ ServiceRest /\ [ServiceNext]_serviceVars => ServiceRest'
<1> SUFFICES ASSUME ServiceInv, ServiceRest, [ServiceNext]_serviceVars PROVE ServiceRest'
  OBVIOUS
<1>1. MaxUserChanges \in Nat /\ brokers \in Nat
  BY ServiceAssumption, ServiceFacts DEF BrokerTypes
<1>2. CASE \E n \in Calls, o \in Operations : QueueService(n, o)
  BY <1>2 DEF QueueService, ServiceRest, serviceSide, brokerSide
<1>3. ASSUME NEW n \in Calls,
             QueueServiceStatus(n) \/ AskService(n) \/ WorkerChecks(n) \/ WorkerActs(n) \/ WorkerWrites(n)
      PROVE  ServiceRest'
  BY <1>3 DEF QueueServiceStatus, AskService, WorkerChecks, WorkerActs, WorkerWrites, Elsewhere,
     ServiceRest, serviceSide, brokerSide
<1>4. ASSUME NEW n \in Calls, TakeService(n) \/ StartWorker(n) \/ NoteWorker(n) \/ GiveUp(n) \/ EndWait(n)
      PROVE  ServiceRest'
  <2>1. broker # 0 /\ broker' = broker /\ userChanges' = userChanges
    BY <1>4 DEF TakeService, StartWorker, NoteWorker, GiveUp, EndWait, BrokerMoves, serviceSide
  <2> QED
    BY <2>1 DEF ServiceRest
<1>5. CASE BeginRestart \/ StopBroker \/ StartBroker \/ AwaitBroker \/ BrokerStops
  BY <1>5 DEF BeginRestart, StopBroker, StartBroker, AwaitBroker, BrokerStops,
     ServiceRest, serviceSide, brokerSide
<1>6. CASE BrokerComesUp
  BY <1>1, <1>6 DEF BrokerComesUp, ServiceRest, serviceSide
<1>7. CASE BrokerBeats \/ HeartbeatAges \/ UNCHANGED serviceVars
  BY <1>7 DEF BrokerBeats, HeartbeatAges, ServiceRest, serviceSide, brokerSide, serviceVars
<1>8. CASE OthersChange
  BY <1>1, <1>8 DEF OthersChange, ServiceRest, brokerSide
<1> QED
  BY <1>2, <1>3, <1>4, <1>5, <1>6, <1>7, <1>8 DEF ServiceNext

\* The components of a call move one at a time, so that each keeps its invariant
\* in their composition.
CallInv ==
    /\ PathInv /\ ObserverInv /\ ArtifactInv /\ RoutingInv
    /\ ServiceInv /\ ServiceRest

LEMMA CallComponentMoves ==
  ASSUME [MCNext]_mcVars
  PROVE  /\ [PathNext]_pathVars /\ [ObserverNext]_observerVars /\ [ArtifactNext]_artifactVars
         /\ [RoutingNext]_routingVars /\ [ServiceNext]_serviceVars
BY Zenon DEF MCNext, mcVars

\* Every part of the system a capability call passes through keeps its records,
\* rows and files in form: capability_broker.py, external_observer_runtime.py,
\* artifact_bridge.py, execution_backend.py, windows_action_capabilities.py.
THEOREM CallTypesCorrect == MCSpec => []CallTypesOK
<1>1. MCInit => CallInv
  <2>1. ServiceInit => ServiceRest
    BY ServiceAssumption DEF ServiceInit, ServiceRest
  <2> QED
    BY <2>1, PathInvInit, ObserverInvInit, ArtifactInvInit, RoutingInvInit, ServiceInvInit DEF MCInit, CallInv
<1>2. CallInv /\ [MCNext]_mcVars => CallInv'
  BY CallComponentMoves, PathInvKept, ObserverInvKept, ArtifactInvKept, RoutingInvKept, ServiceInvKept,
     ServiceRestKept DEF CallInv
<1>3. CallInv => CallTypesOK
  <2>1. ServiceInv /\ ServiceRest => ServiceTypeOK
    BY DEF ServiceInv, ServiceRest, ServiceTypes, BrokerTypes, BrokerWorks, ServiceTypeOK,
       CallStates, WorkerSteps, Answers, RestartSteps
  <2> QED
    BY <2>1 DEF CallInv, CallTypesOK, PathInv, ObserverInv, ArtifactInv, RoutingInv
<1> QED
  BY <1>1, <1>2, <1>3, PTL DEF MCSpec

===========================================================================
