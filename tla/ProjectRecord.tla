--------------------------- MODULE ProjectRecord ---------------------------
(***************************************************************************)
(* The durable record of one project: its state with a revision            *)
(* (src/project/project_state.py), the evidence recorded for a revision,   *)
(* the acceptance contract and its evaluations (acceptance_contract.py),   *)
(* and the verifier that alone may promote a frozen state to verified      *)
(* (independent_verifier.py).  Each write holds the workspace lock; the    *)
(* verifier looks at the files, runs the tests without it, and looks again.*)
(* The files are written by these operations only.                         *)
(***************************************************************************)
EXTENDS Naturals, Sequences

CONSTANTS
    Checks,          \* checks of the acceptance contract
    Verifiers,       \* calls of verify_acceptance
    NoVerifier,          \* the workspace lock is free
    MaxRevision, MaxContract, MaxEvidence, MaxEvaluations  \* bounds

ASSUME RecordAssumption ==
    /\ NoVerifier \notin Verifiers /\ Checks # {}
    /\ {MaxRevision, MaxContract, MaxEvidence, MaxEvaluations} \subseteq Nat \ {0}

Lifecycles == {"candidate", "computed", "frozen"}

VARIABLES
    recordDir,     \* the state directory: absent, partial or ready
    state,      \* STATE.yaml: its revision and lifecycle
    contract,   \* revision of ACCEPTANCE.yaml, 0 when there is none
    evidence,   \* records of EVIDENCE.jsonl, numbered
    evaluated,  \* evaluation files, numbered
    verdicts,   \* verification files
    verifying,       \* verifier -> idle, or what it looked at and found
    recordLock        \* verifier that promotes under the workspace lock

recordVars == <<recordDir, state, contract, evidence, evaluated, verdicts, verifying, recordLock>>

Evidence == [rev : 1..MaxRevision, status : {"pass", "fail"}]
Evaluation ==
    [rev : 1..MaxRevision, contract : 1..MaxContract, status : {"pass", "fail", "incomplete"},
     bound : [Checks -> SUBSET (1..MaxEvidence)]]
Verdict ==
    [rev : 1..MaxRevision, contract : 1..MaxContract, of : 1..MaxEvaluations,
     status : {"verified", "failed", "incomplete"}, promoted : 0..MaxRevision]
NotVerifying == [at |-> "idle", of |-> 1]

RecordTypeOK ==
    /\ recordDir \in {"absent", "partial", "ready"}
    /\ state \in [rev : 1..MaxRevision, life : Lifecycles \cup {"verified"}]
    /\ contract \in 0..MaxContract
    /\ evidence \in Seq(Evidence) /\ Len(evidence) <= MaxEvidence
    /\ \A e \in DOMAIN evidence : evidence[e].rev <= state.rev
    /\ evaluated \in Seq(Evaluation) /\ Len(evaluated) <= MaxEvaluations
    /\ \A e \in DOMAIN evaluated : evaluated[e].rev <= state.rev
    /\ verdicts \subseteq Verdict
    /\ verifying \in [Verifiers -> [at : {"idle", "checking", "promoting"}, of : 1..MaxEvaluations]]
    /\ recordLock \in Verifiers \cup {NoVerifier}
    /\ \A v \in Verifiers : verifying[v].at = "promoting" <=> recordLock = v

RecordInit ==
    /\ recordDir = "absent" /\ state = [rev |-> 1, life |-> "candidate"] /\ contract = 0
    /\ evidence = <<>> /\ evaluated = <<>> /\ verdicts = {}
    /\ verifying = [v \in Verifiers |-> NotVerifying] /\ recordLock = NoVerifier

Unlocked == recordLock = NoVerifier /\ recordDir = "ready"

-----------------------------------------------------------------------------
(* project_state *)

\* A failure removes the directory; a crash leaves it without its files.
InitProject ==
    /\ recordDir = "absent" /\ recordLock = NoVerifier /\ recordDir' \in {"ready", "partial"}
    /\ UNCHANGED <<state, contract, evidence, evaluated, verdicts, verifying, recordLock>>

\* Every update is a new revision, and reopens a verified state.
Update ==
    \E life \in Lifecycles :
        /\ Unlocked /\ state.rev < MaxRevision
        /\ state' = [rev |-> state.rev + 1, life |-> life]
        /\ UNCHANGED <<recordDir, contract, evidence, evaluated, verdicts, verifying, recordLock>>

RecordEvidence ==
    \E status \in {"pass", "fail"} :
        /\ Unlocked /\ Len(evidence) < MaxEvidence
        /\ evidence' = Append(evidence, [rev |-> state.rev, status |-> status])
        /\ UNCHANGED <<recordDir, state, contract, evaluated, verdicts, verifying, recordLock>>

-----------------------------------------------------------------------------
(* acceptance_contract *)

Revisable == state.life # "verified"

SetContract ==
    /\ Unlocked /\ Revisable /\ contract < MaxContract
    /\ contract' = contract + 1
    /\ UNCHANGED <<recordDir, state, evidence, evaluated, verdicts, verifying, recordLock>>

StatusOf(bound) ==
    LET found(c) == {evidence[e].status : e \in bound[c]} IN
    IF \E c \in Checks : "fail" \in found(c) THEN "fail"
    ELSE IF \A c \in Checks : "pass" \in found(c) THEN "pass" ELSE "incomplete"

\* Evidence that may be bound: what was recorded for this revision.
Current == {e \in DOMAIN evidence : evidence[e].rev = state.rev}

Evaluate ==
    \E bound \in [Checks -> SUBSET Current] :
        /\ Unlocked /\ contract > 0 /\ Len(evaluated) < MaxEvaluations
        /\ evaluated' = Append(evaluated,
              [rev |-> state.rev, contract |-> contract, status |-> StatusOf(bound), bound |-> bound])
        /\ UNCHANGED <<recordDir, state, contract, evidence, verdicts, verifying, recordLock>>

-----------------------------------------------------------------------------
(* independent_verifier *)

Matches(e) == evaluated[e].rev = state.rev /\ evaluated[e].contract = contract

\* The first look, without the lock.
StartVerify(v) ==
    \E e \in DOMAIN evaluated :
        /\ verifying[v].at = "idle" /\ evaluated[e].status = "pass" /\ Matches(e) /\ state.life = "frozen"
        /\ verifying' = [verifying EXCEPT ![v] = [at |-> "checking", of |-> e]]
        /\ UNCHANGED <<recordDir, state, contract, evidence, evaluated, verdicts, recordLock>>

\* What re-running the evidence of one check can give.
CheckOutcome(outcomes) ==
    IF "verified" \in outcomes THEN "verified"
    ELSE IF "failed" \in outcomes THEN "failed" ELSE "incomplete"

AllOutcomes(found) ==
    IF "failed" \in found THEN "failed" ELSE IF found = {"verified"} THEN "verified" ELSE "incomplete"

\* Mutant: the first look is enough.
StillMatchesUnseen(e) == TRUE

\* The second look, with the lock: the same state and contract.
StillMatches(e) == Matches(e)

\* The verification file is written first; only then is the state promoted.
FinishVerify(v) ==
    LET e == verifying[v].of
        attempts(c) == evaluated[e].bound[c]
        ways(c) == IF attempts(c) = {} THEN {{}} ELSE SUBSET {"verified", "failed", "unsupported"} \ {{}}
    IN  verifying[v].at = "checking" /\ \E outcomes \in [Checks -> UNION {ways(c) : c \in Checks}] :
        LET result == AllOutcomes({CheckOutcome(outcomes[c]) : c \in Checks})
            verified == result = "verified"
        IN  /\ \A c \in Checks : outcomes[c] \in ways(c)
            /\ Unlocked /\ StillMatches(e)
            /\ verified => state.rev < MaxRevision
            /\ verdicts' = verdicts \cup {[rev |-> state.rev, contract |-> contract, of |-> e,
                  status |-> result, promoted |-> IF verified THEN state.rev + 1 ELSE 0]}
            /\ verifying' = [verifying EXCEPT ![v] = IF verified THEN [at |-> "promoting", of |-> e] ELSE NotVerifying]
            /\ recordLock' = IF verified THEN v ELSE NoVerifier
            /\ UNCHANGED <<recordDir, state, contract, evidence, evaluated>>

Promote(v) ==
    /\ recordLock = v /\ recordLock' = NoVerifier /\ verifying' = [verifying EXCEPT ![v] = NotVerifying]
    /\ state' = [rev |-> state.rev + 1, life |-> "verified"]
    /\ UNCHANGED <<recordDir, contract, evidence, evaluated, verdicts>>

\* The state cannot be written: the verification file goes with it.
PromoteFails(v) ==
    /\ recordLock = v /\ recordLock' = NoVerifier /\ verifying' = [verifying EXCEPT ![v] = NotVerifying]
    /\ \E d \in verdicts :
          d.promoted = state.rev + 1 /\ d.of = verifying[v].of /\ verdicts' = verdicts \ {d}
    /\ UNCHANGED <<recordDir, state, contract, evidence, evaluated>>

\* The second look finds a change, or the call is cancelled.
VerifyRefused(v) ==
    /\ verifying[v].at = "checking" /\ verifying' = [verifying EXCEPT ![v] = NotVerifying]
    /\ UNCHANGED <<recordDir, state, contract, evidence, evaluated, verdicts, recordLock>>

\* The server dies: every call is gone, the files stay.
CrashProject ==
    /\ recordLock # NoVerifier /\ recordLock' = NoVerifier /\ verifying' = [v \in Verifiers |-> NotVerifying]
    /\ UNCHANGED <<recordDir, state, contract, evidence, evaluated, verdicts>>

RecordNext ==
    \/ InitProject \/ Update \/ RecordEvidence \/ SetContract \/ Evaluate \/ CrashProject
    \/ \E v \in Verifiers :
          StartVerify(v) \/ FinishVerify(v) \/ Promote(v) \/ PromoteFails(v) \/ VerifyRefused(v)

RecordSpec == RecordInit /\ [][RecordNext]_recordVars

-----------------------------------------------------------------------------
(* Properties *)

\* A verified state was earned: a verification file promotes this very
\* revision, for the contract that is in force, and rests on an evaluation of
\* the frozen revision before it, in which every check passes on evidence
\* recorded for that revision.
VerifiedIsEarned ==
    state.life = "verified" =>
        \E d \in verdicts :
            LET e == evaluated[d.of] IN
            /\ d.status = "verified" /\ d.promoted = state.rev /\ d.rev + 1 = state.rev
            /\ d.contract = contract /\ e.contract = contract /\ e.rev = d.rev
            /\ \A c \in Checks : \E n \in e.bound[c] :
                  evidence[n].rev = d.rev /\ evidence[n].status = "pass"

\* A promotion takes away no update: it is made from the frozen revision that
\* was looked at, however long the tests ran.
PromotionKeepsUpdates ==
    [][\A v \in Verifiers :
          verifying[v].at = "checking" /\ verifying'[v].at = "promoting" =>
              state.life = "frozen" /\ evaluated[verifying[v].of].rev = state.rev]_recordVars

\* A promotion rests on what it was shown, and takes nothing away.
PromotionIsEarned == []VerifiedIsEarned /\ PromotionKeepsUpdates
=============================================================================
