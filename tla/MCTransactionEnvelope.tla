---------------------- MODULE MCTransactionEnvelope ----------------------
(* Two calls over a plan of an action, its check and its rollback step.   *)
EXTENDS TransactionEnvelope

CONSTANTS install, check, undo

MCSteps == {install, check, undo}
MCKind == [s \in MCSteps |->
    CASE s = check -> "verify" [] s = undo -> "rollback" [] OTHER -> "action"]
MCRollbackStep == [s \in MCSteps |-> IF s = install THEN undo ELSE NoStep]
==========================================================================
