------------------------ MODULE MCHostOperations ------------------------
(***************************************************************************)
(* The components that change the host beside the invocations: processes,  *)
(* brokers, installed packages, repositories and project files.            *)
(* They share no variable and no action, so their product adds no          *)
(* behaviour: a behaviour of this module is one of the component `focus'   *)
(* names, the others standing in one of their initial states.              *)
(***************************************************************************)
EXTENDS ProviderInstall, InstallerOwnership, ElevationBroker,
        RuntimeRestart, ProjectRecord, GitRepository, ChangeSet,
        RunnerSupervisor, DesktopManager, TLC

VARIABLE focus    \* the component that runs

MCInit ==
    /\ focus \in {"install", "ownership", "elevation", "restart", "record",
                  "git", "change", "supervisor", "manager"}
    /\ InstallInit /\ OwnershipInit /\ ElevationInit /\ RestartInit /\
       RecordInit /\ GitInit /\ ChangeInit /\ SupervisorInit /\ ManagerInit

MCNext ==
    \/ /\ focus = "install" /\ InstallNext
       /\ UNCHANGED <<focus, ownershipVars, elevationVars, restartVars,
                      recordVars, gitVars, changeVars, supervisorVars,
                      managerVars>>
    \/ /\ focus = "ownership" /\ OwnershipNext
       /\ UNCHANGED <<focus, installVars, elevationVars, restartVars,
                      recordVars, gitVars, changeVars, supervisorVars,
                      managerVars>>
    \/ /\ focus = "elevation" /\ ElevationNext
       /\ UNCHANGED <<focus, installVars, ownershipVars, restartVars,
                      recordVars, gitVars, changeVars, supervisorVars,
                      managerVars>>
    \/ /\ focus = "restart" /\ RestartNext
       /\ UNCHANGED <<focus, installVars, ownershipVars, elevationVars,
                      recordVars, gitVars, changeVars, supervisorVars,
                      managerVars>>
    \/ /\ focus = "record" /\ RecordNext
       /\ UNCHANGED <<focus, installVars, ownershipVars, elevationVars,
                      restartVars, gitVars, changeVars, supervisorVars,
                      managerVars>>
    \/ /\ focus = "git" /\ GitNext
       /\ UNCHANGED <<focus, installVars, ownershipVars, elevationVars,
                      restartVars, recordVars, changeVars, supervisorVars,
                      managerVars>>
    \/ /\ focus = "change" /\ ChangeNext
       /\ UNCHANGED <<focus, installVars, ownershipVars, elevationVars,
                      restartVars, recordVars, gitVars, supervisorVars,
                      managerVars>>
    \/ /\ focus = "supervisor" /\ SupervisorNext
       /\ UNCHANGED <<focus, installVars, ownershipVars, elevationVars,
                      restartVars, recordVars, gitVars, changeVars,
                      managerVars>>
    \/ /\ focus = "manager" /\ ManagerNext
       /\ UNCHANGED <<focus, installVars, ownershipVars, elevationVars,
                      restartVars, recordVars, gitVars, changeVars,
                      supervisorVars>>

mcVars == <<focus, installVars, ownershipVars, elevationVars, restartVars,
            recordVars, gitVars, changeVars, supervisorVars, managerVars>>

MCSpec == MCInit /\ [][MCNext]_mcVars

Symmetry == Permutations(Files) \cup Permutations(Setups)

\* The files, locks and processes of the host keep their form in every
\* component, a lock being held by whom the code thinks holds it.
HostTypesOK ==
    /\ InstallTypeOK /\ OwnershipTypeOK /\ ElevationTypeOK /\ RestartTypeOK
    /\ RecordTypeOK /\ GitTypeOK /\ ChangeTypeOK /\ SupervisorTypeOK
    /\ ManagerTypeOK
=============================================================================
