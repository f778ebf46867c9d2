------------------------ MODULE MCCapabilityPath ------------------------
(***************************************************************************)
(* The components a capability invocation passes through: the broker and   *)
(* its gates, the observers of its events, the artifacts it leaves, the    *)
(* routing of the commands it asks for, and the Windows actions.           *)
(* They share no variable and no action, so their product adds no          *)
(* behaviour: a behaviour of this module is one of the component `focus'   *)
(* names, the others standing in one of their initial states.              *)
(***************************************************************************)
EXTENDS CapabilityPath, ObserverRegistry, ArtifactStore, CommandRouting,
        WindowsService, TLC

VARIABLE focus    \* the component that runs

MCInit ==
    /\ focus \in {"path", "observers", "artifacts", "routing", "service"}
    /\ PathInit /\ ObserverInit /\ ArtifactInit /\ RoutingInit /\
       ServiceInit
    /\ (focus # "path" => kind = [i \in Invocations |-> "plain"])
    /\ (focus # "observers" => observerDisk = [o \in ObserverIds |-> NoObserver])

MCNext ==
    \/ /\ focus = "path" /\ PathNext
       /\ UNCHANGED <<focus, observerVars, artifactVars, routingVars,
                      serviceVars>>
    \/ /\ focus = "observers" /\ ObserverNext
       /\ UNCHANGED <<focus, pathVars, artifactVars, routingVars,
                      serviceVars>>
    \/ /\ focus = "artifacts" /\ ArtifactNext
       /\ UNCHANGED <<focus, pathVars, observerVars, routingVars,
                      serviceVars>>
    \/ /\ focus = "routing" /\ RoutingNext
       /\ UNCHANGED <<focus, pathVars, observerVars, artifactVars,
                      serviceVars>>
    \/ /\ focus = "service" /\ ServiceNext
       /\ UNCHANGED <<focus, pathVars, observerVars, artifactVars,
                      routingVars>>

mcVars == <<focus, pathVars, observerVars, artifactVars, routingVars,
            serviceVars>>

MCSpec == MCInit /\ [][MCNext]_mcVars

Symmetry == Permutations(Invocations) \cup Permutations(Gates)

\* The records, rows and files of a call keep their form in every component.
CallTypesOK ==
    /\ PathTypeOK /\ ObserverTypeOK /\ ArtifactTypeOK /\ RoutingTypeOK
    /\ ServiceTypeOK
=============================================================================
