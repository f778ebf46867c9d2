------------------------ MODULE MCProviderRuntime ------------------------
(* Two versions of a manifest, the first with a persistent session, and   *)
(* two interchangeable tasks beside the operation.                        *)
EXTENDS ProviderRuntime

MCSymmetry == Permutations(Callers)
==========================================================================
