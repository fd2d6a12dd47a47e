----------------------------- MODULE MCGateway -----------------------------
(***************************************************************************)
(* GatewayReconciler for TLC, with the namespaces that can hold a master   *)
(* key interchangeable: nothing in the specification names one of them.    *)
(***************************************************************************)
EXTENDS GatewayReconciler, TLC

NamespaceSymmetry == Permutations(Namespaces)
============================================================================
