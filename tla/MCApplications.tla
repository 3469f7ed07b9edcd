---------------------------- MODULE MCApplications ----------------------------
(***************************************************************************)
(* An instance of Applications for TLC: one bound to the service, one that *)
(* is not and more urgent, and one from the file system in between.        *)
(***************************************************************************)
EXTENDS Applications

CONSTANTS bound, free, file

MCPriority == [a \in Apps |-> CASE a = bound -> 1 [] a = free -> 3 [] a = file -> 2]
=============================================================================
