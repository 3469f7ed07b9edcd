-------------------------- MODULE MCServiceProvider --------------------------
(***************************************************************************)
(* Instances of ServiceProvider for TLC.                                   *)
(*                                                                         *)
(* Two services, each on a PMT pid of its own.  The first PAT has two      *)
(* sections, the second drops a service, the third has no NIT.  NIT and    *)
(* SDT move to another network with version 1.                             *)
(***************************************************************************)
EXTENDS ServiceProvider, TLC

CONSTANTS pid1, pid2, net1, net2

MCPidOf == 1 :> pid1 @@ 2 :> pid2

MCPat == 0 :> (0 :> {0, 1} @@ 1 :> {2})
      @@ 1 :> (0 :> {0, 2})
      @@ 2 :> (0 :> {1} @@ 1 :> {2})
      @@ 3 :> (0 :> {0, 1})

MCNitNet == 0 :> net1 @@ 1 :> net2 @@ 2 :> net2 @@ 3 :> net2
MCSdtNet == 0 :> net1 @@ 1 :> net2 @@ 2 :> net2 @@ 3 :> net2
=============================================================================
