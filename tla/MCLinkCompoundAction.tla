------------------------- MODULE MCLinkCompoundAction -------------------------
(***************************************************************************)
(* An instance of LinkCompoundAction for TLC: in parallel, a sequence of   *)
(* two actions, the second a start, another start and a stop.              *)
(***************************************************************************)
EXTENDS LinkCompoundAction

CONSTANTS par, seq, look, show, play, hide

MCParts == [c \in Compounds |-> CASE c = par -> <<seq, play, hide>>
                                  [] c = seq -> <<look, show>>]

(* What the properties speak of; once triggered too soon, always so.       *)
OneAtATime == ~retriggered
=============================================================================
