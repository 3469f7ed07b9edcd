------------------------- MODULE MCNominalEventMonitor -------------------------
(***************************************************************************)
(* An instance of NominalEventMonitor for TLC: an object without a         *)
(* duration, and two areas of it that overlap; it is started as a whole or *)
(* with the area that begins later.                                        *)
(***************************************************************************)
EXTENDS NominalEventMonitor

CONSTANTS whole, early, late

MCBegin == [e \in Events |->
              CASE e = whole -> 0 [] e = early -> 1 [] e = late -> 2]
MCEnd   == [e \in Events |->
              CASE e = whole -> Infinity [] e = early -> 3 [] e = late -> 3]
=============================================================================
