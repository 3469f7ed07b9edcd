--------------------------- MODULE FormatterEvent ---------------------------
(***************************************************************************)
(* The event state machine of the NCL presenter (FormatterEvent.cpp) and   *)
(* the repetition arithmetic of PresentationEvent.cpp.                     *)
(*                                                                         *)
(* An event is sleeping, occurring or paused.  "aborted" is the state an   *)
(* event shows while the listeners of an abort are being notified; it      *)
(* falls back to sleeping when the last of them has returned.              *)
(***************************************************************************)
EXTENDS Naturals

States == {"sleeping", "occurring", "paused", "aborted"}

Transitions == {"starts", "stops", "aborts", "pauses", "resumes"}

Commands == {"start", "stop", "abort", "pause", "resume"}

(* FormatterEvent::getNewState *)
NewState(trans) ==
  CASE trans = "stops"                -> "sleeping"
    [] trans \in {"starts", "resumes"} -> "occurring"
    [] trans = "pauses"               -> "paused"
    [] trans = "aborts"               -> "aborted"

(* The commands an event accepts in a state: the switches of               *)
(* FormatterEvent::abort, start, stop, pause and resume.                   *)
Accepts(state, trans) ==
  CASE trans = "starts"              -> state = "sleeping"
    [] trans \in {"stops", "aborts"} -> state \in {"occurring", "paused"}
    [] trans = "pauses"              -> state = "occurring"
    [] trans = "resumes"             -> state = "paused"

(* The state once FormatterEvent::changeState has returned.                *)
Settled(state) == IF state = "aborted" THEN "sleeping" ELSE state

(* PresentationEvent::getRepetitions *)
Repetitions(numPresentations) == numPresentations - 1

(* Fault model of AfterStop: the last presentation is counted too.         *)
AfterStopUnguarded(state, numPresentations) ==
  IF state = "occurring" THEN numPresentations - 1 ELSE numPresentations

(* PresentationEvent::stop counts a presentation only when it stops an     *)
(* occurring event, never a paused one.                                    *)
AfterStop(state, numPresentations) ==
  IF state = "occurring" /\ numPresentations > 1
    THEN numPresentations - 1
    ELSE numPresentations
=============================================================================
