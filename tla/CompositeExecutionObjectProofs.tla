------------------- MODULE CompositeExecutionObjectProofs -------------------
(***************************************************************************)
(* Proofs about CompositeExecutionObject, for any media, links and bounds. *)
(***************************************************************************)
EXTENDS CompositeExecutionObject, TLAPS

(***************************************************************************)
(* Commands.  A command either begins one change of state of the object it *)
(* is sent to, or leaves the event of that object alone.                   *)
(***************************************************************************)
Began(m, t) ==
  /\ Accepts(currentState[m], t)
  /\ currentState' = [currentState EXCEPT ![m] = NewState(t)]
  /\ pc' = [pc EXCEPT ![m] = "links"]
  /\ trans' = [trans EXCEPT ![m] = t]
  /\ previous' = [previous EXCEPT ![m] = currentState[m]]

Stayed == UNCHANGED <<currentState, pc, trans, previous, repeating>>

SameEvent(x) ==
  /\ currentState'[x] = currentState[x]
  /\ numPresentations'[x] = numPresentations[x]
  /\ pc'[x] = pc[x]
  /\ trans'[x] = trans[x]
  /\ previous'[x] = previous[x]
  /\ repeating'[x] = repeating[x]
  /\ evaluated'[x] = evaluated[x]

LinksOf(m, t) == {l \in Links : TriggerEvent[l] = m /\ TriggerTrans[l] = t}

LinksEffect(m) ==
  \/ UNCHANGED linksToCall
  \/ \E t \in Transitions :
       linksToCall' = [linksToCall EXCEPT ![m] = LinksOf(m, t)]

Effect(m) ==
  /\ \A x \in Media \ {m} : SameEvent(x)
  /\ UNCHANGED evaluated
  /\ LinksEffect(m)
  /\ \/ Stayed
     \/ /\ \E t \in Transitions \ {"stops"} : Began(m, t)
        /\ UNCHANGED repeating
     \/ /\ Began(m, "stops")
        /\ repeating' = [repeating EXCEPT ![m] = ChecksRepeat(numPresentations[m])]
        /\ numPresentations' = [numPresentations EXCEPT
             ![m] = AfterStop(currentState[m], @)]

(* The states of a change, one equation per transition.                    *)
LEMMA NewStates ==
  /\ NewState("starts") = "occurring" /\ NewState("resumes") = "occurring"
  /\ NewState("stops") = "sleeping" /\ NewState("pauses") = "paused"
  /\ NewState("aborts") = "aborted"
  /\ \A t \in Transitions : NewState(t) \in States
  /\ \A s \in States : Settled(s) \in States \ {"aborted"}
BY DEF NewState, Transitions, States, Settled

(* The states in which an event accepts each transition.                   *)
LEMMA Accepted ==
  \A s : /\ Accepts(s, "starts") <=> s = "sleeping"
         /\ Accepts(s, "stops") <=> s \in {"occurring", "paused"}
         /\ Accepts(s, "aborts") <=> s \in {"occurring", "paused"}
         /\ Accepts(s, "pauses") <=> s = "occurring"
         /\ Accepts(s, "resumes") <=> s = "paused"
BY DEF Accepts

(* FormatterEvent::changeState keeps the types of what it writes.          *)
LEMMA ChangeStateTypes ==
  ASSUME TypeOK, NEW m \in Media, NEW t \in Transitions, ChangeState(m, t)
  PROVE  /\ currentState' \in [Media -> States]
         /\ pc' \in [Media -> Steps]
         /\ trans' \in [Media -> Transitions]
         /\ previous' \in [Media -> States]
         /\ linksToCall' \in [Media -> SUBSET Links]
<1>1. NewState(t) \in States
  BY NewStates
<1>2. {l \in Links : TriggerEvent[l] = m /\ TriggerTrans[l] = t} \in SUBSET Links
  OBVIOUS
<1> QED
  BY <1>1, <1>2 DEF ChangeState, TypeOK, MediaTypeOK, ChangeTypeOK, Steps

(* PresentationEvent::stop never counts below one presentation.            *)
LEMMA AfterStopPositive ==
  \A s, n : n \in Nat \ {0} => AfterStop(s, n) \in Nat \ {0}
BY DEF AfterStop

(* FormatterPlayerAdapter::stop keeps the types of what it writes.         *)
LEMMA AdapterStopTypes ==
  ASSUME TypeOK, NEW m \in Media, AdapterStop(m)
  PROVE  /\ currentState' \in [Media -> States]
         /\ numPresentations' \in [Media -> Nat \ {0}]
         /\ pauseCount' \in [Media -> Nat]
         /\ player' \in [Media -> {"stopped", "playing", "paused"}]
         /\ ChangeTypeOK'
<1>0. MediaTypeOK /\ ChangeTypeOK
  BY DEF TypeOK
<1>1. AfterStop(currentState[m], numPresentations[m]) \in Nat \ {0}
  BY <1>0, AfterStopPositive DEF MediaTypeOK
<1>2. ChecksRepeat(numPresentations[m]) \in BOOLEAN
  BY DEF ChecksRepeat
<1>3. CASE Accepts(currentState[m], "stops")
  BY <1>0, <1>1, <1>2, <1>3, ChangeStateTypes
     DEF AdapterStop, MediaTypeOK, ChangeTypeOK, Transitions
<1>4. CASE ~Accepts(currentState[m], "stops")
  BY <1>0, <1>4 DEF AdapterStop, MediaTypeOK, ChangeTypeOK, changeVars
<1> QED
  BY <1>3, <1>4

(* A command keeps the types of all it touches.                            *)
LEMMA PerformTypes ==
  ASSUME TypeOK, NEW m \in Media, NEW c \in Commands, NEW n \in Nat \ {0},
         Perform(m, c, n)
  PROVE  MediaTypeOK' /\ ChangeTypeOK'
<1>0. MediaTypeOK /\ ChangeTypeOK
  BY DEF TypeOK
<1>1. CASE AdapterStart(m, n)
  <2>1. CASE ChangeState(m, "starts") /\ player' = [player EXCEPT ![m] = "playing"]
             /\ presented' = [presented EXCEPT ![m] = FALSE]
    BY <1>0, <1>1, <2>1, ChangeStateTypes
       DEF AdapterStart, MediaTypeOK, ChangeTypeOK, Transitions
  <2>2. CASE player' = [player EXCEPT ![m] = "stopped"] /\ UNCHANGED <<presented,
               currentState, pc, trans, previous, linksToCall>>
    BY <1>0, <1>1, <2>2 DEF AdapterStart, MediaTypeOK, ChangeTypeOK
  <2> QED
    BY <1>1, <2>1, <2>2 DEF AdapterStart
<1>2. CASE AdapterStop(m) /\ UNCHANGED presented
  BY <1>0, <1>2, AdapterStopTypes DEF MediaTypeOK
<1>3. CASE AdapterAbort(m) /\ UNCHANGED presented
  <2>1. CASE Accepts(currentState[m], "aborts")
    BY <1>0, <1>3, <2>1, ChangeStateTypes
       DEF AdapterAbort, MediaTypeOK, ChangeTypeOK, Transitions
  <2>2. CASE ~Accepts(currentState[m], "aborts")
    BY <1>0, <1>3, <2>2 DEF AdapterAbort, MediaTypeOK, ChangeTypeOK, changeVars
  <2> QED
    BY <2>1, <2>2
<1>4. CASE AdapterPause(m) /\ UNCHANGED presented
  <2>1. pauseCount' \in [Media -> Nat]
        /\ player' \in [Media -> {"stopped", "playing", "paused"}]
    BY <1>0, <1>4 DEF AdapterPause, MediaTypeOK
  <2>2. CASE ChangeState(m, "pauses")
    BY <1>0, <1>4, <2>1, <2>2, ChangeStateTypes
       DEF AdapterPause, MediaTypeOK, ChangeTypeOK, Transitions
  <2>3. CASE UNCHANGED <<currentState, pc, trans, previous, linksToCall>>
    BY <1>0, <1>4, <2>1, <2>3 DEF AdapterPause, MediaTypeOK, ChangeTypeOK
  <2> QED
    BY <1>4, <2>2, <2>3 DEF AdapterPause
<1>5. CASE AdapterResume(m) /\ UNCHANGED presented
  <2>1. pauseCount' \in [Media -> Nat]
        /\ player' \in [Media -> {"stopped", "playing", "paused"}]
    BY <1>0, <1>5 DEF AdapterResume, MediaTypeOK
  <2>2. CASE ChangeState(m, "resumes")
    BY <1>0, <1>5, <2>1, <2>2, ChangeStateTypes
       DEF AdapterResume, MediaTypeOK, ChangeTypeOK, Transitions
  <2>3. CASE UNCHANGED <<currentState, pc, trans, previous, linksToCall>>
    BY <1>0, <1>5, <2>1, <2>3 DEF AdapterResume, MediaTypeOK, ChangeTypeOK
  <2> QED
    BY <1>5, <2>2, <2>3 DEF AdapterResume
<1> QED
  BY <1>1, <1>2, <1>3, <1>4, <1>5 DEF Perform

(* FormatterPlayerAdapter::stop touches its object only.                   *)
LEMMA AdapterStopEffect ==
  ASSUME TypeOK, NEW m \in Media, AdapterStop(m)
  PROVE  Effect(m)
<1>1. MediaTypeOK /\ ChangeTypeOK
  BY DEF TypeOK
<1>2. CASE Accepts(currentState[m], "stops")
  <2>1. \A x \in Media \ {m} : SameEvent(x)
    BY <1>1, <1>2 DEF AdapterStop, ChangeState, SameEvent, MediaTypeOK,
       ChangeTypeOK
  <2>2. LinksEffect(m) /\ UNCHANGED evaluated
    BY <1>2 DEF AdapterStop, ChangeState, LinksEffect, LinksOf, Transitions
  <2> QED
    BY <1>2, <2>1, <2>2 DEF AdapterStop, ChangeState, Began, Effect
<1>3. CASE ~Accepts(currentState[m], "stops")
  BY <1>3 DEF AdapterStop, Stayed, SameEvent, Effect, LinksEffect, changeVars
<1> QED
  BY <1>2, <1>3

(* A command begins at most one change, and only one its event accepts.    *)
LEMMA PerformEffect ==
  ASSUME TypeOK, NEW m \in Media, NEW c \in Commands, NEW n \in Nat \ {0},
         Perform(m, c, n)
  PROVE  Effect(m)
<1>0. MediaTypeOK /\ ChangeTypeOK
  BY DEF TypeOK
<1>1. ASSUME NEW t \in Transitions \ {"stops"}, UNCHANGED <<repeating, evaluated>>,
             \A x \in Media \ {m} : numPresentations'[x] = numPresentations[x],
             \/ Accepts(currentState[m], t) /\ ChangeState(m, t)
             \/ UNCHANGED <<currentState, pc, trans, previous, linksToCall>>
      PROVE  Effect(m)
  <2>1. CASE Accepts(currentState[m], t) /\ ChangeState(m, t)
    <3>1. \A x \in Media \ {m} : SameEvent(x)
      BY <1>0, <1>1, <2>1 DEF ChangeState, SameEvent, MediaTypeOK, ChangeTypeOK
    <3>2. LinksEffect(m)
      BY <2>1 DEF ChangeState, LinksEffect, LinksOf
    <3> QED
      BY <1>1, <2>1, <3>1, <3>2 DEF ChangeState, Began, Effect
  <2>2. CASE UNCHANGED <<currentState, pc, trans, previous, linksToCall>>
    BY <1>1, <2>2 DEF Stayed, SameEvent, Effect, LinksEffect
  <2> QED
    BY <1>1, <2>1, <2>2
<1>2. CASE AdapterStart(m, n)
  <2>1. \A x \in Media \ {m} : numPresentations'[x] = numPresentations[x]
    BY <1>0, <1>2 DEF AdapterStart, MediaTypeOK
  <2> QED
    BY <1>1, <1>2, <2>1 DEF AdapterStart, Transitions
<1>3. CASE AdapterStop(m)
  BY <1>3, AdapterStopEffect
<1>4. CASE AdapterAbort(m)
  BY <1>1, <1>4 DEF AdapterAbort, Transitions, changeVars
<1>5. CASE AdapterPause(m)
  BY <1>1, <1>5 DEF AdapterPause, Transitions
<1>6. CASE AdapterResume(m)
  BY <1>1, <1>6 DEF AdapterResume, Transitions
<1> QED
  BY <1>2, <1>3, <1>4, <1>5, <1>6 DEF Perform
-----------------------------------------------------------------------------
(***************************************************************************)
(* The core invariant: types, the exact count of link evaluations, that    *)
(* whoever acts holds _eventMutex, and that a link is called and found     *)
(* false in the thread of its own trigger only.  The counters of threads   *)
(* are only natural numbers because the count is exact, so the parts need  *)
(* each other.                                                             *)
(***************************************************************************)
MutexHeld == acting => eventMutex \in Links

OwnLinks ==
  \A m \in Media :
    /\ \A l \in linksToCall[m] : TriggerEvent[l] = m
    /\ pc[m] = "evaluate" =>
         evaluated[m] \in Links /\ TriggerEvent[evaluated[m]] = m

CoreInv == TypeOK /\ PendingExact /\ MutexHeld /\ OwnLinks

(* A step in which nobody begins or ends to find a condition false.        *)
SameEvaluations ==
  \A x \in Media :
    /\ pc'[x] = "evaluate" <=> pc[x] = "evaluate"
    /\ pc[x] = "evaluate" => evaluated'[x] = evaluated[x]

FewerLinks == \A x \in Media : linksToCall'[x] \subseteq linksToCall[x]

(* Frames: a part of the invariant is kept with the variables it reads.    *)
LEMMA MediaFrame == MediaTypeOK /\ UNCHANGED mediaVars => MediaTypeOK'
BY DEF MediaTypeOK, mediaVars

LEMMA ChangeFrame == ChangeTypeOK /\ UNCHANGED changeVars => ChangeTypeOK'
BY DEF ChangeTypeOK, changeVars

LEMMA HistoryFrame == HistoryTypeOK /\ UNCHANGED historyVars => HistoryTypeOK'
BY DEF HistoryTypeOK, historyVars

(* A history variable is true or false, whatever is remembered.            *)
LEMMA NotesAreBoolean ==
  /\ NoteArrival => overtaken' \in BOOLEAN
  /\ NoteEnd /\ endedLate \in BOOLEAN =>
       overtaken' \in BOOLEAN /\ endedLate' \in BOOLEAN
  /\ NoteUnset => unheard' \in BOOLEAN
  /\ NoteStart => endedLate' \in BOOLEAN /\ unheard' \in BOOLEAN
BY Zenon DEF NoteArrival, NoteEnd, NoteUnset, NoteStart

LEMMA ThreadFrame ==
  ThreadTypeOK /\ UNCHANGED threadVars /\ commands' \in Nat => ThreadTypeOK'
BY DEF ThreadTypeOK, threadVars

LEMMA PendingFrame ==
  ASSUME PendingExact, MutexHeld, UNCHANGED <<pendingLinks, threadVars>>,
         SameEvaluations
  PROVE  PendingExact' /\ MutexHeld'
<1>1. \A l \in Links :
        Evaluates(TriggerEvent[l], l)' <=> Evaluates(TriggerEvent[l], l)
  BY CompositeAssumption DEF SameEvaluations, Evaluates
<1> QED
  BY <1>1 DEF PendingExact, MutexHeld, threadVars

LEMMA OwnFrame ==
  ASSUME OwnLinks, SameEvaluations, FewerLinks
  PROVE  OwnLinks'
BY DEF OwnLinks, SameEvaluations, FewerLinks

LEMMA NothingEvaluated ==
  UNCHANGED changeVars => SameEvaluations /\ FewerLinks
BY DEF changeVars, SameEvaluations, FewerLinks

(* A command on an idle object: it finds no condition false.               *)
LEMMA EffectEvaluations ==
  ASSUME TypeOK, OwnLinks, NEW m \in Media, pc[m] = "idle", Effect(m)
  PROVE  SameEvaluations /\ OwnLinks'
<1>1. ChangeTypeOK
  BY DEF TypeOK
<1>2. pc'[m] \in {"idle", "links"} /\ UNCHANGED evaluated
  BY <1>1 DEF Effect, Began, Stayed, ChangeTypeOK
<1>3. SameEvaluations
  BY <1>2 DEF Effect, SameEvent, SameEvaluations
<1>4. \A x \in Media : \A l \in linksToCall'[x] : TriggerEvent[l] = x
  BY <1>1 DEF Effect, LinksEffect, LinksOf, OwnLinks, ChangeTypeOK
<1> QED
  BY <1>3, <1>4 DEF SameEvaluations, OwnLinks

LEMMA CompositionFrame ==
  CompositionTypeOK
  /\ UNCHANGED <<childVars, wholeVars, pendingLinks, ending>>
    => CompositionTypeOK'
BY DEF CompositionTypeOK, childVars, wholeVars

(* What the composition's own event may become.                            *)
LEMMA ChangeWholeTypes ==
  ASSUME CompositionTypeOK, NEW t \in Transitions, ChangeWhole(t)
  PROVE  /\ wholeContent' \in {"sleeping", "occurring", "paused"}
         /\ parentView' \in {"sleeping", "occurring", "paused"}
<1>1. Settled(NewState(t)) \in {"sleeping", "occurring", "paused"}
  BY NewStates DEF States
<1> QED
  BY <1>1 DEF ChangeWhole, CompositionTypeOK

(* A listener that only changes the composition's own event.               *)
LEMMA WholeListenerTypes ==
  ASSUME CompositionTypeOK, NEW t \in Transitions, ChangeWhole(t),
         UNCHANGED <<childVars, pendingLinks, ending, parentListens>>
  PROVE  CompositionTypeOK'
BY ChangeWholeTypes DEF childVars, CompositionTypeOK

LEMMA CoreInit == Init => CoreInv
<1> SUFFICES ASSUME Init PROVE CoreInv
  OBVIOUS
<1>1. MediaTypeOK
  BY DEF Init, MediaTypeOK, States
<1>2. ChangeTypeOK
  BY DEF Init, ChangeTypeOK, States, Steps, Transitions
<1>3. CompositionTypeOK
  BY DEF Init, CompositionTypeOK
<1>4. ThreadTypeOK
  BY DEF Init, ThreadTypeOK
<1>5. HistoryTypeOK
  BY DEF Init, HistoryTypeOK
<1>6. PendingExact /\ MutexHeld /\ OwnLinks
  BY CompositeAssumption DEF Init, PendingExact, MutexHeld, OwnLinks, Evaluates
<1> QED
  BY <1>1, <1>2, <1>3, <1>4, <1>5, <1>6 DEF CoreInv, TypeOK

(* Commands and the ends of contents.                                      *)
LEMMA CoreCommands ==
  ASSUME CoreInv, NEW m \in Media,
         (\E c \in Commands : Command(m, c)) \/ NaturalEnd(m)
  PROVE  CoreInv'
<1>1. TypeOK /\ PendingExact /\ MutexHeld /\ OwnLinks
  BY DEF CoreInv
<1>2. UNCHANGED <<childVars, pendingLinks, wholeVars, threadVars, ending,
                  historyVars>> /\ commands' \in Nat /\ pc[m] = "idle"
  BY <1>1 DEF Command, NaturalEnd, TypeOK, ThreadTypeOK
<1>3. MediaTypeOK' /\ ChangeTypeOK' /\ Effect(m)
  <2>1. CASE \E c \in Commands : Command(m, c)
    <3>1. PICK c \in Commands : Command(m, c)
      BY <2>1
    <3>2. numPresentations[m] \in Nat \ {0}
      BY <1>1 DEF TypeOK, MediaTypeOK
    <3> QED
      BY <1>1, <3>1, <3>2, PerformTypes, PerformEffect DEF Command
  <2>2. CASE NaturalEnd(m)
    BY <1>1, <2>2, AdapterStopTypes, AdapterStopEffect
       DEF NaturalEnd, TypeOK, MediaTypeOK
  <2> QED
    BY <2>1, <2>2
<1>4. SameEvaluations /\ OwnLinks'
  BY <1>1, <1>2, <1>3, EffectEvaluations
<1> QED
  BY <1>1, <1>2, <1>3, <1>4, CompositionFrame, ThreadFrame, PendingFrame,
     HistoryFrame DEF CoreInv, TypeOK

(* Link action threads.                                                    *)
LEMMA CoreLinkThreads ==
  ASSUME CoreInv, NEW l \in Links, LinkThread(l)
  PROVE  CoreInv'
<1>1. TypeOK /\ PendingExact /\ MutexHeld /\ OwnLinks
  BY DEF CoreInv
<1>2. CASE TakeEventMutex(l)
  <2>1. /\ MediaTypeOK' /\ ChangeTypeOK' /\ CompositionTypeOK'
        /\ HistoryTypeOK'
    BY <1>1, <1>2, MediaFrame, ChangeFrame, CompositionFrame, HistoryFrame
       DEF TypeOK, TakeEventMutex
  <2>2. ThreadTypeOK'
    BY <1>1, <1>2 DEF TypeOK, ThreadTypeOK, TakeEventMutex
  <2>3. PendingExact' /\ MutexHeld'
    BY <1>1, <1>2, CompositeAssumption
       DEF PendingExact, MutexHeld, TakeEventMutex, TypeOK, ThreadTypeOK,
           CompositionTypeOK, changeVars, Evaluates
  <2>4. OwnLinks'
    BY <1>1, <1>2, OwnFrame, NothingEvaluated DEF TakeEventMutex
  <2> QED
    BY <2>1, <2>2, <2>3, <2>4 DEF CoreInv, TypeOK
<1>3. CASE RunAction(l)
  <2> DEFINE m == ActionTarget[l]
             n == IF l \in RepeatLinks THEN RepeatCount + 1
                                       ELSE numPresentations[m]
  <2>1. m \in Media /\ ActionType[l] \in Commands /\ n \in Nat \ {0}
    BY <1>1, CompositeAssumption DEF TypeOK, MediaTypeOK
  <2>2. Perform(m, ActionType[l], n) /\ pc[m] = "idle"
    BY <1>3 DEF RunAction
  <2>3. MediaTypeOK' /\ ChangeTypeOK'
    BY <1>1, <2>1, <2>2, PerformTypes
  <2>4. CompositionTypeOK' /\ HistoryTypeOK'
    BY <1>1, <1>3, CompositionFrame, HistoryFrame DEF TypeOK, RunAction
  <2>5. ThreadTypeOK'
    <3>1. toRun' = toRun /\ commands' = commands
          /\ \/ /\ eventMutex' = NoLink /\ acting' = acting
                /\ toFinish' = [toFinish EXCEPT ![l] = @ + 1]
             \/ acting' = TRUE /\ eventMutex' = eventMutex /\ toFinish' = toFinish
      BY <1>3 DEF RunAction
    <3>2. ThreadTypeOK
      BY <1>1 DEF TypeOK
    <3>3. acting' \in BOOLEAN
      BY <3>1, <3>2, Zenon DEF ThreadTypeOK
    <3>4. toFinish' \in [Links -> Nat] /\ eventMutex' \in Links \cup {NoLink}
      BY <3>1, <3>2 DEF ThreadTypeOK
    <3> QED
      BY <3>1, <3>2, <3>3, <3>4 DEF ThreadTypeOK
  <2>6. SameEvaluations /\ OwnLinks'
    BY <1>1, <2>1, <2>2, PerformEffect, EffectEvaluations
  <2>7. \A k \in Links :
          Evaluates(TriggerEvent[k], k)' <=> Evaluates(TriggerEvent[k], k)
    BY <2>6, CompositeAssumption DEF SameEvaluations, Evaluates
  <2>8. PendingExact' /\ MutexHeld'
    <3> HIDE DEF m, n
    <3>1. /\ pendingLinks' = pendingLinks /\ toRun' = toRun /\ eventMutex = l
          /\ \/ /\ eventMutex' = NoLink /\ ~acting /\ acting' = acting
                /\ toFinish' = [toFinish EXCEPT ![l] = @ + 1]
             \/ eventMutex' = eventMutex /\ toFinish' = toFinish
      BY <1>3 DEF RunAction
    <3> QED
      BY <1>1, <2>7, <3>1, CompositeAssumption
         DEF PendingExact, MutexHeld, TypeOK, ThreadTypeOK, CompositionTypeOK
  <2> QED
    BY <2>3, <2>4, <2>5, <2>6, <2>8 DEF CoreInv, TypeOK
<1>4. CASE LinkEvaluationFinished(l)
  <2>1. MediaTypeOK' /\ ChangeTypeOK'
    BY <1>1, <1>4, MediaFrame, ChangeFrame DEF TypeOK, LinkEvaluationFinished
  <2>2. pendingLinks[l] \in Nat \ {0} /\ toFinish[l] \in Nat \ {0}
    BY <1>1, <1>4 DEF PendingExact, LinkEvaluationFinished, TypeOK,
       ThreadTypeOK, CompositionTypeOK
  <2>3. pendingLinks' \in [Links -> Nat] /\ toFinish' \in [Links -> Nat]
    BY <1>1, <1>4, <2>2 DEF LinkEvaluationFinished, TypeOK, ThreadTypeOK,
       CompositionTypeOK
  <2>4. ending' \in [EndSteps -> Nat]
    BY <1>1, <1>4 DEF LinkEvaluationFinished, TypeOK, CompositionTypeOK,
       EndSteps, Ends
  <2>5. HistoryTypeOK'
    <3>1. \A p, q : (p \/ q) \in BOOLEAN
      OBVIOUS
    <3>2. \E p, q : keptOpen' = (p \/ q)
      BY <1>4, Zenon DEF LinkEvaluationFinished
    <3>3. keptOpen' \in BOOLEAN
      BY <3>1, <3>2, Zenon
    <3> QED
      BY <1>1, <1>4, <3>3, Zenon DEF LinkEvaluationFinished, TypeOK, HistoryTypeOK
  <2>6. CompositionTypeOK' /\ ThreadTypeOK'
    BY <1>1, <1>4, <2>3, <2>4 DEF LinkEvaluationFinished, TypeOK,
       ThreadTypeOK, CompositionTypeOK, childVars, wholeVars
  <2>7. \A k \in Links :
          Evaluates(TriggerEvent[k], k)' <=> Evaluates(TriggerEvent[k], k)
    BY <1>4 DEF LinkEvaluationFinished, changeVars, Evaluates
  <2>8. PendingExact' /\ MutexHeld'
    BY <1>1, <1>4, <2>2, <2>7 DEF PendingExact, MutexHeld,
       LinkEvaluationFinished, TypeOK, ThreadTypeOK, CompositionTypeOK
  <2>9. OwnLinks'
    BY <1>1, <1>4, OwnFrame, NothingEvaluated DEF LinkEvaluationFinished
  <2> QED
    BY <2>1, <2>5, <2>6, <2>8, <2>9 DEF CoreInv, TypeOK
<1> QED
  BY <1>2, <1>3, <1>4 DEF LinkThread

(* Threads that end the composition after a link's report.                 *)
LEMMA CoreEndingThread ==
  ASSUME CoreInv, EndingThread
  PROVE  CoreInv'
<1>1. TypeOK /\ PendingExact /\ MutexHeld /\ OwnLinks
  BY DEF CoreInv
<1>2. MediaTypeOK' /\ ChangeTypeOK' /\ ThreadTypeOK'
  BY <1>1, MediaFrame, ChangeFrame, ThreadFrame
     DEF EndingThread, EndByLink, UnsetByLink, TypeOK, ThreadTypeOK
<1>3. PendingExact' /\ MutexHeld' /\ OwnLinks'
  BY <1>1, PendingFrame, OwnFrame, NothingEvaluated
     DEF EndingThread, EndByLink, UnsetByLink
<1>4. CASE \E t \in Ends : EndByLink(t)
  <2>0. PICK t \in Ends : EndByLink(t)
    BY <1>4
  <2>1. wholeContent' \in {"sleeping", "occurring", "paused"}
        /\ parentView' \in {"sleeping", "occurring", "paused"}
    BY <1>1, <2>0, ChangeWholeTypes DEF EndByLink, TypeOK, Transitions, Ends
  <2>2. ending' \in [EndSteps -> Nat]
    BY <1>1, <2>0 DEF EndByLink, TypeOK, CompositionTypeOK, EndSteps, Ends
  <2>3. CompositionTypeOK'
    BY <1>1, <2>0, <2>1, <2>2 DEF EndByLink, TypeOK, CompositionTypeOK,
       childVars
  <2>4. HistoryTypeOK'
    BY <1>1, <2>0, NotesAreBoolean DEF EndByLink, TypeOK, HistoryTypeOK
  <2> QED
    BY <1>2, <1>3, <2>3, <2>4 DEF CoreInv, TypeOK
<1>5. CASE UnsetByLink
  <2>1. ending' \in [EndSteps -> Nat]
    BY <1>1, <1>5 DEF UnsetByLink, TypeOK, CompositionTypeOK, EndSteps, Ends
  <2>2. CompositionTypeOK'
    BY <1>1, <1>5, <2>1 DEF UnsetByLink, TypeOK, CompositionTypeOK, childVars
  <2>3. HistoryTypeOK'
    BY <1>1, <1>5, NotesAreBoolean DEF UnsetByLink, TypeOK, HistoryTypeOK
  <2> QED
    BY <1>2, <1>3, <2>2, <2>3 DEF CoreInv, TypeOK
<1> QED
  BY <1>4, <1>5 DEF EndingThread, Ends

(* Listeners that only move the change on and touch the composition.       *)
movedVars == <<mediaVars, trans, previous, linksToCall, repeating,
               pendingLinks, threadVars, commands>>

LEMMA CoreObjectListener ==
  ASSUME CoreInv, NEW m \in Media, NEW s \in Steps \ {"evaluate"}, GoTo(m, s),
         pc[m] # "evaluate", UNCHANGED movedVars,
         \/ UNCHANGED evaluated
         \/ evaluated' = [evaluated EXCEPT ![m] = NoLink],
         CompositionTypeOK', HistoryTypeOK'
  PROVE  CoreInv'
<1>1. TypeOK /\ PendingExact /\ MutexHeld /\ OwnLinks /\ ChangeTypeOK
  BY DEF CoreInv, TypeOK
<1>2. ChangeTypeOK'
  BY <1>1 DEF movedVars, GoTo, ChangeTypeOK
<1>3. SameEvaluations /\ FewerLinks
  BY <1>1 DEF movedVars, GoTo, ChangeTypeOK, SameEvaluations, FewerLinks
<1>4. UNCHANGED mediaVars /\ UNCHANGED threadVars /\ UNCHANGED pendingLinks
      /\ UNCHANGED commands
  BY DEF movedVars
<1> QED
  BY <1>1, <1>2, <1>3, <1>4, MediaFrame, ThreadFrame, PendingFrame, OwnFrame
     DEF CoreInv, TypeOK, ThreadTypeOK

(* The listeners of links.                                                 *)
LEMMA CoreLinkListener ==
  ASSUME CoreInv, NEW m \in Media,
         \/ \E l \in Links : EvaluationStarted(m, l) \/ EvaluationFails(m, l)
         \/ EvaluationEnded(m)
  PROVE  CoreInv'
<1>1. TypeOK /\ PendingExact /\ MutexHeld /\ OwnLinks
  BY DEF CoreInv
<1>2. CompositionTypeOK /\ ChangeTypeOK /\ ThreadTypeOK /\ HistoryTypeOK
  BY <1>1 DEF TypeOK
<1>3. MediaTypeOK'
  BY <1>1, MediaFrame DEF EvaluationStarted, EvaluationFails, EvaluationEnded,
     TypeOK
<1>4. ASSUME NEW l \in Links, EvaluationStarted(m, l)
      PROVE  CoreInv'
  <2>1. ChangeTypeOK'
    BY <1>2, <1>4 DEF EvaluationStarted, CallsLink, ChangeTypeOK
  <2>2. CompositionTypeOK'
    BY <1>2, <1>4 DEF EvaluationStarted, Counted, CompositionTypeOK,
       childVars, wholeVars
  <2>3. HistoryTypeOK'
    BY <1>2, <1>4, NotesAreBoolean DEF EvaluationStarted, HistoryTypeOK
  <2>4. ThreadTypeOK' /\ PendingExact' /\ MutexHeld'
    BY <1>1, <1>2, <1>4 DEF EvaluationStarted, Counted, ThreadTypeOK,
       PendingExact, MutexHeld, CompositionTypeOK, Evaluates
  <2>5. OwnLinks'
    <3>1. SameEvaluations /\ FewerLinks
      BY <1>2, <1>4 DEF EvaluationStarted, CallsLink, SameEvaluations,
         FewerLinks, ChangeTypeOK
    <3> QED
      BY <1>1, <3>1, OwnFrame
  <2> QED
    BY <1>3, <2>1, <2>2, <2>3, <2>4, <2>5 DEF CoreInv, TypeOK
<1>5. ASSUME NEW l \in Links, EvaluationFails(m, l)
      PROVE  CoreInv'
  <2>1. ChangeTypeOK'
    BY <1>2, <1>5 DEF EvaluationFails, CallsLink, GoTo, ChangeTypeOK, Steps
  <2>2. CompositionTypeOK'
    BY <1>2, <1>5 DEF EvaluationFails, Counted, CompositionTypeOK, childVars,
       wholeVars
  <2>3. HistoryTypeOK'
    BY <1>2, <1>5, NotesAreBoolean DEF EvaluationFails, HistoryTypeOK
  <2>4. TriggerEvent[l] = m /\ pc[m] = "links"
    BY <1>1, <1>5 DEF EvaluationFails, CallsLink, OwnLinks
  <2>5. /\ pc'[m] = "evaluate" /\ evaluated'[m] = l
        /\ \A x \in Media \ {m} : pc'[x] = pc[x] /\ evaluated'[x] = evaluated[x]
    BY <1>2, <1>5 DEF EvaluationFails, GoTo, ChangeTypeOK
  <2>6. OwnLinks'
    BY <1>1, <1>2, <1>5, <2>4, <2>5 DEF OwnLinks, EvaluationFails, CallsLink,
       ChangeTypeOK
  <2>7. \A k \in Links : Evaluates(TriggerEvent[k], k)' <=>
                         k = l \/ Evaluates(TriggerEvent[k], k)
    BY <2>4, <2>5, CompositeAssumption DEF Evaluates
  <2>8. ~Evaluates(TriggerEvent[l], l)
    BY <2>4 DEF Evaluates
  <2>9. /\ pendingLinks'[l] = pendingLinks[l] + 1
        /\ \A k \in Links \ {l} : pendingLinks'[k] = pendingLinks[k]
    BY <1>2, <1>5 DEF EvaluationFails, Counted, CompositionTypeOK
  <2>10. UNCHANGED <<toRun, toFinish, eventMutex, acting, commands>>
    BY <1>5 DEF EvaluationFails, threadVars
  <2>11. PendingExact' /\ MutexHeld' /\ ThreadTypeOK'
    BY <1>1, <1>2, <2>7, <2>8, <2>9, <2>10
       DEF PendingExact, MutexHeld, ThreadTypeOK
  <2> QED
    BY <1>3, <2>1, <2>2, <2>3, <2>6, <2>11 DEF CoreInv, TypeOK
<1>6. CASE EvaluationEnded(m)
  <2> DEFINE l == evaluated[m]
  <2>1. /\ pc[m] = "evaluate" /\ l \in Links /\ TriggerEvent[l] = m
        /\ Evaluates(TriggerEvent[l], l)
    BY <1>1, <1>6 DEF EvaluationEnded, OwnLinks, Evaluates
  <2>2. PICK s \in {"links"} \cup Ends :
          /\ GoTo(m, s)
          /\ evaluated' = evaluated \/ evaluated' = [evaluated EXCEPT ![m] = NoLink]
    BY <1>2, <1>6 DEF EvaluationEnded, CompositionTypeOK
  <2>3. s \in Steps /\ s # "evaluate"
    BY DEF Steps, Ends, Transitions
  <2>4. UNCHANGED <<trans, previous, linksToCall, repeating>>
    BY <1>6 DEF EvaluationEnded
  <2>5. ChangeTypeOK'
    BY <1>2, <2>2, <2>3, <2>4 DEF GoTo, ChangeTypeOK
  <2>6. /\ pc'[m] # "evaluate"
        /\ \A x \in Media \ {m} : pc'[x] = pc[x] /\ evaluated'[x] = evaluated[x]
    BY <1>2, <2>2, <2>3 DEF GoTo, ChangeTypeOK
  <2>7. OwnLinks'
    BY <1>1, <2>4, <2>6 DEF OwnLinks
  <2>8. \A k \in Links : Evaluates(TriggerEvent[k], k)' <=>
                         k # l /\ Evaluates(TriggerEvent[k], k)
    BY <2>1, <2>6, CompositeAssumption DEF Evaluates
  <2>9. pendingLinks[l] \in Nat \ {0}
    BY <1>1, <1>2, <2>1 DEF PendingExact, ThreadTypeOK, CompositionTypeOK
  <2>10. /\ pendingLinks'[l] = pendingLinks[l] - 1
         /\ \A k \in Links \ {l} : pendingLinks'[k] = pendingLinks[k]
         /\ pendingLinks' \in [Links -> Nat]
    BY <1>2, <1>6, <2>1, <2>9 DEF EvaluationEnded, CompositionTypeOK
  <2>11. UNCHANGED <<toRun, toFinish, eventMutex, acting, commands>>
    BY <1>6 DEF EvaluationEnded, threadVars
  <2>12. PendingExact' /\ MutexHeld' /\ ThreadTypeOK'
    BY <1>1, <1>2, <2>1, <2>8, <2>9, <2>10, <2>11
       DEF PendingExact, MutexHeld, ThreadTypeOK
  <2>13. CompositionTypeOK' /\ HistoryTypeOK'
    BY <1>2, <1>6, <2>10, HistoryFrame DEF EvaluationEnded, CompositionTypeOK,
       childVars, wholeVars
  <2> QED
    BY <1>3, <2>5, <2>7, <2>12, <2>13 DEF CoreInv, TypeOK
<1> QED
  BY <1>4, <1>5, <1>6

LEMMA CoreListener ==
  ASSUME CoreInv, NEW m \in Media, Listener(m)
  PROVE  CoreInv'
<1>1. TypeOK /\ PendingExact /\ MutexHeld /\ OwnLinks
  BY DEF CoreInv
<1>2. CompositionTypeOK /\ ChangeTypeOK /\ ThreadTypeOK /\ HistoryTypeOK
  BY <1>1 DEF TypeOK
<1>3. {"parents", "starts", "insert", "test", "stops", "aborts", "unset",
       "pauses", "resumes", "return", "links", "idle"} \subseteq Steps \ {"evaluate"}
  BY DEF Steps, Transitions
<1>4. CASE \/ \E l \in Links : EvaluationStarted(m, l) \/ EvaluationFails(m, l)
           \/ EvaluationEnded(m)
  BY <1>4, CoreLinkListener
<1>5. \A S : CallsObject(m, S) => pc[m] = "links"
  BY DEF CallsObject
<1>6. CASE ObjectStarts(m) \/ ObjectRepeats(m)
  <2>1. CompositionTypeOK' /\ HistoryTypeOK'
    BY <1>2, <1>6, CompositionFrame DEF ObjectStarts, ObjectRepeats, otherVars,
       HistoryTypeOK
  <2>2. \E s \in {"parents", "insert", "return"} : GoTo(m, s)
    BY <1>6 DEF ObjectStarts, ObjectRepeats, Opening
  <2>3. UNCHANGED movedVars /\ UNCHANGED evaluated
    BY <1>6 DEF ObjectStarts, ObjectRepeats, otherVars, movedVars
  <2> QED
    BY <1>3, <1>5, <1>6, <2>1, <2>2, <2>3, CoreObjectListener
       DEF ObjectStarts, ObjectRepeats
<1>7. CASE SetParents(m)
  <2>1. CompositionTypeOK' /\ HistoryTypeOK'
    BY <1>2, <1>7 DEF SetParents, otherVars, childVars, CompositionTypeOK,
       HistoryTypeOK
  <2>2. UNCHANGED movedVars /\ UNCHANGED evaluated
    BY <1>7 DEF SetParents, otherVars, movedVars
  <2> QED
    BY <1>3, <1>7, <2>1, <2>2, CoreObjectListener DEF SetParents
<1>8. CASE StartWhole(m)
  <2>1. CompositionTypeOK'
    BY <1>2, <1>8, WholeListenerTypes DEF StartWhole, otherVars, Transitions
  <2>2. HistoryTypeOK'
    BY <1>2, <1>8, NotesAreBoolean DEF StartWhole, otherVars, HistoryTypeOK
  <2>3. UNCHANGED movedVars /\ UNCHANGED evaluated
    BY <1>8 DEF StartWhole, otherVars, movedVars
  <2> QED
    BY <1>3, <1>8, <2>1, <2>2, <2>3, CoreObjectListener DEF StartWhole
<1>9. CASE InsertRunning(m)
  <2>1. CompositionTypeOK'
    BY <1>2, <1>9 DEF InsertRunning, CompositionTypeOK, wholeVars
  <2>2. HistoryTypeOK'
    BY <1>2, <1>9, NotesAreBoolean DEF InsertRunning, HistoryTypeOK
  <2>3. UNCHANGED movedVars /\ UNCHANGED evaluated
    BY <1>9 DEF InsertRunning, movedVars
  <2> QED
    BY <1>3, <1>9, <2>1, <2>2, <2>3, CoreObjectListener DEF InsertRunning
<1>10. CASE ObjectStops(m)
  <2>1. trans[m] \in Ends
    BY <1>10 DEF ObjectStops, CallsObject
  <2>2. CompositionTypeOK' /\ HistoryTypeOK'
    BY <1>2, <1>10, <2>1 DEF ObjectStops, otherVars, CompositionTypeOK,
       wholeVars, HistoryTypeOK
  <2>3. UNCHANGED movedVars /\ UNCHANGED evaluated
    BY <1>10 DEF ObjectStops, otherVars, movedVars
  <2> QED
    BY <1>3, <1>5, <1>10, <2>2, <2>3, CoreObjectListener DEF ObjectStops
<1>11. CASE TestAllDone(m)
  <2>1. CompositionTypeOK'
    BY <1>2, <1>11, CompositionFrame DEF TestAllDone, otherVars
  <2>2. HistoryTypeOK'
    <3>1. \A p, q : (p /\ q) \in BOOLEAN
      OBVIOUS
    <3>2. \E p, q : overtaken' = (p /\ q)
      BY <1>11, Zenon DEF TestAllDone
    <3>3. overtaken' \in BOOLEAN
      BY <3>1, <3>2, Zenon
    <3> QED
      BY <1>2, <1>11, <3>3, Zenon DEF TestAllDone, otherVars, HistoryTypeOK
  <2>3. UNCHANGED movedVars /\ UNCHANGED evaluated
    BY <1>11 DEF TestAllDone, otherVars, movedVars
  <2>4. PICK s \in Transitions \cup {"return"} : GoTo(m, s)
    BY <1>2, <1>11 DEF TestAllDone, ChangeTypeOK
  <2>5. s \in Steps \ {"evaluate"}
    BY DEF Steps, Transitions
  <2> QED
    BY <1>11, <2>1, <2>2, <2>3, <2>4, <2>5, CoreObjectListener DEF TestAllDone
<1>12. CASE EndWhole(m)
  <2>1. pc[m] \in Transitions /\ pc[m] # "evaluate"
    BY <1>12 DEF EndWhole, Ends, Transitions
  <2>2. CompositionTypeOK'
    BY <1>2, <1>12, <2>1, WholeListenerTypes DEF EndWhole, otherVars
  <2>3. HistoryTypeOK'
    BY <1>2, <1>12, NotesAreBoolean DEF EndWhole, otherVars, HistoryTypeOK
  <2>4. UNCHANGED movedVars /\ UNCHANGED evaluated
    BY <1>12 DEF EndWhole, otherVars, movedVars
  <2> QED
    BY <1>3, <1>12, <2>1, <2>2, <2>3, <2>4, CoreObjectListener DEF EndWhole
<1>13. CASE UnsetParents(m)
  <2>1. CompositionTypeOK'
    BY <1>2, <1>13 DEF UnsetParents, CompositionTypeOK, childVars
  <2>2. HistoryTypeOK'
    BY <1>2, <1>13, NotesAreBoolean DEF UnsetParents, HistoryTypeOK
  <2>3. UNCHANGED movedVars /\ evaluated' = [evaluated EXCEPT ![m] = NoLink]
    BY <1>13 DEF UnsetParents, movedVars
  <2>4. \E s \in {"return", "links"} : GoTo(m, s)
    BY <1>13 DEF UnsetParents
  <2> QED
    BY <1>3, <1>13, <2>1, <2>2, <2>3, <2>4, CoreObjectListener
       DEF UnsetParents
<1>14. CASE ObjectPauses(m) \/ ObjectResumes(m)
  <2>1. CompositionTypeOK' /\ HistoryTypeOK'
    BY <1>2, <1>14 DEF ObjectPauses, ObjectResumes, otherVars,
       CompositionTypeOK, wholeVars, HistoryTypeOK
  <2>2. \E s \in {"pauses", "resumes", "return"} : GoTo(m, s)
    BY <1>14 DEF ObjectPauses, ObjectResumes
  <2>3. UNCHANGED movedVars /\ UNCHANGED evaluated
    BY <1>14 DEF ObjectPauses, ObjectResumes, otherVars, movedVars
  <2> QED
    BY <1>3, <1>5, <1>14, <2>1, <2>2, <2>3, CoreObjectListener
       DEF ObjectPauses, ObjectResumes
<1>15. CASE PauseWhole(m)
  <2>1. pc[m] \in Transitions /\ pc[m] # "evaluate"
    BY <1>15 DEF PauseWhole, Transitions
  <2>2. CompositionTypeOK' /\ HistoryTypeOK'
    BY <1>2, <1>15, <2>1, WholeListenerTypes DEF PauseWhole, otherVars,
       HistoryTypeOK
  <2>3. UNCHANGED movedVars /\ UNCHANGED evaluated
    BY <1>15 DEF PauseWhole, otherVars, movedVars
  <2> QED
    BY <1>3, <1>15, <2>1, <2>2, <2>3, CoreObjectListener DEF PauseWhole
<1>16. CASE Repeat(m)
  <2>1. MediaTypeOK' /\ ChangeTypeOK'
    BY <1>1, <1>2, <1>16, ChangeStateTypes
       DEF Repeat, TypeOK, MediaTypeOK, ChangeTypeOK, Transitions
  <2>2. SameEvaluations /\ OwnLinks'
    BY <1>1, <1>2, <1>16 DEF Repeat, ChangeState, OwnLinks, SameEvaluations,
       ChangeTypeOK
  <2> QED
    BY <1>1, <1>2, <1>16, <2>1, <2>2, CompositionFrame, ThreadFrame,
       PendingFrame, HistoryFrame DEF Repeat, CoreInv, TypeOK, ThreadTypeOK
<1>17. CASE Return(m)
  <2>1. MediaTypeOK' /\ ChangeTypeOK'
    <3>1. Settled(currentState[m]) \in States
      BY <1>1, NewStates DEF TypeOK, MediaTypeOK
    <3>2. "stops" \in Transitions /\ "sleeping" \in States
      BY DEF Transitions, States
    <3> QED
      BY <1>1, <1>2, <1>3, <1>17, <3>1, <3>2
         DEF Return, GoTo, TypeOK, MediaTypeOK, ChangeTypeOK
  <2>2. CompositionTypeOK' /\ HistoryTypeOK'
    BY <1>2, <1>17, CompositionFrame, HistoryFrame DEF Return
  <2>3. SameEvaluations /\ FewerLinks
    BY <1>2, <1>17 DEF Return, GoTo, SameEvaluations, FewerLinks, ChangeTypeOK
  <2>4. OwnLinks'
    BY <1>1, <2>3, OwnFrame
  <2>5. CASE HoldsEventMutex(m)
    <3>1. eventMutex \in Links /\ eventMutex # NoLink
      BY <1>1, <2>5, CompositeAssumption DEF MutexHeld, HoldsEventMutex
    <3>2. /\ acting' = FALSE /\ eventMutex' = NoLink
          /\ toFinish' = [toFinish EXCEPT ![eventMutex] = @ + 1]
          /\ UNCHANGED <<toRun, commands, pendingLinks>>
      BY <1>17, <2>5, Zenon DEF Return
    <3>3. ThreadTypeOK'
      <4>1. acting' \in BOOLEAN
        BY <3>2, Zenon
      <4>2. toFinish' \in [Links -> Nat]
        BY <1>2, <3>1, <3>2 DEF ThreadTypeOK
      <4> QED
        BY <1>2, <3>2, <4>1, <4>2 DEF ThreadTypeOK
    <3>4. \A k \in Links :
            Evaluates(TriggerEvent[k], k)' <=> Evaluates(TriggerEvent[k], k)
      BY <2>3, CompositeAssumption DEF SameEvaluations, Evaluates
    <3>5. PendingExact' /\ MutexHeld'
      BY <1>1, <1>2, <3>1, <3>2, <3>4, CompositeAssumption
         DEF PendingExact, MutexHeld, ThreadTypeOK, CompositionTypeOK
    <3> QED
      BY <2>1, <2>2, <2>4, <3>3, <3>5 DEF CoreInv, TypeOK
  <2>6. CASE ~HoldsEventMutex(m)
    BY <1>1, <1>2, <1>17, <2>1, <2>2, <2>3, <2>4, <2>6, ThreadFrame,
       PendingFrame DEF Return, CoreInv, TypeOK, ThreadTypeOK, threadVars
  <2> QED
    BY <2>5, <2>6
<1> QED
  BY <1>4, <1>6, <1>7, <1>8, <1>9, <1>10, <1>11, <1>12, <1>13, <1>14, <1>15,
     <1>16, <1>17 DEF Listener

LEMMA CoreStep == CoreInv /\ [Next]_vars => CoreInv'
<1> SUFFICES ASSUME CoreInv, [Next]_vars PROVE CoreInv'
  OBVIOUS
<1>1. CASE \E m \in Media, c \in Commands : Command(m, c)
  BY <1>1, CoreCommands
<1>2. CASE \E m \in Media : NaturalEnd(m)
  BY <1>2, CoreCommands
<1>3. CASE \E m \in Media : Listener(m)
  BY <1>3, CoreListener
<1>4. CASE \E l \in Links : LinkThread(l)
  BY <1>4, CoreLinkThreads
<1>5. CASE EndingThread
  BY <1>5, CoreEndingThread
<1>6. CASE UNCHANGED vars
  BY <1>6, MediaFrame, ChangeFrame, CompositionFrame, ThreadFrame,
     HistoryFrame, PendingFrame, OwnFrame, NothingEvaluated
     DEF vars, CoreInv, TypeOK, ThreadTypeOK
<1> QED
  BY <1>1, <1>2, <1>3, <1>4, <1>5, <1>6 DEF Next

THEOREM CoreInvariant == Spec => []CoreInv
BY CoreInit, CoreStep, PTL DEF Spec

(* Every variable keeps its type: no presentation count, thread count or   *)
(* pending link count of CompositeExecutionObject.cpp ever runs below its  *)
(* range, however many media, links and threads there are.                 *)
THEOREM TypeCorrect == Spec => []TypeOK
BY CoreInvariant, PTL DEF CoreInv

(* linkEvaluationStarted and linkEvaluationFinished keep pendingLinks equal*)
(* to the number of action threads that still have to report.              *)
THEOREM PendingLinksExact == Spec => []PendingExact
BY CoreInvariant, PTL DEF CoreInv
-----------------------------------------------------------------------------
(***************************************************************************)
(* The composition's view of its children.  Known holds between changes;   *)
(* Tracked says, for each step of a change, what makes it hold again.      *)
(***************************************************************************)
Known(m) ==
  /\ m \in runningEvents <=> currentState[m] = "occurring"
  /\ currentState[m] = "paused" => m \in pausedEvents

(* The thread of m is at the links of its change, or ends the composition  *)
(* for one of them ...                                                     *)
AtLinks(m) ==
  \/ pc[m] \in {"links", "evaluate"}
  \/ pc[m] \in Ends \cup {"unset"} /\ evaluated[m] # NoLink

(* ... or it has taken m out of the composition.                           *)
Finishing(m) ==
  \/ pc[m] = "test"
  \/ pc[m] \in Ends \cup {"unset"} /\ evaluated[m] = NoLink

Tracked(m) ==
  /\ pc[m] = "idle" =>
       Known(m) /\ currentState[m] # "aborted" /\ ~repeating[m]
  /\ repeating[m] => trans[m] = "stops"
  /\ evaluated[m] # NoLink => AtLinks(m)
  /\ pc[m] \in {"links", "idle", "return"} => evaluated[m] = NoLink
  /\ pc[m] = "evaluate" => evaluated[m] # NoLink
  /\ AtLinks(m) => currentState[m] = NewState(trans[m])
  /\ AtLinks(m) /\ trans[m] \in Ends =>
       /\ previous[m] \in {"occurring", "paused"}
       /\ m \in runningEvents <=> previous[m] = "occurring"
  /\ AtLinks(m) /\ trans[m] = "stops" /\ previous[m] = "occurring" =>
       repeating[m] \/ LastPresentation(m)
  /\ AtLinks(m) /\ trans[m] = "pauses" => m \in runningEvents
  /\ AtLinks(m) /\ trans[m] = "resumes" => m \in pausedEvents
  /\ pc[m] \in {"parents", "starts", "insert"} => currentState[m] = "occurring"
  /\ Finishing(m) =>
       /\ trans[m] \in Ends
       /\ currentState[m] \in {"sleeping", "aborted"}
       /\ m \notin runningEvents
  /\ pc[m] \in {"pauses", "resumes", "return"} /\ ~repeating[m] => Known(m)

TrackInv == \A m \in Media : Tracked(m)

SameMembership(x) ==
  /\ x \in runningEvents' <=> x \in runningEvents
  /\ x \in pausedEvents' <=> x \in pausedEvents

LEMMA TrackedFrame ==
  ASSUME NEW x \in Media, Tracked(x), SameEvent(x), SameMembership(x)
  PROVE  Tracked(x)'
BY DEF Tracked, Known, AtLinks, Finishing, SameEvent, SameMembership,
   LastPresentation, Repetitions

LEMMA TrackInit == Init => TrackInv
BY DEF Init, TrackInv, Tracked, Known, AtLinks, Finishing, Ends

(* A command on an idle object.                                            *)
LEMMA EffectTracked ==
  ASSUME TypeOK, TrackInv, NEW m \in Media, pc[m] = "idle", Effect(m),
         UNCHANGED childVars
  PROVE  TrackInv'
<1>1. MediaTypeOK /\ ChangeTypeOK
  BY DEF TypeOK
<1>2. \A x \in Media : SameMembership(x)
  BY DEF SameMembership, childVars
<1>3. \A x \in Media \ {m} : Tracked(x)'
  BY <1>2, TrackedFrame DEF Effect, TrackInv
<1>4. Tracked(m) /\ Known(m) /\ ~repeating[m] /\ evaluated[m] = NoLink
  BY DEF TrackInv, Tracked
<1>5. evaluated'[m] = NoLink
  BY <1>4 DEF Effect
<1>6. Tracked(m)'
  <2>1. CASE Stayed
    <3>1. /\ currentState'[m] = currentState[m] /\ pc'[m] = "idle"
          /\ trans'[m] = trans[m] /\ repeating'[m] = repeating[m]
      BY <2>1 DEF Stayed
    <3>2. Known(m)' /\ ~repeating'[m] /\ currentState'[m] # "aborted"
      BY <1>2, <1>4, <3>1 DEF TrackInv, Tracked, Known, SameMembership
    <3>3. ~AtLinks(m)' /\ ~Finishing(m)'
      BY <3>1 DEF AtLinks, Finishing, Ends
    <3> QED
      BY <1>5, <3>1, <3>2, <3>3 DEF Tracked
  <2>2. ASSUME NEW t \in Transitions \ {"stops"}, Began(m, t), UNCHANGED repeating
        PROVE  Tracked(m)'
    <3>1. /\ currentState'[m] = NewState(t) /\ pc'[m] = "links"
          /\ trans'[m] = t /\ previous'[m] = currentState[m] /\ ~repeating'[m]
      BY <1>1, <1>4, <2>2 DEF Began, MediaTypeOK, ChangeTypeOK
    <3>2. /\ t = "aborts" => currentState[m] \in {"occurring", "paused"}
          /\ t = "pauses" => currentState[m] = "occurring"
          /\ t = "resumes" => currentState[m] = "paused"
      BY <2>2, Accepted DEF Began
    <3>3. ~Finishing(m)'
      BY <3>1 DEF Finishing, Ends
    <3> QED
      BY <1>2, <1>4, <1>5, <3>1, <3>2, <3>3
         DEF Tracked, Known, Ends, SameMembership
  <2>3. CASE /\ Began(m, "stops")
             /\ repeating' = [repeating EXCEPT ![m] = ChecksRepeat(numPresentations[m])]
             /\ numPresentations' = [numPresentations EXCEPT
                  ![m] = AfterStop(currentState[m], @)]
    <3>1. /\ currentState'[m] = NewState("stops") /\ pc'[m] = "links"
          /\ trans'[m] = "stops" /\ previous'[m] = currentState[m]
      BY <1>1, <2>3 DEF Began, MediaTypeOK, ChangeTypeOK
    <3>2. currentState[m] \in {"occurring", "paused"}
      BY <2>3, Accepted DEF Began
    <3>3. currentState[m] = "occurring" =>
            repeating'[m] \/ Repetitions(numPresentations'[m]) = 0
      <4> DEFINE n == numPresentations[m]
      <4>1. n \in Nat \ {0} /\ numPresentations'[m] = AfterStop(currentState[m], n)
        BY <1>1, <2>3 DEF MediaTypeOK
      <4>2. repeating'[m] = ChecksRepeat(n)
        BY <1>1, <2>3 DEF ChangeTypeOK
      <4>3. currentState[m] = "occurring" /\ ~ChecksRepeat(n) =>
              Repetitions(AfterStop(currentState[m], n)) = 0
        BY <4>1 DEF ChecksRepeat, Repetitions, AfterStop
      <4> QED
        BY <4>1, <4>2, <4>3, Zenon
    <3>4. ~Finishing(m)'
      BY <3>1 DEF Finishing, Ends
    <3> QED
      BY <1>2, <1>4, <1>5, <3>1, <3>2, <3>3, <3>4
         DEF Tracked, Known, Ends, SameMembership, LastPresentation
  <2> QED
    BY <2>1, <2>2, <2>3 DEF Effect
<1> QED
  BY <1>3, <1>6 DEF TrackInv

(* Steps that change no event and neither set.                             *)
LEMMA TrackFrame ==
  ASSUME TrackInv, UNCHANGED <<mediaVars, pc, trans, previous, repeating,
                               evaluated, runningEvents, pausedEvents>>
  PROVE  TrackInv'
<1>1. \A x \in Media : SameEvent(x) /\ SameMembership(x)
  BY DEF mediaVars, SameEvent, SameMembership
<1> QED
  BY <1>1, TrackedFrame DEF TrackInv

(* Listeners of m move the change of m on, and only m changes sets.        *)
eventVars == <<mediaVars, trans, previous, repeating>>

LEMMA GoToEffect ==
  ASSUME TypeOK, NEW m \in Media, NEW s \in Steps, GoTo(m, s),
         UNCHANGED eventVars
  PROVE  /\ pc'[m] = s /\ currentState'[m] = currentState[m]
         /\ trans'[m] = trans[m] /\ repeating'[m] = repeating[m]
         /\ previous'[m] = previous[m]
         /\ numPresentations'[m] = numPresentations[m]
BY DEF TypeOK, ChangeTypeOK, GoTo, eventVars, mediaVars

LEMMA TrackListener ==
  ASSUME TypeOK, TrackInv, NEW m \in Media, NEW s \in Steps, GoTo(m, s),
         UNCHANGED eventVars, \A x \in Media \ {m} : SameMembership(x),
         \A x \in Media \ {m} : evaluated'[x] = evaluated[x],
         Tracked(m)'
  PROVE  TrackInv'
<1>1. ChangeTypeOK
  BY DEF TypeOK
<1>2. \A x \in Media \ {m} : SameEvent(x)
  BY <1>1 DEF GoTo, eventVars, mediaVars, SameEvent, ChangeTypeOK
<1> QED
  BY <1>2, TrackedFrame DEF TrackInv

(* The steps of m at its links.                                            *)
LEMMA TrackAtLinks ==
  ASSUME TypeOK, TrackInv, NEW m \in Media, NEW s \in Steps, GoTo(m, s),
         UNCHANGED <<eventVars, runningEvents, pausedEvents>>,
         NEW e \in Links \cup {NoLink},
         evaluated' = [evaluated EXCEPT ![m] = e],
         AtLinks(m), s \in {"links", "evaluate", "unset"} \cup Ends,
         e = NoLink <=> s = "links"
  PROVE  TrackInv'
<1>1. Tracked(m) /\ ChangeTypeOK
  BY DEF TrackInv, TypeOK
<1>2. \A x \in Media : SameMembership(x)
  BY DEF SameMembership
<1>3. evaluated'[m] = e /\ \A x \in Media \ {m} : evaluated'[x] = evaluated[x]
  BY <1>1 DEF ChangeTypeOK
<1>4. UNCHANGED eventVars
  OBVIOUS
<1>5. /\ pc'[m] = s /\ currentState'[m] = currentState[m]
      /\ trans'[m] = trans[m] /\ repeating'[m] = repeating[m]
      /\ previous'[m] = previous[m]
      /\ numPresentations'[m] = numPresentations[m]
  BY <1>4, GoToEffect
<1>6. AtLinks(m)' /\ ~Finishing(m)'
  BY <1>3, <1>5 DEF AtLinks, Finishing, Ends
<1>7. s \notin {"idle", "return", "parents", "starts", "insert", "pauses", "resumes"}
  BY DEF Ends
<1>8. LastPresentation(m)' <=> LastPresentation(m)
  BY <1>5 DEF LastPresentation
<1>9. Tracked(m)'
  BY <1>1, <1>2, <1>3, <1>5, <1>6, <1>7, <1>8 DEF Tracked, SameMembership
<1> QED
  BY <1>2, <1>3, <1>4, <1>9, TrackListener

(* The steps of m after its links: evaluated[m] is and stays NoLink.       *)
LEMMA TrackAfterLinks ==
  ASSUME TypeOK, TrackInv, NEW m \in Media, NEW s \in Steps, GoTo(m, s),
         UNCHANGED eventVars, \A x \in Media \ {m} : SameMembership(x),
         \A x \in Media : evaluated'[x] = evaluated[x],
         evaluated[m] = NoLink, s \notin {"links", "evaluate", "idle"},
         s \in {"parents", "starts", "insert"} => currentState[m] = "occurring",
         s \in {"test", "unset"} \cup Ends =>
           /\ trans[m] \in Ends
           /\ currentState[m] \in {"sleeping", "aborted"}
           /\ m \notin runningEvents',
         s \in {"pauses", "resumes", "return"} /\ ~repeating[m] =>
           /\ m \in runningEvents' <=> currentState[m] = "occurring"
           /\ currentState[m] = "paused" => m \in pausedEvents'
  PROVE  TrackInv'
<1>1. Tracked(m)
  BY DEF TrackInv
<1>2. /\ pc'[m] = s /\ currentState'[m] = currentState[m]
      /\ trans'[m] = trans[m] /\ repeating'[m] = repeating[m]
  BY GoToEffect
<1>3. ~AtLinks(m)' /\ evaluated'[m] = NoLink
  BY <1>2 DEF AtLinks
<1>4. Finishing(m)' => s \in {"test", "unset"} \cup Ends
  BY <1>2 DEF Finishing
<1>5. s \in {"pauses", "resumes", "return"} /\ ~repeating[m] => Known(m)'
  BY <1>2 DEF Known
<1>6. Tracked(m)'
  BY <1>1, <1>2, <1>3, <1>4, <1>5 DEF Tracked
<1> QED
  BY <1>6, TrackListener

LEMMA TrackListeners ==
  ASSUME TypeOK, TrackInv, NEW m \in Media, Listener(m)
  PROVE  TrackInv'
<1>1. MediaTypeOK /\ ChangeTypeOK /\ CompositionTypeOK /\ Tracked(m)
  BY DEF TypeOK, TrackInv
<1>2. Transitions \cup {"links", "evaluate", "parents", "insert", "test",
        "unset", "return"} \subseteq Steps
  BY DEF Steps
<1>3. Ends \subseteq Transitions /\ {"starts", "pauses", "resumes"} \subseteq Transitions
  BY DEF Ends, Transitions
<1>4. ASSUME NEW l \in Links, EvaluationStarted(m, l)
      PROVE  TrackInv'
  BY <1>4, TrackFrame DEF EvaluationStarted, childVars
<1>5. ASSUME NEW l \in Links, EvaluationFails(m, l)
      PROVE  TrackInv'
  <2>1. AtLinks(m) /\ l # NoLink
    BY <1>5, CompositeAssumption DEF EvaluationFails, CallsLink, AtLinks
  <2>2. UNCHANGED <<eventVars, runningEvents, pausedEvents>>
    BY <1>5 DEF EvaluationFails, childVars, eventVars
  <2> QED
    BY <1>2, <1>5, <2>1, <2>2, TrackAtLinks DEF EvaluationFails
<1>6. CASE EvaluationEnded(m)
  <2>1. AtLinks(m) /\ evaluated[m] # NoLink
    BY <1>1, <1>6 DEF EvaluationEnded, AtLinks, Tracked
  <2>2. UNCHANGED <<eventVars, runningEvents, pausedEvents>>
    BY <1>6 DEF EvaluationEnded, childVars, eventVars
  <2>3. CASE GoTo(m, lastTransition) /\ UNCHANGED evaluated
    <3>1. lastTransition \in Ends /\ evaluated[m] \in Links \cup {NoLink}
      BY <1>1 DEF CompositionTypeOK, ChangeTypeOK
    <3>2. evaluated' = [evaluated EXCEPT ![m] = evaluated[m]]
      BY <1>1, <2>3 DEF ChangeTypeOK
    <3>3. lastTransition # "links" /\ lastTransition \in Steps
      BY <1>2, <1>3, <3>1 DEF Ends
    <3> QED
      BY <2>1, <2>2, <2>3, <3>1, <3>2, <3>3, TrackAtLinks
  <2>4. CASE GoTo(m, "links") /\ evaluated' = [evaluated EXCEPT ![m] = NoLink]
    BY <1>2, <2>1, <2>2, <2>4, TrackAtLinks
  <2> QED
    BY <1>6, <2>3, <2>4 DEF EvaluationEnded
<1>7. UNCHANGED otherVars =>
        UNCHANGED eventVars /\ \A x \in Media : evaluated'[x] = evaluated[x]
  BY DEF otherVars, eventVars
<1>8. UNCHANGED childVars => \A x \in Media : SameMembership(x)
  BY DEF childVars, SameMembership
<1>9. \A S : CallsObject(m, S) =>
        /\ pc[m] = "links" /\ evaluated[m] = NoLink /\ AtLinks(m)
        /\ trans[m] \in S /\ currentState[m] = NewState(trans[m])
  BY <1>1 DEF CallsObject, Tracked, AtLinks
<1>10. CASE ObjectStarts(m)
  <2>1. /\ currentState[m] = "occurring" /\ evaluated[m] = NoLink
    BY <1>9, <1>10, NewStates DEF ObjectStarts
  <2>2. PICK s \in {"parents", "insert"} : GoTo(m, s)
    BY <1>10 DEF ObjectStarts, Opening
  <2>3. s \notin {"test", "unset"} \cup Ends
    BY DEF Ends
  <2>4. UNCHANGED otherVars /\ UNCHANGED childVars
    BY <1>10 DEF ObjectStarts
  <2> QED
    BY <1>2, <1>7, <1>8, <2>1, <2>2, <2>3, <2>4, TrackAfterLinks
<1>11. CASE SetParents(m) \/ StartWhole(m)
  <2>1. currentState[m] = "occurring" /\ evaluated[m] = NoLink
    BY <1>1, <1>11 DEF SetParents, StartWhole, Tracked, AtLinks, Ends
  <2>2. PICK s \in {"starts", "insert"} : GoTo(m, s)
    BY <1>11 DEF SetParents, StartWhole
  <2>3. s \notin {"test", "unset"} \cup Ends /\ s \in Steps
    BY <1>2, <1>3 DEF Ends
  <2>4. UNCHANGED otherVars /\ UNCHANGED childVars
    BY <1>11 DEF SetParents, StartWhole
  <2> QED
    BY <1>7, <1>8, <2>1, <2>2, <2>3, <2>4, TrackAfterLinks
<1>12. CASE InsertRunning(m)
  <2>1. currentState[m] = "occurring" /\ evaluated[m] = NoLink
    BY <1>1, <1>12 DEF InsertRunning, Tracked, AtLinks, Ends
  <2>2. m \in runningEvents' /\ \A x \in Media \ {m} : SameMembership(x)
    BY <1>12 DEF InsertRunning, SameMembership
  <2>3. /\ UNCHANGED eventVars /\ \A x \in Media : evaluated'[x] = evaluated[x]
        /\ GoTo(m, "return")
    BY <1>12 DEF InsertRunning, eventVars
  <2>4. "return" \in Steps /\ "return" \notin {"test", "unset"} \cup Ends
    BY <1>2 DEF Ends
  <2> QED
    BY <2>1, <2>2, <2>3, <2>4, TrackAfterLinks
<1>13. CASE ObjectRepeats(m)
  <2>1. /\ trans[m] = "stops" /\ currentState[m] = "sleeping"
        /\ m \in runningEvents => repeating[m]
        /\ evaluated[m] = NoLink
    BY <1>1, <1>9, <1>13, NewStates DEF ObjectRepeats, Tracked, Ends
  <2>2. UNCHANGED otherVars /\ UNCHANGED childVars /\ GoTo(m, "return")
    BY <1>13 DEF ObjectRepeats
  <2>3. "return" \in Steps /\ "return" \notin {"test", "unset"} \cup Ends
    BY <1>2 DEF Ends
  <2>4. m \in runningEvents' <=> m \in runningEvents
    BY <2>2 DEF childVars
  <2> QED
    BY <1>7, <1>8, <2>1, <2>2, <2>3, <2>4, TrackAfterLinks
<1>14. CASE ObjectStops(m)
  <2>1. /\ trans[m] \in Ends /\ currentState[m] \in {"sleeping", "aborted"}
        /\ m \in runningEvents => previous[m] = "occurring"
        /\ evaluated[m] = NoLink
    BY <1>1, <1>9, <1>14, NewStates DEF ObjectStops, Tracked, Ends
  <2>2. m \notin runningEvents' /\ \A x \in Media \ {m} : SameMembership(x)
    BY <1>14, <2>1 DEF ObjectStops, SameMembership
  <2>3. UNCHANGED otherVars /\ GoTo(m, "test")
    BY <1>14 DEF ObjectStops
  <2> QED
    BY <1>2, <1>7, <2>1, <2>2, <2>3, TrackAfterLinks
<1>15. CASE TestAllDone(m)
  <2>1. /\ trans[m] \in Ends /\ currentState[m] \in {"sleeping", "aborted"}
        /\ m \notin runningEvents /\ evaluated[m] = NoLink
    BY <1>1, <1>15 DEF TestAllDone, Tracked, Finishing, AtLinks, Ends
  <2>2. PICK s \in Ends \cup {"return"} : GoTo(m, s)
    BY <1>15, <2>1 DEF TestAllDone
  <2>3. UNCHANGED otherVars /\ UNCHANGED childVars
    BY <1>15 DEF TestAllDone
  <2>4. /\ s \in Steps
        /\ s \notin {"links", "evaluate", "idle", "parents", "starts", "insert"}
    BY <1>2, <1>3 DEF Ends
  <2>5. m \notin runningEvents'
    BY <2>1, <2>3 DEF childVars
  <2> QED
    BY <1>7, <1>8, <2>1, <2>2, <2>3, <2>4, <2>5, TrackAfterLinks
<1>16. CASE EndWhole(m)
  <2>1. UNCHANGED otherVars /\ UNCHANGED childVars /\ GoTo(m, "unset")
        /\ pc[m] \in Ends
    BY <1>16 DEF EndWhole
  <2>2. CASE evaluated[m] = NoLink
    <3>1. /\ trans[m] \in Ends /\ currentState[m] \in {"sleeping", "aborted"}
          /\ m \notin runningEvents'
      BY <1>1, <2>1, <2>2 DEF Tracked, Finishing, childVars
    <3> QED
      BY <1>2, <1>7, <1>8, <2>1, <2>2, <3>1, TrackAfterLinks
  <2>3. CASE evaluated[m] # NoLink
    <3>1. AtLinks(m) /\ evaluated[m] \in Links \cup {NoLink}
      BY <1>1, <2>1, <2>3 DEF AtLinks, ChangeTypeOK
    <3>2. evaluated' = [evaluated EXCEPT ![m] = evaluated[m]]
      BY <1>1, <2>1 DEF otherVars, ChangeTypeOK
    <3>3. UNCHANGED <<eventVars, runningEvents, pausedEvents>>
      BY <1>7, <2>1 DEF childVars
    <3> QED
      BY <1>2, <2>1, <2>3, <3>1, <3>2, <3>3, TrackAtLinks
  <2> QED
    BY <2>2, <2>3
<1>17. CASE UnsetParents(m)
  <2>1. /\ pc[m] = "unset" /\ UNCHANGED eventVars /\ UNCHANGED childVars
        /\ evaluated' = [evaluated EXCEPT ![m] = NoLink]
    BY <1>17 DEF UnsetParents, eventVars
  <2>2. CASE evaluated[m] = NoLink
    <3>1. /\ trans[m] \in Ends /\ currentState[m] \in {"sleeping", "aborted"}
          /\ m \notin runningEvents'
      BY <1>1, <2>1, <2>2 DEF Tracked, Finishing, childVars
    <3>2. GoTo(m, "return") /\ \A x \in Media : evaluated'[x] = evaluated[x]
      BY <1>1, <1>17, <2>1, <2>2 DEF UnsetParents, ChangeTypeOK
    <3>3. "return" \in Steps /\ "return" \notin {"test", "unset"} \cup Ends
      BY <1>2 DEF Ends
    <3> QED
      BY <1>8, <2>1, <2>2, <3>1, <3>2, <3>3, TrackAfterLinks
  <2>3. CASE evaluated[m] # NoLink
    <3>1. AtLinks(m) /\ GoTo(m, "links")
      BY <1>17, <2>1, <2>3 DEF AtLinks, UnsetParents
    <3>2. UNCHANGED <<eventVars, runningEvents, pausedEvents>>
      BY <2>1 DEF childVars
    <3> QED
      BY <1>2, <2>1, <3>1, <3>2, TrackAtLinks
  <2> QED
    BY <2>2, <2>3
<1>18. CASE ObjectPauses(m)
  <2>1. currentState[m] = "paused" /\ evaluated[m] = NoLink
    BY <1>9, <1>18, NewStates DEF ObjectPauses
  <2>2. /\ m \notin runningEvents' /\ m \in pausedEvents'
        /\ \A x \in Media \ {m} : SameMembership(x)
    BY <1>18 DEF ObjectPauses, SameMembership
  <2>3. PICK s \in {"pauses", "return"} : GoTo(m, s)
    BY <1>18 DEF ObjectPauses
  <2>4. s \notin {"test", "unset"} \cup Ends /\ s \in Steps
    BY <1>2, <1>3 DEF Ends
  <2>5. UNCHANGED otherVars
    BY <1>18 DEF ObjectPauses
  <2> QED
    BY <1>7, <2>1, <2>2, <2>3, <2>4, <2>5, TrackAfterLinks
<1>19. CASE ObjectResumes(m)
  <2>1. currentState[m] = "occurring" /\ evaluated[m] = NoLink
    BY <1>9, <1>19, NewStates DEF ObjectResumes
  <2>2. m \in runningEvents' /\ \A x \in Media \ {m} : SameMembership(x)
    BY <1>19 DEF ObjectResumes, SameMembership
  <2>3. PICK s \in {"resumes", "return"} : GoTo(m, s)
    BY <1>19 DEF ObjectResumes
  <2>4. s \notin {"test", "unset"} \cup Ends /\ s \in Steps
    BY <1>2, <1>3 DEF Ends
  <2>5. UNCHANGED otherVars
    BY <1>19 DEF ObjectResumes
  <2> QED
    BY <1>7, <2>1, <2>2, <2>3, <2>4, <2>5, TrackAfterLinks
<1>20. CASE PauseWhole(m)
  <2>1. /\ ~repeating[m] => Known(m)
        /\ evaluated[m] = NoLink
    BY <1>1, <1>20 DEF PauseWhole, Tracked, AtLinks, Ends
  <2>2. UNCHANGED otherVars /\ UNCHANGED childVars /\ GoTo(m, "return")
    BY <1>20 DEF PauseWhole
  <2>3. "return" \in Steps /\ "return" \notin {"test", "unset"} \cup Ends
    BY <1>2 DEF Ends
  <2>4. ~repeating[m] => /\ m \in runningEvents' <=> currentState[m] = "occurring"
                         /\ currentState[m] = "paused" => m \in pausedEvents'
    BY <2>1, <2>2 DEF Known, childVars
  <2> QED
    BY <1>7, <1>8, <2>1, <2>2, <2>3, <2>4, TrackAfterLinks
<1>21. CASE Repeat(m)
  <2>1. \A x \in Media \ {m} : SameEvent(x)
    BY <1>1, <1>21 DEF Repeat, ChangeState, SameEvent, ChangeTypeOK, MediaTypeOK
  <2>2. \A x \in Media : SameMembership(x)
    BY <1>21 DEF Repeat, childVars, SameMembership
  <2>3. /\ pc'[m] = "links" /\ trans'[m] = "starts" /\ ~repeating'[m]
        /\ currentState'[m] = NewState("starts")
        /\ evaluated'[m] = NoLink
    BY <1>1, <1>21 DEF Repeat, ChangeState, ChangeTypeOK, MediaTypeOK, Tracked
  <2>4. Tracked(m)'
    BY <2>3 DEF Tracked, AtLinks, Finishing, Ends
  <2> QED
    BY <2>1, <2>2, <2>4, TrackedFrame DEF TrackInv
<1>22. CASE Return(m)
  <2>1. \A x \in Media \ {m} : SameEvent(x)
    BY <1>1, <1>22 DEF Return, GoTo, SameEvent, ChangeTypeOK, MediaTypeOK
  <2>2. \A x \in Media : SameMembership(x)
    BY <1>22 DEF Return, childVars, SameMembership
  <2>3. /\ pc'[m] = "idle" /\ ~repeating'[m] /\ evaluated'[m] = NoLink
        /\ currentState'[m] = Settled(currentState[m])
    BY <1>1, <1>22 DEF Return, GoTo, ChangeTypeOK, MediaTypeOK, Tracked
  <2>4. Known(m)
    BY <1>1, <1>22 DEF Return, Tracked
  <2>5. Known(m)' /\ currentState'[m] # "aborted"
    BY <2>2, <2>3, <2>4 DEF Known, SameMembership, Settled
  <2>6. Tracked(m)'
    BY <2>3, <2>5 DEF Tracked, AtLinks, Finishing, Ends
  <2> QED
    BY <2>1, <2>2, <2>6, TrackedFrame DEF TrackInv
<1> QED
  BY <1>4, <1>5, <1>6, <1>10, <1>11, <1>12, <1>13, <1>14, <1>15, <1>16, <1>17,
     <1>18, <1>19, <1>20, <1>21, <1>22 DEF Listener

LEMMA TrackStep == TypeOK /\ TrackInv /\ [Next]_vars => TrackInv'
<1> SUFFICES ASSUME TypeOK, TrackInv, [Next]_vars PROVE TrackInv'
  OBVIOUS
<1>1. ASSUME NEW m \in Media, NEW c \in Commands, Command(m, c)
      PROVE  TrackInv'
  <2>1. numPresentations[m] \in Nat \ {0}
    BY DEF TypeOK, MediaTypeOK
  <2> QED
    BY <1>1, <2>1, PerformEffect, EffectTracked DEF Command
<1>2. ASSUME NEW m \in Media, NaturalEnd(m)
      PROVE  TrackInv'
  BY <1>2, AdapterStopEffect, EffectTracked DEF NaturalEnd
<1>3. CASE \E m \in Media : Listener(m)
  BY <1>3, TrackListeners
<1>4. ASSUME NEW l \in Links, RunAction(l)
      PROVE  TrackInv'
  <2> DEFINE m == ActionTarget[l]
             n == IF l \in RepeatLinks THEN RepeatCount + 1
                                       ELSE numPresentations[m]
  <2>1. m \in Media /\ ActionType[l] \in Commands /\ n \in Nat \ {0}
    BY CompositeAssumption DEF TypeOK, MediaTypeOK
  <2>2. Perform(m, ActionType[l], n) /\ pc[m] = "idle" /\ UNCHANGED childVars
    BY <1>4 DEF RunAction
  <2> QED
    BY <2>1, <2>2, PerformEffect, EffectTracked
<1>5. ASSUME NEW l \in Links, TakeEventMutex(l) \/ LinkEvaluationFinished(l)
      PROVE  TrackInv'
  BY <1>5, TrackFrame DEF TakeEventMutex, LinkEvaluationFinished, changeVars,
     childVars
<1>6. CASE EndingThread
  BY <1>6, TrackFrame DEF EndingThread, EndByLink, UnsetByLink, changeVars,
     childVars
<1>7. CASE UNCHANGED vars
  BY <1>7, TrackFrame DEF vars, changeVars, childVars
<1> QED
  BY <1>1, <1>2, <1>3, <1>4, <1>5, <1>6, <1>7 DEF Next, LinkThread

THEOREM TrackInvariant == Spec => []TrackInv
BY TrackInit, TrackStep, TypeCorrect, PTL DEF Spec

(* The composition knows its children, however the threads interleave:     *)
(* runningEvents holds exactly the occurring children, and pausedEvents    *)
(* every paused one, whenever no change of a child is being announced.     *)
THEOREM ChildrenAreTracked == Spec => []ChildrenTracked
<1>1. TrackInv => ChildrenTracked
  BY DEF TrackInv, Tracked, Known, ChildrenTracked
<1> QED
  BY <1>1, TrackInvariant, PTL
-----------------------------------------------------------------------------
(***************************************************************************)
(* An end is never lost: when nothing is left, some thread is on its way   *)
(* to end the composition, or a start action's report kept it open.        *)
(***************************************************************************)
NothingLeft == AllDone(runningEvents, pausedEvents, pendingLinks)

OnTheWay ==
  \/ keptOpen
  \/ \E m \in Media : pc[m] \in {"parents", "starts", "insert", "test"} \cup Ends
  \/ ending["stops"] > 0 \/ ending["aborts"] > 0

EndInv == wholeContent # "sleeping" /\ NothingLeft => OnTheWay

LEMMA EndFrame ==
  EndInv
  /\ UNCHANGED <<pc, runningEvents, pausedEvents, pendingLinks, wholeContent,
                 ending, keptOpen>>
    => EndInv'
BY DEF EndInv, NothingLeft, OnTheWay, AllDone

(* A transition that ends closes whatever is open.                         *)
LEMMA EndingCloses ==
  ASSUME CompositionTypeOK, NEW t \in Ends, ChangeWhole(t)
  PROVE  wholeContent' = "sleeping"
<1>1. wholeContent # "sleeping" => Accepts(wholeContent, t)
  BY Accepted DEF CompositionTypeOK, Ends
<1>2. Settled(NewState(t)) = "sleeping"
  BY NewStates DEF Ends, Settled
<1> QED
  BY <1>1, <1>2 DEF ChangeWhole

(* Transitions that do not end the composition keep it presented or not.   *)
LEMMA ChangeStays ==
  ASSUME NEW t \in {"pauses", "resumes"}, ChangeWhole(t)
  PROVE  wholeContent' = "sleeping" <=> wholeContent = "sleeping"
<1>1. Settled(NewState(t)) # "sleeping"
  BY NewStates DEF Settled
<1>2. Accepts(wholeContent, t) => wholeContent # "sleeping"
  BY Accepted
<1> QED
  BY <1>1, <1>2 DEF ChangeWhole

(* A step of one thread that was, and is, not on the way.                  *)
LEMMA EndElsewhere ==
  ASSUME EndInv, NEW m \in Media,
         pc[m] \notin {"parents", "starts", "insert", "test"} \cup Ends,
         \A x \in Media \ {m} : pc'[x] = pc[x],
         wholeContent' # "sleeping" => wholeContent # "sleeping",
         UNCHANGED <<runningEvents, pausedEvents, pendingLinks, ending, keptOpen>>
  PROVE  EndInv'
BY DEF EndInv, NothingLeft, OnTheWay, AllDone

(* A command starts from idle, which is not on the way.                    *)
LEMMA EndEffect ==
  ASSUME TypeOK, EndInv, NEW m \in Media, pc[m] = "idle", Effect(m),
         UNCHANGED <<childVars, pendingLinks, wholeContent, ending, keptOpen>>
  PROVE  EndInv'
BY EndElsewhere DEF Effect, SameEvent, childVars, Ends

LEMMA EndListeners ==
  ASSUME TypeOK, TrackInv, EndInv, NEW m \in Media, Listener(m)
  PROVE  EndInv'
<1>1. ChangeTypeOK /\ CompositionTypeOK /\ Tracked(m)
  BY DEF TypeOK, TrackInv
<1>2. \A s : GoTo(m, s) =>
        pc'[m] = s /\ \A x \in Media \ {m} : pc'[x] = pc[x]
  BY <1>1 DEF GoTo, ChangeTypeOK
<1>3. ASSUME NEW l \in Links, EvaluationStarted(m, l) \/ EvaluationFails(m, l)
      PROVE  EndInv'
  <2>1. pendingLinks'[l] # 0
    BY <1>1, <1>3 DEF EvaluationStarted, EvaluationFails, Counted,
       CompositionTypeOK
  <2> QED
    BY <2>1 DEF EndInv, NothingLeft, AllDone
<1>4. CASE EvaluationEnded(m)
  <2> DEFINE l == evaluated[m]
             pending == [pendingLinks EXCEPT ![l] = @ - 1]
  <2>1. pendingLinks' = pending /\ UNCHANGED <<runningEvents, pausedEvents>>
    BY <1>4 DEF EvaluationEnded, childVars
  <2>2. CASE IdleAfterReport(pending, l)
    <3>1. pc'[m] = lastTransition
      BY <1>2, <1>4, <2>2 DEF EvaluationEnded
    <3>2. pc'[m] \in Ends
      BY <1>1, <3>1 DEF CompositionTypeOK
    <3> QED
      BY <3>2 DEF EndInv, OnTheWay
  <2>3. CASE ~IdleAfterReport(pending, l)
    <3>1. l \in Links \cup {NoLink} /\ l # NoLink
      BY <1>1, <1>4 DEF EvaluationEnded, Tracked, ChangeTypeOK
    <3>2. ~NothingLeft'
      BY <2>1, <2>3, <3>1 DEF IdleAfterReport, NothingLeft, AllDone
    <3> QED
      BY <3>2 DEF EndInv
  <2> QED
    BY <2>2, <2>3
<1>5. CASE \/ ObjectStarts(m) \/ SetParents(m) \/ StartWhole(m)
           \/ ObjectStops(m)
  <2>1. pc'[m] \in {"parents", "starts", "insert", "test"}
    BY <1>2, <1>5 DEF ObjectStarts, Opening, SetParents, StartWhole, ObjectStops
  <2> QED
    BY <2>1 DEF EndInv, OnTheWay
<1>6. CASE InsertRunning(m) \/ ObjectResumes(m)
  BY <1>6 DEF InsertRunning, ObjectResumes, EndInv, NothingLeft, AllDone
<1>7. CASE ObjectPauses(m)
  BY <1>7 DEF ObjectPauses, EndInv, NothingLeft, AllDone
<1>8. CASE \/ ObjectRepeats(m) \/ PauseWhole(m) \/ UnsetParents(m)
           \/ Repeat(m) \/ Return(m)
  <2>1. pc[m] \notin {"parents", "starts", "insert", "test"} \cup Ends
    BY <1>8 DEF ObjectRepeats, CallsObject, PauseWhole, UnsetParents, Repeat,
       Return, Ends
  <2>2. \A x \in Media \ {m} : pc'[x] = pc[x]
    BY <1>1, <1>2, <1>8 DEF ObjectRepeats, PauseWhole, UnsetParents, Repeat,
       Return, ChangeState, ChangeTypeOK
  <2>3. wholeContent' = "sleeping" <=> wholeContent = "sleeping"
    BY <1>8, ChangeStays DEF ObjectRepeats, PauseWhole, UnsetParents, Repeat,
       Return, wholeVars
  <2>4. UNCHANGED <<runningEvents, pausedEvents, pendingLinks, ending, keptOpen>>
    BY <1>8 DEF ObjectRepeats, PauseWhole, UnsetParents, Repeat, Return,
       otherVars, childVars, historyVars
  <2> QED
    BY <2>1, <2>2, <2>3, <2>4, EndElsewhere
<1>9. CASE TestAllDone(m)
  <2>1. UNCHANGED <<runningEvents, pausedEvents, pendingLinks>>
    BY <1>9 DEF TestAllDone, otherVars, childVars
  <2>2. CASE NothingLeft
    <3>1. pc'[m] = trans[m]
      BY <1>2, <1>9, <2>2 DEF TestAllDone, NothingLeft
    <3>2. pc'[m] \in Ends
      BY <1>1, <1>9, <3>1 DEF TestAllDone, Tracked, Finishing
    <3> QED
      BY <3>2 DEF EndInv, OnTheWay
  <2>3. CASE ~NothingLeft
    BY <2>1, <2>3 DEF EndInv, NothingLeft, AllDone
  <2> QED
    BY <2>2, <2>3
<1>10. CASE EndWhole(m)
  BY <1>1, <1>10, EndingCloses DEF EndWhole, EndInv
<1> QED
  BY <1>3, <1>4, <1>5, <1>6, <1>7, <1>8, <1>9, <1>10 DEF Listener

(* The last report finds the composition idle and ends it, or keeps it.    *)
LEMMA EndReport ==
  ASSUME TypeOK, EndInv, NEW l \in Links, LinkEvaluationFinished(l)
  PROVE  EndInv'
<1>1. CompositionTypeOK
  BY DEF TypeOK
<1> DEFINE pending == [pendingLinks EXCEPT ![l] = @ - 1]
           idle    == IdleAfterReport(pending, l)
<1>2. pendingLinks' = pending /\ UNCHANGED <<childVars, pc, wholeContent>>
  BY DEF LinkEvaluationFinished, changeVars, wholeVars
<1>3. CASE ~idle
  <2>1. ~NothingLeft'
    BY <1>2, <1>3 DEF IdleAfterReport, NothingLeft, AllDone, childVars
  <2> QED
    BY <2>1 DEF EndInv
<1>4. CASE idle /\ ActionType[l] = "start"
  <2>1. keptOpen' = (keptOpen \/ (idle /\ ActionType[l] = "start"
                                    /\ wholeContent # "sleeping"))
    BY DEF LinkEvaluationFinished
  <2>2. wholeContent' # "sleeping" => keptOpen'
    BY <1>2, <1>4, <2>1, Zenon
  <2> QED
    BY <2>2 DEF EndInv, OnTheWay
<1>5. CASE idle /\ ActionType[l] # "start"
  <2>1. ending' = [ending EXCEPT ![lastTransition] = @ + 1]
    BY <1>5 DEF LinkEvaluationFinished
  <2>2. ending'["stops"] > 0 \/ ending'["aborts"] > 0
    BY <1>1, <2>1 DEF CompositionTypeOK, EndSteps, Ends
  <2> QED
    BY <2>2 DEF EndInv, OnTheWay
<1> QED
  BY <1>3, <1>4, <1>5

LEMMA EndStep == TypeOK /\ TrackInv /\ EndInv /\ [Next]_vars => EndInv'
<1> SUFFICES ASSUME TypeOK, TrackInv, EndInv, [Next]_vars PROVE EndInv'
  OBVIOUS
<1>1. ASSUME NEW m \in Media, NEW c \in Commands, Command(m, c)
      PROVE  EndInv'
  <2>1. numPresentations[m] \in Nat \ {0}
    BY DEF TypeOK, MediaTypeOK
  <2>2. UNCHANGED <<childVars, pendingLinks, wholeContent, ending, keptOpen>>
    BY <1>1 DEF Command, wholeVars, historyVars
  <2> QED
    BY <1>1, <2>1, <2>2, PerformEffect, EndEffect DEF Command
<1>2. ASSUME NEW m \in Media, NaturalEnd(m)
      PROVE  EndInv'
  BY <1>2, AdapterStopEffect, EndEffect DEF NaturalEnd, wholeVars, historyVars
<1>3. CASE \E m \in Media : Listener(m)
  BY <1>3, EndListeners
<1>4. ASSUME NEW l \in Links, RunAction(l)
      PROVE  EndInv'
  <2> DEFINE m == ActionTarget[l]
             n == IF l \in RepeatLinks THEN RepeatCount + 1
                                       ELSE numPresentations[m]
  <2>1. m \in Media /\ ActionType[l] \in Commands /\ n \in Nat \ {0}
    BY CompositeAssumption DEF TypeOK, MediaTypeOK
  <2>2. /\ Perform(m, ActionType[l], n) /\ pc[m] = "idle"
        /\ UNCHANGED <<childVars, pendingLinks, wholeContent, ending, keptOpen>>
    BY <1>4 DEF RunAction, wholeVars, historyVars
  <2> QED
    BY <2>1, <2>2, PerformEffect, EndEffect
<1>5. ASSUME NEW l \in Links, TakeEventMutex(l)
      PROVE  EndInv'
  BY <1>5, EndFrame DEF TakeEventMutex, changeVars, childVars, wholeVars,
     historyVars
<1>6. ASSUME NEW l \in Links, LinkEvaluationFinished(l)
      PROVE  EndInv'
  BY <1>6, EndReport
<1>7. ASSUME NEW t \in Ends, EndByLink(t)
      PROVE  EndInv'
  BY <1>7, EndingCloses DEF EndByLink, EndInv, TypeOK
<1>8. CASE UnsetByLink
  <2>1. ending'["stops"] = ending["stops"] /\ ending'["aborts"] = ending["aborts"]
    BY <1>8 DEF UnsetByLink, TypeOK, CompositionTypeOK, EndSteps, Ends
  <2> QED
    BY <1>8, <2>1 DEF UnsetByLink, EndInv, NothingLeft, OnTheWay, AllDone,
       changeVars, childVars
<1>9. CASE UNCHANGED vars
  BY <1>9, EndFrame DEF vars, changeVars, childVars, wholeVars, historyVars
<1> QED
  BY <1>1, <1>2, <1>3, <1>4, <1>5, <1>6, <1>7, <1>8, <1>9
     DEF Next, LinkThread, EndingThread, Ends

THEOREM EndInvariant == Spec => []EndInv
<1>1. Init => EndInv
  BY DEF Init, EndInv
<1> QED
  BY <1>1, EndStep, TypeCorrect, TrackInvariant, PTL DEF Spec

(* A composition whose children have all ended is ended when nothing is    *)
(* going on any more, except where linkEvaluationFinished says so itself.  *)
THEOREM EndIsNotLost == Spec => []EndNotLost
<1>1. TypeOK /\ EndInv => EndNotLost
  BY DEF EndInv, NothingLeft, OnTheWay, AllDone, EndNotLost, Quiet, EndSteps,
     Ends, TypeOK, ChangeTypeOK, Transitions
<1> QED
  BY <1>1, EndInvariant, TypeCorrect, PTL
=============================================================================
