---------------------- MODULE CompositeExecutionObject ----------------------
(***************************************************************************)
(* One composition of an NCL document while it is presented: the media     *)
(* objects it contains, the causal links declared in it, and the           *)
(* composition's own presentation event (wholeContent).                    *)
(*                                                                         *)
(* A media event changes state in whatever thread asked for it.  That      *)
(* thread then calls the listeners of the event one after the other: the   *)
(* links first, the composition last (FormatterEvent::changeState).  A     *)
(* satisfied link starts a thread of its own for its action.  So between   *)
(* two listeners of one change, any other thread may run.  The             *)
(* composition decides from what it has been told (runningEvents,          *)
(* pausedEvents, pendingLinks) when its own event starts and ends, and     *)
(* tells its parent composition.                                           *)
(*                                                                         *)
(* Granularity: one step is one listener call, or one part of it where     *)
(* another thread matters: every call on wholeContent, on the parents and  *)
(* on pendingLinks, and the test before it, is a step of its own.  A set   *)
(* insertion or removal is never torn, and the test of the three           *)
(* collections is one step.                                                *)
(* One command at a time is in progress on one media object, as the object *)
(* lock of its player adapter intends.                                     *)
(***************************************************************************)
EXTENDS FormatterEvent, FiniteSets

CONSTANTS
  Media,         \* child execution objects, each with its main event
  Links,         \* causal links of the composition
  NoLink,        \* _eventMutex is free
  TriggerEvent,  \* [Links -> Media]        the condition's event ...
  TriggerTrans,  \* [Links -> Transitions]  ... and transition
  ActionType,    \* [Links -> Commands]     the simple action ...
  ActionTarget,  \* [Links -> Media]        ... and its event
  Guarded,       \* links whose condition also has an assessment statement
  RepeatLinks,   \* links whose action is a LinkRepeatAction
  RepeatCount,   \* the repetitions such an action asks for
  MaxCommands    \* bound on the commands that come from outside the links

ASSUME CompositeAssumption ==
  /\ NoLink \notin Links
  /\ TriggerEvent \in [Links -> Media]
  /\ TriggerTrans \in [Links -> Transitions]
  /\ ActionType \in [Links -> Commands]
  /\ ActionTarget \in [Links -> Media]
  /\ Guarded \subseteq Links
  /\ RepeatLinks \subseteq Links
  /\ RepeatCount \in Nat
  /\ MaxCommands \in Nat

VARIABLES
  \* Per media object: the main event and the adapter
  currentState,      \* FormatterEvent::currentState
  numPresentations,  \* PresentationEvent::numPresentations
  pauseCount,        \* ExecutionObject::pauseCount
  player,            \* status of the IPlayer behind the adapter
  presented,         \* Player::presented: its content has ended once
  \* Per media object: the change whose listeners are being called
  pc, trans, previous, linksToCall, repeating,
  evaluated,         \* the link whose condition is being found false
  \* The composition
  runningEvents, pausedEvents, pendingLinks, lastTransition,
  wholeContent,      \* state of the composition's own event
  parentListens,     \* the parent is registered on wholeContent
  parentView,        \* what wholeContent last told the parent
  \* Threads
  toRun,             \* link action threads that have not run their action
  toFinish,          \* those that still have to report to the composition
  eventMutex,        \* the link whose action holds _eventMutex
  acting,            \* ... and whether that action has taken effect
  ending,            \* report threads that end the composition, by step
  commands,          \* commands from outside so far
  \* History
  keptOpen,          \* a report that started nothing found it idle
  overtaken,         \* a child or a link came while a thread was to end it
  endedLate,         \* its last end overlapped a start or was overtaken
  unheard            \* the parent was unregistered after a newer start

mediaVars == <<currentState, numPresentations, pauseCount, player,
               presented>>
changeVars == <<pc, trans, previous, linksToCall, repeating, evaluated>>
childVars == <<runningEvents, pausedEvents, lastTransition>>
wholeVars == <<wholeContent, parentListens, parentView>>
threadVars == <<toRun, toFinish, eventMutex, acting>>
historyVars == <<keptOpen, overtaken, endedLate, unheard>>

vars == <<mediaVars, changeVars, childVars, pendingLinks, wholeVars,
          threadVars, ending, commands, historyVars>>

Ends == {"stops", "aborts"}

(* Where a thread is in the listeners of a change.  At a transition it is  *)
(* about to call wholeContent for it.                                      *)
Steps == {"idle", "links", "evaluate", "parents", "insert", "test", "unset",
          "return"} \cup Transitions

EndSteps == Ends \cup {"unset"}

Init ==
  /\ currentState = [m \in Media |-> "sleeping"]
  /\ numPresentations = [m \in Media |-> 1]
  /\ pauseCount = [m \in Media |-> 0]
  /\ player = [m \in Media |-> "stopped"]
  /\ presented = [m \in Media |-> FALSE]
  /\ pc = [m \in Media |-> "idle"]
  /\ trans = [m \in Media |-> "stops"]
  /\ previous = [m \in Media |-> "sleeping"]
  /\ linksToCall = [m \in Media |-> {}]
  /\ repeating = [m \in Media |-> FALSE]
  /\ evaluated = [m \in Media |-> NoLink]
  /\ runningEvents = {}
  /\ pausedEvents = {}
  /\ pendingLinks = [l \in Links |-> 0]
  /\ lastTransition \in Ends  \* the constructor leaves it unset
  /\ wholeContent = "sleeping"
  /\ parentListens = FALSE
  /\ parentView = "sleeping"
  /\ toRun = [l \in Links |-> 0]
  /\ toFinish = [l \in Links |-> 0]
  /\ eventMutex = NoLink
  /\ acting = FALSE
  /\ ending = [s \in EndSteps |-> 0]
  /\ commands = 0
  /\ keptOpen = FALSE
  /\ overtaken = FALSE
  /\ endedLate = FALSE
  /\ unheard = FALSE
-----------------------------------------------------------------------------
(* Commands on a media object, as its player adapter performs them         *)

(* FormatterEvent::changeState, up to the first listener.                  *)
ChangeState(m, t) ==
  /\ currentState' = [currentState EXCEPT ![m] = NewState(t)]
  /\ pc' = [pc EXCEPT ![m] = "links"]
  /\ trans' = [trans EXCEPT ![m] = t]
  /\ previous' = [previous EXCEPT ![m] = currentState[m]]
  /\ linksToCall' = [linksToCall EXCEPT ![m] =
       {l \in Links : TriggerEvent[l] = m /\ TriggerTrans[l] = t}]

(* FormatterScheduler::runAction with ACT_START.  A sleeping object gets a *)
(* new player (FormatterPlayerAdapter::prepare) and starts.  An object     *)
(* that is not sleeping refuses (FormatterPlayerAdapter::start): its       *)
(* player has been played again by then, and is stopped.                   *)
AdapterStart(m, presentations) ==
  /\ numPresentations' = [numPresentations EXCEPT ![m] = presentations]
  /\ IF Accepts(currentState[m], "starts")
       THEN /\ ChangeState(m, "starts")
            /\ player' = [player EXCEPT ![m] = "playing"]
            /\ presented' = [presented EXCEPT ![m] = FALSE]
       ELSE /\ player' = [player EXCEPT ![m] = "stopped"]
            /\ UNCHANGED <<presented, currentState, pc, trans, previous,
                           linksToCall>>
  /\ UNCHANGED <<pauseCount, repeating, evaluated>>

(* The busy wait of FormatterPlayerAdapter::prepare: a player that has     *)
(* presented its content is not taken as prepared, and its object stays    *)
(* locked until it is unprepared.                                          *)
MustWait(m, command) ==
  command = "start" /\ presented[m] /\ currentState[m] # "sleeping"

(* FormatterPlayerAdapter::checkRepeat *)
ChecksRepeat(presentations) == Repetitions(presentations) > 1

(* FormatterPlayerAdapter::stop, with checkRepeat: with more than one      *)
(* repetition left the object is stopped and started again.                *)
AdapterStop(m) ==
  IF Accepts(currentState[m], "stops")
    THEN /\ ChangeState(m, "stops")
         /\ numPresentations' = [numPresentations EXCEPT
              ![m] = AfterStop(currentState[m], @)]
         /\ repeating' = [repeating EXCEPT
              ![m] = ChecksRepeat(numPresentations[m])]
         /\ pauseCount' = [pauseCount EXCEPT ![m] = 0]
         /\ player' = [player EXCEPT ![m] = "stopped"]
         /\ UNCHANGED evaluated
    ELSE UNCHANGED <<currentState, numPresentations, pauseCount, player,
                     changeVars>>

(* FormatterPlayerAdapter::abort *)
AdapterAbort(m) ==
  IF Accepts(currentState[m], "aborts")
    THEN /\ ChangeState(m, "aborts")
         /\ pauseCount' = [pauseCount EXCEPT ![m] = 0]
         /\ player' = [player EXCEPT ![m] = "stopped"]
         /\ UNCHANGED <<numPresentations, repeating, evaluated>>
    ELSE UNCHANGED <<currentState, numPresentations, pauseCount, player,
                     changeVars>>

(* FormatterPlayerAdapter::pause and ExecutionObject::pause: only the      *)
(* first of several pauses reaches the event.                              *)
AdapterPause(m) ==
  /\ IF currentState[m] = "sleeping"
       THEN UNCHANGED <<pauseCount, player>>
       ELSE /\ pauseCount' = [pauseCount EXCEPT ![m] = @ + 1]
            /\ player' = [player EXCEPT ![m] = "paused"]
  /\ IF pauseCount[m] = 0 /\ Accepts(currentState[m], "pauses")
       THEN ChangeState(m, "pauses")
       ELSE UNCHANGED <<currentState, pc, trans, previous, linksToCall>>
  /\ UNCHANGED <<numPresentations, repeating, evaluated>>

(* FormatterPlayerAdapter::resume and ExecutionObject::resume: only the    *)
(* last of several resumes reaches the event.                              *)
AdapterResume(m) ==
  /\ pauseCount' = [pauseCount EXCEPT ![m] = IF @ = 0 THEN 0 ELSE @ - 1]
  /\ player' = [player EXCEPT ![m] = IF pauseCount[m] = 1 THEN "playing"
                                                         ELSE @]
  /\ IF pauseCount[m] = 1 /\ Accepts(currentState[m], "resumes")
       THEN ChangeState(m, "resumes")
       ELSE UNCHANGED <<currentState, pc, trans, previous, linksToCall>>
  /\ UNCHANGED <<numPresentations, repeating, evaluated>>

(* FormatterScheduler::runAction(event, action) on a media object          *)
Perform(m, command, presentations) ==
  \/ command = "start"  /\ AdapterStart(m, presentations)
  \/ /\ \/ command = "stop"   /\ AdapterStop(m)
        \/ command = "abort"  /\ AdapterAbort(m)
        \/ command = "pause"  /\ AdapterPause(m)
        \/ command = "resume" /\ AdapterResume(m)
     /\ UNCHANGED presented
-----------------------------------------------------------------------------
(* Where changes come from                                                 *)

(* FormatterScheduler::startEvent, stopEvent, pauseEvent, resumeEvent, and *)
(* actions of the links of other compositions.                             *)
Command(m, command) ==
  /\ pc[m] = "idle"
  /\ ~MustWait(m, command)
  /\ commands < MaxCommands
  /\ commands' = commands + 1
  /\ Perform(m, command, numPresentations[m])
  /\ UNCHANGED <<childVars, pendingLinks, wholeVars, threadVars, ending,
                 historyVars>>

(* The player reports the end of its content, in its own thread and        *)
(* without _eventMutex: Player::notifyListeners, updateStatus, naturalEnd. *)
NaturalEnd(m) ==
  /\ pc[m] = "idle"
  /\ player[m] = "playing"
  /\ presented' = [presented EXCEPT ![m] = TRUE]
  /\ AdapterStop(m)
  /\ UNCHANGED <<childVars, pendingLinks, wholeVars, threadVars, ending,
                 commands, historyVars>>

(* LinkSimpleAction::run in a thread of its own: the action takes          *)
(* _eventMutex for the whole of runAction, listeners included.             *)
TakeEventMutex(l) ==
  /\ toRun[l] > 0
  /\ eventMutex = NoLink
  /\ toRun' = [toRun EXCEPT ![l] = @ - 1]
  /\ eventMutex' = l
  /\ UNCHANGED <<mediaVars, changeVars, childVars, pendingLinks, wholeVars,
                 toFinish, acting, ending, commands, historyVars>>

(* ... and acts on its event.  A LinkRepeatAction sets the repetitions     *)
(* first.  An action without effect returns at once.                       *)
RunAction(l) ==
  LET m == ActionTarget[l] IN
  /\ eventMutex = l
  /\ ~acting
  /\ pc[m] = "idle"
  /\ ~MustWait(m, ActionType[l])
  /\ Perform(m, ActionType[l], IF l \in RepeatLinks THEN RepeatCount + 1
                                                  ELSE numPresentations[m])
  /\ IF pc'[m] = "idle"
       THEN /\ eventMutex' = NoLink
            /\ toFinish' = [toFinish EXCEPT ![l] = @ + 1]
            /\ UNCHANGED acting
       ELSE /\ acting' = TRUE
            /\ UNCHANGED <<eventMutex, toFinish>>
  /\ UNCHANGED <<childVars, pendingLinks, wholeVars, toRun, ending, commands,
                 historyVars>>
-----------------------------------------------------------------------------
(* The listeners of a change: first the links ...                          *)

(* Fault models of AllDone: paused children, or pending links, forgotten.  *)
AllDoneRunningOnly(running, paused, pending) ==
  running = {} /\ \A l \in Links : pending[l] = 0

AllDoneChildrenOnly(running, paused, pending) ==
  running = {} /\ paused = {}

(* The test all handlers make before they end the composition.             *)
AllDone(running, paused, pending) ==
  running = {} /\ paused = {} /\ \A l \in Links : pending[l] = 0

(* A transition of wholeContent, and its notification to the parent when   *)
(* the parent is registered.                                               *)
ChangeWhole(t) ==
  IF Accepts(wholeContent, t)
    THEN /\ wholeContent' = Settled(NewState(t))
         /\ parentView' = IF parentListens THEN wholeContent' ELSE parentView
    ELSE UNCHANGED <<wholeContent, parentView>>

(* History: some thread is about to end the composition, ...               *)
AboutToEnd ==
  \/ \E m \in Media : pc[m] \in Ends \cup {"test"}
  \/ \E t \in Ends : ending[t] > 0

(* ... some child is on its way into it, ...                               *)
Joining == \E m \in Media : pc[m] \in {"parents", "starts", "insert"}

(* ... and what is remembered of the steps of the former and the latter.   *)
NoteArrival == overtaken' = (overtaken \/ AboutToEnd)

NoteEnd ==
  /\ overtaken' = (overtaken /\ AboutToEnd')
  /\ endedLate' = IF wholeContent = "sleeping" THEN endedLate
                                               ELSE overtaken \/ Joining

NoteUnset ==
  unheard' = (unheard \/ wholeContent # "sleeping"
                      \/ \E m \in Media : pc[m] = "starts")

NoteStart ==
  /\ endedLate' = (endedLate /\ wholeContent # "sleeping")
  /\ unheard' = (unheard /\ (wholeContent # "sleeping" \/ ~parentListens))

GoTo(m, step) == pc' = [pc EXCEPT ![m] = step]

(* Fault model of Counted: a second evaluation of a link is not counted.   *)
CountedOnce(pending, l) == [pending EXCEPT ![l] = 1]

(* The bookkeeping of CompositeExecutionObject::linkEvaluationStarted.     *)
Counted(pending, l) == [pending EXCEPT ![l] = @ + 1]

CallsLink(m, l) ==
  /\ pc[m] = "links"
  /\ l \in linksToCall[m]
  /\ linksToCall' = [linksToCall EXCEPT ![m] = @ \ {l}]

(* LinkTransitionTriggerCondition::eventStateChanged of a satisfied        *)
(* condition: the composition counts the evaluation (linkEvaluationStarted)*)
(* and the link's action is started in a thread of its own.                *)
EvaluationStarted(m, l) ==
  /\ CallsLink(m, l)
  /\ pendingLinks' = Counted(pendingLinks, l)
  /\ toRun' = [toRun EXCEPT ![l] = @ + 1]
  /\ NoteArrival
  /\ UNCHANGED <<mediaVars, pc, trans, previous, repeating, evaluated,
                 childVars, wholeVars, toFinish, eventMutex, acting, ending,
                 commands, keptOpen, endedLate, unheard>>

(* LinkAndCompoundTriggerCondition::conditionSatisfied when a statement is *)
(* false: the evaluation is counted all the same ...                       *)
EvaluationFails(m, l) ==
  /\ CallsLink(m, l)
  /\ pendingLinks' = Counted(pendingLinks, l)
  /\ evaluated' = [evaluated EXCEPT ![m] = l]
  /\ GoTo(m, "evaluate")
  /\ NoteArrival
  /\ UNCHANGED <<mediaVars, trans, previous, repeating, childVars, wholeVars,
                 threadVars, ending, commands, keptOpen, endedLate, unheard>>

Evaluates(m, l) == pc[m] = "evaluate" /\ evaluated[m] = l

(* Fault model of IdleAfterReport: a report never ends the composition.    *)
NotIdleAfterReport(pending, l) == FALSE

(* The last evaluation of a link has been reported and nothing else holds  *)
(* the composition.                                                        *)
IdleAfterReport(pending, l) ==
  pending[l] = 0 /\ AllDone(runningEvents, pausedEvents, pending)

(* ... and ends in the same thread (linkEvaluationFinished(false)), which  *)
(* then ends the composition when nothing else holds it.                   *)
EvaluationEnded(m) ==
  LET l       == evaluated[m]
      pending == [pendingLinks EXCEPT ![l] = @ - 1]
  IN
  /\ pc[m] = "evaluate"
  /\ pendingLinks' = pending
  /\ IF IdleAfterReport(pending, l)
       THEN GoTo(m, lastTransition) /\ UNCHANGED evaluated
       ELSE GoTo(m, "links") /\ evaluated' = [evaluated EXCEPT ![m] = NoLink]
  /\ UNCHANGED <<mediaVars, trans, previous, linksToCall, repeating, childVars,
                 wholeVars, threadVars, ending, commands, historyVars>>
-----------------------------------------------------------------------------
(* ... then the composition: CompositeExecutionObject::eventStateChanged   *)

CallsObject(m, transitions) ==
  pc[m] = "links" /\ linksToCall[m] = {} /\ trans[m] \in transitions

otherVars == <<mediaVars, trans, previous, linksToCall, repeating, evaluated,
               pendingLinks, threadVars, ending, commands, keptOpen>>

(* Fault model of Opening: the parents are not registered.                 *)
UnregisteredOpening == "starts"

(* The parents are registered before wholeContent starts.                  *)
Opening == "parents"

(* Fault model of LastPresentation: off by one.                            *)
LastButOnePresentation(m) == Repetitions(numPresentations[m]) = 1

LastPresentation(m) == Repetitions(numPresentations[m]) = 0

(* TR_STARTS: the first child starts the composition ...                   *)
ObjectStarts(m) ==
  /\ CallsObject(m, {"starts"})
  /\ GoTo(m, IF runningEvents = {} /\ pausedEvents = {} THEN Opening
                                                        ELSE "insert")
  /\ UNCHANGED <<otherVars, childVars, wholeVars, overtaken, endedLate, unheard>>

SetParents(m) ==
  /\ pc[m] = "parents"
  /\ GoTo(m, "starts")
  /\ parentListens' = TRUE
  /\ UNCHANGED <<otherVars, childVars, wholeContent, parentView, overtaken,
                 endedLate, unheard>>

StartWhole(m) ==
  /\ pc[m] = "starts"
  /\ GoTo(m, "insert")
  /\ ChangeWhole("starts")
  /\ NoteStart
  /\ UNCHANGED <<otherVars, childVars, parentListens, overtaken>>

(* ... and every child that starts joins it.                               *)
InsertRunning(m) ==
  /\ pc[m] = "insert"
  /\ GoTo(m, "return")
  /\ runningEvents' = runningEvents \cup {m}
  /\ keptOpen' = FALSE
  /\ NoteArrival
  /\ UNCHANGED <<mediaVars, trans, previous, linksToCall, repeating, evaluated,
                 pendingLinks, threadVars, ending, commands, pausedEvents,
                 lastTransition, wholeVars, endedLate, unheard>>

(* TR_STOPS of an event with repetitions left changes nothing.             *)
ObjectRepeats(m) ==
  /\ CallsObject(m, {"stops"})
  /\ ~LastPresentation(m)
  /\ GoTo(m, "return")
  /\ UNCHANGED <<otherVars, childVars, wholeVars, overtaken, endedLate, unheard>>

(* TR_STOPS of the last presentation, TR_ABORTS.                           *)
ObjectStops(m) ==
  /\ CallsObject(m, Ends)
  /\ trans[m] = "stops" => LastPresentation(m)
  /\ GoTo(m, "test")
  /\ lastTransition' = trans[m]
  /\ runningEvents' = IF previous[m] = "occurring" THEN runningEvents \ {m}
                                                   ELSE runningEvents
  /\ pausedEvents' = IF previous[m] = "paused" THEN pausedEvents \ {m}
                                               ELSE pausedEvents
  /\ UNCHANGED <<otherVars, wholeVars, overtaken, endedLate, unheard>>

TestAllDone(m) ==
  /\ pc[m] = "test"
  /\ GoTo(m, IF AllDone(runningEvents, pausedEvents, pendingLinks)
               THEN trans[m] ELSE "return")
  /\ UNCHANGED <<otherVars, childVars, wholeVars, endedLate, unheard>>
  /\ overtaken' = (overtaken /\ AboutToEnd')

(* The end of the composition, decided in eventStateChanged or in          *)
(* linkEvaluationFinished: the stop or abort first, the parents after it.  *)
EndWhole(m) ==
  /\ pc[m] \in Ends
  /\ GoTo(m, "unset")
  /\ ChangeWhole(pc[m])
  /\ UNCHANGED <<otherVars, childVars, parentListens, unheard>>
  /\ NoteEnd

UnsetParents(m) ==
  /\ pc[m] = "unset"
  /\ GoTo(m, IF evaluated[m] = NoLink THEN "return" ELSE "links")
  /\ evaluated' = [evaluated EXCEPT ![m] = NoLink]
  /\ parentListens' = FALSE
  /\ NoteUnset
  /\ UNCHANGED <<mediaVars, trans, previous, linksToCall, repeating, childVars,
                 pendingLinks, wholeContent, parentView, threadVars, ending,
                 commands, keptOpen, overtaken, endedLate>>

(* TR_PAUSES: the composition pauses with its last running child.          *)
ObjectPauses(m) ==
  /\ CallsObject(m, {"pauses"})
  /\ runningEvents' = runningEvents \ {m}
  /\ pausedEvents' = pausedEvents \cup {m}
  /\ GoTo(m, IF runningEvents' = {} THEN "pauses" ELSE "return")
  /\ UNCHANGED <<otherVars, lastTransition, wholeVars, overtaken, endedLate,
                 unheard>>

(* TR_RESUMES: the composition resumes when this child runs alone.         *)
ObjectResumes(m) ==
  /\ CallsObject(m, {"resumes"})
  /\ pausedEvents' = pausedEvents \ {m}
  /\ runningEvents' = runningEvents \cup {m}
  /\ GoTo(m, IF runningEvents' = {m} THEN "resumes" ELSE "return")
  /\ UNCHANGED <<otherVars, lastTransition, wholeVars, overtaken, endedLate,
                 unheard>>

PauseWhole(m) ==
  /\ pc[m] \in {"pauses", "resumes"}
  /\ GoTo(m, "return")
  /\ ChangeWhole(pc[m])
  /\ UNCHANGED <<otherVars, childVars, parentListens, overtaken, endedLate,
                 unheard>>
-----------------------------------------------------------------------------
(* The end of a command                                                    *)

(* All listeners have returned.  FormatterPlayerAdapter::checkRepeat then  *)
(* starts the object again, in the player it has.                          *)
Repeat(m) ==
  /\ pc[m] = "return"
  /\ repeating[m]
  /\ ChangeState(m, "starts")
  /\ player' = [player EXCEPT ![m] = "playing"]
  /\ repeating' = [repeating EXCEPT ![m] = FALSE]
  /\ UNCHANGED <<numPresentations, pauseCount, presented, evaluated, childVars,
                 pendingLinks, wholeVars, threadVars, ending, commands,
                 historyVars>>

(* Fault model of HoldsEventMutex: only start actions are recognised.      *)
StartHoldsEventMutex(m) ==
  acting /\ ActionTarget[eventMutex] = m /\ trans[m] = "starts"

(* The command in progress on m is the action that holds _eventMutex.      *)
HoldsEventMutex(m) == acting /\ ActionTarget[eventMutex] = m

(* Otherwise the command is over, and the locals of changeState with it; if*)
(* it was a link's action, the action thread gives _eventMutex back.       *)
Return(m) ==
  /\ pc[m] = "return"
  /\ ~repeating[m]
  /\ GoTo(m, "idle")
  /\ trans' = [trans EXCEPT ![m] = "stops"]
  /\ previous' = [previous EXCEPT ![m] = "sleeping"]
  /\ currentState' = [currentState EXCEPT ![m] = Settled(@)]
  /\ IF HoldsEventMutex(m)
       THEN /\ acting' = FALSE
            /\ eventMutex' = NoLink
            /\ toFinish' = [toFinish EXCEPT ![eventMutex] = @ + 1]
       ELSE UNCHANGED <<acting, eventMutex, toFinish>>
  /\ UNCHANGED <<numPresentations, pauseCount, player, presented, linksToCall,
                 repeating, evaluated, childVars, pendingLinks, wholeVars,
                 toRun, ending, commands, historyVars>>

(* LinkSimpleAction::run reports to the link and the link to the           *)
(* composition: linkEvaluationFinished.  A start action never ends it.     *)
LinkEvaluationFinished(l) ==
  LET pending == [pendingLinks EXCEPT ![l] = @ - 1]
      idle    == IdleAfterReport(pending, l)
      start   == ActionType[l] = "start"
  IN
  /\ toFinish[l] > 0
  /\ toFinish' = [toFinish EXCEPT ![l] = @ - 1]
  /\ pendingLinks' = pending
  /\ IF idle /\ ~start
       THEN ending' = [ending EXCEPT ![lastTransition] = @ + 1]
       ELSE UNCHANGED ending
  /\ keptOpen' = (keptOpen \/ (idle /\ start /\ wholeContent # "sleeping"))
  /\ UNCHANGED <<mediaVars, changeVars, childVars, wholeVars, toRun,
                 eventMutex, acting, commands, overtaken, endedLate, unheard>>

EndByLink(t) ==
  /\ ending[t] > 0
  /\ ending' = [ending EXCEPT ![t] = @ - 1, !["unset"] = @ + 1]
  /\ ChangeWhole(t)
  /\ UNCHANGED <<mediaVars, changeVars, childVars, pendingLinks,
                 parentListens, threadVars, commands, keptOpen, unheard>>
  /\ NoteEnd

UnsetByLink ==
  /\ ending["unset"] > 0
  /\ parentListens' = FALSE
  /\ ending' = [ending EXCEPT !["unset"] = @ - 1]
  /\ NoteUnset
  /\ UNCHANGED <<mediaVars, changeVars, childVars, pendingLinks,
                 wholeContent, parentView, threadVars, commands, keptOpen,
                 overtaken, endedLate>>
-----------------------------------------------------------------------------
(* The threads that are inside the presenter once it has been called.      *)
Listener(m) ==
  \/ \E l \in Links : EvaluationStarted(m, l) \/ EvaluationFails(m, l)
  \/ EvaluationEnded(m)
  \/ ObjectStarts(m) \/ SetParents(m) \/ InsertRunning(m)
  \/ ObjectRepeats(m) \/ ObjectStops(m) \/ TestAllDone(m)
  \/ ObjectPauses(m) \/ ObjectResumes(m)
  \/ StartWhole(m) \/ EndWhole(m) \/ PauseWhole(m) \/ UnsetParents(m)
  \/ Repeat(m) \/ Return(m)

LinkThread(l) ==
  TakeEventMutex(l) \/ RunAction(l) \/ LinkEvaluationFinished(l)

EndingThread == EndByLink("stops") \/ EndByLink("aborts") \/ UnsetByLink

Next ==
  \/ \E m \in Media, command \in Commands : Command(m, command)
  \/ \E m \in Media : NaturalEnd(m) \/ Listener(m)
  \/ \E l \in Links : LinkThread(l)
  \/ EndingThread

Spec == Init /\ [][Next]_vars

(* Threads that are inside the presenter keep running; contents are        *)
(* finite; nobody has to send a command.                                   *)
Fairness ==
  /\ \A m \in Media : WF_vars(Listener(m)) /\ WF_vars(NaturalEnd(m))
  /\ \A l \in Links : /\ WF_vars(TakeEventMutex(l))
                      /\ WF_vars(RunAction(l))
                      /\ WF_vars(LinkEvaluationFinished(l))
  /\ WF_vars(EndingThread)

FairSpec == Spec /\ Fairness
-----------------------------------------------------------------------------
MediaTypeOK ==
  /\ currentState \in [Media -> States]
  /\ numPresentations \in [Media -> Nat \ {0}]
  /\ pauseCount \in [Media -> Nat]
  /\ player \in [Media -> {"stopped", "playing", "paused"}]
  /\ presented \in [Media -> BOOLEAN]

ChangeTypeOK ==
  /\ pc \in [Media -> Steps]
  /\ trans \in [Media -> Transitions]
  /\ previous \in [Media -> States]
  /\ linksToCall \in [Media -> SUBSET Links]
  /\ repeating \in [Media -> BOOLEAN]
  /\ evaluated \in [Media -> Links \cup {NoLink}]

CompositionTypeOK ==
  /\ runningEvents \subseteq Media
  /\ pausedEvents \subseteq Media
  /\ pendingLinks \in [Links -> Nat]
  /\ lastTransition \in Ends
  /\ wholeContent \in {"sleeping", "occurring", "paused"}
  /\ parentListens \in BOOLEAN
  /\ parentView \in {"sleeping", "occurring", "paused"}
  /\ ending \in [EndSteps -> Nat]

HistoryTypeOK ==
  /\ keptOpen \in BOOLEAN
  /\ overtaken \in BOOLEAN
  /\ endedLate \in BOOLEAN
  /\ unheard \in BOOLEAN

ThreadTypeOK ==
  /\ toRun \in [Links -> Nat]
  /\ toFinish \in [Links -> Nat]
  /\ eventMutex \in Links \cup {NoLink}
  /\ acting \in BOOLEAN
  /\ commands \in Nat

(* Every variable has its type; a presentation count never drops to zero,  *)
(* an event is never left aborted, and no counter of threads or of pending *)
(* links is ever taken below zero.                                         *)
TypeOK ==
  /\ MediaTypeOK
  /\ ChangeTypeOK
  /\ CompositionTypeOK
  /\ ThreadTypeOK
  /\ HistoryTypeOK

(* Link bookkeeping is exact: pendingLinks counts, for each link, the      *)
(* evaluations that are under way, however often and from however many     *)
(* threads the link is triggered: those whose action thread has not        *)
(* reported yet and the one its trigger's thread is finding false.         *)
PendingExact ==
  \A l \in Links :
    pendingLinks[l] = toRun[l] + toFinish[l]
                        + (IF eventMutex = l THEN 1 ELSE 0)
                        + (IF Evaluates(TriggerEvent[l], l) THEN 1 ELSE 0)

(* The composition knows its children: once all listeners of a change have *)
(* been called, an occurring child is in runningEvents and a paused one in *)
(* pausedEvents, and no child is in runningEvents that does not occur.     *)
ChildrenTracked ==
  \A m \in Media : pc[m] = "idle" =>
    /\ m \in runningEvents <=> currentState[m] = "occurring"
    /\ currentState[m] = "paused" => m \in pausedEvents

(* No child stays behind: a sleeping child is in neither set.              *)
NoStaleChild ==
  \A m \in Media : pc[m] = "idle" /\ currentState[m] = "sleeping" =>
    m \notin runningEvents \cup pausedEvents

(* A composition with presenting children is itself presented, unless the  *)
(* last end of it overlapped the start of a child or was overtaken by one: *)
(* no other order of starts, pauses, stops and reports loses it.           *)
WholeCoversChildren ==
  runningEvents \cup pausedEvents # {} =>
    wholeContent # "sleeping" \/ endedLate

(* The parent composition is informed: it has been told every change of    *)
(* wholeContent, and is registered for the next while that is presented,   *)
(* unless a thread that ended the composition unregistered the parent      *)
(* after another had started it again.                                     *)
ParentInformed ==
  \/ unheard
  \/ /\ parentView = wholeContent
     /\ wholeContent # "sleeping" => parentListens

(* What the composition promises, whatever its inner bookkeeping: each     *)
(* thread that is about to call wholeContent is a call the contract has    *)
(* decided on.                                                             *)
Contract == INSTANCE CompositionContract WITH
  children <- Media,
  links <- Links,
  active <- runningEvents \cup pausedEvents,
  held <- {l \in Links : pendingLinks[l] > 0},
  whole <- wholeContent,
  decided <- [m \in Media |-> IF pc[m] = "parents" THEN "starts"
                              ELSE IF pc[m] \in Transitions THEN pc[m]
                              ELSE "none"],
  reported <- [t \in Ends |-> ending[t]]

(* The bookkeeping implements that contract: wholeContent changes only by  *)
(* calls decided on before, each carried out once; a start is decided on   *)
(* when no child is active, an end when no child is and no link holds the  *)
(* composition, and a pause or a resume only with a child active.          *)
ImplementsContract == Contract!Spec

(* Nothing is going on in any thread.                                      *)
Quiet ==
  /\ \A m \in Media : pc[m] = "idle"
  /\ \A l \in Links : pendingLinks[l] = 0
  /\ \A s \in EndSteps : ending[s] = 0

(* A composition whose children have all ended is ended, whatever the      *)
(* interleaving of stops and link reports, except in the one case the      *)
(* source names ("if nothing starts the composition may stay locked as     *)
(* occurring"): a start action reported to an idle composition.            *)
EndNotLost ==
  Quiet /\ runningEvents = {} /\ pausedEvents = {} =>
    wholeContent = "sleeping" \/ keptOpen

(* What is over when the composition ends: no child is presented, but for  *)
(* one whose change is still being announced, and no link evaluation is    *)
(* under way.                                                              *)
Over ==
  /\ \A m \in Media : pc[m] = "idle" => currentState[m] = "sleeping"
  /\ \A l \in Links : toRun[l] = 0 /\ toFinish[l] = 0
  /\ eventMutex = NoLink

(* The composition ends ("ALL DONE") only when everything in it is over.   *)
EndsOnlyWhenDone ==
  [][wholeContent # "sleeping" /\ wholeContent' = "sleeping" => Over]_vars

(* The races that break EndsOnlyWhenDone are all of one kind: whenever no  *)
(* child joined and no link evaluation began between the test of a thread  *)
(* and its stop or abort of wholeContent, the end is right.                *)
EndsRightUnlessOvertaken ==
  [][wholeContent # "sleeping" /\ wholeContent' = "sleeping" =>
       Over \/ overtaken]_vars

(* The parent is registered, when nothing is going on, as long as the      *)
(* composition is presented ("register parent as a composite presentation  *)
(* listener", setParentsAsListeners).                                      *)
ParentRegistered == Quiet /\ wholeContent # "sleeping" => parentListens

(* Every link evaluation is finished some time: no action waits for        *)
(* _eventMutex, or for its object, for ever.                               *)
EvaluationsFinish == \A l \in Links : pendingLinks[l] > 0 ~> pendingLinks[l] = 0
=============================================================================
