-------------------------- MODULE NominalEventMonitor --------------------------
(***************************************************************************)
(* One presentation of an object: its adapter (FormatterPlayerAdapter), a  *)
(* Player that only keeps the time, as for images and text, the object     *)
(* with its transition table, and the thread that sleeps until the next    *)
(* transition and does it (NominalEventMonitor).                           *)
(*                                                                         *)
(* The monitor and the thread that gives commands share everything and     *)
(* lock nothing: a step ends where one of them may see what the other has  *)
(* just written.  The adapter is stopped by a command, by the monitor at   *)
(* the natural end, or by both at once.                                    *)
(*                                                                         *)
(* Without repetitions, freeze, time base and abort; the events of an      *)
(* object are paused at once, and their listeners give no commands.  After *)
(* the stop the adapter is not used again.                                 *)
(***************************************************************************)
EXTENDS EventTransitionManager

CONSTANTS
  Mains,      \* events an object is started with
  NoMain,     \* no event
  Tolerance,  \* DEFAULT_ERROR
  MaxTime,    \* bound on the time
  MaxPauses   \* bound on the pauses

ASSUME MonitorAssumption ==
  /\ Mains \subseteq Events
  /\ NoMain \notin Events
  /\ Tolerance \in Nat
  /\ MaxTime \in Nat
  /\ MaxPauses \in Nat

VARIABLES
  now,      \* getCurrentTimeMillis
  object,   \* ExecutionObject: main event, states, table, index, pauseCount
  held,     \* the adapter still has its object
  player,   \* Player
  monitor,  \* NominalEventMonitor, if there is one
  pc,       \* where each thread is
  pauses,   \* bound, and whether there was any
  played,   \* how long the player has been playing, from the main's begin
  clockOff  \* the media time was read amid a pause, or paused twice

vars == <<now, object, held, player, monitor, pc, pauses, played, clockOff>>

Asleep == object.main = NoMain \/ object.state[object.main] = "sleeping"

(* Player::getMediaTime                                                    *)
MediaTime ==
  IF player.status = "pause"
    THEN player.elapsed
    ELSE player.elapsed + now - player.init - player.pausedSum

(* ExecutionObject::getNextTransition                                      *)
HasNextTransition ==
  ~Asleep /\ HasNext(object.table, object.index, object.main)

NextTransition == object.table[object.index + 1]

Goto(t, to) == pc' = [pc EXCEPT ![t] = to]
-----------------------------------------------------------------------------
(* Fault model of StartsMonitor: only when the main event has an end.      *)
StartsMonitorIfEnds(table, index, main) ==
  HasNext(table, index, main) /\ End[main] # Infinity

(* "start monitor only if there is predictable events"                     *)
StartsMonitor(table, index, main) ==
  HasNext(table, index, main) /\ table[index + 1].time # Infinity

(* FormatterPlayerAdapter::prepare and start, ExecutionObject::prepare and *)
(* start, Player::play                                                     *)
Start ==
  /\ player.status = "none"
  /\ LET table  == object.table
         main   == object.main
         offset == Begin[main]
         first  == StartIndex(table, main)
         index  == IndexAfterStart(table, first, offset)
         starts == StartsMonitor(table, index, main)
     IN  /\ object' = [object EXCEPT
                         !.startIx = first, !.index = index,
                         !.state = StatesAfterStart(table, first, offset,
                                     PreparedStates(table, first))]
         /\ player' = [player EXCEPT !.status = "play", !.init = now,
                                     !.elapsed = offset]
         /\ played' = offset
         /\ monitor' = [monitor EXCEPT !.running = starts]
         /\ Goto("monitor", IF starts THEN "test" ELSE "none")
  /\ UNCHANGED <<now, held, pauses, clockOff>>

Tick ==
  /\ player.status # "none"
  /\ now < MaxTime
  /\ now' = now + 1
  /\ played' = IF player.status = "play" THEN played + 1 ELSE played
  /\ UNCHANGED <<object, held, player, monitor, pc, pauses, clockOff>>
-----------------------------------------------------------------------------
(* NominalEventMonitor::run                                                *)
MonitorAt(at) == pc["monitor"] = at

Test ==
  /\ MonitorAt("test")
  /\ Goto("monitor", IF ~monitor.running THEN "exit"
                     ELSE IF monitor.paused THEN "blockPaused" ELSE "next")
  /\ UNCHANGED <<now, object, held, player, monitor, pauses, played, clockOff>>

(* getNextTransition; without one, the monitor ends.                       *)
GetNext ==
  /\ MonitorAt("next")
  /\ IF HasNextTransition
       THEN /\ monitor' = [monitor EXCEPT !.next = NextTransition.time]
            /\ Goto("monitor", "measure")
       ELSE /\ monitor' = [monitor EXCEPT !.running = FALSE]
            /\ Goto("monitor", "test")
  /\ UNCHANGED <<now, object, held, player, pauses, played, clockOff>>

(* Player::pause has changed elapsedTime, but not yet the status.          *)
MidPause == pc["command"] = "pause3"

(* expectedSleepTime; usleep is given what is left.                        *)
Measure ==
  /\ MonitorAt("measure")
  /\ monitor' = [monitor EXCEPT !.inf = monitor.next = Infinity]
  /\ Goto("monitor", IF ~monitor.running THEN "test"
                     ELSE IF monitor.next = Infinity THEN "block" ELSE "doze")
  /\ UNCHANGED <<now, object, held, player, pauses, played, clockOff>>

(* usleep and waitForUnlockCondition: a signal sent before is lost.        *)
FallAsleep ==
  /\ \/ MonitorAt("doze") /\ Goto("monitor", "sleep")
     \/ MonitorAt("block") /\ Goto("monitor", "wait")
     \/ MonitorAt("blockPaused") /\ Goto("monitor", "waitPaused")
  /\ UNCHANGED <<now, object, held, player, monitor, pauses, played, clockOff>>

(* usleep times out, or returns early: a condition variable may, and it    *)
(* refuses a time whose microseconds add up to a second.                   *)
Awake ==
  /\ MonitorAt("sleep")
  /\ Goto("monitor", "due")
  /\ UNCHANGED <<now, object, held, player, monitor, pauses, played, clockOff>>

MayFire(left) == ~monitor.paused /\ left <= Tolerance

CheckDue ==
  /\ MonitorAt("due")
  /\ IF monitor.running /\ MayFire(monitor.next - MediaTime)
       THEN /\ monitor' = [monitor EXCEPT !.value = MediaTime + Tolerance]
            /\ Goto("monitor", "update")
       ELSE Goto("monitor", "test") /\ UNCHANGED monitor
  /\ clockOff' = (clockOff \/ MidPause)
  /\ UNCHANGED <<now, object, held, player, pauses, played>>

(* updateTransitionTable reads the index once and then writes its own; its *)
(* locals are zero when it does not run.                                   *)
ReadIndex ==
  /\ MonitorAt("update")
  /\ monitor' = [monitor EXCEPT !.ix = object.index]
  /\ Goto("monitor", "fire")
  /\ UNCHANGED <<now, object, held, player, pauses, played, clockOff>>

FireNext ==
  /\ MonitorAt("fire")
  /\ LET ix == monitor.ix
     IN  IF Due(object.table, ix, monitor.value)
           THEN /\ object' = [object EXCEPT
                                !.state = Fire(@, object.table[ix + 1]),
                                !.index = ix + 1]
                /\ monitor' = [monitor EXCEPT !.ix = ix + 1]
                /\ UNCHANGED pc
           ELSE /\ monitor' = [monitor EXCEPT !.ix = 0, !.value = 0]
                /\ Goto("monitor", "test")
                /\ UNCHANGED object
  /\ UNCHANGED <<now, held, player, pauses, played, clockOff>>

(* forceNaturalEnd: the listener, naturalEnd, stops the adapter.           *)
Exit ==
  /\ MonitorAt("exit")
  /\ IF monitor.stopped
       THEN Goto("monitor", "done") /\ UNCHANGED player
       ELSE /\ player' = [player EXCEPT !.forced = TRUE]
            /\ Goto("monitor", "stop1")
  /\ UNCHANGED <<now, object, held, monitor, pauses, played, clockOff>>

RunMonitor ==
  \/ Test \/ GetNext \/ Measure \/ FallAsleep \/ Awake
  \/ CheckDue \/ ReadIndex \/ FireNext \/ Exit
-----------------------------------------------------------------------------
(* A thread signals the monitor, after which it and the monitor are where  *)
(* they will be.                                                           *)
Woken(at) == CASE at \in {"sleep", "wait"} -> "due"
               [] at = "waitPaused" -> "test"
               [] OTHER -> at

WakeUp(t, to) ==        \* wakeUp
  pc' = [pc EXCEPT !["monitor"] = IF @ = "sleep" THEN Woken(@) ELSE @, ![t] = to]

Unlock(t, to) ==        \* unlockConditionSatisfied
  pc' = [pc EXCEPT !["monitor"] = IF @ # "sleep" THEN Woken(@) ELSE @, ![t] = to]

After(t) == IF t = "monitor" THEN "done" ELSE "idle"

(* FormatterPlayerAdapter::stop, by thread t.  stopMonitor: the flags      *)
StopFlags(t) ==
  /\ pc[t] = "stop1"
  /\ IF ~held THEN Goto(t, After(t)) /\ UNCHANGED monitor
       ELSE /\ monitor' = [monitor EXCEPT !.stopped = TRUE, !.running = FALSE]
            /\ Goto(t, IF monitor.running THEN "stop2" ELSE "stop3")
  /\ UNCHANGED <<now, object, held, player, pauses, played, clockOff>>

(* ... and the signal                                                      *)
StopSignal(t) ==
  /\ pc[t] = "stop2"
  /\ IF monitor.inf \/ monitor.paused THEN Unlock(t, "stop3") ELSE WakeUp(t, "stop3")
  /\ UNCHANGED <<now, object, held, player, monitor, pauses, played, clockOff>>

(* Player::stop                                                            *)
StopPlayer(t) ==
  /\ pc[t] = "stop3"
  /\ player' = [player EXCEPT !.status = "stop"]
  /\ Goto(t, "stop4")
  /\ UNCHANGED <<now, object, held, monitor, pauses, played, clockOff>>

(* ExecutionObject::stop, unless the end was natural                       *)
StopEvents(t) ==
  /\ pc[t] = "stop4"
  /\ IF player.forced \/ ~held \/ Asleep
       THEN Goto(t, "stop6") /\ UNCHANGED object
       ELSE object' = [object EXCEPT !.state = StatesAfterStop] /\ Goto(t, "stop5")
  /\ UNCHANGED <<now, held, player, monitor, pauses, played, clockOff>>

(* ... resetTimeIndex                                                      *)
StopIndex(t) ==
  /\ pc[t] = "stop5"
  /\ object' = [object EXCEPT !.index = object.startIx, !.pauseCount = 0]
  /\ Goto(t, "stop6")
  /\ UNCHANGED <<now, held, player, monitor, pauses, played, clockOff>>

(* unprepare stops again what is not asleep.                               *)
Unprepare(t) ==
  /\ pc[t] = "stop6"
  /\ IF held /\ ~Asleep
       THEN Goto(t, "stop1") /\ UNCHANGED <<object, held>>
       ELSE /\ object' = IF held THEN [object EXCEPT !.main = NoMain] ELSE object
            /\ held' = FALSE
            /\ Goto(t, After(t))
  /\ UNCHANGED <<now, player, monitor, pauses, played, clockOff>>

RunStop(t) ==
  \/ StopFlags(t) \/ StopSignal(t) \/ StopPlayer(t)
  \/ StopEvents(t) \/ StopIndex(t) \/ Unprepare(t)
-----------------------------------------------------------------------------
(* Commands: pause, resume, stop of the adapter                            *)
CommandAt(at) == pc["command"] = at

HasMonitor == pc["monitor"] # "none"

Moved(from, to) ==
  [e \in Events |-> IF object.state[e] = from THEN to ELSE object.state[e]]

(* ExecutionObject::pause                                                  *)
Pause ==
  /\ CommandAt("idle") /\ player.status # "none"
  /\ pauses < MaxPauses
  /\ held /\ ~Asleep
  /\ object' = [object EXCEPT
                  !.state = IF object.pauseCount = 0 THEN Moved("occurring", "paused")
                                                     ELSE @,
                  !.pauseCount = @ + 1]
  /\ pauses' = pauses + 1
  /\ Goto("command", "pause2")
  /\ UNCHANGED <<now, held, player, monitor, played, clockOff>>

(* Player::pause, up to the status                                         *)
PauseClock ==
  /\ CommandAt("pause2")
  /\ player' = [player EXCEPT !.pauseTime = now,
                              !.elapsed = @ + now - player.init]
  /\ clockOff' = (clockOff \/ player.status = "pause")
  /\ Goto("command", "pause3")
  /\ UNCHANGED <<now, object, held, monitor, pauses, played>>

PausePlayer ==
  /\ CommandAt("pause3")
  /\ player' = [player EXCEPT !.status = "pause"]
  /\ Goto("command", IF HasMonitor /\ ~monitor.inf THEN "pause4" ELSE "idle")
  /\ UNCHANGED <<now, object, held, monitor, pauses, played, clockOff>>

(* pauseMonitor: it is woken before it is told.                            *)
PauseSignal ==
  /\ CommandAt("pause4")
  /\ WakeUp("command", "pause5")
  /\ UNCHANGED <<now, object, held, player, monitor, pauses, played, clockOff>>

PauseMonitor ==
  /\ CommandAt("pause5")
  /\ monitor' = [monitor EXCEPT !.paused = TRUE]
  /\ Goto("command", "idle")
  /\ UNCHANGED <<now, object, held, player, pauses, played, clockOff>>

(* Fault model of CanResume: whatever the count of pauses.                 *)
CanResumeAlways == held

CanResume == held /\ object.pauseCount > 0

(* ExecutionObject::resume                                                 *)
Resume ==
  /\ CommandAt("idle")
  /\ CanResume
  /\ LET last == object.pauseCount = 1
     IN  /\ object' = [object EXCEPT
                         !.state = IF last THEN Moved("paused", "occurring") ELSE @,
                         !.pauseCount = @ - 1]
         /\ Goto("command", IF last THEN "resume2" ELSE "idle")
  /\ UNCHANGED <<now, held, player, monitor, pauses, played, clockOff>>

(* Player::resume                                                          *)
ResumePlayer ==
  /\ CommandAt("resume2")
  /\ player' = [player EXCEPT !.status = "play", !.init = now,
                              !.pausedSum = @ + now - player.pauseTime]
  /\ Goto("command", IF HasMonitor /\ ~monitor.inf /\ monitor.paused
                       THEN "resume3" ELSE "idle")
  /\ UNCHANGED <<now, object, held, monitor, pauses, played, clockOff>>

(* resumeMonitor                                                           *)
ResumeMonitor ==
  /\ CommandAt("resume3")
  /\ monitor' = [monitor EXCEPT !.paused = FALSE]
  /\ Goto("command", "resume4")
  /\ UNCHANGED <<now, object, held, player, pauses, played, clockOff>>

ResumeSignal ==
  /\ CommandAt("resume4")
  /\ Unlock("command", "idle")
  /\ UNCHANGED <<now, object, held, player, monitor, pauses, played, clockOff>>

Stop ==
  /\ CommandAt("idle") /\ player.status # "none"
  /\ held
  /\ Goto("command", "stop1")
  /\ UNCHANGED <<now, object, held, player, monitor, pauses, played, clockOff>>

RunCommand ==
  \/ PauseClock \/ PausePlayer \/ PauseSignal \/ PauseMonitor
  \/ ResumePlayer \/ ResumeMonitor \/ ResumeSignal
-----------------------------------------------------------------------------
Init ==
  /\ now = 0
  /\ \E table \in Tables, main \in Mains :
       object = [main |-> main, table |-> table, index |-> 0, startIx |-> 0,
                 state |-> [e \in Events |-> "sleeping"], pauseCount |-> 0]
  /\ held = TRUE
  /\ player = [status |-> "none", elapsed |-> 0, init |-> 0, pausedSum |-> 0,
               pauseTime |-> 0, forced |-> FALSE]
  /\ monitor = [running |-> FALSE, paused |-> FALSE, stopped |-> FALSE,
                inf |-> FALSE, next |-> 0, value |-> 0, ix |-> 0]
  /\ pc = [monitor |-> "none", command |-> "idle"]
  /\ pauses = 0
  /\ played = 0
  /\ clockOff = FALSE

MonitorThread == RunMonitor \/ RunStop("monitor")

CommandThread == RunCommand \/ RunStop("command")

Next ==
  \/ Start \/ Tick
  \/ MonitorThread \/ CommandThread
  \/ Pause \/ Resume \/ Stop

Spec == Init /\ [][Next]_vars

(* Time passes, and a thread that can go on does; commands are given or    *)
(* not.                                                                    *)
FairSpec ==
  /\ Spec
  /\ WF_vars(Tick) /\ WF_vars(MonitorThread) /\ WF_vars(CommandThread)
-----------------------------------------------------------------------------
MonitorSteps ==
  {"none", "test", "next", "measure", "doze", "sleep", "block", "wait",
   "blockPaused", "waitPaused", "due", "update", "fire", "exit", "done"}

StopSteps == {"stop1", "stop2", "stop3", "stop4", "stop5", "stop6"}

CommandSteps ==
  {"idle", "pause2", "pause3", "pause4", "pause5", "resume2", "resume3", "resume4"}

ObjectOK ==
  /\ object \in [main : Events \cup {NoMain}, table : Seq(Transition),
                 index : Nat, startIx : Nat,
                 state : [Events -> States], pauseCount : Nat]
  /\ object.index <= Len(object.table) /\ object.startIx <= Len(object.table)

PlayerOK ==
  player \in [status : {"none", "play", "pause", "stop"}, elapsed : Int,
              init : Nat, pausedSum : Nat, pauseTime : Nat, forced : BOOLEAN]

MonitorOK ==
  /\ monitor \in [running : BOOLEAN, paused : BOOLEAN, stopped : BOOLEAN,
                  inf : BOOLEAN, next : 0 .. Infinity, value : Int, ix : Nat]
  /\ monitor.ix <= Len(object.table)

PcOK ==
  pc \in [monitor : MonitorSteps \cup StopSteps, command : CommandSteps \cup StopSteps]

(* Every member has its type; the index stays within the table, and the    *)
(* index the monitor works with too.                                       *)
TypeOK ==
  /\ now \in Nat /\ pauses \in Nat /\ played \in Nat
  /\ held \in BOOLEAN /\ clockOff \in BOOLEAN
  /\ ObjectOK /\ PlayerOK /\ MonitorOK /\ PcOK

Started == player.status # "none"

(* Until somebody stops the presentation, an event occurs, or is paused,   *)
(* exactly when its beginning is done and its end is not, and the table is *)
(* in order of time: in whichever order the events were added, whichever   *)
(* of them was started, and however the monitor, pauses and resumes        *)
(* interleave.  (start passes over an end at its offset.)                  *)
AnchorsInStep ==
  Started /\ ~monitor.stopped /\ held =>
    /\ \A i, j \in DOMAIN object.table :
         i < j => object.table[i].time <= object.table[j].time
    /\ \A e \in Events :
         End[e] # Begin[object.main] =>
           (object.state[e] # "sleeping" <=>
              /\ Done(object.table, object.index, e, "begin")
              /\ ~Done(object.table, object.index, e, "end"))

(* The monitor begins and ends no event before its time, although it may   *)
(* wake early and a pause or a stop come between any two of its steps,     *)
(* unless the clock itself was wrong: twice paused or read amid a pause.   *)
NeverEarly ==
  [][\A e \in Events :
       (/\ ~clockOff /\ pc["monitor"] = "fire" /\ MonitorThread
        /\ object'.state[e] # object.state[e])
       => played + Tolerance >=
            IF object'.state[e] = "sleeping" THEN End[e] ELSE Begin[e]]_vars

(* Every event that begins within the main one begins, unless there is a   *)
(* pause or a stop, also when the main event has no end.                   *)
AnchorsFire ==
  Started
    ~> \/ pauses > 0 \/ monitor.stopped
       \/ \A e \in Events : Begin[e] <= End[object.main] =>
            Done(object.table, object.index, e, "begin")

(* A presentation with an end comes to it: the main event ends before the  *)
(* monitor forces the natural end (or the adapter would stop itself over   *)
(* and over), the adapter gives its object back and the monitor's thread   *)
(* ends, also when a stop comes at the same time.                          *)
PresentationEnds ==
  Started /\ object.main # NoMain /\ End[object.main] # Infinity
    ~> \/ pauses > 0
       \/ ~held /\ pc["monitor"] \in {"none", "done"} /\ CommandAt("idle")
=============================================================================
