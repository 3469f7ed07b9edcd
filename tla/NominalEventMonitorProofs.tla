---------------------- MODULE NominalEventMonitorProofs ----------------------
(***************************************************************************)
(* What holds of NominalEventMonitor for any events, tolerance and number  *)
(* of pauses, and at any time: types, that the monitor is never early, and *)
(* that the anchors are in step with the table.  That the binary search    *)
(* gives ordered tables is TablesAssumption, which TLC evaluates.          *)
(***************************************************************************)
EXTENDS NominalEventMonitor, FiniteSetTheorems, TLAPS

StopsAlready == {"stop2", "stop3", "stop4", "stop5", "stop6"}

(* Nothing runs before the start; from its first step on a stop has told   *)
(* the monitor; the table is that of the start.                            *)
PhaseInv ==
  /\ player.status = "none" =>
       /\ pc["monitor"] = "none" /\ pc["command"] = "idle"
       /\ ~monitor.stopped /\ object.pauseCount = 0
  /\ \A t \in {"monitor", "command"} :
       pc[t] \in StopsAlready => monitor.stopped /\ ~monitor.running
  /\ player.status = "stop" => ~monitor.running
  /\ object.table \in Tables
  /\ ~monitor.stopped => object.main \in Events

(* Unless it was read or written wrongly, the clock the monitor reads is   *)
(* not ahead of what has been played: neither what it counted before the   *)
(* last pause nor, while it runs, what it counts since.                    *)
ClockInv ==
  /\ player.init <= now /\ player.pauseTime <= now
  /\ monitor.running /\ ~clockOff /\ player.status # "none" =>
       /\ player.elapsed <= played
       /\ player.status = "play" /\ ~MidPause =>
            player.elapsed + now - player.init <= played

(* What the monitor has read is not ahead either.                          *)
ValueInv ==
  ~clockOff /\ pc["monitor"] \in {"update", "fire"} =>
    monitor.value <= played + Tolerance

(* The events are where the transitions done say, but for those that ended *)
(* when the presentation begins.                                           *)
InStep(table, index, main, state) ==
  \A e \in Events :
    End[e] # Begin[main] =>
      (state[e] # "sleeping" <=>
         Done(table, index, e, "begin") /\ ~Done(table, index, e, "end"))

(* Nobody but the monitor moves the index between two of its steps.        *)
AnchorInv ==
  /\ Started /\ ~monitor.stopped =>
       InStep(object.table, object.index, object.main, object.state)
  /\ pc["monitor"] = "fire" /\ ~monitor.stopped => monitor.ix = object.index

USE DEF MonitorSteps, StopSteps, CommandSteps, StopsAlready, States
-----------------------------------------------------------------------------
(* A set of the first positions of a table is what its size says.          *)
LEMMA Prefix ==
  ASSUME NEW n \in Nat, NEW S \in SUBSET (1 .. n),
         \A i \in S : \A j \in 1 .. i : j \in S
  PROVE  Cardinality(S) \in 0 .. n /\ S = 1 .. Cardinality(S)
<1>1. IsFiniteSet(1 .. n) /\ Cardinality(1 .. n) = n
  BY FS_Interval
<1>2. IsFiniteSet(S) /\ Cardinality(S) <= n /\ Cardinality(S) \in Nat
  BY <1>1, FS_Subset, FS_CardinalityType
<1> DEFINE k == Cardinality(S)
<1>3. ASSUME NEW i \in S PROVE i \in 1 .. k
  <2>1. 1 .. i \subseteq S
    OBVIOUS
  <2>2. Cardinality(1 .. i) = i
    BY FS_Interval
  <2>3. Cardinality(1 .. i) <= k
    BY <1>2, <2>1, FS_Subset
  <2> QED
    BY <1>2, <2>2, <2>3
<1>4. ASSUME NEW i \in 1 .. k PROVE i \in S
  <2>1. SUFFICES ASSUME i \notin S PROVE FALSE
    OBVIOUS
  <2>2. S \subseteq 1 .. i - 1
    BY <1>2, <2>1
  <2>3. IsFiniteSet(1 .. i - 1) /\ Cardinality(1 .. i - 1) = i - 1
    <3>1. i - 1 \in Nat
      BY <1>2
    <3> QED
      BY <3>1, FS_Interval
  <2>4. k <= i - 1
    BY <2>2, <2>3, FS_Subset
  <2> QED
    BY <1>2, <2>4
<1>5. S = 1 .. k
  <2> HIDE DEF k
  <2>1. k \in Nat
    BY <1>2 DEF k
  <2>2. \A i \in 1 .. k : i \in S
    BY <1>4
  <2>3. \A i \in S : i \in 1 .. k
    BY <1>3
  <2> QED
    BY <2>2, <2>3
<1> QED
  BY <1>2, <1>5

(* The entries of a table                                                  *)
LEMMA Entries ==
  ASSUME NEW table, Ordered(table)
  PROVE  /\ Len(table) \in Nat /\ DOMAIN table = 1 .. Len(table)
         /\ \A i \in DOMAIN table :
              /\ table[i] \in Transition
              /\ table[i].time \in Nat /\ table[i].time <= Infinity
              /\ table[i].ev \in Events /\ table[i].kind \in {"begin", "end"}
<1>1. Infinity \in Nat
  BY EventsAssumption
<1>2. table \in Seq(Transition)
  BY DEF Ordered
<1>3. \A i \in DOMAIN table : table[i] \in Transition
  BY <1>2
<1> QED
  BY <1>1, <1>2, <1>3 DEF Transition

(* Where prepare leaves the index: what is before begins or ends before    *)
(* the presentation does, and nothing after.                               *)
LEMMA StartIndexPlace ==
  ASSUME NEW table, Ordered(table), NEW main \in Events
  PROVE  /\ StartIndex(table, main) \in 0 .. Len(table)
         /\ \A i \in 1 .. StartIndex(table, main) : table[i].time < Begin[main]
         /\ \A i \in DOMAIN table : i > StartIndex(table, main) =>
              table[i].time >= Begin[main]
<1> DEFINE S == {i \in DOMAIN table : \A j \in 1 .. i : table[j].time < Begin[main]}
<1>1. Len(table) \in Nat /\ DOMAIN table = 1 .. Len(table)
  BY Entries
<1>2. \A i \in DOMAIN table : table[i].time \in Nat
  BY Entries
<1>3. Begin[main] \in Nat
  BY EventsAssumption
<1>4. CASE main = Whole
  BY <1>1, <1>2, <1>4, EventsAssumption DEF StartIndex
<1>5. CASE main # Whole
  <2>1. Cardinality(S) \in 0 .. Len(table) /\ S = 1 .. Cardinality(S)
    <3>1. S \in SUBSET (1 .. Len(table))
      BY <1>1
    <3>2. \A i \in S : \A j \in 1 .. i : j \in S
      BY <1>1
    <3> QED
      BY <1>1, <3>1, <3>2, Prefix
  <2>2. StartIndex(table, main) = Cardinality(S)
    BY <1>5 DEF StartIndex
  <2>3. \A i \in S : table[i].time < Begin[main]
    BY <1>1
  <2>4. ASSUME NEW i \in DOMAIN table, i \notin S PROVE table[i].time >= Begin[main]
    <3>1. PICK j \in 1 .. i : ~(table[j].time < Begin[main])
      BY <2>4
    <3>2. j \in DOMAIN table /\ table[j].time <= table[i].time
      BY <1>1, <1>2, <3>1 DEF Ordered
    <3> QED
      BY <1>2, <1>3, <3>1, <3>2
  <2> HIDE DEF S
  <2> QED
    BY <1>1, <2>1, <2>2, <2>3, <2>4
<1> QED
  BY <1>4, <1>5

(* Where start leaves it: what it passes begins or ends by the offset.     *)
LEMMA IndexAfterStartPlace ==
  ASSUME NEW table, Ordered(table), NEW index \in 0 .. Len(table), NEW offset \in Nat
  PROVE  /\ IndexAfterStart(table, index, offset) \in index .. Len(table)
         /\ \A i \in index + 1 .. IndexAfterStart(table, index, offset) :
              table[i].time <= offset
<1> DEFINE S == {i \in DOMAIN table :
                   i <= index \/ \A j \in index + 1 .. i : table[j].time <= offset}
<1>1. Len(table) \in Nat /\ DOMAIN table = 1 .. Len(table)
  BY Entries
<1>2. S \in SUBSET (1 .. Len(table))
  BY <1>1
<1>3. \A i \in S : \A j \in 1 .. i : j \in S
  BY <1>1
<1>4. Cardinality(S) \in 0 .. Len(table) /\ S = 1 .. Cardinality(S)
  BY <1>1, <1>2, <1>3, Prefix
<1>5. IndexAfterStart(table, index, offset) = Cardinality(S)
  BY DEF IndexAfterStart
<1>6. index # 0 => index \in S
  BY <1>1
<1>7. \A i \in S : i > index => table[i].time <= offset
  BY <1>1
<1> HIDE DEF S
<1> QED
  BY <1>1, <1>4, <1>5, <1>6, <1>7
-----------------------------------------------------------------------------
(* Every step leaves every member with its type.                           *)
LEMMA TypesKept == TypeOK /\ PhaseInv /\ ClockInv /\ [Next]_vars => TypeOK'
<1> SUFFICES ASSUME TypeOK, PhaseInv, ClockInv, [Next]_vars PROVE TypeOK'
  OBVIOUS
<1> USE DEF Goto, MonitorAt, CommandAt, TypeOK
<1>1. CASE Start
  <2>1. Ordered(object.table) /\ object.main \in Events
    BY <1>1, TablesAssumption DEF Start, PhaseInv
  <2>2. Begin[object.main] \in Nat
    BY <2>1, EventsAssumption
  <2> DEFINE first == StartIndex(object.table, object.main)
             index == IndexAfterStart(object.table, first, Begin[object.main])
  <2>3. first \in 0 .. Len(object.table)
    BY <2>1, StartIndexPlace
  <2>4. index \in first .. Len(object.table)
    BY <2>1, <2>2, <2>3, IndexAfterStartPlace
  <2>5. first \in Nat /\ index \in Nat /\ index <= Len(object.table)
    BY <2>1, <2>3, <2>4, Entries
  <2>6. \A f : StatesAfterStart(object.table, first, Begin[object.main],
                               PreparedStates(object.table, f))
                \in [Events -> States]
    BY DEF StatesAfterStart, PreparedStates
  <2> HIDE DEF first, index
  <2>7. ObjectOK'
    <3>1. PICK s \in [Events -> States] :
            object' = [object EXCEPT !.startIx = first, !.index = index, !.state = s]
      BY <1>1, <2>6 DEF Start, first, index
    <3>2. first <= Len(object.table)
      BY <2>1, <2>3, Entries
    <3> QED
      BY <2>5, <3>1, <3>2 DEF ObjectOK
  <2>8. PlayerOK' /\ played' \in Nat
    <3>1. PICK o \in Nat : /\ player' = [player EXCEPT !.status = "play", !.init = now,
                                                       !.elapsed = o]
                           /\ played' = o
      BY <1>1, <2>2 DEF Start
    <3>2. o \in Int /\ now \in Nat
      OBVIOUS
    <3>3. player' \in [status : {"none", "play", "pause", "stop"}, elapsed : Int,
                       init : Nat, pausedSum : Nat, pauseTime : Nat, forced : BOOLEAN]
      BY <3>1, <3>2 DEF PlayerOK
    <3> QED
      BY <3>1, <3>3 DEF PlayerOK
  <2>9. MonitorOK'
    <3>1. PICK b \in BOOLEAN : monitor' = [monitor EXCEPT !.running = b]
      BY <1>1 DEF Start, StartsMonitor, HasNext
    <3>2. object'.table = object.table
      BY <1>1 DEF Start, ObjectOK
    <3> QED
      BY <3>1, <3>2 DEF MonitorOK
  <2>10. PcOK'
    BY <1>1 DEF Start, PcOK
  <2> QED
    BY <1>1, <2>7, <2>8, <2>9, <2>10 DEF Start
<1>2. CASE Tick
  BY <1>2 DEF Tick, ObjectOK, PlayerOK, MonitorOK, PcOK
<1>3. CASE Test
  BY <1>3 DEF Test, ObjectOK, PlayerOK, MonitorOK, PcOK
<1>4. CASE GetNext
  <2>1. object.index < Len(object.table) => NextTransition.time \in 0 .. Infinity
    <3>1. \A i \in 1 .. Len(object.table) : object.table[i].time \in 0 .. Infinity
      <4>1. object.table \in Seq(Transition)
        BY DEF ObjectOK
      <4>2. \A i \in 1 .. Len(object.table) : object.table[i] \in Transition
        BY <4>1
      <4> QED
        BY <4>2 DEF Transition
    <3>2. object.index < Len(object.table) => object.index + 1 \in 1 .. Len(object.table)
      BY DEF ObjectOK
    <3> QED
      BY <3>1, <3>2 DEF NextTransition
  <2>2. MonitorOK'
    BY <1>4, <2>1 DEF GetNext, MonitorOK, HasNextTransition, HasNext
  <2>3. PcOK'
    BY <1>4 DEF GetNext, PcOK
  <2> QED
    BY <1>4, <2>1, <2>2, <2>3 DEF GetNext, ObjectOK, PlayerOK
<1>5. CASE Measure
  <2>1. MonitorOK'
    BY <1>5 DEF Measure, MonitorOK
  <2>2. PcOK'
    BY <1>5 DEF Measure, PcOK
  <2> QED
    BY <1>5, <2>1, <2>2 DEF Measure, ObjectOK, PlayerOK
<1>6. CASE FallAsleep
  BY <1>6 DEF FallAsleep, ObjectOK, PlayerOK, MonitorOK, PcOK
<1>7. CASE Awake
  BY <1>7 DEF Awake, ObjectOK, PlayerOK, MonitorOK, PcOK
<1>8. CASE CheckDue
  <2>1. MediaTime \in Int
    BY <1>8 DEF MediaTime, PlayerOK
  <2>2. MediaTime + Tolerance \in Int
    BY <1>8, <2>1, MonitorAssumption
  <2>3. MonitorOK'
    BY <1>8, <2>2 DEF CheckDue, MonitorOK
  <2>4. PcOK'
    BY <1>8 DEF CheckDue, PcOK
  <2>5. clockOff' \in BOOLEAN
    BY <1>8 DEF CheckDue
  <2> QED
    BY <1>8, <2>1, <2>2, <2>3, <2>4, <2>5 DEF CheckDue, ObjectOK, PlayerOK
<1>9. CASE ReadIndex
  <2>1. MonitorOK'
    BY <1>9 DEF ReadIndex, MonitorOK, ObjectOK
  <2>2. PcOK'
    BY <1>9 DEF ReadIndex, PcOK
  <2> QED
    BY <1>9, <2>1, <2>2 DEF ReadIndex, ObjectOK, PlayerOK
<1>10. CASE FireNext
  <2>1. CASE Due(object.table, monitor.ix, monitor.value)
    <3> DEFINE t == object.table[monitor.ix + 1]
    <3>1. monitor.ix \in Nat /\ monitor.ix < Len(object.table)
      BY <2>1 DEF MonitorOK, Due
    <3>2. t \in Transition
      BY <3>1 DEF ObjectOK
    <3>3. Fire(object.state, t) \in [Events -> States]
      BY <3>2 DEF Fire, ObjectOK, Transition
    <3> HIDE DEF t
    <3>4. PICK s \in [Events -> States] :
            object' = [object EXCEPT !.state = s, !.index = monitor.ix + 1]
      BY <1>10, <2>1, <3>3 DEF FireNext, t
    <3>5. monitor' = [monitor EXCEPT !.ix = monitor.ix + 1]
      BY <1>10, <2>1 DEF FireNext
    <3>6. monitor.ix + 1 \in Nat /\ monitor.ix + 1 <= Len(object.table)
      BY <3>1 DEF ObjectOK
    <3>7. ObjectOK' /\ object'.table = object.table
      BY <3>4, <3>6 DEF ObjectOK
    <3>8. MonitorOK'
      BY <3>5, <3>6, <3>7 DEF MonitorOK
    <3> QED
      BY <1>10, <2>1, <3>7, <3>8 DEF FireNext, PlayerOK, PcOK
  <2>2. CASE ~Due(object.table, monitor.ix, monitor.value)
    <3>1. MonitorOK'
      <4>1. PICK z \in Nat :
              z = 0 /\ monitor' = [monitor EXCEPT !.ix = z, !.value = z]
        BY <1>10, <2>2 DEF FireNext
      <4>2. 0 <= Len(object.table)
        BY DEF ObjectOK
      <4>3. object'.table = object.table
        BY <1>10, <2>2 DEF FireNext
      <4>4. monitor' \in [running : BOOLEAN, paused : BOOLEAN, stopped : BOOLEAN,
                          inf : BOOLEAN, next : 0 .. Infinity, value : Int, ix : Nat]
        <5>1. z \in Nat /\ z \in Int
          OBVIOUS
        <5>2. monitor' = [monitor EXCEPT !.ix = z, !.value = z]
          BY <4>1
        <5> QED
          BY <5>1, <5>2 DEF MonitorOK
      <4>5. monitor'.ix = 0
        BY <4>1 DEF MonitorOK
      <4>6. monitor'.ix <= Len(object'.table)
        BY <4>2, <4>3, <4>5
      <4> QED
        BY <4>4, <4>6 DEF MonitorOK
    <3>2. PcOK'
      BY <1>10, <2>2 DEF FireNext, PcOK
    <3> QED
      BY <1>10, <2>2, <3>1, <3>2 DEF FireNext, ObjectOK, PlayerOK
  <2> QED
    BY <2>1, <2>2
<1>11. CASE Exit
  <2>1. PlayerOK'
    BY <1>11 DEF Exit, PlayerOK
  <2>2. PcOK'
    BY <1>11 DEF Exit, PcOK
  <2> QED
    BY <1>11, <2>1, <2>2 DEF Exit, ObjectOK, MonitorOK
<1>12. CASE Pause
  <2>1. Moved("occurring", "paused") \in [Events -> States]
    BY <1>12 DEF Moved, ObjectOK
  <2>2. ObjectOK'
    <3>1. PICK s \in [Events -> States] :
            object' = [object EXCEPT !.state = s, !.pauseCount = object.pauseCount + 1]
      BY <1>12, <2>1 DEF Pause, ObjectOK
    <3>2. object.pauseCount + 1 \in Nat
      BY DEF ObjectOK
    <3> QED
      BY <3>1, <3>2 DEF ObjectOK
  <2>3. MonitorOK'
    BY <1>12 DEF Pause, MonitorOK, ObjectOK
  <2>4. PcOK'
    BY <1>12 DEF Pause, PcOK
  <2>5. pauses' \in Nat
    BY <1>12 DEF Pause
  <2> QED
    BY <1>12, <2>1, <2>2, <2>3, <2>4, <2>5 DEF Pause, PlayerOK
<1>13. CASE Resume
  <2>1. Moved("paused", "occurring") \in [Events -> States]
    BY <1>13 DEF Moved, ObjectOK
  <2>2. ObjectOK'
    <3>1. PICK s \in [Events -> States] :
            object' = [object EXCEPT !.state = s, !.pauseCount = object.pauseCount - 1]
      BY <1>13, <2>1 DEF Resume, ObjectOK
    <3>2. object.pauseCount - 1 \in Nat
      BY <1>13 DEF Resume, CanResume, ObjectOK
    <3> QED
      BY <3>1, <3>2 DEF ObjectOK
  <2>3. MonitorOK'
    BY <1>13 DEF Resume, MonitorOK, ObjectOK
  <2>4. PcOK'
    BY <1>13 DEF Resume, PcOK
  <2> QED
    BY <1>13, <2>1, <2>2, <2>3, <2>4 DEF Resume, PlayerOK
<1>14. CASE Stop
  BY <1>14 DEF Stop, ObjectOK, PlayerOK, MonitorOK, PcOK
<1>15. CASE PauseClock
  <2>1. PlayerOK'
    <3>1. player' = [player EXCEPT !.pauseTime = now,
                                   !.elapsed = player.elapsed + now - player.init]
      BY <1>15 DEF PauseClock
    <3>2. player.elapsed + now - player.init \in Int
      BY DEF PlayerOK
    <3> QED
      BY <3>1, <3>2 DEF PlayerOK
  <2>2. PcOK'
    BY <1>15 DEF PauseClock, PcOK
  <2>3. clockOff' \in BOOLEAN
    BY <1>15 DEF PauseClock
  <2> QED
    BY <1>15, <2>1, <2>2, <2>3 DEF PauseClock, ObjectOK, MonitorOK
<1>16. CASE PausePlayer
  <2>1. PlayerOK'
    BY <1>16 DEF PausePlayer, PlayerOK
  <2>2. PcOK'
    BY <1>16 DEF PausePlayer, PcOK
  <2> QED
    BY <1>16, <2>1, <2>2 DEF PausePlayer, ObjectOK, MonitorOK
<1>17. CASE PauseSignal
  BY <1>17 DEF PauseSignal, WakeUp, Woken, ObjectOK, PlayerOK, MonitorOK, PcOK
<1>18. CASE PauseMonitor
  <2>1. MonitorOK'
    BY <1>18 DEF PauseMonitor, MonitorOK
  <2>2. PcOK'
    BY <1>18 DEF PauseMonitor, PcOK
  <2> QED
    BY <1>18, <2>1, <2>2 DEF PauseMonitor, ObjectOK, PlayerOK
<1>19. CASE ResumePlayer
  <2>1. now - player.pauseTime \in Nat
    BY <1>19 DEF ClockInv, PlayerOK
  <2>2. PlayerOK'
    <3>1. player' = [player EXCEPT !.status = "play", !.init = now,
                       !.pausedSum = player.pausedSum + now - player.pauseTime]
      BY <1>19 DEF ResumePlayer
    <3>2. player.pausedSum + now - player.pauseTime \in Nat
      BY <2>1 DEF PlayerOK
    <3> QED
      BY <3>1, <3>2 DEF PlayerOK
  <2>3. PcOK'
    BY <1>19 DEF ResumePlayer, PcOK
  <2> QED
    BY <1>19, <2>1, <2>2, <2>3 DEF ResumePlayer, ObjectOK, MonitorOK
<1>20. CASE ResumeMonitor
  <2>1. MonitorOK'
    BY <1>20 DEF ResumeMonitor, MonitorOK
  <2>2. PcOK'
    BY <1>20 DEF ResumeMonitor, PcOK
  <2> QED
    BY <1>20, <2>1, <2>2 DEF ResumeMonitor, ObjectOK, PlayerOK
<1>21. CASE ResumeSignal
  BY <1>21 DEF ResumeSignal, Unlock, Woken, ObjectOK, PlayerOK, MonitorOK,
     PcOK
<1>22. ASSUME NEW t \in {"monitor", "command"}, StopFlags(t) PROVE TypeOK'
  <2>1. MonitorOK'
    BY <1>22 DEF StopFlags, MonitorOK
  <2>2. PcOK'
    BY <1>22 DEF StopFlags, PcOK, After
  <2> QED
    BY <1>22, <2>1, <2>2 DEF StopFlags, ObjectOK, PlayerOK
<1>23. ASSUME NEW t \in {"monitor", "command"}, StopSignal(t) PROVE TypeOK'
  BY <1>23 DEF StopSignal, WakeUp, Unlock, Woken, ObjectOK, PlayerOK,
     MonitorOK, PcOK
<1>24. ASSUME NEW t \in {"monitor", "command"}, StopPlayer(t) PROVE TypeOK'
  <2>1. PlayerOK'
    BY <1>24 DEF StopPlayer, PlayerOK
  <2>2. PcOK'
    BY <1>24 DEF StopPlayer, PcOK
  <2> QED
    BY <1>24, <2>1, <2>2 DEF StopPlayer, ObjectOK, MonitorOK
<1>25. ASSUME NEW t \in {"monitor", "command"}, StopEvents(t) PROVE TypeOK'
  <2>1. ObjectOK'
    BY <1>25 DEF StopEvents, StatesAfterStop, ObjectOK
  <2>2. MonitorOK'
    BY <1>25 DEF StopEvents, MonitorOK, ObjectOK
  <2>3. PcOK'
    BY <1>25 DEF StopEvents, PcOK
  <2> QED
    BY <1>25, <2>1, <2>2, <2>3 DEF StopEvents, PlayerOK
<1>26. ASSUME NEW t \in {"monitor", "command"}, StopIndex(t) PROVE TypeOK'
  <2>1. ObjectOK'
    BY <1>26 DEF StopIndex, ObjectOK
  <2>2. MonitorOK'
    BY <1>26 DEF StopIndex, MonitorOK, ObjectOK
  <2>3. PcOK'
    BY <1>26 DEF StopIndex, PcOK
  <2> QED
    BY <1>26, <2>1, <2>2, <2>3 DEF StopIndex, PlayerOK
<1>27. ASSUME NEW t \in {"monitor", "command"}, Unprepare(t) PROVE TypeOK'
  <2>1. ObjectOK'
    BY <1>27 DEF Unprepare, ObjectOK
  <2>2. MonitorOK'
    BY <1>27 DEF Unprepare, MonitorOK, ObjectOK
  <2>3. PcOK'
    BY <1>27 DEF Unprepare, PcOK, After
  <2>4. held' \in BOOLEAN
    BY <1>27 DEF Unprepare
  <2> QED
    BY <1>27, <2>1, <2>2, <2>3, <2>4 DEF Unprepare, PlayerOK
<1>28. CASE UNCHANGED vars
  BY <1>28 DEF vars, ObjectOK, PlayerOK, MonitorOK, PcOK
<1> QED
  BY <1>1, <1>2, <1>3, <1>4, <1>5, <1>6, <1>7, <1>8, <1>9, <1>10, <1>11,
     <1>12, <1>13, <1>14, <1>15, <1>16, <1>17, <1>18, <1>19, <1>20, <1>21,
     <1>22, <1>23, <1>24, <1>25, <1>26, <1>27, <1>28 DEF Next, MonitorThread,
     CommandThread, RunMonitor, RunStop, RunCommand

(* Every step keeps the phases.                                            *)
LEMMA PhaseKept == TypeOK /\ PhaseInv /\ [Next]_vars => PhaseInv'
<1> SUFFICES ASSUME TypeOK, PhaseInv, [Next]_vars PROVE PhaseInv'
  OBVIOUS
<1> USE DEF Goto, MonitorAt, CommandAt, PhaseInv, TypeOK, ObjectOK, PlayerOK,
            MonitorOK, PcOK
<1>1. CASE Start
  BY <1>1 DEF Start
<1>2. CASE Tick
  BY <1>2 DEF Tick
<1>3. CASE Test
  BY <1>3 DEF Test
<1>4. CASE GetNext
  <2>1. /\ object' = object /\ player' = player
        /\ monitor'.stopped = monitor.stopped /\ (monitor'.running => monitor.running)
    BY <1>4 DEF GetNext
  <2>2. /\ pc["monitor"] = "next" /\ pc'["monitor"] \in {"measure", "test"}
        /\ pc'["command"] = pc["command"]
    BY <1>4 DEF GetNext
  <2> QED
    BY <2>1, <2>2
<1>5. CASE Measure
  BY <1>5 DEF Measure
<1>6. CASE FallAsleep
  BY <1>6 DEF FallAsleep
<1>7. CASE Awake
  BY <1>7 DEF Awake
<1>8. CASE CheckDue
  <2>1. /\ object' = object /\ player' = player
        /\ monitor'.stopped = monitor.stopped /\ monitor'.running = monitor.running
    BY <1>8 DEF CheckDue
  <2>2. /\ pc["monitor"] = "due" /\ pc'["monitor"] \in {"update", "test"}
        /\ pc'["command"] = pc["command"]
    BY <1>8 DEF CheckDue
  <2> QED
    BY <2>1, <2>2
<1>9. CASE ReadIndex
  BY <1>9 DEF ReadIndex
<1>10. CASE FireNext
  BY <1>10 DEF FireNext
<1>11. CASE Exit
  BY <1>11 DEF Exit
<1>12. CASE Pause
  BY <1>12 DEF Pause, Moved, Asleep
<1>13. CASE Resume
  BY <1>13 DEF Resume, CanResume, Moved
<1>14. CASE Stop
  BY <1>14 DEF Stop
<1>15. CASE PauseClock
  BY <1>15 DEF PauseClock
<1>16. CASE PausePlayer
  BY <1>16 DEF PausePlayer, HasMonitor
<1>17. CASE PauseSignal
  BY <1>17 DEF PauseSignal, WakeUp, Woken
<1>18. CASE PauseMonitor
  BY <1>18 DEF PauseMonitor
<1>19. CASE ResumePlayer
  BY <1>19 DEF ResumePlayer, HasMonitor
<1>20. CASE ResumeMonitor
  BY <1>20 DEF ResumeMonitor
<1>21. CASE ResumeSignal
  BY <1>21 DEF ResumeSignal, Unlock, Woken
<1>22. ASSUME NEW t \in {"monitor", "command"}, StopFlags(t) PROVE PhaseInv'
  <2>1. object' = object /\ player' = player /\ pc[t] = "stop1"
    BY <1>22 DEF StopFlags
  <2>2. CASE held
    <3>1. monitor'.stopped /\ ~monitor'.running
      BY <1>22, <2>2 DEF StopFlags
    <3>2. player.status # "none"
      BY <2>1
    <3> QED
      BY <2>1, <3>1, <3>2
  <2>3. CASE ~held
    <3>1. monitor' = monitor /\ pc' = [pc EXCEPT ![t] = After(t)]
      BY <1>22, <2>3 DEF StopFlags
    <3> QED
      BY <2>1, <3>1 DEF After
  <2> QED
    BY <2>2, <2>3
<1>23. ASSUME NEW t \in {"monitor", "command"}, StopSignal(t) PROVE PhaseInv'
  BY <1>23 DEF StopSignal, WakeUp, Unlock, Woken
<1>24. ASSUME NEW t \in {"monitor", "command"}, StopPlayer(t) PROVE PhaseInv'
  BY <1>24 DEF StopPlayer
<1>25. ASSUME NEW t \in {"monitor", "command"}, StopEvents(t) PROVE PhaseInv'
  BY <1>25 DEF StopEvents, Asleep, StatesAfterStop
<1>26. ASSUME NEW t \in {"monitor", "command"}, StopIndex(t) PROVE PhaseInv'
  BY <1>26 DEF StopIndex
<1>27. ASSUME NEW t \in {"monitor", "command"}, Unprepare(t) PROVE PhaseInv'
  BY <1>27 DEF Unprepare, After, Asleep
<1>28. CASE UNCHANGED vars
  BY <1>28 DEF vars
<1> QED
  BY <1>1, <1>2, <1>3, <1>4, <1>5, <1>6, <1>7, <1>8, <1>9, <1>10, <1>11,
     <1>12, <1>13, <1>14, <1>15, <1>16, <1>17, <1>18, <1>19, <1>20, <1>21,
     <1>22, <1>23, <1>24, <1>25, <1>26, <1>27, <1>28 DEF Next, MonitorThread,
     CommandThread, RunMonitor, RunStop, RunCommand

(* Every step keeps the clock from running ahead.                         *)
LEMMA ClockKept == TypeOK /\ PhaseInv /\ ClockInv /\ [Next]_vars => ClockInv'
<1> SUFFICES ASSUME TypeOK, PhaseInv, ClockInv, [Next]_vars PROVE ClockInv'
  OBVIOUS
<1> USE DEF Goto, MonitorAt, CommandAt, PhaseInv, ClockInv, MidPause, TypeOK,
            PlayerOK, MonitorOK, PcOK
<1>1. CASE Start
  <2>1. Begin[object.main] \in Nat
    BY <1>1, EventsAssumption DEF Start
  <2>2. /\ player'.elapsed = Begin[object.main] /\ player'.init = now
        /\ player'.pauseTime = player.pauseTime /\ now' = now
        /\ played' = Begin[object.main]
    BY <1>1 DEF Start
  <2> QED
    BY <2>1, <2>2
<1>2. CASE Tick
  BY <1>2 DEF Tick
<1>3. CASE Test
  BY <1>3 DEF Test
<1>4. CASE GetNext
  BY <1>4 DEF GetNext, HasNextTransition, NextTransition
<1>5. CASE Measure
  BY <1>5 DEF Measure
<1>6. CASE FallAsleep
  BY <1>6 DEF FallAsleep
<1>7. CASE Awake
  BY <1>7 DEF Awake
<1>8. CASE CheckDue
  BY <1>8 DEF CheckDue, MidPause, MediaTime, MayFire
<1>9. CASE ReadIndex
  BY <1>9 DEF ReadIndex
<1>10. CASE FireNext
  BY <1>10 DEF FireNext
<1>11. CASE Exit
  BY <1>11 DEF Exit
<1>12. CASE Pause
  BY <1>12 DEF Pause, Moved, Asleep
<1>13. CASE Resume
  BY <1>13 DEF Resume, CanResume, Moved
<1>14. CASE Stop
  BY <1>14 DEF Stop
<1>15. CASE PauseClock
  BY <1>15 DEF PauseClock
<1>16. CASE PausePlayer
  BY <1>16 DEF PausePlayer, HasMonitor
<1>17. CASE PauseSignal
  BY <1>17 DEF PauseSignal, WakeUp, Woken
<1>18. CASE PauseMonitor
  BY <1>18 DEF PauseMonitor
<1>19. CASE ResumePlayer
  BY <1>19 DEF ResumePlayer, HasMonitor
<1>20. CASE ResumeMonitor
  BY <1>20 DEF ResumeMonitor
<1>21. CASE ResumeSignal
  BY <1>21 DEF ResumeSignal, Unlock, Woken
<1>22. ASSUME NEW t \in {"monitor", "command"}, StopFlags(t) PROVE ClockInv'
  BY <1>22 DEF StopFlags, After
<1>23. ASSUME NEW t \in {"monitor", "command"}, StopSignal(t) PROVE ClockInv'
  BY <1>23 DEF StopSignal, WakeUp, Unlock, Woken
<1>24. ASSUME NEW t \in {"monitor", "command"}, StopPlayer(t) PROVE ClockInv'
  BY <1>24 DEF StopPlayer
<1>25. ASSUME NEW t \in {"monitor", "command"}, StopEvents(t) PROVE ClockInv'
  BY <1>25 DEF StopEvents, Asleep, StatesAfterStop
<1>26. ASSUME NEW t \in {"monitor", "command"}, StopIndex(t) PROVE ClockInv'
  BY <1>26 DEF StopIndex
<1>27. ASSUME NEW t \in {"monitor", "command"}, Unprepare(t) PROVE ClockInv'
  BY <1>27 DEF Unprepare, After, Asleep
<1>28. CASE UNCHANGED vars
  BY <1>28 DEF vars
<1> QED
  BY <1>1, <1>2, <1>3, <1>4, <1>5, <1>6, <1>7, <1>8, <1>9, <1>10, <1>11,
     <1>12, <1>13, <1>14, <1>15, <1>16, <1>17, <1>18, <1>19, <1>20, <1>21,
     <1>22, <1>23, <1>24, <1>25, <1>26, <1>27, <1>28 DEF Next, MonitorThread,
     CommandThread, RunMonitor, RunStop, RunCommand

(* ... and what the monitor has read of it.                                *)
LEMMA ValueKept ==
  TypeOK /\ PhaseInv /\ ClockInv /\ ValueInv /\ [Next]_vars => ValueInv'
<1> SUFFICES ASSUME TypeOK, PhaseInv, ClockInv, ValueInv, [Next]_vars PROVE ValueInv'
  OBVIOUS
<1> USE DEF Goto, MonitorAt, CommandAt, ValueInv, TypeOK, PlayerOK, MonitorOK,
            PcOK
<1>1. CASE Start
  BY <1>1 DEF Start
<1>2. CASE Tick
  <2>1. played' >= played /\ played' \in Nat
    BY <1>2 DEF Tick
  <2>2. clockOff' = clockOff /\ pc' = pc /\ monitor' = monitor
    BY <1>2 DEF Tick
  <2> QED
    BY <2>1, <2>2, MonitorAssumption
<1>3. CASE Test
  BY <1>3 DEF Test
<1>4. CASE GetNext
  BY <1>4 DEF GetNext, HasNextTransition, NextTransition
<1>5. CASE Measure
  BY <1>5 DEF Measure
<1>6. CASE FallAsleep
  BY <1>6 DEF FallAsleep
<1>7. CASE Awake
  BY <1>7 DEF Awake
<1>8. CASE CheckDue
  <2>1. SUFFICES ASSUME ~clockOff', pc'["monitor"] \in {"update", "fire"}
                 PROVE  monitor'.value <= played' + Tolerance
    OBVIOUS
  <2>2. monitor.running /\ ~clockOff /\ ~MidPause
    BY <1>8, <2>1 DEF CheckDue
  <2>3. player.status \in {"play", "pause"}
    BY <1>8, <2>2 DEF CheckDue, PhaseInv
  <2>4. MediaTime <= played /\ MediaTime \in Int
    BY <2>2, <2>3 DEF MediaTime, ClockInv
  <2>5. monitor'.value = MediaTime + Tolerance /\ played' = played
    <3>1. monitor' = [monitor EXCEPT !.value = MediaTime + Tolerance]
      BY <1>8, <2>1 DEF CheckDue
    <3> QED
      BY <1>8, <3>1 DEF CheckDue
  <2> QED
    BY <2>4, <2>5, MonitorAssumption
<1>9. CASE ReadIndex
  BY <1>9 DEF ReadIndex
<1>10. CASE FireNext
  BY <1>10 DEF FireNext
<1>11. CASE Exit
  BY <1>11 DEF Exit
<1>12. CASE Pause
  BY <1>12 DEF Pause, Moved, Asleep
<1>13. CASE Resume
  BY <1>13 DEF Resume, CanResume, Moved
<1>14. CASE Stop
  BY <1>14 DEF Stop
<1>15. CASE PauseClock
  BY <1>15 DEF PauseClock
<1>16. CASE PausePlayer
  BY <1>16 DEF PausePlayer, HasMonitor
<1>17. CASE PauseSignal
  BY <1>17 DEF PauseSignal, WakeUp, Woken
<1>18. CASE PauseMonitor
  BY <1>18 DEF PauseMonitor
<1>19. CASE ResumePlayer
  BY <1>19 DEF ResumePlayer, HasMonitor
<1>20. CASE ResumeMonitor
  BY <1>20 DEF ResumeMonitor
<1>21. CASE ResumeSignal
  BY <1>21 DEF ResumeSignal, Unlock, Woken
<1>22. ASSUME NEW t \in {"monitor", "command"}, StopFlags(t) PROVE ValueInv'
  BY <1>22 DEF StopFlags, After
<1>23. ASSUME NEW t \in {"monitor", "command"}, StopSignal(t) PROVE ValueInv'
  BY <1>23 DEF StopSignal, WakeUp, Unlock, Woken
<1>24. ASSUME NEW t \in {"monitor", "command"}, StopPlayer(t) PROVE ValueInv'
  BY <1>24 DEF StopPlayer
<1>25. ASSUME NEW t \in {"monitor", "command"}, StopEvents(t) PROVE ValueInv'
  BY <1>25 DEF StopEvents, Asleep, StatesAfterStop
<1>26. ASSUME NEW t \in {"monitor", "command"}, StopIndex(t) PROVE ValueInv'
  BY <1>26 DEF StopIndex
<1>27. ASSUME NEW t \in {"monitor", "command"}, Unprepare(t) PROVE ValueInv'
  BY <1>27 DEF Unprepare, After, Asleep
<1>28. CASE UNCHANGED vars
  BY <1>28 DEF vars
<1> QED
  BY <1>1, <1>2, <1>3, <1>4, <1>5, <1>6, <1>7, <1>8, <1>9, <1>10, <1>11,
     <1>12, <1>13, <1>14, <1>15, <1>16, <1>17, <1>18, <1>19, <1>20, <1>21,
     <1>22, <1>23, <1>24, <1>25, <1>26, <1>27, <1>28 DEF Next, MonitorThread,
     CommandThread, RunMonitor, RunStop, RunCommand
-----------------------------------------------------------------------------
(* What the start of a presentation makes of the states of the events      *)
LEMMA StartInStep ==
  ASSUME NEW table, Ordered(table), NEW main \in Events
  PROVE  LET first == StartIndex(table, main)
             index == IndexAfterStart(table, first, Begin[main])
         IN  InStep(table, index, main,
               StatesAfterStart(table, first, Begin[main], PreparedStates(table, first)))
<1> DEFINE first == StartIndex(table, main)
           index == IndexAfterStart(table, first, Begin[main])
           state == PreparedStates(table, first)
           after == StatesAfterStart(table, first, Begin[main], state)
<1>1. Len(table) \in Nat /\ DOMAIN table = 1 .. Len(table) /\ Begin[main] \in Nat
  BY Entries, EventsAssumption
<1>2. /\ first \in 0 .. Len(table)
      /\ \A i \in DOMAIN table : i > first => table[i].time >= Begin[main]
  BY StartIndexPlace
<1>3. /\ index \in first .. Len(table)
      /\ \A i \in first + 1 .. index : table[i].time <= Begin[main]
  BY <1>1, <1>2, IndexAfterStartPlace
<1>4. \A e \in Events :
        after[e] = IF /\ state[e] = "sleeping"
                      /\ \E i \in first + 1 .. index : table[i] = BeginOf(e)
                     THEN "occurring" ELSE state[e]
  BY DEF StatesAfterStart
<1>5. \A e \in Events :
        state[e] = IF Done(table, first, e, "begin") /\ ~Done(table, first, e, "end")
                     THEN "occurring" ELSE "sleeping"
  BY DEF PreparedStates
<1> HIDE DEF first, index, state, after
<1>6. ASSUME NEW i \in 1 .. index
      PROVE  /\ i \in DOMAIN table /\ table[i].time \in Nat
             /\ table[i] \in {BeginOf(table[i].ev), EndOf(table[i].ev)}
  BY <1>1, <1>2, <1>3, Entries DEF Ordered
<1>7. ASSUME NEW e \in Events, End[e] # Begin[main]
      PROVE  after[e] # "sleeping" <=>
               Done(table, index, e, "begin") /\ ~Done(table, index, e, "end")
  <2>1. Done(table, index, e, "end") <=> Done(table, first, e, "end")
    <3>1. ASSUME NEW i \in first + 1 .. index, table[i].ev = e, table[i].kind = "end"
          PROVE  FALSE
      <4>1. i \in 1 .. index /\ i > first
        BY <1>2, <1>3
      <4>2. table[i] = EndOf(e)
        BY <1>6, <3>1, <4>1 DEF BeginOf, EndOf
      <4>3. table[i].time = Begin[main]
        BY <1>1, <1>2, <1>3, <1>6, <4>1
      <4> QED
        BY <1>7, <4>2, <4>3 DEF EndOf
    <3>2. \A i \in 1 .. index : i \in 1 .. first \/ i \in first + 1 .. index
      BY <1>2, <1>3
    <3>3. \A i \in 1 .. first : i \in 1 .. index
      BY <1>2, <1>3
    <3> QED
      BY <3>1, <3>2, <3>3 DEF Done
  <2>2. Done(table, index, e, "begin") <=>
          \/ Done(table, first, e, "begin")
          \/ \E i \in first + 1 .. index : table[i] = BeginOf(e)
    <3>1. \A i \in 1 .. index : i \in 1 .. first \/ i \in first + 1 .. index
      BY <1>2, <1>3
    <3>2. \A i : i \in 1 .. first \/ i \in first + 1 .. index => i \in 1 .. index
      BY <1>2, <1>3
    <3>3. \A i \in 1 .. index :
            table[i].ev = e /\ table[i].kind = "begin" <=> table[i] = BeginOf(e)
      BY <1>6 DEF BeginOf, EndOf
    <3> QED
      BY <3>1, <3>2, <3>3 DEF Done
  <2>3. ~(/\ Done(table, first, e, "end")
          /\ \E i \in first + 1 .. index : table[i] = BeginOf(e))
    <3>1. SUFFICES ASSUME NEW i \in 1 .. first, table[i].ev = e, table[i].kind = "end",
                          NEW j \in first + 1 .. index, table[j] = BeginOf(e)
                   PROVE  FALSE
      BY DEF Done
    <3>2. i \in 1 .. index /\ j \in 1 .. index /\ i < j
      BY <1>2, <1>3
    <3>3. table[i] = EndOf(e) /\ i \in DOMAIN table /\ j \in DOMAIN table
      BY <1>6, <3>1, <3>2 DEF BeginOf, EndOf
    <3> QED
      BY <3>1, <3>2, <3>3 DEF Ordered
  <2> QED
    BY <1>4, <1>5, <2>1, <2>2, <2>3
<1> QED
  BY <1>7 DEF InStep, first, index, state, after

(* One transition more                                                     *)
LEMMA FireInStep ==
  ASSUME NEW table, Ordered(table), NEW main, NEW index \in Nat, index < Len(table),
         NEW state \in [Events -> States], InStep(table, index, main, state)
  PROVE  InStep(table, index + 1, main, Fire(state, table[index + 1]))
<1> DEFINE t == table[index + 1]
<1>1. /\ Len(table) \in Nat /\ DOMAIN table = 1 .. Len(table)
      /\ index + 1 \in DOMAIN table
  BY Entries
<1>2. t.ev \in Events /\ t.kind \in {"begin", "end"} /\ t \in {BeginOf(t.ev), EndOf(t.ev)}
  BY <1>1, Entries DEF Ordered
<1>3. \A e \in Events, kind \in {"begin", "end"} :
        Done(table, index + 1, e, kind) <=>
          Done(table, index, e, kind) \/ (t.ev = e /\ t.kind = kind)
  <2>1. 1 .. index + 1 = (1 .. index) \cup {index + 1}
    OBVIOUS
  <2> QED
    BY <2>1 DEF Done
<1>4. t.kind = "begin" => ~Done(table, index, t.ev, "end")
  <2>1. SUFFICES ASSUME t.kind = "begin", NEW i \in 1 .. index,
                        table[i].ev = t.ev, table[i].kind = "end"
                 PROVE  FALSE
    BY DEF Done
  <2>2. t = BeginOf(t.ev)
    BY <1>2, <2>1 DEF BeginOf, EndOf
  <2>3. i \in DOMAIN table /\ i < index + 1
    BY <1>1
  <2>4. table[i] = EndOf(t.ev)
    <3>1. table[i] \in {BeginOf(table[i].ev), EndOf(table[i].ev)}
      BY <2>3 DEF Ordered
    <3> QED
      BY <2>1, <3>1 DEF BeginOf, EndOf
  <2> QED
    BY <1>1, <1>2, <2>2, <2>3, <2>4 DEF Ordered
<1>5. \A e \in Events : Fire(state, t)[e] =
        IF t.ev # e THEN state[e]
        ELSE IF t.kind = "end" THEN "sleeping"
        ELSE IF state[e] = "sleeping" THEN "occurring" ELSE state[e]
  BY <1>2 DEF Fire
<1> HIDE DEF t
<1>6. ASSUME NEW e \in Events, End[e] # Begin[main]
      PROVE  Fire(state, t)[e] # "sleeping" <=>
               Done(table, index + 1, e, "begin") /\ ~Done(table, index + 1, e, "end")
  <2>1. state[e] # "sleeping" <=>
          Done(table, index, e, "begin") /\ ~Done(table, index, e, "end")
    BY <1>6 DEF InStep
  <2> QED
    BY <1>2, <1>3, <1>4, <1>5, <2>1
<1> QED
  BY <1>6 DEF InStep, t
(* Every step keeps the events in step with the table.                     *)
LEMMA AnchorKept == TypeOK /\ PhaseInv /\ AnchorInv /\ [Next]_vars => AnchorInv'
<1> SUFFICES ASSUME TypeOK, PhaseInv, AnchorInv, [Next]_vars PROVE AnchorInv'
  OBVIOUS
<1> USE DEF Goto, MonitorAt, CommandAt, PhaseInv, AnchorInv, Started, TypeOK,
            MonitorOK, PcOK, PlayerOK
<1>1. CASE Start
  <2>1. Ordered(object.table) /\ object.main \in Events
    BY <1>1, TablesAssumption DEF Start
  <2>2. InStep(object.table, object'.index, object.main, object'.state)
    BY <1>1, <2>1, StartInStep DEF Start, ObjectOK
  <2>3. /\ object'.table = object.table /\ object'.main = object.main
        /\ pc'["monitor"] # "fire"
    BY <1>1 DEF Start, ObjectOK
  <2> QED
    BY <2>2, <2>3
<1>2. CASE Tick
  BY <1>2 DEF Tick
<1>3. CASE Test
  BY <1>3 DEF Test
<1>4. CASE GetNext
  <2>1. /\ monitor'.stopped = monitor.stopped /\ object' = object /\ player' = player
        /\ pc'["monitor"] # "fire"
    BY <1>4 DEF GetNext
  <2> QED
    BY <2>1
<1>5. CASE Measure
  BY <1>5 DEF Measure
<1>6. CASE FallAsleep
  BY <1>6 DEF FallAsleep
<1>7. CASE Awake
  BY <1>7 DEF Awake
<1>8. CASE CheckDue
  <2>1. /\ monitor'.stopped = monitor.stopped /\ object' = object /\ player' = player
        /\ pc'["monitor"] # "fire"
    BY <1>8 DEF CheckDue
  <2> QED
    BY <2>1
<1>9. CASE ReadIndex
  BY <1>9 DEF ReadIndex
<1>10. CASE FireNext
  <2>1. Ordered(object.table)
    BY TablesAssumption
  <2>2. CASE Due(object.table, monitor.ix, monitor.value) /\ ~monitor.stopped
    <3>1. monitor.ix = object.index /\ object.index \in Nat
          /\ object.index < Len(object.table) /\ Started
      BY <1>10, <2>2 DEF FireNext, Due, ObjectOK
    <3>2. InStep(object.table, object.index + 1, object.main,
                 Fire(object.state, object.table[object.index + 1]))
      BY <2>1, <2>2, <3>1, FireInStep DEF ObjectOK
    <3>3. /\ object'.table = object.table /\ object'.main = object.main
          /\ object'.index = object.index + 1
          /\ object'.state = Fire(object.state, object.table[object.index + 1])
      <4>1. PICK f \in [Events -> States] :
              /\ f = Fire(object.state, object.table[object.index + 1])
              /\ object' = [object EXCEPT !.state = f, !.index = object.index + 1]
        <5>1. object' = [object EXCEPT
                           !.state = Fire(object.state, object.table[object.index + 1]),
                           !.index = object.index + 1]
          BY <1>10, <2>2, <3>1 DEF FireNext
        <5>2. Fire(object.state, object.table[object.index + 1]) \in [Events -> States]
          BY <3>1 DEF Fire, ObjectOK
        <5> QED
          BY <5>1, <5>2
      <4> QED
        BY <4>1 DEF ObjectOK
    <3>4. monitor'.ix = object.index + 1
      BY <1>10, <2>2, <3>1 DEF FireNext
    <3> QED
      BY <3>2, <3>3, <3>4
  <2>3. CASE ~Due(object.table, monitor.ix, monitor.value)
    <3>1. object' = object /\ pc'["monitor"] # "fire" /\ monitor'.stopped = monitor.stopped
      BY <1>10, <2>3 DEF FireNext
    <3>2. player' = player
      BY <1>10 DEF FireNext
    <3> QED
      BY <3>1, <3>2
  <2>4. CASE monitor.stopped
    <3>1. monitor'.stopped
      BY <1>10, <2>4 DEF FireNext
    <3> QED
      BY <3>1
  <2> QED
    BY <2>2, <2>3, <2>4
<1>11. CASE Exit
  BY <1>11 DEF Exit
<1>12. CASE Pause
  <2>1. \A e \in Events : object'.state[e] # "sleeping" <=> object.state[e] # "sleeping"
    BY <1>12 DEF Pause, Moved, ObjectOK
  <2>2. /\ object'.table = object.table /\ object'.main = object.main
        /\ object'.index = object.index
    BY <1>12 DEF Pause, ObjectOK
  <2>3. monitor' = monitor /\ player' = player /\ pc'["monitor"] = pc["monitor"]
    BY <1>12 DEF Pause
  <2> QED
    BY <2>1, <2>2, <2>3 DEF InStep
<1>13. CASE Resume
  <2>1. \A e \in Events : object'.state[e] # "sleeping" <=> object.state[e] # "sleeping"
    BY <1>13 DEF Resume, Moved, ObjectOK
  <2>2. /\ object'.table = object.table /\ object'.main = object.main
        /\ object'.index = object.index
    BY <1>13 DEF Resume, ObjectOK
  <2>3. monitor' = monitor /\ player' = player /\ pc'["monitor"] = pc["monitor"]
    BY <1>13 DEF Resume
  <2> QED
    BY <2>1, <2>2, <2>3 DEF InStep
<1>14. CASE Stop
  BY <1>14 DEF Stop
<1>15. CASE PauseClock
  BY <1>15 DEF PauseClock
<1>16. CASE PausePlayer
  BY <1>16 DEF PausePlayer, HasMonitor
<1>17. CASE PauseSignal
  BY <1>17 DEF PauseSignal, WakeUp, Woken
<1>18. CASE PauseMonitor
  BY <1>18 DEF PauseMonitor
<1>19. CASE ResumePlayer
  BY <1>19 DEF ResumePlayer, HasMonitor
<1>20. CASE ResumeMonitor
  BY <1>20 DEF ResumeMonitor
<1>21. CASE ResumeSignal
  BY <1>21 DEF ResumeSignal, Unlock, Woken
<1>22. ASSUME NEW t \in {"monitor", "command"}, StopFlags(t) PROVE AnchorInv'
  <2>1. monitor'.stopped \/ (monitor' = monitor /\ pc'["monitor"] # "fire" /\ t = "monitor")
        \/ (monitor' = monitor /\ pc'["monitor"] = pc["monitor"])
    BY <1>22 DEF StopFlags, After
  <2>2. object' = object /\ player' = player
    BY <1>22 DEF StopFlags
  <2> QED
    BY <2>1, <2>2
<1>23. ASSUME NEW t \in {"monitor", "command"}, StopSignal(t) PROVE AnchorInv'
  BY <1>23 DEF StopSignal, WakeUp, Unlock, Woken
<1>24. ASSUME NEW t \in {"monitor", "command"}, StopPlayer(t) PROVE AnchorInv'
  BY <1>24 DEF StopPlayer
<1>25. ASSUME NEW t \in {"monitor", "command"}, StopEvents(t) PROVE AnchorInv'
  <2>1. monitor.stopped /\ monitor' = monitor
    BY <1>25 DEF StopEvents
  <2> QED
    BY <2>1
<1>26. ASSUME NEW t \in {"monitor", "command"}, StopIndex(t) PROVE AnchorInv'
  <2>1. monitor.stopped /\ monitor' = monitor
    BY <1>26 DEF StopIndex
  <2> QED
    BY <2>1
<1>27. ASSUME NEW t \in {"monitor", "command"}, Unprepare(t) PROVE AnchorInv'
  <2>1. monitor.stopped /\ monitor' = monitor
    BY <1>27 DEF Unprepare
  <2> QED
    BY <2>1
<1>28. CASE UNCHANGED vars
  BY <1>28 DEF vars
<1> QED
  BY <1>1, <1>2, <1>3, <1>4, <1>5, <1>6, <1>7, <1>8, <1>9, <1>10, <1>11,
     <1>12, <1>13, <1>14, <1>15, <1>16, <1>17, <1>18, <1>19, <1>20, <1>21,
     <1>22, <1>23, <1>24, <1>25, <1>26, <1>27, <1>28 DEF Next, MonitorThread,
     CommandThread, RunMonitor, RunStop, RunCommand
-----------------------------------------------------------------------------
(* The inductive invariant                                                 *)
IInv == TypeOK /\ PhaseInv /\ ClockInv /\ ValueInv /\ AnchorInv

(* It holds at the start, without a presentation,                          *)
LEMMA InitIInv == Init => IInv
<1> SUFFICES ASSUME Init PROVE IInv
  OBVIOUS
<1>1. PICK table \in Tables, main \in Mains :
        object = [main |-> main, table |-> table, index |-> 0, startIx |-> 0,
                  state |-> [e \in Events |-> "sleeping"], pauseCount |-> 0]
  BY DEF Init
<1>2. Ordered(table) /\ main \in Events /\ Infinity \in Nat
  BY TablesAssumption, MonitorAssumption, EventsAssumption
<1>3. ObjectOK /\ Len(object.table) \in Nat
  <2>1. table \in Seq(Transition) /\ Len(table) \in Nat
    BY <1>2 DEF Ordered
  <2>2. [e \in Events |-> "sleeping"] \in [Events -> States]
    OBVIOUS
  <2> QED
    BY <1>1, <1>2, <2>1, <2>2 DEF ObjectOK
<1>4. PlayerOK /\ PcOK
  BY DEF Init, PlayerOK, PcOK
<1>5. MonitorOK
  BY <1>2, <1>3 DEF Init, MonitorOK
<1>6. TypeOK
  BY <1>3, <1>4, <1>5 DEF Init, TypeOK
<1>7. PhaseInv
  BY <1>1, <1>2 DEF Init, PhaseInv
<1>8. ClockInv
  BY DEF Init, ClockInv
<1>9. ValueInv /\ AnchorInv
  BY DEF Init, ValueInv, AnchorInv, Started
<1> QED
  BY <1>6, <1>7, <1>8, <1>9 DEF IInv

(* and after every step.                                                   *)
LEMMA NextIInv == IInv /\ [Next]_vars => IInv'
BY TypesKept, PhaseKept, ClockKept, ValueKept, AnchorKept DEF IInv

(* The invariant the others follow from                                    *)
THEOREM Invariance == Spec => []IInv
<1>1. Init => IInv
  BY InitIInv
<1>2. IInv /\ [Next]_vars => IInv'
  BY NextIInv
<1> QED
  BY <1>1, <1>2, PTL DEF Spec

(* Every member has its type at all times; neither the index nor the one   *)
(* the monitor works with leaves the table, whatever stops in between.     *)
THEOREM Types == Spec => []TypeOK
<1>1. IInv => TypeOK
  BY DEF IInv
<1> QED
  BY <1>1, Invariance, PTL

(* Until it is stopped, an event of the presentation occurs or is paused   *)
(* exactly when its beginning is done and its end is not: for any number   *)
(* of events, and whenever the monitor wakes (updateTransitionTable).      *)
THEOREM AnchorsStayInStep == Spec => []AnchorsInStep
<1>1. ASSUME IInv PROVE AnchorsInStep
  <2>1. Ordered(object.table)
    BY <1>1, TablesAssumption DEF IInv, PhaseInv
  <2>2. \A i, j \in DOMAIN object.table :
          i < j => object.table[i].time <= object.table[j].time
    BY <2>1 DEF Ordered
  <2> QED
    BY <1>1, <2>2 DEF IInv, AnchorInv, InStep, AnchorsInStep
<1> QED
  BY <1>1, Invariance, PTL

(* The monitor does no transition more than the tolerance before its time. *)
THEOREM MonitorNeverEarly == Spec => NeverEarly
<1> DEFINE Early(e) ==
      (/\ ~clockOff /\ pc["monitor"] = "fire" /\ MonitorThread
       /\ object'.state[e] # object.state[e])
      => played + Tolerance >=
           IF object'.state[e] = "sleeping" THEN End[e] ELSE Begin[e]
<1>1. ASSUME IInv, Next PROVE \A e \in Events : Early(e)
  <2>1. SUFFICES ASSUME NEW e \in Events, ~clockOff, pc["monitor"] = "fire",
                        MonitorThread, object'.state[e] # object.state[e]
                 PROVE  played + Tolerance >=
                          IF object'.state[e] = "sleeping" THEN End[e] ELSE Begin[e]
    OBVIOUS
  <2>2. FireNext
    BY <2>1 DEF MonitorThread, RunMonitor, RunStop, MonitorAt, Test, GetNext, Measure,
       FallAsleep, Awake, CheckDue, ReadIndex, Exit, StopFlags, StopSignal, StopPlayer,
       StopEvents, StopIndex, Unprepare
  <2>3. Ordered(object.table) /\ monitor.ix \in Nat
    BY <1>1, TablesAssumption DEF IInv, PhaseInv, TypeOK, MonitorOK
  <2> DEFINE t == object.table[monitor.ix + 1]
  <2>4. /\ Due(object.table, monitor.ix, monitor.value)
        /\ object' = [object EXCEPT !.state = Fire(object.state, t),
                                    !.index = monitor.ix + 1]
    BY <2>1, <2>2 DEF FireNext
  <2>5. monitor.ix + 1 \in DOMAIN object.table /\ t.time <= monitor.value
    BY <2>3, <2>4, Entries DEF Due
  <2>6. t \in {BeginOf(t.ev), EndOf(t.ev)} /\ t.ev \in Events /\ t.time \in Nat
    BY <2>3, <2>5, Entries DEF Ordered
  <2>7. monitor.value <= played + Tolerance /\ monitor.value \in Int
    BY <1>1, <2>1 DEF IInv, ValueInv, TypeOK, MonitorOK
  <2>8. played + Tolerance >= t.time
    <3>1. played \in Nat /\ Tolerance \in Nat
      BY <1>1, MonitorAssumption DEF IInv, TypeOK
    <3> QED
      BY <2>5, <2>6, <2>7, <3>1
  <2> HIDE DEF t
  <2>9. object'.state = Fire(object.state, t) /\ object.state \in [Events -> States]
    <3>1. object.state \in [Events -> States]
      BY <1>1 DEF IInv, TypeOK, ObjectOK
    <3>2. PICK f : f = Fire(object.state, t)
      OBVIOUS
    <3>3. object' = [object EXCEPT !.state = f, !.index = monitor.ix + 1]
      BY <2>4, <3>2
    <3>4. object'.state = f
      BY <1>1, <3>3 DEF IInv, TypeOK, ObjectOK
    <3> QED
      BY <3>1, <3>2, <3>4
  <2>10. CASE t = BeginOf(t.ev)
    <3>1. t.ev = e /\ object'.state[e] # "sleeping"
      BY <2>1, <2>6, <2>9, <2>10 DEF Fire, BeginOf
    <3> QED
      BY <2>8, <2>10, <3>1 DEF BeginOf
  <2>11. CASE t = EndOf(t.ev)
    <3>1. t.ev = e /\ object'.state[e] = "sleeping"
      BY <2>1, <2>6, <2>9, <2>11 DEF Fire, EndOf
    <3> QED
      BY <2>8, <2>11, <3>1 DEF EndOf
  <2> QED
    BY <2>6, <2>10, <2>11
<1>2. IInv /\ [Next]_vars => [\A e \in Events : Early(e)]_vars
  BY <1>1
<1> QED
  BY <1>2, Invariance, PTL DEF Spec, NeverEarly
=============================================================================
