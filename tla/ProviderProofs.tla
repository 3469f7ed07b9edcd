---------------------------- MODULE ProviderProofs ----------------------------
(***************************************************************************)
(* What holds of Provider for every set of pids and buffers and all        *)
(* bounds.  The invariants are proved in three rounds, each of which may   *)
(* use the earlier ones: who runs when (PhaseInv), which filters both      *)
(* sides know (FilterInv), where the buffers are (BufferInv).              *)
(***************************************************************************)
EXTENDS Provider, FiniteSetTheorems, TLAPS

(* While the controlling thread is busy nothing is tuned; the other two    *)
(* threads exist exactly from start to the place where stop joins them;    *)
(* each holds a buffer, or those of a cleanup, only inside its own steps;  *)
(* and sections wait only while something is tuned or is being stopped.    *)
PhaseInv ==
  /\ control # "ready" => status = "idle"
  /\ parser = "none" <=> ~Running(status) \/ control = "delete"
  /\ thread = "none" <=> ~Running(status) \/ control \in {"lost", "delete"}
  /\ parserBuf # NoBuffer <=> parser = "enqueue"
  /\ processBuf # NoBuffer => thread = "run"
  /\ job.op # "none" => thread = "run"
  /\ toFree["control"] # {} => control = "free"
  /\ toFree["provider"] # {} => job.op = "free"
  /\ IdleIsClean

HalfStopped == job.op \in {"free", "unfilter"}

(* The demuxer filters what the provider has registered, and the pid that  *)
(* is half stopped.                                                        *)
FilterInv ==
  /\ demuxFilters = filters \cup (IF HalfStopped THEN {job.pid} ELSE {})
  /\ HalfStopped => job.pid \notin filters
  /\ FilterAlive
  /\ control = "delete" => filters = {}

Inv == TypeOK /\ PhaseInv /\ FilterInv /\ BuffersConserved

USE DEF Running, HalfStopped, Cleaners
-----------------------------------------------------------------------------
(* Every step leaves every variable with its type.                         *)
LEMMA TypesKept == DataTypeOK /\ ThreadTypeOK /\ PhaseInv /\ [Next]_vars
                     => DataTypeOK' /\ ThreadTypeOK'
<1> SUFFICES ASSUME DataTypeOK, ThreadTypeOK, PhaseInv, [Next]_vars PROVE DataTypeOK' /\ ThreadTypeOK'
  OBVIOUS
<1>1. CASE Start
  BY <1>1 DEF Start, DataTypeOK, ThreadTypeOK, filterVars, taskVars
<1>2. CASE StartFails
  BY <1>2 DEF StartFails, DataTypeOK, ThreadTypeOK, queueVars, filterVars,
     parserVars, threadVars, taskVars
<1>3. CASE SetNetwork
  BY <1>3 DEF SetNetwork, StopCurrent, DataTypeOK, ThreadTypeOK, queueVars,
     filterVars, parserVars, threadVars, taskVars
<1>4. CASE Stop
  <2>1. status' \in {"off", "fail", "idle", "tuned"} /\ stopping' \in BOOLEAN
    BY <1>4 DEF Stop, StopCurrent, DataTypeOK, ThreadTypeOK
  <2>2. control' \in {"ready", "stopNetwork", "signal"}
    BY <1>4 DEF Stop, StopCurrent
  <2> QED
    BY <1>4, <2>1, <2>2 DEF Stop, DataTypeOK, ThreadTypeOK,
       queueVars, filterVars, parserVars, threadVars, taskVars
<1>5. CASE Clean
  BY <1>5 DEF Clean, Cleanup, BuffersOf, DataTypeOK, ThreadTypeOK,
     FilterData, filterVars, parserVars, threadVars, taskVars
<1>6. CASE Tune
  <2>1. network' \in Nat /\ status' \in {"off", "fail", "idle", "tuned"}
    BY <1>6 DEF Tune, DataTypeOK
  <2> QED
    BY <1>6, <2>1 DEF Tune, DataTypeOK, ThreadTypeOK, queueVars, filterVars,
       threadVars, taskVars
<1>7. CASE Signal
  BY <1>7 DEF Signal, DataTypeOK, ThreadTypeOK, queueVars, filterVars,
     parserVars, threadVars, taskVars
<1>8. CASE Join
  BY <1>8 DEF Join, DataTypeOK, ThreadTypeOK, queueVars, filterVars,
     parserVars, taskVars
<1>9. ASSUME NEW p \in Pids, StopLostFilter(p) PROVE DataTypeOK' /\ ThreadTypeOK'
  BY <1>9 DEF StopLostFilter, DataTypeOK, ThreadTypeOK, queueVars,
     parserVars, threadVars, controlVars, taskVars
<1>10. CASE StopEngine
  BY <1>10 DEF StopEngine, DataTypeOK, ThreadTypeOK, queueVars, filterVars,
     threadVars, taskVars
<1>11. CASE DeletePool
  BY <1>11 DEF DeletePool, DataTypeOK, ThreadTypeOK, filterVars, parserVars,
     threadVars, taskVars
<1>12. ASSUME NEW t \in Tasks, EnqueueTask(t) PROVE DataTypeOK' /\ ThreadTypeOK'
  <2>1. Append(tasks, t) \in Seq(Tasks)
    BY <1>12 DEF DataTypeOK
  <2>2. tasks' \in Seq(Tasks) /\ sent' \in Nat
    BY <1>12, <2>1 DEF EnqueueTask, DataTypeOK
  <2> QED
    BY <1>12, <2>2 DEF EnqueueTask, DataTypeOK, ThreadTypeOK,
       queueVars, filterVars, parserVars, threadVars, controlVars
<1>13. ASSUME NEW p \in Pids, FindFilter(p) PROVE DataTypeOK' /\ ThreadTypeOK'
  BY <1>13 DEF FindFilter, DataTypeOK, ThreadTypeOK, queueVars, filterVars,
     threadVars, controlVars, taskVars
<1>14. ASSUME NEW b \in Buffers, Alloc(b) PROVE DataTypeOK' /\ ThreadTypeOK'
  BY <1>14 DEF Alloc, DataTypeOK, ThreadTypeOK, filterVars, threadVars,
     controlVars, taskVars
<1>15. CASE Enqueue
  <2>1. parserBuf \in Buffers
    BY <1>15 DEF Enqueue, PhaseInv, ThreadTypeOK
  <2>2. [buf |-> parserBuf, pid |-> section.pid, net |-> section.net]
          \in FilterData
    BY <2>1 DEF ThreadTypeOK, FilterData
  <2>3. filtersData' \subseteq FilterData /\ pool' \subseteq Buffers
    BY <1>15, <2>1, <2>2 DEF Enqueue, DataTypeOK
  <2>4. /\ parserBuf' \in Buffers \cup {NoBuffer} /\ found' \in Nat
        /\ parser' \in {"parse", "alloc"}
    BY <1>15 DEF Enqueue, ThreadTypeOK
  <2> QED
    BY <1>15, <2>3, <2>4 DEF Enqueue, DataTypeOK, ThreadTypeOK,
       filterVars, threadVars, controlVars, taskVars
<1>16. CASE WaitExit
  BY <1>16 DEF WaitExit, DataTypeOK, ThreadTypeOK, queueVars, filterVars,
     parserVars, controlVars, taskVars
<1>17. CASE WaitTask
  <2>1. Head(tasks) \in Tasks /\ Tail(tasks) \in Seq(Tasks)
    BY <1>17 DEF WaitTask, DataTypeOK, ThreadTypeOK
  <2>2. job' \in Jobs
    BY <1>17, <2>1 DEF WaitTask, Tasks, Jobs
  <2> QED
    BY <1>17, <2>1, <2>2 DEF WaitTask, DataTypeOK, ThreadTypeOK,
       queueVars, filterVars, parserVars, controlVars
<1>18. ASSUME NEW d \in filtersData, WaitFilter(d) PROVE DataTypeOK' /\ ThreadTypeOK'
  BY <1>18 DEF WaitFilter, DataTypeOK, ThreadTypeOK, Tasks, Jobs,
     FilterData, filterVars, parserVars, controlVars, taskVars
<1>19. CASE StartFilter
  BY <1>19 DEF StartFilter, Does, JobDone, DataTypeOK, ThreadTypeOK, Tasks,
     Jobs, FilterData, queueVars, filterVars, parserVars, controlVars,
     taskVars
<1>20. CASE RemoveFilter
  <2>1. filters' \subseteq Pids /\ filtersData' \subseteq FilterData
    BY <1>20 DEF RemoveFilter, Cleanup, DataTypeOK
  <2>2. BuffersOf({d \in filtersData : d.pid = job.pid}) \subseteq Buffers
    BY DEF BuffersOf, FilterData, DataTypeOK
  <2>3. toFree' \in [Cleaners -> SUBSET Buffers]
    BY <1>20, <2>2 DEF RemoveFilter, Cleanup, DataTypeOK
  <2>4. job' \in Jobs
    BY <1>20 DEF RemoveFilter, JobDone, Jobs, ThreadTypeOK
  <2> QED
    BY <1>20, <2>1, <2>3, <2>4 DEF RemoveFilter, DataTypeOK, ThreadTypeOK,
       parserVars, controlVars, taskVars
<1>21. CASE Unfilter
  BY <1>21 DEF Unfilter, Does, JobDone, DataTypeOK, ThreadTypeOK, Tasks,
     Jobs, FilterData, queueVars, parserVars, controlVars, taskVars
<1>22. CASE Finish
  BY <1>22 DEF Finish, Does, DataTypeOK, ThreadTypeOK, filterVars,
     parserVars, controlVars, taskVars
<1>23. CASE TakeTasks
  BY <1>23 DEF TakeTasks, DataTypeOK, ThreadTypeOK, queueVars, filterVars,
     parserVars, controlVars
<1>24. CASE RunNext
  <2>1. Head(toRun) \in Tasks /\ Tail(toRun) \in Seq(Tasks)
    BY <1>24 DEF RunNext, DataTypeOK, ThreadTypeOK
  <2>2. job' \in Jobs
    BY <1>24, <2>1 DEF RunNext, Tasks, Jobs
  <2> QED
    BY <1>24, <2>1, <2>2 DEF RunNext, DataTypeOK, ThreadTypeOK,
       queueVars, filterVars, parserVars, controlVars, taskVars
<1>25. CASE UNCHANGED vars
  BY <1>25 DEF DataTypeOK, ThreadTypeOK, vars, queueVars, filterVars,
     parserVars, threadVars, controlVars, taskVars
<1>26. CASE FreeCleaned
  BY <1>26, ProviderAssumption DEF FreeCleaned, FreeAll, DataTypeOK,
     ThreadTypeOK, Tasks, Jobs, filterVars, parserVars, threadVars, taskVars
<1>27. CASE StopNetwork
  BY <1>27, ProviderAssumption DEF StopNetwork, DataTypeOK, ThreadTypeOK,
     Tasks, Jobs, queueVars, filterVars, threadVars, taskVars
<1>28. CASE TakeData
  <2>1. section' \in [pid : Pids, net : Nat]
    BY <1>28 DEF TakeData, DataTypeOK, ThreadTypeOK
  <2>2. /\ parser' = "parse" /\ late' = FALSE
        /\ UNCHANGED <<queueVars, filterVars, parserBuf, found, threadVars,
                       controlVars, taskVars>>
    BY <1>28 DEF TakeData
  <2>3. DataTypeOK'
    BY <2>2 DEF DataTypeOK, queueVars, filterVars, controlVars, taskVars
  <2>4. /\ UNCHANGED <<parserBuf, found, thread, job, processBuf, toRun>>
        /\ UNCHANGED <<exiting, needStop, control, stopping>>
    BY <2>2 DEF threadVars, controlVars
  <2>5. ThreadTypeOK'
    BY <2>1, <2>2, <2>4 DEF ThreadTypeOK
  <2> QED
    BY <2>3, <2>5
<1>29. CASE FinishBuffer
  BY <1>29, ProviderAssumption DEF FinishBuffer, DataTypeOK, ThreadTypeOK,
     Tasks, Jobs, queueVars, filterVars, threadVars, controlVars, taskVars
<1>30. CASE FreeRemoved
  BY <1>30, ProviderAssumption DEF FreeRemoved, FreeAll, Does, DataTypeOK,
     ThreadTypeOK, Tasks, Jobs, filterVars, parserVars, controlVars,
     taskVars
<1> QED
  BY <1>1, <1>2, <1>3, <1>4, <1>5, <1>6, <1>7, <1>8, <1>9, <1>10, <1>11,
     <1>12, <1>13, <1>14, <1>15, <1>16, <1>17, <1>18, <1>19, <1>20, <1>21,
     <1>22, <1>23, <1>24, <1>25,
     <1>26, <1>27, <1>28, <1>29, <1>30 DEF Next, Controlling, Parser,
     ProviderThread

(* Every step keeps the threads in phase.                                  *)
LEMMA PhasesKept == DataTypeOK /\ ThreadTypeOK /\ PhaseInv /\ [Next]_vars => PhaseInv'
<1> SUFFICES ASSUME DataTypeOK, ThreadTypeOK, PhaseInv, [Next]_vars PROVE PhaseInv'
  OBVIOUS
<1>1. CASE Start
  BY <1>1, ProviderAssumption DEF Start, PhaseInv, IdleIsClean, DataTypeOK,
     ThreadTypeOK, filterVars, taskVars
<1>2. CASE StartFails
  BY <1>2 DEF StartFails, PhaseInv, IdleIsClean, DataTypeOK, ThreadTypeOK,
     queueVars, filterVars, parserVars, threadVars, taskVars
<1>3. CASE SetNetwork
  BY <1>3 DEF SetNetwork, StopCurrent, PhaseInv, IdleIsClean, DataTypeOK,
     ThreadTypeOK, queueVars, filterVars, parserVars, threadVars, taskVars
<1>4. CASE Stop
  BY <1>4 DEF Stop, StopCurrent, PhaseInv, IdleIsClean, DataTypeOK,
     ThreadTypeOK, queueVars, filterVars, parserVars, threadVars, taskVars
<1>5. CASE Clean
  BY <1>5 DEF Clean, Cleanup, BuffersOf, PhaseInv, IdleIsClean, DataTypeOK,
     ThreadTypeOK, filterVars, parserVars, threadVars, taskVars
<1>6. CASE Tune
  BY <1>6 DEF Tune, PhaseInv, IdleIsClean, DataTypeOK, ThreadTypeOK,
     queueVars, filterVars, parserVars, threadVars, taskVars
<1>7. CASE Signal
  BY <1>7 DEF Signal, PhaseInv, IdleIsClean, DataTypeOK, ThreadTypeOK,
     queueVars, filterVars, parserVars, threadVars, taskVars
<1>8. CASE Join
  BY <1>8 DEF Join, PhaseInv, IdleIsClean, DataTypeOK, ThreadTypeOK,
     queueVars, filterVars, parserVars, taskVars
<1>9. ASSUME NEW p \in Pids, StopLostFilter(p) PROVE PhaseInv'
  BY <1>9 DEF StopLostFilter, PhaseInv, IdleIsClean, DataTypeOK,
     ThreadTypeOK, queueVars, parserVars, threadVars, controlVars, taskVars
<1>10. CASE StopEngine
  BY <1>10 DEF StopEngine, PhaseInv, IdleIsClean, DataTypeOK, ThreadTypeOK,
     queueVars, filterVars, threadVars, taskVars
<1>11. CASE DeletePool
  BY <1>11 DEF DeletePool, PhaseInv, IdleIsClean, DataTypeOK, ThreadTypeOK,
     filterVars, parserVars, threadVars, taskVars
<1>12. ASSUME NEW t \in Tasks, EnqueueTask(t) PROVE PhaseInv'
  BY <1>12 DEF EnqueueTask, PhaseInv, IdleIsClean, DataTypeOK, ThreadTypeOK,
     queueVars, filterVars, parserVars, threadVars, controlVars
<1>13. ASSUME NEW p \in Pids, FindFilter(p) PROVE PhaseInv'
  BY <1>13 DEF FindFilter, PhaseInv, IdleIsClean, DataTypeOK, ThreadTypeOK,
     queueVars, filterVars, threadVars, controlVars, taskVars
<1>14. ASSUME NEW b \in Buffers, Alloc(b) PROVE PhaseInv'
  BY <1>14, ProviderAssumption DEF Alloc, PhaseInv, IdleIsClean, DataTypeOK,
     ThreadTypeOK, Tasks, Jobs, FilterData, filterVars, threadVars,
     controlVars, taskVars
<1>15. CASE Enqueue
  BY <1>15, ProviderAssumption DEF Enqueue, PhaseInv, IdleIsClean,
     DataTypeOK, ThreadTypeOK, filterVars, threadVars, controlVars, taskVars
<1>16. CASE WaitExit
  BY <1>16 DEF WaitExit, PhaseInv, IdleIsClean, DataTypeOK, ThreadTypeOK,
     queueVars, filterVars, parserVars, controlVars, taskVars
<1>17. CASE WaitTask
  BY <1>17 DEF WaitTask, PhaseInv, IdleIsClean, DataTypeOK, ThreadTypeOK,
     queueVars, filterVars, parserVars, controlVars
<1>18. ASSUME NEW d \in filtersData, WaitFilter(d) PROVE PhaseInv'
  BY <1>18, ProviderAssumption DEF WaitFilter, PhaseInv, IdleIsClean,
     DataTypeOK, ThreadTypeOK, Tasks, Jobs, FilterData, filterVars,
     parserVars, controlVars, taskVars
<1>19. CASE StartFilter
  BY <1>19 DEF StartFilter, Does, JobDone, PhaseInv, IdleIsClean,
     DataTypeOK, ThreadTypeOK, Tasks, Jobs, FilterData, queueVars,
     filterVars, parserVars, controlVars, taskVars
<1>20. CASE RemoveFilter
  BY <1>20 DEF RemoveFilter, Does, JobDone, Cleanup, BuffersOf, PhaseInv,
     IdleIsClean, DataTypeOK, ThreadTypeOK, Tasks, Jobs, FilterData,
     queueVars, parserVars, controlVars, taskVars
<1>21. CASE Unfilter
  BY <1>21 DEF Unfilter, Does, JobDone, PhaseInv, IdleIsClean, DataTypeOK,
     ThreadTypeOK, Tasks, Jobs, FilterData, queueVars, parserVars,
     controlVars, taskVars
<1>22. CASE Finish
  BY <1>22, ProviderAssumption DEF Finish, Does, PhaseInv, IdleIsClean,
     DataTypeOK, ThreadTypeOK, Tasks, Jobs, FilterData, filterVars,
     parserVars, controlVars, taskVars
<1>23. CASE TakeTasks
  BY <1>23 DEF TakeTasks, PhaseInv, IdleIsClean, DataTypeOK, ThreadTypeOK,
     queueVars, filterVars, parserVars, controlVars
<1>24. CASE RunNext
  BY <1>24 DEF RunNext, PhaseInv, IdleIsClean, DataTypeOK, ThreadTypeOK,
     queueVars, filterVars, parserVars, controlVars, taskVars
<1>25. CASE UNCHANGED vars
  BY <1>25 DEF PhaseInv, IdleIsClean, DataTypeOK, ThreadTypeOK, vars,
     queueVars, filterVars, parserVars, threadVars, controlVars, taskVars
<1>26. CASE FreeCleaned
  BY <1>26, ProviderAssumption DEF FreeCleaned, FreeAll, PhaseInv,
     IdleIsClean, DataTypeOK, ThreadTypeOK, Tasks, Jobs, filterVars,
     parserVars, threadVars, taskVars
<1>27. CASE StopNetwork
  BY <1>27, ProviderAssumption DEF StopNetwork, PhaseInv, IdleIsClean,
     DataTypeOK, ThreadTypeOK, Tasks, Jobs, queueVars, filterVars,
     threadVars, taskVars
<1>28. CASE TakeData
  BY <1>28, ProviderAssumption DEF TakeData, PhaseInv, IdleIsClean,
     DataTypeOK, ThreadTypeOK, Tasks, Jobs, queueVars, filterVars,
     threadVars, controlVars, taskVars
<1>29. CASE FinishBuffer
  BY <1>29, ProviderAssumption DEF FinishBuffer, PhaseInv, IdleIsClean,
     DataTypeOK, ThreadTypeOK, Tasks, Jobs, queueVars, filterVars,
     threadVars, controlVars, taskVars
<1>30. CASE FreeRemoved
  BY <1>30, ProviderAssumption DEF FreeRemoved, FreeAll, Does, PhaseInv,
     IdleIsClean, DataTypeOK, ThreadTypeOK, Tasks, Jobs, filterVars,
     parserVars, controlVars, taskVars
<1> QED
  BY <1>1, <1>2, <1>3, <1>4, <1>5, <1>6, <1>7, <1>8, <1>9, <1>10, <1>11,
     <1>12, <1>13, <1>14, <1>15, <1>16, <1>17, <1>18, <1>19, <1>20, <1>21,
     <1>22, <1>23, <1>24, <1>25,
     <1>26, <1>27, <1>28, <1>29, <1>30 DEF Next, Controlling, Parser,
     ProviderThread

(* Every step keeps the provider and the demuxer in agreement.             *)
LEMMA FiltersKept == DataTypeOK /\ ThreadTypeOK /\ PhaseInv /\ FilterInv /\ [Next]_vars
                       => FilterInv'
<1> SUFFICES ASSUME DataTypeOK, ThreadTypeOK, PhaseInv, FilterInv, [Next]_vars PROVE FilterInv'
  OBVIOUS
<1>1. CASE Start
  BY <1>1 DEF Start, FilterInv, FilterAlive, ParserHoldsDemuxer, PhaseInv,
     filterVars, taskVars
<1>2. CASE StartFails
  BY <1>2 DEF StartFails, FilterInv, FilterAlive, ParserHoldsDemuxer,
     PhaseInv, queueVars, filterVars, parserVars, threadVars, taskVars
<1>3. CASE SetNetwork
  BY <1>3 DEF SetNetwork, StopCurrent, FilterInv, FilterAlive,
     ParserHoldsDemuxer, PhaseInv, queueVars, filterVars, parserVars,
     threadVars, taskVars
<1>4. CASE Stop
  BY <1>4 DEF Stop, StopCurrent, FilterInv, FilterAlive, ParserHoldsDemuxer,
     PhaseInv, queueVars, filterVars, parserVars, threadVars, taskVars
<1>5. CASE Clean
  BY <1>5 DEF Clean, Cleanup, BuffersOf, FilterInv, FilterAlive,
     ParserHoldsDemuxer, PhaseInv, filterVars, parserVars, threadVars,
     taskVars
<1>6. CASE Tune
  BY <1>6 DEF Tune, FilterInv, FilterAlive, ParserHoldsDemuxer, PhaseInv,
     queueVars, filterVars, parserVars, threadVars, taskVars
<1>7. CASE Signal
  BY <1>7 DEF Signal, FilterInv, FilterAlive, ParserHoldsDemuxer, PhaseInv,
     queueVars, filterVars, parserVars, threadVars, taskVars
<1>8. CASE Join
  BY <1>8 DEF Join, FilterInv, FilterAlive, ParserHoldsDemuxer, PhaseInv,
     queueVars, filterVars, parserVars, taskVars
<1>9. ASSUME NEW p \in Pids, StopLostFilter(p) PROVE FilterInv'
  BY <1>9 DEF StopLostFilter, FilterInv, FilterAlive, ParserHoldsDemuxer,
     PhaseInv, queueVars, parserVars, threadVars, controlVars, taskVars
<1>10. CASE StopEngine
  BY <1>10 DEF StopEngine, FilterInv, FilterAlive, ParserHoldsDemuxer,
     PhaseInv, queueVars, filterVars, threadVars, taskVars
<1>11. CASE DeletePool
  BY <1>11 DEF DeletePool, FilterInv, FilterAlive, ParserHoldsDemuxer,
     PhaseInv, filterVars, parserVars, threadVars, taskVars
<1>12. ASSUME NEW t \in Tasks, EnqueueTask(t) PROVE FilterInv'
  BY <1>12 DEF EnqueueTask, FilterInv, FilterAlive, ParserHoldsDemuxer,
     PhaseInv, queueVars, filterVars, parserVars, threadVars, controlVars
<1>13. ASSUME NEW p \in Pids, FindFilter(p) PROVE FilterInv'
  BY <1>13 DEF FindFilter, FilterInv, FilterAlive, ParserHoldsDemuxer,
     PhaseInv, queueVars, filterVars, threadVars, controlVars, taskVars
<1>14. ASSUME NEW b \in Buffers, Alloc(b) PROVE FilterInv'
  BY <1>14 DEF Alloc, FilterInv, FilterAlive, ParserHoldsDemuxer, PhaseInv,
     filterVars, threadVars, controlVars, taskVars
<1>15. CASE Enqueue
  BY <1>15 DEF Enqueue, FilterInv, FilterAlive, ParserHoldsDemuxer,
     PhaseInv, filterVars, threadVars, controlVars, taskVars
<1>16. CASE WaitExit
  BY <1>16 DEF WaitExit, FilterInv, FilterAlive, ParserHoldsDemuxer,
     PhaseInv, queueVars, filterVars, parserVars, controlVars, taskVars
<1>17. CASE WaitTask
  <2>1. Head(tasks) \in Tasks
    BY <1>17 DEF WaitTask, DataTypeOK, ThreadTypeOK
  <2>2. job'.op \notin {"free", "unfilter"} /\ job.op = "none"
    BY <1>17, <2>1 DEF WaitTask, Tasks, PhaseInv, ThreadTypeOK, Jobs
  <2> QED
    BY <1>17, <2>2 DEF WaitTask, FilterInv, FilterAlive, ParserHoldsDemuxer,
       queueVars, filterVars, parserVars, controlVars
<1>18. ASSUME NEW d \in filtersData, WaitFilter(d) PROVE FilterInv'
  BY <1>18 DEF WaitFilter, FilterInv, FilterAlive, ParserHoldsDemuxer,
     PhaseInv, ThreadTypeOK, Tasks, Jobs, filterVars, parserVars,
     controlVars, taskVars
<1>19. CASE StartFilter
  BY <1>19 DEF StartFilter, Does, JobDone, FilterInv, FilterAlive,
     ParserHoldsDemuxer, PhaseInv, ThreadTypeOK, Tasks, Jobs, queueVars,
     filterVars, parserVars, controlVars, taskVars
<1>20. CASE RemoveFilter
  BY <1>20 DEF RemoveFilter, Does, JobDone, Cleanup, BuffersOf, FilterInv,
     FilterAlive, ParserHoldsDemuxer, PhaseInv, ThreadTypeOK, Tasks, Jobs,
     queueVars, parserVars, controlVars, taskVars
<1>21. CASE Unfilter
  <2>1. thread = "run" /\ job.op = "unfilter" /\ job'.op = "none"
    BY <1>21 DEF Unfilter, Does, JobDone, ThreadTypeOK, Jobs
  <2>2. control # "delete"
    BY <2>1 DEF PhaseInv
  <2>3. job.pid \notin filters
    BY <2>1 DEF FilterInv
  <2>4. demuxFilters' = filters'
    BY <1>21, <2>1, <2>3 DEF Unfilter, FilterInv
  <2>5. ~ParserHoldsDemuxer'
    BY <1>21 DEF Unfilter, ParserHoldsDemuxer, parserVars
  <2> QED
    BY <1>21, <2>1, <2>2, <2>4, <2>5 DEF Unfilter, FilterInv, FilterAlive,
       controlVars
<1>22. CASE Finish
  BY <1>22 DEF Finish, Does, FilterInv, FilterAlive, ParserHoldsDemuxer,
     PhaseInv, filterVars, parserVars, controlVars, taskVars
<1>23. CASE TakeTasks
  BY <1>23 DEF TakeTasks, FilterInv, FilterAlive, ParserHoldsDemuxer,
     PhaseInv, queueVars, filterVars, parserVars, controlVars
<1>24. CASE RunNext
  <2>1. Head(toRun) \in Tasks
    BY <1>24 DEF RunNext, DataTypeOK, ThreadTypeOK
  <2>2. job'.op \notin {"free", "unfilter"} /\ job.op = "none"
    BY <1>24, <2>1 DEF RunNext, Tasks, PhaseInv, ThreadTypeOK, Jobs
  <2> QED
    BY <1>24, <2>2 DEF RunNext, FilterInv, FilterAlive, ParserHoldsDemuxer,
       queueVars, filterVars, parserVars, controlVars, taskVars
<1>25. CASE UNCHANGED vars
  BY <1>25 DEF FilterInv, FilterAlive, ParserHoldsDemuxer, PhaseInv, vars,
     queueVars, filterVars, parserVars, threadVars, controlVars, taskVars
<1>26. CASE FreeCleaned
  BY <1>26, ProviderAssumption DEF FreeCleaned, FreeAll, FilterInv,
     FilterAlive, ParserHoldsDemuxer, PhaseInv, ThreadTypeOK, Tasks, Jobs,
     filterVars, parserVars, threadVars, taskVars
<1>27. CASE StopNetwork
  BY <1>27, ProviderAssumption DEF StopNetwork, FilterInv, FilterAlive,
     ParserHoldsDemuxer, PhaseInv, ThreadTypeOK, Tasks, Jobs, queueVars,
     filterVars, threadVars, taskVars
<1>28. CASE TakeData
  BY <1>28, ProviderAssumption DEF TakeData, FilterInv, FilterAlive,
     ParserHoldsDemuxer, PhaseInv, ThreadTypeOK, Tasks, Jobs, queueVars,
     filterVars, threadVars, controlVars, taskVars
<1>29. CASE FinishBuffer
  BY <1>29, ProviderAssumption DEF FinishBuffer, FilterInv, FilterAlive,
     ParserHoldsDemuxer, PhaseInv, ThreadTypeOK, Tasks, Jobs, queueVars,
     filterVars, threadVars, controlVars, taskVars
<1>30. CASE FreeRemoved
  BY <1>30, ProviderAssumption DEF FreeRemoved, FreeAll, Does, FilterInv,
     FilterAlive, ParserHoldsDemuxer, PhaseInv, ThreadTypeOK, Tasks, Jobs,
     filterVars, parserVars, controlVars, taskVars
<1> QED
  BY <1>1, <1>2, <1>3, <1>4, <1>5, <1>6, <1>7, <1>8, <1>9, <1>10, <1>11,
     <1>12, <1>13, <1>14, <1>15, <1>16, <1>17, <1>18, <1>19, <1>20, <1>21,
     <1>22, <1>23, <1>24, <1>25,
     <1>26, <1>27, <1>28, <1>29, <1>30 DEF Next, Controlling, Parser,
     ProviderThread

(* Every step leaves every buffer in exactly one place.                    *)
LEMMA BuffersKept == DataTypeOK /\ ThreadTypeOK /\ PhaseInv /\ BuffersConserved /\ [Next]_vars
                       => BuffersConserved'
<1> SUFFICES ASSUME DataTypeOK, ThreadTypeOK, PhaseInv, BuffersConserved, [Next]_vars PROVE BuffersConserved'
  OBVIOUS
<1>1. CASE Start
  <2>1. /\ parserBuf = NoBuffer /\ processBuf = NoBuffer
        /\ filtersData = {} /\ toFree["control"] = {}
        /\ toFree["provider"] = {}
    BY <1>1 DEF Start, PhaseInv, IdleIsClean, ThreadTypeOK
  <2>2. /\ pool' = Buffers
        /\ UNCHANGED <<parserBuf, processBuf, filtersData, toFree>>
    BY <1>1 DEF Start
  <2>3. BuffersOf(filtersData') = {}
    BY <2>1, <2>2 DEF BuffersOf
  <2> QED
    BY <2>1, <2>2, <2>3, ProviderAssumption DEF BuffersConserved
<1>2. CASE StartFails
  BY <1>2, ProviderAssumption DEF StartFails, BuffersConserved, BuffersOf,
     PhaseInv, IdleIsClean, DataTypeOK, ThreadTypeOK, queueVars, filterVars,
     parserVars, threadVars, taskVars
<1>3. CASE SetNetwork
  BY <1>3, ProviderAssumption DEF SetNetwork, StopCurrent, BuffersConserved,
     BuffersOf, PhaseInv, IdleIsClean, DataTypeOK, ThreadTypeOK, queueVars,
     filterVars, parserVars, threadVars, taskVars
<1>4. CASE Stop
  BY <1>4, ProviderAssumption DEF Stop, StopCurrent, BuffersConserved,
     BuffersOf, PhaseInv, IdleIsClean, DataTypeOK, ThreadTypeOK, queueVars,
     filterVars, parserVars, threadVars, taskVars
<1>5. CASE Clean
  <2>1. /\ filtersData' = {} /\ pool' = pool
        /\ toFree'["control"] = BuffersOf(filtersData)
        /\ toFree'["provider"] = toFree["provider"]
    BY <1>5 DEF Clean, Cleanup, DataTypeOK
  <2>2. BuffersOf(filtersData') = {}
    BY <2>1 DEF BuffersOf
  <2>3. UNCHANGED <<parserBuf, processBuf, status>>
    BY <1>5 DEF Clean, parserVars, threadVars
  <2>4. status = "idle" /\ toFree["control"] = {}
    BY <1>5 DEF Clean, PhaseInv
  <2> QED
    BY <2>1, <2>2, <2>3, <2>4 DEF BuffersConserved
<1>6. CASE Tune
  BY <1>6, ProviderAssumption DEF Tune, BuffersConserved, BuffersOf,
     PhaseInv, IdleIsClean, DataTypeOK, ThreadTypeOK, queueVars, filterVars,
     parserVars, threadVars, taskVars
<1>7. CASE Signal
  BY <1>7, ProviderAssumption DEF Signal, BuffersConserved, BuffersOf,
     PhaseInv, IdleIsClean, DataTypeOK, ThreadTypeOK, queueVars, filterVars,
     parserVars, threadVars, taskVars
<1>8. CASE Join
  BY <1>8, ProviderAssumption DEF Join, BuffersConserved, BuffersOf,
     PhaseInv, IdleIsClean, DataTypeOK, ThreadTypeOK, queueVars, filterVars,
     parserVars, taskVars
<1>9. ASSUME NEW p \in Pids, StopLostFilter(p) PROVE BuffersConserved'
  BY <1>9, ProviderAssumption DEF StopLostFilter, BuffersConserved,
     BuffersOf, PhaseInv, IdleIsClean, DataTypeOK, ThreadTypeOK, queueVars,
     parserVars, threadVars, controlVars, taskVars
<1>10. CASE StopEngine
  BY <1>10, ProviderAssumption DEF StopEngine, BuffersConserved, BuffersOf,
     PhaseInv, IdleIsClean, DataTypeOK, ThreadTypeOK, queueVars, filterVars,
     threadVars, taskVars
<1>11. CASE DeletePool
  BY <1>11, ProviderAssumption DEF DeletePool, BuffersConserved, BuffersOf,
     PhaseInv, IdleIsClean, DataTypeOK, ThreadTypeOK, filterVars,
     parserVars, threadVars, taskVars
<1>12. ASSUME NEW t \in Tasks, EnqueueTask(t) PROVE BuffersConserved'
  BY <1>12, ProviderAssumption DEF EnqueueTask, BuffersConserved, BuffersOf,
     PhaseInv, IdleIsClean, DataTypeOK, ThreadTypeOK, queueVars, filterVars,
     parserVars, threadVars, controlVars
<1>13. ASSUME NEW p \in Pids, FindFilter(p) PROVE BuffersConserved'
  BY <1>13, ProviderAssumption DEF FindFilter, BuffersConserved, BuffersOf,
     PhaseInv, IdleIsClean, DataTypeOK, ThreadTypeOK, queueVars, filterVars,
     threadVars, controlVars, taskVars
<1>14. ASSUME NEW b \in Buffers, Alloc(b) PROVE BuffersConserved'
  BY <1>14, ProviderAssumption DEF Alloc, BuffersConserved, BuffersOf,
     PhaseInv, IdleIsClean, DataTypeOK, ThreadTypeOK, filterVars,
     threadVars, controlVars, taskVars
<1>15. CASE Enqueue
  <2>1. parserBuf # NoBuffer /\ parserBuf' = NoBuffer
    BY <1>15 DEF Enqueue, PhaseInv
  <2>2. UNCHANGED <<processBuf, status, toFree>>
    BY <1>15 DEF Enqueue, threadVars, controlVars
  <2>3. Running(status)
    BY <1>15, <2>1 DEF PhaseInv, Enqueue
  <2> DEFINE Q == BuffersOf(filtersData)  QQ == BuffersOf(filtersData')
             freed == toFree["control"] \cup toFree["provider"]
  <2>4. /\ pool \cup Q \cup freed \cup {parserBuf, processBuf}
             = Buffers \cup ({parserBuf, processBuf} \cap {NoBuffer})
        /\ pool \cap Q = {}
        /\ freed \cap (pool \cup Q) = {}
        /\ toFree["control"] \cap toFree["provider"] = {}
        /\ {parserBuf, processBuf} \cap (pool \cup Q \cup freed) = {}
        /\ parserBuf # processBuf
        /\ \A x, y \in filtersData : x.buf = y.buf => x = y
    BY <2>1, <2>3 DEF BuffersConserved
  <2>5. NoBuffer \notin pool \cup Q \cup freed /\ parserBuf \in Buffers
    BY <2>1, ProviderAssumption
       DEF ThreadTypeOK, DataTypeOK, FilterData, BuffersOf
  <2>6. CASE status = "tuned"
    <3> DEFINE d == [buf |-> parserBuf, pid |-> section.pid,
                     net |-> section.net]
    <3>1. filtersData' = filtersData \cup {d} /\ pool' = pool
      BY <1>15, <2>6 DEF Enqueue
    <3>2. d.buf = parserBuf
      OBVIOUS
    <3> HIDE DEF d
    <3>3. QQ = Q \cup {parserBuf}
      BY <3>1, <3>2 DEF BuffersOf
    <3>4. \A e \in filtersData : e.buf # parserBuf
      BY <2>4 DEF BuffersOf
    <3>5. \A x, y \in filtersData' : x.buf = y.buf => x = y
      BY <2>4, <3>1, <3>2, <3>4
    <3> HIDE DEF Q, QQ
    <3>6. /\ pool' \cup QQ \cup freed \cup {parserBuf', processBuf'}
               = Buffers \cup ({parserBuf', processBuf'} \cap {NoBuffer})
          /\ pool' \cap QQ = {}
          /\ freed \cap (pool' \cup QQ) = {}
          /\ {parserBuf', processBuf'} \cap (pool' \cup QQ \cup freed) = {}
      BY <2>1, <2>2, <2>4, <2>5, <3>1, <3>3
    <3> QED
      BY <2>1, <2>2, <2>4, <3>5, <3>6 DEF BuffersConserved, Q, QQ
  <2>7. CASE status # "tuned"
    <3>1. filtersData' = filtersData /\ pool' = pool \cup {parserBuf}
      BY <1>15, <2>7 DEF Enqueue
    <3>2. QQ = Q
      BY <3>1
    <3> HIDE DEF Q, QQ
    <3>3. /\ pool' \cup QQ \cup freed \cup {parserBuf', processBuf'}
               = Buffers \cup ({parserBuf', processBuf'} \cap {NoBuffer})
          /\ pool' \cap QQ = {}
          /\ freed \cap (pool' \cup QQ) = {}
          /\ {parserBuf', processBuf'} \cap (pool' \cup QQ \cup freed) = {}
      BY <2>1, <2>2, <2>4, <2>5, <3>1, <3>2
    <3> QED
      BY <2>1, <2>2, <2>4, <3>1, <3>3 DEF BuffersConserved, Q, QQ
  <2> QED
    BY <2>6, <2>7
<1>16. CASE WaitExit
  BY <1>16, ProviderAssumption DEF WaitExit, BuffersConserved, BuffersOf,
     PhaseInv, IdleIsClean, DataTypeOK, ThreadTypeOK, queueVars, filterVars,
     parserVars, controlVars, taskVars
<1>17. CASE WaitTask
  BY <1>17, ProviderAssumption DEF WaitTask, BuffersConserved, BuffersOf,
     PhaseInv, IdleIsClean, DataTypeOK, ThreadTypeOK, queueVars, filterVars,
     parserVars, controlVars
<1>18. ASSUME NEW d \in filtersData, WaitFilter(d) PROVE BuffersConserved'
  BY <1>18, ProviderAssumption DEF WaitFilter, BuffersConserved, BuffersOf,
     PhaseInv, IdleIsClean, DataTypeOK, ThreadTypeOK, FilterData,
     filterVars, parserVars, controlVars, taskVars
<1>19. CASE StartFilter
  BY <1>19, ProviderAssumption DEF StartFilter, Does, JobDone,
     BuffersConserved, BuffersOf, PhaseInv, IdleIsClean, DataTypeOK,
     ThreadTypeOK, queueVars, filterVars, parserVars, controlVars, taskVars
<1>20. CASE RemoveFilter
  <2>1. UNCHANGED <<parserBuf, processBuf, status, pool>>
    BY <1>20 DEF RemoveFilter, parserVars, controlVars
  <2>2. CASE job.pid \in filters
    <3> DEFINE gone == {d \in filtersData : d.pid = job.pid}
    <3>1. toFree["provider"] = {}
      BY <1>20 DEF RemoveFilter, Does, PhaseInv
    <3>2. /\ filtersData' = filtersData \ gone
          /\ toFree'["provider"] = BuffersOf(gone)
          /\ toFree'["control"] = toFree["control"]
      BY <1>20, <2>2 DEF RemoveFilter, Cleanup, DataTypeOK
    <3>3. gone \subseteq filtersData
      OBVIOUS
    <3> HIDE DEF gone
    <3>4. BuffersOf(filtersData') \cup BuffersOf(gone)
            = BuffersOf(filtersData)
      BY <3>2, <3>3 DEF BuffersOf
    <3>5. CASE Running(status)
      <4>1. BuffersOf(filtersData') \cap BuffersOf(gone) = {}
        BY <3>2, <3>3, <3>5 DEF BuffersOf, BuffersConserved
      <4>2. \A x, y \in filtersData' : x.buf = y.buf => x = y
        BY <3>2, <3>5 DEF BuffersConserved
      <4> DEFINE Q == BuffersOf(filtersData)  QQ == BuffersOf(filtersData')
                 G == BuffersOf(gone)
                 held == {parserBuf, processBuf}
      <4>3. /\ pool \cup Q \cup toFree["control"] \cup held
                 = Buffers \cup (held \cap {NoBuffer})
            /\ pool \cap Q = {}
            /\ toFree["control"] \cap (pool \cup Q) = {}
            /\ held \cap (pool \cup Q \cup toFree["control"]) = {}
            /\ parserBuf # NoBuffer => parserBuf # processBuf
        BY <3>1, <3>5 DEF BuffersConserved
      <4>4. QQ \cup G = Q /\ QQ \cap G = {}
        BY <3>4, <4>1
      <4> HIDE DEF Q, QQ, G
      <4>5. /\ pool \cup QQ \cup (toFree["control"] \cup G) \cup held
                 = Buffers \cup (held \cap {NoBuffer})
            /\ pool \cap QQ = {}
            /\ (toFree["control"] \cup G) \cap (pool \cup QQ) = {}
            /\ toFree["control"] \cap G = {}
            /\ held \cap (pool \cup QQ \cup (toFree["control"] \cup G)) = {}
        BY <4>3, <4>4
      <4> QED
        BY <2>1, <3>2, <4>2, <4>3, <4>5 DEF BuffersConserved, Q, QQ, G
    <3> QED
      BY <2>1, <3>5 DEF BuffersConserved
  <2>3. CASE job.pid \notin filters
    BY <1>20, <2>1, <2>3 DEF RemoveFilter, BuffersConserved, queueVars
  <2> QED
    BY <2>2, <2>3
<1>21. CASE Unfilter
  BY <1>21, ProviderAssumption DEF Unfilter, Does, JobDone,
     BuffersConserved, BuffersOf, PhaseInv, IdleIsClean, DataTypeOK,
     ThreadTypeOK, queueVars, parserVars, controlVars, taskVars
<1>22. CASE Finish
  BY <1>22, ProviderAssumption DEF Finish, Does, BuffersConserved,
     BuffersOf, PhaseInv, IdleIsClean, DataTypeOK, ThreadTypeOK, filterVars,
     parserVars, controlVars, taskVars
<1>23. CASE TakeTasks
  BY <1>23, ProviderAssumption DEF TakeTasks, BuffersConserved, BuffersOf,
     PhaseInv, IdleIsClean, DataTypeOK, ThreadTypeOK, queueVars, filterVars,
     parserVars, controlVars
<1>24. CASE RunNext
  BY <1>24, ProviderAssumption DEF RunNext, BuffersConserved, BuffersOf,
     PhaseInv, IdleIsClean, DataTypeOK, ThreadTypeOK, queueVars, filterVars,
     parserVars, controlVars, taskVars
<1>25. CASE UNCHANGED vars
  BY <1>25 DEF BuffersConserved, vars, queueVars, filterVars, parserVars,
     threadVars, controlVars, taskVars
<1>26. CASE FreeCleaned
  BY <1>26, ProviderAssumption DEF FreeCleaned, FreeAll, BuffersConserved,
     BuffersOf, PhaseInv, IdleIsClean, DataTypeOK, ThreadTypeOK, filterVars,
     parserVars, threadVars, taskVars
<1>27. CASE StopNetwork
  BY <1>27, ProviderAssumption DEF StopNetwork, BuffersConserved, BuffersOf,
     PhaseInv, IdleIsClean, DataTypeOK, ThreadTypeOK, queueVars, filterVars,
     threadVars, taskVars
<1>28. CASE TakeData
  BY <1>28, ProviderAssumption DEF TakeData, BuffersConserved, BuffersOf,
     PhaseInv, IdleIsClean, DataTypeOK, ThreadTypeOK, queueVars, filterVars,
     threadVars, controlVars, taskVars
<1>29. CASE FinishBuffer
  BY <1>29, ProviderAssumption DEF FinishBuffer, BuffersConserved,
     BuffersOf, PhaseInv, IdleIsClean, DataTypeOK, ThreadTypeOK, queueVars,
     filterVars, threadVars, controlVars, taskVars
<1>30. CASE FreeRemoved
  BY <1>30, ProviderAssumption DEF FreeRemoved, FreeAll, Does,
     BuffersConserved, BuffersOf, PhaseInv, IdleIsClean, DataTypeOK,
     ThreadTypeOK, filterVars, parserVars, controlVars, taskVars
<1> QED
  BY <1>1, <1>2, <1>3, <1>4, <1>5, <1>6, <1>7, <1>8, <1>9, <1>10, <1>11,
     <1>12, <1>13, <1>14, <1>15, <1>16, <1>17, <1>18, <1>19, <1>20, <1>21,
     <1>22, <1>23, <1>24, <1>25,
     <1>26, <1>27, <1>28, <1>29, <1>30 DEF Next, Controlling, Parser,
     ProviderThread

(* Starting a filter is the one step that registers one more, and it looks *)
(* at their number first.                                                  *)
LEMMA FewFilters ==
  TypeOK /\ [Next]_vars => Cardinality(filters') <= MaxFilters
<1> SUFFICES ASSUME TypeOK, [Next]_vars PROVE Cardinality(filters') <= MaxFilters
  OBVIOUS
<1>1. IsFiniteSet(filters) /\ Cardinality(filters) \in Nat
  BY ProviderAssumption, FS_Subset, FS_CardinalityType DEF TypeOK, DataTypeOK
<1>2. CASE filters' \subseteq filters
  BY <1>1, <1>2, FS_Subset, FS_CardinalityType, ProviderAssumption DEF TypeOK
<1>3. CASE StartFilter
  <2>1. CASE CanAllocFilter(job.pid) /\ job.pid \notin demuxFilters
    <3>1. filters' = filters \cup {job.pid} /\ job.pid \notin filters
      BY <1>3, <2>1 DEF StartFilter, CanAllocFilter
    <3>2. Cardinality(filters') = Cardinality(filters) + 1
      BY <1>1, <3>1, FS_AddElement
    <3> QED
      BY <1>1, <2>1, <3>2, ProviderAssumption DEF CanAllocFilter
  <2>2. CASE ~(CanAllocFilter(job.pid) /\ job.pid \notin demuxFilters)
    BY <1>3, <2>2 DEF StartFilter, filterVars, TypeOK
  <2> QED
    BY <2>1, <2>2
<1>4. \/ filters' \subseteq filters
      \/ StartFilter
  BY DEF Next, Controlling, Parser, ProviderThread, Start, StartFails,
     SetNetwork, Stop, Clean, Tune, Signal, Join, StopLostFilter, StopEngine,
     DeletePool, StopNetwork, FreeCleaned, FreeAll, TakeData, FinishBuffer,
     FreeRemoved, EnqueueTask, FindFilter, Alloc, Enqueue, WaitExit, WaitTask,
     WaitFilter, RemoveFilter, Unfilter, Finish, TakeTasks, RunNext,
     filterVars, vars
<1> QED
  BY <1>2, <1>3, <1>4

(* The initial states satisfy the whole invariant.                         *)
LEMMA InvInit == Init => Inv
<1> SUFFICES ASSUME Init PROVE Inv
  OBVIOUS
<1>1. Cardinality(filters) <= MaxFilters
  BY ProviderAssumption, FS_EmptySet DEF Init
<1>2. job \in Jobs /\ job.op = "none" /\ section \in [pid : Pids, net : Nat]
  BY DEF Init, Jobs
<1>3. DataTypeOK
  BY DEF Init, DataTypeOK
<1>4. ThreadTypeOK
  <2>1. <<>> \in Seq(Tasks)
    OBVIOUS
  <2>2. toRun \in Seq(Tasks)
    BY <2>1 DEF Init
  <2>3. /\ parser = "none" /\ thread = "none" /\ control = "ready"
        /\ parserBuf = NoBuffer /\ processBuf = NoBuffer /\ found = 0
        /\ exiting = FALSE /\ needStop = FALSE /\ stopping = FALSE
        /\ late = FALSE
    BY DEF Init
  <2> QED
    BY <1>2, <2>2, <2>3 DEF ThreadTypeOK
<1>5. PhaseInv
  BY <1>2 DEF Init, PhaseInv, IdleIsClean
<1>6. FilterInv
  BY <1>2 DEF Init, FilterInv, FilterAlive, ParserHoldsDemuxer
<1>7. BuffersConserved
  BY DEF Init, BuffersConserved
<1> QED
  BY <1>1, <1>3, <1>4, <1>5, <1>6, <1>7 DEF Inv, TypeOK

(* The strengthened invariant holds of every run of the provider.          *)
THEOREM ProviderInvariant == Spec => []Inv
<1>1. Inv /\ [Next]_vars => Inv'
  <2> SUFFICES ASSUME Inv, [Next]_vars PROVE Inv'
    OBVIOUS
  <2>1. DataTypeOK' /\ ThreadTypeOK'
    BY TypesKept DEF Inv, TypeOK
  <2>2. Cardinality(filters') <= MaxFilters
    BY FewFilters DEF Inv
  <2>3. PhaseInv'
    BY PhasesKept DEF Inv, TypeOK
  <2>4. FilterInv'
    BY FiltersKept DEF Inv, TypeOK
  <2>5. BuffersConserved'
    BY BuffersKept DEF Inv, TypeOK
  <2> QED
    BY <2>1, <2>2, <2>3, <2>4, <2>5 DEF Inv, TypeOK
<1> QED
  BY InvInit, <1>1, PTL DEF Spec

(* Every variable keeps its type, and startFilter never registers more     *)
(* than maxFilters filters.                                                *)
THEOREM ProviderTypes == Spec => []TypeOK
<1>1. Inv => TypeOK
  BY DEF Inv
<1> QED
  BY ProviderInvariant, <1>1, PTL

(* No network buffer is lost or used twice, whatever the threads do: not   *)
(* by a cleanup that meets a section on its way in, a filter that is gone, *)
(* a callback that stops its own filter or a stop.                         *)
THEOREM NoBufferIsLost == Spec => []BuffersConserved
<1>1. Inv => BuffersConserved
  BY DEF Inv
<1> QED
  BY ProviderInvariant, <1>1, PTL

(* The parser never feeds a PSIFilter that TSFilter::deinitialize deleted. *)
THEOREM ParserIsSafe == Spec => []FilterAlive
<1>1. Inv => FilterAlive
  BY DEF Inv, FilterInv
<1> QED
  BY ProviderInvariant, <1>1, PTL

(* stopCurrent leaves no section behind, and none comes in until the next  *)
(* network is tuned.                                                       *)
THEOREM NothingWaitsWhenIdle == Spec => []IdleIsClean
<1>1. Inv => IdleIsClean
  BY DEF Inv, PhaseInv
<1> QED
  BY ProviderInvariant, <1>1, PTL

(* When Provider::stop deletes the pool, all its buffers are back in it    *)
(* and no filter is left in the provider or in the demuxer.                *)
THEOREM StopReleasesAll == Spec => []AllReleased
<1>1. Inv => AllReleased
  <2> SUFFICES ASSUME Inv, control = "delete" PROVE AllReleased
    BY DEF AllReleased
  <2>1. status = "idle" /\ thread = "none" /\ parser = "none"
    BY DEF Inv, PhaseInv
  <2>2. /\ parserBuf = NoBuffer /\ processBuf = NoBuffer /\ job.op = "none"
        /\ toFree["control"] = {} /\ toFree["provider"] = {}
    BY <2>1 DEF Inv, PhaseInv
  <2>3. filters = {} /\ demuxFilters = {}
    BY <2>2 DEF Inv, FilterInv
  <2>4. filtersData = {}
    BY <2>1 DEF Inv, PhaseInv, IdleIsClean
  <2>5. BuffersOf(filtersData) = {}
    BY <2>4 DEF BuffersOf
  <2>6. pool = Buffers
    <3>1. pool \cup {NoBuffer} = Buffers \cup {NoBuffer}
      BY <2>1, <2>2, <2>5 DEF Inv, BuffersConserved
    <3>2. NoBuffer \notin Buffers /\ pool \subseteq Buffers
      BY ProviderAssumption DEF Inv, TypeOK, DataTypeOK
    <3> QED
      BY <3>1, <3>2
  <2> QED
    BY <2>3, <2>4, <2>6 DEF AllReleased
<1> QED
  BY ProviderInvariant, <1>1, PTL
=============================================================================
