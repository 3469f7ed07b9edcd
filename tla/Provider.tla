------------------------------- MODULE Provider -------------------------------
(***************************************************************************)
(* The data provider of the DTV connector (Provider, as TSProvider): one   *)
(* thread parses a transport stream into sections, another one, the        *)
(* provider thread, gives them to the filters and runs every task of the   *)
(* service layer, a third one tunes, starts and stops the provider.        *)
(*                                                                         *)
(* Filters are started and stopped by the provider thread only, from a     *)
(* task or from the callback of a section, as ServiceProvider and its      *)
(* extensions do.  Sections wait in network buffers, of which there are    *)
(* finitely many: ResourcePool::alloc blocks when none is left.            *)
(*                                                                         *)
(* Granularity: what is done under one mutex is one step; waiting for a    *)
(* mutex, a buffer, a thread or a condition is a guard.  The one mutex     *)
(* that is held across steps is TSDemuxer::_mutex, by the parser.          *)
(***************************************************************************)
EXTENDS Naturals, Sequences, FiniteSets

CONSTANTS
  Pids,         \* what can be filtered
  Buffers,      \* the blocks of the network pool
  NoBuffer,
  MaxFilters,   \* Provider::maxFilters
  MaxTasks,     \* bound on the tasks enqueued
  MaxSections,  \* bound on the sections found in the stream
  MaxNetworks   \* bound on the networks tuned

ASSUME ProviderAssumption ==
  /\ NoBuffer \notin Buffers
  /\ IsFiniteSet(Pids)
  /\ MaxFilters \in Nat
  /\ MaxTasks \in Nat
  /\ MaxSections \in Nat
  /\ MaxNetworks \in Nat

VARIABLES
  \* Provider
  status, needStop, filters, filtersData, tasks,
  pool,          \* the buffers alloc can still hand out
  toFree,        \* those a cleanup has taken and not given back yet
  network,       \* how many networks have been tuned
  \* TSDemuxer
  demuxFilters,
  \* The parser thread
  parser, section, parserBuf,
  late,          \* a buffer came after stopNetwork had cleared the others
  \* The provider thread
  thread, job, processBuf, toRun, exiting,
  \* The thread that starts, tunes and stops the provider
  control, stopping,
  \* Bounds
  sent, found

queueVars == <<filtersData, pool, toFree>>
filterVars == <<filters, demuxFilters>>
parserVars == <<parser, section, parserBuf, late, found>>
threadVars == <<thread, job, processBuf, toRun, exiting>>
controlVars == <<status, needStop, network, control, stopping>>
taskVars == <<tasks, sent>>

vars == <<queueVars, filterVars, parserVars, threadVars, controlVars,
          taskVars>>

(* A task or a section's callback starts or stops one filter.  Stopping    *)
(* has three parts: out of the provider ("stop"), its sections' buffers    *)
(* back to the pool ("free"), out of the demuxer ("unfilter").             *)
Tasks == [op : {"start", "stop"}, pid : Pids]

Jobs == [op : {"none", "start", "stop", "free", "unfilter"}, pid : Pids]

Cleaners == {"control", "provider"}

FilterData == [buf : Buffers, pid : Pids, net : Nat]

Init ==
  /\ status = "off"
  /\ needStop = FALSE
  /\ filters = {}
  /\ filtersData = {}
  /\ tasks = <<>>
  /\ pool = {}
  /\ toFree = [c \in Cleaners |-> {}]
  /\ network = 0
  /\ demuxFilters = {}
  /\ parser = "none"
  /\ section \in [pid : Pids, net : {0}]
  /\ parserBuf = NoBuffer
  /\ late = FALSE
  /\ thread = "none"
  /\ job \in [op : {"none"}, pid : Pids]
  /\ processBuf = NoBuffer
  /\ toRun = <<>>
  /\ exiting = FALSE
  /\ control = "ready"
  /\ stopping = FALSE
  /\ sent = 0
  /\ found = 0

(* TSDemuxer::parse holds TSDemuxer::_mutex from the search of the filter  *)
(* until the callbacks of the packet's sections have returned.             *)
ParserHoldsDemuxer == parser \in {"alloc", "enqueue"}

Running(s) == s \in {"idle", "tuned"}
-----------------------------------------------------------------------------
(* The controlling thread                                                  *)

(* Provider::start, TSProvider::startEngineFilter                          *)
Start ==
  /\ control = "ready"
  /\ ~Running(status)
  /\ status' = "idle"
  /\ needStop' = FALSE
  /\ pool' = Buffers
  /\ parser' = "wait"
  /\ thread' = "wait"
  /\ exiting' = FALSE
  /\ UNCHANGED <<filtersData, toFree, filterVars, section, parserBuf, late,
                 found, job, processBuf, toRun, network, control, stopping,
                 taskVars>>

(* ... when the engine, that is the source of the stream, fails.           *)
StartFails ==
  /\ control = "ready"
  /\ ~Running(status)
  /\ status' = "fail"
  /\ UNCHANGED <<queueVars, filterVars, parserVars, threadVars, needStop,
                 network, control, stopping, taskVars>>

(* Fault model of StopCurrent: the status is left as it is.                *)
StopCurrentTuned(next) ==
  /\ status' = status
  /\ control' = IF status = "tuned" THEN "stopNetwork" ELSE next

(* Provider::stopCurrent: no section is accepted from here on; the stream  *)
(* goes next (StopNetwork) and then the sections in the queue (Clean),     *)
(* unless nothing was tuned.                                               *)
StopCurrent(next) ==
  /\ status' = IF status = "tuned" THEN "idle" ELSE status
  /\ control' = IF status = "tuned" THEN "stopNetwork" ELSE next

(* Provider::setNetwork                                                    *)
SetNetwork ==
  /\ control = "ready"
  /\ Running(status)
  /\ network < MaxNetworks
  /\ StopCurrent("tune")
  /\ stopping' = FALSE
  /\ UNCHANGED <<queueVars, filterVars, parserVars, threadVars, needStop,
                 network, taskVars>>

(* Provider::stop when the provider runs; otherwise it only sets the       *)
(* status.                                                                 *)
Stop ==
  /\ control = "ready"
  /\ IF Running(status)
       THEN StopCurrent("signal") /\ stopping' = TRUE
       ELSE status' = "off" /\ UNCHANGED <<control, stopping>>
  /\ UNCHANGED <<queueVars, filterVars, parserVars, threadVars, needStop,
                 network, taskVars>>

(* TSProvider::stopNetwork clears the buffers that wait for the parser and *)
(* joins the source, which may have enqueued one more: process looks at    *)
(* the status without the mutex.                                           *)
StopNetwork ==
  /\ control = "stopNetwork"
  /\ late' \in BOOLEAN
  /\ control' = "clean"
  /\ UNCHANGED <<queueVars, filterVars, parser, section, parserBuf, found,
                 threadVars, status, needStop, network, stopping, taskVars>>

BuffersOf(data) == {d.buf : d \in data}

(* Fault model of Cleanup: the data is dropped and its buffers with it.    *)
CleanupLeaking(who, data) ==
  /\ filtersData' = filtersData \ data
  /\ UNCHANGED toFree

(* Provider::cleanup: the data leaves the queue under the mutex ...        *)
Cleanup(who, data) ==
  /\ filtersData' = filtersData \ data
  /\ toFree' = [toFree EXCEPT ![who] = BuffersOf(data)]

(* ... and its buffers return to the pool later, under the pool's.         *)
FreeAll(who) ==
  /\ pool' = pool \cup toFree[who]
  /\ toFree' = [toFree EXCEPT ![who] = {}]

(* The end of stopCurrent: cleanup( TS_PID_NULL ) takes everything.        *)
Clean ==
  /\ control = "clean"
  /\ Cleanup("control", filtersData)
  /\ control' = "free"
  /\ UNCHANGED <<pool, filterVars, parserVars, threadVars, status, needStop,
                 network, stopping, taskVars>>

FreeCleaned ==
  /\ control = "free"
  /\ FreeAll("control")
  /\ control' = IF stopping THEN "signal" ELSE "tune"
  /\ UNCHANGED <<filtersData, filterVars, parserVars, threadVars, status,
                 needStop, network, stopping, taskVars>>

(* TSProvider::startNetwork clears what waits for the parser once more; it *)
(* succeeds or fails.                                                      *)
Tune ==
  /\ control = "tune"
  /\ late' = FALSE
  /\ network' = network + 1
  /\ status' \in {"idle", "tuned"}
  /\ control' = "ready"
  /\ UNCHANGED <<queueVars, filterVars, parser, section, parserBuf, found,
                 threadVars, needStop, stopping, taskVars>>

Signal ==
  /\ control = "signal"
  /\ needStop' = TRUE
  /\ control' = "join"
  /\ UNCHANGED <<queueVars, filterVars, parserVars, threadVars, status,
                 network, stopping, taskVars>>

(* _thread.join()                                                          *)
Join ==
  /\ control = "join"
  /\ thread = "ended"
  /\ thread' = "none"
  /\ control' = "lost"
  /\ UNCHANGED <<queueVars, filterVars, parserVars, job, processBuf, toRun,
                 exiting, status, needStop, network, stopping, taskVars>>

(* The filters nobody stopped, one by one.                                 *)
StopLostFilter(p) ==
  /\ control = "lost"
  /\ p \in filters
  /\ ~ParserHoldsDemuxer
  /\ filters' = filters \ {p}
  /\ demuxFilters' = demuxFilters \ {p}
  /\ UNCHANGED <<queueVars, parserVars, threadVars, controlVars, taskVars>>

(* Fault model of StopEngine: the filters nobody stopped are forgotten.    *)
StopEngineOnly ==
  /\ control = "lost"
  /\ parser = "wait"
  /\ parser' = "none"
  /\ late' = FALSE
  /\ control' = "delete"
  /\ UNCHANGED <<queueVars, filterVars, section, parserBuf, found,
                 threadVars, status, needStop, network, stopping, taskVars>>

(* TSProvider::stopEngineFilter joins the parser, between two buffers.     *)
StopEngine ==
  /\ control = "lost"
  /\ filters = {}
  /\ parser = "wait"
  /\ parser' = "none"
  /\ late' = FALSE
  /\ control' = "delete"
  /\ UNCHANGED <<queueVars, filterVars, section, parserBuf, found,
                 threadVars, status, needStop, network, stopping, taskVars>>

DeletePool ==
  /\ control = "delete"
  /\ pool' = {}
  /\ status' = "off"
  /\ control' = "ready"
  /\ UNCHANGED <<filtersData, toFree, filterVars, parserVars, threadVars,
                 needStop, network, stopping, taskVars>>
-----------------------------------------------------------------------------
(* Any thread: Provider::enqueue( Task * )                                 *)
EnqueueTask(t) ==
  /\ sent < MaxTasks
  /\ sent' = sent + 1
  /\ tasks' = IF Running(status) THEN Append(tasks, t) ELSE tasks
  /\ UNCHANGED <<queueVars, filterVars, parserVars, threadVars, controlVars>>
-----------------------------------------------------------------------------
(* The parser thread                                                       *)

(* TSProvider::process accepts a buffer of the stream while a network is   *)
(* tuned, and stopNetwork and startNetwork clear those nobody has taken:   *)
(* the parser takes buffers of the network that is tuned, or of the last   *)
(* one while that is being stopped, or the late one.                       *)
TakeData ==
  /\ parser = "wait"
  /\ status = "tuned" \/ control = "stopNetwork" \/ late
  /\ parser' = "parse"
  /\ section' = [section EXCEPT !.net = network]
  /\ late' = FALSE
  /\ UNCHANGED <<queueVars, filterVars, parserBuf, found, threadVars,
                 controlVars, taskVars>>

(* TSDemuxer::parse meets the last packet of a section somebody filters.   *)
FindFilter(p) ==
  /\ parser = "parse"
  /\ found < MaxSections
  /\ p \in demuxFilters
  /\ parser' = "alloc"
  /\ section' = [section EXCEPT !.pid = p]
  /\ found' = found + 1
  /\ UNCHANGED <<queueVars, filterVars, parserBuf, late, threadVars,
                 controlVars, taskVars>>

FinishBuffer ==
  /\ parser = "parse"
  /\ parser' = "wait"
  /\ UNCHANGED <<queueVars, filterVars, section, parserBuf, late, found,
                 threadVars, controlVars, taskVars>>

(* Provider::getNetworkBuffer, ResourcePool::alloc                         *)
Alloc(b) ==
  /\ parser = "alloc"
  /\ b \in pool
  /\ pool' = pool \ {b}
  /\ parserBuf' = b
  /\ parser' = "enqueue"
  /\ UNCHANGED <<filtersData, toFree, filterVars, section, late, found,
                 threadVars, controlVars, taskVars>>

(* Provider::enqueue( pid, buf ) refuses a section unless something is     *)
(* tuned.  The packet may hold a second section: the mutex is kept.        *)
Enqueue ==
  /\ parser = "enqueue"
  /\ IF status = "tuned"
       THEN /\ filtersData' = filtersData \cup
                 {[buf |-> parserBuf, pid |-> section.pid, net |-> section.net]}
            /\ UNCHANGED pool
       ELSE /\ pool' = pool \cup {parserBuf}
            /\ UNCHANGED filtersData
  /\ parserBuf' = NoBuffer
  /\ \/ parser' = "parse" /\ UNCHANGED found
     \/ found < MaxSections /\ parser' = "alloc" /\ found' = found + 1
  /\ UNCHANGED <<toFree, filterVars, section, late, threadVars, controlVars,
                 taskVars>>
-----------------------------------------------------------------------------
(* The provider thread: Provider::wait and what it decides                 *)

WaitExit ==
  /\ thread = "wait"
  /\ needStop
  /\ thread' = "exit"
  /\ exiting' = TRUE
  /\ UNCHANGED <<queueVars, filterVars, parserVars, job, processBuf, toRun,
                 controlVars, taskVars>>

WaitTask ==
  /\ thread = "wait"
  /\ ~needStop
  /\ tasks # <<>>
  /\ thread' = "run"
  /\ job' = Head(tasks)
  /\ tasks' = Tail(tasks)
  /\ UNCHANGED <<queueVars, filterVars, parserVars, processBuf, toRun,
                 exiting, controlVars, sent>>

(* A section is given to its filter, whose callback may start or stop one; *)
(* that of a filter that is gone is dropped.  In which order sections are  *)
(* taken matters to no property: the queue is a set.                       *)
WaitFilter(d) ==
  /\ thread = "wait"
  /\ ~needStop
  /\ tasks = <<>>
  /\ d \in filtersData
  /\ filtersData' = filtersData \ {d}
  /\ IF d.pid \in filters
       THEN /\ processBuf' = d.buf
            /\ thread' = "run"
            /\ job' \in Tasks \cup {[op |-> "none", pid |-> d.pid]}
            /\ UNCHANGED pool
       ELSE /\ pool' = pool \cup {d.buf}
            /\ UNCHANGED <<processBuf, thread, job>>
  /\ UNCHANGED <<toFree, filterVars, parserVars, toRun, exiting, controlVars,
                 taskVars>>

Does(op) == thread = "run" /\ job.op = op

JobDone == job' = [job EXCEPT !.op = "none"]

(* Fault model of CanAllocFilter: one filter too many.                     *)
CanAllocOneMore(p) == Cardinality(filters) <= MaxFilters /\ p \notin filters

(* Provider::canAllocFilter                                                *)
CanAllocFilter(p) == Cardinality(filters) < MaxFilters /\ p \notin filters

(* Provider::startFilter: the demuxer refuses a pid it already filters.    *)
StartFilter ==
  /\ Does("start")
  /\ IF CanAllocFilter(job.pid)
       THEN /\ ~ParserHoldsDemuxer
            /\ demuxFilters' = demuxFilters \cup {job.pid}
            /\ filters' = IF job.pid \in demuxFilters
                            THEN filters ELSE filters \cup {job.pid}
       ELSE UNCHANGED filterVars
  /\ JobDone
  /\ UNCHANGED <<queueVars, parserVars, thread, processBuf, toRun, exiting,
                 controlVars, taskVars>>

(* Provider::stopFilter, first part: removeFilter and its cleanup ...      *)
RemoveFilter ==
  /\ Does("stop")
  /\ IF job.pid \in filters
       THEN /\ filters' = filters \ {job.pid}
            /\ Cleanup("provider", {d \in filtersData : d.pid = job.pid})
            /\ job' = [job EXCEPT !.op = "free"]
       ELSE UNCHANGED <<filters, filtersData, toFree>> /\ JobDone
  /\ UNCHANGED <<pool, demuxFilters, parserVars, thread, processBuf, toRun,
                 exiting, controlVars, taskVars>>

(* ... whose buffers go back ...                                           *)
FreeRemoved ==
  /\ Does("free")
  /\ FreeAll("provider")
  /\ job' = [job EXCEPT !.op = "unfilter"]
  /\ UNCHANGED <<filtersData, filterVars, parserVars, thread, processBuf,
                 toRun, exiting, controlVars, taskVars>>

(* Fault model of Unfilter: the filter is deleted under the parser.        *)
UnfilterUnlocked ==
  /\ Does("unfilter")
  /\ demuxFilters' = demuxFilters \ {job.pid}
  /\ JobDone
  /\ UNCHANGED <<filters, queueVars, parserVars, thread, processBuf, toRun,
                 exiting, controlVars, taskVars>>

(* ... last part: TSFilter::stop and deinitialize, which deletes the     *)
(* PSIFilter.                                                              *)
Unfilter ==
  /\ Does("unfilter")
  /\ ~ParserHoldsDemuxer
  /\ demuxFilters' = demuxFilters \ {job.pid}
  /\ JobDone
  /\ UNCHANGED <<filters, queueVars, parserVars, thread, processBuf, toRun,
                 exiting, controlVars, taskVars>>

(* The task or callback is over; the section's buffer goes back.           *)
Finish ==
  /\ Does("none")
  /\ thread' = IF exiting THEN "exit" ELSE "wait"
  /\ pool' = pool \cup ({processBuf} \ {NoBuffer})
  /\ processBuf' = NoBuffer
  /\ UNCHANGED <<filtersData, toFree, filterVars, parserVars, job, toRun,
                 exiting, controlVars, taskVars>>

(* Fault model of TakeTasks: the exit waits until there is no task.        *)
TakeTasksWhenAny ==
  /\ thread = "exit"
  /\ toRun = <<>>
  /\ tasks # <<>>
  /\ toRun' = tasks
  /\ tasks' = <<>>
  /\ UNCHANGED <<thread, queueVars, filterVars, parserVars, job, processBuf,
                 exiting, controlVars, sent>>

(* Provider::runTasks takes all tasks ...                                  *)
TakeTasks ==
  /\ thread = "exit"
  /\ toRun = <<>>
  /\ toRun' = tasks
  /\ tasks' = <<>>
  /\ thread' = IF tasks = <<>> THEN "ended" ELSE "exit"
  /\ UNCHANGED <<queueVars, filterVars, parserVars, job, processBuf, exiting,
                 controlVars, sent>>

(* ... runs them one after the other and looks again.                      *)
RunNext ==
  /\ thread = "exit"
  /\ toRun # <<>>
  /\ job' = Head(toRun)
  /\ toRun' = Tail(toRun)
  /\ thread' = "run"
  /\ UNCHANGED <<queueVars, filterVars, parserVars, processBuf, exiting,
                 controlVars, taskVars>>
-----------------------------------------------------------------------------
Parser ==
  \/ TakeData \/ FinishBuffer
  \/ \E p \in Pids : FindFilter(p)
  \/ \E b \in Buffers : Alloc(b)
  \/ Enqueue

ProviderThread ==
  \/ WaitExit \/ WaitTask \/ \E d \in filtersData : WaitFilter(d)
  \/ StartFilter \/ RemoveFilter \/ FreeRemoved \/ Unfilter \/ Finish
  \/ TakeTasks \/ RunNext

(* What the controlling thread does once it has been asked.                *)
Controlling ==
  \/ StopNetwork \/ Clean \/ FreeCleaned \/ Tune \/ Signal \/ Join
  \/ \E p \in Pids : StopLostFilter(p)
  \/ StopEngine \/ DeletePool

Next ==
  \/ Start \/ StartFails \/ SetNetwork \/ Stop
  \/ Controlling
  \/ \E t \in Tasks : EnqueueTask(t)
  \/ Parser
  \/ ProviderThread

Spec == Init /\ [][Next]_vars

(* All threads run; nobody has to call, and no section has to come.        *)
Fairness ==
  /\ WF_vars(Controlling)
  /\ WF_vars(ProviderThread)
  /\ WF_vars(\E b \in Buffers : Alloc(b))
  /\ WF_vars(Enqueue) /\ WF_vars(FinishBuffer)

FairSpec == Spec /\ Fairness
-----------------------------------------------------------------------------
DataTypeOK ==
  /\ status \in {"off", "fail", "idle", "tuned"}
  /\ filters \subseteq Pids
  /\ filtersData \subseteq FilterData
  /\ tasks \in Seq(Tasks)
  /\ pool \subseteq Buffers
  /\ toFree \in [Cleaners -> SUBSET Buffers]
  /\ network \in Nat
  /\ demuxFilters \subseteq Pids
  /\ sent \in Nat

ThreadTypeOK ==
  /\ parser \in {"none", "wait", "parse", "alloc", "enqueue"}
  /\ section \in [pid : Pids, net : Nat]
  /\ parserBuf \in Buffers \cup {NoBuffer}
  /\ late \in BOOLEAN
  /\ found \in Nat
  /\ thread \in {"none", "wait", "run", "exit", "ended"}
  /\ job \in Jobs
  /\ processBuf \in Buffers \cup {NoBuffer}
  /\ toRun \in Seq(Tasks)
  /\ exiting \in BOOLEAN
  /\ needStop \in BOOLEAN
  /\ control \in {"ready", "stopNetwork", "clean", "free", "tune", "signal",
                  "join", "lost", "delete"}
  /\ stopping \in BOOLEAN

(* Every variable has its type, and no more filters than maxFilters are    *)
(* registered.                                                             *)
TypeOK ==
  /\ DataTypeOK
  /\ ThreadTypeOK
  /\ Cardinality(filters) <= MaxFilters

(* No buffer of the pool is lost and none is used twice: while the         *)
(* provider runs, each is in the pool, in the queue once, with a cleanup,  *)
(* with the parser or with the provider thread, and in one of these places *)
(* only.                                                                   *)
BuffersConserved ==
  LET queued == BuffersOf(filtersData)
      freed  == toFree["control"] \cup toFree["provider"]
      held   == {parserBuf, processBuf}
  IN
  Running(status) =>
    /\ pool \cup queued \cup freed \cup held = Buffers \cup (held \cap {NoBuffer})
    /\ pool \cap queued = {}
    /\ freed \cap (pool \cup queued) = {}
    /\ toFree["control"] \cap toFree["provider"] = {}
    /\ held \cap (pool \cup queued \cup freed) = {}
    /\ parserBuf # NoBuffer => parserBuf # processBuf
    /\ \A d, e \in filtersData : d.buf = e.buf => d = e

(* The parser never works with a filter that has been deleted.             *)
FilterAlive == ParserHoldsDemuxer => section.pid \in demuxFilters

(* Unless something is tuned no section waits, but for the time between    *)
(* the two ends of stopCurrent ("Set status to idle (no accept more      *)
(* sections or tasks)", "Clean all data of sections").                     *)
IdleIsClean ==
  status # "tuned" /\ control \notin {"stopNetwork", "clean"} =>
    filtersData = {}

(* When stop deletes the pool nothing of the old life is left: no filter   *)
(* in the provider or in the demuxer, no section, and every buffer back.   *)
AllReleased ==
  control = "delete" =>
    /\ filters = {}
    /\ demuxFilters = {}
    /\ filtersData = {}
    /\ pool = Buffers

(* Every section in the queue is of the network that is tuned now, since   *)
(* changing it starts with "Clean all data of sections".                   *)
SectionsAreCurrent == \A d \in filtersData : d.net = network

(* A stop or a change of network always comes to its end, even from a      *)
(* provider whose threads wait for each other.                             *)
StopTerminates == control # "ready" ~> control = "ready"

(* "Enqueue task into provider thread": a task that has been accepted is   *)
(* taken to be run, unless the provider is stopped.                        *)
TasksAreTaken ==
  tasks # <<>> /\ Running(status) ~> tasks = <<>> \/ ~Running(status)
=============================================================================
