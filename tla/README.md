# Verification of Ginga.ar

Ginga.ar is a middleware for interactive digital television: it receives a
transport stream, extracts the applications it carries, and presents them
(multimedia documents written in NCL). This directory holds TLA+ models of the
parts of it in which several threads meet, the TLC configurations that check
them on small instances, and proofs, checked by TLAPS, of what holds of them for
every instance. Paths below are relative to `src/src/`.

## The system

| Component | State | Operations | Talks to |
|---|---|---|---|
| Composition (`ncl30-presenter`, `CompositeExecutionObject`) | `runningEvents`, `pausedEvents`, `pendingLinks`, `lastTransition`, its own event `wholeContent`, parents | `eventStateChanged`, `linkEvaluationStarted/Finished`, `set/unsetParentsAsListeners` | listens to the events of its children; its links report to it; its parent listens to it |
| Event (`FormatterEvent`, `PresentationEvent`) | `currentState`, `previousState`, three lists of listeners, `numPresentations` | `start`, `stop`, `abort`, `pause`, `resume` | calls its listeners one after the other: links, composition, others |
| Player adapter (`FormatterPlayerAdapter`, `Player`) | player, `object`, object lock, `presented` | `prepare`, `start`, `stop`, `abort`, `pause`, `resume`, `naturalEnd`, `checkRepeat` | commands the execution object; the player reports in its own thread |
| Execution object (`ExecutionObject`) | main event, other events, transition table, `pauseCount`, lock | the same commands, `prepare`, `unprepare` | its events |
| Links (`FormatterCausalLink`, conditions, `LinkSimpleAction`, `LinkRepeatAction`, `LinkCompoundAction`) | pending actions, assessments | `conditionSatisfied`, `run`, `actionProcessed` | starts action threads; reports to the composition |
| Scheduler (`FormatterScheduler`) | `_eventMutex`, compiled documents | `runAction`, `startEvent`, ... | commands adapters for actions and for the user |
| Anchor monitor, transitions (`NominalEventMonitor`, `EventTransitionManager`) | next transition, sorted table | `run`, `getNextTransition`, `updateTransitionTable` | fires events of an object at its times |
| Adapter manager, `Thread` | adapters in use and to be deleted; wait flags | `getPlayer`, `removePlayer`, the deleting thread | everything that holds an adapter |
| Data provider (`dtv-connector`: `Provider`, `TSProvider`, `TSDemuxer`, `dtv-util`: `ResourcePool`) | status, filters, section queue, tasks, network buffers | `start`, `setNetwork`, `stop`, `enqueue`, `startFilter`, `stopFilter`, `wait`, `parse` | parser thread -> queue -> provider thread -> services |
| PSI demuxers (`PSIDemuxer`, PAT, PMT, NIT, SDT) | version of each subtable, sections parsed, content | `onSection`, `onTableExpired` | called by the provider thread; call the services |
| Services (`ServiceProvider`, `Service`) | services and their states, ready flags, requests queued, filters | `onPat`, `onPmt`, `onNit`, `onSdt` and their expiry, timeouts, start and stop | filters of the provider; tell extensions of services ready, started, stopped, expired |
| Applications (`ApplicationExtension`, `AitFactory`, `Application`, `NCLApplication`) | status, mounted path, download, stream events, control codes | `onAit`, `onServiceStarted/Stopped`, `scan`, `start`, `stop`, `onMounted` | told by services; start processes |
| Processes (`Spawner`, `Connector`) | list of tasks by priority, process of each; the socket and its timers | `run`, `stop`, `runQueued`, `enable`; `connected`, `disconnected`, timeouts | a thread per connector enqueues tasks of the provider thread |
| DSM-CC demuxers | modules, carousel | `parse`, `expire` | called by the provider thread |
| Document manager, focus manager, multidevice, presentation engine, context manager, document model, command line | see `PROJECT.json` | | mostly conversion, glue and input/output |

What is hard in it:

- An event changes state in whatever thread asked for it, and its listeners are
  called in that thread, without a lock, one after the other. Link actions run
  in threads of their own. A composition decides from what it has been told when
  it begins and ends, and several threads tell it at once.
- One mutex (`FormatterScheduler::_eventMutex`) serialises link actions, and a
  busy wait for an object's lock happens inside it; natural ends and the user's
  commands do not take it.
- The same event may be stopped while it is paused, while it has repetitions
  left, or twice; the counts that follow are in three classes.
- The anchor monitor sleeps between two transitions and works on the object of
  an adapter that is paused, resumed and stopped meanwhile, with flags and signals
  but no lock.
- The actions of a parallel compound report from their threads to an unlocked count.
- Tables arrive in any order and change version at any time; what depends on them
  (services, filters, requests, applications, processes) is built up and torn down
  part by part, and the tables of a new version overtake those of an old one.
- An application's process is started, preempted, killed and lost while tasks that
  carry no more than its id wait in a queue.
- The stream is parsed in one thread and consumed in another, with a bounded
  pool of buffers, two mutexes and a shutdown that joins both.

What makes each component correct: a composition is presented exactly while
something of it is, its parent knows that, and it ends once everything has
ended; every link evaluation is reported once; a monitor fires no transition of
an object that has stopped; an adapter is not deleted while it is used; no
buffer is lost, no deleted filter is used, and stop returns; a table is handed
on once per version and only when complete; a service is ready exactly while all
its tables are there, and one that is asked for starts; the most urgent
applications run, and one that is removed leaves nothing behind.

## Modules

| Module | Models | Extends |
|---|---|---|
| `FormatterEvent` | states, transitions, which command is accepted when, repetition arithmetic | |
| `CompositeExecutionObject` | one composition, its media objects, adapters, links and all their threads | `FormatterEvent` |
| `CompositionContract` | what a composition promises: decisions on its event and their carrying out, an abstract specification | |
| `MCComposite` | an instance for TLC | `CompositeExecutionObject` |
| `CompositeExecutionObjectProofs` | types, link counts, known children, no lost end | `CompositeExecutionObject` |
| `CompositeRefinementProofs` | the composition's own event, its parent, its end; the refinement | the proofs above |
| `Provider` | data provider: controlling thread, parser, provider thread, any caller of `enqueue` | |
| `MCProvider`, `ProviderProofs` | instance and proofs | `Provider` |
| `EventTransitionManager` | the sorted table of an object's events: pure operators | `FormatterEvent` |
| `NominalEventMonitor` | one presentation: adapter, player's clock, object, anchor monitor | `EventTransitionManager` |
| `MCNominalEventMonitor`, `NominalEventMonitorProofs` | instance and proofs | `NominalEventMonitor` |
| `LinkCompoundAction`, `MCLinkCompoundAction` | a tree of link actions and the count of its reports; an instance | |
| `LinkCompoundActionProofs` | what holds of the count for any tree | `LinkCompoundAction` |
| `PSIDemuxer` | versions, expiry and sections of one demuxer: pure operators | |
| `ServiceProvider`, `MCServiceProvider` | services over the four demuxers and the broadcast; an instance | `PSIDemuxer` |
| `ServiceProviderProofs` | what holds of them for any services and PATs | `ServiceProvider` |
| `Applications`, `MCApplications` | applications, spawner and connectors; an instance | |
| `ApplicationsProofs` | what holds of them for any applications, priorities and number of processes | `Applications` |

### The composition

State and actions correspond to the code as follows.

- `currentState`, `numPresentations`, `pauseCount`, `player`, `presented`: per
  media object, the main event, the execution object's pauses and the player.
- `pc`, `trans`, `previous`, `linksToCall`, `repeating`: the change of that event
  whose listeners are being called. `pc` is the place in
  `FormatterEvent::changeState` (`links`, and `evaluate` with `evaluated` inside a
  link's condition that is found false), in
  `CompositeExecutionObject::eventStateChanged` (`parents`, `insert`, `test`, `unset`,
  and a transition where `wholeContent` is about to be called for it) and after it
  (`return`).
- `Command` is a command of the user or of another composition's link,
  `NaturalEnd` the player's thread, `TakeEventMutex` and `RunAction` the thread of
  a link action, `EvaluationStarted` a link's condition that is satisfied,
  `EvaluationFails` and `EvaluationEnded` one that is not, `Object*`, `SetParents`,
  `StartWhole`, `InsertRunning`, `TestAllDone`, `EndWhole`, `UnsetParents` and
  `PauseWhole` the parts of `eventStateChanged`, `Repeat` and `Return` the end of the
  adapter's command, `LinkEvaluationFinished`, `EndByLink`, `UnsetByLink` the report of
  an action; `ending` counts the reports that are in the last two.

Granularity. `CompositeExecutionObject.cpp` has a mutex (`lockComposite`) for single
accesses and none for a handler, and the model has none either: every call of
`wholeContent`, of the parents' registration and of `pendingLinks`, and the test before
it, is a step, and any other thread may come between two of them. A report gives the
mutex back before it ends `wholeContent` (line 707) and unregisters the parents after
that: these are three steps. The test of the three collections (line 596) is one step.
What that leaves out: a child or a link that moves from one collection to another
between two of the reads, and is seen in neither. This would be one more way in which
a composition ends too early, as in `composite_end_race`.

Four history variables say which races have occurred; the code does not have them,
and no step depends on them:

- `keptOpen`: a start action was reported to an idle composition, the case the source
  leaves open on purpose.
- `overtaken`: a child was inserted, or a link evaluation began, while a thread was
  between its test and its call of `wholeContent`.
- `endedLate`: the last end of the composition was overtaken, or a child was on its way
  in, between its own test of the sets and its insertion.
- `unheard`: a thread that ended the composition unregistered the parents after another
  had registered them anew.

Properties except these cases and nothing else, and the two violation runs of them
(`composite_end_race`, `composite_parent_lost`) show that the exceptions are needed.

`CompositionContract` has the same separation: a thread decides on a transition, on
grounds that hold at that time, and carries it out once, later.

Assumptions, each of which is an abstraction of the code and not a claim about it:
a single insertion into or removal from a set is not torn; one command at a time is
in progress on one object (the adapter's object lock means to ensure it);
an assessment is a free choice; an action's delay is a late step of its thread;
the composition is not deleted meanwhile (`deleting` is false).

### The data provider

- `control` is the thread that calls `start`, `setNetwork` and `stop`, step by step
  through `stopCurrent`; `parser`, `section`, `parserBuf` the thread of
  `TSProvider::tsParser` in `TSDemuxer::parse`; `thread`, `job`, `processBuf`,
  `toRun` the thread of `Provider::providerThread`; `EnqueueTask` any caller.
- A mutex held for one step is not a variable. `TSDemuxer::_mutex` is held by the
  parser from the search of a filter to the end of its callbacks
  (`ParserHoldsDemuxer`): that is where it waits for a buffer.
- `pool`, `filtersData`, `toFree`, `parserBuf` and `processBuf` say where each buffer
  is. `cleanup` is two steps, as it takes two mutexes: the data leaves the queue
  (`Cleanup`), then its buffers return to the pool (`FreeAll`).
- `TSProvider::process` discards what comes unless a network is tuned, and
  `stopNetwork` and `startNetwork` clear what nobody has taken. So the parser takes
  data (`TakeData`) of the network that is tuned, or of one that is being stopped;
  and, since `process` looks at the status without the mutex, perhaps of a buffer
  that came just after `stopNetwork` had cleared the others (`late`).

Assumptions: filters are started and stopped in the provider thread only (all of
`src/` does so); start, tune and stop come from one thread; a task or a callback
starts or stops at most one filter; the source of the stream is external, and
`stopNetwork` returns. The queue of sections is a set, for no property depends on
the order. `firstNetworkScan` and `nextNetworkScan` are left out: nothing in `src/`
calls them. Two things of the parser are not modelled: `TSDemuxer::reset`, which a
change of network calls under `TSProvider::_mutex` only, touches the packets assembled so
far while the parser may be using them; and the source waits for a buffer of
`TSProvider::_pool`, a pool of its own, when the parser does not keep up.

### The anchor monitor

- `object` is the `ExecutionObject` with its `EventTransitionManager`; `player` the
  clock of a `Player` without a media of its own (images, text), from which
  `MediaTime` is computed as `getMediaTime` does; `monitor` the fields and locals of
  `NominalEventMonitor::run`.
- `pc["monitor"]` is the place in `run`: `test`, `next`, `measure`, the two places
  before and in a sleep (`doze`/`sleep`, `block`/`wait`, `blockPaused`/`waitPaused`,
  between which a signal is lost), `due`, `update`, `fire`, `exit`. The stop of the
  adapter (`stop1` to `stop6`) is run by the command thread, by the monitor's own at
  the natural end, or by both.
- Pause and resume are cut where the monitor can see the difference: between the
  two writes of `Player::pause`, before and after the flag and the signal. The events
  of an object are paused and resumed at once.
- A sleep may end early at any time. `usleep` in `Thread.cpp:133` carries over only
  above a million microseconds, so that a sum of exactly a million is refused by
  `pthread_cond_timedwait`; besides, a condition variable may wake spuriously.
- `played` (how long the player has really played) and `clockOff` are history.

Assumptions: no repetition, freeze, time base or abort; an event's listeners do not
command the same object; the adapter is not used again after its stop; explicit
durations with anchors beyond them are left out (see the findings).

### Compound actions

`todo` is, for each thread, what it has still to do: run an action, or one of the
accesses of `actionProcessed` to `pendingActions` and `hasStart`. A delay is a thread
that does not move. The test after the decrement may read the count again or a
register. `left`, `reports`, `raced` and `retriggered` are history. The tree is given by
`Parts`; `TreeAssumption` says that each action but the root is a part of one compound,
once (`addAction` refuses an action it already has). What is below a compound
(`Within`) is the smallest set with the compound that has with each its parts.

### Services

- `sp` is one record of the members of `ServiceProvider` with its demuxers; each
  method is an operator on it, a step is what the provider thread does for a section,
  an expired timeout or a command. `view` is what extensions were told, or
  `confused` when they were told something that does not follow.
- `air` is the broadcast: the version of each table, and whether the next is
  announced; `Announce` and `Change` are the environment's.
- A table has versions 0 to 3; sections of an old version do not come after those of
  a new one, and section numbers do not exceed `last_section_number`. `Fits` has the
  guard of `parseSection` on them nevertheless, as it is coded.
- `missed` is history. An announced section makes what is known expire, once for each
  version known (`PSIDemuxer::expire`). What is not there yet is spared: the services of
  a PAT that is incomplete, or a service whose PMT is complete but which is not ready.
  When the announced version becomes the current one, nothing expires, and the new
  table meets the services of the old one. `NothingToExpire` notes the filter at which
  that may happen.

### Applications

- `app` holds the members of all the classes (see the comment at `AppInit`); `todo`
  are the jobs left of the task the provider thread is in, since a task that handles
  several applications is interleaved with the threads of connectors. `app.tasks` are
  the tasks that connectors enqueue.
- `Spawner::enable` is a loop as well, and one turn of it a job (`EnableTurn`): while
  jobs of this kind are left the spawner is `Switching`, and `MostUrgentRun` does not ask
  yet that no process is missing or too many. The order in which a task goes through
  the applications is that of a list the code keeps; the model takes any.
- `OnAit`, `ServiceStarted`, `ServiceStopped`, `CarouselMounted`, `Scan`, `UserCommand`,
  `StopAll`, `EnableSpawner` are the callbacks and commands; `Connected`, `ConnectTimeout`,
  `KeepAliveTimeout`, `Disconnected` the thread of a connector.
- `app.broken` is set where an assertion of the code fails or a null pointer is
  called; the system stops there. The findings say how it comes to that.

Assumptions: the file system has been scanned at the start; processes can be spawned
and killed; one service; the tag of a carousel is known while the service runs.

## Runs

| Run | Question | Result |
|---|---|---|
| `composite_threads` | three commands in any order, all threads unlocked | `TypeOK`, `PendingExact`, `ChildrenTracked`, `EndNotLost`, `WholeCoversChildren`, `ParentInformed`, `EndsRightUnlessOvertaken` hold, and the composition implements its contract |
| `composite_liveness` | fair threads, no repetition | every link evaluation finishes |
| `composite_end_race` | is an end always right? | `EndsOnlyWhenDone` is violated: a finding |
| `composite_parent_lost` | does a composition that is presented have its parent? | `ParentRegistered` is violated: a finding |
| `composite_repeat_paused` | repetitions and pauses | `NoStaleChild` is violated: a finding |
| `provider_service` | fair threads, tasks, sections, tuning and stops | six properties hold, among them that a stop terminates and releases everything |
| `provider_starved` | the pool used up | `TasksAreTaken` is violated: a finding |
| `provider_stale_section` | two networks one after the other | `SectionsAreCurrent` is violated: a finding |
| `anchor_monitor` | two overlapping areas, pauses, resumes and stops at every step of the monitor | anchors are in step with the table, none fires early, all fire, a presentation with an end comes to it |
| `compound_reports` | a sequence in parallel with two actions | no compound reports too early, no sequence twice, and none is lost or repeated without a race |
| `service_broadcast` | two services, tables that change version three times or are announced, all commands | extensions are in step, services are ready exactly when they should be, filters and a stop are clean, requests are granted, a scan ends |
| `applications_urgent` | three applications for one process, three events from outside | the most urgent run, processes are owned, what is removed leaves nothing, a start settles |

Bounds. The composition's instance is a chain of three media objects: the end of
`m1` starts `m2` with a repetition, the start of `m2` stops `m3` if an assessment
holds. It has every kind of link listener (guarded or not), an action that starts
and one that ends, a repeat action, an object that is not the target of any link
and one that is not a source. Three commands from outside (four in
`composite_repeat_paused`: start, pause, resume or stop, stop) are enough for two
objects to be in the middle of their listeners with a link action under way;
players end by themselves without a bound, and links are triggered without
one. The provider's instance has three pids for two filters, so that a filter can
be refused; two buffers and three sections, so that the pool is used up; two
tasks, and a start or stop out of every section's callback; one change of network
(two in `provider_stale_section`); any number of starts and stops.

The monitor's instance has two areas that overlap and end together, so that there
are two tables; it is started as a whole (without an end) or with the later area
(with an end, and with the other already begun). Two pauses, for one may come while
the object is paused; three units of time, until the last anchor. The compound's
instance has a sequence within a parallel compound, which hears three reports; it is
triggered twice, not before it is done: the constraint `OneAtATime` stops the run at
a trigger that comes too soon, of which no property speaks. The services' instance
has a PAT of two sections, one that drops a service and one without a NIT, and three
changes of any table; an announcement counts as two, so that a table may be announced,
become current and change again, or another change between. There are
four versions, so that within a run no table returns to a version its demuxer may still
know: a NIT that came back to a network with the number it last had there would not be
heard, which broadcasters avoid by counting to 32. The applications'
instance has one process for three applications, so that each may be preempted;
`MaxEvents` bounds what comes from outside, the troubles of a process included, and
not what the system does itself. A carousel, once complete, is mounted without being
counted. Three control codes are sent: `autostart`, `prefetch` and `kill`; `destroy`
is obeyed as `kill` is, and `present` asks for nothing.

Deadlock is not checked in most runs: a document whose objects are all asleep and a provider
nobody calls have nothing to do once the bounded commands are used up. That no
thread waits for ever is what the liveness properties say.

Fairness is weak fairness of the threads that are inside the code: the system
scheduler runs every runnable thread. `NaturalEnd` is fair because contents are
finite; commands, tasks and sections are not: nobody has to send one. In the
provider only steps that follow a call are fair (`Controlling`).

The monitor is fair in its time, its thread and the thread that commands it once a
command has begun; no signal that was lost comes again. In the services every section
that is sent and would change something is received again and again, since tables are
repeated for ever (`Fairness` says this of each section), and an announced version comes.
Nobody has to give a command. In the applications the provider thread is fair, and a
process connects or the connector's timer expires.

Every property has a fault model next to the operator it changes (`...Unguarded`,
`...Leaking`, `...Once` and the like): the same definition with a plausible mistake,
under which TLC finds the property violated. No specification uses them.

## Proofs

All from the named assumptions on the constants (`CompositeAssumption`,
`ProviderAssumption` and so on), for any number of objects, links, pids and buffers, without
the bounds of the runs.

Composition (`CompositeExecutionObjectProofs`). No hypothesis excludes an interleaving.
`CoreInvariant` combines the types with `PendingExact` and with the fact that
`_eventMutex` is held exactly by an action under way; neither is inductive alone,
since what `Return` adds to `toFinish` is what the mutex's holder accounts for.
`TrackInvariant` says, at each `pc`, where the child is in the two sets in terms
of `previous` and `trans`; from it `ChildrenAreTracked`. `EndInvariant` says that
an idle composition that is still open has a thread on its way to close it; from
it `EndIsNotLost`.

The composition's own event (`CompositeRefinementProofs`). `WholeInv`: a child that is
known, or about to be inserted, finds the composition open unless its last end was late,
and whoever has decided to end it (`HasDecided`) has decided rightly unless overtaken.
`ParentInv`: whoever is about to start `wholeContent`, or has done so, has registered the
parents, unless these were taken away. From them `WholeIsCovering`, `ParentIsInformed`,
`EndsAreRight`, and `Implements`: the initial states map to those of
`CompositionContract` and every step to one of its steps or a stutter.

Provider (`ProviderProofs`). `PhaseInv`: which thread exists and holds a buffer in
which phase of start and stop, and when a cleanup still has buffers to free.
`FilterInv`: the demuxer filters what the provider has registered and the pid that is
half stopped (`HalfStopped`, from `RemoveFilter` to `Unfilter`). With these `BuffersConserved` is
inductive. `ProviderTypes`, `NoBufferIsLost`, `ParserIsSafe`,
`NothingWaitsWhenIdle` and `StopReleasesAll` follow.

Anchor monitor (`NominalEventMonitorProofs`), for any events, tolerance, pauses and
time. `TablesAssumption` says that the tables the events give are `Ordered`; the
binary search is recursive, so that TLC evaluates it on the instance and the proofs
take it as an assumption. The inductive invariant `IInv` is `TypeOK` with four parts,
each needed by the next:

- `PhaseInv`: nothing runs before the start, and from its second step on a stop has
  told the monitor, so that no step of a stop counts for what is claimed until then.
- `ClockInv`: while the monitor runs, `elapsedTime`, and with it what has passed since
  `initTime` while the player plays, are not ahead of the time really played. It
  holds between the two writes of `Player::pause` only in its first half.
- `ValueInv`: the value `CheckDue` has read is at most the time played and the
  tolerance, and stays so while `updateTransitionTable` runs. `MonitorNeverEarly`
  follows, as an entry that is done is a beginning or an end at its own time.
- `AnchorInv`: the states are in step with the index, and the index the monitor works
  with is the object's until a stop. The start is `StartInStep` (on `StartIndexPlace`
  and `IndexAfterStartPlace`: what `prepare` and `start` pass over), each transition
  `FireInStep`. `AnchorsStayInStep` follows.

Compound actions (`LinkCompoundActionProofs`), for a tree of any shape and size and any
number of triggers, from `TreeAssumption`; nothing is claimed once the link is triggered
before it is done. `IInv` is of four parts:

- `Orderly`: `RunOnce` (while an action has still to be run, that is all there is to do
  within it) and `OneThread` (what is below a sequence without parallel compounds is all
  done by one thread). They stand on lemmas of the tree: nothing contains itself
  (`NoCycle`), and what is within another is a part of something within (`WholeWithin`).
- `CountInv`: neither `pendingActions` nor what a thread has read of it is less than the
  reports left. This is why a lost decrement makes a compound late and never early; it
  needs `RunOnce`, since a compound run again would leave old values in its threads.
- `AllCovered`: the parts that will still report and the threads that report right now
  are together no more than the reports left. It is needed since `left` could fall
  below 0, and a test for 0 then come before the last report. It holds only with nothing
  parallel below (`Sequential`): a parallel part may report twice.
- `OnceInv`: a sequence that may still report has not done so for this trigger.

A step is described once, by where each thing to do was before (`Moves`, with the lemmas
`...Moves`), and `OrderlyKept`, `DueBefore`, `ValuesKept` and `OnceKept` say what any such step
keeps. `NoneReportsEarly`, `CountNotAhead` and `NoneRunsTwice` follow.

Services (`ServiceProviderProofs`), for any services and pids, any networks, PATs of
any number of sections and any number of changes, from `ServiceAssumption` and
`VersionsAssumption`. Every method is an operator on the record of the provider, so
that the proof has a lemma for each (`...Does`, `...Moves`, `...IsSound`), which says
what the method keeps of the record it is given, and cites it wherever the method is
called. The inductive invariant `SoundInv` needs no hypothesis: it holds with announced
tables, tables of other networks and services that share a pid. It has three parts:

- `Sound`: types, `ReadyExactly` and `FiltersAccounted`, which belong together, for
  killing the services expires them by the flags and stops filters by the list.
- `StoppedIsClean`.
- `Faithful`, of the PAT and of each PMT pid that is not in `missed`: if the version a
  demuxer knows is the one that expired last, its services are gone (`PatInv`) or have
  expired (`PmtInv`); otherwise the next version expires it. The PAT's demuxer has all
  its sections when services are listed. Announcements are steps like any other here:
  one that finds something to expire keeps `Faithful`, and one that does not is in
  `missed` from then on. From it `ExtensionsKnow` and `PatAssertionHolds`.

Applications (`ApplicationsProofs`), for any applications, any priorities, any number of
processes and at any time, from `ApplicationsAssumption`. After a failed assertion
(`app.broken`) only types are claimed; each lemma says first what a method always keeps,
and then what it keeps unless broken. `IInv` speaks of `app` together with the jobs left:

- `Typed`: types, and each process is that of an item.
- `Owned`: `ProcessesOwned`, by application (`Slot`). While a method stops one it holds
  of the others only (`OwnedBut`, `Freed`), and the lemmas of `DoStop` and `SetStatus`
  say how the one comes back.
- `Clean`: only applications that are present are mounted or receive anything, and
  those of the file system are present only when they are mounted. `Spawner` never looks
  at this, but a stop ends in `mounted` whatever was, so that a removal needs it.
- `Ordered`: never more processes than allowed, none less urgent than one that waits.
  It holds at every job. That none waits in vain (`Settled`) does not, while the spawner
  is being enabled or disabled: `EnableInv` says that there are turns left for all that
  still wait, or for all that still run. `RunQueuedKeeps` has the heart of it: to stop
  one process makes room for at most one, and the most urgent item takes it.
- `JobInv`: an application is added once, and if it is present not before its removal.
  Without it the proof of a job stops: `add` of one that is present is nothing the code
  provides for, and `DoJob` does not define it.
- `CodeInv`: what the AIT factory remembers is what is present once the jobs left are
  done. `OnAit` assigns the codes at once and the jobs follow, so that only both
  together are inductive. `ServiceInv` says the same of a service that has stopped.

`JobEffect` says what a job does to the applications it is not for, and `JobKeeps` that it
keeps the invariant of the rest of the list; an action that begins a list (`OnAitKeeps`,
`ScanKeeps`, `ServiceStoppedKeeps`, `EnableSpawnerKeeps`) establishes it of the whole
from `Quiet`, which is the invariant when nothing is left to do. From `IInv` follow
`OnlyMostUrgentRun`, `EachProcessOwned`, `RemovedIsAlwaysClean` and `SignaledArePresent`. A
connector's thread may come between any two jobs, and changes only its own state and
the tasks (`ConnectorKeeps`).

Only model-checked: the liveness properties (`EvaluationsFinish`, `StopTerminates`,
`AnchorsFire`, `PresentationEnds`, `EachReports`, `AskedForStarts`, `ScanEnds`,
`StartSettles`), which under fairness are out of the prover's reach. Every
invariant that a passing run checks is also a theorem. The inductive invariants were also checked
with TLC on the instances above before they were proved.

## Findings

- A composition may end while a child of it is presented or a link action is
  under way (`composite_end_race`): the test at
  `CompositeExecutionObject.cpp:596` and the stop after it are not atomic.
  `EndsRightUnlessOvertaken` shows that this is the only way.
- A composition may be presented without its parent hearing of it
  (`composite_parent_lost`): the thread that ended it unregisters the parents in a step
  of its own (`CompositeExecutionObject.cpp:712`), after another has started it again.
- A child with a repetition left that is stopped while paused is not
  started again and stays in `pausedEvents` (`composite_repeat_paused`): the three
  classes involved count repetitions differently.
- The parser waits for a network buffer under `TSDemuxer::_mutex`, and the thread
  that would free one waits for that mutex (`provider_starved`). `StopTerminates`
  shows that a stop still gets through: it empties the queue itself.
- A section can cross a change of network (`provider_stale_section`): what the parser
  took of the old network is enqueued once the new one is tuned, for `enqueue` looks only
  at the status (`provider.cpp:415`).

Seen while modelling, without a run.

Composition and provider. `EvaluationsFinish` fails with repetitions and three
commands, since `FormatterPlayerAdapter.cpp:298` waits busily for an object inside
`_eventMutex` (hence no repetition in `composite_liveness`). A task accepted between
the end of the provider thread and the status `off` is not run. A comment in
`Provider::stopCurrent` says an idle provider accepts no tasks, but
`ServiceProvider::start` relies on it doing so.

Anchor monitor.
- `waitForUnlockCondition` waits without a predicate: a stop that comes just before
  the wait of a presentation without an end leaves the thread there for ever; a pause
  and a resume in quick succession leave the object's later anchors undone.
- A monitor past its last check fires although the adapter has stopped; after
  `resetTimeIndex` it may do the whole table again.
- `Player::resume` adds the pause to `elapsedPause` although `elapsedTime` already
  excludes it: after a pause the media time lags by it, and anchors come late. A
  pause of a paused object adds the time since the start twice, and so does
  `getMediaTime` between the two writes of `Player::pause`: then anchors come early
  (`clockOff`).
- An event that ends exactly where the presentation starts stays occurring: `start`
  passes over ends. With an explicit duration and an area beyond it
  `getNextTransition` finds nothing while the main event occurs, and the forced end
  stops and unprepares without end. `removeEventTransition` deletes what an erased
  iterator points to (`EventTransitionManager.cpp:213`).

Compound actions.
- `pendingActions--` is not locked: two reports at once may lose one, and the link's
  evaluation is pending for ever, or be both the last, and the composition hears of
  the end twice. `hasStart` may be lost, too. A compound triggered while its actions are
  delayed starts its count again, and hears those of the first trigger for the second.

Services.
- One `_lastExpired` serves all subtables of a demuxer (`psidemuxer.cpp:365`): a new
  version of the NIT or SDT of another network expires the services, although
  `serviceprovider.cpp:538` and `:561` say that such tables are ignored.
- A PAT section that is only announced is parsed into the current one
  (`psidemuxer.cpp:214` and `:276`). An announcement that comes while there is nothing to
  expire spares what comes after it: the real change then finds the services of the old
  PAT, against the assertion of `onPat`, or a service that is ready or runs, of which
  extensions are told what does not follow (`missed`).
- Of two services on one PMT pid only the first expires. An empty PAT never ends a
  scan. `onStopServiceID` leaves the request of a service that does not run queued.

Applications.
- One that is run from the queue keeps the status waiting; preempted again, its
  connector is not deleted, and `assert( !_connector )` fails (`nclapplication.cpp:172`).
- The destructor of a preempted application's connector enqueues a stop, so that it is
  not run again from the queue.
- A late `started` makes a stopped application started without a process; the next
  stop fails `assert( _proc )`. A stop meant for a process that is gone stops its
  successor. A stop of an application that was never mounted makes it mounted.
- An application of priority 0 is never taken from the queue; `changePriority`
  (`applicationextension.cpp:240`) calls the getter; `processNonSignaled` removes
  applications of other AITs; `SpawnerImp::stop` takes its timeout as a Boolean.

## Not modelled, and what could come next

Not modelled for good: the document model, converter and command line (no
behaviour in time), the context manager (file input and output), the presentation
engine's managers (glue), the scripting browser `telemidia-links` and other vendored
or generated code. The largest part of the repository by lines is of these kinds.
What could come next:

1. `PlayerAdapterManager`: adapters against the thread that deletes them a
   millisecond later (`PlayerAdapterManager.cpp:543`). The deleting thread relies on
   time alone, so that only an assumption on time could exclude its use after it.
2. A tree of compositions: `CompositionContract` as the child of a parent; the
   scheduler's actions on compositions; removal of objects (`deleting`); the reports of
   `LinkCompoundAction` as the composition's `pendingLinks`.
3. Repetitions, explicit durations and NPT anchors of `NominalEventMonitor`.
4. Services with several networks on the air and applications of several services;
   services as tasks of `Provider`; DVB's provider and timeouts; the DSM-CC carousel.
5. Focus manager, multidevice, task queue (`TaskQueue` itself is used by nothing).
6. Proofs: that the reports of a sequence say rightly whether something was started, and
   that the reports of the tree are `pendingLinks`.
