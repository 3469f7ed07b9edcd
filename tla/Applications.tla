------------------------------ MODULE Applications ------------------------------
(***************************************************************************)
(* Interactive applications of a receiver (ApplicationExtension,           *)
(* AitFactory, Application and NCLApplication of the DTV connector, with   *)
(* the Spawner and the Connector they use): applications are signaled by   *)
(* the AIT of the running service or found in the file system, downloaded  *)
(* by carousel, and run as processes, the more urgent before the less      *)
(* urgent; each process connects to the receiver over a socket.            *)
(*                                                                         *)
(* Applications are handled in the provider thread.  A task of it that     *)
(* handles several applications is a list of jobs, todo, and each job is a *)
(* step: connectors have threads of their own, that run between the jobs   *)
(* and enqueue tasks.  A job is the composition of the methods it calls,   *)
(* each an operator on the record that holds the members.                  *)
(***************************************************************************)
EXTENDS Integers, FiniteSets, SequencesExt

CONSTANTS
  Apps,
  Priority,    \* of each application
  Local,       \* those in the file system; the AIT signals the others
  Bound,       \* those bound to the service
  Codes,       \* control codes the AIT uses
  MaxParallel, \* processes
  MaxEvents    \* bound on what comes from outside

CtrlCodes == {"autostart", "present", "prefetch", "destroy", "kill"}

NoCode == "not signaled"

ASSUME ApplicationsAssumption ==
  /\ IsFiniteSet(Apps)
  /\ Priority \in [Apps -> Nat]
  /\ Local \subseteq Apps
  /\ Bound \subseteq Apps \ Local
  /\ Codes \subseteq CtrlCodes
  /\ MaxParallel \in Nat \ {0}
  /\ MaxEvents \in Nat

VARIABLES
  app,      \* the members of all the classes
  todo,     \* jobs left of the task the provider thread is in
  events    \* bound

vars == <<app, todo, events>>

(* procs: the items of the Spawner (and _proc of NCLApplication); live,    *)
(* those with a process; conn, the Connector of each, if any, which waits  *)
(* for the process, is connected, has lost it or is over; code, what       *)
(* AitFactory remembers of each; broken, after a failed assertion or a     *)
(* call through a null pointer.  The file system has been scanned.         *)
AppInit ==
  [status |-> [a \in Apps |-> IF a \in Local THEN "mounted" ELSE "absent"],
   mounted |-> Local, autoStart |-> {}, download |-> {}, streams |-> {},
   procs |-> <<>>, live |-> {}, conn |-> [a \in Apps |-> "none"],
   tasks |-> <<>>, enabled |-> TRUE, service |-> FALSE,
   code |-> [a \in Apps |-> NoCode], broken |-> FALSE]

Present(p) == {a \in Apps : p.status[a] # "absent"}

(* isRunning: status > mounted                                             *)
IsRunning(p, a) == p.status[a] \in {"waiting", "starting", "started"}
-----------------------------------------------------------------------------
(* Connector::~Connector: the thread is joined, and tells of its end if it *)
(* was connected.                                                          *)
DropConnector(p, a) ==
  [p EXCEPT !.conn[a] = "none",
            !.tasks = IF p.conn[a] \in {"connected", "lost"}
                        THEN Append(@, <<"stop", a>>) ELSE @]

(* Application::status, NCLApplication::onStatusChanged: started registers *)
(* for editing commands, of which every application mounted has some.      *)
SetStatus(p, a, st) ==
  LET q == CASE st = "waiting" -> DropConnector(p, a)
             [] st = "started" /\ p.service /\ a \in p.mounted \ Local ->
                  [p EXCEPT !.streams = @ \cup {a}]
             [] OTHER -> p
  IN  IF st = p.status[a] THEN p ELSE [q EXCEPT !.status[a] = st]

(* Spawner::stopAndQueue                                                   *)
Preempt(p, a) == [SetStatus(p, a, "waiting") EXCEPT !.live = @ \ {a}]

Items(p) == ToSet(p.procs)

Position(p, a) == CHOOSE i \in DOMAIN p.procs : p.procs[i] = a

(* MinTaskFinder, MaxTaskFinder: the first of its priority in the list     *)
MinTask(p, items) ==
  CHOOSE a \in items : \A b \in items :
    \/ Priority[a] < Priority[b]
    \/ Priority[a] = Priority[b] /\ Position(p, a) <= Position(p, b)

MaxTask(p, items) ==
  CHOOSE a \in items : \A b \in items :
    \/ Priority[a] > Priority[b]
    \/ Priority[a] = Priority[b] /\ Position(p, a) <= Position(p, b)

LessUrgent(p, a) == {b \in p.live : Priority[b] < Priority[a]}

CanRun(p, a) ==
  p.enabled /\ (Cardinality(p.live) < MaxParallel \/ LessUrgent(p, a) # {})

MakeRoom(p, a) ==
  IF Cardinality(p.live) < MaxParallel
    THEN p ELSE Preempt(p, MinTask(p, LessUrgent(p, a)))

(* spawn, with setupProcess: assert( !_connector ).  That posix_spawn      *)
(* fails is left out.                                                      *)
SpawnProcess(p, a) ==
  [p EXCEPT !.live = @ \cup {a}, !.conn[a] = "waiting",
            !.broken = @ \/ p.conn[a] # "none"]

Exec(p, a) == IF CanRun(p, a) THEN SpawnProcess(MakeRoom(p, a), a) ELSE p

(* An item of priority 0 is not found.                                     *)
Queued(p) == {a \in Items(p) \ p.live : Priority[a] > 0}

(* Fault model of RunQueued: nothing is run from the queue.                *)
RunQueuedNone(p) == p

RunQueued(p) == IF Queued(p) = {} THEN p ELSE Exec(p, MaxTask(p, Queued(p)))

(* One turn of the loops of Spawner::enable, of which there are as many as *)
(* items.  The one that runs the queue stops once nothing is run; from     *)
(* then on RunQueued changes nothing.                                      *)
EnableTurn(p, a) ==
  IF p.enabled THEN RunQueued(p)
    ELSE IF a \in p.live THEN Preempt(p, a) ELSE p
-----------------------------------------------------------------------------
(* NCLApplication::doStart, Spawner::run, and status( doStart() )          *)
DoStart(p, a) ==
  SetStatus([Exec(p, a) EXCEPT !.procs = Append(@, a)], a,
            IF CanRun(p, a) THEN "starting" ELSE "waiting")

(* Fault model of DoStop: the process is not killed.                       *)
DoStopNoKill(p, a) ==
  DropConnector([p EXCEPT !.procs = RemoveAt(@, Position(p, a))], a)

(* NCLApplication::doStop, Spawner::stop: assert( _proc ).  Of one that    *)
(* has started the connector, which must be there, shall not tell its end. *)
DoStop(p, a) ==
  LET started == p.status[a] = "started"
      q == RunQueued([p EXCEPT !.procs = RemoveAt(@, Position(p, a)),
                               !.live = @ \ {a}])
  IN  IF a \notin Items(p) \/ (started /\ p.conn[a] = "none")
        THEN [p EXCEPT !.broken = TRUE]
        ELSE IF started THEN [q EXCEPT !.conn[a] = "none"]
                        ELSE DropConnector(q, a)

(* startDownload: the tag of the carousel is known while the service runs. *)
StartDownload(p, a) ==
  IF p.service THEN [p EXCEPT !.download = @ \cup {a}] ELSE p

StopStreamEvents(p, a) == [p EXCEPT !.streams = @ \ {a}]

StopDownload(p, a) ==
  [StopStreamEvents(p, a) EXCEPT !.download = @ \ {a}]

(* Application::start: autoStart is never taken back.                      *)
Start(p, a) ==
  IF IsRunning(p, a) THEN p
    ELSE IF a \in p.mounted THEN DoStart(p, a)
      ELSE StartDownload([p EXCEPT !.autoStart = @ \cup {a}], a)

(* Fault model of Stop: the carousel is still received.                    *)
StopOnlyProcess(p, a) ==
  SetStatus(IF IsRunning(p, a) THEN DoStop(p, a) ELSE p, a, "mounted")

(* Application::stop ends in mounted also when nothing is.                 *)
Stop(p, a) ==
  LET q == StopDownload(p, a)
  IN  SetStatus(IF IsRunning(p, a) THEN DoStop(q, a) ELSE q, a, "mounted")

Unmount(p, a) ==
  IF a \in p.mounted
    THEN SetStatus([p EXCEPT !.mounted = @ \ {a}], a, "unmounted") ELSE p

(* Fault model of OnMounted: the application is not stopped first.         *)
OnMountedWhileRunning(p, a) ==
  LET q == Unmount(p, a)
      r == SetStatus([StopStreamEvents(q, a) EXCEPT !.mounted = @ \cup {a}],
                     a, "mounted")
  IN  IF a \in r.autoStart THEN Start(r, a) ELSE r

(* onMounted, also called when the carousel changes                        *)
OnMounted(p, a) ==
  LET q == IF IsRunning(p, a) THEN SetStatus(DoStop(p, a), a, "mounted") ELSE p
      r == StopStreamEvents(Unmount(q, a), a)
      s == SetStatus([r EXCEPT !.mounted = @ \cup {a}], a, "mounted")
  IN  IF a \in s.autoStart THEN Start(s, a) ELSE s

(* Profile::create, ApplicationFactory::tryFile, ApplicationExtension::add *)
Add(p, a) ==
  LET auto == p.code[a] = "autostart"
      q == [p EXCEPT !.status[a] = IF a \in Local THEN "mounted" ELSE "unmounted",
                     !.mounted = IF a \in Local THEN @ \cup {a} ELSE @,
                     !.autoStart = IF auto THEN @ \cup {a} ELSE @]
  IN  IF auto \/ p.code[a] = "prefetch" THEN StartDownload(q, a) ELSE q

(* ApplicationExtension::remove; that nothing is left is asserted by the   *)
(* destructors, and left to a property.                                    *)
RemoveApp(p, a) ==
  [Unmount(Stop(p, a), a) EXCEPT !.status[a] = "absent",
                                 !.autoStart = @ \ {a}]
-----------------------------------------------------------------------------
(* A job is for an application with this id, if there is one, or for an    *)
(* item of the Spawner.                                                    *)
DoJob(p, job) ==
  LET a == job[2]
  IN  IF job[1] = "enable" THEN EnableTurn(p, a)
      ELSE IF a \notin Present(p) THEN IF job[1] = "add" THEN Add(p, a) ELSE p
      ELSE CASE job[1] = "start" -> Start(p, a)
             [] job[1] = "stop" -> Stop(p, a)
             [] job[1] = "download" -> StartDownload(p, a)
             [] job[1] = "stopDownload" -> StopDownload(p, a)
             [] job[1] = "remove" -> RemoveApp(p, a)
             [] job[1] = "started" -> SetStatus(p, a, "started")

(* Applications are handled in the order of a list of them.                *)
Jobs(kind, list) == [i \in DOMAIN list |-> <<kind, list[i]>>]

(* AitFactory::processCtrlCode                                             *)
CtrlJob(code, a) ==
  CASE code = "autostart" -> <<"start", a>>
    [] code = "prefetch" -> <<"download", a>>
    [] code \in {"destroy", "kill"} -> <<"stop", a>>

Idle == todo = <<>> /\ ~app.broken

Step == ~app.broken

(* The provider thread goes on with its task, or takes the next one that a *)
(* connector has enqueued.                                                 *)
DoNextJob ==
  /\ Step
  /\ todo # <<>>
  /\ app' = DoJob(app, Head(todo))
  /\ todo' = Tail(todo)
  /\ UNCHANGED events

DoNextTask ==
  /\ Idle
  /\ app.tasks # <<>>
  /\ app' = DoJob([app EXCEPT !.tasks = Tail(@)], Head(app.tasks))
  /\ UNCHANGED <<todo, events>>

Event == events < MaxEvents /\ events' = events + 1

Command == Idle /\ Event

Known == {a \in Apps : app.code[a] # NoCode}

Signaled(codes) == {a \in Apps : codes[a] # NoCode}

Changed(codes) ==
  {a \in Known \cap Signaled(codes) : codes[a] \notin {app.code[a], "present"}}

(* AitFactory::onAit: the codes of those it knows that have changed, then  *)
(* the removal of those not signaled any more, then the new ones.          *)
OnAit(codes) ==
  /\ Command
  /\ app.service
  /\ app' = [app EXCEPT !.code = codes]
  /\ \E obey \in SetToSeqs(Changed(codes)),
       gone \in SetToSeqs(Known \ Signaled(codes)),
       new  \in SetToSeqs(Signaled(codes) \ Known) :
       todo' = [i \in DOMAIN obey |-> CtrlJob(codes[obey[i]], obey[i])]
                 \o Jobs("remove", gone) \o Jobs("add", new)

(* onServiceStarted                                                        *)
ServiceStarted ==
  /\ Idle
  /\ ~app.service
  /\ app' = [app EXCEPT !.service = TRUE]
  /\ UNCHANGED <<todo, events>>

(* Fault model of CodesAfterService: those bound are remembered.           *)
CodesAfterServiceKept(p) == p.code

(* AitFactory::serviceStopped                                              *)
CodesAfterService(p) ==
  [a \in Apps |-> IF a \in Bound THEN NoCode ELSE p.code[a]]

(* onServiceStopped: those bound to it are removed, and the download of    *)
(* the others ends with the tags.                                          *)
ServiceStopped ==
  /\ Command
  /\ app.service
  /\ app' = [app EXCEPT !.service = FALSE, !.code = CodesAfterService(app)]
  /\ \E gone  \in SetToSeqs(Bound \cap Present(app)),
       other \in SetToSeqs(Present(app) \ (Bound \cup Local)) :
       todo' = Jobs("remove", gone) \o Jobs("stopDownload", other)

(* ApplicationExtension::scan                                              *)
Scan ==
  /\ Command
  /\ app' = app
  /\ \E gone \in SetToSeqs(Local \cap Present(app)), new \in SetToSeqs(Local) :
       todo' = Jobs("remove", gone) \o Jobs("add", new)

(* ApplicationExtension::start, stop                                       *)
UserCommand(kind, a) ==
  /\ Command
  /\ app' = app
  /\ todo' = <<<<kind, a>>>>

(* ApplicationExtension::stopAll                                           *)
StopAll ==
  /\ Command
  /\ app' = app
  /\ \E list \in SetToSeqs(Present(app)) : todo' = Jobs("stop", list)

(* ApplicationController::doEnable, Spawner::enable                        *)
EnableSpawner(on) ==
  /\ Command
  /\ app' = [app EXCEPT !.enabled = on]
  /\ todo' = IF on = app.enabled THEN <<>> ELSE Jobs("enable", app.procs)

(* The carousel of an application is complete, or has changed.             *)
CarouselMounted(a) ==
  /\ a \in app.download
  /\ IF a \in app.mounted THEN Command ELSE Idle /\ UNCHANGED events
  /\ app' = OnMounted(app, a)
  /\ UNCHANGED todo
-----------------------------------------------------------------------------
(* The thread of a connector                                               *)

(* connected                                                               *)
Connected(a) ==
  /\ Step
  /\ app.conn[a] = "waiting" /\ a \in app.live
  /\ app' = [app EXCEPT !.conn[a] = "connected",
                        !.tasks = Append(@, <<"started", a>>)]
  /\ UNCHANGED <<todo, events>>

(* Fault model of AfterConnectTimeout: nobody is told.                     *)
AfterConnectTimeoutSilent(p, a) == [p EXCEPT !.conn[a] = "over"]

AfterConnectTimeout(p, a) ==
  [p EXCEPT !.conn[a] = "over", !.tasks = Append(@, <<"stop", a>>)]

(* What a live process does wrong counts as an event from outside.         *)
Trouble(a) == IF a \in app.live THEN Event ELSE UNCHANGED events

(* connectTimeout                                                          *)
ConnectTimeout(a) ==
  /\ Step
  /\ app.conn[a] = "waiting"
  /\ Trouble(a)
  /\ app' = AfterConnectTimeout(app, a)
  /\ UNCHANGED todo

(* timeout: keep-alives have not been answered; the thread ends.           *)
KeepAliveTimeout(a) ==
  /\ Step
  /\ app.conn[a] = "connected"
  /\ Trouble(a)
  /\ app' = [app EXCEPT !.conn[a] = "lost",
                        !.tasks = Append(@, <<"stop", a>>)]
  /\ UNCHANGED todo

(* disconnected, also after the process has ended                          *)
Disconnected(a) ==
  /\ Step
  /\ app.conn[a] \in {"connected", "lost"}
  /\ IF app.conn[a] = "lost" THEN UNCHANGED events ELSE Trouble(a)
  /\ app' = [app EXCEPT !.conn[a] = "over",
                        !.tasks = Append(@, <<"stop", a>>)]
  /\ UNCHANGED todo
-----------------------------------------------------------------------------
Init ==
  /\ app = AppInit
  /\ todo = <<>>
  /\ events = 0

SignaledCodes == {c \in [Apps -> Codes \cup {NoCode}] :
                    \A a \in Local : c[a] = NoCode}

Signaling ==
  \/ \E codes \in SignaledCodes : OnAit(codes)
  \/ ServiceStarted
  \/ ServiceStopped
  \/ \E a \in Apps : CarouselMounted(a)

User ==
  \/ Scan
  \/ StopAll
  \/ \E a \in Apps : UserCommand("start", a) \/ UserCommand("stop", a)
  \/ \E on \in BOOLEAN : EnableSpawner(on)

ProviderThread == DoNextJob \/ DoNextTask

ConnectorThread(a) ==
  Connected(a) \/ ConnectTimeout(a) \/ KeepAliveTimeout(a) \/ Disconnected(a)

Next ==
  \/ ProviderThread
  \/ Signaling
  \/ User
  \/ \E a \in Apps : ConnectorThread(a)

Spec == Init /\ [][Next]_vars

(* The provider thread does what is queued; a process connects or the      *)
(* timer of its connector expires.                                         *)
FairSpec ==
  /\ Spec
  /\ WF_vars(ProviderThread)
  /\ \A a \in Apps : WF_vars(Connected(a) \/ ConnectTimeout(a))
-----------------------------------------------------------------------------
JobKinds == {"add", "remove", "start", "stop", "download", "stopDownload", "enable"}

(* Members and jobs have their types; in particular a live process is that *)
(* of an item of the Spawner.                                              *)
TypeOK ==
  /\ app.status \in [Apps -> {"absent", "unmounted", "mounted",
                              "waiting", "starting", "started"}]
  /\ app.mounted \subseteq Apps /\ app.autoStart \subseteq Apps
  /\ app.download \subseteq Apps \ Local /\ app.streams \subseteq Apps \ Local
  /\ app.procs \in Seq(Apps)
  /\ app.live \subseteq Items(app)
  /\ app.conn \in [Apps -> {"none", "waiting", "connected", "lost", "over"}]
  /\ app.tasks \in Seq({"started", "stop"} \X Apps)
  /\ app.enabled \in BOOLEAN /\ app.service \in BOOLEAN /\ app.broken \in BOOLEAN
  /\ app.code \in [Apps -> CtrlCodes \cup {NoCode}]
  /\ todo \in Seq(JobKinds \X Apps)
  /\ events \in Nat

(* The Spawner is in Spawner::enable.                                      *)
Switching == todo # <<>> /\ Head(todo)[1] = "enable"

(* The Spawner never runs more than it may; while it is enabled all that   *)
(* run are at least as urgent as any that waits in its queue; and once     *)
(* enable is done none waits in vain, and none runs while disabled,        *)
(* whoever has stopped, was preempted or has been enabled again.           *)
MostUrgentRun ==
  ~app.broken =>
    /\ Cardinality(app.live) <= MaxParallel
    /\ app.enabled =>
         \A q \in Queued(app) :
           /\ Switching \/ Cardinality(app.live) = MaxParallel
           /\ \A a \in app.live : Priority[a] >= Priority[q]
    /\ Switching \/ app.enabled \/ app.live = {}

(* The Spawner has one item of an application, and only while that is      *)
(* waiting, starting or started; only these have connectors; and one that  *)
(* is starting has a process, and a connector that will tell what becomes  *)
(* of it.  The comment in onMounted says how it would otherwise go wrong.  *)
ProcessesOwned ==
  ~app.broken =>
    /\ IsInjective(app.procs)
    /\ \A a \in Apps :
         /\ a \in Items(app) => IsRunning(app, a)
         /\ app.conn[a] # "none" => a \in Items(app)
         /\ app.status[a] = "starting" => a \in app.live /\ app.conn[a] # "none"

(* An application that has been removed leaves nothing behind, as the      *)
(* destructors assert, and after the service is gone nothing is received   *)
(* from it and those bound to it are removed.                              *)
RemovedIsClean ==
  ~app.broken =>
    /\ \A a \in Apps \ Present(app) :
         /\ a \notin app.download \cup app.streams \cup Items(app) \cup app.mounted
         /\ app.conn[a] = "none"
    /\ todo = <<>> /\ ~app.service =>
         app.download = {} /\ app.streams = {} /\ Bound \cap Present(app) = {}

(* The AIT factory remembers exactly the applications that are there.      *)
SignaledPresent ==
  todo = <<>> /\ ~app.broken =>
    \A a \in Apps \ Local : app.code[a] # NoCode <=> a \in Present(app)

(* An application that is starting becomes started, or is stopped, or has  *)
(* to wait: the connector tells of either outcome.                         *)
StartSettles ==
  \A a \in Apps :
    app.status[a] = "starting" ~> app.status[a] # "starting" \/ app.broken
=============================================================================
