---------------------------- MODULE ServiceProvider ----------------------------
(***************************************************************************)
(* The receiver's list of services (ServiceProvider and Service of the DTV *)
(* connector): it filters the PAT, for each program of it a PMT, the NIT   *)
(* and the SDT; a service is ready when its PMT and all other tables are   *)
(* there, and runs if somebody has asked for it.                           *)
(*                                                                         *)
(* Everything happens in the provider thread, one section, timeout or task *)
(* after the other: a step is one of these, and its effect is the          *)
(* composition of the methods it calls, each an operator on the record     *)
(* that holds the members of the class.  A loop over the services treats   *)
(* each on its own and is written as one assignment.                       *)
(*                                                                         *)
(* The broadcast is the environment: each table has a current version and  *)
(* perhaps one announced (current_next_indicator = 0), and is repeated for *)
(* ever.                                                                   *)
(***************************************************************************)
EXTENDS PSIDemuxer

CONSTANTS
  Services,    \* program numbers
  PmtPids,
  PidOf,       \* the PMT pid of each service
  Nets,        \* network ids
  NoNet,       \* NIT_ID_RESERVED
  Pat,         \* Pat[v][n]: the program numbers in section n of version v
  NitNet,      \* the network the NIT of a version is for
  SdtNet,      \* the network the SDT of a version is for
  Others,      \* the kinds of table also sent for other networks
  Announced,   \* the kinds of table whose next version may be announced
  MaxChanges   \* bound on the changes of versions

NETWORK_ID_PROGRAM == 0

ASSUME ServiceAssumption ==
  /\ Services \subseteq Nat \ {NETWORK_ID_PROGRAM}
  /\ PmtPids \cap {"PAT", "NIT", "SDT"} = {}
  /\ PidOf \in [Services -> PmtPids]
  /\ NoNet \notin Nets
  /\ DOMAIN Pat = Versions
  /\ \A v \in Versions :
       /\ Cardinality(DOMAIN Pat[v]) \in Nat
       /\ DOMAIN Pat[v] = 0 .. (Cardinality(DOMAIN Pat[v]) - 1)
       /\ \A n \in DOMAIN Pat[v] :
            Pat[v][n] \subseteq Services \cup {NETWORK_ID_PROGRAM}
  /\ NitNet \in [Versions -> Nets]
  /\ SdtNet \in [Versions -> Nets]
  /\ Others \subseteq {"NIT", "SDT"}
  /\ MaxChanges \in Nat

VARIABLES
  sp,       \* the members of ServiceProvider, and what extensions were told
  air,      \* the version of each table sent, and whether one is announced
  missed,   \* the filters at which an announcement spared services (history)
  changes   \* bound

vars == <<sp, air, missed, changes>>

Flags == {"pat", "nit", "sdt"}

Filters == {"PAT", "NIT", "SDT"} \cup PmtPids

(* The subtables a filter may see: of a PMT pid, the programs on it; of    *)
(* NIT and SDT, one for each table id and network.                         *)
Subtables(f) ==
  CASE f = "PAT" -> {"PAT"}
    [] f \in {"NIT", "SDT"} -> {"actual", "other"} \X Nets
    [] OTHER -> {s \in Services : PidOf[s] = f}

SpInit ==
  [running |-> FALSE, ready |-> {}, ts |-> FALSE,
   nitID |-> NoNet, nitPID |-> FALSE,
   state |-> [s \in Services |-> "none"], queued |-> {},
   endScan |-> FALSE,
   filters |-> {}, demux |-> [f \in Filters |-> NewDemuxer(Subtables(f))],
   view |-> [s \in Services |-> "idle"]]

IsReady(p) == p.ready = Flags

(* The order of service::state::type: present, complete, expired, timeout, *)
(* ready, running                                                          *)
Ready == {"ready", "running"}                  \* >= ready
Scanned == {"timeout", "ready", "running"}     \* >= timeout

Listed(p) == {s \in Services : p.state[s] # "none"}

(* FindByPid finds the first in the order of the map: the least id.        *)
FirstOn(p, pid) ==
  CHOOSE s \in Listed(p) :
    PidOf[s] = pid /\ \A r \in Listed(p) : PidOf[r] = pid => s <= r

SomeOn(p, pid) == \E s \in Listed(p) : PidOf[s] = pid
-----------------------------------------------------------------------------
(* Extensions are told that a service is ready, started, stopped, expired. *)
(* Shown is what they should believe; if one is told something that does   *)
(* not follow from that, it is "confused".                                 *)
Shown(st) ==
  CASE st = "running" -> "started" [] st = "ready" -> "ready" [] OTHER -> "idle"

Told(p, s, from, to) == IF p.view[s] = from THEN to ELSE "confused"

StopFilters(p, fs) ==
  [p EXCEPT !.filters = @ \ fs,
            !.demux = [f \in Filters |->
                         IF f \in fs THEN NewDemuxer(Subtables(f)) ELSE @[f]]]

(* Provider::startFilter refuses a pid that is already filtered.           *)
StartFilters(p, fs) ==
  [p EXCEPT !.filters = @ \cup fs,
            !.demux = [f \in Filters |->
                         IF f \in fs \ p.filters
                           THEN NewDemuxer(Subtables(f)) ELSE @[f]]]

(* onStopService of each of these                                          *)
OnStopService(p, ss) ==
  LET stopped == {s \in ss : p.state[s] = "running"}
  IN  [p EXCEPT !.state = [s \in Services |->
                             IF s \in stopped THEN "ready" ELSE @[s]],
                !.view = [s \in Services |->
                             IF s \in stopped THEN Told(p, s, "started", "ready")
                                              ELSE @[s]]]

(* onStartService: extensions first, then the state.                       *)
OnStartService(p, s) ==
  [p EXCEPT !.view[s] = Told(p, s, "ready", "started"), !.state[s] = "running"]

(* Fault model of OnStartServiceID: whether the provider is ready is not   *)
(* asked.                                                                  *)
OnStartServiceIDAnyway(p, s) ==
  IF p.state[s] \in {"ready", "complete"}
    THEN [p EXCEPT !.state[s] = "running", !.view[s] = "started"]
    ELSE [p EXCEPT !.queued = @ \cup {s}]

OnStartServiceID(p, s) ==
  IF IsReady(p) /\ p.state[s] = "ready"
    THEN OnStartService(p, s)
    ELSE [p EXCEPT !.queued = @ \cup {s}]

(* Fault model of OnExpireService: extensions are told only of those that  *)
(* run.                                                                    *)
OnExpireServiceQuietly(p, ss, to) ==
  LET running == {s \in ss : p.state[s] = "running"}
  IN  [p EXCEPT !.state = [s \in Services |->
                             IF s \in ss /\ @[s] \in Ready THEN to ELSE @[s]],
                !.view = [s \in Services |->
                             IF s \in running THEN "idle" ELSE @[s]],
                !.queued = @ \cup running]

(* onExpireService of each: those that ran are stopped first and queued;   *)
(* onStartServiceID never starts one here, for its state is no longer      *)
(* ready.                                                                  *)
OnExpireService(p, ss, to) ==
  LET expiring == {s \in ss : p.state[s] \in Ready}
      q == OnStopService(p, ss)
  IN  [q EXCEPT !.state = [s \in Services |->
                             IF s \in expiring THEN to ELSE @[s]],
                !.view = [s \in Services |->
                             IF s \in expiring THEN Told(q, s, "ready", "idle")
                                               ELSE @[s]],
                !.queued = @ \cup {s \in ss : p.state[s] = "running"}]

(* Fault model of NotifyEndScan: a service that runs is not counted.       *)
NotifyEndScanReadyOnly(p) ==
  [p EXCEPT !.endScan =
     @ \/ \A s \in Listed(p) : p.state[s] \in Scanned \ {"running"}]

(* notifyEndScan                                                           *)
NotifyEndScan(p) ==
  [p EXCEPT !.endScan = @ \/ \A s \in Listed(p) : p.state[s] \in Scanned]

(* Fault model of OnServiceReady: the queue is not looked at.              *)
OnServiceReadyOnly(p, ss) ==
  LET complete == {s \in ss : p.state[s] = "complete"}
  IN  [p EXCEPT !.state = [s \in Services |->
                             IF s \in complete THEN "ready" ELSE @[s]],
                !.view = [s \in Services |->
                             IF s \in complete THEN Told(p, s, "idle", "ready")
                                               ELSE @[s]],
                !.endScan = TRUE]

(* onServiceReady of each that is complete: it is reported as scanned, and *)
(* started if it is in the queue.                                          *)
OnServiceReady(p, ss) ==
  LET complete == {s \in ss : p.state[s] = "complete"}
      start    == complete \cap p.queued
      q == [p EXCEPT !.state = [s \in Services |->
                                  IF s \in start THEN "running"
                                  ELSE IF s \in complete THEN "ready" ELSE @[s]],
                     !.view = [s \in Services |->
                                  IF s \in complete
                                    THEN Told(p, s, "idle",
                                           IF s \in start THEN "started" ELSE "ready")
                                    ELSE @[s]],
                     !.queued = @ \ start]
  IN  IF complete = {} THEN p ELSE NotifyEndScan(q)

(* serviceChanged, called by updateServices for those a table changed      *)
ServicesChanged(p, ss) == IF IsReady(p) THEN OnServiceReady(p, ss) ELSE p

(* setFlags, with expire and setReady                                      *)
SetFlags(p, mask, set) ==
  LET q == [p EXCEPT !.ready = IF set THEN @ \cup mask ELSE @ \ mask]
  IN  CASE IsReady(p) /\ ~IsReady(q) -> OnExpireService(q, Services, "complete")
        [] ~IsReady(p) /\ IsReady(q) -> OnServiceReady(q, Services)
        [] OTHER -> q

StopNit(p) ==
  IF p.nitPID
    THEN [StopFilters(p, {"NIT", "SDT"}) EXCEPT !.nitID = NoNet, !.nitPID = FALSE]
    ELSE p

(* Fault model of KillServices: the NIT and the SDT stay filtered.         *)
KillServicesOnly(p) ==
  LET q == StopFilters(SetFlags(p, Flags, FALSE), {PidOf[s] : s \in Listed(p)})
  IN  [q EXCEPT !.state = [s \in Services |-> "none"], !.ts = FALSE]

KillServices(p) ==
  LET q == StopFilters(SetFlags(p, Flags, FALSE), {PidOf[s] : s \in Listed(p)})
  IN  [StopNit([q EXCEPT !.state = [s \in Services |-> "none"]])
         EXCEPT !.ts = FALSE]
-----------------------------------------------------------------------------
(* Callbacks of the tables                                                 *)

(* onPat: a program is a service, but for number 0, which says where the   *)
(* NIT is (PATDemuxer::check).  assert( _tsID == INVALID_TS_ID ) is left   *)
(* to a property.                                                          *)
OnPat(p, programs) ==
  LET listed == programs \cap Services
      q == SetFlags([p EXCEPT !.state = [s \in Services |->
                                IF s \in listed THEN "present" ELSE @[s]],
                              !.ts = TRUE],
                    {"pat"}, TRUE)
      r == StartFilters(q, {PidOf[s] : s \in listed})
  IN  IF NETWORK_ID_PROGRAM \in programs
        THEN [StartFilters(r, {"NIT"}) EXCEPT !.nitPID = TRUE]
        ELSE SetFlags(r, {"nit", "sdt"}, TRUE)

(* updateServices<Pmt>, Service::process( Pmt * )                          *)
OnPmt(p, s) ==
  IF p.state[s] = "none" THEN p
    ELSE ServicesChanged([p EXCEPT !.state[s] = "complete"], {s})

(* onNit: the SDT is filtered anew, lest it were for the other network.    *)
OnNit(p, tid, net) ==
  IF tid = "actual"
    THEN LET q == ServicesChanged([p EXCEPT !.nitID = net], Services)
             r == StopFilters(SetFlags(q, {"sdt"}, FALSE), {"SDT"})
         IN  SetFlags(StartFilters(r, {"SDT"}), {"nit"}, TRUE)
    ELSE p

(* onSdt                                                                   *)
OnSdt(p, tid, net) ==
  IF tid = "actual" /\ net = p.nitID
    THEN SetFlags(ServicesChanged(p, Services), {"sdt"}, TRUE)
    ELSE p

(* onPatExpired, onExpired, onPmtExpired                                   *)
OnExpired(p, f) ==
  CASE f = "PAT" -> KillServices(p)
    [] f = "NIT" -> SetFlags(p, {"nit", "sdt"}, FALSE)
    [] f = "SDT" -> SetFlags(p, {"sdt"}, FALSE)
    [] OTHER -> IF SomeOn(p, f)
                  THEN OnExpireService(p, {FirstOn(p, f)}, "expired") ELSE p

(* onPmtTimeout                                                            *)
OnPmtTimeout(p, f) ==
  IF SomeOn(p, f) /\ p.state[FirstOn(p, f)] = "present"
    THEN NotifyEndScan([p EXCEPT !.state[FirstOn(p, f)] = "timeout"])
    ELSE p

(* onPatTimeout, onTimeout and onPmtTimeout                                *)
OnTimeout(p, f) ==
  IF f \in PmtPids THEN OnPmtTimeout(p, f)
    ELSE IF p.endScan THEN p
      ELSE CASE f = "PAT" -> KillServices([p EXCEPT !.endScan = TRUE])
             [] f = "NIT" -> SetFlags(p, {"nit", "sdt"}, TRUE)
             [] f = "SDT" -> SetFlags(p, {"sdt"}, TRUE)
-----------------------------------------------------------------------------
(* A section for filter f (PSIDemuxer::endSection): the PAT may have       *)
(* several, which are parsed also when versionChanged returns false.       *)
VersionSeen(p, f, sec) ==
  LET q == IF Expires(p.demux[f], sec) THEN OnExpired(p, f) ELSE p
  IN  [q EXCEPT !.demux[f] = AfterVersion(p.demux[f], sec)]

(* ... the PAT, of which sections may be missing                           *)
PatSection(p, sec) ==
  LET q == VersionSeen(p, "PAT", sec)
      d == q.demux["PAT"]
      r == [q EXCEPT !.demux["PAT"] = AfterSection(d, sec)]
  IN  IF sec.num \in d.parsed THEN q
        ELSE IF Completes(d, sec) THEN OnPat(r, r.demux["PAT"].content) ELSE r

(* ... and the others, of one section                                      *)
Section(p, f, sec) ==
  LET q == VersionSeen(p, f, sec)
  IN  IF f = "PAT" THEN PatSection(p, sec)
        ELSE IF ~Applies(p.demux[f], sec) THEN q
          ELSE CASE f = "NIT" -> OnNit(q, sec.table[1], sec.table[2])
                 [] f = "SDT" -> OnSdt(q, sec.table[1], sec.table[2])
                 [] OTHER -> OnPmt(q, sec.table)

(* The tables of the broadcast: kind, and program or 0 for this network, 1 *)
(* for another one.                                                        *)
Tables ==
  {<<"PAT", 0>>, <<"NIT", 0>>, <<"SDT", 0>>}
    \cup {<<k, 1>> : k \in Others}
    \cup {<<"PMT", s>> : s \in Services}

FilterOf(t) == IF t[1] = "PMT" THEN PidOf[t[2]] ELSE t[1]

TableId(t) == IF t[2] = 0 THEN "actual" ELSE "other"

(* Section n of version v of a table                                       *)
SectionOf(t, v, apply, n) ==
  [table |-> CASE t[1] = "PAT" -> "PAT"
               [] t[1] = "NIT" -> <<TableId(t), NitNet[v]>>
               [] t[1] = "SDT" -> <<TableId(t), SdtNet[v]>>
               [] OTHER -> t[2],
   ver |-> v, apply |-> apply, num |-> n,
   last |-> IF t[1] = "PAT" THEN Cardinality(DOMAIN Pat[v]) - 1 ELSE 0,
   content |-> IF t[1] = "PAT" THEN Pat[v][n] ELSE {}]

Numbers(t, v) == IF t[1] = "PAT" THEN DOMAIN Pat[v] ELSE {0}

NextVersion(v) == IF v + 1 \in Versions THEN v + 1 ELSE 0

OnAir(t, v, apply) ==
  IF apply THEN v = air[t].ver ELSE air[t].next /\ v = NextVersion(air[t].ver)

(* The PAT known has all its sections.                                     *)
Complete(d) == d.parsed # {} /\ Cardinality(d.parsed) = d.size

(* An announced section makes what is known expire, once for each version  *)
(* known (expire): services that are not listed yet, or not ready yet, are *)
(* spared now and when the announced version becomes the current one.      *)
NothingToExpire(p, f, sec) ==
  /\ ~sec.apply
  /\ \/ f = "PAT" /\ ~p.ts /\ ~Complete(p.demux[f])
     \/ f \in PmtPids /\ p.state[sec.table] = "complete"

Receive(t, v, apply, n) ==
  /\ FilterOf(t) \in sp.filters
  /\ OnAir(t, v, apply)
  /\ n \in Numbers(t, v)
  /\ LET f   == FilterOf(t)
         sec == SectionOf(t, v, apply, n)
     IN  /\ sp' = Section(sp, f, sec)
         /\ missed' = IF NothingToExpire(sp, f, sec) THEN missed \cup {f} ELSE missed
  /\ UNCHANGED <<air, changes>>

(* DVBProvider::onReadSection: nothing has come through the filter in its  *)
(* time.                                                                   *)
TimeoutExpired(f) ==
  /\ f \in sp.filters
  /\ sp.demux[f] = NewDemuxer(Subtables(f))
  /\ sp' = OnTimeout(sp, f)
  /\ UNCHANGED <<air, missed, changes>>

(* The broadcaster: the next version of a table is announced, which counts *)
(* as two changes, and becomes the current one.                            *)
Announce(t) ==
  /\ changes + 2 <= MaxChanges
  /\ t[1] \in Announced
  /\ ~air[t].next
  /\ air' = [air EXCEPT ![t].next = TRUE]
  /\ changes' = changes + 2
  /\ UNCHANGED <<sp, missed>>

Change(t) ==
  /\ IF air[t].next THEN UNCHANGED changes
                    ELSE changes < MaxChanges /\ changes' = changes + 1
  /\ air' = [air EXCEPT ![t] = [ver |-> NextVersion(air[t].ver), next |-> FALSE]]
  /\ UNCHANGED <<sp, missed>>
-----------------------------------------------------------------------------
(* Commands.  The caller only sets _running and enqueues a task; since it  *)
(* is one thread and tasks keep their order, each counts as done when its  *)
(* task is run.                                                            *)

(* start, onStart                                                          *)
Start ==
  /\ ~sp.running
  /\ sp' = StartFilters([sp EXCEPT !.running = TRUE], {"PAT"})
  /\ UNCHANGED <<air, missed, changes>>

(* Fault model of OnStop: what was asked for is remembered.                *)
OnStopKeepingQueue(p) ==
  StopFilters([KillServices(p) EXCEPT !.endScan = FALSE, !.running = FALSE],
              {"PAT"})

(* onStop                                                                  *)
OnStop(p) ==
  StopFilters([KillServices(p) EXCEPT !.queued = {}, !.endScan = FALSE,
                                      !.running = FALSE],
              {"PAT"})

Stop ==
  /\ sp.running
  /\ sp' = OnStop(sp)
  /\ UNCHANGED <<air, missed, changes>>

StartService(s) ==
  /\ sp.running
  /\ sp' = OnStartServiceID(sp, s)
  /\ UNCHANGED <<air, missed, changes>>

(* onStopServiceID: a listed service is left in the queue.                 *)
StopService(s) ==
  /\ sp.running
  /\ sp' = IF s \in Listed(sp) THEN OnStopService(sp, {s})
                               ELSE [sp EXCEPT !.queued = @ \ {s}]
  /\ UNCHANGED <<air, missed, changes>>

StopServices ==
  /\ sp.running
  /\ sp' = [OnStopService(sp, Services) EXCEPT !.queued = {}]
  /\ UNCHANGED <<air, missed, changes>>
-----------------------------------------------------------------------------
Init ==
  /\ sp = SpInit
  /\ air = [t \in Tables |-> [ver |-> 0, next |-> FALSE]]
  /\ missed = {}
  /\ changes = 0

SectionNumbers == UNION {DOMAIN Pat[v] : v \in Versions} \cup {0}

Broadcast == \E t \in Tables : Announce(t) \/ Change(t)

Commands ==
  \/ Start \/ Stop \/ StopServices
  \/ \E s \in Services : StartService(s) \/ StopService(s)

Next ==
  \/ \E t \in Tables, v \in Versions, apply \in BOOLEAN, n \in SectionNumbers :
       Receive(t, v, apply, n)
  \/ \E f \in Filters : TimeoutExpired(f)
  \/ Broadcast
  \/ Commands

Spec == Init /\ [][Next]_vars

(* Section n of the current version of a table would change something if   *)
(* it were received.                                                       *)
Unheard(t, n) ==
  LET v   == air[t].ver
      sec == SectionOf(t, v, TRUE, n)
      d   == sp.demux[FilterOf(t)]
  IN  /\ FilterOf(t) \in sp.filters
      /\ n \in Numbers(t, v)
      /\ \/ VersionChanged(d, sec)
         \/ t[1] = "PAT" /\ n \notin d.parsed /\ Fits(d, sec)

(* Every section of every current table is repeated, so that it does not   *)
(* stay unheard: weak fairness of Receive(t, air[t].ver, TRUE, n), which   *)
(* is enabled and not a stutter exactly while Unheard(t, n).  What is      *)
(* announced happens.  Nobody has to give a command.                       *)
Fairness ==
  /\ \A n \in SectionNumbers : []<>~Unheard(<<"PAT", 0>>, n)
  /\ \A t \in Tables \ {<<"PAT", 0>>} : []<>~Unheard(t, 0)
  /\ WF_vars(\E t \in Tables : air[t].next /\ Change(t))

FairSpec == Spec /\ Fairness
-----------------------------------------------------------------------------
ServiceStates ==
  {"none", "present", "complete", "expired", "timeout", "ready", "running"}

Demuxers(f) ==
  [version : [Subtables(f) -> KnownVersions], lastExpired : KnownVersions,
   parsed : SUBSET Nat, size : Nat,
   content : SUBSET (Services \cup {NETWORK_ID_PROGRAM})]

SpOK(p) ==
  /\ p \in [running : BOOLEAN, ready : SUBSET Flags, ts : BOOLEAN,
            nitID : Nets \cup {NoNet}, nitPID : BOOLEAN,
            state : [Services -> ServiceStates], queued : SUBSET Services,
            endScan : BOOLEAN, filters : SUBSET Filters,
            demux : {p.demux},
            view : [Services -> {"idle", "ready", "started", "confused"}]]
  /\ p.demux = [f \in Filters |-> p.demux[f]]
  /\ \A f \in Filters :
       /\ p.demux[f] \in Demuxers(f)
       /\ p.demux[f].parsed \subseteq 0 .. p.demux[f].size - 1

(* Every member of the class, of each demuxer and of the broadcast has its *)
(* type; in particular a section is noted within the vector _secsParsed.   *)
TypeOK ==
  /\ SpOK(sp)
  /\ air \in [Tables -> [ver : Versions, next : BOOLEAN]]
  /\ missed \subseteq Filters
  /\ changes \in Nat

(* A service that has its PMT pid for itself                               *)
Alone(s) == \A r \in Services : PidOf[r] = PidOf[s] => r = s

(* Extensions know which services are ready and which run: they are told   *)
(* of every change (exServiceReady, Started, Stopped, Expired), in an      *)
(* order that makes sense, before the service goes away.  Excepted are the *)
(* services of a PAT, and of a PMT, of which the announcement of the next  *)
(* one has spared them: that one takes their place untold.                 *)
ExtensionsInStep ==
  \A s \in Services :
    Alone(s) /\ missed \cap {"PAT", PidOf[s]} = {}
      => sp.view[s] = Shown(sp.state[s])

(* A service is ready or runs only while all tables are there, and as long *)
(* as they are, none that has its PMT is passed over.                      *)
ReadyExactly ==
  \A s \in Services :
    /\ sp.state[s] \in Ready => IsReady(sp)
    /\ IsReady(sp) => sp.state[s] # "complete"

(* What is filtered is what the list of services says: the PAT while       *)
(* running, the PMT of each service, the NIT when the PAT names one, the   *)
(* SDT only with a NIT; and there are services only after a PAT.           *)
FiltersAccounted ==
  /\ "PAT" \in sp.filters <=> sp.running
  /\ sp.filters \cap PmtPids = {PidOf[s] : s \in Listed(sp)}
  /\ "NIT" \in sp.filters <=> sp.nitPID
  /\ "SDT" \in sp.filters => sp.nitPID
  /\ Listed(sp) # {} \/ sp.nitPID => sp.ts
  /\ "pat" \in sp.ready <=> sp.ts

(* After a stop nothing is left, as the assertions of onStart and of the   *)
(* destructor say.                                                         *)
StoppedIsClean ==
  ~sp.running =>
    /\ sp.ready = {} /\ Listed(sp) = {} /\ sp.queued = {}
    /\ ~sp.ts /\ ~sp.endScan /\ sp.filters = {}

(* "assert( _tsID == INVALID_TS_ID )": when a section completes a PAT, the *)
(* services of the last one have been killed, unless an announcement has   *)
(* spared them.                                                            *)
PatFindsNoServices ==
  LET t == <<"PAT", 0>>
  IN  \A v \in Versions, apply \in BOOLEAN :
        \A n \in Numbers(t, v) :
          LET sec == SectionOf(t, v, apply, n)
              q   == VersionSeen(sp, "PAT", sec)
          IN  "PAT" \in sp.filters \ missed /\ OnAir(t, v, apply)
              /\ n \notin q.demux["PAT"].parsed
              /\ Completes(q.demux["PAT"], sec)
                => ~q.ts

(* The broadcast carries the service, and NIT and SDT are of one network.  *)
Carried(s) ==
  LET pat == Pat[air[<<"PAT", 0>>].ver]
  IN  \E n \in DOMAIN pat : s \in pat[n]

NetworkAgrees ==
  NitNet[air[<<"NIT", 0>>].ver] = SdtNet[air[<<"SDT", 0>>].ver]

(* A service that is asked for and carried is started, or somebody takes   *)
(* the request back, however the tables change meanwhile (but for a PAT    *)
(* that an announcement has spared).                                       *)
AskedForStarts ==
  \A s \in Services :
    s \in sp.queued /\ sp.state[s] \notin Ready
      ~> \/ sp.state[s] = "running" \/ s \notin sp.queued
         \/ ~Carried(s) \/ ~NetworkAgrees \/ "PAT" \in missed

(* A scan comes to its end (onEndScan), with or without timeouts.          *)
ScanEnds ==
  sp.running ~> sp.endScan \/ ~sp.running \/ ~NetworkAgrees \/ "PAT" \in missed
=============================================================================
