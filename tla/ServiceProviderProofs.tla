------------------------ MODULE ServiceProviderProofs ------------------------
(***************************************************************************)
(* What holds of ServiceProvider for any services, pids, networks, any     *)
(* sequence of PATs and any number of changes.                             *)
(***************************************************************************)
EXTENDS ServiceProvider, FiniteSetTheorems, WellFoundedInduction, TLAPS

ReadyInv(p) ==
  \A s \in Services :
    /\ p.state[s] \in Ready => IsReady(p)
    /\ IsReady(p) => p.state[s] # "complete"

InStep(p, s) == p.view[s] = Shown(p.state[s])

(* What the tables decide is as before.                                    *)
SameTables(p, q) ==
  /\ q.running = p.running /\ q.ts = p.ts
  /\ q.nitID = p.nitID /\ q.nitPID = p.nitPID
  /\ q.filters = p.filters /\ q.demux = p.demux

Completed == {"complete", "ready", "running"}

(* Services that have their PMT come and go, and extensions follow.        *)
ServicesMove(p, q) ==
  /\ SpOK(q)
  /\ SameTables(p, q)
  /\ \A s \in Services :
       /\ \/ q.state[s] = p.state[s]
          \/ p.state[s] \in Completed /\ q.state[s] \in Completed
       /\ InStep(p, s) => InStep(q, s)

(* Filters come and go, and services do not notice.                        *)
SameServices(p, q) ==
  /\ q.running = p.running /\ q.ready = p.ready /\ q.ts = p.ts
  /\ q.state = p.state /\ q.queued = p.queued
  /\ q.endScan = p.endScan /\ q.view = p.view

(* FiltersAccounted, of any members                                        *)
FilterInv(p) ==
  /\ "PAT" \in p.filters <=> p.running
  /\ p.filters \cap PmtPids = {PidOf[s] : s \in Listed(p)}
  /\ "NIT" \in p.filters <=> p.nitPID
  /\ "SDT" \in p.filters => p.nitPID
  /\ Listed(p) # {} \/ p.nitPID => p.ts
  /\ "pat" \in p.ready <=> p.ts

Sound(p) == SpOK(p) /\ ReadyInv(p) /\ FilterInv(p)

(* A service may change so: it waits for its PMT, or has it until that     *)
(* expires.                                                                *)
StateMove(from, to) ==
  \/ to = from
  \/ {from, to} \subseteq {"present", "timeout"}
  \/ from \in Completed /\ to \in Completed \cup {"expired"}

(* A service neither enters nor leaves the list, nor does it get a PMT;    *)
(* extensions follow, and the filters of PAT and PMTs go on.               *)
Harmless(p, q) ==
  /\ q.running = p.running /\ q.ts = p.ts
  /\ \A f \in {"PAT"} \cup PmtPids : q.demux[f] = p.demux[f]
  /\ \A s \in Services :
       StateMove(p.state[s], q.state[s]) /\ (InStep(p, s) => InStep(q, s))

(* All services leave it.                                                  *)
Killed(p, q) ==
  /\ q.running = p.running /\ ~q.ts
  /\ q.demux["PAT"] = p.demux["PAT"]
  /\ \A f \in PmtPids : q.demux[f] \in {p.demux[f], NewDemuxer(Subtables(f))}
  /\ \A s \in Services :
       q.state[s] = "none" /\ (InStep(p, s) => InStep(q, s))

USE DEF ServiceStates, Ready, Scanned, Completed, Flags, StateMove
-----------------------------------------------------------------------------
(* A set of program numbers has a least one.                               *)
LEMMA Least ==
  ASSUME NEW T, T \subseteq Nat, T # {}
  PROVE  \E x \in T : \A y \in T : x <= y
<1> DEFINE R == OpToRel(<, Nat)
<1>1. IsWellFoundedOn(R, Nat)
  BY NatLessThanWellFounded
<1> HIDE DEF R
<1>2. PICK x \in T : \A y \in T : ~(<<y, x>> \in R)
  BY <1>1, WFMin
<1>3. \A y \in T : ~(y < x)
  BY <1>2 DEF R, OpToRel
<1> QED
  BY <1>3

(* What FindByPid finds is a service that is listed with that pid.         *)
LEMMA FirstOnListed ==
  ASSUME NEW p, SpOK(p), NEW f, SomeOn(p, f)
  PROVE  FirstOn(p, f) \in Listed(p) /\ PidOf[FirstOn(p, f)] = f
<1> DEFINE T == {s \in Listed(p) : PidOf[s] = f}
<1>1. T \subseteq Nat /\ T # {}
  BY ServiceAssumption DEF SomeOn, Listed
<1>2. \E x \in T : \A y \in T : x <= y
  BY <1>1, Least
<1>3. \E s \in Listed(p) :
        PidOf[s] = f /\ \A r \in Listed(p) : PidOf[r] = f => s <= r
  BY <1>2
<1> QED
  BY <1>3 DEF FirstOn

(* onStopService                                                           *)
LEMMA StopMoves ==
  ASSUME NEW p, SpOK(p), NEW ss, ss \subseteq Services
  PROVE  LET q == OnStopService(p, ss)
         IN  /\ ServicesMove(p, q)
             /\ q.ready = p.ready /\ q.queued = p.queued /\ q.endScan = p.endScan
             /\ \A s \in Services :
                  /\ q.state[s] = IF s \in ss /\ p.state[s] = "running"
                                    THEN "ready" ELSE p.state[s]
                  /\ q.view[s] = IF s \in ss /\ p.state[s] = "running"
                                   THEN Told(p, s, "started", "ready") ELSE p.view[s]
<1> DEFINE q == OnStopService(p, ss)
<1>1. \A s \in Services, from, to \in {"idle", "ready", "started"} :
        Told(p, s, from, to) \in {"idle", "ready", "started", "confused"}
  BY DEF Told
<1>2. SpOK(q)
  BY <1>1 DEF OnStopService, SpOK
<1>3. /\ SameTables(p, q)
      /\ q.ready = p.ready /\ q.queued = p.queued /\ q.endScan = p.endScan
  BY DEF OnStopService, SpOK, SameTables
<1>4. \A s \in Services :
        /\ q.state[s] = IF s \in ss /\ p.state[s] = "running"
                          THEN "ready" ELSE p.state[s]
        /\ q.view[s] = IF s \in ss /\ p.state[s] = "running"
                         THEN Told(p, s, "started", "ready") ELSE p.view[s]
  BY DEF OnStopService, SpOK
<1> HIDE DEF q
<1>5. \A s \in Services : InStep(p, s) => InStep(q, s)
  BY <1>4 DEF InStep, Shown, Told
<1> QED
  BY <1>2, <1>3, <1>4, <1>5 DEF ServicesMove, q

(* onExpireService of all when a table goes: none is ready after it.       *)
LEMMA ExpireMoves ==
  ASSUME NEW p, SpOK(p), NEW ss, ss \subseteq Services, NEW to \in {"complete", "expired"}
  PROVE  LET q == OnExpireService(p, ss, to)
         IN  /\ SpOK(q) /\ SameTables(p, q)
             /\ q.ready = p.ready /\ q.endScan = p.endScan
             /\ \A s \in Services :
                  /\ q.state[s] = IF s \in ss /\ p.state[s] \in Ready
                                    THEN to ELSE p.state[s]
                  /\ InStep(p, s) => InStep(q, s)
<1> DEFINE r == OnStopService(p, ss)
           q == OnExpireService(p, ss, to)
<1>1. /\ ServicesMove(p, r)
      /\ r.ready = p.ready /\ r.queued = p.queued /\ r.endScan = p.endScan
      /\ \A s \in Services :
           /\ r.state[s] = IF s \in ss /\ p.state[s] = "running"
                             THEN "ready" ELSE p.state[s]
           /\ r.view[s] = IF s \in ss /\ p.state[s] = "running"
                            THEN Told(p, s, "started", "ready") ELSE p.view[s]
  BY StopMoves
<1> HIDE DEF r
<1>2. \A s \in Services : Told(r, s, "ready", "idle") \in {"idle", "confused"}
  BY DEF Told
<1> DEFINE state == [s \in Services |->
                       IF s \in ss /\ p.state[s] \in Ready THEN to ELSE r.state[s]]
           view == [s \in Services |->
                      IF s \in ss /\ p.state[s] \in Ready
                        THEN Told(r, s, "ready", "idle") ELSE r.view[s]]
           queued == r.queued \cup {s \in ss : p.state[s] = "running"}
<1>3. q = [r EXCEPT !.state = state, !.view = view, !.queued = queued]
  BY <1>1 DEF OnExpireService, r, ServicesMove, SpOK
<1>4. SpOK(r) /\ SameTables(p, r)
  BY <1>1 DEF ServicesMove
<1>5. state \in [Services -> ServiceStates] /\ queued \subseteq Services
      /\ view \in [Services -> {"idle", "ready", "started", "confused"}]
  BY <1>2, <1>4 DEF SpOK
<1>6. /\ q.state = state /\ q.view = view /\ q.queued = queued
      /\ q.ready = r.ready /\ q.endScan = r.endScan /\ SameTables(r, q)
  <2> HIDE DEF state, view, queued, q
  <2> QED
    BY <1>3, <1>4 DEF SpOK, SameTables
<1>7. SpOK(q)
  <2> HIDE DEF state, view, queued, q
  <2> QED
    BY <1>3, <1>4, <1>5 DEF SpOK
<1>8. SameTables(p, q)
  BY <1>4, <1>6 DEF SameTables
<1>9. ASSUME NEW s \in Services
      PROVE  /\ q.state[s] = IF s \in ss /\ p.state[s] \in Ready THEN to ELSE p.state[s]
             /\ q.view[s] = IF s \in ss /\ p.state[s] \in Ready
                              THEN Told(r, s, "ready", "idle") ELSE p.view[s]
  <2> HIDE DEF q
  <2> QED
    BY <1>1, <1>6
<1> HIDE DEF q
<1>10. ASSUME NEW s \in Services, InStep(p, s) PROVE InStep(q, s)
  <2>1. CASE s \in ss /\ p.state[s] \in Ready
    <3>1. r.view[s] = "ready"
      BY <1>1, <1>10, <2>1 DEF InStep, Shown, Told
    <3> QED
      BY <1>9, <2>1, <3>1 DEF InStep, Shown, Told
  <2>2. CASE ~(s \in ss /\ p.state[s] \in Ready)
    BY <1>9, <1>10, <2>2 DEF InStep
  <2> QED
    BY <2>1, <2>2
<1> QED
  BY <1>1, <1>6, <1>7, <1>8, <1>9, <1>10 DEF q

(* onStartServiceID                                                        *)
LEMMA StartMoves ==
  ASSUME NEW p, SpOK(p), NEW s \in Services, ReadyInv(p)
  PROVE  LET q == OnStartServiceID(p, s)
         IN  ServicesMove(p, q) /\ q.ready = p.ready /\ ReadyInv(q)
<1> DEFINE q == OnStartServiceID(p, s)
<1>1. CASE IsReady(p) /\ p.state[s] = "ready"
  <2>1. Told(p, s, "ready", "started") \in {"started", "confused"}
    BY DEF Told
  <2> DEFINE state == [p.state EXCEPT ![s] = "running"]
             view  == [p.view EXCEPT ![s] = Told(p, s, "ready", "started")]
  <2>2. q = [p EXCEPT !.view = view, !.state = state]
    BY <1>1 DEF OnStartServiceID, OnStartService, SpOK
  <2>3. state \in [Services -> ServiceStates]
        /\ view \in [Services -> {"idle", "ready", "started", "confused"}]
    BY <2>1 DEF SpOK
  <2>4. \A r \in Services : r # s => state[r] = p.state[r] /\ view[r] = p.view[r]
    BY DEF SpOK
  <2>5. state[s] = "running" /\ view[s] = Told(p, s, "ready", "started")
    BY DEF SpOK
  <2> HIDE DEF state, view, q
  <2>6. q.state = state /\ q.view = view /\ q.ready = p.ready /\ SameTables(p, q)
    BY <2>2 DEF SpOK, SameTables
  <2>7. SpOK(q)
    BY <2>2, <2>3 DEF SpOK
  <2>8. \A r \in Services : InStep(p, r) => InStep(q, r)
    <3>1. ASSUME InStep(p, s) PROVE InStep(q, s)
      <4>1. p.view[s] = "ready"
        BY <1>1, <3>1 DEF InStep, Shown
      <4> QED
        BY <2>5, <2>6, <4>1 DEF InStep, Shown, Told
    <3>2. \A r \in Services : r # s => (InStep(p, r) => InStep(q, r))
      BY <2>4, <2>6 DEF InStep
    <3> QED
      BY <3>1, <3>2
  <2>9. ASSUME NEW r \in Services
        PROVE  \/ q.state[r] = p.state[r]
               \/ p.state[r] \in Completed /\ q.state[r] \in Completed
    <3>1. CASE r = s
      BY <1>1, <2>5, <2>6, <3>1
    <3>2. CASE r # s
      BY <2>4, <2>6, <3>2
    <3> QED
      BY <3>1, <3>2
  <2>10. ReadyInv(q)
    BY <1>1, <2>4, <2>5, <2>6 DEF ReadyInv, IsReady
  <2> QED
    BY <2>6, <2>7, <2>8, <2>9, <2>10 DEF ServicesMove, q
<1>2. CASE ~(IsReady(p) /\ p.state[s] = "ready")
  <2>1. q = [p EXCEPT !.queued = p.queued \cup {s}]
    BY <1>2 DEF OnStartServiceID, SpOK
  <2> HIDE DEF q
  <2>2. q.state = p.state /\ q.view = p.view /\ q.ready = p.ready /\ SameTables(p, q)
    BY <2>1 DEF SpOK, SameTables
  <2>3. SpOK(q)
    BY <2>1 DEF SpOK
  <2> QED
    BY <2>2, <2>3 DEF ServicesMove, InStep, ReadyInv, IsReady, q
<1> QED
  BY <1>1, <1>2

(* onServiceReady of those that are complete and not passed over           *)
LEMMA ReadyMoves ==
  ASSUME NEW p, SpOK(p), IsReady(p), NEW ss, ss \subseteq Services,
         \A s \in Services \ ss : p.state[s] # "complete"
  PROVE  LET q == OnServiceReady(p, ss)
         IN  ServicesMove(p, q) /\ q.ready = p.ready /\ ReadyInv(q)
<1> DEFINE complete == {s \in ss : p.state[s] = "complete"}
           start == complete \cap p.queued
           state == [s \in Services |-> IF s \in start THEN "running"
                                        ELSE IF s \in complete THEN "ready" ELSE p.state[s]]
           view == [s \in Services |->
                      IF s \in complete
                        THEN Told(p, s, "idle", IF s \in start THEN "started" ELSE "ready")
                        ELSE p.view[s]]
           r == [p EXCEPT !.state = state, !.view = view, !.queued = p.queued \ start]
           q == OnServiceReady(p, ss)
<1>1. q = IF complete = {} THEN p ELSE NotifyEndScan(r)
  BY DEF OnServiceReady, SpOK
<1>2. /\ state \in [Services -> ServiceStates] /\ start \subseteq complete
      /\ view \in [Services -> {"idle", "ready", "started", "confused"}]
  BY DEF SpOK, Told
<1>3. ASSUME NEW s \in Services
      PROVE  /\ s \in complete <=> p.state[s] = "complete"
             /\ state[s] = IF s \in start THEN "running"
                           ELSE IF s \in complete THEN "ready" ELSE p.state[s]
             /\ view[s] = IF s \in complete
                            THEN Told(p, s, "idle", IF s \in start THEN "started" ELSE "ready")
                            ELSE p.view[s]
  OBVIOUS
<1>4. CASE complete = {}
  <2>1. q = p /\ \A s \in Services : p.state[s] # "complete"
    BY <1>1, <1>3, <1>4
  <2> HIDE DEF q
  <2> QED
    BY <2>1 DEF ServicesMove, SameTables, ReadyInv, q
<1>5. CASE complete # {}
  <2> DEFINE e == r.endScan \/ \A s \in Listed(r) : r.state[s] \in Scanned
  <2>1. q = [r EXCEPT !.endScan = e] /\ e \in BOOLEAN
    BY <1>1, <1>5 DEF NotifyEndScan, SpOK
  <2> HIDE DEF state, view, start, complete, e
  <2>2. SpOK(r)
    BY <1>2 DEF SpOK
  <2>3. /\ r.state = state /\ r.view = view /\ r.ready = p.ready /\ SameTables(p, r)
    BY DEF SpOK, SameTables
  <2> HIDE DEF r, q
  <2>4. SpOK(q)
    BY <2>1, <2>2 DEF SpOK
  <2>5. /\ q.state = state /\ q.view = view /\ q.ready = p.ready /\ SameTables(p, q)
    BY <2>1, <2>2, <2>3 DEF SpOK, SameTables
  <2>6. ASSUME NEW s \in Services
        PROVE  /\ \/ q.state[s] = p.state[s]
                  \/ p.state[s] \in Completed /\ q.state[s] \in Completed
               /\ InStep(p, s) => InStep(q, s)
               /\ q.state[s] # "complete"
    <3>1. CASE s \in complete
      <4>1. p.state[s] = "complete"
        BY <1>3, <3>1
      <4>2. q.state[s] = (IF s \in start THEN "running" ELSE "ready")
            /\ q.view[s] = Told(p, s, "idle", IF s \in start THEN "started" ELSE "ready")
        BY <1>3, <2>5, <3>1
      <4> QED
        BY <4>1, <4>2 DEF InStep, Shown, Told
    <3>2. CASE s \notin complete
      <4>1. p.state[s] # "complete" /\ q.state[s] = p.state[s] /\ q.view[s] = p.view[s]
        BY <1>2, <1>3, <2>5, <3>2
      <4> QED
        BY <4>1 DEF InStep
    <3> QED
      BY <3>1, <3>2
  <2>7. ReadyInv(q)
    BY <2>5, <2>6 DEF ReadyInv, IsReady
  <2> QED
    BY <2>4, <2>5, <2>6, <2>7 DEF ServicesMove, q
<1> QED
  BY <1>4, <1>5

(* serviceChanged of those a table has changed                             *)
LEMMA ChangedMoves ==
  ASSUME NEW p, SpOK(p), NEW ss, ss \subseteq Services,
         \A s \in Services : p.state[s] \in Ready => IsReady(p),
         IsReady(p) => \A s \in Services \ ss : p.state[s] # "complete"
  PROVE  LET q == ServicesChanged(p, ss)
         IN  ServicesMove(p, q) /\ q.ready = p.ready /\ ReadyInv(q)
<1>1. CASE IsReady(p)
  BY <1>1, ReadyMoves DEF ServicesChanged
<1>2. CASE ~IsReady(p)
  <2>1. ServicesChanged(p, ss) = p
    BY <1>2 DEF ServicesChanged
  <2> QED
    BY <1>2, <2>1 DEF ServicesMove, SameTables, ReadyInv
<1> QED
  BY <1>1, <1>2

(* setFlags                                                                *)
LEMMA FlagsMove ==
  ASSUME NEW p, SpOK(p), NEW mask, mask \subseteq Flags, NEW set \in BOOLEAN, ReadyInv(p)
  PROVE  LET q == SetFlags(p, mask, set)
         IN  /\ ServicesMove(p, q) /\ ReadyInv(q)
             /\ q.ready = IF set THEN p.ready \cup mask ELSE p.ready \ mask
<1> DEFINE ready == IF set THEN p.ready \cup mask ELSE p.ready \ mask
           r == [p EXCEPT !.ready = ready]
           q == SetFlags(p, mask, set)
<1>1. q = CASE IsReady(p) /\ ~IsReady(r) -> OnExpireService(r, Services, "complete")
            [] ~IsReady(p) /\ IsReady(r) -> OnServiceReady(r, Services)
            [] OTHER -> r
  BY DEF SetFlags, SpOK
<1>2. ready \subseteq Flags
  BY DEF SpOK
<1> HIDE DEF ready
<1>3. SpOK(r) /\ r.ready = ready /\ SameTables(p, r) /\ r.state = p.state /\ r.view = p.view
  BY <1>2 DEF SpOK, SameTables
<1> HIDE DEF r, q
<1>4. \A s \in Services : InStep(p, s) => InStep(r, s)
  BY <1>3 DEF InStep
<1>5. CASE IsReady(p) /\ ~IsReady(r)
  <2>1. q = OnExpireService(r, Services, "complete")
    BY <1>1, <1>5
  <2>2. /\ SpOK(q) /\ SameTables(r, q) /\ q.ready = r.ready
        /\ \A s \in Services :
             /\ q.state[s] = IF r.state[s] \in Ready THEN "complete" ELSE r.state[s]
             /\ InStep(r, s) => InStep(q, s)
    BY <1>3, <2>1, ExpireMoves
  <2>3. ReadyInv(q)
    BY <1>5, <2>2 DEF ReadyInv, IsReady
  <2> QED
    BY <1>3, <1>4, <2>2, <2>3 DEF ServicesMove, SameTables, ready, q
<1>6. CASE ~IsReady(p) /\ IsReady(r)
  <2>1. q = OnServiceReady(r, Services)
    BY <1>1, <1>6
  <2>2. ServicesMove(r, q) /\ q.ready = r.ready /\ ReadyInv(q)
    BY <1>3, <1>6, <2>1, ReadyMoves
  <2> QED
    BY <1>3, <1>4, <2>2 DEF ServicesMove, SameTables, ready, q
<1>7. CASE IsReady(p) = IsReady(r)
  <2>1. q = r
    BY <1>1, <1>7
  <2>2. ReadyInv(q)
    BY <1>3, <1>7, <2>1 DEF ReadyInv
  <2> QED
    BY <1>3, <1>4, <2>1, <2>2 DEF ServicesMove, ready, q
<1>8. IsReady(p) \in BOOLEAN /\ IsReady(r) \in BOOLEAN
  BY DEF IsReady
<1> QED
  BY <1>5, <1>6, <1>7, <1>8
-----------------------------------------------------------------------------
(* A new demuxer                                                           *)
LEMMA NewIsDemuxer ==
  ASSUME NEW f
  PROVE  /\ NewDemuxer(Subtables(f)) \in Demuxers(f)
         /\ NewDemuxer(Subtables(f)).parsed = {}
BY DEF NewDemuxer, Demuxers, KnownVersions

(* stopFilter                                                              *)
LEMMA StopFiltersDoes ==
  ASSUME NEW p, SpOK(p), NEW fs, fs \subseteq Filters
  PROVE  LET q == StopFilters(p, fs)
         IN  /\ SpOK(q) /\ SameServices(p, q)
             /\ q.nitID = p.nitID /\ q.nitPID = p.nitPID
             /\ q.filters = p.filters \ fs
             /\ \A f \in Filters :
                  q.demux[f] = IF f \in fs THEN NewDemuxer(Subtables(f)) ELSE p.demux[f]
<1> DEFINE filters == p.filters \ fs
           demux == [f \in Filters |->
                       IF f \in fs THEN NewDemuxer(Subtables(f)) ELSE p.demux[f]]
           q == StopFilters(p, fs)
<1>1. q = [p EXCEPT !.filters = filters, !.demux = demux]
  BY DEF StopFilters, SpOK
<1>2. /\ filters \subseteq Filters
      /\ demux = [f \in Filters |-> demux[f]]
      /\ \A f \in Filters :
           /\ demux[f] \in Demuxers(f)
           /\ demux[f].parsed \subseteq 0 .. demux[f].size - 1
  BY NewIsDemuxer DEF SpOK
<1>3. \A f \in Filters :
        demux[f] = IF f \in fs THEN NewDemuxer(Subtables(f)) ELSE p.demux[f]
  OBVIOUS
<1> HIDE DEF filters, demux, q
<1>4. /\ SameServices(p, q) /\ q.filters = filters /\ q.demux = demux
      /\ q.nitID = p.nitID /\ q.nitPID = p.nitPID
  BY <1>1 DEF SpOK, SameServices
<1>5. SpOK(q)
  BY <1>1, <1>2, <1>4 DEF SpOK
<1> QED
  BY <1>3, <1>4, <1>5 DEF q, filters

(* startFilter leaves alone the demuxers that are there.                   *)
LEMMA StartFiltersDoes ==
  ASSUME NEW p, SpOK(p), NEW fs, fs \subseteq Filters
  PROVE  LET q == StartFilters(p, fs)
         IN  /\ SpOK(q) /\ SameServices(p, q)
             /\ q.nitID = p.nitID /\ q.nitPID = p.nitPID
             /\ q.filters = p.filters \cup fs
             /\ \A f \in Filters :
                  q.demux[f] = IF f \in fs \ p.filters
                                 THEN NewDemuxer(Subtables(f)) ELSE p.demux[f]
<1> DEFINE filters == p.filters \cup fs
           demux == [f \in Filters |->
                       IF f \in fs \ p.filters
                         THEN NewDemuxer(Subtables(f)) ELSE p.demux[f]]
           q == StartFilters(p, fs)
<1>1. q = [p EXCEPT !.filters = filters, !.demux = demux]
  BY DEF StartFilters, SpOK
<1>2. /\ filters \subseteq Filters
      /\ demux = [f \in Filters |-> demux[f]]
      /\ \A f \in Filters :
           /\ demux[f] \in Demuxers(f)
           /\ demux[f].parsed \subseteq 0 .. demux[f].size - 1
  BY NewIsDemuxer DEF SpOK
<1>3. \A f \in Filters : demux[f] = IF f \in fs \ p.filters
                                      THEN NewDemuxer(Subtables(f)) ELSE p.demux[f]
  OBVIOUS
<1> HIDE DEF filters, demux, q
<1>4. /\ SameServices(p, q) /\ q.filters = filters /\ q.demux = demux
      /\ q.nitID = p.nitID /\ q.nitPID = p.nitPID
  BY <1>1 DEF SpOK, SameServices
<1>5. SpOK(q)
  BY <1>1, <1>2, <1>4 DEF SpOK
<1> QED
  BY <1>3, <1>4, <1>5 DEF q, filters

(* stopNit                                                                 *)
LEMMA StopNitDoes ==
  ASSUME NEW p, SpOK(p), "NIT" \in p.filters \/ "SDT" \in p.filters => p.nitPID
  PROVE  LET q == StopNit(p)
         IN  /\ SpOK(q) /\ SameServices(p, q) /\ q.nitPID = FALSE
             /\ q.filters = p.filters \ {"NIT", "SDT"}
             /\ \A f \in Filters \ {"NIT", "SDT"} : q.demux[f] = p.demux[f]
<1>1. CASE p.nitPID
  <2> DEFINE r == StopFilters(p, {"NIT", "SDT"})
             q == [r EXCEPT !.nitID = NoNet, !.nitPID = FALSE]
  <2>1. /\ SpOK(r) /\ SameServices(p, r)
        /\ r.filters = p.filters \ {"NIT", "SDT"}
        /\ \A f \in Filters \ {"NIT", "SDT"} : r.demux[f] = p.demux[f]
    BY StopFiltersDoes DEF Filters
  <2> HIDE DEF r
  <2>2. /\ SpOK(q) /\ SameServices(r, q) /\ q.nitPID = FALSE
        /\ q.filters = r.filters /\ q.demux = r.demux
    <3>1. /\ SameServices(r, q) /\ q.nitPID = FALSE
          /\ q.filters = r.filters /\ q.demux = r.demux
      BY <2>1 DEF SpOK, SameServices
    <3>2. NoNet \in Nets \cup {NoNet} /\ FALSE \in BOOLEAN
      OBVIOUS
    <3>3. SpOK(q)
      BY <2>1, <3>1, <3>2, ZenonT(60) DEF SpOK
    <3> QED
      BY <3>1, <3>3
  <2>3. StopNit(p) = q
    BY <1>1 DEF StopNit, r
  <2> HIDE DEF q
  <2> QED
    BY <2>1, <2>2, <2>3 DEF SameServices
<1>2. CASE ~p.nitPID
  <2>1. StopNit(p) = p
    BY <1>2 DEF StopNit
  <2> QED
    BY <1>2, <2>1 DEF SameServices, SpOK
<1> QED
  BY <1>1, <1>2

(* killServices: nothing but the filter of the PAT is left.                *)
LEMMA KillServicesDoes ==
  ASSUME NEW p, SpOK(p), ReadyInv(p), FilterInv(p)
  PROVE  LET q == KillServices(p)
         IN  /\ SpOK(q) /\ ReadyInv(q) /\ FilterInv(q)
             /\ q.running = p.running /\ q.ready = {} /\ ~q.ts
             /\ q.filters = p.filters \cap {"PAT"}
             /\ q.demux["PAT"] = p.demux["PAT"]
             /\ \A f \in PmtPids :
                  q.demux[f] \in {p.demux[f], NewDemuxer(Subtables(f))}
             /\ \A s \in Services :
                  q.state[s] = "none" /\ (InStep(p, s) => InStep(q, s))
<1> DEFINE a == SetFlags(p, Flags, FALSE)
           pids == {PidOf[s] : s \in Listed(p)}
           b == StopFilters(a, pids)
           c == [b EXCEPT !.state = [s \in Services |-> "none"]]
           d == StopNit(c)
           q == [d EXCEPT !.ts = FALSE]
<1>1. KillServices(p) = q
  BY DEF KillServices
<1>2. "PAT" \in Filters /\ pids \subseteq PmtPids /\ PmtPids \subseteq Filters
      /\ PmtPids \cap {"PAT", "NIT", "SDT"} = {}
  BY ServiceAssumption DEF Filters, Listed
<1>3. /\ ServicesMove(p, a) /\ ReadyInv(a) /\ a.ready = {}
  <2>1. ServicesMove(p, a) /\ ReadyInv(a) /\ a.ready = p.ready \ Flags
    BY FlagsMove
  <2> QED
    BY <2>1 DEF SpOK
<1>4. SpOK(a) /\ a.filters = p.filters /\ a.demux = p.demux /\ a.nitPID = p.nitPID
      /\ a.running = p.running
  BY <1>3 DEF ServicesMove, SameTables
<1>5. ASSUME NEW s \in Services, InStep(p, s) PROVE a.view[s] = "idle"
  <2>1. InStep(a, s) /\ a.state[s] \notin Ready
    BY <1>3, <1>5 DEF ServicesMove, ReadyInv, IsReady
  <2> QED
    BY <2>1 DEF InStep, Shown
<1> HIDE DEF a
<1>6. /\ SpOK(b) /\ SameServices(a, b) /\ b.nitPID = p.nitPID
      /\ b.filters = p.filters \ pids
      /\ \A f \in Filters :
           b.demux[f] = IF f \in pids THEN NewDemuxer(Subtables(f)) ELSE p.demux[f]
  <2> HIDE DEF pids
  <2> QED
    BY <1>2, <1>4, StopFiltersDoes
<1> HIDE DEF b
<1>7. /\ SpOK(c) /\ c.filters = b.filters /\ c.demux = b.demux /\ c.nitPID = p.nitPID
      /\ c.running = p.running /\ c.ready = {} /\ c.view = a.view
      /\ c.state = [s \in Services |-> "none"]
  BY <1>3, <1>4, <1>6 DEF SpOK, SameServices
<1> HIDE DEF c
<1>8. /\ SpOK(d) /\ SameServices(c, d) /\ d.nitPID = FALSE
      /\ d.filters = c.filters \ {"NIT", "SDT"}
      /\ \A f \in Filters \ {"NIT", "SDT"} : d.demux[f] = c.demux[f]
  <2>1. "NIT" \in c.filters \/ "SDT" \in c.filters => c.nitPID
    BY <1>2, <1>6, <1>7 DEF FilterInv
  <2> QED
    BY <1>7, <2>1, StopNitDoes
<1> HIDE DEF d
<1>9. /\ SpOK(q) /\ q.filters = d.filters /\ q.demux = d.demux /\ q.nitPID = FALSE
      /\ q.running = p.running /\ q.ready = {} /\ q.ts = FALSE
      /\ q.view = a.view /\ q.state = [s \in Services |-> "none"]
  BY <1>7, <1>8 DEF SpOK, SameServices
<1> HIDE DEF q
<1>10. /\ q.filters = p.filters \cap {"PAT"} /\ q.demux["PAT"] = p.demux["PAT"]
       /\ \A f \in PmtPids : q.demux[f] \in {p.demux[f], NewDemuxer(Subtables(f))}
  <2>1. p.filters \subseteq {"PAT", "NIT", "SDT"} \cup PmtPids
    BY DEF SpOK, Filters
  <2>2. p.filters \cap PmtPids = pids
    BY DEF FilterInv
  <2> HIDE DEF pids
  <2> QED
    BY <1>2, <1>6, <1>7, <1>8, <1>9, <2>1, <2>2
<1>11. ReadyInv(q)
  BY <1>9 DEF ReadyInv, IsReady
<1>12. FilterInv(q)
  <2>1. Listed(q) = {}
    BY <1>9 DEF Listed
  <2> QED
    BY <1>2, <1>9, <1>10, <2>1 DEF FilterInv
<1>13. \A s \in Services : q.state[s] = "none" /\ (InStep(p, s) => InStep(q, s))
  BY <1>5, <1>9 DEF InStep, Shown
<1> QED
  BY <1>1, <1>9, <1>10, <1>11, <1>12, <1>13
-----------------------------------------------------------------------------
(* The pids of PMTs are filters, and apart from those of PAT, NIT and SDT. *)
LEMMA FiltersApart ==
  /\ {"PAT", "NIT", "SDT"} \subseteq Filters /\ PmtPids \subseteq Filters
  /\ PmtPids \cap {"PAT", "NIT", "SDT"} = {}
  /\ \A s \in Services : PidOf[s] \in PmtPids
BY ServiceAssumption DEF Filters

(* What does no harm leaves the same services listed (ServiceProvider,     *)
(* findService).                                                           *)
LEMMA SameList ==
  ASSUME NEW p, NEW q, Harmless(p, q)
  PROVE  Listed(q) = Listed(p)
BY DEF Harmless, Listed

(* Doing no harm twice does none.                                          *)
LEMMA HarmlessTwice ==
  ASSUME NEW p, NEW q, NEW r, Harmless(p, q), Harmless(q, r)
  PROVE  Harmless(p, r)
<1>1. \A s \in Services : StateMove(p.state[s], r.state[s])
  <2>1. \A s \in Services :
          StateMove(p.state[s], q.state[s]) /\ StateMove(q.state[s], r.state[s])
    BY DEF Harmless
  <2> QED
    BY <2>1
<1> QED
  BY <1>1 DEF Harmless

(* What moves services alone is harmless, and sound if the flag of the PAT *)
(* stays.                                                                  *)
LEMMA MoveIsSound ==
  ASSUME NEW p, NEW q, Sound(p), ServicesMove(p, q), ReadyInv(q),
         "pat" \in q.ready <=> "pat" \in p.ready
  PROVE  Sound(q) /\ Harmless(p, q) /\ q.filters = p.filters
<1>1. Harmless(p, q) /\ SpOK(q) /\ SameTables(p, q)
  BY DEF ServicesMove, SameTables, Harmless
<1>2. Listed(q) = Listed(p)
  BY <1>1, SameList
<1> QED
  BY <1>1, <1>2 DEF Sound, FilterInv, SameTables

(* setFlags of the NIT and the SDT                                         *)
LEMMA FlagsAreSound ==
  ASSUME NEW p, Sound(p), NEW mask, mask \subseteq {"nit", "sdt"}, NEW set \in BOOLEAN
  PROVE  LET q == SetFlags(p, mask, set)
         IN  Sound(q) /\ Harmless(p, q) /\ q.filters = p.filters
<1> DEFINE q == SetFlags(p, mask, set)
<1>1. SpOK(p) /\ ReadyInv(p) /\ mask \subseteq Flags
  BY DEF Sound
<1>2. /\ ServicesMove(p, q) /\ ReadyInv(q)
      /\ q.ready = p.ready \cup mask \/ q.ready = p.ready \ mask
  <2>1. CASE set = TRUE
    BY <1>1, <2>1, FlagsMove
  <2>2. CASE set = FALSE
    BY <1>1, <2>2, FlagsMove
  <2> QED
    BY <2>1, <2>2
<1> HIDE DEF q
<1>3. "pat" \in q.ready <=> "pat" \in p.ready
  BY <1>2
<1> QED
  BY <1>2, <1>3, MoveIsSound DEF q

(* Commands                                                                *)
LEMMA CommandsAreSound ==
  ASSUME NEW p, Sound(p)
  PROVE  /\ \A ss \in SUBSET Services :
              Sound(OnStopService(p, ss)) /\ Harmless(p, OnStopService(p, ss))
         /\ \A s \in Services :
              Sound(OnStartServiceID(p, s)) /\ Harmless(p, OnStartServiceID(p, s))
<1>1. ASSUME NEW ss \in SUBSET Services
      PROVE  Sound(OnStopService(p, ss)) /\ Harmless(p, OnStopService(p, ss))
  <2> DEFINE q == OnStopService(p, ss)
  <2>1. /\ ServicesMove(p, q) /\ q.ready = p.ready
        /\ \A s \in Services :
             q.state[s] = IF s \in ss /\ p.state[s] = "running"
                            THEN "ready" ELSE p.state[s]
    BY StopMoves DEF Sound
  <2> HIDE DEF q
  <2>2. ReadyInv(q)
    BY <2>1 DEF Sound, ReadyInv, IsReady
  <2> QED
    BY <2>1, <2>2, MoveIsSound DEF q
<1>2. ASSUME NEW s \in Services
      PROVE  Sound(OnStartServiceID(p, s)) /\ Harmless(p, OnStartServiceID(p, s))
  <2> DEFINE q == OnStartServiceID(p, s)
  <2>1. ServicesMove(p, q) /\ q.ready = p.ready /\ ReadyInv(q)
    BY StartMoves DEF Sound
  <2> HIDE DEF q
  <2> QED
    BY <2>1, MoveIsSound DEF q
<1> QED
  BY <1>1, <1>2

(* onNit                                                                   *)
LEMMA NitIsSound ==
  ASSUME NEW p, Sound(p), "NIT" \in p.filters, NEW tid, NEW net \in Nets
  PROVE  LET q == OnNit(p, tid, net) IN Sound(q) /\ Harmless(p, q)
<1>1. CASE tid = "actual"
  <2> DEFINE a == [p EXCEPT !.nitID = net]
             b == ServicesChanged(a, Services)
             c == SetFlags(b, {"sdt"}, FALSE)
             d == StopFilters(c, {"SDT"})
             e == StartFilters(d, {"SDT"})
             q == SetFlags(e, {"nit"}, TRUE)
  <2>1. OnNit(p, tid, net) = q
    BY <1>1 DEF OnNit
  <2>2. SpOK(a) /\ Sound(a) /\ Harmless(p, a) /\ a.filters = p.filters
    <3>1. /\ a.running = p.running /\ a.ready = p.ready /\ a.ts = p.ts
          /\ a.state = p.state /\ a.view = p.view /\ a.demux = p.demux
          /\ a.filters = p.filters /\ a.nitPID = p.nitPID
      BY DEF Sound, SpOK
    <3>2. SpOK(a)
      BY DEF Sound, SpOK
    <3> HIDE DEF a
    <3>3. Harmless(p, a)
      BY <3>1 DEF Harmless, InStep
    <3> QED
      BY <3>1, <3>2, <3>3, SameList DEF Sound, ReadyInv, FilterInv, IsReady
  <2> HIDE DEF a
  <2>3. Sound(b) /\ Harmless(a, b) /\ b.filters = p.filters
    <3>1. ServicesMove(a, b) /\ b.ready = a.ready /\ ReadyInv(b)
      BY <2>2, ChangedMoves DEF Sound, ReadyInv
    <3> HIDE DEF b
    <3> QED
      BY <2>2, <3>1, MoveIsSound
  <2> HIDE DEF b
  <2>4. Sound(c) /\ Harmless(b, c) /\ c.filters = p.filters
    BY <2>3, FlagsAreSound
  <2> HIDE DEF c
  <2>5. /\ SpOK(d) /\ SameServices(c, d) /\ d.nitPID = c.nitPID
        /\ d.filters = c.filters \ {"SDT"}
        /\ \A f \in Filters \ {"SDT"} : d.demux[f] = c.demux[f]
    BY <2>4, StopFiltersDoes, FiltersApart DEF Sound
  <2> HIDE DEF d
  <2>6. /\ SpOK(e) /\ SameServices(d, e) /\ e.nitPID = d.nitPID
        /\ e.filters = d.filters \cup {"SDT"}
        /\ \A f \in Filters \ {"SDT"} : e.demux[f] = d.demux[f]
    BY <2>5, StartFiltersDoes, FiltersApart
  <2> HIDE DEF e
  <2>7. Harmless(c, e)
    BY <2>5, <2>6, FiltersApart DEF Harmless, SameServices, InStep
  <2>8. Sound(e)
    <3>1. Listed(e) = Listed(c)
      BY <2>7, SameList
    <3>2. e.filters = c.filters \cup {"SDT"} /\ c.nitPID
      BY <2>4, <2>5, <2>6 DEF Sound, FilterInv
    <3>3. FilterInv(e)
      BY <2>4, <2>5, <2>6, <3>1, <3>2, FiltersApart DEF Sound, FilterInv, SameServices
    <3> QED
      BY <2>4, <2>5, <2>6, <3>3 DEF Sound, ReadyInv, IsReady, SameServices
  <2>9. Sound(q) /\ Harmless(e, q)
    BY <2>8, FlagsAreSound
  <2> HIDE DEF q
  <2> QED
    BY <2>1, <2>2, <2>3, <2>4, <2>7, <2>9, HarmlessTwice
<1>2. CASE tid # "actual"
  <2>1. OnNit(p, tid, net) = p
    BY <1>2 DEF OnNit
  <2> QED
    BY <2>1 DEF Harmless
<1> QED
  BY <1>1, <1>2

(* onSdt                                                                   *)
LEMMA SdtIsSound ==
  ASSUME NEW p, Sound(p), NEW tid, NEW net
  PROVE  LET q == OnSdt(p, tid, net) IN Sound(q) /\ Harmless(p, q)
<1>1. CASE tid = "actual" /\ net = p.nitID
  <2> DEFINE b == ServicesChanged(p, Services)
             q == SetFlags(b, {"sdt"}, TRUE)
  <2>1. OnSdt(p, tid, net) = q
    BY <1>1 DEF OnSdt
  <2>2. Sound(b) /\ Harmless(p, b)
    <3>1. ServicesMove(p, b) /\ b.ready = p.ready /\ ReadyInv(b)
      BY ChangedMoves DEF Sound, ReadyInv
    <3> HIDE DEF b
    <3> QED
      BY <3>1, MoveIsSound
  <2> HIDE DEF b
  <2>3. Sound(q) /\ Harmless(b, q)
    BY <2>2, FlagsAreSound
  <2> HIDE DEF q
  <2> QED
    BY <2>1, <2>2, <2>3, HarmlessTwice
<1>2. CASE ~(tid = "actual" /\ net = p.nitID)
  <2>1. OnSdt(p, tid, net) = p
    BY <1>2 DEF OnSdt
  <2> QED
    BY <2>1 DEF Harmless
<1> QED
  BY <1>1, <1>2

(* onPat: of the services that are new, the filters are new.               *)
LEMMA PatIsSound ==
  ASSUME NEW p, Sound(p), NEW programs,
         programs \subseteq Services \cup {NETWORK_ID_PROGRAM}
  PROVE  LET q == OnPat(p, programs)
         IN  /\ Sound(q) /\ q.running = p.running /\ q.ts
             /\ q.demux["PAT"] = p.demux["PAT"]
             /\ \A f \in PmtPids :
                  q.demux[f] \in {p.demux[f], NewDemuxer(Subtables(f))}
             /\ ~p.ts => \A s \in Services :
                  /\ InStep(p, s) => InStep(q, s)
                  /\ \/ q.state[s] = "none"
                     \/ /\ q.state[s] = "present"
                        /\ q.demux[PidOf[s]] = NewDemuxer(Subtables(PidOf[s]))
<1> DEFINE listed == programs \cap Services
           pids == {PidOf[s] : s \in listed}
           state == [s \in Services |-> IF s \in listed THEN "present" ELSE p.state[s]]
           a == [p EXCEPT !.state = state, !.ts = TRUE]
           b == SetFlags(a, {"pat"}, TRUE)
           r == StartFilters(b, pids)
           u == StartFilters(r, {"NIT"})
           v == [u EXCEPT !.nitPID = TRUE]
           q == OnPat(p, programs)
<1>1. q = IF NETWORK_ID_PROGRAM \in programs THEN v ELSE SetFlags(r, {"nit", "sdt"}, TRUE)
  BY DEF OnPat, Sound, SpOK
<1>2. state \in [Services -> ServiceStates] /\ listed \subseteq Services
      /\ \A s \in Services : state[s] = IF s \in listed THEN "present" ELSE p.state[s]
  BY DEF Sound, SpOK
<1> HIDE DEF state, q
<1>3. /\ a.running = p.running /\ a.ready = p.ready /\ a.ts = TRUE
      /\ a.state = state /\ a.view = p.view /\ a.demux = p.demux
      /\ a.filters = p.filters /\ a.nitPID = p.nitPID
  BY DEF Sound, SpOK
<1>4. SpOK(a)
  <2>1. TRUE \in BOOLEAN
    OBVIOUS
  <2> QED
    BY <1>2, <1>3, <2>1, ZenonT(60) DEF Sound, SpOK
<1> HIDE DEF a
<1>5. ReadyInv(a)
  BY <1>2, <1>3 DEF Sound, ReadyInv, IsReady
<1>6. /\ ServicesMove(a, b) /\ ReadyInv(b) /\ b.ready = a.ready \cup {"pat"}
  <2>1. {"pat"} \subseteq Flags
    OBVIOUS
  <2> QED
    BY <1>4, <1>5, <2>1, FlagsMove
<1> HIDE DEF b
<1>7. SpOK(b) /\ SameTables(a, b)
  BY <1>6 DEF ServicesMove
<1>8. \A s \in Services :
        \/ b.state[s] = state[s]
        \/ state[s] \in Completed /\ b.state[s] \in Completed
  BY <1>3, <1>6 DEF ServicesMove
<1>9. pids \subseteq PmtPids /\ pids \subseteq Filters
  BY FiltersApart
<1> HIDE DEF pids
<1>10. /\ SpOK(r) /\ SameServices(b, r) /\ r.nitPID = b.nitPID
       /\ r.filters = b.filters \cup pids
       /\ \A f \in Filters : r.demux[f] = IF f \in pids \ b.filters
                                            THEN NewDemuxer(Subtables(f)) ELSE b.demux[f]
  BY <1>7, <1>9, StartFiltersDoes
<1> HIDE DEF r
<1>11. Listed(r) = Listed(p) \cup listed
  BY <1>2, <1>8, <1>10 DEF Listed, SameServices
<1>12. /\ r.filters = p.filters \cup pids /\ r.nitPID = p.nitPID
       /\ r.running = p.running /\ r.ts = TRUE /\ r.ready = p.ready \cup {"pat"}
       /\ r.state = b.state /\ r.view = b.view
  BY <1>3, <1>6, <1>7, <1>10 DEF SameTables, SameServices
<1>13. /\ r.demux["PAT"] = p.demux["PAT"]
       /\ \A f \in PmtPids : r.demux[f] \in {p.demux[f], NewDemuxer(Subtables(f))}
  BY <1>3, <1>7, <1>9, <1>10, FiltersApart DEF SameTables
<1>14. FilterInv(r)
  <2>1. {PidOf[s] : s \in Listed(r)} = {PidOf[s] : s \in Listed(p)} \cup pids
    BY <1>11 DEF pids
  <2> QED
    BY <1>9, <1>12, <2>1, FiltersApart DEF Sound, FilterInv
<1>15. Sound(r)
  BY <1>6, <1>10, <1>14 DEF Sound, ReadyInv, IsReady, SameServices
<1>16. ASSUME ~p.ts, NEW s \in Services
       PROVE  /\ InStep(p, s) => InStep(r, s)
              /\ \/ r.state[s] = "none"
                 \/ /\ r.state[s] = "present"
                    /\ r.demux[PidOf[s]] = NewDemuxer(Subtables(PidOf[s]))
  <2>1. Listed(p) = {} /\ p.filters \cap PmtPids = {}
    BY <1>16 DEF Sound, FilterInv
  <2>2. p.state[s] = "none"
    BY <2>1 DEF Listed
  <2>3. state[s] = (IF s \in listed THEN "present" ELSE "none") /\ b.state[s] = state[s]
    BY <1>2, <1>8, <2>2
  <2>4. InStep(p, s) => InStep(r, s)
    <3>1. InStep(p, s) => InStep(a, s)
      BY <1>3, <2>2, <2>3 DEF InStep, Shown
    <3>2. InStep(a, s) => InStep(b, s)
      BY <1>6 DEF ServicesMove
    <3>3. InStep(b, s) => InStep(r, s)
      BY <1>12 DEF InStep
    <3> QED
      BY <3>1, <3>2, <3>3
  <2>5. s \in listed => PidOf[s] \in pids \ b.filters
    BY <1>3, <1>7, <2>1, FiltersApart DEF pids, SameTables
  <2> QED
    BY <1>10, <1>12, <2>3, <2>4, <2>5, FiltersApart
<1>17. CASE NETWORK_ID_PROGRAM \in programs
  <2>1. /\ SpOK(u) /\ SameServices(r, u)
        /\ u.filters = r.filters \cup {"NIT"}
        /\ \A f \in Filters : u.demux[f] = IF f \in {"NIT"} \ r.filters
                                             THEN NewDemuxer(Subtables(f)) ELSE r.demux[f]
    BY <1>10, StartFiltersDoes, FiltersApart
  <2> HIDE DEF u
  <2>2. /\ v.nitPID = TRUE /\ SameServices(u, v) /\ v.filters = u.filters /\ v.demux = u.demux
    BY <2>1 DEF SpOK, SameServices
  <2>3. SpOK(v)
    <3>1. TRUE \in BOOLEAN
      OBVIOUS
    <3> QED
      BY <2>1, <2>2, <3>1 DEF SpOK
  <2> HIDE DEF v
  <2>4. /\ SameServices(r, v) /\ v.demux["PAT"] = r.demux["PAT"]
        /\ \A f \in PmtPids : v.demux[f] = r.demux[f]
    BY <2>1, <2>2, FiltersApart DEF SameServices
  <2>5. Listed(v) = Listed(r)
    BY <2>4 DEF SameServices, Listed
  <2>6. FilterInv(v)
    BY <1>12, <1>14, <2>1, <2>2, <2>4, <2>5, FiltersApart DEF FilterInv, SameServices
  <2>7. Sound(v)
    BY <1>15, <2>3, <2>4, <2>6 DEF Sound, ReadyInv, IsReady, SameServices
  <2> QED
    BY <1>1, <1>12, <1>13, <1>16, <1>17, <2>4, <2>7, FiltersApart DEF SameServices, InStep, q
<1>18. CASE NETWORK_ID_PROGRAM \notin programs
  <2>1. Sound(q) /\ Harmless(r, q)
    BY <1>1, <1>15, <1>18, FlagsAreSound
  <2>2. /\ q.running = r.running /\ q.ts = r.ts /\ q.demux["PAT"] = r.demux["PAT"]
        /\ \A f \in PmtPids : q.demux[f] = r.demux[f]
    BY <2>1, FiltersApart DEF Harmless
  <2>3. ~p.ts => \A s \in Services : q.state[s] = r.state[s]
    <3>1. ServicesMove(r, q)
      BY <1>1, <1>15, <1>18, FlagsMove DEF Sound
    <3> QED
      BY <1>16, <3>1 DEF ServicesMove
  <2> QED
    BY <1>12, <1>13, <1>16, <2>1, <2>2, <2>3, FiltersApart DEF Harmless, q
<1> QED
  BY <1>17, <1>18

(* A PMT of service s (updateServices, Service::process)                   *)
LEMMA PmtIsSound ==
  ASSUME NEW p, Sound(p), NEW s \in Services
  PROVE  LET q == OnPmt(p, s)
         IN  /\ Sound(q)
             /\ q.running = p.running /\ q.ts = p.ts /\ q.demux = p.demux
             /\ \A r \in Services \ {s} :
                  /\ InStep(p, r) => InStep(q, r)
                  /\ \/ q.state[r] = p.state[r]
                     \/ p.state[r] \in Completed /\ q.state[r] \in Completed
             /\ IF p.state[s] = "none" THEN q = p
                  ELSE q.state[s] \in Completed /\ (p.view[s] = "idle" => InStep(q, s))
<1>1. CASE p.state[s] = "none"
  BY <1>1 DEF OnPmt
<1>2. CASE p.state[s] # "none"
  <2> DEFINE state == [p.state EXCEPT ![s] = "complete"]
             a == [p EXCEPT !.state = state]
             q == ServicesChanged(a, {s})
  <2>1. OnPmt(p, s) = q
    BY <1>2 DEF OnPmt, Sound, SpOK
  <2>2. /\ state \in [Services -> ServiceStates] /\ state[s] = "complete"
        /\ \A r \in Services \ {s} : state[r] = p.state[r]
    BY DEF Sound, SpOK
  <2> HIDE DEF state
  <2>3. /\ SpOK(a) /\ a.ready = p.ready /\ a.state = state /\ a.view = p.view
        /\ SameTables(p, a)
    BY <2>2 DEF Sound, SpOK, SameTables
  <2> HIDE DEF a
  <2>4. ServicesMove(a, q) /\ q.ready = p.ready /\ ReadyInv(q)
    <3>1. \A r \in Services : a.state[r] \in Ready => IsReady(a)
      BY <2>2, <2>3 DEF Sound, ReadyInv, IsReady
    <3>2. IsReady(a) => \A r \in Services \ {s} : a.state[r] # "complete"
      BY <2>2, <2>3 DEF Sound, ReadyInv, IsReady
    <3> QED
      BY <2>3, <3>1, <3>2, ChangedMoves
  <2> HIDE DEF q
  <2>5. SpOK(q) /\ SameTables(p, q)
    BY <2>3, <2>4 DEF ServicesMove, SameTables
  <2>6. \A r \in Services \ {s} :
          /\ InStep(p, r) => InStep(q, r)
          /\ \/ q.state[r] = p.state[r]
             \/ p.state[r] \in Completed /\ q.state[r] \in Completed
    BY <2>2, <2>3, <2>4 DEF ServicesMove, InStep
  <2>7. q.state[s] \in Completed /\ (p.view[s] = "idle" => InStep(q, s))
    <3>1. q.state[s] = a.state[s] \/ (a.state[s] \in Completed /\ q.state[s] \in Completed)
      BY <2>4 DEF ServicesMove
    <3>2. p.view[s] = "idle" => InStep(a, s)
      BY <2>2, <2>3 DEF InStep, Shown
    <3> QED
      BY <2>2, <2>3, <2>4, <3>1, <3>2 DEF ServicesMove
  <2>8. Listed(q) = Listed(p)
    <3>1. \A r \in Services \ {s} : q.state[r] = "none" <=> p.state[r] = "none"
      BY <2>6
    <3> QED
      BY <1>2, <2>7, <3>1 DEF Listed
  <2>9. FilterInv(q)
    BY <2>4, <2>5, <2>8 DEF Sound, FilterInv, SameTables
  <2> QED
    BY <1>2, <2>1, <2>4, <2>5, <2>6, <2>7, <2>9 DEF Sound, SameTables
<1> QED
  BY <1>1, <1>2

(* onExpired of NIT and SDT, onPmtExpired                                  *)
LEMMA ExpiredIsSound ==
  ASSUME NEW p, Sound(p), NEW f \in Filters \ {"PAT"}
  PROVE  LET q == OnExpired(p, f)
         IN  /\ Sound(q) /\ Harmless(p, q) /\ q.filters = p.filters
             /\ \A s \in Services :
                  Alone(s) /\ PidOf[s] = f =>
                    q.state[s] = IF p.state[s] \in Ready THEN "expired" ELSE p.state[s]
<1>1. CASE f \in {"NIT", "SDT"}
  <2> DEFINE mask == IF f = "NIT" THEN {"nit", "sdt"} ELSE {"sdt"}
             q == SetFlags(p, mask, FALSE)
  <2>1. OnExpired(p, f) = q
    BY <1>1 DEF OnExpired
  <2>2. \A s \in Services : PidOf[s] # f
    BY <1>1, FiltersApart
  <2>3. FALSE \in BOOLEAN /\ mask \subseteq {"nit", "sdt"}
    OBVIOUS
  <2> HIDE DEF mask
  <2>4. Sound(q) /\ Harmless(p, q) /\ q.filters = p.filters
    BY <2>3, FlagsAreSound
  <2> HIDE DEF q
  <2> QED
    BY <2>1, <2>2, <2>4
<1>2. CASE f \in PmtPids /\ SomeOn(p, f)
  <2> DEFINE ss == {FirstOn(p, f)}
             q == OnExpireService(p, ss, "expired")
  <2>1. OnExpired(p, f) = q
    BY <1>2, FiltersApart DEF OnExpired
  <2>2. FirstOn(p, f) \in Listed(p) /\ PidOf[FirstOn(p, f)] = f /\ ss \subseteq Services
    BY <1>2, FirstOnListed DEF Sound, Listed
  <2> HIDE DEF ss
  <2>3. /\ SpOK(q) /\ SameTables(p, q) /\ q.ready = p.ready
        /\ \A s \in Services :
             /\ q.state[s] = IF s \in ss /\ p.state[s] \in Ready
                               THEN "expired" ELSE p.state[s]
             /\ InStep(p, s) => InStep(q, s)
    BY <2>2, ExpireMoves DEF Sound
  <2> HIDE DEF q
  <2>4. Harmless(p, q)
    BY <2>3 DEF Harmless, SameTables
  <2>5. Listed(q) = Listed(p)
    BY <2>4, SameList
  <2>6. Sound(q)
    BY <2>3, <2>5 DEF Sound, ReadyInv, IsReady, FilterInv, SameTables
  <2>7. ASSUME NEW s \in Services, Alone(s), PidOf[s] = f
        PROVE  q.state[s] = IF p.state[s] \in Ready THEN "expired" ELSE p.state[s]
    <3>1. s = FirstOn(p, f)
      BY <2>2, <2>7 DEF Alone, Listed
    <3> QED
      BY <2>3, <3>1 DEF ss
  <2> QED
    BY <2>1, <2>3, <2>4, <2>6, <2>7 DEF SameTables
<1>3. CASE f \in PmtPids /\ ~SomeOn(p, f)
  <2>1. OnExpired(p, f) = p
    BY <1>3, FiltersApart DEF OnExpired
  <2>2. \A s \in Services : PidOf[s] = f => p.state[s] \notin Ready
    BY <1>3 DEF SomeOn, Listed
  <2> QED
    BY <2>1, <2>2 DEF Harmless
<1> QED
  BY <1>1, <1>2, <1>3 DEF Filters

(* onPatExpired                                                            *)
LEMMA PatExpiredIsSound ==
  ASSUME NEW p, Sound(p)
  PROVE  LET q == OnExpired(p, "PAT")
         IN  Sound(q) /\ Killed(p, q) /\ q.filters = p.filters \cap {"PAT"}
<1>1. OnExpired(p, "PAT") = KillServices(p)
  BY DEF OnExpired
<1> QED
  BY <1>1, KillServicesDoes DEF Sound, Killed

(* timeouts                                                                *)
LEMMA TimeoutIsSound ==
  ASSUME NEW p, Sound(p), NEW f \in Filters
  PROVE  LET q == OnTimeout(p, f)
         IN  Sound(q) /\ (Harmless(p, q) \/ Killed(p, q))
<1>1. CASE f \in PmtPids
  <2>1. OnTimeout(p, f) = OnPmtTimeout(p, f)
    BY <1>1 DEF OnTimeout
  <2>2. CASE SomeOn(p, f) /\ p.state[FirstOn(p, f)] = "present"
    <3> DEFINE s == FirstOn(p, f)
               state == [p.state EXCEPT ![s] = "timeout"]
               a == [p EXCEPT !.state = state]
               e == a.endScan \/ \A r \in Listed(a) : a.state[r] \in Scanned
               q == [a EXCEPT !.endScan = e]
    <3>1. OnTimeout(p, f) = q
      BY <2>1, <2>2 DEF OnPmtTimeout, NotifyEndScan, Sound, SpOK
    <3>2. s \in Services /\ p.state[s] = "present"
      BY <2>2, FirstOnListed DEF Sound, Listed
    <3> HIDE DEF s
    <3>3. /\ state \in [Services -> ServiceStates] /\ state[s] = "timeout"
          /\ \A r \in Services \ {s} : state[r] = p.state[r]
      BY <3>2 DEF Sound, SpOK
    <3> HIDE DEF state
    <3>4. /\ SpOK(a) /\ SameTables(p, a) /\ a.ready = p.ready /\ a.view = p.view
          /\ a.state = state
      BY <3>3 DEF Sound, SpOK, SameTables
    <3> HIDE DEF a
    <3>5. e \in BOOLEAN
      BY <3>4 DEF SpOK
    <3> HIDE DEF e
    <3>6. /\ SpOK(q) /\ SameTables(p, q) /\ q.ready = p.ready /\ q.view = p.view
          /\ q.state = state
      BY <3>4, <3>5 DEF SpOK, SameTables
    <3> HIDE DEF q
    <3>7. ASSUME NEW r \in Services
          PROVE  /\ \/ q.state[r] = p.state[r]
                    \/ p.state[r] = "present" /\ q.state[r] = "timeout"
                 /\ InStep(p, r) => InStep(q, r)
      <4>1. CASE r = s
        BY <3>2, <3>3, <3>6, <4>1 DEF InStep, Shown
      <4>2. CASE r # s
        BY <3>3, <3>6, <4>2 DEF InStep
      <4> QED
        BY <4>1, <4>2
    <3>8. Harmless(p, q)
      BY <3>6, <3>7 DEF Harmless, SameTables
    <3>9. Listed(q) = Listed(p)
      BY <3>8, SameList
    <3>10. Sound(q)
      BY <3>6, <3>7, <3>9 DEF Sound, ReadyInv, IsReady, FilterInv, SameTables
    <3> QED
      BY <3>1, <3>8, <3>10
  <2>3. CASE ~(SomeOn(p, f) /\ p.state[FirstOn(p, f)] = "present")
    <3>1. OnTimeout(p, f) = p
      BY <2>1, <2>3 DEF OnPmtTimeout
    <3> QED
      BY <3>1 DEF Harmless
  <2> QED
    BY <2>2, <2>3
<1>2. CASE f \notin PmtPids /\ p.endScan
  <2>1. OnTimeout(p, f) = p
    BY <1>2 DEF OnTimeout
  <2> QED
    BY <2>1 DEF Harmless
<1>3. CASE f = "PAT" /\ ~p.endScan
  <2> DEFINE a == [p EXCEPT !.endScan = TRUE]
             q == KillServices(a)
  <2>1. OnTimeout(p, f) = q
    BY <1>3, FiltersApart DEF OnTimeout
  <2>2. /\ SameTables(p, a) /\ a.ready = p.ready /\ a.state = p.state /\ a.view = p.view
    BY DEF Sound, SpOK, SameTables
  <2>3. SpOK(a)
    <3>1. TRUE \in BOOLEAN
      OBVIOUS
    <3> QED
      BY <2>2, <3>1 DEF Sound, SpOK
  <2> HIDE DEF a
  <2>4. ReadyInv(a) /\ FilterInv(a)
    BY <2>2 DEF Sound, ReadyInv, IsReady, FilterInv, SameTables, Listed
  <2>5. Sound(q) /\ Killed(a, q)
    BY <2>3, <2>4, KillServicesDoes DEF Sound, Killed
  <2> HIDE DEF q
  <2> QED
    BY <2>1, <2>2, <2>5 DEF Killed, SameTables, InStep
<1>4. CASE f \in {"NIT", "SDT"} /\ ~p.endScan
  <2>1. OnTimeout(p, f) = SetFlags(p, IF f = "NIT" THEN {"nit", "sdt"} ELSE {"sdt"}, TRUE)
    BY <1>4, FiltersApart DEF OnTimeout
  <2>2. TRUE \in BOOLEAN /\ (IF f = "NIT" THEN {"nit", "sdt"} ELSE {"sdt"}) \subseteq {"nit", "sdt"}
    OBVIOUS
  <2> QED
    BY <2>1, <2>2, FlagsAreSound
<1> QED
  BY <1>1, <1>2, <1>3, <1>4 DEF Filters
-----------------------------------------------------------------------------
(* A section as SectionOf makes them, for a filter                         *)
SectionFor(f, sec) ==
  /\ sec.table \in Subtables(f) /\ sec.ver \in Versions /\ sec.apply \in BOOLEAN
  /\ sec.last \in Nat /\ sec.num \in 0 .. sec.last
  /\ sec.content \subseteq Services \cup {NETWORK_ID_PROGRAM}

(* A demuxer as it should be                                               *)
DemuxerOK(f, d) == d \in Demuxers(f) /\ d.parsed \subseteq 0 .. d.size - 1

(* versionChanged                                                          *)
LEMMA AfterVersionDoes ==
  ASSUME NEW f, NEW d, DemuxerOK(f, d), NEW sec, SectionFor(f, sec)
  PROVE  LET e == AfterVersion(d, sec)
         IN  /\ DemuxerOK(f, e)
             /\ Applies(d, sec) =>
                  /\ e.version = [d.version EXCEPT ![sec.table] = sec.ver]
                  /\ e.parsed = {}
                  /\ e.lastExpired = IF Expires(d, sec) THEN d.version[sec.table]
                                                        ELSE d.lastExpired
             /\ ~VersionChanged(d, sec) => e = d
             /\ ~sec.apply =>
                  /\ e.version = d.version /\ e.parsed = d.parsed /\ e.size = d.size
                  /\ e.lastExpired = IF Expires(d, sec) THEN d.version[sec.table]
                                                        ELSE d.lastExpired
<1> DEFINE version == IF sec.apply THEN [d.version EXCEPT ![sec.table] = sec.ver] ELSE d.version
           last    == IF Expires(d, sec) THEN d.version[sec.table] ELSE d.lastExpired
           known   == [d EXCEPT !.version = version]
           told    == [known EXCEPT !.lastExpired = last]
           e       == AfterVersion(d, sec)
<1>1. version \in [Subtables(f) -> KnownVersions] /\ last \in KnownVersions
  BY DEF DemuxerOK, SectionFor, Demuxers, KnownVersions
<1>2. UpdateVersion(d, sec) = known
  BY DEF UpdateVersion, DemuxerOK, Demuxers
<1>3. e = IF Applies(d, sec) THEN ForgetSections(told) ELSE told
  <2>1. known = [known EXCEPT !.lastExpired = d.lastExpired]
    BY DEF DemuxerOK, Demuxers
  <2> QED
    BY <1>2, <2>1 DEF AfterVersion
<1>4. Applies(d, sec) => version = [d.version EXCEPT ![sec.table] = sec.ver]
  BY DEF Applies
<1>5. /\ ~VersionChanged(d, sec) => version = d.version /\ last = d.lastExpired
      /\ ~sec.apply => version = d.version
  BY DEF VersionChanged, Expires, DemuxerOK, Demuxers, SectionFor
<1> HIDE DEF version, last, e
<1>6. /\ told \in Demuxers(f) /\ told.version = version /\ told.lastExpired = last
      /\ told.parsed = d.parsed /\ told.size = d.size
  BY <1>1 DEF DemuxerOK, Demuxers
<1>7. CASE Applies(d, sec)
  <2>1. e = [told EXCEPT !.parsed = {}, !.size = 0, !.content = {}]
    BY <1>3, <1>7 DEF ForgetSections
  <2> HIDE DEF told
  <2>2. /\ e \in Demuxers(f) /\ e.parsed = {}
        /\ e.version = told.version /\ e.lastExpired = told.lastExpired
    BY <1>6, <2>1 DEF Demuxers
  <2> QED
    BY <1>4, <1>6, <1>7, <2>2 DEF DemuxerOK, Applies, e, last
<1>8. CASE ~Applies(d, sec)
  <2>1. e = told
    BY <1>3, <1>8
  <2>2. DemuxerOK(f, e)
    BY <1>6, <2>1 DEF DemuxerOK
  <2>3. ~VersionChanged(d, sec) => e = d
    BY <1>5, <2>1 DEF DemuxerOK, Demuxers
  <2> QED
    BY <1>5, <1>6, <1>8, <2>1, <2>2, <2>3 DEF e, last
<1> QED
  BY <1>7, <1>8

(* parseSection                                                            *)
LEMMA AfterSectionDoes ==
  ASSUME NEW f, NEW d, DemuxerOK(f, d), NEW sec, SectionFor(f, sec)
  PROVE  LET e == AfterSection(d, sec)
         IN  /\ DemuxerOK(f, e)
             /\ e.version = d.version /\ e.lastExpired = d.lastExpired
             /\ IF Fits(d, sec)
                  THEN e.parsed = d.parsed \cup {sec.num} /\ e.size = sec.last + 1
                  ELSE e = d
<1>1. CASE Fits(d, sec)
  <2> DEFINE parsed  == d.parsed \cup {sec.num}
             content == d.content \cup sec.content
             size    == sec.last + 1
             e       == AfterSection(d, sec)
  <2>1. (IF d.parsed = {} THEN sec.last + 1 ELSE d.size) = size
    BY <1>1 DEF Fits
  <2>2. e = [d EXCEPT !.parsed = parsed, !.size = size, !.content = content]
    BY <1>1, <2>1 DEF AfterSection, DemuxerOK, Demuxers
  <2>3. d.parsed \subseteq 0 .. size - 1
    BY <1>1 DEF Fits, DemuxerOK
  <2>4. /\ parsed \subseteq 0 .. size - 1 /\ parsed \subseteq Nat /\ size \in Nat
        /\ content \subseteq Services \cup {NETWORK_ID_PROGRAM}
    BY <2>3 DEF SectionFor, DemuxerOK, Demuxers
  <2> HIDE DEF parsed, content, size, e
  <2>5. /\ e \in Demuxers(f) /\ e.parsed = parsed /\ e.size = size
        /\ e.version = d.version /\ e.lastExpired = d.lastExpired
    BY <2>2, <2>4 DEF DemuxerOK, Demuxers
  <2> QED
    BY <1>1, <2>4, <2>5 DEF DemuxerOK, e, parsed, size
<1>2. CASE ~Fits(d, sec)
  BY <1>2 DEF AfterSection
<1> QED
  BY <1>1, <1>2

(* Nothing else notices what a demuxer notes.                              *)
LEMMA NoteIsSound ==
  ASSUME NEW p, Sound(p), NEW f \in Filters, NEW d, DemuxerOK(f, d)
  PROVE  LET q == [p EXCEPT !.demux[f] = d]
         IN  /\ Sound(q) /\ SameServices(p, q) /\ q.filters = p.filters
             /\ q.demux[f] = d
             /\ \A g \in Filters \ {f} : q.demux[g] = p.demux[g]
<1> DEFINE demux == [p.demux EXCEPT ![f] = d]
           q == [p EXCEPT !.demux = demux]
<1>1. q = [p EXCEPT !.demux[f] = d]
  BY DEF Sound, SpOK
<1>2. /\ demux[f] = d /\ \A g \in Filters \ {f} : demux[g] = p.demux[g]
      /\ demux = [g \in Filters |-> demux[g]]
  BY DEF Sound, SpOK
<1> HIDE DEF demux
<1>3. /\ SameServices(p, q) /\ q.filters = p.filters /\ q.nitPID = p.nitPID
      /\ q.demux = demux
  BY DEF Sound, SpOK, SameServices
<1>4. \A g \in Filters : DemuxerOK(g, demux[g])
  <2>1. \A g \in Filters : DemuxerOK(g, p.demux[g])
    BY DEF Sound, SpOK, DemuxerOK
  <2> QED
    BY <1>2, <2>1
<1>5. SpOK(q)
  BY <1>2, <1>3, <1>4 DEF Sound, SpOK, DemuxerOK
<1> HIDE DEF q
<1>6. Listed(q) = Listed(p)
  BY <1>3 DEF Listed, SameServices
<1>7. ReadyInv(q) /\ FilterInv(q)
  BY <1>3, <1>6 DEF Sound, ReadyInv, IsReady, FilterInv, SameServices
<1> QED
  BY <1>1, <1>2, <1>3, <1>5, <1>7 DEF Sound

(* A section seen by its filter, before it is parsed: the PAT kills all    *)
(* services if it has expired, the others do no harm.                      *)
LEMMA VersionSeenDoes ==
  ASSUME NEW p, Sound(p), NEW f \in p.filters, NEW sec, SectionFor(f, sec)
  PROVE  LET q == VersionSeen(p, f, sec)
         IN  /\ Sound(q) /\ q.running = p.running /\ f \in q.filters
             /\ q.demux[f] = AfterVersion(p.demux[f], sec)
             /\ DemuxerOK(f, q.demux[f])
             /\ ~Expires(p.demux[f], sec) => q.state = p.state /\ q.ts = p.ts
             /\ Expires(p.demux[f], sec) /\ f = "PAT" =>
                  ~q.ts /\ \A s \in Services : q.state[s] = "none"
             /\ Expires(p.demux[f], sec) /\ f # "PAT" =>
                  \A s \in Services : Alone(s) /\ PidOf[s] = f =>
                    q.state[s] = IF p.state[s] \in Ready THEN "expired" ELSE p.state[s]
             /\ f # "PAT" => q.ts = p.ts
             /\ \A g \in ({"PAT"} \cup PmtPids) \ {f} :
                  \/ q.demux[g] = p.demux[g]
                  \/ /\ f = "PAT" /\ Expires(p.demux[f], sec)
                     /\ q.demux[g] = NewDemuxer(Subtables(g))
             /\ \A s \in Services :
                  /\ InStep(p, s) => InStep(q, s)
                  /\ q.state[s] = "none" \/ StateMove(p.state[s], q.state[s])
<1> DEFINE d == p.demux[f]
           e == AfterVersion(d, sec)
           a == IF Expires(d, sec) THEN OnExpired(p, f) ELSE p
           q == [a EXCEPT !.demux[f] = e]
<1>1. VersionSeen(p, f, sec) = q
  BY DEF VersionSeen
<1>2. f \in Filters /\ DemuxerOK(f, d)
  BY DEF Sound, SpOK, DemuxerOK
<1>3. DemuxerOK(f, e)
  BY <1>2, AfterVersionDoes
<1> HIDE DEF e
<1>4. /\ Sound(a) /\ a.running = p.running /\ f \in a.filters
      /\ ~Expires(d, sec) => a.state = p.state /\ a.ts = p.ts
      /\ Expires(d, sec) /\ f = "PAT" =>
           ~a.ts /\ \A s \in Services : a.state[s] = "none"
      /\ Expires(d, sec) /\ f # "PAT" =>
           \A s \in Services : Alone(s) /\ PidOf[s] = f =>
             a.state[s] = IF p.state[s] \in Ready THEN "expired" ELSE p.state[s]
      /\ f # "PAT" => a.ts = p.ts
      /\ \A g \in {"PAT"} \cup PmtPids :
           \/ a.demux[g] = p.demux[g]
           \/ /\ f = "PAT" /\ g # "PAT" /\ Expires(d, sec)
              /\ a.demux[g] = NewDemuxer(Subtables(g))
      /\ \A s \in Services :
           /\ InStep(p, s) => InStep(a, s)
           /\ a.state[s] = "none" \/ StateMove(p.state[s], a.state[s])
  <2>1. CASE ~Expires(d, sec)
    BY <2>1
  <2>2. CASE Expires(d, sec) /\ f = "PAT"
    <3>1. a = OnExpired(p, "PAT")
      BY <2>2
    <3> HIDE DEF a
    <3>2. Sound(a) /\ Killed(p, a) /\ a.filters = p.filters \cap {"PAT"}
      BY <3>1, PatExpiredIsSound
    <3>3. \A g \in PmtPids : a.demux[g] \in {p.demux[g], NewDemuxer(Subtables(g))}
      BY <3>2 DEF Killed
    <3>4. "PAT" \notin PmtPids
      BY FiltersApart
    <3> QED
      BY <2>2, <3>2, <3>3, <3>4 DEF Killed
  <2>3. CASE Expires(d, sec) /\ f # "PAT"
    <3>1. a = OnExpired(p, f) /\ f \in Filters \ {"PAT"}
      BY <1>2, <2>3
    <3> HIDE DEF a
    <3>2. /\ Sound(a) /\ Harmless(p, a) /\ a.filters = p.filters
          /\ \A s \in Services : Alone(s) /\ PidOf[s] = f =>
               a.state[s] = IF p.state[s] \in Ready THEN "expired" ELSE p.state[s]
      BY <3>1, ExpiredIsSound
    <3> QED
      BY <2>3, <3>2 DEF Harmless
  <2> QED
    BY <2>1, <2>2, <2>3
<1> HIDE DEF a
<1>5. /\ Sound(q) /\ SameServices(a, q) /\ q.filters = a.filters
      /\ q.demux[f] = e
      /\ \A g \in Filters \ {f} : q.demux[g] = a.demux[g]
  BY <1>2, <1>3, <1>4, NoteIsSound
<1> HIDE DEF q
<1>6. \A s \in Services : InStep(a, s) => InStep(q, s)
  BY <1>5 DEF SameServices, InStep
<1>7. q.state = a.state /\ q.ts = a.ts /\ q.running = a.running
  BY <1>5 DEF SameServices
<1>8. \A g \in ({"PAT"} \cup PmtPids) \ {f} :
        \/ q.demux[g] = p.demux[g]
        \/ /\ f = "PAT" /\ Expires(d, sec)
           /\ q.demux[g] = NewDemuxer(Subtables(g))
  BY <1>4, <1>5, FiltersApart
<1> HIDE DEF d
<1>9. \A s \in Services :
        /\ InStep(p, s) => InStep(q, s)
        /\ q.state[s] = "none" \/ StateMove(p.state[s], q.state[s])
  BY <1>4, <1>6, <1>7
<1> QED
  BY <1>1, <1>3, <1>4, <1>5, <1>7, <1>8, <1>9 DEF d, e

(* A section of the PAT, once its version has been seen (parseSection,     *)
(* onComplete)                                                             *)
PatParsed(q, sec) ==
  LET d == q.demux["PAT"]
      r == [q EXCEPT !.demux["PAT"] = AfterSection(d, sec)]
  IN  IF sec.num \in d.parsed THEN q
        ELSE IF Completes(d, sec) THEN OnPat(r, r.demux["PAT"].content) ELSE r

(* What parsing a section of the PAT changes: the services only if it is   *)
(* complete.                                                               *)
LEMMA PatParsedDoes ==
  ASSUME NEW q, Sound(q), NEW sec, SectionFor("PAT", sec)
  PROVE  LET u == PatParsed(q, sec)
             d == q.demux["PAT"]
         IN  /\ Sound(u) /\ u.running = q.running
             /\ sec.num \in d.parsed => u = q
             /\ sec.num \notin d.parsed => u.demux["PAT"] = AfterSection(d, sec)
             /\ ~Completes(d, sec) \/ sec.num \in d.parsed =>
                  /\ u.ts = q.ts /\ u.state = q.state /\ u.view = q.view
                  /\ \A f \in PmtPids : u.demux[f] = q.demux[f]
             /\ \A f \in PmtPids : u.demux[f] \in {q.demux[f], NewDemuxer(Subtables(f))}
             /\ sec.num \notin d.parsed /\ Completes(d, sec) /\ ~q.ts =>
                  \A s \in Services :
                    /\ InStep(q, s) => InStep(u, s)
                    /\ \/ u.state[s] = "none"
                       \/ /\ u.state[s] = "present"
                          /\ u.demux[PidOf[s]] = NewDemuxer(Subtables(PidOf[s]))
<1> DEFINE d == q.demux["PAT"]
           e == AfterSection(d, sec)
           r == [q EXCEPT !.demux["PAT"] = e]
           u == PatParsed(q, sec)
<1>1. u = IF sec.num \in d.parsed THEN q
          ELSE IF Completes(d, sec) THEN OnPat(r, r.demux["PAT"].content) ELSE r
  BY DEF PatParsed
<1> HIDE DEF u
<1>2. DemuxerOK("PAT", d)
  BY FiltersApart DEF Sound, SpOK, DemuxerOK
<1>3. DemuxerOK("PAT", e)
  BY <1>2, AfterSectionDoes
<1> HIDE DEF e
<1>4. /\ Sound(r) /\ SameServices(q, r) /\ r.demux["PAT"] = e
      /\ \A g \in Filters \ {"PAT"} : r.demux[g] = q.demux[g]
  BY <1>3, NoteIsSound, FiltersApart
<1> HIDE DEF r
<1>5. \A f \in PmtPids : r.demux[f] = q.demux[f]
  BY <1>4, FiltersApart
<1>6. CASE sec.num \in d.parsed
  BY <1>1, <1>6 DEF u
<1>7. CASE sec.num \notin d.parsed /\ ~Completes(d, sec)
  <2>1. u = r
    BY <1>1, <1>7
  <2> QED
    BY <1>4, <1>5, <1>7, <2>1 DEF SameServices, u, e
<1>8. CASE sec.num \notin d.parsed /\ Completes(d, sec)
  <2> DEFINE programs == r.demux["PAT"].content
  <2>1. u = OnPat(r, programs)
    BY <1>1, <1>8
  <2>2. programs \subseteq Services \cup {NETWORK_ID_PROGRAM}
    BY <1>3, <1>4 DEF DemuxerOK, Demuxers
  <2> HIDE DEF programs
  <2>3. /\ Sound(u) /\ u.running = r.running /\ u.ts
        /\ u.demux["PAT"] = r.demux["PAT"]
        /\ \A f \in PmtPids :
             u.demux[f] \in {r.demux[f], NewDemuxer(Subtables(f))}
        /\ ~r.ts => \A s \in Services :
             /\ InStep(r, s) => InStep(u, s)
             /\ \/ u.state[s] = "none"
                \/ /\ u.state[s] = "present"
                   /\ u.demux[PidOf[s]] = NewDemuxer(Subtables(PidOf[s]))
    BY <1>4, <2>1, <2>2, PatIsSound
  <2>4. \A s \in Services : InStep(q, s) => InStep(r, s)
    BY <1>4 DEF SameServices, InStep
  <2>5. u.running = q.running /\ r.ts = q.ts
    BY <1>4, <2>3 DEF SameServices
  <2>6. \A f \in PmtPids : u.demux[f] \in {q.demux[f], NewDemuxer(Subtables(f))}
    BY <1>5, <2>3
  <2>7. ~q.ts => \A s \in Services :
             /\ InStep(q, s) => InStep(u, s)
             /\ \/ u.state[s] = "none"
                \/ /\ u.state[s] = "present"
                   /\ u.demux[PidOf[s]] = NewDemuxer(Subtables(PidOf[s]))
    BY <2>3, <2>4, <2>5
  <2>8. u.demux["PAT"] = e
    BY <1>4, <2>3
  <2> QED
    BY <1>8, <2>3, <2>5, <2>6, <2>7, <2>8 DEF u, e
<1> QED
  BY <1>6, <1>7, <1>8

(* What a section of the other tables does once it applies                 *)
LEMMA OtherSection ==
  ASSUME NEW p, NEW f \in Filters \ {"PAT"}, NEW sec
  PROVE  LET q == VersionSeen(p, f, sec)
         IN  Section(p, f, sec) =
               IF ~Applies(p.demux[f], sec) THEN q
                 ELSE IF f = "NIT" THEN OnNit(q, sec.table[1], sec.table[2])
                 ELSE IF f = "SDT" THEN OnSdt(q, sec.table[1], sec.table[2])
                 ELSE OnPmt(q, sec.table)
BY DEF Section

(* A section keeps what is sound so.                                       *)
LEMMA SectionIsSound ==
  ASSUME NEW p, Sound(p), NEW f \in p.filters, NEW sec, SectionFor(f, sec)
  PROVE  LET u == Section(p, f, sec)
         IN  Sound(u) /\ u.running = p.running
<1> DEFINE q == VersionSeen(p, f, sec)
           u == Section(p, f, sec)
<1>1. Sound(q) /\ q.running = p.running /\ f \in q.filters
  BY VersionSeenDoes
<1>2. f \in Filters
  BY DEF Sound, SpOK
<1>3. CASE f = "PAT"
  <2>1. u = PatParsed(q, sec)
    BY <1>3 DEF Section, PatSection, PatParsed
  <2> HIDE DEF q, u
  <2> QED
    BY <1>1, <1>3, <2>1, PatParsedDoes DEF u
<1>4. CASE f # "PAT"
  <2>1. u = IF ~Applies(p.demux[f], sec) THEN q
              ELSE IF f = "NIT" THEN OnNit(q, sec.table[1], sec.table[2])
              ELSE IF f = "SDT" THEN OnSdt(q, sec.table[1], sec.table[2])
              ELSE OnPmt(q, sec.table)
    BY <1>2, <1>4, OtherSection
  <2> HIDE DEF q, u
  <2>2. CASE f \in {"NIT", "SDT"}
    <3>1. sec.table[2] \in Nets
      <4>1. sec.table \in {"actual", "other"} \X Nets
        BY <2>2 DEF SectionFor, Subtables
      <4> QED
        BY <4>1
    <3>2. f = "NIT" => /\ Sound(OnNit(q, sec.table[1], sec.table[2]))
                       /\ Harmless(q, OnNit(q, sec.table[1], sec.table[2]))
      BY <1>1, <3>1, NitIsSound
    <3>3. /\ Sound(OnSdt(q, sec.table[1], sec.table[2]))
          /\ Harmless(q, OnSdt(q, sec.table[1], sec.table[2]))
      BY <1>1, SdtIsSound
    <3> QED
      BY <1>1, <2>1, <2>2, <3>2, <3>3 DEF Harmless, u
  <2>3. CASE f \in PmtPids
    <3>1. sec.table \in Services /\ f \notin {"NIT", "SDT"}
      BY <2>3, <1>4, FiltersApart DEF SectionFor, Subtables
    <3>2. Sound(OnPmt(q, sec.table)) /\ OnPmt(q, sec.table).running = q.running
      BY <1>1, <3>1, PmtIsSound
    <3> QED
      BY <1>1, <2>1, <3>1, <3>2 DEF u
  <2> QED
    BY <1>2, <1>4, <2>2, <2>3 DEF Filters
<1> QED
  BY <1>3, <1>4
-----------------------------------------------------------------------------
(* What the demuxer of the PAT knows unless an announcement has spared     *)
(* services: its sections are of the version it applied, all of them once  *)
(* services are listed; and if that version has expired, they are still    *)
(* known and no services are listed.                                       *)
PatInv(d, ts) ==
  LET v == d.version["PAT"]
  IN  /\ d.parsed # {} => /\ v \in Versions
                          /\ d.parsed \subseteq DOMAIN Pat[v]
                          /\ d.size = Cardinality(DOMAIN Pat[v])
      /\ ts => d.parsed # {} /\ d.parsed = DOMAIN Pat[v]
      /\ v = d.lastExpired /\ v # PSI_INVALID_VERSION =>
           ~ts /\ d.parsed # {} /\ d.parsed = DOMAIN Pat[v]

(* ... and that of the PMT of a service that has its pid for itself: it    *)
(* has applied a version once the service has its PMT, and if that has     *)
(* expired, so has the service.                                            *)
PmtInv(d, st, s) ==
  LET v == d.version[s]
  IN  /\ st \in Completed \cup {"expired"} => v # PSI_INVALID_VERSION
      /\ st \in {"present", "timeout"} => v = PSI_INVALID_VERSION
      /\ v = d.lastExpired /\ v # PSI_INVALID_VERSION => st \in {"none", "expired"}

(* m: the filters at which an announcement has spared services             *)
Faithful(p, m) ==
  "PAT" \notin m =>
    /\ PatInv(p.demux["PAT"], p.ts)
    /\ \A s \in Services :
         Alone(s) /\ PidOf[s] \notin m =>
           PmtInv(p.demux[PidOf[s]], p.state[s], s) /\ InStep(p, s)

(* A section of a PAT                                                      *)
OfPat(sec) ==
  /\ sec.num \in DOMAIN Pat[sec.ver]
  /\ sec.last + 1 = Cardinality(DOMAIN Pat[sec.ver])

(* New demuxers know nothing.                                              *)
LEMMA NewIsFaithful ==
  /\ PatInv(NewDemuxer(Subtables("PAT")), FALSE)
  /\ \A s \in Services, st \in {"none", "present", "timeout"} :
       PmtInv(NewDemuxer(Subtables(PidOf[s])), st, s)
<1>1. PatInv(NewDemuxer(Subtables("PAT")), FALSE)
  BY DEF PatInv, NewDemuxer, Subtables
<1>2. \A s \in Services : s \in Subtables(PidOf[s])
  BY FiltersApart DEF Subtables
<1>3. \A s \in Services, st \in {"none", "present", "timeout"} :
        PmtInv(NewDemuxer(Subtables(PidOf[s])), st, s)
  BY <1>2 DEF PmtInv, NewDemuxer
<1> QED
  BY <1>1, <1>3

(* The PAT that is complete has all its sections.                          *)
LEMMA PatComplete ==
  ASSUME NEW v \in Versions, NEW S, S \subseteq DOMAIN Pat[v],
         Cardinality(S) = Cardinality(DOMAIN Pat[v])
  PROVE  S = DOMAIN Pat[v]
<1>1. /\ Cardinality(DOMAIN Pat[v]) \in Nat
      /\ DOMAIN Pat[v] = 0 .. (Cardinality(DOMAIN Pat[v]) - 1)
  BY ServiceAssumption
<1> DEFINE D == DOMAIN Pat[v]
           m == Cardinality(D) - 1
<1>2. m \in Int /\ D = 0 .. m
  BY <1>1
<1> HIDE DEF m, D
<1>3. IsFiniteSet(D)
  BY <1>2, FS_Interval
<1> QED
  BY <1>3, FS_Subset DEF D

(* Sections of a PAT are numbered from 0, so that PATs of as many sections *)
(* have the same numbers.                                                  *)
LEMMA SameNumbers ==
  ASSUME NEW v \in Versions, NEW w \in Versions,
         Cardinality(DOMAIN Pat[v]) = Cardinality(DOMAIN Pat[w])
  PROVE  DOMAIN Pat[v] = DOMAIN Pat[w]
<1>1. /\ DOMAIN Pat[v] = 0 .. (Cardinality(DOMAIN Pat[v]) - 1)
      /\ DOMAIN Pat[w] = 0 .. (Cardinality(DOMAIN Pat[w]) - 1)
  BY ServiceAssumption
<1> QED
  BY <1>1

(* Once a section of the PAT has been seen, its version is the one known,  *)
(* and services of another one are gone; or it is announced, and the PAT   *)
(* known has all its sections.                                             *)
LEMMA PatSeen ==
  ASSUME NEW p, Sound(p), "PAT" \in p.filters, PatInv(p.demux["PAT"], p.ts),
         NEW sec, SectionFor("PAT", sec), ~NothingToExpire(p, "PAT", sec)
  PROVE  LET q == VersionSeen(p, "PAT", sec)
             e == q.demux["PAT"]
         IN  /\ PatInv(e, q.ts)
             /\ \/ e.version["PAT"] = sec.ver
                \/ e.parsed # {} /\ e.parsed = DOMAIN Pat[e.version["PAT"]]
<1> DEFINE d == p.demux["PAT"]
           q == VersionSeen(p, "PAT", sec)
           e == q.demux["PAT"]
<1>1. /\ e = AfterVersion(d, sec)
      /\ ~Expires(d, sec) => q.ts = p.ts
      /\ Expires(d, sec) => ~q.ts
  BY VersionSeenDoes
<1>2. DemuxerOK("PAT", d) /\ sec.table = "PAT" /\ sec.apply \in BOOLEAN
  BY FiltersApart DEF Sound, SpOK, DemuxerOK, SectionFor, Subtables
<1>3. /\ Applies(d, sec) =>
           /\ e.version = [d.version EXCEPT !["PAT"] = sec.ver]
           /\ e.parsed = {}
           /\ e.lastExpired = IF Expires(d, sec) THEN d.version["PAT"] ELSE d.lastExpired
      /\ ~VersionChanged(d, sec) => e = d
      /\ ~sec.apply =>
           /\ e.version = d.version /\ e.parsed = d.parsed /\ e.size = d.size
           /\ e.lastExpired = IF Expires(d, sec) THEN d.version["PAT"] ELSE d.lastExpired
  BY <1>1, <1>2, AfterVersionDoes
<1>4. sec.apply \/ p.ts \/ (d.parsed # {} /\ Cardinality(d.parsed) = d.size)
  BY DEF NothingToExpire, Complete
<1> HIDE DEF q, e
<1>5. /\ d.version \in [{"PAT"} -> KnownVersions] /\ sec.ver \in Versions
      /\ p.ts \in BOOLEAN
  BY <1>2 DEF DemuxerOK, Demuxers, Subtables, SectionFor, Sound, SpOK
<1>6. CASE ~VersionChanged(d, sec)
  BY <1>1, <1>2, <1>3, <1>6 DEF VersionChanged, Expires, q, e
<1>7. CASE VersionChanged(d, sec) /\ sec.apply
  <2>1. /\ e.version["PAT"] = sec.ver /\ e.parsed = {}
        /\ e.lastExpired = IF Expires(d, sec) THEN d.version["PAT"] ELSE d.lastExpired
        /\ sec.ver # d.version["PAT"]
    BY <1>2, <1>3, <1>5, <1>7 DEF Applies, VersionChanged
  <2>2. e.lastExpired = d.version["PAT"]
    BY <1>2, <1>7, <2>1 DEF Expires
  <2>3. ~q.ts
    <3>1. CASE Expires(d, sec)
      BY <1>1, <3>1
    <3>2. CASE ~Expires(d, sec)
      <4>1. d.version["PAT"] = d.lastExpired
        BY <1>2, <1>7, <3>2 DEF Expires
      <4>2. p.ts => d.version["PAT"] \in Versions
        BY DEF PatInv
      <4>3. p.ts => d.version["PAT"] # PSI_INVALID_VERSION
        BY <4>2, VersionsAssumption DEF PSI_INVALID_VERSION
      <4> QED
        BY <1>1, <3>2, <4>1, <4>3 DEF PatInv
    <3> QED
      BY <3>1, <3>2
  <2> QED
    BY <2>1, <2>2, <2>3 DEF PatInv, q, e
<1>8. CASE VersionChanged(d, sec) /\ ~sec.apply
  <2> DEFINE v == d.version["PAT"]
  <2>1. d.parsed # {} /\ v \in Versions /\ d.parsed = DOMAIN Pat[v]
    <3>1. CASE p.ts
      BY <3>1 DEF PatInv
    <3>2. CASE ~p.ts
      <4>1. d.parsed # {} /\ Cardinality(d.parsed) = d.size
        BY <1>4, <1>8, <3>2
      <4>2. v \in Versions /\ d.parsed \subseteq DOMAIN Pat[v]
            /\ Cardinality(d.parsed) = Cardinality(DOMAIN Pat[v])
        BY <4>1 DEF PatInv
      <4> HIDE DEF v
      <4> QED
        BY <4>1, <4>2, PatComplete
    <3> QED
      BY <3>1, <3>2
  <2>2. ~q.ts
    <3>1. CASE Expires(d, sec)
      BY <1>1, <3>1
    <3>2. CASE ~Expires(d, sec)
      <4>1. v = d.lastExpired /\ v # PSI_INVALID_VERSION
        BY <1>2, <1>8, <2>1, <3>2, VersionsAssumption DEF Expires, PSI_INVALID_VERSION
      <4> QED
        BY <1>1, <3>2, <4>1 DEF PatInv
    <3> QED
      BY <3>1, <3>2
  <2>3. e.version["PAT"] = v /\ e.parsed = d.parsed /\ e.size = d.size
    BY <1>3, <1>8
  <2>4. d.size = Cardinality(DOMAIN Pat[v])
    BY <2>1 DEF PatInv
  <2>5. PatInv(e, q.ts)
    <3> HIDE DEF v, d
    <3> QED
      BY <2>1, <2>2, <2>3, <2>4 DEF PatInv
  <2> QED
    BY <2>1, <2>3, <2>5 DEF q, e
<1> QED
  BY <1>2, <1>6, <1>7, <1>8

(* A section that is parsed is one that the PAT known lacked, so that no   *)
(* services are listed.                                                    *)
LEMMA PatLacked ==
  ASSUME NEW d, NEW ts, PatInv(d, ts), NEW sec, SectionFor("PAT", sec), OfPat(sec),
         \/ d.version["PAT"] = sec.ver
         \/ d.parsed # {} /\ d.parsed = DOMAIN Pat[d.version["PAT"]],
         sec.num \notin d.parsed, Fits(d, sec)
  PROVE  ~ts /\ d.version["PAT"] = sec.ver
<1>1. d.version["PAT"] = sec.ver
  <2>1. ASSUME d.parsed # {}, d.parsed = DOMAIN Pat[d.version["PAT"]] PROVE FALSE
    <3>1. /\ d.version["PAT"] \in Versions /\ sec.ver \in Versions
          /\ Cardinality(DOMAIN Pat[d.version["PAT"]]) = Cardinality(DOMAIN Pat[sec.ver])
      BY <2>1 DEF PatInv, Fits, OfPat, SectionFor
    <3>2. DOMAIN Pat[d.version["PAT"]] = DOMAIN Pat[sec.ver]
      BY <3>1, SameNumbers
    <3> QED
      BY <2>1, <3>2 DEF OfPat
  <2> QED
    BY <2>1
<1>2. ~ts
  BY <1>1 DEF PatInv, OfPat
<1> QED
  BY <1>1, <1>2

(* A section of the PAT keeps what is known faithful.                      *)
LEMMA PatIsFaithful ==
  ASSUME NEW p, Sound(p), "PAT" \in p.filters, NEW m, Faithful(p, m),
         NEW sec, SectionFor("PAT", sec), OfPat(sec),
         NothingToExpire(p, "PAT", sec) => "PAT" \in m
  PROVE  Faithful(Section(p, "PAT", sec), m)
<1> SUFFICES ASSUME "PAT" \notin m
             PROVE  LET u == Section(p, "PAT", sec)
                    IN  /\ PatInv(u.demux["PAT"], u.ts)
                        /\ \A s \in Services :
                             Alone(s) /\ PidOf[s] \notin m =>
                               PmtInv(u.demux[PidOf[s]], u.state[s], s) /\ InStep(u, s)
  BY DEF Faithful
<1> DEFINE q == VersionSeen(p, "PAT", sec)
           u == Section(p, "PAT", sec)
           d == q.demux["PAT"]
<1>1. /\ PatInv(d, q.ts)
      /\ \/ d.version["PAT"] = sec.ver
         \/ d.parsed # {} /\ d.parsed = DOMAIN Pat[d.version["PAT"]]
  BY PatSeen DEF Faithful
<1>2. /\ Sound(q) /\ DemuxerOK("PAT", d)
      /\ \A s \in Services :
           /\ InStep(p, s) => InStep(q, s)
           /\ \/ q.state[s] = p.state[s] /\ q.demux[PidOf[s]] = p.demux[PidOf[s]]
              \/ /\ q.state[s] = "none"
                 /\ q.demux[PidOf[s]] \in {p.demux[PidOf[s]], NewDemuxer(Subtables(PidOf[s]))}
  <2>1. /\ Sound(q) /\ DemuxerOK("PAT", d)
        /\ \A g \in ({"PAT"} \cup PmtPids) \ {"PAT"} :
             \/ q.demux[g] = p.demux[g]
             \/ Expires(p.demux["PAT"], sec) /\ q.demux[g] = NewDemuxer(Subtables(g))
        /\ \A s \in Services : InStep(p, s) => InStep(q, s)
        /\ ~Expires(p.demux["PAT"], sec) => q.state = p.state
        /\ Expires(p.demux["PAT"], sec) => \A s \in Services : q.state[s] = "none"
    BY VersionSeenDoes
  <2> HIDE DEF q
  <2>2. \A s \in Services : PidOf[s] \in ({"PAT"} \cup PmtPids) \ {"PAT"}
    BY FiltersApart
  <2> QED
    BY <2>1, <2>2
<1>3. u = PatParsed(q, sec)
  BY DEF Section, PatSection, PatParsed
<1> HIDE DEF q, u
<1>4. /\ sec.num \in d.parsed => u = q
      /\ sec.num \notin d.parsed => u.demux["PAT"] = AfterSection(d, sec)
      /\ ~Completes(d, sec) \/ sec.num \in d.parsed =>
           /\ u.ts = q.ts /\ u.state = q.state /\ u.view = q.view
           /\ \A f \in PmtPids : u.demux[f] = q.demux[f]
      /\ \A f \in PmtPids : u.demux[f] \in {q.demux[f], NewDemuxer(Subtables(f))}
      /\ sec.num \notin d.parsed /\ Completes(d, sec) /\ ~q.ts =>
           \A s \in Services :
             /\ InStep(q, s) => InStep(u, s)
             /\ \/ u.state[s] = "none"
                \/ /\ u.state[s] = "present"
                   /\ u.demux[PidOf[s]] = NewDemuxer(Subtables(PidOf[s]))
  BY <1>2, <1>3, PatParsedDoes
<1>5. sec.num \notin d.parsed /\ Fits(d, sec) => ~q.ts /\ d.version["PAT"] = sec.ver
  BY <1>1, PatLacked
<1>6. PatInv(u.demux["PAT"], u.ts)
  <2>1. CASE sec.num \in d.parsed
    BY <1>1, <1>4, <2>1
  <2>2. CASE sec.num \notin d.parsed /\ ~Fits(d, sec)
    <3>1. ~Completes(d, sec) /\ AfterSection(d, sec) = d
      BY <2>2 DEF Completes, AfterSection
    <3> QED
      BY <1>1, <1>4, <2>2, <3>1
  <2>3. CASE sec.num \notin d.parsed /\ Fits(d, sec)
    <3> DEFINE e == u.demux["PAT"]
               D == DOMAIN Pat[sec.ver]
    <3>1. sec.ver \in Versions /\ sec.num \in D /\ sec.last + 1 = Cardinality(D)
      BY DEF SectionFor, OfPat
    <3>2. d.parsed \subseteq D /\ d.version["PAT"] = sec.ver
      BY <1>1, <1>5, <2>3 DEF PatInv
    <3>3. e = AfterSection(d, sec)
      BY <1>4, <2>3
    <3>4. /\ e.version = d.version /\ e.lastExpired = d.lastExpired
          /\ e.parsed = d.parsed \cup {sec.num} /\ e.size = Cardinality(D)
      BY <1>2, <2>3, <3>1, <3>3, AfterSectionDoes
    <3>5. e.parsed \subseteq D /\ e.parsed # {}
      BY <3>1, <3>2, <3>4
    <3>6. u.ts => e.parsed = D
      <4>1. CASE Completes(d, sec)
        <5>1. Cardinality(e.parsed) = Cardinality(D)
          BY <3>1, <3>3, <4>1 DEF Completes
        <5> QED
          BY <3>1, <3>5, <5>1, PatComplete
      <4>2. CASE ~Completes(d, sec)
        BY <1>4, <1>5, <2>3, <4>2
      <4> QED
        BY <4>1, <4>2
    <3>7. d.version["PAT"] = d.lastExpired => d.version["PAT"] = PSI_INVALID_VERSION
      BY <1>1, <2>3, <3>1, <3>2 DEF PatInv
    <3>8. sec.ver # PSI_INVALID_VERSION
      BY <3>1, VersionsAssumption DEF PSI_INVALID_VERSION
    <3> HIDE DEF e
    <3> QED
      BY <3>1, <3>2, <3>4, <3>5, <3>6, <3>7, <3>8 DEF PatInv, e
  <2> QED
    BY <2>1, <2>2, <2>3
<1>7. ASSUME NEW s \in Services, Alone(s), PidOf[s] \notin m
      PROVE  PmtInv(u.demux[PidOf[s]], u.state[s], s) /\ InStep(u, s)
  <2>1. /\ PmtInv(p.demux[PidOf[s]], p.state[s], s) /\ InStep(p, s)
        /\ PidOf[s] \in PmtPids
    BY <1>7, FiltersApart DEF Faithful
  <2>2. PmtInv(p.demux[PidOf[s]], "none", s)
    BY <2>1 DEF PmtInv
  <2>3. \A st \in {"none", "present"} : PmtInv(NewDemuxer(Subtables(PidOf[s])), st, s)
    BY NewIsFaithful
  <2>4. CASE sec.num \notin d.parsed /\ Completes(d, sec)
    <3> USE DEF Completes
    <3>1. InStep(u, s)
      BY <1>2, <1>4, <1>5, <2>1, <2>4
    <3>2. u.demux[PidOf[s]] \in {p.demux[PidOf[s]], NewDemuxer(Subtables(PidOf[s]))}
      BY <1>2, <1>4, <2>1
    <3>3. \/ u.state[s] = "none"
          \/ u.state[s] = "present" /\ u.demux[PidOf[s]] = NewDemuxer(Subtables(PidOf[s]))
      BY <1>4, <1>5, <2>4
    <3> QED
      BY <2>2, <2>3, <3>1, <3>2, <3>3
  <2>5. CASE ~(sec.num \notin d.parsed /\ Completes(d, sec))
    <3>1. u.state = q.state /\ u.view = q.view /\ u.demux[PidOf[s]] = q.demux[PidOf[s]]
      BY <1>4, <2>1, <2>5
    <3>2. InStep(u, s)
      BY <1>2, <2>1, <3>1 DEF InStep
    <3>3. \/ q.state[s] = p.state[s] /\ q.demux[PidOf[s]] = p.demux[PidOf[s]]
          \/ /\ q.state[s] = "none"
             /\ q.demux[PidOf[s]] \in {p.demux[PidOf[s]], NewDemuxer(Subtables(PidOf[s]))}
      BY <1>2, <2>1
    <3> QED
      BY <2>1, <2>2, <2>3, <3>1, <3>2, <3>3
  <2> QED
    BY <2>4, <2>5
<1> QED
  BY <1>6, <1>7 DEF u

(* What does no harm keeps what is known faithful                          *)
LEMMA HarmlessIsFaithful ==
  ASSUME NEW p, NEW q, NEW m, Faithful(p, m), Harmless(p, q)
  PROVE  Faithful(q, m)
<1> SUFFICES ASSUME "PAT" \notin m
             PROVE  /\ PatInv(q.demux["PAT"], q.ts)
                    /\ \A s \in Services :
                         Alone(s) /\ PidOf[s] \notin m =>
                           PmtInv(q.demux[PidOf[s]], q.state[s], s) /\ InStep(q, s)
  BY DEF Faithful
<1>1. PatInv(q.demux["PAT"], q.ts)
  BY DEF Faithful, Harmless
<1>2. ASSUME NEW s \in Services, Alone(s), PidOf[s] \notin m
      PROVE  PmtInv(q.demux[PidOf[s]], q.state[s], s) /\ InStep(q, s)
  <2>1. PmtInv(p.demux[PidOf[s]], p.state[s], s) /\ InStep(p, s)
    BY <1>2 DEF Faithful
  <2>2. q.demux[PidOf[s]] = p.demux[PidOf[s]]
    BY FiltersApart DEF Harmless
  <2>3. StateMove(p.state[s], q.state[s]) /\ (InStep(p, s) => InStep(q, s))
    BY DEF Harmless
  <2> QED
    BY <2>1, <2>2, <2>3 DEF PmtInv
<1> QED
  BY <1>1, <1>2

(* ... and so does killing all services.                                   *)
LEMMA KilledIsFaithful ==
  ASSUME NEW p, NEW q, NEW m, Faithful(p, m), Killed(p, q)
  PROVE  Faithful(q, m)
<1> SUFFICES ASSUME "PAT" \notin m
             PROVE  /\ PatInv(q.demux["PAT"], q.ts)
                    /\ \A s \in Services :
                         Alone(s) /\ PidOf[s] \notin m =>
                           PmtInv(q.demux[PidOf[s]], q.state[s], s) /\ InStep(q, s)
  BY DEF Faithful
<1>1. PatInv(q.demux["PAT"], q.ts)
  BY DEF Faithful, Killed, PatInv
<1>2. ASSUME NEW s \in Services, Alone(s), PidOf[s] \notin m
      PROVE  PmtInv(q.demux[PidOf[s]], q.state[s], s) /\ InStep(q, s)
  <2>1. q.state[s] = "none" /\ (InStep(p, s) => InStep(q, s))
    BY DEF Killed
  <2>2. InStep(p, s)
    BY <1>2 DEF Faithful
  <2> QED
    BY <2>1, <2>2 DEF PmtInv
<1> QED
  BY <1>1, <1>2

(* A PMT that was seen and is new finds its service not ready, for its     *)
(* last version expired first.                                             *)
LEMMA PmtSeen ==
  ASSUME NEW p, Sound(p), NEW m, Faithful(p, m), "PAT" \notin m,
         NEW s \in Services, Alone(s), PidOf[s] \in p.filters \ m,
         NEW sec, SectionFor(PidOf[s], sec), ~NothingToExpire(p, PidOf[s], sec)
  PROVE  LET f == PidOf[s]
             q == VersionSeen(p, f, sec)
         IN  /\ sec.table = s /\ InStep(q, s)
             /\ \/ ~Applies(p.demux[f], sec) /\ PmtInv(q.demux[f], q.state[s], s)
                \/ /\ Applies(p.demux[f], sec) /\ q.view[s] = "idle"
                   /\ \A st \in Completed \cup {"none"} : PmtInv(q.demux[f], st, s)
<1> DEFINE f == PidOf[s]
           d == p.demux[f]
           q == VersionSeen(p, f, sec)
           e == q.demux[f]
<1>1. f \in PmtPids /\ f \in Filters /\ f # "PAT" /\ f \notin {"NIT", "SDT"}
  BY FiltersApart
<1>2. /\ Subtables(f) = {s} /\ sec.table = s /\ sec.ver \in Versions
      /\ sec.apply \in BOOLEAN /\ DemuxerOK(f, d)
  <2>1. Subtables(f) = {s}
    BY <1>1 DEF Subtables, Alone
  <2> QED
    BY <1>1, <2>1 DEF SectionFor, Sound, SpOK, DemuxerOK
<1>3. PmtInv(d, p.state[s], s) /\ InStep(p, s) /\ p.state[s] \in ServiceStates
  BY DEF Faithful, Sound, SpOK
<1>4. /\ e = AfterVersion(d, sec) /\ InStep(q, s)
      /\ ~Expires(d, sec) => q.state = p.state
      /\ Expires(d, sec) =>
           q.state[s] = IF p.state[s] \in Ready THEN "expired" ELSE p.state[s]
  BY <1>1, <1>3, VersionSeenDoes
<1>5. /\ Applies(d, sec) =>
           /\ e.version = [d.version EXCEPT ![s] = sec.ver]
           /\ e.lastExpired = IF Expires(d, sec) THEN d.version[s] ELSE d.lastExpired
      /\ ~VersionChanged(d, sec) => e = d
      /\ ~sec.apply =>
           /\ e.version = d.version
           /\ e.lastExpired = IF Expires(d, sec) THEN d.version[s] ELSE d.lastExpired
  BY <1>2, <1>4, AfterVersionDoes
<1>6. sec.apply \/ p.state[s] # "complete"
  BY <1>1, <1>2 DEF NothingToExpire
<1> HIDE DEF f, q, e
<1>7. d.version \in [{s} -> KnownVersions]
  BY <1>2 DEF DemuxerOK, Demuxers
<1>8. CASE ~VersionChanged(d, sec)
  <2>1. ~Applies(d, sec) /\ ~Expires(d, sec)
    BY <1>8 DEF Applies, Expires
  <2> QED
    BY <1>2, <1>3, <1>4, <1>5, <1>8, <2>1 DEF f, q, e
<1>9. CASE VersionChanged(d, sec) /\ sec.apply
  <2>1. /\ Applies(d, sec) /\ e.version[s] = sec.ver /\ sec.ver # d.version[s]
        /\ e.lastExpired = IF Expires(d, sec) THEN d.version[s] ELSE d.lastExpired
    BY <1>2, <1>5, <1>7, <1>9 DEF Applies, VersionChanged
  <2>2. e.lastExpired = d.version[s]
    BY <1>2, <1>9, <2>1 DEF Expires
  <2>3. \A st \in Completed \cup {"none"} : PmtInv(e, st, s)
    <3>1. sec.ver # PSI_INVALID_VERSION
      BY <1>2, VersionsAssumption DEF PSI_INVALID_VERSION
    <3> QED
      BY <2>1, <2>2, <3>1 DEF PmtInv
  <2>4. q.state[s] \notin Ready
    <3>1. CASE Expires(d, sec)
      BY <1>4, <3>1
    <3>2. CASE ~Expires(d, sec)
      <4>1. d.version[s] = d.lastExpired
        BY <1>2, <1>9, <3>2 DEF Expires
      <4> QED
        BY <1>3, <1>4, <3>2, <4>1 DEF PmtInv
    <3> QED
      BY <3>1, <3>2
  <2>5. q.view[s] = "idle"
    BY <1>4, <2>4 DEF InStep, Shown
  <2> QED
    BY <1>2, <1>4, <2>1, <2>3, <2>5 DEF f, q, e
<1>10. CASE VersionChanged(d, sec) /\ ~sec.apply
  <2>1. /\ ~Applies(d, sec) /\ e.version = d.version /\ p.state[s] # "complete"
        /\ e.lastExpired = IF Expires(d, sec) THEN d.version[s] ELSE d.lastExpired
    BY <1>5, <1>6, <1>10 DEF Applies
  <2>2. PmtInv(e, q.state[s], s)
    <3>1. CASE Expires(d, sec)
      BY <1>3, <1>4, <2>1, <3>1 DEF PmtInv
    <3>2. CASE ~Expires(d, sec)
      BY <1>3, <1>4, <2>1, <3>2 DEF PmtInv
    <3> QED
      BY <3>1, <3>2
  <2> QED
    BY <1>2, <1>4, <2>1, <2>2 DEF f, q, e
<1> QED
  BY <1>2, <1>8, <1>9, <1>10

(* A section of another table keeps what is known faithful.                *)
LEMMA OtherIsFaithful ==
  ASSUME NEW p, Sound(p), NEW m, Faithful(p, m), NEW f \in p.filters, f # "PAT",
         NEW sec, SectionFor(f, sec), NothingToExpire(p, f, sec) => f \in m
  PROVE  Faithful(Section(p, f, sec), m)
<1> SUFFICES ASSUME "PAT" \notin m PROVE Faithful(Section(p, f, sec), m)
  BY DEF Faithful
<1> DEFINE q == VersionSeen(p, f, sec)
           u == Section(p, f, sec)
<1>1. f \in Filters
  BY DEF Sound, SpOK
<1>2. u = IF ~Applies(p.demux[f], sec) THEN q
            ELSE IF f = "NIT" THEN OnNit(q, sec.table[1], sec.table[2])
            ELSE IF f = "SDT" THEN OnSdt(q, sec.table[1], sec.table[2])
            ELSE OnPmt(q, sec.table)
  BY <1>1, OtherSection
<1>3. /\ Sound(q) /\ f \in q.filters /\ q.ts = p.ts
      /\ \A g \in ({"PAT"} \cup PmtPids) \ {f} : q.demux[g] = p.demux[g]
      /\ \A s \in Services :
           /\ InStep(p, s) => InStep(q, s)
           /\ q.state[s] = "none" \/ StateMove(p.state[s], q.state[s])
  BY VersionSeenDoes
<1>4. \A s \in Services : Alone(s) /\ PidOf[s] = f /\ f \notin m =>
        /\ sec.table = s /\ InStep(q, s)
        /\ \/ ~Applies(p.demux[f], sec) /\ PmtInv(q.demux[f], q.state[s], s)
           \/ /\ Applies(p.demux[f], sec) /\ q.view[s] = "idle"
              /\ \A st \in Completed \cup {"none"} : PmtInv(q.demux[f], st, s)
  BY PmtSeen
<1> HIDE DEF q, u
<1>5. PatInv(q.demux["PAT"], q.ts)
  BY <1>3 DEF Faithful
<1>6. ASSUME NEW s \in Services, Alone(s), PidOf[s] \notin m, PidOf[s] # f
      PROVE  PmtInv(q.demux[PidOf[s]], q.state[s], s) /\ InStep(q, s)
  <2>1. PmtInv(p.demux[PidOf[s]], p.state[s], s) /\ InStep(p, s)
    BY <1>6 DEF Faithful
  <2>2. q.demux[PidOf[s]] = p.demux[PidOf[s]]
    BY <1>3, <1>6, FiltersApart
  <2> QED
    BY <1>3, <2>1, <2>2 DEF PmtInv
<1>7. CASE f \in {"NIT", "SDT"}
  <2>1. Faithful(q, m)
    <3>1. \A s \in Services : PidOf[s] # f
      BY <1>7, FiltersApart
    <3> QED
      BY <1>5, <1>6, <3>1 DEF Faithful
  <2>2. sec.table[2] \in Nets
    <3>1. sec.table \in {"actual", "other"} \X Nets
      BY <1>7 DEF SectionFor, Subtables
    <3> QED
      BY <3>1
  <2>3. f = "NIT" => Harmless(q, OnNit(q, sec.table[1], sec.table[2]))
    BY <1>3, <2>2, NitIsSound
  <2>4. Harmless(q, OnSdt(q, sec.table[1], sec.table[2]))
    BY <1>3, SdtIsSound
  <2>5. u = q \/ Harmless(q, u)
    BY <1>2, <1>7, <2>3, <2>4
  <2> QED
    BY <2>1, <2>5, HarmlessIsFaithful DEF u
<1>8. CASE f \in PmtPids
  <2> DEFINE t == sec.table
  <2>1. t \in Services /\ PidOf[t] = f /\ f \notin {"NIT", "SDT"}
    BY <1>8, FiltersApart DEF SectionFor, Subtables
  <2>2. CASE ~Applies(p.demux[f], sec)
    <3>1. u = q
      BY <1>2, <2>2
    <3>2. \A s \in Services : Alone(s) /\ PidOf[s] = f /\ f \notin m =>
            PmtInv(q.demux[PidOf[s]], q.state[s], s) /\ InStep(q, s)
      BY <1>4, <2>2
    <3> QED
      BY <1>5, <1>6, <3>1, <3>2 DEF Faithful, u
  <2>3. CASE Applies(p.demux[f], sec)
    <3>1. u = OnPmt(q, t)
      BY <1>2, <2>1, <2>3
    <3>2. /\ Sound(u) /\ u.ts = q.ts /\ u.demux = q.demux
          /\ \A r \in Services \ {t} :
               /\ InStep(q, r) => InStep(u, r)
               /\ \/ u.state[r] = q.state[r]
                  \/ q.state[r] \in Completed /\ u.state[r] \in Completed
          /\ IF q.state[t] = "none" THEN u = q
               ELSE u.state[t] \in Completed /\ (q.view[t] = "idle" => InStep(u, t))
      BY <1>3, <2>1, <3>1, PmtIsSound
    <3>3. ASSUME NEW s \in Services, Alone(s), PidOf[s] \notin m
          PROVE  PmtInv(u.demux[PidOf[s]], u.state[s], s) /\ InStep(u, s)
      <4>1. CASE PidOf[s] = f
        <5>1. t = s /\ InStep(q, s) /\ q.view[s] = "idle"
              /\ \A st \in Completed \cup {"none"} : PmtInv(q.demux[f], st, s)
          BY <1>4, <2>3, <3>3, <4>1
        <5>2. u.state[s] \in Completed \cup {"none"}
          BY <3>2, <5>1
        <5> QED
          BY <3>2, <4>1, <5>1, <5>2
      <4>2. CASE PidOf[s] # f
        <5>1. s # t
          BY <2>1, <4>2
        <5>2. PmtInv(q.demux[PidOf[s]], q.state[s], s) /\ InStep(q, s)
          BY <1>6, <3>3, <4>2
        <5>3. /\ InStep(u, s)
              /\ \/ u.state[s] = q.state[s]
                 \/ q.state[s] \in Completed /\ u.state[s] \in Completed
          BY <3>2, <5>1, <5>2
        <5> QED
          BY <3>2, <5>2, <5>3 DEF PmtInv
      <4> QED
        BY <4>1, <4>2
    <3> QED
      BY <1>5, <3>2, <3>3 DEF Faithful, u
  <2> QED
    BY <2>2, <2>3
<1> QED
  BY <1>1, <1>7, <1>8 DEF Filters
-----------------------------------------------------------------------------
(* What SectionOf makes is a section for the filter of its table, with     *)
(* any numbers and programs the broadcast may have.                        *)
LEMMA SectionsFit ==
  ASSUME NEW t \in Tables, NEW v \in Versions, NEW apply \in BOOLEAN,
         NEW n \in Numbers(t, v)
  PROVE  /\ FilterOf(t) \in Filters
         /\ SectionFor(FilterOf(t), SectionOf(t, v, apply, n))
         /\ FilterOf(t) \in {"PAT"} \cup PmtPids => t[1] \in {"PAT", "PMT"}
         /\ FilterOf(t) = "PAT" => t = <<"PAT", 0>> /\ t[1] = "PAT"
<1> DEFINE sec == SectionOf(t, v, apply, n)
<1>1. /\ sec.ver = v /\ sec.apply = apply /\ sec.num = n
      /\ sec.last = IF t[1] = "PAT" THEN Cardinality(DOMAIN Pat[v]) - 1 ELSE 0
      /\ sec.content = IF t[1] = "PAT" THEN Pat[v][n] ELSE {}
      /\ sec.table = CASE t[1] = "PAT" -> "PAT"
                       [] t[1] = "NIT" -> <<TableId(t), NitNet[v]>>
                       [] t[1] = "SDT" -> <<TableId(t), SdtNet[v]>>
                       [] OTHER -> t[2]
  BY DEF SectionOf
<1> HIDE DEF sec
<1>2. CASE t = <<"PAT", 0>>
  <2>1. t[1] = "PAT" /\ FilterOf(t) = "PAT" /\ n \in DOMAIN Pat[v]
    BY <1>2 DEF FilterOf, Numbers
  <2>2. /\ sec.table = "PAT" /\ sec.last = Cardinality(DOMAIN Pat[v]) - 1
        /\ sec.content = Pat[v][n]
    BY <1>1, <2>1
  <2> DEFINE c == Cardinality(DOMAIN Pat[v])
  <2>3. c \in Nat /\ n \in 0 .. (c - 1) /\ Pat[v][n] \subseteq Services \cup {NETWORK_ID_PROGRAM}
    BY <2>1, ServiceAssumption
  <2> HIDE DEF c
  <2>4. sec.last \in Nat /\ n \in 0 .. sec.last
    BY <2>2, <2>3 DEF c
  <2>5. sec.table \in Subtables("PAT")
    BY <2>2 DEF Subtables
  <2> QED
    BY <1>1, <1>2, <2>1, <2>2, <2>3, <2>4, <2>5, FiltersApart DEF SectionFor, sec
<1>3. CASE t[1] \in {"NIT", "SDT"}
  <2>1. FilterOf(t) = t[1] /\ n = 0 /\ TableId(t) \in {"actual", "other"}
    BY <1>3 DEF FilterOf, Numbers, TableId
  <2>2. sec.table \in {"actual", "other"} \X Nets /\ sec.last = 0 /\ sec.content = {}
    BY <1>1, <1>3, <2>1, ServiceAssumption
  <2>3. sec.table \in Subtables(t[1])
    BY <1>3, <2>2 DEF Subtables
  <2> QED
    BY <1>1, <1>3, <2>1, <2>2, <2>3, FiltersApart DEF SectionFor, sec
<1>4. CASE \E s \in Services : t = <<"PMT", s>>
  <2>1. PICK s \in Services : t = <<"PMT", s>>
    BY <1>4
  <2>2. t[1] = "PMT" /\ t[2] = s /\ FilterOf(t) = PidOf[s] /\ n = 0
    BY <2>1 DEF FilterOf, Numbers
  <2>3. sec.table = s /\ sec.last = 0 /\ sec.content = {}
    BY <1>1, <2>2
  <2>4. s \in Subtables(PidOf[s])
    BY FiltersApart DEF Subtables
  <2> QED
    BY <1>1, <2>2, <2>3, <2>4, FiltersApart DEF SectionFor, sec
<1>5. t = <<"PAT", 0>> \/ t[1] \in {"NIT", "SDT"} \/ \E s \in Services : t = <<"PMT", s>>
  <2>1. \/ t = <<"PAT", 0>> \/ t = <<"NIT", 0>> \/ t = <<"SDT", 0>>
        \/ \E k \in Others : t = <<k, 1>>
        \/ \E s \in Services : t = <<"PMT", s>>
    BY DEF Tables
  <2>2. ASSUME NEW k \in Others, t = <<k, 1>> PROVE t[1] \in {"NIT", "SDT"}
    <3>1. k \in {"NIT", "SDT"}
      BY ServiceAssumption
    <3> QED
      BY <2>2, <3>1
  <2>3. t = <<"NIT", 0>> \/ t = <<"SDT", 0>> => t[1] \in {"NIT", "SDT"}
    OBVIOUS
  <2> QED
    BY <2>1, <2>2, <2>3
<1> QED
  BY <1>2, <1>3, <1>4, <1>5

(* onStart, once nothing is left of before                                 *)
LEMMA StartDoes ==
  ASSUME NEW p, Sound(p), NEW m, ~p.running, ~p.ts
  PROVE  LET q == StartFilters([p EXCEPT !.running = TRUE], {"PAT"})
         IN  Sound(q) /\ q.running /\ (Faithful(p, m) => Faithful(q, m))
<1> DEFINE a == [p EXCEPT !.running = TRUE]
           q == StartFilters(a, {"PAT"})
<1>1. /\ a.running = TRUE /\ a.ready = p.ready /\ a.ts = p.ts /\ a.state = p.state
      /\ a.view = p.view /\ a.filters = p.filters /\ a.demux = p.demux
      /\ a.nitPID = p.nitPID
  BY DEF Sound, SpOK
<1>2. SpOK(a)
  <2>1. TRUE \in BOOLEAN
    OBVIOUS
  <2> QED
    BY <1>1, <2>1 DEF Sound, SpOK
<1> HIDE DEF a
<1>3. /\ SpOK(q) /\ SameServices(a, q) /\ q.nitPID = a.nitPID
      /\ q.filters = a.filters \cup {"PAT"}
      /\ \A f \in Filters : q.demux[f] = IF f \in {"PAT"} \ a.filters
                                           THEN NewDemuxer(Subtables(f)) ELSE a.demux[f]
  BY <1>2, StartFiltersDoes, FiltersApart
<1> HIDE DEF q
<1>4. /\ q.running = TRUE /\ q.ready = p.ready /\ q.ts = p.ts /\ q.state = p.state
      /\ q.view = p.view
  BY <1>1, <1>3 DEF SameServices
<1>5. Sound(q)
  <2>1. Listed(q) = Listed(p)
    BY <1>4 DEF Listed
  <2>2. FilterInv(q)
    BY <1>1, <1>3, <1>4, <2>1, FiltersApart DEF Sound, FilterInv
  <2> QED
    BY <1>3, <1>4, <2>2 DEF Sound, ReadyInv, IsReady
<1>6. ASSUME Faithful(p, m) PROVE Faithful(q, m)
  <2>1. "PAT" \notin p.filters
    BY DEF Sound, FilterInv
  <2>2. q.demux["PAT"] = NewDemuxer(Subtables("PAT"))
        /\ \A f \in PmtPids : q.demux[f] = p.demux[f]
    BY <1>1, <1>3, <2>1, FiltersApart
  <2>3. PatInv(q.demux["PAT"], q.ts)
    <3>1. q.ts = FALSE
      BY <1>4 DEF Sound, SpOK
    <3> QED
      BY <2>2, <3>1, NewIsFaithful
  <2>4. \A s \in Services : q.demux[PidOf[s]] = p.demux[PidOf[s]]
    BY <2>2, FiltersApart
  <2> QED
    BY <1>4, <1>6, <2>3, <2>4 DEF Faithful, InStep
<1> QED
  BY <1>4, <1>5, <1>6 DEF q, a

(* onStop                                                                  *)
LEMMA StopDoes ==
  ASSUME NEW p, Sound(p), NEW m
  PROVE  LET q == OnStop(p)
         IN  /\ Sound(q) /\ ~q.running /\ (Faithful(p, m) => Faithful(q, m))
             /\ q.ready = {} /\ Listed(q) = {} /\ q.queued = {}
             /\ ~q.ts /\ ~q.endScan /\ q.filters = {}
<1> DEFINE a == KillServices(p)
           b == [a EXCEPT !.queued = {}, !.endScan = FALSE, !.running = FALSE]
           q == StopFilters(b, {"PAT"})
<1>1. OnStop(p) = q
  BY DEF OnStop
<1>2. /\ Sound(a) /\ Killed(p, a) /\ a.ready = {} /\ ~a.ts
      /\ a.filters = p.filters \cap {"PAT"}
      /\ \A s \in Services : a.state[s] = "none"
  BY KillServicesDoes DEF Sound, Killed
<1> HIDE DEF a
<1>3. /\ b.running = FALSE /\ b.queued = {} /\ b.endScan = FALSE
      /\ b.ready = a.ready /\ b.ts = a.ts /\ b.state = a.state /\ b.view = a.view
      /\ b.filters = a.filters /\ b.demux = a.demux /\ b.nitPID = a.nitPID
  BY <1>2 DEF Sound, SpOK
<1>4. SpOK(b)
  <2>1. FALSE \in BOOLEAN /\ {} \subseteq Services
    OBVIOUS
  <2> QED
    BY <1>2, <1>3, <2>1 DEF Sound, SpOK
<1> HIDE DEF b
<1>5. /\ SpOK(q) /\ SameServices(b, q) /\ q.nitPID = b.nitPID
      /\ q.filters = b.filters \ {"PAT"}
      /\ \A f \in Filters : q.demux[f] = IF f \in {"PAT"}
                                           THEN NewDemuxer(Subtables(f)) ELSE b.demux[f]
  BY <1>4, StopFiltersDoes, FiltersApart
<1> HIDE DEF q
<1>6. /\ q.running = FALSE /\ q.ready = {} /\ ~q.ts /\ ~q.endScan /\ q.queued = {}
      /\ q.filters = {} /\ q.state = a.state /\ q.view = a.view
  BY <1>2, <1>3, <1>5 DEF SameServices
<1>7. Listed(q) = {}
  BY <1>2, <1>6 DEF Listed
<1>8. Sound(q)
  <2>1. ~a.nitPID
    BY <1>2 DEF Sound, FilterInv
  <2>2. FilterInv(q)
    BY <1>3, <1>5, <1>6, <1>7, <2>1 DEF FilterInv
  <2>3. ReadyInv(q)
    <3>1. \A s \in Services : q.state[s] = "none"
      BY <1>2, <1>6
    <3>2. ~IsReady(q)
      BY <1>6 DEF IsReady
    <3> QED
      BY <3>1, <3>2 DEF ReadyInv
  <2> QED
    BY <1>5, <2>2, <2>3 DEF Sound
<1>9. ASSUME Faithful(p, m) PROVE Faithful(q, m)
  <2>1. Faithful(a, m)
    BY <1>2, <1>9, KilledIsFaithful
  <2>2. q.demux["PAT"] = NewDemuxer(Subtables("PAT"))
        /\ \A s \in Services : q.demux[PidOf[s]] = a.demux[PidOf[s]]
    BY <1>3, <1>5, FiltersApart
  <2>3. PatInv(q.demux["PAT"], q.ts)
    <3>1. q.ts = FALSE
      BY <1>5, <1>6 DEF SpOK
    <3> QED
      BY <2>2, <3>1, NewIsFaithful
  <2> QED
    BY <1>6, <2>1, <2>2, <2>3 DEF Faithful, InStep
<1> QED
  BY <1>1, <1>6, <1>7, <1>8, <1>9

(* What has been asked for is nothing but a note.                          *)
LEMMA QueueIsSound ==
  ASSUME NEW p, Sound(p), NEW queued, queued \subseteq Services
  PROVE  LET q == [p EXCEPT !.queued = queued]
         IN  Sound(q) /\ Harmless(p, q)
<1> DEFINE q == [p EXCEPT !.queued = queued]
<1>1. SameTables(p, q) /\ q.ready = p.ready /\ q.state = p.state /\ q.view = p.view
  BY DEF Sound, SpOK, SameTables
<1>2. SpOK(q)
  BY DEF Sound, SpOK
<1> HIDE DEF q
<1>3. ServicesMove(p, q) /\ ReadyInv(q)
  BY <1>1, <1>2 DEF ServicesMove, Sound, ReadyInv, IsReady, InStep
<1> QED
  BY <1>1, <1>3, MoveIsSound DEF q
-----------------------------------------------------------------------------
(* The inductive invariant                                                 *)
SoundInv == TypeOK /\ Sound(sp) /\ StoppedIsClean /\ Faithful(sp, missed)

(* The receiver starts with nothing.                                       *)
LEMMA InitIsSound ==
  ASSUME Init
  PROVE  SoundInv
<1> DEFINE demux == [f \in Filters |-> NewDemuxer(Subtables(f))]
<1>1. /\ sp.running = FALSE /\ sp.ready = {} /\ sp.ts = FALSE /\ sp.nitPID = FALSE
      /\ sp.state = [s \in Services |-> "none"] /\ sp.queued = {}
      /\ sp.endScan = FALSE /\ sp.filters = {} /\ sp.demux = demux
      /\ sp.view = [s \in Services |-> "idle"]
  BY DEF Init, SpInit
<1>2. /\ demux = [f \in Filters |-> demux[f]]
      /\ \A f \in Filters : demux[f] \in Demuxers(f)
      /\ \A f \in Filters : demux[f].parsed \subseteq 0 .. demux[f].size - 1
  BY NewIsDemuxer
<1>3. \A f \in Filters : demux[f] = NewDemuxer(Subtables(f))
  OBVIOUS
<1> HIDE DEF demux
<1>4. SpOK(sp)
  <2>1. sp \in [running : BOOLEAN, ready : SUBSET Flags, ts : BOOLEAN,
                nitID : Nets \cup {NoNet}, nitPID : BOOLEAN,
                state : [Services -> ServiceStates], queued : SUBSET Services,
                endScan : BOOLEAN, filters : SUBSET Filters,
                demux : {sp.demux},
                view : [Services -> {"idle", "ready", "started", "confused"}]]
    BY DEF Init, SpInit
  <2> QED
    BY <1>1, <1>2, <2>1 DEF SpOK
<1>5. Listed(sp) = {}
  BY <1>1 DEF Listed
<1>6. Sound(sp)
  BY <1>1, <1>4, <1>5 DEF Sound, ReadyInv, IsReady, FilterInv
<1>7. TypeOK
  <2>1. /\ air \in [Tables -> [ver : Versions, next : BOOLEAN]]
        /\ missed \subseteq Filters /\ changes \in Nat
    BY VersionsAssumption DEF Init
  <2> QED
    BY <1>4, <2>1 DEF TypeOK
<1>8. StoppedIsClean
  BY <1>1, <1>5 DEF StoppedIsClean
<1>9. Faithful(sp, missed)
  <2>1. PatInv(sp.demux["PAT"], sp.ts)
    BY <1>1, <1>3, NewIsFaithful, FiltersApart
  <2>2. \A s \in Services : PmtInv(sp.demux[PidOf[s]], sp.state[s], s)
    BY <1>1, <1>3, NewIsFaithful, FiltersApart
  <2>3. \A s \in Services : InStep(sp, s)
    BY <1>1 DEF InStep, Shown
  <2> QED
    BY <2>1, <2>2, <2>3 DEF Faithful
<1> QED
  BY <1>6, <1>7, <1>8, <1>9 DEF SoundInv

(* A step of the running provider                                          *)
LEMMA RunningStep ==
  ASSUME SoundInv, sp.running, Sound(sp'), sp'.running,
         UNCHANGED <<air, changes>>, missed' \subseteq Filters,
         Faithful(sp', missed')
  PROVE  SoundInv'
<1>1. TypeOK'
  <2>1. SpOK(sp)'
    BY DEF Sound, SpOK
  <2> QED
    BY <2>1 DEF SoundInv, TypeOK
<1>2. StoppedIsClean'
  BY DEF StoppedIsClean
<1>3. Sound(sp)'
  BY DEF Sound, SpOK, ReadyInv, FilterInv, IsReady, Listed
<1>4. Faithful(sp, missed)'
  BY DEF Faithful, PatInv, PmtInv, InStep
<1> QED
  BY <1>1, <1>2, <1>3, <1>4 DEF SoundInv

(* Nothing comes through a filter unless the provider runs.                *)
LEMMA FilteredRuns ==
  ASSUME SoundInv, NEW f \in sp.filters
  PROVE  sp.running
BY DEF SoundInv, StoppedIsClean

(* What is received for the PAT is a section of a PAT.                     *)
LEMMA ReceivedOfPat ==
  ASSUME NEW t \in Tables, FilterOf(t) = "PAT",
         NEW v \in Versions, NEW apply \in BOOLEAN, NEW n \in Numbers(t, v)
  PROVE  OfPat(SectionOf(t, v, apply, n))
<1> DEFINE sec == SectionOf(t, v, apply, n)
<1>1. t[1] = "PAT"
  BY SectionsFit
<1>2. /\ sec.num = n /\ sec.ver = v /\ n \in DOMAIN Pat[v]
      /\ sec.last = Cardinality(DOMAIN Pat[v]) - 1
  BY <1>1 DEF SectionOf, Numbers
<1>3. (Cardinality(DOMAIN Pat[v]) - 1) + 1 = Cardinality(DOMAIN Pat[v])
  <2>1. Cardinality(DOMAIN Pat[v]) \in Nat
    BY ServiceAssumption
  <2> QED
    BY <2>1
<1> HIDE DEF sec
<1> QED
  BY <1>2, <1>3 DEF OfPat, sec

(* What more filters have spared is claimed of fewer services.             *)
LEMMA FaithfulOfMore ==
  ASSUME NEW p, NEW m, NEW n, m \subseteq n, Faithful(p, m)
  PROVE  Faithful(p, n)
BY DEF Faithful

(* Every step keeps the invariant: a section received,                     *)
LEMMA ReceiveKeeps ==
  ASSUME SoundInv, NEW t \in Tables, NEW v \in Versions, NEW apply \in BOOLEAN,
         NEW n \in SectionNumbers, Receive(t, v, apply, n)
  PROVE  SoundInv'
<1> DEFINE f == FilterOf(t)
           sec == SectionOf(t, v, apply, n)
<1>1. /\ f \in sp.filters /\ n \in Numbers(t, v)
      /\ sp' = Section(sp, f, sec) /\ UNCHANGED <<air, changes>>
      /\ missed' = IF NothingToExpire(sp, f, sec) THEN missed \cup {f} ELSE missed
  BY DEF Receive
<1>2. SectionFor(f, sec) /\ Sound(sp) /\ sp.running
  BY <1>1, SectionsFit, FilteredRuns DEF SoundInv
<1>3. Sound(sp') /\ sp'.running
  BY <1>1, <1>2, SectionIsSound
<1>4. f = "PAT" => OfPat(sec)
  BY <1>1, ReceivedOfPat
<1> HIDE DEF f, sec
<1>5. missed' \subseteq Filters /\ missed \subseteq missed'
  BY <1>1, <1>2 DEF SoundInv, TypeOK, Sound, SpOK
<1>6. Faithful(sp, missed')
  BY <1>5, FaithfulOfMore DEF SoundInv
<1>7. NothingToExpire(sp, f, sec) => f \in missed'
  BY <1>1
<1>8. Faithful(sp', missed')
  <2>1. CASE f = "PAT"
    BY <1>1, <1>2, <1>4, <1>6, <1>7, <2>1, PatIsFaithful
  <2>2. CASE f # "PAT"
    BY <1>1, <1>2, <1>6, <1>7, <2>2, OtherIsFaithful
  <2> QED
    BY <2>1, <2>2
<1> QED
  BY <1>1, <1>2, <1>3, <1>5, <1>8, RunningStep

(* ... a timeout of a filter (onPatTimeout, onTimeout, onPmtTimeout)       *)
LEMMA TimeoutKeeps ==
  ASSUME SoundInv, NEW f \in Filters, TimeoutExpired(f)
  PROVE  SoundInv'
<1>1. /\ f \in sp.filters /\ sp' = OnTimeout(sp, f) /\ UNCHANGED <<air, missed, changes>>
  BY DEF TimeoutExpired
<1>2. Sound(sp) /\ sp.running
  BY <1>1, FilteredRuns DEF SoundInv
<1>3. Sound(sp') /\ (Harmless(sp, sp') \/ Killed(sp, sp'))
  BY <1>1, <1>2, TimeoutIsSound
<1>4. sp'.running
  BY <1>2, <1>3 DEF Harmless, Killed
<1>5. Faithful(sp', missed)
  BY <1>3, HarmlessIsFaithful, KilledIsFaithful DEF SoundInv
<1>6. missed' = missed /\ missed \subseteq Filters
  BY <1>1 DEF SoundInv, TypeOK
<1>7. Faithful(sp', missed')
  BY <1>5, <1>6
<1> QED
  BY <1>1, <1>2, <1>3, <1>4, <1>6, <1>7, RunningStep

(* ... a change of what is on air                                          *)
LEMMA BroadcastKeeps ==
  ASSUME SoundInv, NEW t \in Tables, Announce(t) \/ Change(t)
  PROVE  SoundInv'
<1>1. sp' = sp /\ missed' = missed
  BY DEF Announce, Change
<1>2. air \in [Tables -> [ver : Versions, next : BOOLEAN]] /\ changes \in Nat
  BY DEF SoundInv, TypeOK
<1>3. PICK e \in [ver : Versions, next : BOOLEAN] :
        air' = [air EXCEPT ![t] = e] /\ changes' \in Nat
  <2>1. CASE Announce(t)
    <3>1. air' = [air EXCEPT ![t] = [air[t] EXCEPT !.next = TRUE]]
          /\ changes' \in Nat
      BY <1>2, <2>1 DEF Announce
    <3>2. [air[t] EXCEPT !.next = TRUE] \in [ver : Versions, next : BOOLEAN]
      <4>1. TRUE \in BOOLEAN
        OBVIOUS
      <4> QED
        BY <1>2, <4>1
    <3> QED
      BY <3>1, <3>2
  <2>2. CASE Change(t)
    <3> DEFINE e == [ver |-> NextVersion(air[t].ver), next |-> FALSE]
    <3>1. air' = [air EXCEPT ![t] = e] /\ changes' \in Nat
      BY <1>2, <2>2 DEF Change
    <3>2. NextVersion(air[t].ver) \in Versions /\ FALSE \in BOOLEAN
      BY <1>2, VersionsAssumption DEF NextVersion
    <3>3. e \in [ver : Versions, next : BOOLEAN]
      BY <3>2
    <3> HIDE DEF e
    <3> QED
      BY <3>1, <3>3
  <2> QED
    BY <2>1, <2>2
<1>4. air' \in [Tables -> [ver : Versions, next : BOOLEAN]]
  BY <1>2, <1>3
<1>5. TypeOK'
  BY <1>1, <1>3, <1>4 DEF SoundInv, TypeOK
<1>6. Sound(sp)' /\ StoppedIsClean'
  BY <1>1 DEF SoundInv, Sound, SpOK, ReadyInv, FilterInv, IsReady, Listed, StoppedIsClean
<1>7. Faithful(sp, missed)'
  BY <1>1 DEF SoundInv, Faithful, PatInv, PmtInv, InStep
<1> QED
  BY <1>5, <1>6, <1>7 DEF SoundInv

(* ... start, stop and the others                                          *)
LEMMA CommandKeeps ==
  ASSUME SoundInv, Commands
  PROVE  SoundInv'
<1>1. /\ Sound(sp) /\ Faithful(sp, missed) /\ missed \subseteq Filters
      /\ UNCHANGED <<air, missed, changes>>
  BY DEF SoundInv, TypeOK, Commands, Start, Stop, StopServices, StartService, StopService
<1>2. CASE Start
  <2>1. ~sp.running /\ ~sp.ts /\ sp' = StartFilters([sp EXCEPT !.running = TRUE], {"PAT"})
    BY <1>2 DEF Start, SoundInv, StoppedIsClean
  <2>2. Sound(sp') /\ sp'.running /\ Faithful(sp', missed)
    BY <1>1, <2>1, StartDoes
  <2>3. SpOK(sp)' /\ Sound(sp)' /\ StoppedIsClean'
    BY <2>2 DEF Sound, SpOK, ReadyInv, FilterInv, IsReady, Listed, StoppedIsClean
  <2>4. Faithful(sp, missed)'
    BY <1>1, <2>2 DEF Faithful, PatInv, PmtInv, InStep
  <2> QED
    BY <1>1, <2>3, <2>4 DEF SoundInv, TypeOK
<1>3. CASE Stop
  <2>1. sp' = OnStop(sp)
    BY <1>3 DEF Stop
  <2>2. /\ Sound(sp') /\ Faithful(sp', missed)
        /\ sp'.ready = {} /\ Listed(sp') = {} /\ sp'.queued = {}
        /\ ~sp'.ts /\ ~sp'.endScan /\ sp'.filters = {}
    BY <1>1, <2>1, StopDoes
  <2>3. SpOK(sp)' /\ Sound(sp)' /\ StoppedIsClean'
    BY <2>2 DEF Sound, SpOK, ReadyInv, FilterInv, IsReady, Listed, StoppedIsClean
  <2>4. Faithful(sp, missed)'
    BY <1>1, <2>2 DEF Faithful, PatInv, PmtInv, InStep
  <2> QED
    BY <1>1, <2>3, <2>4 DEF SoundInv, TypeOK
<1>4. ASSUME sp.running, Sound(sp'), Harmless(sp, sp')
      PROVE  SoundInv'
  <2>1. sp'.running
    BY <1>4 DEF Harmless
  <2>2. Faithful(sp', missed')
    BY <1>1, <1>4, HarmlessIsFaithful
  <2> QED
    BY <1>1, <1>4, <2>1, <2>2, RunningStep
<1>5. CASE StopServices
  <2> DEFINE q == OnStopService(sp, Services)
  <2>1. sp.running /\ sp' = [q EXCEPT !.queued = {}]
    BY <1>5 DEF StopServices
  <2>2. Sound(q) /\ Harmless(sp, q)
    BY <1>1, CommandsAreSound
  <2> HIDE DEF q
  <2>3. Sound(sp') /\ Harmless(q, sp')
    BY <2>1, <2>2, QueueIsSound
  <2> QED
    BY <1>4, <2>1, <2>2, <2>3, HarmlessTwice
<1>6. ASSUME NEW s \in Services, StartService(s)
      PROVE  SoundInv'
  <2>1. sp.running /\ sp' = OnStartServiceID(sp, s)
    BY <1>6 DEF StartService
  <2>2. Sound(sp') /\ Harmless(sp, sp')
    BY <1>1, <2>1, CommandsAreSound
  <2> QED
    BY <1>4, <2>1, <2>2
<1>7. ASSUME NEW s \in Services, StopService(s)
      PROVE  SoundInv'
  <2>1. sp.running
    BY <1>7 DEF StopService
  <2>2. CASE s \in Listed(sp)
    <3>1. sp' = OnStopService(sp, {s})
      BY <1>7, <2>2 DEF StopService
    <3>2. Sound(sp') /\ Harmless(sp, sp')
      BY <1>1, <3>1, CommandsAreSound
    <3> QED
      BY <1>4, <2>1, <3>2
  <2>3. CASE s \notin Listed(sp)
    <3>1. sp' = [sp EXCEPT !.queued = sp.queued \ {s}]
      BY <1>7, <2>3 DEF StopService, SoundInv, TypeOK, SpOK
    <3>2. sp.queued \ {s} \subseteq Services
      BY <1>1 DEF Sound, SpOK
    <3>3. Sound(sp') /\ Harmless(sp, sp')
      BY <1>1, <3>1, <3>2, QueueIsSound
    <3> QED
      BY <1>4, <2>1, <3>3
  <2> QED
    BY <2>2, <2>3
<1> QED
  BY <1>2, <1>3, <1>5, <1>6, <1>7 DEF Commands

(* The invariant is inductive.                                             *)
LEMMA NextKeeps ==
  ASSUME SoundInv, [Next]_vars
  PROVE  SoundInv'
<1>1. CASE Next
  BY <1>1, ReceiveKeeps, TimeoutKeeps, BroadcastKeeps, CommandKeeps DEF Next, Broadcast
<1>2. CASE UNCHANGED vars
  <2>1. sp' = sp /\ air' = air /\ missed' = missed /\ changes' = changes
    BY <1>2 DEF vars
  <2>2. TypeOK' /\ Sound(sp)' /\ StoppedIsClean'
    BY <2>1 DEF SoundInv, TypeOK, Sound, SpOK, ReadyInv, FilterInv, IsReady, Listed,
                StoppedIsClean
  <2>3. Faithful(sp, missed)'
    BY <2>1 DEF SoundInv, Faithful, PatInv, PmtInv, InStep
  <2> QED
    BY <2>2, <2>3 DEF SoundInv
<1> QED
  BY <1>1, <1>2
-----------------------------------------------------------------------------
(* SoundInv always holds.                                                  *)
LEMMA Always == Spec => []SoundInv
<1>1. Init => SoundInv
  BY InitIsSound
<1>2. SoundInv /\ [Next]_vars => SoundInv'
  BY NextKeeps
<1> QED
  BY <1>1, <1>2, PTL DEF Spec

(* Every member of ServiceProvider, of its demuxers and of the broadcast   *)
(* has its type, and no demuxer notes a section beyond its vector          *)
(* (_secsParsed in PSIDemuxer::parseSection).                              *)
THEOREM Types == Spec => []TypeOK
<1>1. SoundInv => TypeOK
  BY DEF SoundInv
<1> QED
  BY <1>1, Always, PTL

(* ServiceProvider::setFlags, serviceChanged and onStartServiceID leave a  *)
(* service ready or running only while all tables are there, and then none *)
(* that has its PMT is passed over.                                        *)
THEOREM ReadyIsExact == Spec => []ReadyExactly
<1>1. SoundInv => ReadyExactly
  BY DEF SoundInv, Sound, ReadyInv, ReadyExactly
<1> QED
  BY <1>1, Always, PTL

(* The filters set by ServiceProvider::onPat, onNit, stopNit and           *)
(* killServices are always those the list of services accounts for.        *)
THEOREM FiltersAreAccounted == Spec => []FiltersAccounted
<1>1. SoundInv => FiltersAccounted
  BY DEF SoundInv, Sound, FilterInv, FiltersAccounted
<1> QED
  BY <1>1, Always, PTL

(* ServiceProvider::onStop leaves nothing behind, as onStart asserts.      *)
THEOREM StopLeavesNothing == Spec => []StoppedIsClean
<1>1. SoundInv => StoppedIsClean
  BY DEF SoundInv
<1> QED
  BY <1>1, Always, PTL

(* Extensions (exServiceReady, Started, Stopped, Expired) know of each     *)
(* service that has its pid for itself whether it is ready and whether it  *)
(* runs, unless an announced PAT or PMT has spared it (PSIDemuxer::expire).*)
THEOREM ExtensionsKnow == Spec => []ExtensionsInStep
<1>1. SoundInv => ExtensionsInStep
  BY DEF SoundInv, Faithful, InStep, ExtensionsInStep
<1> QED
  BY <1>1, Always, PTL

(* The assertion of ServiceProvider::onPat, that there are no services,    *)
(* holds whatever becomes of the PAT and however many sections it has,     *)
(* unless an announced PAT has spared them.                                *)
THEOREM PatAssertionHolds == Spec => []PatFindsNoServices
<1>1. ASSUME SoundInv PROVE PatFindsNoServices
  <2> DEFINE t == <<"PAT", 0>>
  <2> DEFINE q(v, apply, n) == VersionSeen(sp, "PAT", SectionOf(t, v, apply, n))
  <2> SUFFICES ASSUME NEW v \in Versions, NEW apply \in BOOLEAN, NEW n \in Numbers(t, v),
                      "PAT" \in sp.filters \ missed,
                      n \notin q(v, apply, n).demux["PAT"].parsed,
                      Completes(q(v, apply, n).demux["PAT"], SectionOf(t, v, apply, n)),
                      q(v, apply, n).ts
               PROVE  FALSE
    BY DEF PatFindsNoServices
  <2> DEFINE sec == SectionOf(t, v, apply, n)
             e == q(v, apply, n).demux["PAT"]
             ts == q(v, apply, n).ts
  <2>1. t \in Tables /\ FilterOf(t) = "PAT"
    BY DEF Tables, FilterOf
  <2>2. SectionFor("PAT", sec) /\ OfPat(sec) /\ sec.num = n
    BY <2>1, SectionsFit, ReceivedOfPat DEF SectionOf
  <2>3. Sound(sp) /\ PatInv(sp.demux["PAT"], sp.ts)
    BY <1>1 DEF SoundInv, Faithful
  <2>4. CASE NothingToExpire(sp, "PAT", sec)
    <3>1. ~sp.ts
      BY <2>4, FiltersApart DEF NothingToExpire
    <3>2. ~ts
      BY <2>2, <2>3, <3>1, VersionSeenDoes
    <3> QED
      BY <3>2
  <2>5. CASE ~NothingToExpire(sp, "PAT", sec)
    <3>1. /\ PatInv(e, ts)
          /\ \/ e.version["PAT"] = sec.ver
             \/ e.parsed # {} /\ e.parsed = DOMAIN Pat[e.version["PAT"]]
      BY <2>2, <2>3, <2>5, PatSeen
    <3>2. Fits(e, sec) /\ sec.num \notin e.parsed
      BY <2>2 DEF Completes
    <3> HIDE DEF e, ts, sec
    <3>3. ~ts
      BY <2>2, <3>1, <3>2, PatLacked
    <3> QED
      BY <3>3 DEF ts
  <2> QED
    BY <2>4, <2>5
<1> QED
  BY <1>1, Always, PTL
==============================================================================
