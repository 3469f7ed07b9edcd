-------------------------- MODULE ApplicationsProofs --------------------------
(***************************************************************************)
(* What holds of Applications for any applications, priorities and number  *)
(* of processes, and at any time: types, what the Spawner runs and owns,   *)
(* that the removed leave nothing behind, and that the AIT factory knows   *)
(* the applications there are.                                             *)
(*                                                                         *)
(* The lemmas follow the operators from the inside: the lists of the       *)
(* Spawner, the record updates, the methods of an application, a job, an   *)
(* action.  After a failed assertion only types are claimed, so each says  *)
(* first what is always kept and then what is kept unless broken.          *)
(***************************************************************************)
EXTENDS Applications, FiniteSetTheorems, SequenceTheorems, WellFoundedInduction,
        TLAPS

Statuses == {"absent", "unmounted", "mounted", "waiting", "starting", "started"}

Conns == {"none", "waiting", "connected", "lost", "over"}

Members ==
  [status : [Apps -> Statuses],
   mounted : SUBSET Apps, autoStart : SUBSET Apps,
   download : SUBSET (Apps \ Local), streams : SUBSET (Apps \ Local),
   procs : Seq(Apps), live : SUBSET Apps, conn : [Apps -> Conns],
   tasks : Seq({"started", "stop"} \X Apps),
   enabled : BOOLEAN, service : BOOLEAN,
   code : [Apps -> CtrlCodes \cup {NoCode}], broken : BOOLEAN]

(* The members have their types and a process is that of an item.          *)
Typed(p) == p \in Members /\ p.live \subseteq Items(p)

(* The Spawner has one item of an application, which is then waiting,      *)
(* starting or started; only it has a connector; one that is starting has  *)
(* a process and a connector.                                              *)
Slot(p, a) ==
  /\ a \in Items(p) => IsRunning(p, a)
  /\ p.conn[a] # "none" => a \in Items(p)
  /\ p.status[a] = "starting" => a \in p.live /\ p.conn[a] # "none"

OwnedBut(p, as) == IsInjective(p.procs) /\ \A a \in Apps \ as : Slot(p, a)

Owned(p) == OwnedBut(p, {})

(* No more run than may, and none that waits is more urgent.               *)
Ordered(p) ==
  /\ Cardinality(p.live) <= MaxParallel
  /\ p.enabled => \A q \in Queued(p), a \in p.live : Priority[a] >= Priority[q]

(* None waits in vain.                                                     *)
Full(p) == Queued(p) = {} \/ Cardinality(p.live) = MaxParallel

Settled(p) == IF p.enabled THEN Full(p) ELSE p.live = {}

Urgent(p) == Ordered(p) /\ Settled(p)

(* The Spawner is settled but for an application that it has let go of.    *)
Freed(p, a) ==
  /\ OwnedBut(p, {a}) /\ a \notin Items(p) /\ p.conn[a] = "none"
  /\ Urgent(p)

(* The value of a becomes v.                                               *)
Put(old, new, a, v) == new[a] = v /\ \A b \in Apps \ {a} : new[b] = old[b]

(* What the media leave alone, and what the Spawner does                   *)
SameSpawner(p, q) ==
  /\ q.status = p.status /\ q.procs = p.procs /\ q.live = p.live
  /\ q.conn = p.conn /\ q.enabled = p.enabled /\ q.broken = p.broken

SameMedia(p, q) ==
  /\ q.mounted = p.mounted /\ q.autoStart = p.autoStart
  /\ q.download = p.download /\ q.code = p.code
  /\ q.enabled = p.enabled /\ q.service = p.service

(* Only of those present is there anything, and the local ones are there   *)
(* mounted.                                                                *)
Clean(p) ==
  /\ p.download \cup p.streams \cup p.mounted \subseteq Present(p)
  /\ Local \cap Present(p) \subseteq p.mounted

Sound(p) == Owned(p) /\ Clean(p) /\ Urgent(p)

(* A method of an application is about this one; nothing more is received  *)
(* without the service.                                                    *)
Apart(p, q, a) ==
  /\ q.enabled = p.enabled /\ q.service = p.service /\ q.code = p.code
  /\ Present(q) \ {a} = Present(p) \ {a}
  /\ q.mounted \ {a} = p.mounted \ {a}
  /\ q.download \ {a} = p.download \ {a} /\ q.streams \ {a} = p.streams \ {a}
  /\ ~p.service =>
       q.download \subseteq p.download /\ q.streams \subseteq p.streams

(* Where a list of jobs is left: l.                                        *)
JobsOf(l, kind) == {a \in Apps : \E i \in DOMAIN l : l[i] = <<kind, a>>}

Switched(l) == l # <<>> /\ Head(l)[1] = "enable"

(* While the Spawner is switched there are turns left for all that wait,   *)
(* or for all that run.                                                    *)
EnableInv(p, l) ==
  IF Switched(l)
    THEN /\ \A i \in DOMAIN l : l[i][1] = "enable"
         /\ p.enabled =>
              Full(p) \/ Cardinality(p.live) + Len(l) >= Len(p.procs)
         /\ ~p.enabled => p.live \subseteq JobsOf(l, "enable")
    ELSE JobsOf(l, "enable") = {} /\ Settled(p)

(* An application is added once, and not before it is removed.             *)
AddedLast(l) ==
  \A i, j \in DOMAIN l :
    /\ l[i][1] = "add" /\ l[j][1] \in {"add", "remove"}
    /\ l[i][2] = l[j][2]
    => j <= i

JobInv(p, l) ==
  /\ AddedLast(l)
  /\ JobsOf(l, "add") \cap Present(p) \subseteq JobsOf(l, "remove")

(* What the AIT factory remembers is there but for the jobs left.          *)
CodeInv(p, l) ==
  \A a \in Apps :
    IF a \in Local THEN p.code[a] = NoCode /\ a \notin JobsOf(l, "download")
      ELSE /\ a \in JobsOf(l, "add") => p.service /\ p.code[a] # NoCode
           /\ a \in JobsOf(l, "remove") => p.code[a] = NoCode
           /\ a \notin JobsOf(l, "add") \cup JobsOf(l, "remove") =>
                (p.code[a] # NoCode <=> a \in Present(p))

(* What the service has left behind is taken away by the jobs left.        *)
ServiceInv(p, l) ==
  ~p.service =>
    /\ p.download \cup p.streams \subseteq
         JobsOf(l, "remove") \cup JobsOf(l, "stopDownload")
    /\ Bound \cap Present(p) \subseteq JobsOf(l, "remove")

Coherent(p, l) ==
  /\ Owned(p) /\ Clean(p) /\ Ordered(p)
  /\ EnableInv(p, l) /\ JobInv(p, l) /\ CodeInv(p, l) /\ ServiceInv(p, l)

(* What this is when no job is left                                        *)
Quiet(p) ==
  /\ Sound(p)
  /\ \A a \in Apps : IF a \in Local THEN p.code[a] = NoCode
                     ELSE p.code[a] # NoCode <=> a \in Present(p)
  /\ ~p.service =>
       p.download = {} /\ p.streams = {} /\ Bound \cap Present(p) = {}

IInv ==
  /\ Typed(app)
  /\ todo \in Seq(JobKinds \X Apps) /\ events \in Nat
  /\ ~app.broken => Coherent(app, todo)
-----------------------------------------------------------------------------
(* A set of numbers has a least one.                                       *)
LEMMA LeastOf ==
  ASSUME NEW T, T \subseteq Nat, T # {}
  PROVE  \E x \in T : \A y \in T : x <= y
<1> DEFINE R == OpToRel(<, Nat)
<1>1. IsWellFoundedOn(R, Nat)
  BY NatLessThanWellFounded
<1> HIDE DEF R
<1>2. PICK x \in T : \A y \in T : ~(<<y, x>> \in R)
  BY <1>1, WFMin
<1>3. \A y \in T : ~(y < x)
  BY <1>2 DEF R, OpToRel
<1> QED
  BY <1>3

(* Sets of applications are finite.                                        *)
LEMMA Finite ==
  ASSUME NEW S, S \subseteq Apps
  PROVE  IsFiniteSet(S) /\ Cardinality(S) \in Nat
BY FS_Subset, FS_CardinalityType, ApplicationsAssumption

(* Of some applications one has the greatest value: otherwise take the     *)
(* smallest set of which none has.                                         *)
LEMMA Greatest ==
  ASSUME NEW f \in [Apps -> Int], NEW S, S \subseteq Apps, S # {}
  PROVE  \E m \in S : \A b \in S : f[b] <= f[m]
<1> DEFINE Has(X) == \E m \in X : \A b \in X : f[b] <= f[m]
           Bad == {n \in Nat : \E X \in SUBSET Apps :
                                 X # {} /\ Cardinality(X) = n /\ ~Has(X)}
<1>1. SUFFICES ASSUME ~Has(S) PROVE FALSE
  OBVIOUS
<1>2. Cardinality(S) \in Bad
  BY <1>1, Finite
<1>3. PICK n \in Bad : \A k \in Bad : n <= k
  BY <1>2, LeastOf
<1>4. PICK X \in SUBSET Apps : X # {} /\ Cardinality(X) = n /\ ~Has(X)
  BY <1>3
<1>5. PICK x \in X : TRUE
  BY <1>4
<1> DEFINE Y == X \ {x}
<1>6. Cardinality(Y) = n - 1 /\ Cardinality(Y) \in Nat
  BY <1>4, <1>5, Finite, FS_RemoveElement
<1>7. Y # {} => Has(Y)
  <2>1. SUFFICES ASSUME Y # {}, ~Has(Y) PROVE FALSE
    OBVIOUS
  <2>2. Y \in SUBSET Apps /\ Cardinality(Y) \in Bad
    BY <1>6, <2>1
  <2>3. n <= Cardinality(Y) /\ n \in Nat
    BY <1>3, <2>2
  <2> HIDE DEF Y
  <2> QED
    BY <1>6, <2>3
<1>8. CASE Y = {}
  <2>1. X = {x}
    BY <1>5, <1>8
  <2> QED
    BY <1>4, <2>1
<1>9. CASE Y # {}
  <2>1. PICK m \in Y : \A b \in Y : f[b] <= f[m]
    BY <1>7, <1>9
  <2>2. f[x] \in Int /\ f[m] \in Int /\ \A b \in X : f[b] \in Int
    OBVIOUS
  <2>3. CASE f[x] <= f[m]
    <3>1. \A b \in X : f[b] <= f[m]
      BY <2>1, <2>3
    <3> QED
      BY <1>4, <2>1, <3>1
  <2>4. CASE ~(f[x] <= f[m])
    <3>1. \A b \in X : f[b] <= f[x]
      BY <2>1, <2>2, <2>4
    <3> QED
      BY <1>4, <1>5, <3>1
  <2> QED
    BY <2>3, <2>4
<1> QED
  BY <1>8, <1>9
-----------------------------------------------------------------------------
(* The lists of the Spawner *)

(* What is in a list has a position in it.                                 *)
LEMMA PositionIn ==
  ASSUME NEW p, p \in Members, NEW a \in Items(p)
  PROVE  /\ Position(p, a) \in DOMAIN p.procs
         /\ Position(p, a) \in 1 .. Len(p.procs)
         /\ p.procs[Position(p, a)] = a
<1>1. p.procs \in Seq(Apps)
  BY DEF Members
<1>2. DOMAIN p.procs = 1 .. Len(p.procs)
  BY <1>1
<1>3. \E i \in DOMAIN p.procs : p.procs[i] = a
  BY DEF Items, ToSet
<1>4. /\ Position(p, a) \in DOMAIN p.procs
      /\ p.procs[Position(p, a)] = a
  BY <1>3 DEF Position
<1> QED
  BY <1>2, <1>4

(* Items are applications.                                                 *)
LEMMA ItemsAreApps ==
  ASSUME NEW p, p \in Members
  PROVE  Items(p) \subseteq Apps
<1>1. p.procs \in Seq(Apps)
  BY DEF Members
<1> QED
  BY <1>1 DEF Items, ToSet

(* Of some applications one comes first by two values.                     *)
LEMMA LeastPair ==
  ASSUME NEW f \in [Apps -> Int], NEW g \in [Apps -> Int],
         NEW S, S \subseteq Apps, S # {}
  PROVE  \E m \in S : \A b \in S : f[m] < f[b] \/ (f[m] = f[b] /\ g[m] <= g[b])
<1> DEFINE nf == [a \in Apps |-> 0 - f[a]]
           ng == [a \in Apps |-> 0 - g[a]]
<1>1. /\ nf \in [Apps -> Int] /\ ng \in [Apps -> Int]
      /\ \A b \in S : nf[b] = 0 - f[b] /\ ng[b] = 0 - g[b]
      /\ \A b \in S : f[b] \in Int /\ g[b] \in Int
  OBVIOUS
<1> HIDE DEF nf, ng
<1>2. PICK k \in S : \A b \in S : nf[b] <= nf[k]
  BY <1>1, Greatest
<1>3. \A b \in S : f[k] <= f[b]
  BY <1>1, <1>2
<1> DEFINE T == {b \in S : f[b] = f[k]}
<1>4. T \subseteq Apps /\ T # {}
  OBVIOUS
<1> HIDE DEF T
<1>5. PICK m \in T : \A b \in T : ng[b] <= ng[m]
  BY <1>1, <1>4, Greatest
<1>6. /\ m \in S /\ f[m] = f[k]
      /\ \A b \in S : f[b] = f[k] => g[m] <= g[b]
  BY <1>1, <1>5 DEF T
<1>7. ASSUME NEW b \in S PROVE f[m] < f[b] \/ (f[m] = f[b] /\ g[m] <= g[b])
  <2>1. f[b] \in Int /\ f[k] \in Int /\ f[k] <= f[b] /\ f[m] = f[k]
    BY <1>1, <1>3, <1>6
  <2>2. CASE f[b] = f[k]
    BY <1>6, <2>2
  <2>3. CASE f[b] # f[k]
    <3>1. \A x, y \in Int : y <= x /\ x # y => y < x
      OBVIOUS
    <3>2. f[k] < f[b]
      BY <2>1, <2>3, <3>1
    <3> HIDE DEF T
    <3> QED
      BY <2>1, <3>2
  <2> QED
    BY <2>2, <2>3
<1> QED
  BY <1>6, <1>7

(* MinTaskFinder finds the least urgent of some items.                     *)
LEMMA MinTaskIs ==
  ASSUME NEW p, p \in Members, NEW S, S \subseteq Items(p), S # {}
  PROVE  /\ MinTask(p, S) \in S
         /\ \A b \in S : Priority[MinTask(p, S)] <= Priority[b]
<1>1. S \subseteq Apps
  BY ItemsAreApps
<1>2. \A b \in S : Priority[b] \in Nat /\ Position(p, b) \in Nat
  BY <1>1, PositionIn, ApplicationsAssumption
<1> DEFINE f == [a \in Apps |-> Priority[a]]
           g == [a \in Apps |-> IF a \in S THEN Position(p, a) ELSE 0]
<1>3. f \in [Apps -> Int] /\ g \in [Apps -> Int]
  BY <1>2, ApplicationsAssumption
<1>4. \A b \in S : f[b] = Priority[b] /\ g[b] = Position(p, b)
  BY <1>1
<1> HIDE DEF f, g
<1>5. PICK m \in S : \A b \in S : f[m] < f[b] \/ (f[m] = f[b] /\ g[m] <= g[b])
  <2>1. S \subseteq Apps /\ S # {} /\ f \in [Apps -> Int] /\ g \in [Apps -> Int]
    BY <1>1, <1>3
  <2> QED
    BY <2>1, LeastPair, SMTT(30)
<1>6. \A b \in S : \/ Priority[m] < Priority[b]
                   \/ Priority[m] = Priority[b] /\ Position(p, m) <= Position(p, b)
  BY <1>4, <1>5
<1>7. /\ MinTask(p, S) \in S
      /\ \A b \in S :
           \/ Priority[MinTask(p, S)] < Priority[b]
           \/ /\ Priority[MinTask(p, S)] = Priority[b]
              /\ Position(p, MinTask(p, S)) <= Position(p, b)
  BY <1>6 DEF MinTask
<1> QED
  BY <1>2, <1>7

(* MaxTaskFinder finds the most urgent of some items.                     *)
LEMMA MaxTaskIs ==
  ASSUME NEW p, p \in Members, NEW S, S \subseteq Items(p), S # {}
  PROVE  /\ MaxTask(p, S) \in S
         /\ \A b \in S : Priority[MaxTask(p, S)] >= Priority[b]
<1>1. S \subseteq Apps
  BY ItemsAreApps
<1>2. \A b \in S : Priority[b] \in Nat /\ Position(p, b) \in Nat
  BY <1>1, PositionIn, ApplicationsAssumption
<1> DEFINE f == [a \in Apps |-> 0 - Priority[a]]
           g == [a \in Apps |-> IF a \in S THEN Position(p, a) ELSE 0]
<1>3. f \in [Apps -> Int] /\ g \in [Apps -> Int]
  BY <1>2, ApplicationsAssumption
<1>4. \A b \in S : f[b] = 0 - Priority[b] /\ g[b] = Position(p, b)
  BY <1>1
<1> HIDE DEF f, g
<1>5. PICK m \in S : \A b \in S : f[m] < f[b] \/ (f[m] = f[b] /\ g[m] <= g[b])
  <2>1. S \subseteq Apps /\ S # {} /\ f \in [Apps -> Int] /\ g \in [Apps -> Int]
    BY <1>1, <1>3
  <2> QED
    BY <2>1, LeastPair, SMTT(30)
<1>6. \A b \in S : \/ Priority[m] > Priority[b]
                   \/ Priority[m] = Priority[b] /\ Position(p, m) <= Position(p, b)
  BY <1>2, <1>4, <1>5
<1>7. /\ MaxTask(p, S) \in S
      /\ \A b \in S :
           \/ Priority[MaxTask(p, S)] > Priority[b]
           \/ /\ Priority[MaxTask(p, S)] = Priority[b]
              /\ Position(p, MaxTask(p, S)) <= Position(p, b)
  BY <1>6 DEF MaxTask
<1> QED
  BY <1>2, <1>7

(* An item put at the end                                                  *)
LEMMA Appended ==
  ASSUME NEW s, s \in Seq(Apps), NEW a \in Apps
  PROVE  /\ Append(s, a) \in Seq(Apps)
         /\ ToSet(Append(s, a)) = ToSet(s) \cup {a}
         /\ a \notin ToSet(s) /\ IsInjective(s) => IsInjective(Append(s, a))
<1> DEFINE t == Append(s, a)
<1>1. /\ t \in Seq(Apps) /\ Len(t) = Len(s) + 1 /\ Len(s) \in Nat
      /\ DOMAIN t = 1 .. Len(t) /\ DOMAIN s = 1 .. Len(s)
      /\ \A i \in 1 .. Len(s) : t[i] = s[i]
      /\ t[Len(s) + 1] = a
  OBVIOUS
<1> HIDE DEF t
<1>2. ToSet(t) = ToSet(s) \cup {a}
  <2>1. \A x \in ToSet(s) \cup {a} : \E i \in DOMAIN t : t[i] = x
    BY <1>1 DEF ToSet
  <2>2. \A i \in DOMAIN t : t[i] \in ToSet(s) \cup {a}
    BY <1>1 DEF ToSet
  <2> QED
    BY <2>1, <2>2 DEF ToSet
<1>3. ASSUME a \notin ToSet(s), IsInjective(s) PROVE IsInjective(t)
  <2>1. SUFFICES ASSUME NEW i \in DOMAIN t, NEW j \in DOMAIN t, t[i] = t[j]
                 PROVE  i = j
    BY DEF IsInjective
  <2>2. \A k \in 1 .. Len(s) : s[k] # a
    BY <1>1, <1>3 DEF ToSet
  <2>3. \A k \in DOMAIN t : k \in 1 .. Len(s) \/ k = Len(s) + 1
    BY <1>1
  <2>4. \A k, l \in 1 .. Len(s) : s[k] = s[l] => k = l
    BY <1>1, <1>3 DEF IsInjective
  <2> QED
    BY <1>1, <2>1, <2>2, <2>3, <2>4
<1> QED
  BY <1>1, <1>2, <1>3 DEF t

(* An item taken out                                                       *)
LEMMA Removed ==
  ASSUME NEW s, s \in Seq(Apps), IsInjective(s), NEW k \in 1 .. Len(s)
  PROVE  /\ RemoveAt(s, k) \in Seq(Apps)
         /\ ToSet(RemoveAt(s, k)) = ToSet(s) \ {s[k]}
         /\ IsInjective(RemoveAt(s, k))
<1> DEFINE n == Len(s)
           t == RemoveAt(s, k)
           From(i) == IF i < k THEN i ELSE i + 1
<1>1. n \in Nat /\ DOMAIN s = 1 .. n /\ k \in 1 .. n
  OBVIOUS
<1>2. /\ t \in Seq(Apps) /\ Len(t) = n - 1
      /\ DOMAIN t = 1 .. n - 1
      /\ \A i \in 1 .. n - 1 : t[i] = s[From(i)]
  <2> DEFINE u == SubSeq(s, 1, k - 1)
             v == SubSeq(s, k + 1, n)
  <2>1. \A i \in 1 .. n : s[i] \in Apps
    OBVIOUS
  <2>2. /\ u \in Seq(Apps) /\ Len(u) = k - 1
        /\ \A i \in 1 .. k - 1 : u[i] = s[i]
    <3>1. 1 \in Int /\ k - 1 \in Int /\ \A i \in 1 .. k - 1 : s[i] \in Apps
      BY <1>1, <2>1
    <3>2. /\ u \in Seq(Apps) /\ Len(u) = IF 1 <= k - 1 THEN k - 1 - 1 + 1 ELSE 0
          /\ \A i \in 1 .. k - 1 - 1 + 1 : u[i] = s[1 + i - 1]
      BY ONLY <3>1, SubSeqProperties
    <3> HIDE DEF u
    <3> QED
      BY <1>1, <3>2
  <2>3. /\ v \in Seq(Apps) /\ Len(v) = n - k
        /\ \A i \in 1 .. n - k : v[i] = s[k + i]
    <3>1. k + 1 \in Int /\ n \in Int /\ \A i \in k + 1 .. n : s[i] \in Apps
      BY <1>1, <2>1
    <3>2. /\ v \in Seq(Apps)
          /\ Len(v) = IF k + 1 <= n THEN n - (k + 1) + 1 ELSE 0
          /\ \A i \in 1 .. n - (k + 1) + 1 : v[i] = s[k + 1 + i - 1]
      BY ONLY <3>1, SubSeqProperties
    <3> HIDE DEF v
    <3>3. Len(v) = n - k
      <4>1. CASE k + 1 <= n
        BY <1>1, <3>2, <4>1
      <4>2. CASE ~(k + 1 <= n)
        <5>1. \A x, y \in Int : y <= x /\ ~(y + 1 <= x) => x - y = 0
          OBVIOUS
        <5>2. n \in Int /\ k \in Int /\ k <= n
          BY <1>1
        <5>3. n - k = 0
          BY <4>2, <5>1, <5>2
        <5> QED
          BY <3>2, <4>2, <5>3
      <4> QED
        BY <4>1, <4>2
    <3>4. \A i \in 1 .. n - k : i \in 1 .. n - (k + 1) + 1 /\ k + 1 + i - 1 = k + i
      BY <1>1
    <3> QED
      BY <3>2, <3>3, <3>4
  <2> HIDE DEF u, v
  <2>4. /\ t \in Seq(Apps) /\ Len(t) = n - 1 /\ DOMAIN t = 1 .. n - 1
        /\ \A i \in 1 .. n - 1 : t[i] = IF i < k THEN u[i] ELSE v[i - (k - 1)]
    <3>1. t = u \o v
      BY DEF RemoveAt, u, v
    <3>2. /\ u \o v \in Seq(Apps) /\ Len(u \o v) = Len(u) + Len(v)
          /\ \A i \in 1 .. Len(u) + Len(v) :
               (u \o v)[i] = IF i <= Len(u) THEN u[i] ELSE v[i - Len(u)]
      BY <2>2, <2>3, ConcatProperties
    <3> HIDE DEF t
    <3>3. t \in Seq(Apps) /\ Len(t) = n - 1
      BY <1>1, <2>2, <2>3, <3>1, <3>2
    <3>4. \A i \in 1 .. n - 1 : t[i] = IF i < k THEN u[i] ELSE v[i - (k - 1)]
      BY <1>1, <2>2, <2>3, <3>1, <3>2
    <3> QED
      BY <1>1, <3>3, <3>4
  <2>5. ASSUME NEW i \in 1 .. n - 1 PROVE t[i] = s[From(i)]
    <3>1. CASE i < k
      <4>1. i \in 1 .. k - 1
        BY <1>1, <3>1
      <4> QED
        BY <2>2, <2>4, <3>1, <4>1
    <3>2. CASE ~(i < k)
      <4>1. i - (k - 1) \in 1 .. n - k /\ k + (i - (k - 1)) = i + 1
        BY <1>1, <3>2
      <4>2. v[i - (k - 1)] = s[k + (i - (k - 1))]
        BY <2>3, <4>1
      <4> QED
        BY <2>4, <3>2, <4>1, <4>2
    <3> QED
      BY <3>1, <3>2
  <2> QED
    BY <2>4, <2>5
<1> HIDE DEF t, n
<1>3. \A i \in 1 .. n - 1 : From(i) \in 1 .. n /\ From(i) # k
  BY <1>1
<1>4. \A i, j \in 1 .. n - 1 : From(i) = From(j) => i = j
  BY <1>1
<1>5. \A j \in 1 .. n : j # k => \E i \in 1 .. n - 1 : From(i) = j
  <2> SUFFICES ASSUME NEW j \in 1 .. n, j # k
               PROVE  \E i \in 1 .. n - 1 : From(i) = j
    OBVIOUS
  <2>1. CASE j < k
    <3>1. j \in 1 .. n - 1 /\ From(j) = j
      BY <1>1, <2>1
    <3> QED
      BY <3>1
  <2>2. CASE j > k
    <3>1. j - 1 \in 1 .. n - 1 /\ From(j - 1) = j
      BY <1>1, <2>2
    <3> QED
      BY <3>1
  <2> QED
    BY <1>1, <2>1, <2>2
<1> HIDE DEF From
<1>6. \A i, j \in 1 .. n : s[i] = s[j] => i = j
  BY <1>1 DEF IsInjective
<1>7. IsInjective(t)
  BY <1>2, <1>3, <1>4, <1>6 DEF IsInjective
<1>8. ToSet(t) = ToSet(s) \ {s[k]}
  <2>1. \A i \in 1 .. n - 1 : t[i] \in ToSet(s) \ {s[k]}
    BY <1>1, <1>2, <1>3, <1>6 DEF ToSet
  <2>2. ASSUME NEW x \in ToSet(s) \ {s[k]} PROVE \E i \in 1 .. n - 1 : t[i] = x
    <3>1. PICK j \in 1 .. n : s[j] = x
      BY <1>1 DEF ToSet
    <3>2. PICK i \in 1 .. n - 1 : From(i) = j
      BY <1>5, <3>1
    <3> QED
      BY <1>2, <3>1, <3>2
  <2>3. ToSet(t) = {t[i] : i \in 1 .. n - 1}
    BY <1>2 DEF ToSet
  <2> QED
    BY <2>1, <2>2, <2>3
<1> QED
  BY <1>2, <1>7, <1>8 DEF t
-----------------------------------------------------------------------------
(* The record updates *)

(* Without its connector an application is as before.                      *)
LEMMA DropConnectorIs ==
  ASSUME NEW p, p \in Members, NEW a \in Apps
  PROVE  LET q == DropConnector(p, a)
         IN  /\ q \in Members /\ SameMedia(p, q)
             /\ Put(p.conn, q.conn, a, "none")
             /\ q.status = p.status /\ q.streams = p.streams
             /\ q.procs = p.procs /\ q.live = p.live /\ q.broken = p.broken
<1> DEFINE t == IF p.conn[a] \in {"connected", "lost"}
                  THEN Append(p.tasks, <<"stop", a>>) ELSE p.tasks
           c == [p.conn EXCEPT ![a] = "none"]
           q == [p EXCEPT !.conn = c, !.tasks = t]
<1>1. DropConnector(p, a) = q
  BY DEF DropConnector, Members
<1>2. t \in Seq({"started", "stop"} \X Apps)
  <2>1. p.tasks \in Seq({"started", "stop"} \X Apps)
    BY DEF Members
  <2>2. <<"stop", a>> \in {"started", "stop"} \X Apps
    OBVIOUS
  <2>3. Append(p.tasks, <<"stop", a>>) \in Seq({"started", "stop"} \X Apps)
    BY <2>1, <2>2, AppendProperties
  <2> QED
    BY <2>1, <2>3
<1>3. c \in [Apps -> Conns] /\ Put(p.conn, c, a, "none")
  BY DEF Members, Conns, Put
<1> HIDE DEF t, c
<1>4. q \in Members
  BY <1>2, <1>3 DEF Members
<1>5. /\ SameMedia(p, q) /\ q.conn = c
      /\ q.status = p.status /\ q.streams = p.streams
      /\ q.procs = p.procs /\ q.live = p.live /\ q.broken = p.broken
  BY DEF Members, SameMedia
<1> QED
  BY <1>1, <1>3, <1>4, <1>5

(* A change of status is of one application, whose connector goes when it  *)
(* has to wait and whose stream events come when it has started.           *)
LEMMA SetStatusIs ==
  ASSUME NEW p, p \in Members, NEW a \in Apps, NEW st \in Statuses
  PROVE  LET q == SetStatus(p, a, st)
         IN  /\ q \in Members /\ SameMedia(p, q)
             /\ Put(p.status, q.status, a, st)
             /\ IF st = "waiting" /\ p.status[a] # "waiting"
                  THEN Put(p.conn, q.conn, a, "none") ELSE q.conn = p.conn
             /\ st # "started" \/ ~p.service \/ a \notin p.mounted =>
                  q.streams = p.streams
             /\ q.streams = p.streams \/ q.streams = p.streams \cup {a}
             /\ q.procs = p.procs /\ q.live = p.live /\ q.broken = p.broken
<1> DEFINE q == SetStatus(p, a, st)
           s == [p.status EXCEPT ![a] = st]
<1>0. /\ p.status \in [Apps -> Statuses] /\ p.streams \subseteq Apps \ Local
      /\ s \in [Apps -> Statuses] /\ Put(p.status, s, a, st)
  BY DEF Members, Put
<1>1. CASE st = p.status[a]
  <2>1. q = p
    BY <1>1 DEF SetStatus
  <2>2. Put(p.status, p.status, a, st)
    BY <1>1 DEF Put
  <2> QED
    BY <1>1, <2>1, <2>2 DEF SameMedia
<1>2. CASE st # p.status[a] /\ st = "waiting"
  <2> DEFINE d == DropConnector(p, a)
             r == [d EXCEPT !.status = s]
  <2>1. /\ d \in Members /\ SameMedia(p, d) /\ Put(p.conn, d.conn, a, "none")
        /\ d.status = p.status /\ d.streams = p.streams
        /\ d.procs = p.procs /\ d.live = p.live /\ d.broken = p.broken
    BY DropConnectorIs
  <2>2. q = [d EXCEPT !.status[a] = st]
    BY <1>2 DEF SetStatus
  <2> HIDE DEF d
  <2>3. q = r
    BY <2>1, <2>2 DEF Members
  <2> HIDE DEF s, q
  <2>4. r \in Members
    BY <1>0, <2>1 DEF Members
  <2>5. /\ SameMedia(p, r) /\ r.conn = d.conn /\ r.status = s
        /\ r.streams = p.streams /\ r.procs = p.procs /\ r.live = p.live
        /\ r.broken = p.broken
    BY <2>1 DEF Members, SameMedia
  <2> HIDE DEF r
  <2> QED
    BY <1>0, <1>2, <2>1, <2>3, <2>4, <2>5 DEF q
<1>3. CASE st # p.status[a] /\ st # "waiting"
  <2> DEFINE more == st = "started" /\ p.service /\ a \in p.mounted \ Local
             e == IF more THEN p.streams \cup {a} ELSE p.streams
             r == [p EXCEPT !.streams = e, !.status = s]
  <2>1. q = r
    <3>1. CASE more
      BY <1>3, <3>1 DEF SetStatus, Members
    <3>2. CASE ~more
      <4>1. q = [p EXCEPT !.status[a] = st]
        BY <1>3, <3>2 DEF SetStatus
      <4> QED
        BY <3>2, <4>1 DEF Members
    <3> QED
      BY <3>1, <3>2
  <2>2. e \subseteq Apps \ Local
    BY <1>0
  <2>3. /\ st # "started" \/ ~p.service \/ a \notin p.mounted => e = p.streams
        /\ e = p.streams \/ e = p.streams \cup {a}
    OBVIOUS
  <2> HIDE DEF e, s, q
  <2>4. r \in Members
    BY <1>0, <2>2 DEF Members
  <2>5. /\ SameMedia(p, r) /\ r.conn = p.conn /\ r.status = s /\ r.streams = e
        /\ r.procs = p.procs /\ r.live = p.live /\ r.broken = p.broken
    BY DEF Members, SameMedia
  <2> HIDE DEF r
  <2> QED
    BY <1>0, <1>3, <2>1, <2>3, <2>4, <2>5 DEF q
<1> QED
  BY <1>1, <1>2, <1>3

(* One that is preempted waits, without its process.                       *)
LEMMA PreemptIs ==
  ASSUME NEW p, p \in Members, NEW a \in Apps
  PROVE  LET q == Preempt(p, a)
         IN  /\ q \in Members /\ SameMedia(p, q)
             /\ Put(p.status, q.status, a, "waiting")
             /\ IF p.status[a] # "waiting"
                  THEN Put(p.conn, q.conn, a, "none") ELSE q.conn = p.conn
             /\ q.streams = p.streams /\ q.procs = p.procs
             /\ q.live = p.live \ {a} /\ q.broken = p.broken
<1> DEFINE s == SetStatus(p, a, "waiting")
           q == [s EXCEPT !.live = @ \ {a}]
<1>1. "waiting" \in Statuses
  BY DEF Statuses
<1>2. /\ s \in Members /\ SameMedia(p, s)
      /\ Put(p.status, s.status, a, "waiting")
      /\ IF p.status[a] # "waiting"
           THEN Put(p.conn, s.conn, a, "none") ELSE s.conn = p.conn
      /\ s.streams = p.streams /\ s.procs = p.procs /\ s.live = p.live
      /\ s.broken = p.broken
  BY <1>1, SetStatusIs
<1> HIDE DEF s
<1>3. q \in Members
  BY <1>2 DEF Members
<1>4. /\ SameMedia(p, q) /\ q.status = s.status /\ q.conn = s.conn
      /\ q.streams = s.streams /\ q.procs = s.procs /\ q.broken = s.broken
      /\ q.live = s.live \ {a}
  BY <1>2 DEF Members, SameMedia
<1> QED
  BY <1>2, <1>3, <1>4 DEF Preempt, s

(* One that is spawned has a process, and a connector that waits for it.   *)
LEMMA SpawnIs ==
  ASSUME NEW p, p \in Members, NEW a \in Apps
  PROVE  LET q == SpawnProcess(p, a)
         IN  /\ q \in Members /\ SameMedia(p, q)
             /\ Put(p.conn, q.conn, a, "waiting")
             /\ q.status = p.status /\ q.streams = p.streams
             /\ q.procs = p.procs /\ q.live = p.live \cup {a}
             /\ ~q.broken <=> ~p.broken /\ p.conn[a] = "none"
<1> DEFINE c == [p.conn EXCEPT ![a] = "waiting"]
           b == p.broken \/ p.conn[a] # "none"
           q == [p EXCEPT !.live = @ \cup {a}, !.conn = c, !.broken = b]
<1>1. SpawnProcess(p, a) = q
  BY DEF SpawnProcess, Members
<1>2. c \in [Apps -> Conns] /\ b \in BOOLEAN /\ Put(p.conn, c, a, "waiting")
  BY DEF Members, Conns, Put
<1> HIDE DEF c, b
<1>3. q \in Members
  BY <1>2 DEF Members
<1>4. /\ SameMedia(p, q) /\ q.conn = c /\ q.status = p.status
      /\ q.streams = p.streams /\ q.procs = p.procs
      /\ q.live = p.live \cup {a} /\ q.broken = b
  BY DEF Members, SameMedia
<1>5. ~b <=> ~p.broken /\ p.conn[a] = "none"
  BY DEF b
<1> QED
  BY <1>1, <1>2, <1>3, <1>4, <1>5
-----------------------------------------------------------------------------
(* The Spawner *)

(* exec leaves an item in the queue, spawns it, or makes room for it first *)
(* by preempting the least urgent of those that are less urgent.           *)
LEMMA ExecIs ==
  ASSUME NEW p, Typed(p), NEW a \in Apps
  PROVE  \/ ~CanRun(p, a) /\ Exec(p, a) = p
         \/ /\ CanRun(p, a) /\ Cardinality(p.live) < MaxParallel
            /\ Exec(p, a) = SpawnProcess(p, a)
         \/ /\ CanRun(p, a) /\ ~(Cardinality(p.live) < MaxParallel)
            /\ \E m \in LessUrgent(p, a) :
                 /\ \A b \in LessUrgent(p, a) : Priority[m] <= Priority[b]
                 /\ Exec(p, a) = SpawnProcess(Preempt(p, m), a)
<1>1. CASE ~CanRun(p, a)
  BY <1>1 DEF Exec
<1>2. CASE CanRun(p, a) /\ Cardinality(p.live) < MaxParallel
  BY <1>2 DEF Exec, MakeRoom
<1>3. CASE CanRun(p, a) /\ ~(Cardinality(p.live) < MaxParallel)
  <2> DEFINE m == MinTask(p, LessUrgent(p, a))
  <2>1. LessUrgent(p, a) # {}
    BY <1>3 DEF CanRun
  <2>2. LessUrgent(p, a) \subseteq Items(p)
    BY DEF LessUrgent, Typed
  <2>3. /\ m \in LessUrgent(p, a)
        /\ \A b \in LessUrgent(p, a) : Priority[m] <= Priority[b]
    BY <2>1, <2>2, MinTaskIs DEF Typed
  <2>4. Exec(p, a) = SpawnProcess(Preempt(p, m), a)
    BY <1>3 DEF Exec, MakeRoom
  <2> HIDE DEF m
  <2> QED
    BY <1>3, <2>3, <2>4
<1> QED
  BY <1>1, <1>2, <1>3

(* Whatever exec does the rest of the application is as before, but for    *)
(* one that has to wait.                                                   *)
LEMMA ExecKeeps ==
  ASSUME NEW p, Typed(p), NEW a \in Apps
  PROVE  LET q == Exec(p, a)
         IN  /\ q \in Members /\ SameMedia(p, q)
             /\ q.streams = p.streams /\ q.procs = p.procs
             /\ q.live \subseteq p.live \cup {a} /\ (CanRun(p, a) => a \in q.live)
             /\ ~q.broken => ~p.broken
             /\ \A b \in Apps : \/ q.status[b] = p.status[b]
                                \/ b \in p.live /\ q.status[b] = "waiting"
<1> DEFINE q == Exec(p, a)
<1>0. p \in Members /\ p.live \subseteq Apps /\ p.broken \in BOOLEAN
  BY DEF Typed, Members
<1>1. CASE q = p /\ ~CanRun(p, a)
  BY <1>0, <1>1 DEF SameMedia
<1>2. CASE q = SpawnProcess(p, a)
  <2> DEFINE s == SpawnProcess(p, a)
  <2>1. /\ s \in Members /\ SameMedia(p, s) /\ s.streams = p.streams
        /\ s.status = p.status /\ s.procs = p.procs
        /\ s.live = p.live \cup {a} /\ (~s.broken => ~p.broken)
    BY <1>0, SpawnIs
  <2> HIDE DEF s, q
  <2>2. q = s
    BY <1>2 DEF s
  <2> QED
    BY <2>1, <2>2 DEF q
<1>3. ASSUME NEW m \in LessUrgent(p, a), q = SpawnProcess(Preempt(p, m), a)
      PROVE  /\ q \in Members /\ SameMedia(p, q)
             /\ q.streams = p.streams /\ q.procs = p.procs
             /\ q.live \subseteq p.live \cup {a} /\ a \in q.live
             /\ ~q.broken => ~p.broken
             /\ \A b \in Apps : \/ q.status[b] = p.status[b]
                                \/ b \in p.live /\ q.status[b] = "waiting"
  <2> DEFINE r == Preempt(p, m)
  <2>1. m \in p.live /\ m \in Apps
    BY <1>0 DEF LessUrgent
  <2>2. /\ r \in Members /\ SameMedia(p, r) /\ r.streams = p.streams
        /\ Put(p.status, r.status, m, "waiting")
        /\ r.procs = p.procs /\ r.live = p.live \ {m} /\ r.broken = p.broken
    BY <1>0, <2>1, PreemptIs
  <2> HIDE DEF r
  <2>3. /\ q \in Members /\ SameMedia(r, q) /\ q.streams = r.streams
        /\ q.status = r.status /\ q.procs = r.procs
        /\ q.live = r.live \cup {a} /\ (~q.broken => ~r.broken)
    <3> DEFINE s == SpawnProcess(r, a)
    <3>1. /\ s \in Members /\ SameMedia(r, s) /\ s.streams = r.streams
          /\ s.status = r.status /\ s.procs = r.procs
          /\ s.live = r.live \cup {a} /\ (~s.broken => ~r.broken)
      <4>1. r \in Members
        BY <2>2
      <4> QED
        BY <4>1, SpawnIs
    <3> HIDE DEF s, q
    <3>2. q = s
      BY <1>3 DEF r, s
    <3> QED
      BY <3>1, <3>2
  <2> HIDE DEF q
  <2>4. \A b \in Apps : \/ q.status[b] = p.status[b]
                        \/ b \in p.live /\ q.status[b] = "waiting"
    BY <1>0, <2>1, <2>2, <2>3 DEF Put
  <2> QED
    BY <2>2, <2>3, <2>4 DEF SameMedia
<1> HIDE DEF q
<1> QED
  BY <1>1, <1>2, <1>3, ExecIs DEF q

(* While none that waits is more urgent, running the queue never preempts: *)
(* either nothing is run, and then nothing can be, or the most urgent that *)
(* waits is spawned.                                                       *)
LEMMA RunQueuedIs ==
  ASSUME NEW p, Typed(p), Ordered(p)
  PROVE  \/ RunQueued(p) = p /\ (p.enabled => Full(p))
         \/ /\ p.enabled /\ Cardinality(p.live) < MaxParallel
            /\ \E m \in Queued(p) :
                 /\ \A b \in Queued(p) : Priority[m] >= Priority[b]
                 /\ RunQueued(p) = SpawnProcess(p, m)
<1>0. p \in Members /\ p.live \subseteq Apps /\ Items(p) \subseteq Apps
  BY ItemsAreApps DEF Typed, Members
<1>1. CASE Queued(p) = {}
  BY <1>1 DEF RunQueued, Full
<1>2. CASE Queued(p) # {}
  <2> DEFINE m == MaxTask(p, Queued(p))
  <2>1. Queued(p) \subseteq Items(p)
    BY DEF Queued
  <2>2. m \in Queued(p) /\ \A b \in Queued(p) : Priority[m] >= Priority[b]
    BY <1>0, <1>2, <2>1, MaxTaskIs
  <2>3. RunQueued(p) = Exec(p, m)
    BY <1>2 DEF RunQueued
  <2> HIDE DEF m
  <2>4. m \in Apps
    BY <1>0, <2>1, <2>2
  <2>5. p.enabled => LessUrgent(p, m) = {}
    <3>1. \A b \in p.live : Priority[b] \in Nat /\ Priority[m] \in Nat
      BY <1>0, <2>4, ApplicationsAssumption
    <3> QED
      BY <2>2, <3>1 DEF Ordered, LessUrgent
  <2>6. CASE ~CanRun(p, m)
    <3>1. Exec(p, m) = p
      BY <2>6 DEF Exec
    <3>2. p.enabled => Cardinality(p.live) = MaxParallel
      <4>1. Cardinality(p.live) \in Nat /\ MaxParallel \in Nat
        BY <1>0, Finite, ApplicationsAssumption
      <4> QED
        BY <2>6, <4>1 DEF CanRun, Ordered
    <3> QED
      BY <2>3, <3>1, <3>2 DEF Full
  <2>7. CASE CanRun(p, m)
    <3>1. p.enabled /\ Cardinality(p.live) < MaxParallel
      BY <2>5, <2>7 DEF CanRun
    <3>2. Exec(p, m) = SpawnProcess(p, m)
      BY <2>7, <3>1 DEF Exec, MakeRoom
    <3> QED
      BY <2>2, <2>3, <3>1, <3>2
  <2> QED
    BY <2>6, <2>7
<1> QED
  BY <1>1, <1>2

(* Running the queue keeps its order, and brings it one further when there *)
(* is room.                                                                *)
LEMMA RunQueuedKeeps ==
  ASSUME NEW p, Typed(p), Ordered(p)
  PROVE  LET q == RunQueued(p)
         IN  /\ Typed(q) /\ Ordered(q) /\ SameMedia(p, q)
             /\ q.status = p.status /\ q.streams = p.streams
             /\ q.procs = p.procs /\ p.live \subseteq q.live
             /\ ~q.broken => ~p.broken
             /\ ~p.enabled => q = p
             /\ p.enabled => \/ Full(q)
                             \/ Cardinality(q.live) = Cardinality(p.live) + 1
             /\ p.enabled /\ Cardinality(p.live) + 1 >= MaxParallel => Full(q)
             /\ \A b \in Apps : \/ q.conn[b] = p.conn[b]
                                \/ b \in Items(p) /\ q.conn[b] # "none"
<1> DEFINE q == RunQueued(p)
<1>0. /\ p \in Members /\ p.live \subseteq Apps /\ p.live \subseteq Items(p)
      /\ p.broken \in BOOLEAN /\ p.conn \in [Apps -> Conns]
      /\ Items(p) \subseteq Apps /\ MaxParallel \in Nat
      /\ Cardinality(p.live) \in Nat
  BY ItemsAreApps, Finite, ApplicationsAssumption DEF Typed, Members
<1>1. CASE q = p /\ (p.enabled => Full(p))
  BY <1>0, <1>1 DEF SameMedia
<1>2. ASSUME p.enabled, Cardinality(p.live) < MaxParallel,
             NEW m \in Queued(p), \A b \in Queued(p) : Priority[m] >= Priority[b],
             q = SpawnProcess(p, m)
      PROVE  /\ Typed(q) /\ Ordered(q) /\ SameMedia(p, q)
             /\ q.status = p.status /\ q.streams = p.streams
             /\ q.procs = p.procs /\ p.live \subseteq q.live
             /\ ~q.broken => ~p.broken
             /\ Cardinality(q.live) = Cardinality(p.live) + 1
             /\ Cardinality(p.live) + 1 >= MaxParallel => Full(q)
             /\ \A b \in Apps : \/ q.conn[b] = p.conn[b]
                                \/ b \in Items(p) /\ q.conn[b] # "none"
  <2>1. m \in Items(p) /\ m \in Apps /\ m \notin p.live
    BY <1>0 DEF Queued
  <2>2. /\ q \in Members /\ SameMedia(p, q)
        /\ Put(p.conn, q.conn, m, "waiting")
        /\ q.status = p.status /\ q.streams = p.streams
        /\ q.procs = p.procs /\ q.live = p.live \cup {m}
        /\ ~q.broken => ~p.broken
    <3> HIDE DEF q
    <3> QED
      BY <1>0, <1>2, <2>1, SpawnIs
  <2> HIDE DEF q
  <2>3. Items(q) = Items(p)
    BY <2>2 DEF Items
  <2>4. Typed(q)
    BY <1>0, <2>1, <2>2, <2>3 DEF Typed
  <2>5. Cardinality(q.live) = Cardinality(p.live) + 1
    BY <1>0, <2>1, <2>2, Finite, FS_AddElement
  <2>6. Queued(q) \subseteq Queued(p)
    BY <2>2, <2>3 DEF Queued
  <2>7. Ordered(q)
    <3>1. Cardinality(q.live) <= MaxParallel
      BY <1>0, <1>2, <2>5
    <3>2. \A b \in Queued(q), c \in q.live : Priority[c] >= Priority[b]
      BY <1>2, <2>2, <2>6 DEF Ordered
    <3> QED
      BY <3>1, <3>2 DEF Ordered
  <2>8. Cardinality(p.live) + 1 >= MaxParallel => Full(q)
    BY <1>0, <1>2, <2>5 DEF Full
  <2>9. \A b \in Apps : \/ q.conn[b] = p.conn[b]
                        \/ b \in Items(p) /\ q.conn[b] # "none"
    BY <1>0, <2>1, <2>2 DEF Put
  <2> QED
    BY <2>2, <2>4, <2>5, <2>7, <2>8, <2>9
<1> HIDE DEF q
<1> QED
  BY <1>1, <1>2, RunQueuedIs DEF q
(* doStart puts the application into the Spawner; it starts or waits, and  *)
(* at most another one has to wait.                                        *)
LEMMA DoStartTyped ==
  ASSUME NEW p, Typed(p), NEW a \in Apps
  PROVE  LET q == DoStart(p, a)
         IN  /\ Typed(q) /\ SameMedia(p, q) /\ q.streams = p.streams
             /\ ~q.broken => ~p.broken
             /\ q.status[a] \in {"starting", "waiting"}
             /\ \A b \in Apps \ {a} : \/ q.status[b] = p.status[b]
                                      \/ b \in p.live /\ q.status[b] = "waiting"
<1> DEFINE e == Exec(p, a)
           l == Append(p.procs, a)
           d == [e EXCEPT !.procs = l]
           st == IF CanRun(p, a) THEN "starting" ELSE "waiting"
           q == SetStatus(d, a, st)
<1>1. /\ e \in Members /\ SameMedia(p, e) /\ e.streams = p.streams
      /\ e.procs = p.procs /\ e.live \subseteq p.live \cup {a}
      /\ ~e.broken => ~p.broken
      /\ \A b \in Apps : \/ e.status[b] = p.status[b]
                         \/ b \in p.live /\ e.status[b] = "waiting"
  BY ExecKeeps
<1>2. DoStart(p, a) = q
  <2>1. [e EXCEPT !.procs = Append(@, a)] = d
    BY <1>1 DEF Members
  <2> QED
    BY <2>1 DEF DoStart
<1>3. l \in Seq(Apps) /\ ToSet(l) = Items(p) \cup {a}
  BY Appended DEF Typed, Members, Items
<1> HIDE DEF e, l
<1>4. /\ d \in Members /\ SameMedia(p, d) /\ d.streams = p.streams
      /\ d.procs = l /\ d.live = e.live /\ d.status = e.status
      /\ ~d.broken => ~p.broken
  BY <1>1, <1>3 DEF Members, SameMedia
<1>5. st \in Statuses /\ st \in {"starting", "waiting"}
  BY DEF Statuses
<1> HIDE DEF d, st
<1>6. /\ q \in Members /\ SameMedia(d, q)
      /\ Put(d.status, q.status, a, st)
      /\ q.streams = d.streams
      /\ q.procs = d.procs /\ q.live = d.live /\ q.broken = d.broken
  <2>1. d \in Members /\ st \in Statuses /\ st # "started"
    BY <1>4, <1>5
  <2> QED
    BY <2>1, SetStatusIs
<1> HIDE DEF q
<1>7. Typed(q)
  BY <1>1, <1>3, <1>4, <1>6 DEF Typed, Items
<1>8. q.status[a] = st /\ \A b \in Apps \ {a} : q.status[b] = e.status[b]
  BY <1>4, <1>6 DEF Put
<1>9. SameMedia(p, q) /\ q.streams = p.streams /\ (~q.broken => ~p.broken)
  BY <1>4, <1>6 DEF SameMedia
<1> QED
  BY <1>1, <1>2, <1>5, <1>7, <1>8, <1>9

(* An application that starts is run at once if the Spawner has room for   *)
(* it or runs a less urgent one, which is then the least urgent; otherwise *)
(* all that run are at least as urgent.                                    *)
LEMMA DoStartKeeps ==
  ASSUME NEW p, Typed(p), NEW a \in Apps, Owned(p), Urgent(p), ~IsRunning(p, a)
  PROVE  LET q == DoStart(p, a)
         IN  Owned(q) /\ Urgent(q)
<1> DEFINE e == Exec(p, a)
           l == Append(p.procs, a)
           d == [e EXCEPT !.procs = l]
           st == IF CanRun(p, a) THEN "starting" ELSE "waiting"
           q == SetStatus(d, a, st)
<1>0. /\ p \in Members /\ p.live \subseteq Items(p) /\ Items(p) \subseteq Apps
      /\ p.live \subseteq Apps /\ p.status \in [Apps -> Statuses]
      /\ p.conn \in [Apps -> Conns]
      /\ Cardinality(p.live) \in Nat /\ MaxParallel \in Nat /\ MaxParallel > 0
      /\ \A b \in Apps : Priority[b] \in Nat
  <2>1. /\ p \in Members /\ p.live \subseteq Items(p)
        /\ p.live \subseteq Apps /\ p.status \in [Apps -> Statuses]
        /\ p.conn \in [Apps -> Conns]
    BY DEF Typed, Members
  <2>2. Items(p) \subseteq Apps /\ Cardinality(p.live) \in Nat
    BY <2>1, ItemsAreApps, Finite
  <2>3. /\ MaxParallel \in Nat /\ MaxParallel > 0
        /\ \A b \in Apps : Priority[b] \in Nat
    BY ApplicationsAssumption
  <2> QED
    BY <2>1, <2>2, <2>3
<1>1. /\ e \in Members /\ SameMedia(p, e) /\ e.procs = p.procs
  BY ExecKeeps
<1>2. DoStart(p, a) = q
  <2>1. [e EXCEPT !.procs = Append(@, a)] = d
    BY <1>1 DEF Members
  <2> QED
    BY <2>1 DEF DoStart
<1>3. /\ \A b \in Apps : Slot(p, b) /\ IsInjective(p.procs)
  BY DEF Owned, OwnedBut
<1>4. a \notin Items(p) /\ p.conn[a] = "none" /\ a \notin p.live
  BY <1>0, <1>3 DEF Slot
<1>5. l \in Seq(Apps) /\ ToSet(l) = Items(p) \cup {a} /\ IsInjective(l)
  BY <1>0, <1>3, <1>4, Appended DEF Members, Items
<1>6. st \in Statuses /\ st # "started"
  BY DEF Statuses
<1> HIDE DEF e, l
<1>7. /\ d \in Members /\ d.procs = l /\ d.live = e.live /\ d.status = e.status
      /\ d.conn = e.conn /\ d.enabled = p.enabled
  BY <1>1, <1>5 DEF Members, SameMedia
<1> HIDE DEF d, st
<1>8. /\ Put(e.status, q.status, a, st)
      /\ IF st = "waiting" /\ e.status[a] # "waiting"
           THEN Put(e.conn, q.conn, a, "none") ELSE q.conn = e.conn
      /\ q.procs = l /\ q.live = e.live /\ q.enabled = p.enabled
  BY <1>6, <1>7, SetStatusIs DEF SameMedia
<1> HIDE DEF q
<1>9. Items(q) = Items(p) \cup {a} /\ IsInjective(q.procs)
  BY <1>5, <1>8 DEF Items
<1>10. p.status[a] # "waiting"
  BY DEF IsRunning
<1>11. ASSUME ~CanRun(p, a) /\ e = p
       PROVE  Owned(q) /\ Urgent(q)
  <2>1. st = "waiting"
    BY <1>11 DEF st
  <2>2. /\ q.status[a] = "waiting" /\ q.conn[a] = "none" /\ q.live = p.live
        /\ \A b \in Apps \ {a} : q.status[b] = p.status[b] /\ q.conn[b] = p.conn[b]
    BY <1>8, <1>10, <1>11, <2>1 DEF Put
  <2>3. \A b \in Apps : Slot(q, b)
    BY <1>3, <1>9, <2>2 DEF Slot, IsRunning
  <2>4. Queued(q) \subseteq Queued(p) \cup {a}
    BY <1>9, <2>2 DEF Queued
  <2>5. ASSUME p.enabled PROVE Urgent(q)
    <3>1. Cardinality(p.live) = MaxParallel /\ LessUrgent(p, a) = {}
      BY <1>0, <1>11, <2>5 DEF CanRun, Urgent, Ordered
    <3>2. \A b \in p.live : Priority[b] >= Priority[a]
      BY <1>0, <3>1 DEF LessUrgent
    <3>3. \A w \in Queued(q), b \in q.live : Priority[b] >= Priority[w]
      BY <2>2, <2>4, <2>5, <3>2 DEF Urgent, Ordered
    <3>4. Ordered(q)
      BY <1>0, <2>2, <3>1, <3>3 DEF Ordered
    <3>5. Settled(q)
      BY <1>8, <2>2, <2>5, <3>1 DEF Settled, Full
    <3> QED
      BY <3>4, <3>5 DEF Urgent
  <2>6. ASSUME ~p.enabled PROVE Urgent(q)
    <3>1. p.live = {} /\ Cardinality(p.live) <= MaxParallel
      BY <2>6 DEF Urgent, Settled, Ordered
    <3>2. Ordered(q) /\ Settled(q)
      BY <1>8, <2>2, <2>6, <3>1 DEF Settled, Ordered
    <3> QED
      BY <3>2 DEF Urgent
  <2>7. Owned(q)
    BY <1>9, <2>3 DEF Owned, OwnedBut
  <2> QED
    BY <2>5, <2>6, <2>7
<1>12. ASSUME /\ CanRun(p, a) /\ Cardinality(p.live) < MaxParallel
              /\ e = SpawnProcess(p, a)
       PROVE  Owned(q) /\ Urgent(q)
  <2>1. st = "starting"
    BY <1>12 DEF st
  <2>2. /\ Put(p.conn, e.conn, a, "waiting")
        /\ e.status = p.status /\ e.live = p.live \cup {a}
    <3>1. /\ Put(p.conn, SpawnProcess(p, a).conn, a, "waiting")
          /\ SpawnProcess(p, a).status = p.status
          /\ SpawnProcess(p, a).live = p.live \cup {a}
      BY <1>0, SpawnIs
    <3> QED
      BY <1>12, <3>1
  <2>3. /\ q.status[a] = "starting" /\ q.conn[a] = "waiting"
        /\ q.live = p.live \cup {a}
        /\ \A b \in Apps \ {a} : q.status[b] = p.status[b] /\ q.conn[b] = p.conn[b]
    BY <1>8, <2>1, <2>2 DEF Put
  <2>4. \A b \in Apps : Slot(q, b)
    BY <1>3, <1>9, <2>3 DEF Slot, IsRunning
  <2>5. p.enabled
    BY <1>12 DEF CanRun
  <2>6. Queued(p) = {}
    BY <1>0, <1>12, <2>5 DEF Urgent, Settled, Full
  <2>7. Queued(q) = {}
    BY <1>9, <2>3, <2>6 DEF Queued
  <2>8. Cardinality(q.live) = Cardinality(p.live) + 1
    BY <1>0, <1>4, <2>3, Finite, FS_AddElement
  <2>9. Cardinality(q.live) <= MaxParallel
    BY <1>0, <1>12, <2>8
  <2>10. Owned(q)
    BY <1>9, <2>4 DEF Owned, OwnedBut
  <2>11. Ordered(q)
    BY <2>7, <2>9 DEF Ordered
  <2>12. Settled(q)
    BY <1>8, <2>5, <2>7 DEF Settled, Full
  <2> QED
    BY <2>10, <2>11, <2>12 DEF Urgent
<1>13. ASSUME CanRun(p, a), ~(Cardinality(p.live) < MaxParallel),
              NEW m \in LessUrgent(p, a),
              \A b \in LessUrgent(p, a) : Priority[m] <= Priority[b],
              e = SpawnProcess(Preempt(p, m), a)
       PROVE  Owned(q) /\ Urgent(q)
  <2>1. st = "starting"
    BY <1>13 DEF st
  <2>2. m \in p.live /\ m \in Apps /\ Priority[m] < Priority[a] /\ m # a
    BY <1>0 DEF LessUrgent
  <2> DEFINE r == Preempt(p, m)
             s == SpawnProcess(r, a)
  <2>3. /\ r \in Members /\ Put(p.status, r.status, m, "waiting")
        /\ IF p.status[m] # "waiting"
             THEN Put(p.conn, r.conn, m, "none") ELSE r.conn = p.conn
        /\ r.live = p.live \ {m}
    BY <1>0, <2>2, PreemptIs
  <2> HIDE DEF r
  <2>4. /\ Put(r.conn, s.conn, a, "waiting")
        /\ s.status = r.status /\ s.live = r.live \cup {a}
    <3>1. r \in Members
      BY <2>3
    <3> QED
      BY <3>1, SpawnIs
  <2> HIDE DEF s
  <2>5. e = s
    BY <1>13 DEF s, r
  <2>6. /\ q.status[a] = "starting" /\ q.conn[a] = "waiting"
        /\ q.live = (p.live \ {m}) \cup {a}
    BY <1>0, <1>8, <2>1, <2>3, <2>4, <2>5 DEF Put
  <2>7. /\ q.status[m] = "waiting" /\ q.conn[m] \in {"none", p.conn[m]}
        /\ \A b \in Apps \ {a, m} :
             q.status[b] = p.status[b] /\ q.conn[b] = p.conn[b]
    BY <1>0, <1>8, <2>1, <2>2, <2>3, <2>4, <2>5 DEF Put
  <2>8. \A b \in Apps : Slot(q, b)
    <3>1. Slot(q, a)
      BY <1>9, <2>6 DEF Slot, IsRunning
    <3>2. Slot(q, m)
      BY <1>0, <1>3, <1>9, <2>2, <2>7 DEF Slot, IsRunning
    <3>3. \A b \in Apps \ {a, m} : Slot(q, b)
      BY <1>3, <1>9, <2>6, <2>7 DEF Slot, IsRunning
    <3> QED
      BY <3>1, <3>2, <3>3
  <2>9. p.enabled /\ Cardinality(p.live) = MaxParallel
    BY <1>0, <1>13 DEF CanRun, Urgent, Ordered
  <2>10. Cardinality(q.live) = MaxParallel
    <3> DEFINE S == p.live \ {m}
    <3>1. IsFiniteSet(S) /\ Cardinality(S) = MaxParallel - 1
      BY <1>0, <2>2, <2>9, Finite, FS_RemoveElement
    <3>2. a \notin S
      BY <1>4
    <3> HIDE DEF S
    <3>3. Cardinality(S \cup {a}) = Cardinality(S) + 1
      BY <3>1, <3>2, FS_AddElement
    <3>4. q.live = S \cup {a}
      BY <2>6 DEF S
    <3> QED
      BY <1>0, <3>1, <3>3, <3>4
  <2>11. Queued(q) \subseteq Queued(p) \cup {m}
    BY <1>9, <2>6 DEF Queued
  <2>12. \A w \in Queued(q) : Priority[w] <= Priority[m]
    BY <1>0, <2>2, <2>9, <2>11 DEF Urgent, Ordered
  <2>13. \A b \in q.live : Priority[m] <= Priority[b]
    BY <1>0, <1>13, <2>2, <2>6 DEF LessUrgent
  <2>14. \A w \in Queued(q), b \in q.live : Priority[b] >= Priority[w]
    <3>1. Queued(q) \subseteq Apps /\ q.live \subseteq Apps
      BY <1>0, <1>9, <2>6 DEF Queued
    <3> QED
      BY <1>0, <2>2, <2>12, <2>13, <3>1
  <2>15. Owned(q)
    BY <1>9, <2>8 DEF Owned, OwnedBut
  <2>16. Ordered(q)
    BY <1>0, <2>10, <2>14 DEF Ordered
  <2>17. Settled(q)
    BY <1>8, <2>9, <2>10 DEF Settled, Full
  <2> QED
    BY <2>15, <2>16, <2>17 DEF Urgent
<1>14. \/ ~CanRun(p, a) /\ e = p
       \/ /\ CanRun(p, a) /\ Cardinality(p.live) < MaxParallel
          /\ e = SpawnProcess(p, a)
       \/ /\ CanRun(p, a) /\ ~(Cardinality(p.live) < MaxParallel)
          /\ \E m \in LessUrgent(p, a) :
               /\ \A b \in LessUrgent(p, a) : Priority[m] <= Priority[b]
               /\ e = SpawnProcess(Preempt(p, m), a)
  BY ExecIs DEF e
<1>15. Owned(q) /\ Urgent(q)
  <2>1. CASE ~CanRun(p, a) /\ e = p
    BY <1>11, <2>1
  <2>2. CASE /\ CanRun(p, a) /\ Cardinality(p.live) < MaxParallel
             /\ e = SpawnProcess(p, a)
    BY <1>12, <2>2
  <2>3. CASE /\ CanRun(p, a) /\ ~(Cardinality(p.live) < MaxParallel)
             /\ \E m \in LessUrgent(p, a) :
                  /\ \A b \in LessUrgent(p, a) : Priority[m] <= Priority[b]
                  /\ e = SpawnProcess(Preempt(p, m), a)
    <3>1. PICK m \in LessUrgent(p, a) :
            /\ \A b \in LessUrgent(p, a) : Priority[m] <= Priority[b]
            /\ e = SpawnProcess(Preempt(p, m), a)
      BY <2>3
    <3>2. CanRun(p, a) /\ ~(Cardinality(p.live) < MaxParallel)
      BY <2>3
    <3> QED
      BY <1>13, <3>1, <3>2
  <2> QED
    BY <1>14, <2>1, <2>2, <2>3
<1> QED
  BY <1>2, <1>15
-----------------------------------------------------------------------------
(* The methods of an application *)

(* What the Spawner runs and owns depends on what is the Spawner's.        *)
LEMMA Alike ==
  ASSUME NEW p, NEW q, q.procs = p.procs, q.live = p.live, q.conn = p.conn,
         q.enabled = p.enabled, q.status = p.status
  PROVE  /\ Owned(p) => Owned(q)
         /\ Ordered(p) => Ordered(q)
         /\ Settled(p) => Settled(q)
         /\ Full(p) => Full(q)
         /\ Queued(q) = Queued(p) /\ Items(q) = Items(p)
         /\ Present(q) = Present(p)
<1>1. Items(q) = Items(p)
  BY DEF Items
<1>2. Queued(q) = Queued(p)
  BY <1>1 DEF Queued
<1>3. Owned(p) => Owned(q)
  BY <1>1 DEF Owned, OwnedBut, Slot, IsRunning
<1>4. Ordered(p) => Ordered(q)
  BY <1>2 DEF Ordered
<1>5. Full(p) => Full(q)
  BY <1>2 DEF Full
<1>6. Settled(p) => Settled(q)
  BY <1>5 DEF Settled, Full
<1>7. Present(q) = Present(p)
  BY DEF Present
<1> QED
  BY <1>1, <1>2, <1>3, <1>4, <1>5, <1>6, <1>7

(* One that does not run is not the Spawner's.                             *)
LEMMA Resting ==
  ASSUME NEW p, NEW a \in Apps, Owned(p), ~IsRunning(p, a)
  PROVE  OwnedBut(p, {a}) /\ a \notin Items(p) /\ p.conn[a] = "none"
BY DEF Owned, OwnedBut, Slot

(* An application the Spawner has let go of may rest.                      *)
LEMMA Parked ==
  ASSUME NEW p, NEW q, NEW a \in Apps,
         OwnedBut(p, {a}), a \notin Items(p), p.conn[a] = "none", Urgent(p),
         q.procs = p.procs, q.live = p.live, q.conn = p.conn,
         q.enabled = p.enabled,
         q.status[a] \in {"absent", "unmounted", "mounted"},
         \A b \in Apps \ {a} : q.status[b] = p.status[b]
  PROVE  Owned(q) /\ Urgent(q)
<1>1. Items(q) = Items(p)
  BY DEF Items
<1>2. Queued(q) = Queued(p)
  BY <1>1 DEF Queued
<1>3. Urgent(q)
  BY <1>2 DEF Urgent, Ordered, Settled, Full
<1>4. Slot(q, a)
  BY <1>1 DEF Slot
<1>5. \A b \in Apps \ {a} : Slot(q, b)
  BY <1>1 DEF OwnedBut, Slot, IsRunning
<1>6. Owned(q)
  BY <1>4, <1>5 DEF Owned, OwnedBut
<1> QED
  BY <1>3, <1>6

(* doStop takes the application out of the Spawner, which then runs        *)
(* another one; its connector is gone.                                     *)
LEMMA DoStopKeeps ==
  ASSUME NEW p, Typed(p), Owned(p), Urgent(p), NEW a \in Apps
  PROVE  LET q == DoStop(p, a)
         IN  /\ Typed(q) /\ SameMedia(p, q)
             /\ q.status = p.status /\ q.streams = p.streams
             /\ ~q.broken => /\ ~p.broken /\ OwnedBut(q, {a}) /\ Urgent(q)
                             /\ a \notin Items(q) /\ q.conn[a] = "none"
<1> DEFINE q == DoStop(p, a)
           l == RemoveAt(p.procs, Position(p, a))
           r == [p EXCEPT !.procs = l, !.live = p.live \ {a}]
           s == RunQueued(r)
           bad == a \notin Items(p) \/ (p.status[a] = "started" /\ p.conn[a] = "none")
<1>0. /\ p \in Members /\ p.live \subseteq Items(p) /\ p.live \subseteq Apps
      /\ p.broken \in BOOLEAN /\ p.procs \in Seq(Apps) /\ IsInjective(p.procs)
      /\ p.conn \in [Apps -> Conns]
      /\ \A b \in Apps : Slot(p, b)
  BY DEF Typed, Members, Owned, OwnedBut
<1>1. CASE bad
  <2>1. q = [p EXCEPT !.broken = TRUE]
    BY <1>1 DEF DoStop
  <2>2. /\ q \in Members /\ SameMedia(p, q) /\ q.status = p.status
        /\ q.streams = p.streams /\ q.procs = p.procs /\ q.live = p.live
        /\ q.broken
    BY <1>0, <2>1 DEF Members, SameMedia
  <2> HIDE DEF q
  <2>3. Typed(q)
    BY <1>0, <2>2 DEF Typed, Items
  <2> QED
    BY <2>2, <2>3 DEF q
<1>2. CASE ~bad
  <2>1. a \in Items(p)
    BY <1>2
  <2>2. l \in Seq(Apps) /\ ToSet(l) = Items(p) \ {a} /\ IsInjective(l)
    <3>1. Position(p, a) \in 1 .. Len(p.procs) /\ p.procs[Position(p, a)] = a
      BY <1>0, <2>1, PositionIn
    <3> QED
      BY <1>0, <3>1, Removed DEF Items
  <2> HIDE DEF l
  <2>3. /\ r \in Members /\ SameMedia(p, r) /\ r.procs = l
        /\ r.live = p.live \ {a} /\ r.conn = p.conn /\ r.status = p.status
        /\ r.streams = p.streams /\ r.broken = p.broken
    BY <1>0, <2>2 DEF Members, SameMedia
  <2>4. /\ s = RunQueued([p EXCEPT !.procs = RemoveAt(@, Position(p, a)),
                                   !.live = @ \ {a}])
    BY <1>0 DEF l, Members
  <2>5. q = IF p.status[a] = "started" THEN [s EXCEPT !.conn[a] = "none"]
                                       ELSE DropConnector(s, a)
    <3> HIDE DEF s
    <3> QED
      BY <1>2, <2>4 DEF DoStop
  <2> HIDE DEF r
  <2>6. Items(r) = Items(p) \ {a}
    BY <2>2, <2>3 DEF Items
  <2>7. Typed(r)
    BY <1>0, <2>3, <2>6 DEF Typed
  <2>8. Queued(r) = Queued(p) \ {a}
    BY <2>3, <2>6 DEF Queued
  <2>9. /\ Cardinality(r.live) <= Cardinality(p.live)
        /\ Cardinality(r.live) + 1 >= Cardinality(p.live)
        /\ Cardinality(r.live) \in Nat /\ Cardinality(p.live) \in Nat
    <3>1. IsFiniteSet(p.live) /\ Cardinality(p.live) \in Nat
      BY <1>0, Finite
    <3>2. Cardinality(p.live \ {a}) =
            IF a \in p.live THEN Cardinality(p.live) - 1 ELSE Cardinality(p.live)
      BY <3>1, FS_RemoveElement
    <3>3. Cardinality(p.live \ {a}) \in Nat
      BY <1>0, Finite
    <3> QED
      BY <2>3, <3>1, <3>2, <3>3
  <2>10. MaxParallel \in Nat /\ Ordered(p) /\ Settled(p)
    BY ApplicationsAssumption DEF Urgent
  <2>11. Ordered(r)
    <3>1. Cardinality(r.live) <= MaxParallel
      BY <2>9, <2>10 DEF Ordered
    <3>2. r.enabled => \A x \in Queued(r), b \in r.live : Priority[b] >= Priority[x]
      BY <2>3, <2>8, <2>10 DEF Ordered, SameMedia
    <3> QED
      BY <3>1, <3>2 DEF Ordered
  <2>12. /\ Typed(s) /\ Ordered(s) /\ SameMedia(r, s)
         /\ s.status = r.status /\ s.streams = r.streams
         /\ s.procs = r.procs /\ r.live \subseteq s.live
         /\ ~s.broken => ~r.broken
         /\ ~r.enabled => s = r
         /\ r.enabled /\ Cardinality(r.live) + 1 >= MaxParallel => Full(s)
         /\ \A b \in Apps : \/ s.conn[b] = r.conn[b]
                            \/ b \in Items(r) /\ s.conn[b] # "none"
    BY <2>7, <2>11, RunQueuedKeeps
  <2>13. Queued(r) = {} => s = r
    BY DEF RunQueued
  <2> HIDE DEF s
  <2>14. Settled(s)
    <3>1. CASE ~p.enabled
      <4>1. r.live = {} /\ s = r /\ ~s.enabled
        BY <2>3, <2>10, <2>12, <3>1 DEF Settled, SameMedia
      <4> QED
        BY <4>1 DEF Settled
    <3>2. CASE p.enabled /\ Queued(p) = {}
      <4>1. s = r /\ Queued(r) = {} /\ s.enabled
        BY <2>3, <2>8, <2>13, <3>2 DEF SameMedia
      <4> QED
        BY <4>1 DEF Settled, Full
    <3>3. CASE p.enabled /\ Queued(p) # {}
      <4>1. Cardinality(p.live) = MaxParallel
        BY <2>10, <3>3 DEF Settled, Full
      <4>2. r.enabled /\ s.enabled
        BY <2>3, <2>12, <3>3 DEF SameMedia
      <4>3. Full(s)
        BY <2>9, <2>10, <2>12, <4>1, <4>2
      <4> QED
        BY <4>2, <4>3 DEF Settled
    <3> QED
      BY <3>1, <3>2, <3>3
  <2>15. s \in Members /\ s.conn \in [Apps -> Conns]
    BY <2>12 DEF Typed, Members
  <2>16. /\ q \in Members /\ SameMedia(s, q) /\ Put(s.conn, q.conn, a, "none")
         /\ q.status = s.status /\ q.streams = s.streams
         /\ q.procs = s.procs /\ q.live = s.live /\ q.broken = s.broken
    <3>1. CASE p.status[a] = "started"
      <4> DEFINE c == [s.conn EXCEPT ![a] = "none"]
                 t == [s EXCEPT !.conn = c]
      <4>1. q = t
        BY <2>5, <2>15, <3>1 DEF Members
      <4>2. c \in [Apps -> Conns] /\ Put(s.conn, c, a, "none")
        BY <2>15 DEF Conns, Put
      <4> HIDE DEF c, q
      <4>3. /\ t \in Members /\ SameMedia(s, t) /\ t.conn = c
            /\ t.status = s.status /\ t.streams = s.streams
            /\ t.procs = s.procs /\ t.live = s.live /\ t.broken = s.broken
        BY <2>15, <4>2 DEF Members, SameMedia
      <4> QED
        BY <4>1, <4>2, <4>3
    <3>2. CASE p.status[a] # "started"
      <4> HIDE DEF q
      <4>1. q = DropConnector(s, a)
        BY <2>5, <3>2
      <4> QED
        BY <2>15, <4>1, DropConnectorIs
    <3> QED
      BY <3>1, <3>2
  <2> HIDE DEF q
  <2>17. Items(q) = Items(p) \ {a} /\ IsInjective(q.procs)
    BY <2>2, <2>3, <2>6, <2>12, <2>16 DEF Items
  <2>18. Typed(q)
    BY <2>12, <2>16 DEF Typed, Items
  <2>19. Urgent(q)
    <3>1. Queued(q) = Queued(s)
      BY <2>16 DEF Queued, Items
    <3> QED
      BY <2>12, <2>14, <2>16, <3>1 DEF Urgent, Ordered, Settled, Full, SameMedia
  <2>20. \A b \in Apps \ {a} : Slot(q, b)
    BY <1>0, <2>3, <2>6, <2>12, <2>16, <2>17 DEF Slot, IsRunning, Put
  <2>21. OwnedBut(q, {a}) /\ a \notin Items(q) /\ q.conn[a] = "none"
    BY <2>16, <2>17, <2>20 DEF OwnedBut, Put
  <2>22. /\ SameMedia(p, q) /\ q.status = p.status /\ q.streams = p.streams
         /\ ~q.broken => ~p.broken
    BY <2>3, <2>12, <2>16 DEF SameMedia
  <2> QED
    BY <2>18, <2>19, <2>21, <2>22 DEF q
<1> QED
  BY <1>1, <1>2
(* Nothing but what is received changes.                                   *)
LEMMA StopDownloadKeeps ==
  ASSUME NEW p, Typed(p), NEW a \in Apps
  PROVE  LET q == StopDownload(p, a)
         IN  /\ Typed(q) /\ SameSpawner(p, q)
             /\ q.mounted = p.mounted /\ q.autoStart = p.autoStart
             /\ q.code = p.code /\ q.service = p.service
             /\ q.download = p.download \ {a} /\ q.streams = p.streams \ {a}
<1> DEFINE q == StopDownload(p, a)
<1>1. p \in Members /\ p.live \subseteq Items(p)
  BY DEF Typed
<1>2. q = [p EXCEPT !.streams = p.streams \ {a}, !.download = p.download \ {a}]
  BY <1>1 DEF StopDownload, StopStreamEvents, Members
<1> HIDE DEF q
<1>3. /\ q \in Members /\ SameSpawner(p, q)
      /\ q.mounted = p.mounted /\ q.autoStart = p.autoStart
      /\ q.code = p.code /\ q.service = p.service
      /\ q.download = p.download \ {a} /\ q.streams = p.streams \ {a}
  BY <1>1, <1>2 DEF Members, SameSpawner
<1>4. Typed(q)
  BY <1>1, <1>3 DEF Typed, Items, SameSpawner
<1> QED
  BY <1>3, <1>4 DEF q

(* The same of stream events                                               *)
LEMMA StopStreamEventsKeeps ==
  ASSUME NEW p, Typed(p), NEW a \in Apps
  PROVE  LET q == StopStreamEvents(p, a)
         IN  /\ Typed(q) /\ SameSpawner(p, q) /\ SameMedia(p, q)
             /\ q.streams = p.streams \ {a}
<1> DEFINE q == StopStreamEvents(p, a)
<1>1. p \in Members /\ p.live \subseteq Items(p)
  BY DEF Typed
<1>2. /\ q \in Members /\ SameSpawner(p, q) /\ SameMedia(p, q)
      /\ q.streams = p.streams \ {a}
  BY <1>1 DEF StopStreamEvents, Members, SameSpawner, SameMedia
<1> HIDE DEF q
<1>3. Typed(q)
  BY <1>1, <1>2 DEF Typed, Items, SameSpawner
<1> QED
  BY <1>2, <1>3 DEF q

(* A download starts only with the service.                                *)
LEMMA StartDownloadKeeps ==
  ASSUME NEW p, Typed(p), NEW a \in Apps \ Local
  PROVE  LET q == StartDownload(p, a)
         IN  /\ Typed(q) /\ SameSpawner(p, q)
             /\ q.mounted = p.mounted /\ q.autoStart = p.autoStart
             /\ q.code = p.code /\ q.service = p.service
             /\ q.streams = p.streams
             /\ q.download = IF p.service THEN p.download \cup {a} ELSE p.download
<1> DEFINE q == StartDownload(p, a)
<1>1. p \in Members /\ p.live \subseteq Items(p)
  BY DEF Typed
<1>2. CASE p.service
  <2>1. q = [p EXCEPT !.download = p.download \cup {a}]
    BY <1>1, <1>2 DEF StartDownload, Members
  <2> HIDE DEF q
  <2>2. /\ q \in Members /\ SameSpawner(p, q)
        /\ q.mounted = p.mounted /\ q.autoStart = p.autoStart
        /\ q.code = p.code /\ q.service = p.service
        /\ q.streams = p.streams /\ q.download = p.download \cup {a}
    BY <1>1, <2>1 DEF Members, SameSpawner
  <2>3. Typed(q)
    BY <1>1, <2>2 DEF Typed, Items, SameSpawner
  <2> QED
    BY <1>2, <2>2, <2>3 DEF q
<1>3. CASE ~p.service
  BY <1>3 DEF StartDownload, SameSpawner
<1> QED
  BY <1>2, <1>3

(* An application that is at rest, or has been let go of, may change to    *)
(* mounted or unmounted.                                                   *)
LEMMA RestKeeps ==
  ASSUME NEW p, Typed(p), NEW a \in Apps, NEW st \in {"mounted", "unmounted"}
  PROVE  LET q == SetStatus(p, a, st)
         IN  /\ Typed(q) /\ SameMedia(p, q) /\ q.streams = p.streams
             /\ Put(p.status, q.status, a, st) /\ q.broken = p.broken
             /\ Freed(p, a) => Owned(q) /\ Urgent(q)
<1> DEFINE q == SetStatus(p, a, st)
<1>1. p \in Members /\ st \in Statuses /\ st # "waiting" /\ st # "started"
  BY DEF Typed, Statuses
<1>2. /\ q \in Members /\ SameMedia(p, q) /\ Put(p.status, q.status, a, st)
      /\ q.conn = p.conn /\ q.streams = p.streams
      /\ q.procs = p.procs /\ q.live = p.live /\ q.broken = p.broken
  BY <1>1, SetStatusIs
<1> HIDE DEF q
<1>3. Typed(q)
  BY <1>2 DEF Typed, Items
<1>4. ASSUME Freed(p, a) PROVE Owned(q) /\ Urgent(q)
  <2>1. /\ q.status[a] \in {"absent", "unmounted", "mounted"}
        /\ \A b \in Apps \ {a} : q.status[b] = p.status[b]
        /\ q.enabled = p.enabled
    BY <1>2 DEF Put, SameMedia
  <2> QED
    BY <1>2, <1>4, <2>1, Parked DEF Freed
<1> QED
  BY <1>2, <1>3, <1>4 DEF q

(* One that runs is stopped, and is mounted.                               *)
LEMMA HaltKeeps ==
  ASSUME NEW p, Typed(p), Owned(p), Urgent(p), NEW a \in Apps
  PROVE  LET q == SetStatus(IF IsRunning(p, a) THEN DoStop(p, a) ELSE p,
                            a, "mounted")
         IN  /\ Typed(q) /\ SameMedia(p, q) /\ q.streams = p.streams
             /\ Put(p.status, q.status, a, "mounted")
             /\ ~q.broken => ~p.broken /\ Owned(q) /\ Urgent(q)
<1> DEFINE s == IF IsRunning(p, a) THEN DoStop(p, a) ELSE p
           q == SetStatus(s, a, "mounted")
<1>1. /\ Typed(s) /\ SameMedia(p, s) /\ s.status = p.status
      /\ s.streams = p.streams
      /\ ~s.broken => ~p.broken /\ Freed(s, a)
  <2>1. CASE IsRunning(p, a)
    <3> DEFINE t == DoStop(p, a)
    <3>1. /\ Typed(t) /\ SameMedia(p, t)
          /\ t.status = p.status /\ t.streams = p.streams
          /\ ~t.broken => /\ ~p.broken /\ OwnedBut(t, {a}) /\ Urgent(t)
                          /\ a \notin Items(t) /\ t.conn[a] = "none"
      BY DoStopKeeps
    <3> HIDE DEF t, s
    <3>2. s = t
      BY <2>1 DEF s, t
    <3> QED
      BY <3>1, <3>2 DEF Freed
  <2>2. CASE ~IsRunning(p, a)
    <3>1. s = p
      BY <2>2
    <3>2. Freed(p, a)
      BY <2>2, Resting DEF Freed
    <3> HIDE DEF s
    <3> QED
      BY <3>1, <3>2 DEF SameMedia
  <2> QED
    BY <2>1, <2>2
<1> HIDE DEF s
<1>2. /\ Typed(q) /\ SameMedia(s, q) /\ q.streams = s.streams
      /\ Put(s.status, q.status, a, "mounted") /\ q.broken = s.broken
      /\ Freed(s, a) => Owned(q) /\ Urgent(q)
  BY <1>1, RestKeeps
<1> HIDE DEF q
<1>3. /\ Typed(q) /\ SameMedia(p, q) /\ q.streams = p.streams
      /\ Put(p.status, q.status, a, "mounted")
      /\ ~q.broken => ~p.broken /\ Owned(q) /\ Urgent(q)
  BY <1>1, <1>2 DEF SameMedia
<1> QED
  BY <1>3 DEF q, s

(* One that does not run is unmounted.                                     *)
LEMMA UnmountKeeps ==
  ASSUME NEW p, Typed(p), NEW a \in Apps
  PROVE  LET q == Unmount(p, a)
         IN  /\ Typed(q)
             /\ q.enabled = p.enabled /\ q.service = p.service
             /\ q.code = p.code /\ q.autoStart = p.autoStart
             /\ q.download = p.download /\ q.streams = p.streams
             /\ q.mounted = p.mounted \ {a} /\ q.broken = p.broken
             /\ \A b \in Apps \ {a} : q.status[b] = p.status[b]
             /\ q.status[a] \in {p.status[a], "unmounted"}
             /\ Owned(p) /\ Urgent(p) /\ ~IsRunning(p, a) =>
                  Owned(q) /\ Urgent(q)
<1> DEFINE q == Unmount(p, a)
           m == [p EXCEPT !.mounted = p.mounted \ {a}]
<1>0. p \in Members /\ p.live \subseteq Items(p)
  BY DEF Typed
<1>1. CASE a \in p.mounted
  <2>1. q = SetStatus(m, a, "unmounted")
    BY <1>0, <1>1 DEF Unmount, Members
  <2>2. /\ m \in Members /\ SameSpawner(p, m) /\ m.mounted = p.mounted \ {a}
        /\ m.service = p.service /\ m.code = p.code /\ m.autoStart = p.autoStart
        /\ m.download = p.download /\ m.streams = p.streams
    BY <1>0 DEF Members, SameSpawner
  <2> HIDE DEF m
  <2>3. Typed(m)
    BY <1>0, <2>2 DEF Typed, SameSpawner, Items
  <2> HIDE DEF q
  <2>4. /\ Typed(q) /\ SameMedia(m, q) /\ q.streams = m.streams
        /\ Put(m.status, q.status, a, "unmounted") /\ q.broken = m.broken
        /\ Freed(m, a) => Owned(q) /\ Urgent(q)
    BY <2>1, <2>3, RestKeeps
  <2>5. ASSUME Owned(p), Urgent(p), ~IsRunning(p, a)
        PROVE  Owned(q) /\ Urgent(q)
    <3>1. Owned(m) /\ Urgent(m) /\ ~IsRunning(m, a)
      BY <2>2, <2>5, Alike DEF SameSpawner, Urgent, IsRunning
    <3>2. Freed(m, a)
      BY <3>1, Resting DEF Freed
    <3> QED
      BY <2>4, <3>2
  <2>6. /\ \A b \in Apps \ {a} : q.status[b] = p.status[b]
        /\ q.status[a] = "unmounted"
    BY <2>2, <2>4 DEF Put, SameSpawner
  <2> QED
    BY <2>2, <2>4, <2>5, <2>6 DEF SameMedia, SameSpawner, q
<1>2. CASE a \notin p.mounted
  <2>1. q = p /\ p.mounted \ {a} = p.mounted
    BY <1>2 DEF Unmount
  <2> QED
    BY <2>1
<1> QED
  BY <1>1, <1>2
(* A method that leaves the others alone leaves them clean.                *)
LEMMA CleanAgain ==
  ASSUME NEW p, NEW q, NEW a \in Apps, Clean(p), Apart(p, q, a),
         \/ a \in Present(q) /\ (a \in Local => a \in q.mounted)
         \/ a \notin Present(q) /\ a \notin q.download \cup q.streams \cup q.mounted
  PROVE  Clean(q)
<1>1. q.download \cup q.streams \cup q.mounted \subseteq Present(q)
  BY DEF Clean, Apart
<1>2. Local \cap Present(q) \subseteq q.mounted
  BY DEF Clean, Apart
<1> QED
  BY <1>1, <1>2 DEF Clean

(* Application::start                                                      *)
LEMMA StartKeeps ==
  ASSUME NEW p, Typed(p), NEW a \in Apps, a \in Local => a \in p.mounted
  PROVE  LET q == Start(p, a)
         IN  /\ Typed(q) /\ (~q.broken => ~p.broken)
             /\ Sound(p) /\ a \in Present(p) =>
                  Sound(q) /\ Apart(p, q, a) /\ a \in Present(q)
<1> DEFINE q == Start(p, a)
<1>0. /\ p \in Members /\ p.live \subseteq Items(p) /\ Items(p) \subseteq Apps
  BY ItemsAreApps DEF Typed
<1>1. CASE IsRunning(p, a)
  <2>1. q = p
    BY <1>1 DEF Start
  <2>2. Apart(p, p, a)
    BY DEF Apart
  <2> HIDE DEF q
  <2> QED
    BY <2>1, <2>2 DEF q
<1>2. CASE ~IsRunning(p, a) /\ a \in p.mounted
  <2> DEFINE d == DoStart(p, a)
  <2>1. /\ Typed(d) /\ SameMedia(p, d) /\ d.streams = p.streams
        /\ ~d.broken => ~p.broken
        /\ d.status[a] \in {"starting", "waiting"}
        /\ \A b \in Apps \ {a} : \/ d.status[b] = p.status[b]
                                 \/ b \in p.live /\ d.status[b] = "waiting"
    BY DoStartTyped
  <2>2. Owned(p) /\ Urgent(p) => Owned(d) /\ Urgent(d)
    BY <1>2, DoStartKeeps
  <2>3. q = d
    BY <1>2 DEF Start
  <2> HIDE DEF d, q
  <2>4. ASSUME Sound(p), a \in Present(p)
        PROVE  Sound(d) /\ Apart(p, d, a) /\ a \in Present(d)
    <3>1. a \in Present(d)
      BY <2>1 DEF Present
    <3>2. \A b \in p.live : p.status[b] # "absent"
      BY <1>0, <2>4 DEF Sound, Owned, OwnedBut, Slot, IsRunning
    <3>3. Present(d) \ {a} = Present(p) \ {a}
      BY <2>1, <3>2 DEF Present
    <3>4. Apart(p, d, a)
      BY <2>1, <3>3 DEF Apart, SameMedia
    <3>5. Clean(d)
      BY <1>2, <2>1, <2>4, <3>1, <3>4, CleanAgain DEF Sound, SameMedia
    <3> QED
      BY <2>2, <2>4, <3>1, <3>4, <3>5 DEF Sound
  <2> QED
    BY <2>1, <2>3, <2>4 DEF q
<1>3. CASE ~IsRunning(p, a) /\ a \notin p.mounted
  <2> DEFINE r == [p EXCEPT !.autoStart = @ \cup {a}]
             d == StartDownload(r, a)
  <2>1. a \in Apps \ Local
    BY <1>3
  <2>2. /\ r \in Members /\ SameSpawner(p, r) /\ r.mounted = p.mounted
        /\ r.download = p.download /\ r.streams = p.streams
        /\ r.code = p.code /\ r.service = p.service
    BY <1>0 DEF Members, SameSpawner
  <2>3. q = d
    BY <1>3 DEF Start
  <2> HIDE DEF r
  <2>4. Typed(r)
    BY <1>0, <2>2 DEF Typed, SameSpawner, Items
  <2>5. /\ Typed(d) /\ SameSpawner(r, d)
        /\ d.mounted = r.mounted /\ d.code = r.code /\ d.service = r.service
        /\ d.streams = r.streams
        /\ d.download = IF r.service THEN r.download \cup {a} ELSE r.download
    BY <2>1, <2>4, StartDownloadKeeps
  <2> HIDE DEF d, q
  <2>6. SameSpawner(p, d)
    BY <2>2, <2>5 DEF SameSpawner
  <2>7. ASSUME Sound(p), a \in Present(p)
        PROVE  Sound(d) /\ Apart(p, d, a) /\ a \in Present(d)
    <3>1. Owned(d) /\ Urgent(d) /\ Present(d) = Present(p)
      BY <2>6, <2>7, Alike DEF SameSpawner, Sound, Urgent
    <3>2. Apart(p, d, a)
      BY <2>2, <2>5, <2>6, <3>1 DEF Apart, SameSpawner
    <3>3. Clean(d)
      BY <2>1, <2>7, <3>1, <3>2, CleanAgain DEF Sound
    <3> QED
      BY <2>7, <3>1, <3>2, <3>3 DEF Sound
  <2>8. ~d.broken => ~p.broken
    BY <2>6 DEF SameSpawner
  <2> QED
    BY <2>3, <2>5, <2>7, <2>8 DEF q
<1> QED
  BY <1>1, <1>2, <1>3

(* Application::stop leaves nothing running, nothing received.             *)
LEMMA StopKeeps ==
  ASSUME NEW p, Typed(p), Sound(p), NEW a \in Apps
  PROVE  LET q == Stop(p, a)
         IN  /\ Typed(q) /\ q.mounted = p.mounted
             /\ a \notin q.download \cup q.streams
             /\ ~IsRunning(q, a) /\ a \in Present(q)
             /\ ~q.broken => /\ ~p.broken /\ Owned(q) /\ Urgent(q)
                             /\ Apart(p, q, a)
                             /\ a \in Present(p) => Sound(q)
<1> DEFINE d == StopDownload(p, a)
           h == SetStatus(IF IsRunning(d, a) THEN DoStop(d, a) ELSE d, a, "mounted")
           q == Stop(p, a)
<1>1. /\ Typed(d) /\ SameSpawner(p, d)
      /\ d.mounted = p.mounted /\ d.autoStart = p.autoStart
      /\ d.code = p.code /\ d.service = p.service
      /\ d.download = p.download \ {a} /\ d.streams = p.streams \ {a}
  BY StopDownloadKeeps
<1>2. q = SetStatus(IF IsRunning(p, a) THEN DoStop(d, a) ELSE d, a, "mounted")
  BY DEF Stop
<1> HIDE DEF d
<1>3. q = h
  BY <1>1, <1>2 DEF IsRunning, SameSpawner
<1>4. Owned(d) /\ Urgent(d) /\ Present(d) = Present(p)
  BY <1>1, Alike DEF SameSpawner, Sound, Urgent
<1>5. /\ Typed(h) /\ SameMedia(d, h) /\ h.streams = d.streams
      /\ Put(d.status, h.status, a, "mounted")
      /\ ~h.broken => ~d.broken /\ Owned(h) /\ Urgent(h)
  BY <1>1, <1>4, HaltKeeps
<1> HIDE DEF h, q
<1>6. /\ h.mounted = p.mounted /\ a \notin h.download \cup h.streams
      /\ ~IsRunning(h, a) /\ a \in Present(h)
      /\ ~h.broken => ~p.broken
  BY <1>1, <1>5 DEF SameMedia, SameSpawner, Put, IsRunning, Present
<1>7. Present(h) \ {a} = Present(p) \ {a}
  BY <1>1, <1>5 DEF SameSpawner, Put, Present
<1>8. Apart(p, h, a)
  BY <1>1, <1>5, <1>7 DEF Apart, SameMedia, SameSpawner
<1>9. a \in Present(p) => Clean(h)
  <2>1. a \in Present(p) /\ a \in Local => a \in h.mounted
    BY <1>6 DEF Sound, Clean
  <2> QED
    BY <1>6, <1>8, <2>1, CleanAgain DEF Sound
<1> QED
  BY <1>3, <1>5, <1>6, <1>8, <1>9 DEF q, Sound

(* ApplicationExtension::remove leaves nothing.                            *)
LEMMA RemoveAppKeeps ==
  ASSUME NEW p, Typed(p), Sound(p), NEW a \in Apps
  PROVE  LET q == RemoveApp(p, a)
         IN  /\ Typed(q)
             /\ ~q.broken => /\ ~p.broken /\ Sound(q) /\ Apart(p, q, a)
                             /\ a \notin Present(q)
<1> DEFINE s == Stop(p, a)
           u == Unmount(s, a)
           st == [u.status EXCEPT ![a] = "absent"]
           q == [u EXCEPT !.status = st, !.autoStart = u.autoStart \ {a}]
<1>1. /\ Typed(s) /\ s.mounted = p.mounted
      /\ a \notin s.download \cup s.streams /\ ~IsRunning(s, a)
      /\ ~s.broken => /\ ~p.broken /\ Owned(s) /\ Urgent(s) /\ Apart(p, s, a)
  BY StopKeeps
<1> HIDE DEF s
<1>2. /\ Typed(u)
      /\ u.enabled = s.enabled /\ u.service = s.service /\ u.code = s.code
      /\ u.download = s.download /\ u.streams = s.streams
      /\ u.mounted = s.mounted \ {a} /\ u.broken = s.broken
      /\ \A b \in Apps \ {a} : u.status[b] = s.status[b]
      /\ u.status[a] \in {s.status[a], "unmounted"}
      /\ Owned(s) /\ Urgent(s) /\ ~IsRunning(s, a) => Owned(u) /\ Urgent(u)
  BY <1>1, UnmountKeeps
<1>3. RemoveApp(p, a) = [u EXCEPT !.status[a] = "absent", !.autoStart = @ \ {a}]
  BY DEF RemoveApp, s
<1> HIDE DEF u
<1>4. u \in Members /\ u.live \subseteq Items(u)
  BY <1>2 DEF Typed
<1>5. RemoveApp(p, a) = q
  BY <1>3, <1>4 DEF Members
<1>6. st \in [Apps -> Statuses] /\ Put(u.status, st, a, "absent")
  BY <1>4 DEF Members, Statuses, Put
<1> HIDE DEF st
<1>7. /\ q \in Members /\ q.status = st /\ q.procs = u.procs /\ q.live = u.live
      /\ q.conn = u.conn /\ q.enabled = u.enabled /\ q.broken = u.broken
      /\ q.service = u.service /\ q.code = u.code /\ q.download = u.download
      /\ q.streams = u.streams /\ q.mounted = u.mounted
  BY <1>4, <1>6 DEF Members
<1> HIDE DEF q
<1>8. Typed(q)
  BY <1>4, <1>7 DEF Typed, Items
<1>9. a \notin q.download \cup q.streams \cup q.mounted /\ a \notin Present(q)
  BY <1>1, <1>2, <1>6, <1>7 DEF Put, Present
<1>10. ASSUME ~q.broken
       PROVE  ~p.broken /\ Sound(q) /\ Apart(p, q, a)
  <2>1. ~s.broken /\ ~p.broken /\ Owned(u) /\ Urgent(u) /\ Apart(p, s, a)
    BY <1>1, <1>2, <1>7, <1>10
  <2>2. ~IsRunning(u, a)
    BY <1>1, <1>2 DEF IsRunning
  <2>3. OwnedBut(u, {a}) /\ a \notin Items(u) /\ u.conn[a] = "none"
    BY <2>1, <2>2, Resting
  <2>4. /\ q.status[a] \in {"absent", "unmounted", "mounted"}
        /\ \A b \in Apps \ {a} : q.status[b] = u.status[b]
    BY <1>6, <1>7 DEF Put
  <2>5. Owned(q) /\ Urgent(q)
    BY <1>7, <2>1, <2>3, <2>4, Parked
  <2>6. Present(q) \ {a} = Present(s) \ {a}
    BY <1>2, <2>4 DEF Present
  <2>7. Apart(p, q, a)
    BY <1>2, <1>7, <2>1, <2>6 DEF Apart
  <2>8. Clean(q)
    BY <1>9, <2>7, CleanAgain DEF Sound
  <2> QED
    BY <2>1, <2>5, <2>7, <2>8 DEF Sound
<1> QED
  BY <1>5, <1>8, <1>9, <1>10
(* onMounted stops the application first, also when the carousel changes,  *)
(* and starts it again if it is to start.                                  *)
LEMMA OnMountedKeeps ==
  ASSUME NEW p, Typed(p), Sound(p), NEW a \in Apps \ Local, a \in Present(p)
  PROVE  LET q == OnMounted(p, a)
         IN  /\ Typed(q)
             /\ ~q.broken => /\ ~p.broken /\ Sound(q) /\ Apart(p, q, a)
                             /\ a \in Present(q)
<1> DEFINE h == IF IsRunning(p, a) THEN SetStatus(DoStop(p, a), a, "mounted") ELSE p
           u == Unmount(h, a)
           r == StopStreamEvents(u, a)
           m == [r EXCEPT !.mounted = @ \cup {a}]
           s == SetStatus(m, a, "mounted")
           e == IF a \in s.autoStart THEN Start(s, a) ELSE s
<1>1. OnMounted(p, a) = e
  BY DEF OnMounted
<1>2. /\ Typed(h) /\ SameMedia(p, h) /\ h.streams = p.streams
      /\ \A b \in Apps \ {a} : h.status[b] = p.status[b]
      /\ ~IsRunning(h, a)
      /\ ~h.broken => ~p.broken /\ Owned(h) /\ Urgent(h)
  <2>1. CASE IsRunning(p, a)
    <3> DEFINE t == SetStatus(IF IsRunning(p, a) THEN DoStop(p, a) ELSE p,
                              a, "mounted")
    <3>1. /\ Typed(t) /\ SameMedia(p, t) /\ t.streams = p.streams
          /\ Put(p.status, t.status, a, "mounted")
          /\ ~t.broken => ~p.broken /\ Owned(t) /\ Urgent(t)
      BY HaltKeeps DEF Sound
    <3>2. h = t
      BY <2>1
    <3> HIDE DEF t, h
    <3> QED
      BY <3>1, <3>2 DEF Put, IsRunning
  <2>2. CASE ~IsRunning(p, a)
    <3>1. h = p
      BY <2>2
    <3> HIDE DEF h
    <3> QED
      BY <2>2, <3>1 DEF Sound, SameMedia
  <2> QED
    BY <2>1, <2>2
<1> HIDE DEF h
<1>3. /\ Typed(u)
      /\ u.enabled = h.enabled /\ u.service = h.service /\ u.code = h.code
      /\ u.download = h.download /\ u.streams = h.streams
      /\ u.mounted = h.mounted \ {a} /\ u.broken = h.broken
      /\ \A b \in Apps \ {a} : u.status[b] = h.status[b]
      /\ u.status[a] \in {h.status[a], "unmounted"}
      /\ Owned(h) /\ Urgent(h) /\ ~IsRunning(h, a) => Owned(u) /\ Urgent(u)
  BY <1>2, UnmountKeeps
<1>4. ~IsRunning(u, a)
  BY <1>2, <1>3 DEF IsRunning
<1> HIDE DEF u
<1>5. /\ Typed(r) /\ SameSpawner(u, r) /\ SameMedia(u, r)
      /\ r.streams = u.streams \ {a}
  BY <1>3, StopStreamEventsKeeps
<1> HIDE DEF r
<1>6. /\ m \in Members /\ SameSpawner(r, m) /\ m.mounted = r.mounted \cup {a}
      /\ m.download = r.download /\ m.streams = r.streams
      /\ m.code = r.code /\ m.service = r.service
  BY <1>5 DEF Typed, Members, SameSpawner
<1> HIDE DEF m
<1>7. Typed(m)
  BY <1>5, <1>6 DEF Typed, SameSpawner, Items
<1>8. /\ Typed(s) /\ SameMedia(m, s) /\ s.streams = m.streams
      /\ Put(m.status, s.status, a, "mounted") /\ s.broken = m.broken
      /\ Freed(m, a) => Owned(s) /\ Urgent(s)
  BY <1>7, RestKeeps
<1> HIDE DEF s
<1>9. a \in Present(s) /\ a \in s.mounted
  BY <1>6, <1>8 DEF Put, Present, SameMedia
<1>10. s.broken = h.broken
  BY <1>3, <1>5, <1>6, <1>8 DEF SameSpawner
<1>11. ASSUME ~s.broken PROVE ~p.broken /\ Sound(s) /\ Apart(p, s, a)
  <2>1. ~h.broken /\ ~p.broken
    BY <1>2, <1>10, <1>11
  <2>2. Owned(u) /\ Urgent(u)
    BY <1>2, <1>3, <2>1
  <2>3. SameSpawner(u, m)
    BY <1>5, <1>6 DEF SameSpawner
  <2>4. Owned(m) /\ Urgent(m) /\ ~IsRunning(m, a)
    BY <1>4, <2>2, <2>3, Alike DEF SameSpawner, Urgent, IsRunning
  <2>5. Freed(m, a)
    BY <2>4, Resting DEF Freed
  <2>6. \A b \in Apps \ {a} : s.status[b] = p.status[b]
    BY <1>2, <1>3, <1>8, <2>3 DEF Put, SameSpawner
  <2>7. Present(s) \ {a} = Present(p) \ {a}
    BY <2>6 DEF Present
  <2>8. /\ s.enabled = p.enabled /\ s.service = p.service /\ s.code = p.code
        /\ s.download = p.download /\ s.streams = p.streams \ {a}
        /\ s.mounted = (p.mounted \ {a}) \cup {a}
    BY <1>2, <1>3, <1>5, <1>6, <1>8 DEF SameMedia, SameSpawner
  <2>9. Apart(p, s, a)
    BY <2>7, <2>8 DEF Apart
  <2>10. Clean(s)
    BY <1>9, <2>9, CleanAgain DEF Sound
  <2> QED
    BY <1>8, <2>1, <2>5, <2>9, <2>10 DEF Sound
<1>12. CASE a \notin s.autoStart
  <2>1. e = s
    BY <1>12
  <2> HIDE DEF e
  <2> QED
    BY <1>1, <1>8, <1>9, <1>11, <2>1
<1>13. CASE a \in s.autoStart
  <2> DEFINE t == Start(s, a)
  <2>1. /\ Typed(t) /\ (~t.broken => ~s.broken)
        /\ Sound(s) /\ a \in Present(s) =>
             Sound(t) /\ Apart(s, t, a) /\ a \in Present(t)
    BY <1>8, <1>9, StartKeeps
  <2>2. e = t
    BY <1>13
  <2> HIDE DEF t, e
  <2>3. ASSUME ~t.broken
        PROVE  ~p.broken /\ Sound(t) /\ Apart(p, t, a) /\ a \in Present(t)
    <3>1. ~s.broken
      BY <2>1, <2>3
    <3>2. ~p.broken /\ Sound(s) /\ Apart(p, s, a)
      BY <1>11, <3>1
    <3>3. Sound(t) /\ Apart(s, t, a) /\ a \in Present(t)
      BY <1>9, <2>1, <3>2
    <3>4. Apart(p, t, a)
      BY <3>2, <3>3 DEF Apart
    <3> QED
      BY <3>2, <3>3, <3>4
  <2> QED
    BY <1>1, <2>1, <2>2, <2>3
<1> QED
  BY <1>12, <1>13

(* ApplicationExtension::add                                               *)
LEMMA AddKeeps ==
  ASSUME NEW p, Typed(p), Sound(p), NEW a \in Apps, a \notin Present(p),
         a \in Local => p.code[a] = NoCode
  PROVE  LET q == Add(p, a)
         IN  /\ Typed(q) /\ q.broken = p.broken /\ Sound(q) /\ Apart(p, q, a)
             /\ a \in Present(q)
<1> DEFINE auto == p.code[a] = "autostart"
           st == [p.status EXCEPT ![a] = IF a \in Local THEN "mounted" ELSE "unmounted"]
           mt == IF a \in Local THEN p.mounted \cup {a} ELSE p.mounted
           au == IF auto THEN p.autoStart \cup {a} ELSE p.autoStart
           q == [p EXCEPT !.status = st, !.mounted = mt, !.autoStart = au]
           e == IF auto \/ p.code[a] = "prefetch" THEN StartDownload(q, a) ELSE q
<1>0. p \in Members /\ p.live \subseteq Items(p)
  BY DEF Typed
<1>1. Add(p, a) = e
  BY <1>0 DEF Add, Members
<1>2. /\ st \in [Apps -> Statuses] /\ mt \subseteq Apps /\ au \subseteq Apps
      /\ st[a] \in {"mounted", "unmounted"}
      /\ \A b \in Apps \ {a} : st[b] = p.status[b]
      /\ mt \ {a} = p.mounted \ {a} /\ (a \in Local => a \in mt)
  BY <1>0 DEF Members, Statuses
<1> HIDE DEF st, mt, au
<1>3. /\ q \in Members /\ q.status = st /\ q.mounted = mt
      /\ q.procs = p.procs /\ q.live = p.live /\ q.conn = p.conn
      /\ q.enabled = p.enabled /\ q.broken = p.broken
      /\ q.download = p.download /\ q.streams = p.streams
      /\ q.code = p.code /\ q.service = p.service
  BY <1>0, <1>2 DEF Members
<1> HIDE DEF q
<1>4. Typed(q)
  BY <1>0, <1>3 DEF Typed, Items
<1>5. Owned(q) /\ Urgent(q)
  <2>1. ~IsRunning(p, a)
    BY DEF Present, IsRunning
  <2>2. OwnedBut(p, {a}) /\ a \notin Items(p) /\ p.conn[a] = "none" /\ Urgent(p)
    BY <2>1, Resting DEF Sound
  <2>3. /\ q.status[a] \in {"absent", "unmounted", "mounted"}
        /\ \A b \in Apps \ {a} : q.status[b] = p.status[b]
    BY <1>2, <1>3
  <2> QED
    BY <1>3, <2>2, <2>3, Parked
<1>6. a \in Present(q) /\ Present(q) \ {a} = Present(p) \ {a}
  BY <1>2, <1>3 DEF Present
<1>7. Apart(p, q, a)
  BY <1>2, <1>3, <1>6 DEF Apart
<1>8. Sound(q)
  <2>1. Clean(q)
    BY <1>2, <1>3, <1>6, <1>7, CleanAgain DEF Sound
  <2> QED
    BY <1>5, <2>1 DEF Sound
<1>9. CASE ~(auto \/ p.code[a] = "prefetch")
  <2>1. e = q
    BY <1>9
  <2> HIDE DEF e
  <2> QED
    BY <1>1, <1>3, <1>4, <1>6, <1>7, <1>8, <2>1
<1>10. CASE auto \/ p.code[a] = "prefetch"
  <2> DEFINE d == StartDownload(q, a)
  <2>1. a \in Apps \ Local
    BY <1>10 DEF NoCode
  <2>2. /\ Typed(d) /\ SameSpawner(q, d)
        /\ d.mounted = q.mounted
        /\ d.code = q.code /\ d.service = q.service /\ d.streams = q.streams
        /\ d.download = IF q.service THEN q.download \cup {a} ELSE q.download
    BY <1>4, <2>1, StartDownloadKeeps
  <2>3. e = d
    BY <1>10
  <2> HIDE DEF d, e
  <2>4. Owned(d) /\ Urgent(d) /\ Present(d) = Present(q)
    BY <1>5, <2>2, Alike DEF SameSpawner, Urgent
  <2>5. Apart(q, d, a)
    BY <2>2, <2>4 DEF Apart, SameSpawner
  <2>6. Clean(d)
    BY <1>6, <1>8, <2>1, <2>4, <2>5, CleanAgain DEF Sound
  <2>7. Apart(p, d, a)
    BY <1>7, <2>5 DEF Apart
  <2>8. d.broken = p.broken
    BY <1>3, <2>2 DEF SameSpawner
  <2> QED
    BY <1>1, <1>6, <2>2, <2>3, <2>4, <2>6, <2>7, <2>8 DEF Sound
<1> QED
  BY <1>9, <1>10

(* The connector tells that the application has started.                   *)
LEMMA StartedKeeps ==
  ASSUME NEW p, Typed(p), Sound(p), NEW a \in Apps, a \in Present(p)
  PROVE  LET q == SetStatus(p, a, "started")
         IN  /\ Typed(q) /\ q.broken = p.broken /\ Sound(q) /\ Apart(p, q, a)
             /\ a \in Present(q)
<1> DEFINE q == SetStatus(p, a, "started")
<1>1. p \in Members /\ p.live \subseteq Items(p) /\ "started" \in Statuses
  BY DEF Typed, Statuses
<1>2. /\ q \in Members /\ SameMedia(p, q) /\ Put(p.status, q.status, a, "started")
      /\ q.conn = p.conn
      /\ ~p.service => q.streams = p.streams
      /\ q.streams = p.streams \/ q.streams = p.streams \cup {a}
      /\ q.procs = p.procs /\ q.live = p.live /\ q.broken = p.broken
  BY <1>1, SetStatusIs
<1> HIDE DEF q
<1>3. Typed(q) /\ Items(q) = Items(p)
  BY <1>1, <1>2 DEF Typed, Items
<1>4. Urgent(q)
  <2>1. Queued(q) = Queued(p)
    BY <1>2, <1>3 DEF Queued
  <2> QED
    BY <1>2, <2>1 DEF Sound, Urgent, Ordered, Settled, Full, SameMedia
<1>5. \A b \in Apps : Slot(q, b)
  BY <1>2, <1>3 DEF Sound, Owned, OwnedBut, Slot, IsRunning, Put
<1>6. Owned(q)
  BY <1>2, <1>5 DEF Sound, Owned, OwnedBut
<1>7. a \in Present(q) /\ Present(q) \ {a} = Present(p) \ {a}
  BY <1>2 DEF Put, Present
<1>8. Apart(p, q, a)
  BY <1>2, <1>7 DEF Apart, SameMedia
<1>9. Clean(q)
  BY <1>2, <1>7, <1>8, CleanAgain DEF Sound, Clean, SameMedia
<1> QED
  BY <1>2, <1>3, <1>4, <1>6, <1>7, <1>8, <1>9 DEF q, Sound
-----------------------------------------------------------------------------
(* Lists of jobs *)

(* A job done is of one kind and of one application.                       *)
LEMMA NextJob ==
  ASSUME NEW l, l \in Seq(JobKinds \X Apps), l # <<>>,
         NEW k, NEW a, Head(l) = <<k, a>>
  PROVE  /\ k \in JobKinds /\ a \in Apps /\ Tail(l) \in Seq(JobKinds \X Apps)
         /\ Len(Tail(l)) = Len(l) - 1 /\ Len(l) \in Nat \ {0}
         /\ DOMAIN Tail(l) = 1 .. Len(l) - 1 /\ DOMAIN l = 1 .. Len(l)
         /\ l[1] = <<k, a>>
         /\ \A i \in DOMAIN Tail(l) : i + 1 \in DOMAIN l /\ Tail(l)[i] = l[i + 1]
         /\ a \in JobsOf(l, k)
         /\ \A x : JobsOf(Tail(l), x) \subseteq JobsOf(l, x)
         /\ \A x : x # k => JobsOf(Tail(l), x) = JobsOf(l, x)
         /\ JobsOf(l, k) \ {a} \subseteq JobsOf(Tail(l), k)
<1>1. /\ Len(l) \in Nat \ {0} /\ Head(l) = l[1] /\ l[1] \in JobKinds \X Apps
      /\ Tail(l) \in Seq(JobKinds \X Apps) /\ Len(Tail(l)) = Len(l) - 1
      /\ DOMAIN l = 1 .. Len(l) /\ DOMAIN Tail(l) = 1 .. Len(l) - 1
      /\ \A i \in 1 .. Len(l) - 1 : Tail(l)[i] = l[i + 1]
  OBVIOUS
<1> DEFINE t == Tail(l)
<1> HIDE DEF t
<1>2. k \in JobKinds /\ a \in Apps /\ l[1] = <<k, a>>
  BY <1>1
<1>3. \A i \in DOMAIN t : i + 1 \in DOMAIN l /\ t[i] = l[i + 1]
  BY <1>1 DEF t
<1>4. \A i \in DOMAIN l : i = 1 \/ (i - 1 \in DOMAIN t /\ t[i - 1] = l[i])
  <2>1. SUFFICES ASSUME NEW i \in DOMAIN l, i # 1
                 PROVE  i - 1 \in DOMAIN t /\ t[i - 1] = l[i]
    OBVIOUS
  <2>2. i - 1 \in 1 .. Len(l) - 1 /\ (i - 1) + 1 = i
    BY <1>1, <2>1
  <2> QED
    BY <1>1, <2>2 DEF t
<1>5. a \in JobsOf(l, k)
  BY <1>1, <1>2 DEF JobsOf
<1>6. \A x : JobsOf(t, x) \subseteq JobsOf(l, x)
  BY <1>3 DEF JobsOf
<1>7. ASSUME NEW x, NEW b \in JobsOf(l, x), x # k \/ b # a
      PROVE  b \in JobsOf(t, x)
  <2>1. PICK i \in DOMAIN l : l[i] = <<x, b>>
    BY DEF JobsOf
  <2>2. i # 1
    BY <1>2, <1>7, <2>1
  <2> QED
    BY <1>4, <2>1, <2>2 DEF JobsOf
<1>8. \A x : x # k => JobsOf(t, x) = JobsOf(l, x)
  <2>1. ASSUME NEW x, x # k PROVE JobsOf(t, x) = JobsOf(l, x)
    <3>1. JobsOf(t, x) \subseteq JobsOf(l, x)
      BY <1>6
    <3>2. \A b \in JobsOf(l, x) : b \in JobsOf(t, x)
      BY <1>7, <2>1
    <3> QED
      BY <3>1, <3>2
  <2> QED
    BY <2>1
<1>9. JobsOf(l, k) \ {a} \subseteq JobsOf(t, k)
  BY <1>7
<1> QED
  BY <1>1, <1>2, <1>3, <1>5, <1>6, <1>8, <1>9 DEF t

(* What is left of a list is in the order of the list, and an application  *)
(* that has been added is not to be added again.                           *)
LEMMA AddedLastTail ==
  ASSUME NEW l, l \in Seq(JobKinds \X Apps), l # <<>>, AddedLast(l),
         NEW k, NEW a, Head(l) = <<k, a>>
  PROVE  /\ AddedLast(Tail(l))
         /\ k = "add" => a \notin JobsOf(Tail(l), "add")
<1> DEFINE t == Tail(l)
<1>1. /\ Len(l) \in Nat \ {0} /\ l[1] = <<k, a>>
      /\ DOMAIN t = 1 .. Len(l) - 1 /\ DOMAIN l = 1 .. Len(l)
      /\ \A i \in DOMAIN t : i + 1 \in DOMAIN l /\ t[i] = l[i + 1]
  BY NextJob
<1> HIDE DEF t
<1>2. AddedLast(t)
  <2>1. SUFFICES ASSUME NEW i \in DOMAIN t, NEW j \in DOMAIN t,
                        t[i][1] = "add", t[j][1] \in {"add", "remove"},
                        t[i][2] = t[j][2]
                 PROVE  j <= i
    BY DEF AddedLast
  <2>2. j + 1 <= i + 1
    BY <1>1, <2>1 DEF AddedLast
  <2> QED
    BY <1>1, <2>2
<1>3. ASSUME k = "add", a \in JobsOf(t, "add") PROVE FALSE
  <2>1. PICK i \in DOMAIN t : t[i] = <<"add", a>>
    BY <1>3 DEF JobsOf
  <2>2. /\ l[1][1] = "add" /\ l[i + 1][1] = "add" /\ l[1][2] = l[i + 1][2]
        /\ 1 \in DOMAIN l /\ i + 1 \in DOMAIN l
    BY <1>1, <1>3, <2>1
  <2>3. i + 1 <= 1
    BY <2>2 DEF AddedLast
  <2> QED
    BY <1>1, <2>3
<1> QED
  BY <1>2, <1>3 DEF t

(* The jobs for a list of some applications are for these.                 *)
LEMMA JobsAre ==
  ASSUME NEW k \in JobKinds, NEW s, s \in Seq(Apps)
  PROVE  /\ Jobs(k, s) \in Seq(JobKinds \X Apps)
         /\ Len(Jobs(k, s)) = Len(s)
         /\ \A i \in DOMAIN Jobs(k, s) : Jobs(k, s)[i] = <<k, s[i]>>
         /\ DOMAIN Jobs(k, s) = DOMAIN s /\ DOMAIN s = 1 .. Len(s)
         /\ JobsOf(Jobs(k, s), k) = ToSet(s)
         /\ \A x : x # k => JobsOf(Jobs(k, s), x) = {}
<1> DEFINE l == Jobs(k, s)
<1>1. DOMAIN s = 1 .. Len(s) /\ Len(s) \in Nat /\ \A i \in 1 .. Len(s) : s[i] \in Apps
  OBVIOUS
<1>2. /\ l \in [1 .. Len(s) -> JobKinds \X Apps]
      /\ \A i \in 1 .. Len(s) : l[i] = <<k, s[i]>>
  BY <1>1 DEF Jobs
<1> HIDE DEF l
<1>3. l \in Seq(JobKinds \X Apps) /\ Len(l) = Len(s) /\ DOMAIN l = 1 .. Len(s)
  BY <1>1, <1>2
<1>4. JobsOf(l, k) = ToSet(s)
  <2>1. ASSUME NEW a \in Apps
        PROVE  (\E i \in DOMAIN l : l[i] = <<k, a>>) <=> a \in ToSet(s)
    <3>1. \A i \in 1 .. Len(s) : l[i] = <<k, a>> <=> s[i] = a
      BY <1>2
    <3> QED
      BY <1>1, <1>3, <3>1 DEF ToSet
  <2>2. ToSet(s) \subseteq Apps
    BY <1>1 DEF ToSet
  <2> QED
    BY <2>1, <2>2 DEF JobsOf
<1>5. \A x : x # k => JobsOf(l, x) = {}
  BY <1>2, <1>3 DEF JobsOf
<1> QED
  BY <1>1, <1>2, <1>3, <1>4, <1>5 DEF l

(* A list of a set has each member once.                                   *)
LEMMA ListOf ==
  ASSUME NEW S, S \subseteq Apps, NEW s \in SetToSeqs(S)
  PROVE  s \in Seq(Apps) /\ ToSet(s) = S /\ IsInjective(s)
<1> DEFINE n == Cardinality(S)
           D == 1 .. n
<1>1. IsFiniteSet(S) /\ n \in Nat
  BY Finite
<1> HIDE DEF n
<1>2. s \in [D -> S] /\ \A i, j \in D : i # j => s[i] # s[j]
  BY DEF SetToSeqs, n
<1>3. IsInjective(s)
  BY <1>2 DEF IsInjective
<1>4. s \in Injection(D, S)
  BY <1>2, <1>3 DEF Injection
<1>5. Cardinality(D) = n
  <2>1. Cardinality(D) = IF 1 > n THEN 0 ELSE n - 1 + 1
    BY <1>1, FS_Interval
  <2> QED
    BY <1>1, <2>1
<1>6. s \in Surjection(D, S)
  BY <1>1, <1>4, <1>5, FS_Injection DEF n
<1>7. ToSet(s) = S
  BY <1>2, <1>6 DEF ToSet, Surjection
<1>8. s \in Seq(Apps)
  BY <1>1, <1>2
<1> QED
  BY <1>3, <1>7, <1>8

(* One list after another                                                  *)
LEMMA JobsJoined ==
  ASSUME NEW l, l \in Seq(JobKinds \X Apps), NEW m, m \in Seq(JobKinds \X Apps)
  PROVE  /\ l \o m \in Seq(JobKinds \X Apps)
         /\ \A x : JobsOf(l \o m, x) = JobsOf(l, x) \cup JobsOf(m, x)
<1> DEFINE t == l \o m
<1>1. /\ t \in Seq(JobKinds \X Apps) /\ Len(t) = Len(l) + Len(m)
      /\ \A i \in 1 .. Len(l) + Len(m) :
           t[i] = IF i <= Len(l) THEN l[i] ELSE m[i - Len(l)]
  BY ConcatProperties
<1>2. /\ Len(l) \in Nat /\ Len(m) \in Nat /\ DOMAIN l = 1 .. Len(l)
      /\ DOMAIN m = 1 .. Len(m)
  OBVIOUS
<1> HIDE DEF t
<1>3. DOMAIN t = 1 .. Len(l) + Len(m)
  BY <1>1
<1>4. \A i \in DOMAIN t : \/ \E j \in DOMAIN l : t[i] = l[j]
                          \/ \E j \in DOMAIN m : t[i] = m[j]
  <2>1. SUFFICES ASSUME NEW i \in DOMAIN t
                 PROVE  \/ \E j \in DOMAIN l : t[i] = l[j]
                        \/ \E j \in DOMAIN m : t[i] = m[j]
    OBVIOUS
  <2>2. CASE i <= Len(l)
    BY <1>1, <1>2, <1>3, <2>2
  <2>3. CASE ~(i <= Len(l))
    <3>1. i - Len(l) \in DOMAIN m
      BY <1>2, <1>3, <2>3
    <3> QED
      BY <1>1, <1>3, <2>3, <3>1
  <2> QED
    BY <2>2, <2>3
<1>5. \A j \in DOMAIN l : j \in DOMAIN t /\ t[j] = l[j]
  BY <1>1, <1>2, <1>3
<1>6. \A j \in DOMAIN m : j + Len(l) \in DOMAIN t /\ t[j + Len(l)] = m[j]
  <2>1. SUFFICES ASSUME NEW j \in DOMAIN m
                 PROVE  j + Len(l) \in DOMAIN t /\ t[j + Len(l)] = m[j]
    OBVIOUS
  <2>2. /\ j + Len(l) \in 1 .. Len(l) + Len(m) /\ ~(j + Len(l) <= Len(l))
        /\ (j + Len(l)) - Len(l) = j
    BY <1>2
  <2> QED
    BY <1>1, <1>3, <2>2
<1>7. ASSUME NEW x PROVE JobsOf(t, x) = JobsOf(l, x) \cup JobsOf(m, x)
  <2>1. \A a \in JobsOf(t, x) : a \in JobsOf(l, x) \cup JobsOf(m, x)
    BY <1>4 DEF JobsOf
  <2>2. \A a \in JobsOf(l, x) \cup JobsOf(m, x) : a \in JobsOf(t, x)
    BY <1>5, <1>6 DEF JobsOf
  <2> QED
    BY <2>1, <2>2
<1> QED
  BY <1>1, <1>7 DEF t

(* Each application is added once, after what else is done.                *)
LEMMA AddedLastJoined ==
  ASSUME NEW l, l \in Seq(JobKinds \X Apps), JobsOf(l, "add") = {},
         NEW s, s \in Seq(Apps), IsInjective(s)
  PROVE  AddedLast(l \o Jobs("add", s))
<1> DEFINE m == Jobs("add", s)
           t == l \o m
<1>1. "add" \in JobKinds
  BY DEF JobKinds
<1>2. /\ m \in Seq(JobKinds \X Apps) /\ Len(m) = Len(s)
      /\ \A i \in DOMAIN m : m[i] = <<"add", s[i]>>
      /\ DOMAIN m = DOMAIN s /\ DOMAIN s = 1 .. Len(s)
  BY <1>1, JobsAre
<1> HIDE DEF m
<1>3. /\ t \in Seq(JobKinds \X Apps) /\ Len(t) = Len(l) + Len(m)
      /\ \A i \in 1 .. Len(l) + Len(m) :
           t[i] = IF i <= Len(l) THEN l[i] ELSE m[i - Len(l)]
  <2>1. l \in Seq(JobKinds \X Apps) /\ m \in Seq(JobKinds \X Apps)
    BY <1>2
  <2> QED
    BY ONLY <2>1, ConcatProperties
<1>4. /\ Len(l) \in Nat /\ Len(m) \in Nat /\ DOMAIN l = 1 .. Len(l)
      /\ \A i \in DOMAIN l : l[i] \in JobKinds \X Apps
  BY <1>2
<1> HIDE DEF t
<1>5. DOMAIN t = 1 .. Len(l) + Len(m)
  BY <1>3
<1>6. \A i \in DOMAIN l : l[i][1] # "add"
  <2>1. SUFFICES ASSUME NEW i \in DOMAIN l, l[i][1] = "add" PROVE FALSE
    OBVIOUS
  <2>2. l[i] = <<"add", l[i][2]>> /\ l[i][2] \in Apps
    BY <1>4, <2>1
  <2> QED
    BY <2>2 DEF JobsOf
<1>7. ASSUME NEW i \in DOMAIN t, i > Len(l)
      PROVE  i - Len(l) \in DOMAIN s /\ t[i] = <<"add", s[i - Len(l)]>>
  <2>1. i - Len(l) \in DOMAIN m /\ ~(i <= Len(l))
    BY <1>2, <1>4, <1>5, <1>7
  <2> QED
    BY <1>2, <1>3, <1>5, <2>1
<1>8. SUFFICES ASSUME NEW i \in DOMAIN t, NEW j \in DOMAIN t,
                      t[i][1] = "add", t[i][2] = t[j][2], j > i
               PROVE  FALSE
  BY <1>4, <1>5 DEF AddedLast, t, m
<1>9. i > Len(l)
  <2>1. SUFFICES ASSUME i <= Len(l) PROVE FALSE
    BY <1>4, <1>5
  <2>2. i \in DOMAIN l /\ t[i] = l[i]
    BY <1>3, <1>4, <1>5, <2>1
  <2> QED
    BY <1>6, <1>8, <2>2
<1>10. j > Len(l)
  BY <1>4, <1>5, <1>8, <1>9
<1>11. s[i - Len(l)] = s[j - Len(l)]
  BY <1>7, <1>8, <1>9, <1>10
<1>12. i - Len(l) = j - Len(l)
  BY <1>7, <1>9, <1>10, <1>11 DEF IsInjective
<1> QED
  BY <1>4, <1>5, <1>8, <1>12
-----------------------------------------------------------------------------
(* A job *)

(* With as many processes as items none waits.                             *)
LEMMA AllRun ==
  ASSUME NEW p, Typed(p), Cardinality(p.live) >= Len(p.procs)
  PROVE  Full(p)
<1>1. /\ p.procs \in Seq(Apps) /\ p.live \subseteq Items(p) /\ p.live \subseteq Apps
      /\ Items(p) \subseteq Apps /\ Len(p.procs) \in Nat
      /\ p.procs \in [1 .. Len(p.procs) -> Apps]
  BY ItemsAreApps DEF Typed, Members
<1>2. /\ IsFiniteSet(Items(p)) /\ Cardinality(Items(p)) \in Nat
      /\ Cardinality(p.live) \in Nat
  BY <1>1, Finite
<1>3. Cardinality(Items(p)) <= Len(p.procs)
  <2>1. p.procs \in Surjection(1 .. Len(p.procs), Items(p))
    BY <1>1 DEF Surjection, Items, ToSet
  <2> QED
    BY <1>1, <2>1, FS_SurjCardinalityBound DEF ExistsSurjection
<1>4. Cardinality(p.live) <= Cardinality(Items(p))
  BY <1>1, <1>2, FS_Subset
<1>5. Cardinality(p.live) = Cardinality(Items(p))
  BY <1>1, <1>2, <1>3, <1>4
<1>6. p.live = Items(p)
  BY <1>1, <1>2, <1>5, FS_Subset
<1> QED
  BY <1>6 DEF Full, Queued

(* One turn of Spawner::enable runs one that waits, as long as there are   *)
(* some and there is room, or preempts one that runs.                      *)
LEMMA EnableTurnKeeps ==
  ASSUME NEW p, Typed(p), Owned(p), Ordered(p), Clean(p), NEW a \in Apps
  PROVE  LET q == EnableTurn(p, a)
         IN  /\ Typed(q) /\ Owned(q) /\ Ordered(q) /\ Clean(q)
             /\ SameMedia(p, q) /\ q.streams = p.streams
             /\ Present(q) = Present(p) /\ q.procs = p.procs
             /\ ~q.broken => ~p.broken
             /\ p.enabled => \/ Full(q)
                             \/ /\ ~Full(p)
                                /\ Cardinality(q.live) = Cardinality(p.live) + 1
             /\ ~p.enabled => q.live = p.live \ {a}
<1> DEFINE q == EnableTurn(p, a)
<1>0. /\ p \in Members /\ p.live \subseteq Items(p) /\ p.live \subseteq Apps
      /\ Items(p) \subseteq Apps /\ MaxParallel \in Nat
      /\ Cardinality(p.live) \in Nat /\ p.enabled \in BOOLEAN
      /\ p.conn \in [Apps -> Conns] /\ IsInjective(p.procs)
      /\ \A b \in Apps : Slot(p, b)
  BY ItemsAreApps, Finite, ApplicationsAssumption
     DEF Typed, Members, Owned, OwnedBut
<1>1. CASE p.enabled
  <2> DEFINE r == RunQueued(p)
  <2>1. q = r
    BY <1>1 DEF EnableTurn
  <2>2. /\ Typed(r) /\ Ordered(r) /\ SameMedia(p, r)
        /\ r.status = p.status /\ r.streams = p.streams
        /\ r.procs = p.procs /\ p.live \subseteq r.live
        /\ ~r.broken => ~p.broken
        /\ \/ Full(r)
           \/ Cardinality(r.live) = Cardinality(p.live) + 1
        /\ Cardinality(p.live) + 1 >= MaxParallel => Full(r)
        /\ \A b \in Apps : \/ r.conn[b] = p.conn[b]
                           \/ b \in Items(p) /\ r.conn[b] # "none"
    BY <1>1, RunQueuedKeeps
  <2>3. Full(p) => Full(r)
    <3>1. Queued(p) = {} => r = p
      BY DEF RunQueued
    <3> QED
      BY <1>0, <2>2, <3>1 DEF Full
  <2> HIDE DEF r, q
  <2>4. Items(r) = Items(p) /\ Present(r) = Present(p)
    BY <2>2 DEF Items, Present
  <2>5. \A b \in Apps : Slot(r, b)
    BY <1>0, <2>2, <2>4 DEF Slot, IsRunning
  <2>6. Owned(r)
    BY <1>0, <2>2, <2>5 DEF Owned, OwnedBut
  <2>7. Clean(r)
    BY <2>2, <2>4 DEF Clean, SameMedia
  <2> QED
    BY <1>1, <2>1, <2>2, <2>3, <2>4, <2>6, <2>7 DEF q
<1>2. CASE ~p.enabled /\ a \notin p.live
  <2>1. q = p /\ p.live \ {a} = p.live
    BY <1>2 DEF EnableTurn
  <2> HIDE DEF q
  <2> QED
    BY <1>2, <2>1 DEF q, SameMedia
<1>3. CASE ~p.enabled /\ a \in p.live
  <2> DEFINE r == Preempt(p, a)
  <2>1. q = r
    BY <1>3 DEF EnableTurn
  <2>2. /\ r \in Members /\ SameMedia(p, r)
        /\ Put(p.status, r.status, a, "waiting")
        /\ IF p.status[a] # "waiting"
             THEN Put(p.conn, r.conn, a, "none") ELSE r.conn = p.conn
        /\ r.streams = p.streams /\ r.procs = p.procs
        /\ r.live = p.live \ {a} /\ r.broken = p.broken
    BY <1>0, PreemptIs
  <2> HIDE DEF r, q
  <2>3. Items(r) = Items(p)
    BY <2>2 DEF Items
  <2>4. Typed(r)
    BY <1>0, <2>2, <2>3 DEF Typed
  <2>5. \A b \in Apps : Slot(r, b)
    BY <1>0, <1>3, <2>2, <2>3 DEF Slot, IsRunning, Put
  <2>6. Owned(r)
    BY <1>0, <2>2, <2>5 DEF Owned, OwnedBut
  <2>7. Cardinality(r.live) <= Cardinality(p.live) /\ Cardinality(r.live) \in Nat
    BY <1>0, <2>2, Finite, FS_Subset
  <2>8. Ordered(r)
    BY <1>0, <1>3, <2>2, <2>7 DEF Ordered, SameMedia
  <2>9. Present(r) = Present(p)
    BY <1>0, <1>3, <2>2 DEF Present, Put, Slot, IsRunning
  <2>10. Clean(r)
    BY <2>2, <2>9 DEF Clean, SameMedia
  <2> QED
    BY <1>3, <2>1, <2>2, <2>4, <2>6, <2>8, <2>9, <2>10 DEF q
<1> QED
  BY <1>1, <1>2, <1>3

(* Any other job is about one application: it is there after it has been   *)
(* added, not after it has been removed, and otherwise as before.          *)
LEMMA JobEffect ==
  ASSUME NEW p, Typed(p), Sound(p),
         NEW k \in (JobKinds \cup {"started"}) \ {"enable"}, NEW a \in Apps,
         k = "add" => a \notin Present(p), k = "download" => a \notin Local,
         a \in Local => p.code[a] = NoCode
  PROVE  LET q == DoJob(p, <<k, a>>)
         IN  /\ Typed(q)
             /\ ~q.broken =>
                  /\ ~p.broken /\ Sound(q) /\ Apart(p, q, a)
                  /\ k = "add" => a \in Present(q)
                  /\ k = "remove" => a \notin Present(q)
                  /\ k \notin {"add", "remove"} => Present(q) = Present(p)
                  /\ k \in {"remove", "stopDownload"} =>
                       a \notin q.download \cup q.streams
<1> DEFINE q == DoJob(p, <<k, a>>)
           Done(r) == /\ Typed(r)
                      /\ ~r.broken =>
                           /\ ~p.broken /\ Sound(r) /\ Apart(p, r, a)
                           /\ k = "add" => a \in Present(r)
                           /\ k = "remove" => a \notin Present(r)
                           /\ k \notin {"add", "remove"} => Present(r) = Present(p)
                           /\ k \in {"remove", "stopDownload"} =>
                                a \notin r.download \cup r.streams
<1>0. /\ k \in {"add", "remove", "start", "stop", "download", "stopDownload",
                "started"}
      /\ <<k, a>>[1] = k /\ <<k, a>>[2] = a
  BY DEF JobKinds
<1>1. a \notin Present(p) /\ k # "add" =>
        q = p
  BY <1>0 DEF DoJob
<1>2. a \notin Present(p) /\ k = "add" => q = Add(p, a)
  BY <1>0 DEF DoJob
<1>3. a \in Present(p) =>
        /\ k = "start" => q = Start(p, a)
        /\ k = "stop" => q = Stop(p, a)
        /\ k = "download" => q = StartDownload(p, a)
        /\ k = "stopDownload" => q = StopDownload(p, a)
        /\ k = "remove" => q = RemoveApp(p, a)
        /\ k = "started" => q = SetStatus(p, a, "started")
  BY <1>0 DEF DoJob
<1>4. Apart(p, p, a)
  BY DEF Apart
<1>5. \A r : Apart(p, r, a) /\ (a \in Present(p) <=> a \in Present(r)) =>
        Present(r) = Present(p)
  BY DEF Apart
<1> HIDE DEF q
<1>6. CASE a \notin Present(p) /\ k # "add"
  <2>1. a \notin p.download \cup p.streams
    BY <1>6 DEF Sound, Clean
  <2> QED
    BY <1>1, <1>4, <1>6, <2>1 DEF q
<1>7. CASE a \notin Present(p) /\ k = "add"
  BY <1>2, <1>7, AddKeeps DEF q
<1>8. CASE a \in Present(p)
  <2>1. k # "add"
    BY <1>8
  <2>2. CASE k = "start"
    <3>1. a \in Local => a \in p.mounted
      BY <1>8 DEF Sound, Clean
    <3> DEFINE r == Start(p, a)
    <3>2. /\ Typed(r) /\ (~r.broken => ~p.broken)
          /\ Sound(r) /\ Apart(p, r, a) /\ a \in Present(r)
      BY <1>8, <3>1, StartKeeps
    <3>3. q = r
      BY <1>3, <1>8, <2>2
    <3> HIDE DEF r
    <3>4. Done(r)
      BY <1>5, <1>8, <2>2, <3>2
    <3> QED
      BY <3>3, <3>4 DEF q
  <2>3. CASE k = "stop"
    <3> DEFINE r == Stop(p, a)
    <3>1. /\ Typed(r) /\ a \in Present(r)
          /\ ~r.broken => ~p.broken /\ Sound(r) /\ Apart(p, r, a)
      BY <1>8, StopKeeps
    <3>2. q = r
      BY <1>3, <1>8, <2>3
    <3> HIDE DEF r
    <3>3. Done(r)
      BY <1>5, <1>8, <2>3, <3>1
    <3> QED
      BY <3>2, <3>3 DEF q
  <2>4. CASE k = "download"
    <3> DEFINE r == StartDownload(p, a)
    <3>1. a \in Apps \ Local
      BY <2>4
    <3>2. /\ Typed(r) /\ SameSpawner(p, r)
          /\ r.mounted = p.mounted
          /\ r.code = p.code /\ r.service = p.service
          /\ r.streams = p.streams
          /\ r.download = IF p.service THEN p.download \cup {a} ELSE p.download
      BY <3>1, StartDownloadKeeps
    <3>3. q = r
      BY <1>3, <1>8, <2>4
    <3> HIDE DEF r
    <3>4. Owned(r) /\ Urgent(r) /\ Present(r) = Present(p)
      BY <3>2, Alike DEF SameSpawner, Sound, Urgent
    <3>5. Apart(p, r, a)
      BY <3>2, <3>4 DEF Apart, SameSpawner
    <3>6. Clean(r)
      BY <1>8, <3>1, <3>4, <3>5, CleanAgain DEF Sound
    <3>7. Done(r)
      BY <2>4, <3>2, <3>4, <3>5, <3>6 DEF Sound, SameSpawner
    <3> QED
      BY <3>3, <3>7 DEF q
  <2>5. CASE k = "stopDownload"
    <3> DEFINE r == StopDownload(p, a)
    <3>1. /\ Typed(r) /\ SameSpawner(p, r)
          /\ r.mounted = p.mounted
          /\ r.code = p.code /\ r.service = p.service
          /\ r.download = p.download \ {a} /\ r.streams = p.streams \ {a}
      BY StopDownloadKeeps
    <3>2. q = r
      BY <1>3, <1>8, <2>5
    <3> HIDE DEF r
    <3>3. Owned(r) /\ Urgent(r) /\ Present(r) = Present(p)
      BY <3>1, Alike DEF SameSpawner, Sound, Urgent
    <3>4. Apart(p, r, a)
      BY <3>1, <3>3 DEF Apart, SameSpawner
    <3>5. Clean(r)
      BY <3>1, <3>3 DEF Sound, Clean
    <3>6. Done(r)
      BY <2>5, <3>1, <3>3, <3>4, <3>5 DEF Sound, SameSpawner
    <3> QED
      BY <3>2, <3>6 DEF q
  <2>6. CASE k = "remove"
    <3> DEFINE r == RemoveApp(p, a)
    <3>1. /\ Typed(r)
          /\ ~r.broken => /\ ~p.broken /\ Sound(r) /\ Apart(p, r, a)
                          /\ a \notin Present(r)
      BY RemoveAppKeeps
    <3>2. q = r
      BY <1>3, <1>8, <2>6
    <3> HIDE DEF r
    <3>3. Sound(r) /\ a \notin Present(r) => a \notin r.download \cup r.streams
      BY DEF Sound, Clean
    <3>4. Done(r)
      BY <2>6, <3>1, <3>3
    <3> QED
      BY <3>2, <3>4 DEF q
  <2>7. CASE k = "started"
    <3> DEFINE r == SetStatus(p, a, "started")
    <3>1. /\ Typed(r) /\ r.broken = p.broken /\ Sound(r) /\ Apart(p, r, a)
          /\ a \in Present(r)
      BY <1>8, StartedKeeps
    <3>2. q = r
      BY <1>3, <1>8, <2>7
    <3> HIDE DEF r
    <3>3. Done(r)
      BY <1>5, <1>8, <2>7, <3>1
    <3> QED
      BY <3>2, <3>3 DEF q
  <2> QED
    BY <1>0, <2>1, <2>2, <2>3, <2>4, <2>5, <2>6, <2>7
<1> QED
  BY <1>6, <1>7, <1>8
(* A job does what its list promises, and leaves the rest to the others.   *)
LEMMA JobKeeps ==
  ASSUME NEW p, Typed(p), NEW l, l \in Seq(JobKinds \X Apps), l # <<>>,
         Coherent(p, l)
  PROVE  LET q == DoJob(p, Head(l))
         IN  Typed(q) /\ (~q.broken => ~p.broken /\ Coherent(q, Tail(l)))
<1> DEFINE q == DoJob(p, Head(l))
           t == Tail(l)
<1>1. PICK k, a : Head(l) = <<k, a>>
  <2>1. Head(l) \in JobKinds \X Apps
    OBVIOUS
  <2> QED
    BY <2>1
<1>2. /\ k \in JobKinds /\ a \in Apps /\ t \in Seq(JobKinds \X Apps)
      /\ Len(t) = Len(l) - 1 /\ Len(l) \in Nat \ {0}
      /\ DOMAIN t = 1 .. Len(l) - 1 /\ DOMAIN l = 1 .. Len(l)
      /\ l[1] = <<k, a>>
      /\ \A i \in DOMAIN t : i + 1 \in DOMAIN l /\ t[i] = l[i + 1]
      /\ a \in JobsOf(l, k)
      /\ \A x : JobsOf(t, x) \subseteq JobsOf(l, x)
      /\ \A x : x # k => JobsOf(t, x) = JobsOf(l, x)
      /\ JobsOf(l, k) \ {a} \subseteq JobsOf(t, k)
  BY <1>1, NextJob
<1>3. Switched(l) <=> k = "enable"
  BY <1>1 DEF Switched
<1>4. /\ Owned(p) /\ Clean(p) /\ Ordered(p)
      /\ EnableInv(p, l) /\ JobInv(p, l) /\ CodeInv(p, l) /\ ServiceInv(p, l)
  BY DEF Coherent
<1>5. AddedLast(t) /\ (k = "add" => a \notin JobsOf(t, "add"))
  BY <1>1, <1>4, AddedLastTail DEF JobInv
<1>6. Switched(t) => t # <<>> /\ JobsOf(t, "enable") # {}
  <2>1. SUFFICES ASSUME t # <<>>, Head(t)[1] = "enable"
                 PROVE  JobsOf(t, "enable") # {}
    BY DEF Switched
  <2>2. Head(t) \in JobKinds \X Apps /\ Head(t) = t[1] /\ 1 \in DOMAIN t
    BY <1>2, <2>1
  <2>3. t[1] = <<"enable", t[1][2]>> /\ t[1][2] \in Apps
    BY <2>1, <2>2
  <2> QED
    BY <2>2, <2>3 DEF JobsOf
<1>7. p.enabled \in BOOLEAN /\ p.procs \in Seq(Apps)
  BY DEF Typed, Members
<1> HIDE DEF t
<1>8. CASE k = "enable"
  <2> DEFINE r == EnableTurn(p, a)
  <2>1. q = r
    BY <1>1, <1>8 DEF DoJob
  <2>2. /\ Typed(r) /\ Owned(r) /\ Ordered(r) /\ Clean(r)
        /\ SameMedia(p, r) /\ r.streams = p.streams
        /\ Present(r) = Present(p) /\ r.procs = p.procs
        /\ ~r.broken => ~p.broken
        /\ p.enabled => \/ Full(r)
                        \/ /\ ~Full(p)
                           /\ Cardinality(r.live) = Cardinality(p.live) + 1
        /\ ~p.enabled => r.live = p.live \ {a}
    BY <1>2, <1>4, EnableTurnKeeps
  <2> HIDE DEF r, q
  <2>3. /\ \A i \in DOMAIN l : l[i][1] = "enable"
        /\ p.enabled => Full(p) \/ Cardinality(p.live) + Len(l) >= Len(p.procs)
        /\ ~p.enabled => p.live \subseteq JobsOf(l, "enable")
    BY <1>3, <1>4, <1>8 DEF EnableInv
  <2>4. \A i \in DOMAIN t : t[i][1] = "enable"
    BY <1>2, <2>3
  <2>5. r.enabled => Full(r) \/ Cardinality(r.live) + Len(t) >= Len(r.procs)
    <3>1. /\ Cardinality(p.live) \in Nat /\ Len(p.procs) \in Nat
          /\ r.enabled = p.enabled
      BY <1>7, <2>2, Finite DEF Typed, Members, SameMedia
    <3> QED
      BY <1>2, <2>2, <2>3, <3>1
  <2>6. ~r.enabled => r.live \subseteq JobsOf(t, "enable")
    BY <1>2, <1>8, <2>2, <2>3 DEF SameMedia
  <2>7. EnableInv(r, t)
    <3>1. CASE t = <<>>
      <4>1. /\ ~Switched(t) /\ JobsOf(t, "enable") = {} /\ Len(t) = 0
        BY <3>1 DEF Switched, JobsOf
      <4>2. Cardinality(r.live) \in Nat /\ Len(r.procs) \in Nat
        BY <2>2, Finite DEF Typed, Members
      <4>3. r.enabled => Full(r)
        BY <2>2, <2>5, <4>1, <4>2, AllRun
      <4>4. Settled(r)
        BY <2>6, <4>1, <4>3 DEF Settled
      <4> QED
        BY <4>1, <4>4 DEF EnableInv
    <3>2. CASE t # <<>>
      <4>1. 1 \in DOMAIN t /\ Head(t) = t[1]
        BY <1>2, <3>2
      <4>2. Switched(t)
        BY <2>4, <3>2, <4>1 DEF Switched
      <4> QED
        BY <2>4, <2>5, <2>6, <4>2 DEF EnableInv
    <3> QED
      BY <3>1, <3>2
  <2>8. \A x : x # "enable" => JobsOf(t, x) = JobsOf(l, x)
    BY <1>2, <1>8
  <2>9. /\ JobsOf(t, "add") = JobsOf(l, "add")
        /\ JobsOf(t, "remove") = JobsOf(l, "remove")
        /\ JobsOf(t, "download") = JobsOf(l, "download")
        /\ JobsOf(t, "stopDownload") = JobsOf(l, "stopDownload")
    BY <2>8
  <2>10. JobInv(r, t)
    BY <1>4, <1>5, <2>2, <2>9 DEF JobInv
  <2>11. CodeInv(r, t)
    BY <1>4, <2>2, <2>9 DEF CodeInv, SameMedia
  <2>12. ServiceInv(r, t)
    BY <1>4, <2>2, <2>9 DEF ServiceInv, SameMedia
  <2>13. Coherent(r, t)
    BY <2>2, <2>7, <2>10, <2>11, <2>12 DEF Coherent
  <2> QED
    BY <2>1, <2>2, <2>13 DEF q, t
<1>9. CASE k # "enable"
  <2>1. ~Switched(l) /\ JobsOf(l, "enable") = {} /\ Settled(p)
    BY <1>3, <1>4, <1>9 DEF EnableInv
  <2>2. Sound(p)
    BY <1>4, <2>1 DEF Sound, Urgent
  <2>3. k = "add" => a \notin Present(p)
    <3>1. SUFFICES ASSUME k = "add", a \in Present(p) PROVE FALSE
      OBVIOUS
    <3>2. a \in JobsOf(l, "remove")
      BY <1>2, <1>4, <3>1 DEF JobInv
    <3>3. PICK j \in DOMAIN l : l[j] = <<"remove", a>>
      BY <3>2 DEF JobsOf
    <3>4. /\ 1 \in DOMAIN l /\ l[1][1] = "add" /\ l[j][1] = "remove"
          /\ l[1][2] = l[j][2]
      BY <1>2, <3>1, <3>3
    <3>5. j <= 1
      BY <1>4, <3>4 DEF JobInv, AddedLast
    <3>6. j = 1
      BY <1>2, <3>5
    <3> QED
      BY <3>4, <3>6
  <2>4. a \in Local => p.code[a] = NoCode /\ a \notin JobsOf(l, "download")
    BY <1>2, <1>4 DEF CodeInv
  <2>5. /\ Typed(q)
        /\ ~q.broken =>
             /\ ~p.broken /\ Sound(q) /\ Apart(p, q, a)
             /\ k = "add" => a \in Present(q)
             /\ k = "remove" => a \notin Present(q)
             /\ k \notin {"add", "remove"} => Present(q) = Present(p)
             /\ k \in {"remove", "stopDownload"} =>
                  a \notin q.download \cup q.streams
    <3>1. k \in (JobKinds \cup {"started"}) \ {"enable"}
      BY <1>2, <1>9
    <3>2. k = "download" => a \notin Local
      BY <1>2, <2>4
    <3> QED
      BY <1>1, <1>2, <2>2, <2>3, <2>4, <3>1, <3>2, JobEffect
  <2> HIDE DEF q
  <2>6. ASSUME ~q.broken PROVE ~p.broken /\ Coherent(q, t)
    <3>1. /\ ~p.broken /\ Sound(q) /\ Apart(p, q, a)
          /\ k = "add" => a \in Present(q)
          /\ k = "remove" => a \notin Present(q)
          /\ k \notin {"add", "remove"} => Present(q) = Present(p)
          /\ k \in {"remove", "stopDownload"} =>
               a \notin q.download \cup q.streams
      BY <2>5, <2>6
    <3> DEFINE ad == JobsOf(t, "add")
               re == JobsOf(t, "remove")
               sd == JobsOf(t, "stopDownload")
               dl == JobsOf(t, "download")
               lad == JobsOf(l, "add")
               lre == JobsOf(l, "remove")
               lsd == JobsOf(l, "stopDownload")
               ldl == JobsOf(l, "download")
    <3>2. /\ ad \subseteq lad /\ lad \ {a} \subseteq ad
          /\ re \subseteq lre /\ lre \ {a} \subseteq re
          /\ sd \subseteq lsd /\ lsd \ {a} \subseteq sd
          /\ dl \subseteq ldl
          /\ k # "add" => ad = lad
          /\ k # "remove" => re = lre
          /\ k # "stopDownload" => sd = lsd
          /\ k = "add" => a \in lad /\ a \notin ad
          /\ k = "remove" => a \in lre
      BY <1>2, <1>5
    <3>3. /\ lad \cap Present(p) \subseteq lre
          /\ \A b \in Apps :
               IF b \in Local THEN p.code[b] = NoCode /\ b \notin ldl
                 ELSE /\ b \in lad => p.service /\ p.code[b] # NoCode
                      /\ b \in lre => p.code[b] = NoCode
                      /\ b \notin lad \cup lre =>
                           (p.code[b] # NoCode <=> b \in Present(p))
          /\ ~p.service =>
               /\ p.download \cup p.streams \subseteq lre \cup lsd
               /\ Bound \cap Present(p) \subseteq lre
      BY <1>4 DEF JobInv, CodeInv, ServiceInv
    <3>4. JobsOf(t, "enable") = {}
      BY <1>2, <2>1
    <3> HIDE DEF ad, re, sd, dl, lad, lre, lsd, ldl
    <3>5. EnableInv(q, t)
      BY <1>6, <3>1, <3>4 DEF EnableInv, Sound, Urgent
    <3>6. JobInv(q, t)
      <4>1. ad \cap Present(q) \subseteq re
        BY <3>1, <3>2, <3>3 DEF Apart
      <4> QED
        BY <1>5, <4>1 DEF JobInv, ad, re
    <3>7. CodeInv(q, t)
      <4>1. ASSUME NEW b \in Apps
            PROVE  IF b \in Local THEN q.code[b] = NoCode /\ b \notin dl
                     ELSE /\ b \in ad => q.service /\ q.code[b] # NoCode
                          /\ b \in re => q.code[b] = NoCode
                          /\ b \notin ad \cup re =>
                               (q.code[b] # NoCode <=> b \in Present(q))
        <5>1. q.code = p.code /\ q.service = p.service
          BY <3>1 DEF Apart
        <5>2. CASE b \in Local
          BY <3>2, <3>3, <5>1, <5>2
        <5>3. CASE b \notin Local /\ b # a
          <6>1. b \in Present(q) <=> b \in Present(p)
            BY <3>1, <5>3 DEF Apart
          <6> QED
            BY <3>2, <3>3, <5>1, <5>3, <6>1
        <5>4. CASE b \notin Local /\ b = a
          BY <3>1, <3>2, <3>3, <5>1, <5>4
        <5> QED
          BY <5>2, <5>3, <5>4
      <4> QED
        BY <4>1 DEF CodeInv, ad, re, dl
    <3>8. ServiceInv(q, t)
      <4>1. SUFFICES ASSUME ~q.service
                     PROVE  /\ q.download \cup q.streams \subseteq re \cup sd
                            /\ Bound \cap Present(q) \subseteq re
        BY DEF ServiceInv, re, sd
      <4>2. /\ ~p.service
            /\ q.download \subseteq p.download /\ q.streams \subseteq p.streams
        BY <3>1, <4>1 DEF Apart
      <4>3. ASSUME NEW b \in q.download \cup q.streams PROVE b \in re \cup sd
        <5>1. b \in lre \cup lsd
          BY <3>3, <4>2, <4>3
        <5> QED
          BY <3>1, <3>2, <5>1
      <4>4. ASSUME NEW b \in Bound \cap Present(q) PROVE b \in re
        <5>1. b \in Apps \ Local
          BY ApplicationsAssumption
        <5>2. CASE b # a
          <6>1. b \in lre
            BY <3>1, <3>3, <4>2, <4>4, <5>2 DEF Apart
          <6> QED
            BY <3>2, <5>2, <6>1
        <5>3. CASE b = a
          <6>1. k # "add"
            BY <3>2, <3>3, <4>2, <5>1, <5>3
          <6>2. k # "remove"
            BY <3>1, <4>4, <5>3
          <6> QED
            BY <3>1, <3>2, <3>3, <4>2, <4>4, <5>3, <6>1, <6>2
        <5> QED
          BY <5>2, <5>3
      <4> QED
        BY <4>3, <4>4
    <3> QED
      BY <3>1, <3>5, <3>6, <3>7, <3>8 DEF Coherent, Sound, Urgent
  <2> QED
    BY <2>5, <2>6 DEF q, t
<1> QED
  BY <1>8, <1>9
-----------------------------------------------------------------------------
(* The actions *)

(* Without jobs nothing is excused.                                        *)
LEMMA QuietIs ==
  ASSUME NEW p
  PROVE  Coherent(p, <<>>) <=> Quiet(p)
<1>1. ~Switched(<<>>) /\ \A x : JobsOf(<<>>, x) = {}
  BY DEF Switched, JobsOf
<1>2. /\ JobsOf(<<>>, "add") = {} /\ JobsOf(<<>>, "remove") = {}
      /\ JobsOf(<<>>, "download") = {} /\ JobsOf(<<>>, "stopDownload") = {}
      /\ JobsOf(<<>>, "enable") = {}
  BY <1>1
<1>3. EnableInv(p, <<>>) <=> Settled(p)
  BY <1>1, <1>2 DEF EnableInv
<1>4. JobInv(p, <<>>)
  <2>1. AddedLast(<<>>)
    BY DEF AddedLast
  <2> QED
    BY <1>2, <2>1 DEF JobInv
<1>5. CodeInv(p, <<>>) <=>
        \A a \in Apps : IF a \in Local THEN p.code[a] = NoCode
                        ELSE p.code[a] # NoCode <=> a \in Present(p)
  BY <1>2 DEF CodeInv
<1>6. ServiceInv(p, <<>>) <=>
        (~p.service =>
           p.download = {} /\ p.streams = {} /\ Bound \cap Present(p) = {})
  <2>1. ServiceInv(p, <<>>) <=>
          (~p.service =>
             /\ p.download \cup p.streams \subseteq {} \cup {}
             /\ Bound \cap Present(p) \subseteq {})
    BY <1>2 DEF ServiceInv
  <2> QED
    BY <2>1
<1> QED
  BY <1>3, <1>4, <1>5, <1>6 DEF Coherent, Quiet, Sound, Urgent

(* A list that begins with a turn of the Spawner has some.                 *)
LEMMA NotSwitched ==
  ASSUME NEW l, l \in Seq(JobKinds \X Apps), JobsOf(l, "enable") = {}
  PROVE  ~Switched(l)
<1>1. SUFFICES ASSUME l # <<>>, Head(l)[1] = "enable" PROVE FALSE
  BY DEF Switched
<1>2. Head(l) \in JobKinds \X Apps /\ Head(l) = l[1] /\ 1 \in DOMAIN l
  BY <1>1
<1>3. l[1] = <<"enable", l[1][2]>> /\ l[1][2] \in Apps
  BY <1>1, <1>2
<1> QED
  BY <1>2, <1>3 DEF JobsOf

(* A list that adds none                                                   *)
LEMMA NoneAdded ==
  ASSUME NEW l, l \in Seq(JobKinds \X Apps), JobsOf(l, "add") = {}
  PROVE  AddedLast(l)
<1>1. SUFFICES ASSUME NEW i \in DOMAIN l, l[i][1] = "add" PROVE FALSE
  BY DEF AddedLast
<1>2. l[i] \in JobKinds \X Apps
  OBVIOUS
<1>3. l[i] = <<"add", l[i][2]>> /\ l[i][2] \in Apps
  BY <1>1, <1>2
<1> QED
  BY <1>3 DEF JobsOf

(* The provider thread goes on with its task.                              *)
LEMMA DoNextJobKeeps ==
  IInv /\ DoNextJob => IInv'
<1>1. SUFFICES ASSUME IInv, DoNextJob PROVE IInv'
  OBVIOUS
<1>2. /\ Typed(app) /\ todo \in Seq(JobKinds \X Apps) /\ todo # <<>>
      /\ Coherent(app, todo)
      /\ app' = DoJob(app, Head(todo)) /\ todo' = Tail(todo) /\ events' = events
  BY <1>1 DEF IInv, DoNextJob, Step
<1>3. Typed(app') /\ (~app'.broken => Coherent(app', todo'))
  BY <1>2, JobKeeps
<1>4. todo' \in Seq(JobKinds \X Apps)
  BY <1>2
<1> QED
  BY <1>1, <1>2, <1>3, <1>4 DEF IInv

(* One application changes and the others do not, while there is no list.  *)
LEMMA QuietKeeps ==
  ASSUME NEW p, Quiet(p), NEW q, NEW a \in Apps, Sound(q), Apart(p, q, a),
         Present(q) = Present(p)
  PROVE  Quiet(q)
BY DEF Quiet, Apart

(* The provider thread takes what a connector has enqueued.                *)
LEMMA DoNextTaskKeeps ==
  IInv /\ DoNextTask => IInv'
<1>1. SUFFICES ASSUME IInv, DoNextTask PROVE IInv'
  OBVIOUS
<1> DEFINE p == [app EXCEPT !.tasks = Tail(@)]
           job == Head(app.tasks)
           q == DoJob(p, job)
<1>2. /\ Typed(app) /\ todo = <<>> /\ Coherent(app, <<>>) /\ app.tasks # <<>>
      /\ app' = q /\ todo' = todo /\ events' = events /\ ~app.broken
  BY <1>1 DEF IInv, DoNextTask, Idle
<1>3. /\ app \in Members /\ app.live \subseteq Items(app)
      /\ app.tasks \in Seq({"started", "stop"} \X Apps)
  BY <1>2 DEF Typed, Members
<1>4. job \in {"started", "stop"} \X Apps
      /\ Tail(app.tasks) \in Seq({"started", "stop"} \X Apps)
  BY <1>2, <1>3
<1>5. PICK k \in {"started", "stop"}, a \in Apps : job = <<k, a>>
  BY <1>4
<1>6. /\ p \in Members /\ SameSpawner(app, p) /\ SameMedia(app, p)
      /\ p.streams = app.streams
  BY <1>3, <1>4 DEF Members, SameSpawner, SameMedia
<1> HIDE DEF p, job
<1>7. Typed(p)
  BY <1>3, <1>6 DEF Typed, Items, SameSpawner
<1>8. Quiet(app)
  BY <1>2, QuietIs
<1>9. Quiet(p)
  <2>1. Owned(p) /\ Urgent(p) /\ Present(p) = Present(app)
    BY <1>6, <1>8, Alike DEF SameSpawner, Quiet, Sound, Urgent
  <2>2. Clean(p)
    BY <1>6, <1>8, <2>1 DEF Clean, SameMedia, Quiet, Sound
  <2> QED
    BY <1>6, <1>8, <2>1, <2>2 DEF Quiet, Sound, SameMedia
<1>10. /\ Typed(q)
       /\ ~q.broken =>
            Sound(q) /\ Apart(p, q, a) /\ Present(q) = Present(p)
  <2>1. /\ k \in (JobKinds \cup {"started"}) \ {"enable"}
        /\ k # "add" /\ k # "download" /\ k # "remove"
    BY DEF JobKinds
  <2>2. Sound(p) /\ (a \in Local => p.code[a] = NoCode)
    BY <1>9 DEF Quiet
  <2> DEFINE r == DoJob(p, <<k, a>>)
  <2>3. /\ Typed(r)
        /\ ~r.broken =>
             /\ Sound(r) /\ Apart(p, r, a)
             /\ k \notin {"add", "remove"} => Present(r) = Present(p)
    BY <1>7, <2>1, <2>2, JobEffect
  <2>4. q = r
    BY <1>5
  <2> HIDE DEF q, r
  <2> QED
    BY <2>1, <2>3, <2>4
<1> HIDE DEF q
<1>11. ~q.broken => Coherent(q, <<>>)
  BY <1>9, <1>10, QuietKeeps, QuietIs
<1> QED
  BY <1>1, <1>2, <1>10, <1>11 DEF IInv

(* A carousel is only received of an application that is there.            *)
LEMMA CarouselMountedKeeps ==
  ASSUME NEW a \in Apps
  PROVE  IInv /\ CarouselMounted(a) => IInv'
<1>1. SUFFICES ASSUME IInv, CarouselMounted(a) PROVE IInv'
  OBVIOUS
<1> DEFINE q == OnMounted(app, a)
<1>2. /\ Typed(app) /\ todo = <<>> /\ Coherent(app, <<>>)
      /\ app' = q /\ todo' = todo /\ a \in app.download
  BY <1>1 DEF IInv, CarouselMounted, Idle, Command
<1>3. events' \in Nat
  BY <1>1 DEF IInv, CarouselMounted, Command, Event
<1>4. Quiet(app)
  BY <1>2, QuietIs
<1>5. Sound(app) /\ a \in Apps \ Local /\ a \in Present(app)
  BY <1>2, <1>4 DEF Quiet, Sound, Clean, Typed, Members
<1>6. /\ Typed(q)
      /\ ~q.broken => Sound(q) /\ Apart(app, q, a) /\ a \in Present(q)
  BY <1>2, <1>5, OnMountedKeeps
<1> HIDE DEF q
<1>7. ~q.broken => Coherent(q, <<>>)
  <2>1. ~q.broken => Present(q) = Present(app)
    BY <1>5, <1>6 DEF Apart
  <2> QED
    BY <1>4, <1>6, <2>1, QuietKeeps, QuietIs
<1> QED
  BY <1>1, <1>2, <1>3, <1>6, <1>7 DEF IInv

(* With the service nothing has to be gone.                                *)
LEMMA ServiceStartedKeeps ==
  IInv /\ ServiceStarted => IInv'
<1>1. SUFFICES ASSUME IInv, ServiceStarted PROVE IInv'
  OBVIOUS
<1>2. /\ Typed(app) /\ todo = <<>> /\ Coherent(app, <<>>)
      /\ app' = [app EXCEPT !.service = TRUE] /\ todo' = todo /\ events' = events
  BY <1>1 DEF IInv, ServiceStarted, Idle
<1>3. /\ app' \in Members /\ SameSpawner(app, app')
      /\ app'.mounted = app.mounted /\ app'.download = app.download
      /\ app'.streams = app.streams /\ app'.code = app.code /\ app'.service
  BY <1>2 DEF Typed, Members, SameSpawner
<1>4. Typed(app')
  BY <1>2, <1>3 DEF Typed, Items, SameSpawner
<1>5. Quiet(app)
  BY <1>2, QuietIs
<1>6. Owned(app') /\ Urgent(app') /\ Present(app') = Present(app)
  BY <1>3, <1>5, Alike DEF SameSpawner, Quiet, Sound, Urgent
<1>7. Clean(app')
  BY <1>3, <1>5, <1>6 DEF Clean, Quiet, Sound
<1>8. Quiet(app')
  BY <1>3, <1>5, <1>6, <1>7 DEF Quiet, Sound
<1>9. Coherent(app', <<>>)
  BY <1>8, QuietIs
<1> QED
  BY <1>1, <1>2, <1>4, <1>9 DEF IInv

(* A connector tells what becomes of its process, and is there still.      *)
LEMMA ConnectorKeeps ==
  ASSUME NEW a \in Apps
  PROVE  IInv /\ ConnectorThread(a) => IInv'
<1>1. SUFFICES ASSUME IInv, ConnectorThread(a) PROVE IInv'
  OBVIOUS
<1>2. PICK v \in Conns \ {"none"}, k \in {"started", "stop"} :
        app' = [app EXCEPT !.conn[a] = v, !.tasks = Append(@, <<k, a>>)]
  BY <1>1 DEF ConnectorThread, Connected, ConnectTimeout, KeepAliveTimeout,
              Disconnected, AfterConnectTimeout, Conns
<1>3. /\ Typed(app) /\ todo \in Seq(JobKinds \X Apps) /\ events \in Nat
      /\ Coherent(app, todo) /\ ~app.broken
  BY <1>1 DEF IInv, ConnectorThread, Connected, ConnectTimeout, KeepAliveTimeout,
              Disconnected, Step
<1>4. /\ todo' = todo /\ events' \in Nat
      /\ app.conn[a] # "none"
  BY <1>1, <1>3 DEF ConnectorThread, Connected, ConnectTimeout, KeepAliveTimeout,
              Disconnected, Trouble, Event
<1> DEFINE c == [app.conn EXCEPT ![a] = v]
           t == Append(app.tasks, <<k, a>>)
           q == [app EXCEPT !.conn = c, !.tasks = t]
<1>5. app \in Members /\ app.live \subseteq Items(app)
  BY <1>3 DEF Typed
<1>6. app' = q
  BY <1>2, <1>5 DEF Members
<1>7. c \in [Apps -> Conns] /\ Put(app.conn, c, a, v)
  BY <1>5 DEF Members, Put
<1>8. t \in Seq({"started", "stop"} \X Apps)
  BY <1>5 DEF Members
<1> HIDE DEF c, t
<1>9. /\ q \in Members /\ SameMedia(app, q) /\ q.conn = c
      /\ q.status = app.status /\ q.procs = app.procs /\ q.live = app.live
      /\ q.streams = app.streams /\ q.broken = app.broken
  BY <1>5, <1>7, <1>8 DEF Members, SameMedia
<1> HIDE DEF q
<1>10. /\ Items(q) = Items(app) /\ Queued(q) = Queued(app)
       /\ Present(q) = Present(app) /\ Full(q) = Full(app)
  BY <1>9 DEF Items, Queued, Present, Full
<1>11. Typed(q)
  BY <1>5, <1>9, <1>10 DEF Typed
<1>12. Owned(q)
  <2>1. \A b \in Apps : Slot(q, b)
    BY <1>3, <1>4, <1>7, <1>9, <1>10
       DEF Coherent, Owned, OwnedBut, Slot, IsRunning, Put
  <2> QED
    BY <1>3, <1>9, <2>1 DEF Coherent, Owned, OwnedBut
<1>13. Ordered(q) /\ Clean(q)
  BY <1>3, <1>9, <1>10 DEF Coherent, Ordered, Clean, SameMedia
<1>14. EnableInv(q, todo)
  BY <1>3, <1>9, <1>10 DEF Coherent, EnableInv, Settled, SameMedia
<1>15. JobInv(q, todo) /\ CodeInv(q, todo) /\ ServiceInv(q, todo)
  BY <1>3, <1>9, <1>10 DEF Coherent, JobInv, CodeInv, ServiceInv, SameMedia
<1> QED
  BY <1>3, <1>4, <1>6, <1>11, <1>12, <1>13, <1>14, <1>15 DEF IInv, Coherent
(* The Spawner starts to be switched when there are no jobs, with a turn   *)
(* for each item.                                                          *)
LEMMA EnableSpawnerKeeps ==
  ASSUME NEW on \in BOOLEAN
  PROVE  IInv /\ EnableSpawner(on) => IInv'
<1>1. SUFFICES ASSUME IInv, EnableSpawner(on) PROVE IInv'
  OBVIOUS
<1> DEFINE q == [app EXCEPT !.enabled = on]
           l == IF on = app.enabled THEN <<>> ELSE Jobs("enable", app.procs)
<1>2. /\ Typed(app) /\ todo = <<>> /\ Coherent(app, <<>>)
      /\ app' = q /\ todo' = l /\ events' \in Nat
  BY <1>1 DEF IInv, EnableSpawner, Command, Idle, Event
<1>3. app \in Members /\ app.live \subseteq Items(app) /\ app.procs \in Seq(Apps)
  BY <1>2 DEF Typed, Members
<1>4. /\ q \in Members /\ q.enabled = on /\ q.status = app.status
      /\ q.procs = app.procs /\ q.live = app.live /\ q.conn = app.conn
      /\ q.mounted = app.mounted /\ q.download = app.download
      /\ q.streams = app.streams /\ q.code = app.code /\ q.service = app.service
  BY <1>3 DEF Members
<1>5. Quiet(app)
  BY <1>2, QuietIs
<1> HIDE DEF q
<1>6. /\ Items(q) = Items(app) /\ Queued(q) = Queued(app)
      /\ Present(q) = Present(app)
  BY <1>4 DEF Items, Queued, Present
<1>7. Typed(q)
  BY <1>3, <1>4, <1>6 DEF Typed
<1>8. Owned(q) /\ Clean(q)
  BY <1>4, <1>5, <1>6 DEF Quiet, Sound, Owned, OwnedBut, Slot, IsRunning, Clean
<1>9. CASE on = app.enabled
  <2>1. l = <<>>
    BY <1>9
  <2>2. Urgent(q)
    BY <1>4, <1>5, <1>6, <1>9
       DEF Quiet, Sound, Urgent, Ordered, Settled, Full
  <2>3. Quiet(q)
    BY <1>4, <1>5, <1>6, <1>8, <2>2 DEF Quiet, Sound
  <2>4. Coherent(q, <<>>)
    BY <2>3, QuietIs
  <2> HIDE DEF l
  <2> QED
    BY <1>2, <1>7, <2>1, <2>4 DEF IInv
<1>10. CASE on # app.enabled
  <2>1. "enable" \in JobKinds
    BY DEF JobKinds
  <2>2. l = Jobs("enable", app.procs)
    BY <1>10
  <2> HIDE DEF l
  <2>3. /\ l \in Seq(JobKinds \X Apps) /\ Len(l) = Len(app.procs)
        /\ \A i \in DOMAIN l : l[i] = <<"enable", app.procs[i]>>
        /\ DOMAIN l = 1 .. Len(l) /\ Len(l) \in Nat
        /\ JobsOf(l, "enable") = ToSet(app.procs)
        /\ \A x : x # "enable" => JobsOf(l, x) = {}
    <3>1. /\ l \in Seq(JobKinds \X Apps) /\ Len(l) = Len(app.procs)
          /\ \A i \in DOMAIN l : l[i] = <<"enable", app.procs[i]>>
          /\ DOMAIN l = DOMAIN app.procs
          /\ JobsOf(l, "enable") = ToSet(app.procs)
          /\ \A x : x # "enable" => JobsOf(l, x) = {}
      BY <1>3, <2>1, <2>2, JobsAre
    <3>2. DOMAIN l = 1 .. Len(l) /\ Len(l) \in Nat
      BY <3>1
    <3> QED
      BY <3>1, <3>2
  <2>4. /\ JobsOf(l, "add") = {} /\ JobsOf(l, "remove") = {}
        /\ JobsOf(l, "download") = {} /\ JobsOf(l, "stopDownload") = {}
    BY <2>3
  <2>5. \A i \in DOMAIN l : l[i][1] = "enable"
    BY <2>3
  <2>6. Cardinality(q.live) \in Nat /\ MaxParallel \in Nat
    BY <1>3, <1>4, Finite, ApplicationsAssumption DEF Members
  <2>7. ~app.enabled => app.live = {}
    BY <1>5 DEF Quiet, Sound, Urgent, Settled
  <2>8. app.enabled \in BOOLEAN
    BY <1>3 DEF Members
  <2>9. Ordered(q)
    BY <1>4, <1>5, <1>10, <2>7, <2>8 DEF Quiet, Sound, Urgent, Ordered
  <2>10. EnableInv(q, l)
    <3>1. CASE l = <<>>
      <4>1. ~Switched(l) /\ JobsOf(l, "enable") = {} /\ Items(q) = {}
        BY <1>6, <2>3, <3>1 DEF Switched, JobsOf, Items
      <4>2. q.live = {} /\ Queued(q) = {}
        BY <1>3, <1>4, <1>6, <4>1 DEF Queued
      <4>3. Settled(q)
        BY <4>2 DEF Settled, Full
      <4> QED
        BY <4>1, <4>3 DEF EnableInv
    <3>2. CASE l # <<>>
      <4>1. Head(l) = l[1] /\ 1 \in DOMAIN l
        BY <2>3, <3>2
      <4>2. Switched(l)
        BY <2>5, <3>2, <4>1 DEF Switched
      <4>3. q.enabled => Cardinality(q.live) + Len(l) >= Len(q.procs)
        BY <1>4, <2>3, <2>6
      <4>4. q.live \subseteq JobsOf(l, "enable")
        BY <1>3, <1>4, <2>3 DEF Items
      <4> QED
        BY <2>5, <4>2, <4>3, <4>4 DEF EnableInv
    <3> QED
      BY <3>1, <3>2
  <2>11. JobInv(q, l)
    BY <2>3, <2>4, NoneAdded DEF JobInv
  <2>12. CodeInv(q, l) /\ ServiceInv(q, l)
    BY <1>4, <1>5, <1>6, <2>4 DEF CodeInv, ServiceInv, Quiet
  <2> QED
    BY <1>2, <1>7, <1>8, <2>3, <2>9, <2>10, <2>11, <2>12 DEF IInv, Coherent
<1> QED
  BY <1>9, <1>10

(* When a list of media jobs begins the Spawner is settled.                *)
LEMMA ListBegins ==
  ASSUME NEW p, Sound(p), NEW l, l \in Seq(JobKinds \X Apps),
         JobsOf(l, "enable") = {},
         JobInv(p, l), CodeInv(p, l), ServiceInv(p, l)
  PROVE  Coherent(p, l)
BY NotSwitched DEF Coherent, EnableInv, Sound, Urgent

(* The jobs for what the AIT says of the applications it knows             *)
LEMMA CtrlJobsAre ==
  ASSUME NEW codes \in SignaledCodes, NEW s, s \in Seq(Apps),
         \A a \in ToSet(s) : codes[a] \notin {NoCode, "present"}
  PROVE  LET l == [i \in DOMAIN s |-> CtrlJob(codes[s[i]], s[i])]
         IN  /\ l \in Seq(JobKinds \X Apps)
             /\ JobsOf(l, "add") = {} /\ JobsOf(l, "remove") = {}
             /\ JobsOf(l, "stopDownload") = {} /\ JobsOf(l, "enable") = {}
             /\ JobsOf(l, "download") \cap Local = {}
<1> DEFINE l == [i \in DOMAIN s |-> CtrlJob(codes[s[i]], s[i])]
<1>1. /\ DOMAIN s = 1 .. Len(s) /\ Len(s) \in Nat
      /\ \A i \in 1 .. Len(s) : s[i] \in Apps /\ s[i] \in ToSet(s)
  BY DEF ToSet
<1>2. /\ \A a \in Apps : codes[a] \in CtrlCodes \cup {NoCode}
      /\ \A a \in Local : codes[a] = NoCode
  BY ApplicationsAssumption DEF SignaledCodes
<1>3. \A c \in CtrlCodes \ {"present"}, a \in Apps :
        CtrlJob(c, a) \in {<<"start", a>>, <<"download", a>>, <<"stop", a>>}
  BY DEF CtrlJob, CtrlCodes
<1>4. \A i \in 1 .. Len(s) :
        l[i] \in {<<"start", s[i]>>, <<"download", s[i]>>, <<"stop", s[i]>>}
  <2>1. SUFFICES ASSUME NEW i \in 1 .. Len(s)
                 PROVE  CtrlJob(codes[s[i]], s[i]) \in
                          {<<"start", s[i]>>, <<"download", s[i]>>, <<"stop", s[i]>>}
    BY <1>1
  <2>2. codes[s[i]] \in CtrlCodes \ {"present"} /\ s[i] \in Apps
    BY <1>1, <1>2
  <2> QED
    BY <1>3, <2>2
<1>5. DOMAIN l = 1 .. Len(s)
  BY <1>1
<1> HIDE DEF l
<1>6. \A a \in Apps : /\ <<"start", a>> \in JobKinds \X Apps
                      /\ <<"download", a>> \in JobKinds \X Apps
                      /\ <<"stop", a>> \in JobKinds \X Apps
  BY DEF JobKinds
<1>7. l \in [1 .. Len(s) -> JobKinds \X Apps]
  <2>1. \A i \in 1 .. Len(s) : l[i] \in JobKinds \X Apps
    <3>1. SUFFICES ASSUME NEW i \in 1 .. Len(s) PROVE l[i] \in JobKinds \X Apps
      OBVIOUS
    <3>2. l[i] \in {<<"start", s[i]>>, <<"download", s[i]>>, <<"stop", s[i]>>}
      BY <1>4
    <3>3. s[i] \in Apps
      BY <1>1
    <3> QED
      BY <1>6, <3>2, <3>3
  <2>2. l = [i \in 1 .. Len(s) |-> l[i]]
    BY <1>1 DEF l
  <2> QED
    BY <2>1, <2>2
<1>8. l \in Seq(JobKinds \X Apps)
  BY <1>1, <1>7
<1>9. /\ JobsOf(l, "add") = {} /\ JobsOf(l, "remove") = {}
      /\ JobsOf(l, "stopDownload") = {} /\ JobsOf(l, "enable") = {}
  BY <1>4, <1>5 DEF JobsOf
<1>10. JobsOf(l, "download") \cap Local = {}
  <2>1. SUFFICES ASSUME NEW a \in Local, NEW i \in DOMAIN l, l[i] = <<"download", a>>
                 PROVE  FALSE
    BY DEF JobsOf
  <2>2. s[i] = a
    BY <1>4, <1>5, <2>1
  <2>3. codes[a] = NoCode /\ a \in ToSet(s)
    BY <1>1, <1>2, <1>5, <2>2
  <2> QED
    BY <2>3
<1> QED
  BY <1>8, <1>9, <1>10 DEF l

(* What the AIT signals is removed, or added, to be what is there.         *)
LEMMA OnAitKeeps ==
  ASSUME NEW codes \in SignaledCodes
  PROVE  IInv /\ OnAit(codes) => IInv'
<1>1. SUFFICES ASSUME IInv, OnAit(codes) PROVE IInv'
  OBVIOUS
<1> DEFINE q == [app EXCEPT !.code = codes]
<1>2. /\ Typed(app) /\ todo = <<>> /\ Coherent(app, <<>>) /\ app.service
      /\ app' = q /\ events' \in Nat
  BY <1>1 DEF IInv, OnAit, Command, Idle, Event
<1>3. PICK obey \in SetToSeqs(Changed(codes)),
           gone \in SetToSeqs(Known \ Signaled(codes)),
           new  \in SetToSeqs(Signaled(codes) \ Known) :
        todo' = [i \in DOMAIN obey |-> CtrlJob(codes[obey[i]], obey[i])]
                  \o Jobs("remove", gone) \o Jobs("add", new)
  BY <1>1 DEF OnAit
<1> DEFINE b == [i \in DOMAIN obey |-> CtrlJob(codes[obey[i]], obey[i])]
           g == Jobs("remove", gone)
           n == Jobs("add", new)
           l == (b \o g) \o n
<1>4. todo' = l
  BY <1>3
<1>5. /\ Changed(codes) \subseteq Apps /\ Known \subseteq Apps
      /\ Signaled(codes) \subseteq Apps
  BY DEF Changed, Known, Signaled
<1>6. /\ obey \in Seq(Apps) /\ ToSet(obey) = Changed(codes)
      /\ gone \in Seq(Apps) /\ ToSet(gone) = Known \ Signaled(codes)
      /\ new \in Seq(Apps) /\ ToSet(new) = Signaled(codes) \ Known
      /\ IsInjective(new)
  <2>1. Known \ Signaled(codes) \subseteq Apps /\ Signaled(codes) \ Known \subseteq Apps
    BY <1>5
  <2> QED
    BY <1>5, <2>1, ListOf
<1>7. /\ b \in Seq(JobKinds \X Apps)
      /\ JobsOf(b, "add") = {} /\ JobsOf(b, "remove") = {}
      /\ JobsOf(b, "stopDownload") = {} /\ JobsOf(b, "enable") = {}
      /\ JobsOf(b, "download") \cap Local = {}
  <2>1. \A a \in ToSet(obey) : codes[a] \notin {NoCode, "present"}
    BY <1>6 DEF Changed, Signaled
  <2> QED
    BY <1>6, <2>1, CtrlJobsAre
<1>8. "add" \in JobKinds /\ "remove" \in JobKinds
  BY DEF JobKinds
<1>9. /\ g \in Seq(JobKinds \X Apps) /\ JobsOf(g, "remove") = Known \ Signaled(codes)
      /\ JobsOf(g, "add") = {} /\ JobsOf(g, "enable") = {}
      /\ JobsOf(g, "download") = {} /\ JobsOf(g, "stopDownload") = {}
  BY <1>6, <1>8, JobsAre
<1>10. /\ n \in Seq(JobKinds \X Apps) /\ JobsOf(n, "add") = Signaled(codes) \ Known
       /\ JobsOf(n, "remove") = {} /\ JobsOf(n, "enable") = {}
       /\ JobsOf(n, "download") = {} /\ JobsOf(n, "stopDownload") = {}
  BY <1>6, <1>8, JobsAre
<1> HIDE DEF b, g
<1>11. /\ b \o g \in Seq(JobKinds \X Apps)
       /\ \A x : JobsOf(b \o g, x) = JobsOf(b, x) \cup JobsOf(g, x)
  <2>1. b \in Seq(JobKinds \X Apps) /\ g \in Seq(JobKinds \X Apps)
    BY <1>7, <1>9
  <2> QED
    BY <2>1, JobsJoined, Zenon
<1>12. AddedLast(l)
  <2>1. JobsOf(b \o g, "add") = {}
    BY <1>7, <1>9, <1>11
  <2> QED
    BY <1>6, <1>11, <2>1, AddedLastJoined
<1> HIDE DEF n
<1>13. /\ l \in Seq(JobKinds \X Apps)
       /\ \A x : JobsOf(l, x) = JobsOf(b \o g, x) \cup JobsOf(n, x)
  <2> DEFINE h == b \o g
  <2>1. h \in Seq(JobKinds \X Apps) /\ n \in Seq(JobKinds \X Apps)
    BY <1>10, <1>11
  <2>2. l = h \o n
    OBVIOUS
  <2> HIDE DEF h, l
  <2>3. /\ h \o n \in Seq(JobKinds \X Apps)
        /\ \A x : JobsOf(h \o n, x) = JobsOf(h, x) \cup JobsOf(n, x)
    BY <2>1, JobsJoined, Zenon
  <2> QED
    BY <2>2, <2>3, Zenon DEF h
<1>14. /\ JobsOf(l, "add") = Signaled(codes) \ Known
       /\ JobsOf(l, "remove") = Known \ Signaled(codes)
       /\ JobsOf(l, "stopDownload") = {} /\ JobsOf(l, "enable") = {}
       /\ JobsOf(l, "download") \cap Local = {}
  BY <1>7, <1>9, <1>10, <1>11, <1>13
<1> HIDE DEF l
<1>15. app \in Members /\ app.live \subseteq Items(app)
  BY <1>2 DEF Typed
<1>16. codes \in [Apps -> CtrlCodes \cup {NoCode}] /\ \A a \in Local : codes[a] = NoCode
  <2>1. Codes \cup {NoCode} \subseteq CtrlCodes \cup {NoCode}
    BY ApplicationsAssumption
  <2> QED
    BY <2>1 DEF SignaledCodes
<1>17. /\ q \in Members /\ SameSpawner(app, q)
       /\ q.mounted = app.mounted /\ q.download = app.download
       /\ q.streams = app.streams /\ q.code = codes /\ q.service = app.service
  BY <1>15, <1>16 DEF Members, SameSpawner
<1> HIDE DEF q
<1>18. Typed(q)
  BY <1>15, <1>17 DEF Typed, Items, SameSpawner
<1>19. Quiet(app)
  BY <1>2, QuietIs
<1>20. Owned(q) /\ Urgent(q) /\ Present(q) = Present(app)
  BY <1>17, <1>19, Alike DEF SameSpawner, Quiet, Sound, Urgent
<1>21. Sound(q)
  BY <1>17, <1>19, <1>20 DEF Clean, Quiet, Sound
<1>22. /\ \A a \in Apps \ Local : a \in Known <=> a \in Present(app)
       /\ Known \cap Local = {} /\ Signaled(codes) \cap Local = {}
       /\ \A a \in Apps : a \in Signaled(codes) <=> codes[a] # NoCode
  BY <1>16, <1>19, ApplicationsAssumption DEF Quiet, Known, Signaled
<1>23. JobInv(q, l)
  BY <1>5, <1>12, <1>14, <1>20, <1>22 DEF JobInv
<1>24. CodeInv(q, l)
  BY <1>2, <1>14, <1>16, <1>17, <1>20, <1>22 DEF CodeInv
<1>25. ServiceInv(q, l)
  BY <1>2, <1>17 DEF ServiceInv
<1>26. Coherent(q, l)
  BY <1>13, <1>14, <1>21, <1>23, <1>24, <1>25, ListBegins
<1> QED
  BY <1>2, <1>4, <1>13, <1>18, <1>26 DEF IInv
(* Some are handled one way and then some another way.                     *)
LEMMA TwoLists ==
  ASSUME NEW k \in JobKinds, NEW s, s \in Seq(Apps),
         NEW m \in JobKinds \ {k}, NEW t, t \in Seq(Apps)
  PROVE  LET l == Jobs(k, s) \o Jobs(m, t)
         IN  /\ l \in Seq(JobKinds \X Apps)
             /\ JobsOf(l, k) = ToSet(s) /\ JobsOf(l, m) = ToSet(t)
             /\ \A x : x \notin {k, m} => JobsOf(l, x) = {}
<1> DEFINE a == Jobs(k, s)
           b == Jobs(m, t)
           l == a \o b
<1>1. /\ a \in Seq(JobKinds \X Apps) /\ JobsOf(a, k) = ToSet(s)
      /\ \A x : x # k => JobsOf(a, x) = {}
  BY JobsAre
<1>2. /\ b \in Seq(JobKinds \X Apps) /\ JobsOf(b, m) = ToSet(t)
      /\ \A x : x # m => JobsOf(b, x) = {}
  BY JobsAre
<1> HIDE DEF a, b
<1>3. a \in Seq(JobKinds \X Apps) /\ b \in Seq(JobKinds \X Apps)
  BY <1>1, <1>2
<1>4. /\ l \in Seq(JobKinds \X Apps)
      /\ \A x : JobsOf(l, x) = JobsOf(a, x) \cup JobsOf(b, x)
  BY <1>3, JobsJoined, Zenon
<1> HIDE DEF l
<1>5. JobsOf(l, k) = ToSet(s) /\ JobsOf(l, m) = ToSet(t)
  BY <1>1, <1>2, <1>4
<1>6. \A x : x \notin {k, m} => JobsOf(l, x) = {}
  BY <1>1, <1>2, <1>4
<1> QED
  BY <1>4, <1>5, <1>6 DEF l, a, b

(* Those bound to the service are removed, and the others do not receive   *)
(* any more, of all that are there.                                        *)
LEMMA ServiceStoppedKeeps ==
  IInv /\ ServiceStopped => IInv'
<1>1. SUFFICES ASSUME IInv, ServiceStopped PROVE IInv'
  OBVIOUS
<1> DEFINE c == CodesAfterService(app)
           q == [app EXCEPT !.service = FALSE, !.code = c]
<1>2. /\ Typed(app) /\ todo = <<>> /\ Coherent(app, <<>>)
      /\ app' = q /\ events' \in Nat
  BY <1>1 DEF IInv, ServiceStopped, Command, Idle, Event
<1>3. PICK gone \in SetToSeqs(Bound \cap Present(app)),
           other \in SetToSeqs(Present(app) \ (Bound \cup Local)) :
        todo' = Jobs("remove", gone) \o Jobs("stopDownload", other)
  BY <1>1 DEF ServiceStopped
<1> DEFINE l == Jobs("remove", gone) \o Jobs("stopDownload", other)
<1>4. /\ gone \in Seq(Apps) /\ ToSet(gone) = Bound \cap Present(app)
      /\ other \in Seq(Apps) /\ ToSet(other) = Present(app) \ (Bound \cup Local)
  <2>1. /\ Bound \cap Present(app) \subseteq Apps
        /\ Present(app) \ (Bound \cup Local) \subseteq Apps
    BY DEF Present
  <2> QED
    BY <2>1, ListOf
<1>5. /\ l \in Seq(JobKinds \X Apps)
      /\ JobsOf(l, "remove") = Bound \cap Present(app)
      /\ JobsOf(l, "stopDownload") = Present(app) \ (Bound \cup Local)
      /\ JobsOf(l, "add") = {} /\ JobsOf(l, "enable") = {}
      /\ JobsOf(l, "download") = {}
  <2>1. "remove" \in JobKinds /\ "stopDownload" \in JobKinds \ {"remove"}
    BY DEF JobKinds
  <2>2. /\ l \in Seq(JobKinds \X Apps)
        /\ JobsOf(l, "remove") = ToSet(gone)
        /\ JobsOf(l, "stopDownload") = ToSet(other)
        /\ \A x : x \notin {"remove", "stopDownload"} => JobsOf(l, x) = {}
    BY <1>4, <2>1, TwoLists
  <2> HIDE DEF l
  <2> QED
    BY <1>4, <2>2
<1>6. todo' = l
  BY <1>3
<1> HIDE DEF l
<1>7. app \in Members /\ app.live \subseteq Items(app)
  BY <1>2 DEF Typed
<1>8. /\ c \in [Apps -> CtrlCodes \cup {NoCode}]
      /\ \A a \in Apps : c[a] = IF a \in Bound THEN NoCode ELSE app.code[a]
  BY <1>7 DEF CodesAfterService, Members
<1> HIDE DEF c
<1>9. /\ q \in Members /\ SameSpawner(app, q)
      /\ q.mounted = app.mounted /\ q.download = app.download
      /\ q.streams = app.streams /\ q.code = c /\ ~q.service
  BY <1>7, <1>8 DEF Members, SameSpawner
<1> HIDE DEF q
<1>10. Typed(q)
  BY <1>7, <1>9 DEF Typed, Items, SameSpawner
<1>11. Quiet(app)
  BY <1>2, QuietIs
<1>12. Owned(q) /\ Urgent(q) /\ Present(q) = Present(app)
  BY <1>9, <1>11, Alike DEF SameSpawner, Quiet, Sound, Urgent
<1>13. Sound(q)
  BY <1>9, <1>11, <1>12 DEF Clean, Quiet, Sound
<1>14. JobInv(q, l)
  BY <1>5, NoneAdded DEF JobInv
<1>15. CodeInv(q, l)
  <2>1. \A a \in Bound : a \in Apps /\ a \notin Local
    BY ApplicationsAssumption
  <2>2. SUFFICES ASSUME NEW a \in Apps
                 PROVE  IF a \in Local THEN c[a] = NoCode
                          ELSE /\ a \in Bound \cap Present(app) => c[a] = NoCode
                               /\ a \notin Bound \cap Present(app) =>
                                    (c[a] # NoCode <=> a \in Present(app))
    BY <1>5, <1>9, <1>12 DEF CodeInv
  <2>3. CASE a \in Bound
    BY <1>8, <2>1, <2>3
  <2>4. CASE a \notin Bound
    BY <1>8, <1>11, <2>4 DEF Quiet
  <2> QED
    BY <2>3, <2>4
<1>16. ServiceInv(q, l)
  <2>1. app.download \cup app.streams \subseteq Present(app) \ Local
    BY <1>7, <1>11 DEF Members, Quiet, Sound, Clean
  <2> QED
    BY <1>5, <1>9, <1>12, <2>1 DEF ServiceInv
<1>17. Coherent(q, l)
  BY <1>5, <1>13, <1>14, <1>15, <1>16, ListBegins
<1> QED
  BY <1>2, <1>5, <1>6, <1>10, <1>17 DEF IInv

(* The applications in the file system are removed before they are added.  *)
LEMMA ScanKeeps ==
  IInv /\ Scan => IInv'
<1>1. SUFFICES ASSUME IInv, Scan PROVE IInv'
  OBVIOUS
<1>2. /\ Typed(app) /\ todo = <<>> /\ Coherent(app, <<>>)
      /\ app' = app /\ events' \in Nat
  BY <1>1 DEF IInv, Scan, Command, Idle, Event
<1>3. PICK gone \in SetToSeqs(Local \cap Present(app)), new \in SetToSeqs(Local) :
        todo' = Jobs("remove", gone) \o Jobs("add", new)
  BY <1>1 DEF Scan
<1> DEFINE l == Jobs("remove", gone) \o Jobs("add", new)
<1>4. Local \subseteq Apps /\ Bound \cap Local = {}
  BY ApplicationsAssumption
<1>5. /\ gone \in Seq(Apps) /\ ToSet(gone) = Local \cap Present(app)
      /\ new \in Seq(Apps) /\ ToSet(new) = Local /\ IsInjective(new)
  <2>1. Local \cap Present(app) \subseteq Apps
    BY DEF Present
  <2> QED
    BY <1>4, <2>1, ListOf
<1>6. "remove" \in JobKinds /\ "add" \in JobKinds \ {"remove"}
  BY DEF JobKinds
<1>7. /\ l \in Seq(JobKinds \X Apps)
      /\ JobsOf(l, "remove") = Local \cap Present(app)
      /\ JobsOf(l, "add") = Local
      /\ JobsOf(l, "stopDownload") = {} /\ JobsOf(l, "enable") = {}
      /\ JobsOf(l, "download") = {}
  <2>1. /\ l \in Seq(JobKinds \X Apps)
        /\ JobsOf(l, "remove") = ToSet(gone)
        /\ JobsOf(l, "add") = ToSet(new)
        /\ \A x : x \notin {"remove", "add"} => JobsOf(l, x) = {}
    BY <1>5, <1>6, TwoLists
  <2> HIDE DEF l
  <2> QED
    BY <1>5, <2>1
<1>8. AddedLast(l)
  <2>1. /\ Jobs("remove", gone) \in Seq(JobKinds \X Apps)
        /\ JobsOf(Jobs("remove", gone), "add") = {}
    BY <1>5, <1>6, JobsAre
  <2> QED
    BY <1>5, <2>1, AddedLastJoined
<1>9. todo' = l
  BY <1>3
<1> HIDE DEF l
<1>10. Quiet(app)
  BY <1>2, QuietIs
<1>11. JobInv(app, l) /\ CodeInv(app, l)
  BY <1>7, <1>8, <1>10 DEF JobInv, CodeInv, Quiet
<1>12. ServiceInv(app, l)
  BY <1>10 DEF ServiceInv, Quiet
<1>13. Coherent(app, l)
  BY <1>7, <1>10, <1>11, <1>12, ListBegins DEF Quiet
<1> QED
  BY <1>2, <1>7, <1>9, <1>13 DEF IInv

(* Starting and stopping leaves the applications there are.                *)
LEMMA PlainList ==
  ASSUME Typed(app), Quiet(app), NEW k \in {"start", "stop"}, NEW l,
         l \in Seq(JobKinds \X Apps), \A x : x # k => JobsOf(l, x) = {}
  PROVE  Coherent(app, l)
<1>1. /\ JobsOf(l, "add") = {} /\ JobsOf(l, "remove") = {}
      /\ JobsOf(l, "download") = {} /\ JobsOf(l, "enable") = {}
      /\ JobsOf(l, "stopDownload") = {}
  OBVIOUS
<1>2. JobInv(app, l)
  BY <1>1, NoneAdded DEF JobInv
<1>3. CodeInv(app, l) /\ ServiceInv(app, l)
  BY <1>1 DEF CodeInv, ServiceInv, Quiet
<1> QED
  BY <1>1, <1>2, <1>3, ListBegins DEF Quiet

(* stopAll stops whatever is there.                                        *)
LEMMA StopAllKeeps ==
  IInv /\ StopAll => IInv'
<1>1. SUFFICES ASSUME IInv, StopAll PROVE IInv'
  OBVIOUS
<1>2. /\ Typed(app) /\ todo = <<>> /\ Coherent(app, <<>>)
      /\ app' = app /\ events' \in Nat
  BY <1>1 DEF IInv, StopAll, Command, Idle, Event
<1>3. PICK list \in SetToSeqs(Present(app)) : todo' = Jobs("stop", list)
  BY <1>1 DEF StopAll
<1>4. Present(app) \subseteq Apps /\ "stop" \in JobKinds
  BY DEF Present, JobKinds
<1>5. list \in Seq(Apps)
  BY <1>4, ListOf
<1> DEFINE l == Jobs("stop", list)
<1>6. l \in Seq(JobKinds \X Apps) /\ \A x : x # "stop" => JobsOf(l, x) = {}
  BY <1>4, <1>5, JobsAre
<1> HIDE DEF l
<1>7. Coherent(app, l)
  BY <1>2, <1>6, QuietIs, PlainList
<1> QED
  BY <1>2, <1>3, <1>6, <1>7 DEF IInv, l

(* The user starts or stops one.                                           *)
LEMMA UserCommandKeeps ==
  ASSUME NEW k \in {"start", "stop"}, NEW a \in Apps
  PROVE  IInv /\ UserCommand(k, a) => IInv'
<1>1. SUFFICES ASSUME IInv, UserCommand(k, a) PROVE IInv'
  OBVIOUS
<1> DEFINE l == <<<<k, a>>>>
<1>2. /\ Typed(app) /\ todo = <<>> /\ Coherent(app, <<>>)
      /\ app' = app /\ events' \in Nat /\ todo' = l
  BY <1>1 DEF IInv, UserCommand, Command, Idle, Event
<1>3. <<k, a>> \in JobKinds \X Apps
  BY DEF JobKinds
<1>4. l \in Seq(JobKinds \X Apps) /\ DOMAIN l = {1} /\ l[1] = <<k, a>>
  BY <1>3
<1> HIDE DEF l
<1>5. \A x : x # k => JobsOf(l, x) = {}
  BY <1>4 DEF JobsOf
<1>6. Coherent(app, l)
  BY <1>2, <1>4, <1>5, QuietIs, PlainList
<1> QED
  BY <1>2, <1>4, <1>6 DEF IInv
-----------------------------------------------------------------------------
(* At the beginning the local applications are mounted and nothing runs.   *)
LEMMA InitHolds ==
  Init => IInv
<1>1. SUFFICES ASSUME Init PROVE IInv
  OBVIOUS
<1>2. app = AppInit /\ todo = <<>> /\ events = 0
  BY <1>1 DEF Init
<1>3. Local \subseteq Apps /\ Bound \subseteq Apps \ Local
      /\ MaxParallel \in Nat /\ {} \subseteq Apps
  BY ApplicationsAssumption
<1>4. /\ AppInit.status = [a \in Apps |-> IF a \in Local THEN "mounted" ELSE "absent"]
      /\ AppInit.mounted = Local /\ AppInit.download = {} /\ AppInit.streams = {}
      /\ AppInit.procs = <<>> /\ AppInit.live = {}
      /\ AppInit.conn = [a \in Apps |-> "none"] /\ AppInit.enabled
      /\ AppInit.service = FALSE /\ AppInit.code = [a \in Apps |-> NoCode]
  BY DEF AppInit
<1>5. AppInit \in Members
  BY <1>3 DEF AppInit, Members, Statuses, Conns
<1>6. Items(AppInit) = {} /\ Queued(AppInit) = {} /\ Present(AppInit) = Local
  BY <1>3, <1>4 DEF Items, ToSet, Queued, Present
<1> HIDE DEF AppInit
<1>7. Typed(AppInit)
  BY <1>4, <1>5 DEF Typed
<1>8. Owned(AppInit)
  <2>1. IsInjective(<<>>)
    BY DEF IsInjective
  <2> QED
    BY <1>4, <1>6, <2>1 DEF Owned, OwnedBut, Slot
<1>9. Urgent(AppInit)
  <2>1. Cardinality({}) = 0
    BY FS_EmptySet
  <2> QED
    BY <1>3, <1>4, <1>6, <2>1 DEF Urgent, Ordered, Settled, Full
<1>10. Quiet(AppInit)
  BY <1>3, <1>4, <1>6, <1>8, <1>9 DEF Quiet, Sound, Clean
<1>11. Coherent(AppInit, <<>>)
  BY <1>10, QuietIs
<1> QED
  BY <1>2, <1>7, <1>11 DEF IInv

(* Every step keeps the invariant.                                         *)
LEMMA StepKeeps ==
  IInv /\ [Next]_vars => IInv'
<1>1. SUFFICES ASSUME IInv, [Next]_vars PROVE IInv'
  OBVIOUS
<1>2. CASE DoNextJob
  BY <1>1, <1>2, DoNextJobKeeps
<1>3. CASE DoNextTask
  BY <1>1, <1>3, DoNextTaskKeeps
<1>4. CASE \E codes \in SignaledCodes : OnAit(codes)
  BY <1>1, <1>4, OnAitKeeps
<1>5. CASE ServiceStarted
  BY <1>1, <1>5, ServiceStartedKeeps
<1>6. CASE ServiceStopped
  BY <1>1, <1>6, ServiceStoppedKeeps
<1>7. CASE \E a \in Apps : CarouselMounted(a)
  BY <1>1, <1>7, CarouselMountedKeeps
<1>8. CASE Scan
  BY <1>1, <1>8, ScanKeeps
<1>9. CASE StopAll
  BY <1>1, <1>9, StopAllKeeps
<1>10. CASE \E a \in Apps : UserCommand("start", a) \/ UserCommand("stop", a)
  BY <1>1, <1>10, UserCommandKeeps
<1>11. CASE \E on \in BOOLEAN : EnableSpawner(on)
  BY <1>1, <1>11, EnableSpawnerKeeps
<1>12. CASE \E a \in Apps : ConnectorThread(a)
  BY <1>1, <1>12, ConnectorKeeps
<1>13. CASE UNCHANGED vars
  <2>1. app' = app /\ todo' = todo /\ events' = events
    BY <1>13 DEF vars
  <2> QED
    BY <1>1, <2>1 DEF IInv
<1> QED
  BY <1>1, <1>2, <1>3, <1>4, <1>5, <1>6, <1>7, <1>8, <1>9, <1>10, <1>11, <1>12,
     <1>13 DEF Next, ProviderThread, Signaling, User

(* Hence it holds at any time.                                             *)
LEMMA Always ==
  Spec => []IInv
BY InitHolds, StepKeeps, PTL DEF Spec

(* Members and jobs keep their types, whatever the receiver does, and a    *)
(* live process is that of an item of the Spawner.                         *)
THEOREM Types ==
  Spec => []TypeOK
<1>1. IInv => TypeOK
  BY DEF IInv, Typed, Members, Statuses, Conns, TypeOK
<1> QED
  BY <1>1, Always, PTL

(* At any time the Spawner runs no more than it may, only such as are at   *)
(* least as urgent as all that wait, and while it is not being switched    *)
(* none waits in vain (Spawner::run, stop, enable).                        *)
THEOREM OnlyMostUrgentRun ==
  Spec => []MostUrgentRun
<1>1. IInv => MostUrgentRun
  <2>1. SUFFICES ASSUME IInv, ~app.broken
                 PROVE  /\ Cardinality(app.live) <= MaxParallel
                        /\ app.enabled =>
                             \A q \in Queued(app) :
                               /\ Switching \/ Cardinality(app.live) = MaxParallel
                               /\ \A a \in app.live : Priority[a] >= Priority[q]
                        /\ Switching \/ app.enabled \/ app.live = {}
    BY DEF MostUrgentRun
  <2>2. Ordered(app) /\ EnableInv(app, todo)
    BY <2>1 DEF IInv, Coherent
  <2>3. Switching <=> Switched(todo)
    BY DEF Switching, Switched
  <2>4. ~Switching => Settled(app)
    BY <2>2, <2>3 DEF EnableInv
  <2> QED
    BY <2>2, <2>4 DEF Ordered, Settled, Full
<1> QED
  BY <1>1, Always, PTL

(* At any time the Spawner has one item of each application that is        *)
(* waiting, starting or started, and no connector outlives it.             *)
THEOREM EachProcessOwned ==
  Spec => []ProcessesOwned
<1>1. IInv => ProcessesOwned
  BY DEF IInv, Coherent, Owned, OwnedBut, Slot, ProcessesOwned
<1> QED
  BY <1>1, Always, PTL

(* At any time an application that is removed leaves nothing behind, and   *)
(* neither does the service once its removals are done.                    *)
THEOREM RemovedIsAlwaysClean ==
  Spec => []RemovedIsClean
<1>1. IInv => RemovedIsClean
  <2>1. SUFFICES ASSUME IInv, ~app.broken
                 PROVE  /\ \A a \in Apps \ Present(app) :
                             /\ a \notin app.download \cup app.streams
                                           \cup Items(app) \cup app.mounted
                             /\ app.conn[a] = "none"
                        /\ todo = <<>> /\ ~app.service =>
                             /\ app.download = {} /\ app.streams = {}
                             /\ Bound \cap Present(app) = {}
    BY DEF RemovedIsClean
  <2>2. Coherent(app, todo) /\ Owned(app) /\ Clean(app)
    BY <2>1 DEF IInv, Coherent
  <2>3. ASSUME NEW a \in Apps \ Present(app)
        PROVE  /\ a \notin app.download \cup app.streams \cup Items(app) \cup app.mounted
               /\ app.conn[a] = "none"
    BY <2>2, <2>3 DEF Owned, OwnedBut, Slot, Clean, Present, IsRunning
  <2>4. ASSUME todo = <<>>, ~app.service
        PROVE  /\ app.download = {} /\ app.streams = {}
               /\ Bound \cap Present(app) = {}
    BY <2>2, <2>4, QuietIs DEF Quiet
  <2> QED
    BY <2>3, <2>4
<1> QED
  BY <1>1, Always, PTL

(* Once its jobs are done the AIT factory remembers exactly the            *)
(* applications of the AIT that are there.                                 *)
THEOREM SignaledArePresent ==
  Spec => []SignaledPresent
<1>1. IInv => SignaledPresent
  <2>1. SUFFICES ASSUME IInv, todo = <<>>, ~app.broken
                 PROVE  \A a \in Apps \ Local :
                          app.code[a] # NoCode <=> a \in Present(app)
    BY DEF SignaledPresent
  <2>2. Quiet(app)
    BY <2>1, QuietIs DEF IInv
  <2> QED
    BY <2>2 DEF Quiet
<1> QED
  BY <1>1, Always, PTL
=============================================================================
