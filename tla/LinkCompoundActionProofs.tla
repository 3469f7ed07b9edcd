----------------------- MODULE LinkCompoundActionProofs -----------------------
(***************************************************************************)
(* What holds of LinkCompoundAction for a tree of any shape and size, and  *)
(* any interleaving of the threads that run it, as long as the link is not *)
(* triggered before it is done: the count of a compound is never ahead of  *)
(* the reports, no action is run twice, and a compound with nothing        *)
(* parallel below reports neither early nor, if a sequence itself, twice.  *)
(*                                                                         *)
(* The lemmas are of the tree; of where things to do come from when a      *)
(* thread does one (Moves); of the reports that are to come; and then one  *)
(* for each action.                                                        *)
(***************************************************************************)
EXTENDS LinkCompoundAction, FiniteSetTheorems, SequenceTheorems, TLAPS

Commands == {"run", "load", "store", "mark", "test"}

Steps == [do : Commands, of : Actions, start : BOOLEAN, value : Int]

Partial == {"store", "mark", "test"}

(* Only what a thread does next may be a part of actionProcessed, and that *)
(* is of a compound.                                                       *)
AtHand(do) ==
  \A t \in Threads : \A i \in DOMAIN do[t] :
    do[t][i].do # "run" => i = 1 /\ do[t][i].of \in Compounds

Typed ==
  /\ triggers \in 0 .. MaxTriggers
  /\ compound \in [Compounds -> [pending : Int, hasStart : BOOLEAN]]
  /\ todo \in [Threads -> Seq(Steps)] /\ AtHand(todo)
  /\ left \in [Compounds -> Int]
  /\ reports \in [Compounds -> Seq([start : BOOLEAN, left : Int])]
  /\ retriggered \in BOOLEAN

(* All is of the link's tree.                                              *)
OfTree(do) ==
  \A t \in Threads : \A i \in DOMAIN do[t] : do[t][i].of \in Within[Root]

(* When an action has still to be run, this is the only thing to do within *)
(* it: neither it nor a part of it is run twice, and none reports before.  *)
RunOnce(do) ==
  \A t, u \in Threads : \A i \in DOMAIN do[t], j \in DOMAIN do[u] :
    do[t][i].do = "run" /\ do[u][j].of \in Within[do[t][i].of] =>
      t = u /\ i = j

(* What a compound that has been run has begun                             *)
Begun(step, c) == step.of \in Within[c] /\ (step.do = "run" => step.of # c)

(* A sequence with nothing parallel below is done by one thread.           *)
OneThread(do) ==
  \A c \in Compounds \ Parallel : Sequential(c) =>
    \A t, u \in Threads : \A i \in DOMAIN do[t], j \in DOMAIN do[u] :
      Begun(do[t][i], c) /\ Begun(do[u][j], c) => t = u

Orderly(do) == OfTree(do) /\ RunOnce(do) /\ OneThread(do)

(* The count, and what a thread has read of it, is never ahead of the      *)
(* reports: a decrement may be lost, not done twice.                       *)
Values(do, l) ==
  \A t \in Threads : \A i \in DOMAIN do[t] :
    do[t][i].do \in Partial => do[t][i].value >= l[do[t][i].of]

CountInv ==
  /\ \A c \in Compounds : compound[c].pending >= left[c]
  /\ Values(todo, left)

(* The action has to be run, or its thread is counting a report to it.     *)
Work(step, a) == step.of = a /\ step.do \in {"run"} \cup Partial

Works(do, a) == \E t \in Threads : \E i \in DOMAIN do[t] : Work(do[t][i], a)

(* A part will still report: it is at work, or is to hear of its parts.    *)
Going(do, l, a) == Works(do, a) \/ (a \in Compounds /\ l[a] > 0)

Due(do, l, c) == {a \in Actions : IsPart(a, c) /\ Going(do, l, a)}

(* Threads that report to a compound right now                             *)
Loads(do, c) ==
  {t \in Threads : \E i \in DOMAIN do[t] :
     do[t][i].do = "load" /\ do[t][i].of = c}

(* There are no more reports to come than are left.                        *)
Covered(do, l, c) ==
  Cardinality(Due(do, l, c)) + Cardinality(Loads(do, c)) <= l[c]

AllCovered(do, l) == \A c \in Compounds : Sequential(c) => Covered(do, l, c)

ReportInv ==
  \A c \in Compounds : Sequential(c) =>
    \A i \in DOMAIN reports[c] : reports[c][i].left = 0

(* The action or what it is in has still to be run.                        *)
Ahead(do, a) ==
  \E t \in Threads : \E i \in DOMAIN do[t] :
    do[t][i].do = "run" /\ a \in Within[do[t][i].of]

(* A sequence that may still report has not done so for this trigger.      *)
OnceInv ==
  \A c \in Compounds \ Parallel : Sequential(c) =>
    /\ Len(reports[c]) <= triggers
    /\ Going(todo, left, c) \/ Ahead(todo, c) => Len(reports[c]) < triggers

Counted == Orderly(todo) /\ CountInv /\ AllCovered(todo, left)

IInv ==
  /\ Typed
  /\ ~retriggered => Counted /\ ReportInv /\ OnceInv
-----------------------------------------------------------------------------
(* The tree                                                                *)

LEMMA WithinType ==
  ASSUME NEW a \in Actions
  PROVE  /\ Within[a] \subseteq Actions
         /\ a \in Within[a]
         /\ \A as \in SUBSET Actions : a \in as /\ Closed(as) => Within[a] \subseteq as
BY DEF Within

LEMMA PartsType ==
  ASSUME NEW c \in Compounds
  PROVE  /\ Parts[c] \in Seq(Actions) /\ Len(Parts[c]) \in Nat
         /\ DOMAIN Parts[c] = 1 .. Len(Parts[c])
         /\ \A i \in DOMAIN Parts[c] : Parts[c][i] \in Actions \ {Root}
<1>1. Parts[c] \in Seq(Actions \ {Root})
  BY TreeAssumption
<1>2. /\ Len(Parts[c]) \in Nat /\ DOMAIN Parts[c] = 1 .. Len(Parts[c])
      /\ \A i \in DOMAIN Parts[c] : Parts[c][i] \in Actions \ {Root}
  BY <1>1
<1>3. Parts[c] \in Seq(Actions)
  BY <1>1, SeqMonotonic
<1> QED
  BY <1>2, <1>3

LEMMA PartOfOne ==
  ASSUME NEW c \in Compounds, NEW d \in Compounds, NEW a, IsPart(a, c), IsPart(a, d)
  PROVE  c = d /\ a \in Actions \ {Root}
<1>1. a \in Actions \ {Root}
  BY PartsType DEF IsPart
<1>2. PICK e \in Compounds : \A f \in Compounds \ {e} : ~IsPart(a, f)
  BY <1>1, TreeAssumption
<1> QED
  BY <1>1, <1>2

(* The parts of what is within are within.                                 *)
LEMMA PartWithin ==
  ASSUME NEW b \in Actions, NEW c \in Compounds, c \in Within[b],
         NEW a, IsPart(a, c)
  PROVE  a \in Within[b]
<1>1. a \in Actions
  BY PartOfOne
<1>2. ASSUME NEW as \in SUBSET Actions, b \in as, Closed(as)
      PROVE  a \in as
  <2>1. c \in as
    BY <1>2 DEF Within
  <2> QED
    BY <1>2, <2>1 DEF Closed, IsPart
<1> QED
  BY <1>1, <1>2 DEF Within

LEMMA WithinClosed ==
  ASSUME NEW b \in Actions
  PROVE  Closed(Within[b])
BY PartWithin DEF Closed, IsPart

LEMMA WithinAgain ==
  ASSUME NEW b \in Actions, NEW a \in Within[b]
  PROVE  Within[a] \subseteq Within[b]
BY WithinType, WithinClosed

(* What is within another is part of something within.                     *)
LEMMA WholeWithin ==
  ASSUME NEW b \in Actions, NEW a \in Within[b], a # b,
         NEW c \in Compounds, IsPart(a, c)
  PROVE  c \in Within[b]
<1> DEFINE as == Within[b] \ {a}
<1> SUFFICES ASSUME c \notin Within[b] PROVE FALSE
  OBVIOUS
<1>1. as \in SUBSET Actions /\ b \in as
  BY WithinType
<1>2. ASSUME NEW d \in as \cap Compounds, NEW i \in DOMAIN Parts[d]
      PROVE  Parts[d][i] \in as
  <2>1. IsPart(Parts[d][i], d)
    BY DEF IsPart
  <2>2. Parts[d][i] \in Within[b]
    BY <2>1, PartWithin
  <2>3. Parts[d][i] # a
    BY <2>1, PartOfOne
  <2> QED
    BY <2>2, <2>3
<1>3. Closed(as)
  BY <1>2 DEF Closed
<1>4. Within[b] \subseteq as
  BY <1>1, <1>3, WithinType
<1> QED
  BY <1>4

LEMMA SimpleWithin ==
  ASSUME NEW a \in Simple
  PROVE  Within[a] = {a}
<1>1. a \in Actions /\ a \notin Compounds
  BY TreeAssumption DEF Actions
<1>2. Closed({a})
  BY <1>1 DEF Closed
<1> QED
  BY <1>1, <1>2, WithinType

LEMMA CompoundsAre ==
  Compounds \subseteq Actions /\ Root \in Compounds /\ Root \in Actions
BY TreeAssumption DEF Actions

(* Nothing contains itself.                                                *)
LEMMA NoCycle ==
  ASSUME NEW c \in Compounds, c \in Within[Root], NEW a, IsPart(a, c)
  PROVE  c \notin Within[a] /\ a # c
<1>1. a \in Actions \ {Root} /\ c \in Actions /\ Root \in Actions
  BY PartOfOne, CompoundsAre
<1>2. c \notin Within[a]
  <2> DEFINE as == Actions \ Within[a]
  <2> SUFFICES ASSUME c \in Within[a] PROVE FALSE
    OBVIOUS
  <2>1. Root \in as
    <3> SUFFICES ASSUME Root \in Within[a] PROVE FALSE
      BY <1>1
    <3>1. Closed(Actions \ {Root})
      BY PartsType DEF Closed
    <3>2. Within[a] \subseteq Actions \ {Root}
      BY <1>1, <3>1, WithinType
    <3> QED
      BY <3>2
  <2>2. ASSUME NEW d \in as \cap Compounds, NEW i \in DOMAIN Parts[d]
        PROVE  Parts[d][i] \in as
    <3>1. IsPart(Parts[d][i], d) /\ Parts[d][i] \in Actions
      BY PartsType DEF IsPart
    <3>2. CASE Parts[d][i] = a
      BY <3>1, <3>2, PartOfOne
    <3>3. CASE Parts[d][i] # a
      BY <1>1, <3>1, <3>3, WholeWithin
    <3> QED
      BY <3>2, <3>3
  <2>3. Closed(as)
    BY <2>2 DEF Closed
  <2>4. Within[Root] \subseteq as
    BY <1>1, <2>1, <2>3, WithinType
  <2> QED
    BY <2>4
<1> QED
  BY <1>1, <1>2, WithinType
-----------------------------------------------------------------------------
(* What threads have to do after a step of one of them                     *)

(* Where each thing to do was before; 0 for what the step adds.            *)
Kept(do, do2, t, was) ==
  /\ \A u \in Threads : \A j \in DOMAIN do2[u] : was[u][j] # 0 =>
       /\ was[u][j] \in DOMAIN do[u]
       /\ do2[u][j] = do[u][was[u][j]]
       /\ ~(u = t /\ was[u][j] = 1)
       /\ was[u][j] = 1 => j = 1
  /\ \A u \in Threads : \A j, k \in DOMAIN do2[u] :
       was[u][j] = was[u][k] /\ was[u][j] # 0 => j = k

(* A thread goes on with actionProcessed, or reports to the next one.      *)
GoesOn(h, y) ==
  /\ y.do # "run" /\ y.of \in Compounds
  /\ \/ h.do # "run" /\ y.of = h.of /\ y.do \in Partial
     \/ /\ IsPart(h.of, y.of) /\ y.do = "load"
        /\ h.do # "run" \/ h.of \in Simple

(* A compound has its parts run.                                           *)
Begins(h, y) == h.do = "run" /\ h.of \in Compounds /\ y.do = "run" /\ IsPart(y.of, h.of)

Added(do, do2, t, was) ==
  /\ \A u \in Threads : \A j \in DOMAIN do2[u] : was[u][j] = 0 =>
       \/ u = t /\ j = 1 /\ GoesOn(do[t][1], do2[u][j])
       \/ /\ Begins(do[t][1], do2[u][j])
          /\ do[t][1].of \notin Parallel => u = t
  /\ \A u, v \in Threads : \A j \in DOMAIN do2[u], k \in DOMAIN do2[v] :
       was[u][j] = 0 /\ was[v][k] = 0 /\ do2[u][j].of = do2[v][k].of =>
         u = v /\ j = k

Moves(do, do2, t, was) ==
  /\ do \in [Threads -> Seq(Steps)] /\ do2 \in [Threads -> Seq(Steps)]
  /\ t \in Threads /\ 1 \in DOMAIN do[t]
  /\ Kept(do, do2, t, was) /\ Added(do, do2, t, was)

LEMMA DoType ==
  ASSUME NEW do \in [Threads -> Seq(Steps)], NEW t \in Threads, NEW i \in DOMAIN do[t]
  PROVE  /\ do[t][i] \in Steps /\ do[t][i].of \in Actions /\ i \in Nat \ {0}
         /\ do[t][i].do \in Commands
<1>1. do[t] \in Seq(Steps)
  OBVIOUS
<1>2. do[t][i] \in Steps /\ i \in Nat \ {0}
  BY <1>1
<1> QED
  BY <1>2 DEF Steps

LEMMA AtHandKept ==
  ASSUME NEW do, NEW do2, NEW t, NEW was, Moves(do, do2, t, was), AtHand(do)
  PROVE  AtHand(do2)
<1> SUFFICES ASSUME NEW u \in Threads, NEW j \in DOMAIN do2[u], do2[u][j].do # "run"
             PROVE  j = 1 /\ do2[u][j].of \in Compounds
  BY DEF AtHand
<1>1. CASE was[u][j] = 0
  BY <1>1 DEF Moves, Added, GoesOn, Begins
<1>2. CASE was[u][j] # 0
  BY <1>2 DEF Moves, Kept, AtHand
<1> QED
  BY <1>1, <1>2

LEMMA OfTreeKept ==
  ASSUME NEW do, NEW do2, NEW t, NEW was, Moves(do, do2, t, was), OfTree(do)
  PROVE  OfTree(do2)
<1> SUFFICES ASSUME NEW u \in Threads, NEW j \in DOMAIN do2[u]
             PROVE  do2[u][j].of \in Within[Root]
  BY DEF OfTree
<1> DEFINE h == do[t][1]
           y == do2[u][j]
<1>1. h.of \in Within[Root] /\ Root \in Actions
  BY CompoundsAre DEF Moves, OfTree
<1>2. CASE was[u][j] # 0
  BY <1>2 DEF Moves, Kept, OfTree
<1>3. CASE was[u][j] = 0 /\ GoesOn(h, y)
  <2>1. CASE y.of = h.of
    BY <1>1, <2>1
  <2>2. CASE IsPart(h.of, y.of)
    BY <1>1, <1>3, <2>2, WholeWithin, PartOfOne DEF GoesOn
  <2> QED
    BY <1>3, <2>1, <2>2 DEF GoesOn
<1>4. CASE was[u][j] = 0 /\ Begins(h, y)
  BY <1>1, <1>4, PartWithin DEF Begins
<1> QED
  BY <1>2, <1>3, <1>4 DEF Moves, Added

(* What goes on is within whatever what it goes on from is in.             *)
LEMMA GoesOnWithin ==
  ASSUME NEW b \in Actions, NEW h, NEW y, GoesOn(h, y), y.of \in Within[b]
  PROVE  h.of \in Within[b]
BY PartWithin DEF GoesOn

LEMMA RunOnceKept ==
  ASSUME NEW do, NEW do2, NEW t, NEW was, Moves(do, do2, t, was),
         OfTree(do), RunOnce(do)
  PROVE  RunOnce(do2)
<1> DEFINE h == do[t][1]
<1> SUFFICES ASSUME NEW u \in Threads, NEW v \in Threads,
                    NEW j \in DOMAIN do2[u], NEW k \in DOMAIN do2[v],
                    do2[u][j].do = "run", do2[v][k].of \in Within[do2[u][j].of]
             PROVE  u = v /\ j = k
  BY DEF RunOnce
<1> DEFINE x == do2[u][j]
           y == do2[v][k]
<1>1. /\ do \in [Threads -> Seq(Steps)] /\ do2 \in [Threads -> Seq(Steps)]
      /\ t \in Threads /\ 1 \in DOMAIN do[t]
      /\ x.of \in Actions /\ h.of \in Actions /\ y.of \in Actions
      /\ h.of \in Within[Root]
  BY DoType DEF Moves, OfTree
<1>2. ASSUME was[u][j] # 0, h.of \in Within[x.of]
      PROVE  FALSE
  <2>1. was[u][j] \in DOMAIN do[u] /\ x = do[u][was[u][j]] /\ ~(u = t /\ was[u][j] = 1)
    BY <1>2 DEF Moves, Kept
  <2> QED
    BY <1>1, <1>2, <2>1 DEF RunOnce
<1>3. CASE was[u][j] # 0 /\ was[v][k] # 0
  <2>1. /\ was[u][j] \in DOMAIN do[u] /\ x = do[u][was[u][j]]
        /\ was[v][k] \in DOMAIN do[v] /\ y = do[v][was[v][k]]
    BY <1>3 DEF Moves, Kept
  <2>2. u = v /\ was[u][j] = was[v][k]
    BY <2>1 DEF RunOnce
  <2> QED
    BY <1>3, <2>2 DEF Moves, Kept
<1>4. CASE was[u][j] # 0 /\ was[v][k] = 0
  <2>1. CASE GoesOn(h, y)
    BY <1>1, <1>2, <1>4, <2>1, GoesOnWithin
  <2>2. CASE Begins(h, y) /\ y.of # x.of
    BY <1>1, <1>2, <1>4, <2>2, WholeWithin DEF Begins
  <2>3. CASE Begins(h, y) /\ y.of = x.of
    <3>1. was[u][j] \in DOMAIN do[u] /\ x = do[u][was[u][j]] /\ ~(u = t /\ was[u][j] = 1)
      BY <1>4 DEF Moves, Kept
    <3>2. x.of \in Within[h.of]
      BY <1>1, <2>3, PartWithin, WithinType DEF Begins
    <3> QED
      BY <1>1, <2>3, <3>1, <3>2 DEF RunOnce, Begins
  <2> QED
    BY <1>4, <2>1, <2>2, <2>3 DEF Moves, Added
<1>5. CASE was[u][j] = 0
  <2>1. Begins(h, x)
    BY <1>5 DEF Moves, Added, GoesOn
  <2>2. x.of \in Within[h.of] /\ y.of \in Within[h.of]
    BY <1>1, <2>1, PartWithin, WithinType, WithinAgain DEF Begins
  <2>3. CASE was[v][k] # 0
    <3>1. was[v][k] \in DOMAIN do[v] /\ y = do[v][was[v][k]] /\ ~(v = t /\ was[v][k] = 1)
      BY <2>3 DEF Moves, Kept
    <3> QED
      BY <1>1, <2>1, <2>2, <3>1 DEF RunOnce, Begins
  <2>4. CASE was[v][k] = 0
    <3>1. Begins(h, y)
      <4>1. h.of \notin Simple
        BY <2>1, TreeAssumption DEF Begins
      <4> QED
        BY <2>1, <2>4, <4>1 DEF Moves, Added, GoesOn, Begins
    <3>2. CASE y.of = x.of
      BY <1>5, <2>4, <3>2 DEF Moves, Added
    <3>3. CASE y.of # x.of
      <4>1. h.of \in Within[x.of]
        BY <1>1, <3>1, <3>3, WholeWithin DEF Begins
      <4> QED
        BY <1>1, <2>1, <4>1, NoCycle DEF Begins
    <3> QED
      BY <3>2, <3>3
  <2> QED
    BY <2>3, <2>4
<1> QED
  BY <1>3, <1>4, <1>5

LEMMA OneThreadKept ==
  ASSUME NEW do, NEW do2, NEW t, NEW was, Moves(do, do2, t, was),
         RunOnce(do), OneThread(do)
  PROVE  OneThread(do2)
<1> DEFINE h == do[t][1]
<1> SUFFICES ASSUME NEW c \in Compounds \ Parallel, Sequential(c),
                    NEW u \in Threads, NEW v \in Threads,
                    NEW j \in DOMAIN do2[u], NEW k \in DOMAIN do2[v],
                    Begun(do2[u][j], c), Begun(do2[v][k], c)
             PROVE  u = v
  BY DEF OneThread
<1>1. /\ do \in [Threads -> Seq(Steps)] /\ do2 \in [Threads -> Seq(Steps)]
      /\ t \in Threads /\ 1 \in DOMAIN do[t] /\ c \in Actions /\ h.of \in Actions
  BY DoType, CompoundsAre DEF Moves
<1>2. ASSUME NEW w \in Threads, NEW i \in DOMAIN do2[w], Begun(do2[w][i], c),
             was[w][i] # 0
      PROVE  \E n \in DOMAIN do[w] : Begun(do[w][n], c) /\ ~(w = t /\ n = 1)
  <2>1. /\ was[w][i] \in DOMAIN do[w] /\ do2[w][i] = do[w][was[w][i]]
        /\ ~(w = t /\ was[w][i] = 1)
    BY <1>2 DEF Moves, Kept
  <2>2. Begun(do[w][was[w][i]], c)
    BY <1>2, <2>1
  <2> QED
    BY <2>1, <2>2
<1>3. ASSUME NEW w \in Threads, NEW i \in DOMAIN do2[w], Begun(do2[w][i], c),
             was[w][i] = 0
      PROVE  w = t /\ (Begun(h, c) \/ (h.do = "run" /\ h.of = c))
  <2> DEFINE y == do2[w][i]
  <2>1. CASE w = t /\ GoesOn(h, y)
    <3>1. h.of \in Within[c]
      BY <1>1, <1>3, <2>1, GoesOnWithin DEF Begun
    <3>2. h.do = "run" => h.of # c
      BY <2>1, TreeAssumption DEF GoesOn
    <3> QED
      BY <2>1, <3>1, <3>2 DEF Begun
  <2>2. CASE Begins(h, y)
    <3>1. h.of \in Within[c]
      BY <1>1, <1>3, <2>2, WholeWithin DEF Begun, Begins
    <3>2. h.of \notin Parallel
      BY <3>1 DEF Sequential
    <3> QED
      BY <1>3, <2>2, <3>1, <3>2 DEF Moves, Added, Begun, GoesOn
  <2> QED
    BY <1>3, <2>1, <2>2 DEF Moves, Added
<1>4. ASSUME h.do = "run", h.of = c, NEW w \in Threads, NEW n \in DOMAIN do[w],
             Begun(do[w][n], c)
      PROVE  w = t /\ n = 1
  BY <1>1, <1>4 DEF RunOnce, Begun
<1>5. CASE was[u][j] # 0 /\ was[v][k] # 0
  BY <1>2, <1>5 DEF OneThread
<1>6. CASE was[u][j] = 0 /\ was[v][k] = 0
  BY <1>3, <1>6
<1>7. CASE was[u][j] # 0 /\ was[v][k] = 0
  BY <1>1, <1>2, <1>3, <1>4, <1>7 DEF OneThread
<1>8. CASE was[u][j] = 0 /\ was[v][k] # 0
  BY <1>1, <1>2, <1>3, <1>4, <1>8 DEF OneThread
<1> QED
  BY <1>5, <1>6, <1>7, <1>8

LEMMA OrderlyKept ==
  ASSUME NEW do, NEW do2, NEW t, NEW was, Moves(do, do2, t, was), Orderly(do)
  PROVE  Orderly(do2)
BY OfTreeKept, RunOnceKept, OneThreadKept DEF Orderly
-----------------------------------------------------------------------------
(* What each kind of step does with the list of its thread                 *)

LEMMA ReplacedBy ==
  ASSUME todo \in [Threads -> Seq(Steps)], NEW t \in Threads, todo[t] # <<>>,
         NEW ss \in Seq(Steps)
  PROVE  /\ Replace(t, ss) \in [Threads -> Seq(Steps)]
         /\ \A u \in Threads : u # t => Replace(t, ss)[u] = todo[u]
         /\ Head(todo[t]) = todo[t][1] /\ 1 \in DOMAIN todo[t]
         /\ \A j \in DOMAIN Replace(t, ss)[t] :
              IF j <= Len(ss) THEN Replace(t, ss)[t][j] = ss[j] /\ j \in DOMAIN ss
              ELSE /\ j - Len(ss) + 1 \in DOMAIN todo[t]
                   /\ Replace(t, ss)[t][j] = todo[t][j - Len(ss) + 1]
                   /\ j - Len(ss) + 1 > 1
         /\ \A j \in DOMAIN Replace(t, ss)[t] : j \in Nat \ {0}
         /\ Len(ss) \in Nat
<1> DEFINE l == todo[t]
           r == ss \o Tail(l)
<1>1. l \in Seq(Steps) /\ l # <<>>
  OBVIOUS
<1>2. /\ Tail(l) \in Seq(Steps) /\ Len(Tail(l)) = Len(l) - 1 /\ Len(l) \in Nat
      /\ Len(l) >= 1 /\ DOMAIN l = 1 .. Len(l) /\ Head(l) = l[1]
      /\ \A j \in 1 .. Len(l) - 1 : Tail(l)[j] = l[j + 1]
  BY <1>1
<1>3. /\ r \in Seq(Steps) /\ Len(r) = Len(ss) + Len(l) - 1 /\ Len(ss) \in Nat
      /\ DOMAIN r = 1 .. Len(r) /\ DOMAIN ss = 1 .. Len(ss)
      /\ \A j \in 1 .. Len(r) :
           r[j] = IF j <= Len(ss) THEN ss[j] ELSE Tail(l)[j - Len(ss)]
  BY <1>2, ConcatProperties
<1>4. Replace(t, ss) = [todo EXCEPT ![t] = r]
  BY DEF Replace
<1>5. /\ Replace(t, ss) \in [Threads -> Seq(Steps)] /\ Replace(t, ss)[t] = r
      /\ \A u \in Threads : u # t => Replace(t, ss)[u] = todo[u]
  BY <1>3, <1>4
<1>6. ASSUME NEW j \in DOMAIN r, j > Len(ss)
      PROVE  /\ j - Len(ss) + 1 \in DOMAIN l /\ r[j] = l[j - Len(ss) + 1]
             /\ j - Len(ss) + 1 > 1
  <2> DEFINE i == j - Len(ss)
  <2>1. i \in 1 .. Len(l) - 1 /\ r[j] = Tail(l)[i]
    BY <1>2, <1>3, <1>6
  <2> QED
    BY <1>2, <2>1
<1>7. \A j \in DOMAIN r : j \in Nat \ {0} /\ (j <= Len(ss) => r[j] = ss[j] /\ j \in DOMAIN ss)
  BY <1>3
<1> QED
  BY <1>2, <1>3, <1>5, <1>6, <1>7

(* Where things were when a thread puts n things for the first.            *)
Shifted(t, n) ==
  [u \in Threads |-> [j \in Nat |->
     IF u # t THEN j ELSE IF j <= n THEN 0 ELSE j - n + 1]]

LEMMA ReplacedKept ==
  ASSUME todo \in [Threads -> Seq(Steps)], NEW t \in Threads, todo[t] # <<>>,
         NEW ss \in Seq(Steps)
  PROVE  /\ Kept(todo, Replace(t, ss), t, Shifted(t, Len(ss)))
         /\ \A u \in Threads : \A j \in DOMAIN Replace(t, ss)[u] :
              Shifted(t, Len(ss))[u][j] = 0 => u = t /\ j \in DOMAIN ss
                                               /\ Replace(t, ss)[t][j] = ss[j]
<1> DEFINE do2 == Replace(t, ss)
           was == Shifted(t, Len(ss))
<1>1. ASSUME NEW u \in Threads, NEW j \in DOMAIN do2[u]
      PROVE  /\ j \in Nat \ {0}
             /\ was[u][j] = IF u # t THEN j
                            ELSE IF j <= Len(ss) THEN 0 ELSE j - Len(ss) + 1
             /\ u # t => do2[u] = todo[u]
  <2>1. do2[u] \in Seq(Steps)
    BY ReplacedBy
  <2>2. j \in Nat \ {0}
    BY <2>1
  <2> QED
    BY <2>2, ReplacedBy DEF Shifted
<1>2. ASSUME NEW u \in Threads, NEW j \in DOMAIN do2[u], was[u][j] # 0
      PROVE  /\ was[u][j] \in DOMAIN todo[u] /\ do2[u][j] = todo[u][was[u][j]]
             /\ ~(u = t /\ was[u][j] = 1)
             /\ was[u][j] = 1 => j = 1
  <2>1. CASE u # t
    BY <1>1, <2>1
  <2>2. CASE u = t
    <3>1. j > Len(ss) /\ was[u][j] = j - Len(ss) + 1
      BY <1>1, <1>2, <2>2, ReplacedBy
    <3> QED
      BY <2>2, <3>1, ReplacedBy
  <2> QED
    BY <2>1, <2>2
<1>3. ASSUME NEW u \in Threads, NEW j \in DOMAIN do2[u], NEW k \in DOMAIN do2[u],
             was[u][j] = was[u][k], was[u][j] # 0
      PROVE  j = k
  <2>1. j \in Nat /\ k \in Nat /\ Len(ss) \in Nat
    BY <1>1, ReplacedBy
  <2>2. CASE u # t
    BY <1>1, <1>3, <2>2
  <2>3. CASE u = t
    <3> DEFINE n == Len(ss)
    <3>1. /\ was[u][j] = IF j <= n THEN 0 ELSE j - n + 1
          /\ was[u][k] = IF k <= n THEN 0 ELSE k - n + 1
      BY <1>1, <2>3
    <3> HIDE DEF n, was
    <3>2. ~(j <= n) /\ ~(k <= n)
      BY <1>3, <3>1
    <3>3. n \in Nat
      BY <2>1 DEF n
    <3>4. was[u][j] = j - n + 1 /\ was[u][k] = k - n + 1
      BY <3>1, <3>2
    <3>5. j - n + 1 = k - n + 1
      BY <1>3, <3>4
    <3> QED
      BY <2>1, <3>3, <3>5
  <2> QED
    BY <2>2, <2>3
<1>4. ASSUME NEW u \in Threads, NEW j \in DOMAIN do2[u], was[u][j] = 0
      PROVE  u = t /\ j \in DOMAIN ss /\ do2[t][j] = ss[j]
  <2>1. j \in Nat \ {0} /\ Len(ss) \in Nat
    BY <1>1, ReplacedBy
  <2>2. u = t
    BY <1>1, <1>4, <2>1
  <2>3. was[u][j] = IF j <= Len(ss) THEN 0 ELSE j - Len(ss) + 1
    BY <1>1, <2>2
  <2> HIDE DEF was
  <2>4. j <= Len(ss)
    BY <1>4, <2>1, <2>3
  <2> QED
    BY <2>2, <2>4, ReplacedBy
<1> QED
  BY <1>2, <1>3, <1>4 DEF Kept

(* The first thing to do becomes another, or is done.                      *)
LEMMA OneMoves ==
  ASSUME todo \in [Threads -> Seq(Steps)], NEW t \in Threads, todo[t] # <<>>,
         NEW y \in Steps, GoesOn(Head(todo[t]), y)
  PROVE  Moves(todo, Replace(t, <<y>>), t, Shifted(t, 1))
<1> DEFINE ss == <<y>>
<1>1. ss \in Seq(Steps) /\ Len(ss) = 1 /\ DOMAIN ss = {1} /\ ss[1] = y
  OBVIOUS
<1>2. /\ Kept(todo, Replace(t, ss), t, Shifted(t, 1))
      /\ \A u \in Threads : \A j \in DOMAIN Replace(t, ss)[u] :
           Shifted(t, 1)[u][j] = 0 => u = t /\ j = 1 /\ Replace(t, ss)[t][j] = y
  <2> HIDE DEF ss
  <2>1. /\ Kept(todo, Replace(t, ss), t, Shifted(t, Len(ss)))
        /\ \A u \in Threads : \A j \in DOMAIN Replace(t, ss)[u] :
             Shifted(t, Len(ss))[u][j] = 0 =>
               u = t /\ j \in DOMAIN ss /\ Replace(t, ss)[t][j] = ss[j]
    BY <1>1, ReplacedKept
  <2>2. Shifted(t, Len(ss)) = Shifted(t, 1)
    BY <1>1
  <2> QED
    BY <1>1, <2>1, <2>2
<1>3. /\ Replace(t, ss) \in [Threads -> Seq(Steps)]
      /\ Head(todo[t]) = todo[t][1] /\ 1 \in DOMAIN todo[t]
  BY <1>1, ReplacedBy
<1>4. Added(todo, Replace(t, ss), t, Shifted(t, 1))
  <2>1. ASSUME NEW u \in Threads, NEW j \in DOMAIN Replace(t, ss)[u],
               Shifted(t, 1)[u][j] = 0
        PROVE  u = t /\ j = 1 /\ GoesOn(todo[t][1], Replace(t, ss)[u][j])
    BY <1>2, <1>3, <2>1
  <2> QED
    BY <2>1 DEF Added
<1> QED
  BY <1>2, <1>3, <1>4 DEF Moves

LEMMA NoneMoves ==
  ASSUME todo \in [Threads -> Seq(Steps)], NEW t \in Threads, todo[t] # <<>>
  PROVE  /\ Moves(todo, Replace(t, <<>>), t, Shifted(t, 0))
         /\ \A u \in Threads : \A j \in DOMAIN Replace(t, <<>>)[u] :
              Shifted(t, 0)[u][j] # 0
<1> DEFINE ss == <<>>
<1>1. ss \in Seq(Steps) /\ Len(ss) = 0 /\ DOMAIN ss = {}
  OBVIOUS
<1>2. /\ Kept(todo, Replace(t, ss), t, Shifted(t, 0))
      /\ \A u \in Threads : \A j \in DOMAIN Replace(t, ss)[u] :
           Shifted(t, 0)[u][j] # 0
  BY <1>1, ReplacedKept
<1>3. /\ Replace(t, ss) \in [Threads -> Seq(Steps)]
      /\ Head(todo[t]) = todo[t][1] /\ 1 \in DOMAIN todo[t]
  BY <1>1, ReplacedBy
<1>4. Added(todo, Replace(t, ss), t, Shifted(t, 0))
  BY <1>2 DEF Added
<1> QED
  BY <1>2, <1>3, <1>4 DEF Moves

(* The parts of a compound are run by its thread or by one for each.       *)
Spread(t, c) ==
  IF c \in Parallel
    THEN [u \in Threads |->
            IF u[1] = t[1] /\ IsPart(u[2], c) THEN <<Run(u[2])>>
              ELSE Replace(t, <<>>)[u]]
    ELSE Replace(t, [i \in DOMAIN Parts[c] |-> Run(Parts[c][i])])

SpreadFrom(t, c) ==
  IF c \in Parallel
    THEN [u \in Threads |-> [j \in Nat |->
            IF u[1] = t[1] /\ IsPart(u[2], c) THEN 0 ELSE Shifted(t, 0)[u][j]]]
    ELSE Shifted(t, Len(Parts[c]))

LEMMA RunType ==
  ASSUME NEW a \in Actions
  PROVE  Run(a) \in Steps /\ Run(a).do = "run" /\ Run(a).of = a
BY DEF Run, Step, Steps, Commands

LEMMA SequenceMoves ==
  ASSUME todo \in [Threads -> Seq(Steps)], NEW t \in Threads, todo[t] # <<>>,
         NEW c \in Compounds, c \notin Parallel,
         Head(todo[t]).do = "run", Head(todo[t]).of = c
  PROVE  Moves(todo, Spread(t, c), t, SpreadFrom(t, c))
<1> DEFINE ss == [i \in DOMAIN Parts[c] |-> Run(Parts[c][i])]
           do2 == Replace(t, ss)
           was == Shifted(t, Len(Parts[c]))
<1>1. /\ ss \in Seq(Steps) /\ Len(ss) = Len(Parts[c]) /\ DOMAIN ss = DOMAIN Parts[c]
      /\ \A i \in DOMAIN ss : ss[i] = Run(Parts[c][i]) /\ ss[i].do = "run"
                              /\ ss[i].of = Parts[c][i]
  <2>1. \A i \in 1 .. Len(Parts[c]) :
          /\ Run(Parts[c][i]) \in Steps /\ Run(Parts[c][i]).do = "run"
          /\ Run(Parts[c][i]).of = Parts[c][i]
    BY PartsType, RunType
  <2>2. ss = [i \in 1 .. Len(Parts[c]) |-> Run(Parts[c][i])] /\ Len(Parts[c]) \in Nat
    BY PartsType
  <2>3. ss \in Seq(Steps) /\ Len(ss) = Len(Parts[c])
    <3> DEFINE F(i) == Run(Parts[c][i])
               n == Len(Parts[c])
    <3>1. \A i \in 1 .. n : F(i) \in Steps
      BY <2>1
    <3>2. ss = [i \in 1 .. n |-> F(i)] /\ n \in Nat
      BY <2>2
    <3> HIDE DEF F, n, ss
    <3>3. ss \in Seq(Steps) /\ Len(ss) = n
      BY <3>1, <3>2
    <3> QED
      BY <3>3 DEF n
  <2> QED
    BY <2>1, <2>2, <2>3
<1> HIDE DEF ss
<1>2. /\ Kept(todo, do2, t, was)
      /\ \A u \in Threads : \A j \in DOMAIN do2[u] :
           was[u][j] = 0 => u = t /\ j \in DOMAIN ss /\ do2[t][j] = ss[j]
  BY <1>1, ReplacedKept
<1>3. /\ do2 \in [Threads -> Seq(Steps)]
      /\ Head(todo[t]) = todo[t][1] /\ 1 \in DOMAIN todo[t]
  BY <1>1, ReplacedBy
<1>4. ASSUME NEW u \in Threads, NEW j \in DOMAIN do2[u], was[u][j] = 0
      PROVE  u = t /\ Begins(todo[t][1], do2[u][j])
  <2>1. u = t /\ j \in DOMAIN ss /\ do2[u][j] = ss[j]
    BY <1>2, <1>4
  <2>2. do2[u][j].do = "run" /\ IsPart(do2[u][j].of, c)
    BY <1>1, <2>1 DEF IsPart
  <2> QED
    BY <1>3, <2>1, <2>2 DEF Begins
<1>5. ASSUME NEW u \in Threads, NEW v \in Threads,
             NEW j \in DOMAIN do2[u], NEW k \in DOMAIN do2[v],
             was[u][j] = 0, was[v][k] = 0, do2[u][j].of = do2[v][k].of
      PROVE  u = v /\ j = k
  <2>1. IsInjective(Parts[c])
    BY TreeAssumption
  <2> QED
    BY <1>1, <1>2, <1>5, <2>1 DEF IsInjective
<1>6. Added(todo, do2, t, was)
  BY <1>4, <1>5 DEF Added
<1>7. Spread(t, c) = do2 /\ SpreadFrom(t, c) = was
  BY DEF Spread, SpreadFrom, ss
<1> QED
  BY <1>2, <1>3, <1>6, <1>7 DEF Moves

LEMMA ParallelMoves ==
  ASSUME todo \in [Threads -> Seq(Steps)], NEW t \in Threads, todo[t] # <<>>,
         NEW c \in Compounds, c \in Parallel,
         Head(todo[t]).do = "run", Head(todo[t]).of = c
  PROVE  Moves(todo, Spread(t, c), t, SpreadFrom(t, c))
<1> DEFINE r == Replace(t, <<>>)
           do2 == [u \in Threads |->
                     IF u[1] = t[1] /\ IsPart(u[2], c) THEN <<Run(u[2])>> ELSE r[u]]
           was == [u \in Threads |-> [j \in Nat |->
                     IF u[1] = t[1] /\ IsPart(u[2], c) THEN 0
                       ELSE Shifted(t, 0)[u][j]]]
           New(u) == u[1] = t[1] /\ IsPart(u[2], c)
<1>1. /\ r \in [Threads -> Seq(Steps)]
      /\ Head(todo[t]) = todo[t][1] /\ 1 \in DOMAIN todo[t]
  <2>1. <<>> \in Seq(Steps)
    OBVIOUS
  <2> QED
    BY <2>1, ReplacedBy
<1>2. /\ Kept(todo, r, t, Shifted(t, 0))
      /\ \A u \in Threads : \A j \in DOMAIN r[u] : Shifted(t, 0)[u][j] # 0
  BY NoneMoves DEF Moves
<1>3. ASSUME NEW u \in Threads, New(u)
      PROVE  /\ do2[u] = <<Run(u[2])>> /\ do2[u] \in Seq(Steps) /\ DOMAIN do2[u] = {1}
             /\ do2[u][1].do = "run" /\ do2[u][1].of = u[2]
  <2>1. u[2] \in Actions
    BY DEF Threads
  <2> QED
    BY <1>3, <2>1, RunType
<1>4. ASSUME NEW u \in Threads, ~New(u)
      PROVE  do2[u] = r[u]
  BY <1>4
<1>5. do2 \in [Threads -> Seq(Steps)]
  BY <1>1, <1>3, <1>4
<1>6. ASSUME NEW u \in Threads, NEW j \in DOMAIN do2[u]
      PROVE  /\ New(u) => was[u][j] = 0
             /\ ~New(u) => was[u][j] = Shifted(t, 0)[u][j] /\ j \in DOMAIN r[u]
  <2>1. do2[u] \in Seq(Steps)
    BY <1>5
  <2>2. j \in Nat
    BY <2>1
  <2> QED
    BY <1>4, <2>2
<1>7. Spread(t, c) = do2 /\ SpreadFrom(t, c) = was
  BY DEF Spread, SpreadFrom
<1> HIDE DEF do2, was, r
<1>8. Kept(todo, do2, t, was)
  <2>1. ASSUME NEW u \in Threads, NEW j \in DOMAIN do2[u], was[u][j] # 0
        PROVE  ~New(u)
    BY <1>6, <2>1
  <2> QED
    BY <1>2, <1>4, <1>6, <2>1 DEF Kept
<1>9. ASSUME NEW u \in Threads, NEW j \in DOMAIN do2[u], was[u][j] = 0
      PROVE  /\ New(u) /\ j = 1 /\ do2[u][j].of = u[2]
             /\ Begins(todo[t][1], do2[u][j])
  <2>1. New(u)
    BY <1>2, <1>6, <1>9
  <2> QED
    BY <1>1, <1>3, <1>9, <2>1 DEF Begins
<1>10. ASSUME NEW u \in Threads, NEW v \in Threads,
              NEW j \in DOMAIN do2[u], NEW k \in DOMAIN do2[v],
              was[u][j] = 0, was[v][k] = 0, do2[u][j].of = do2[v][k].of
       PROVE  u = v /\ j = k
  <2>1. u[1] = v[1] /\ u[2] = v[2] /\ j = 1 /\ k = 1
    BY <1>9, <1>10
  <2> QED
    BY <2>1 DEF Threads
<1>11. Added(todo, do2, t, was)
  BY <1>1, <1>9, <1>10 DEF Added
<1> QED
  BY <1>1, <1>5, <1>7, <1>8, <1>11 DEF Moves
-----------------------------------------------------------------------------
(* The reports that are to come                                            *)

LEMMA WorkBefore ==
  ASSUME NEW do, NEW do2, NEW t, NEW was, Moves(do, do2, t, was),
         NEW a, Works(do2, a)
  PROVE  \/ \E u \in Threads : \E i \in DOMAIN do[u] :
              Work(do[u][i], a) /\ ~(u = t /\ i = 1)
         \/ /\ 1 \in DOMAIN do2[t] /\ was[t][1] = 0
            /\ GoesOn(do[t][1], do2[t][1]) /\ Work(do2[t][1], a)
         \/ do[t][1].do = "run" /\ do[t][1].of \in Compounds /\ IsPart(a, do[t][1].of)
<1>1. PICK u \in Threads : \E j \in DOMAIN do2[u] : Work(do2[u][j], a)
  BY DEF Works
<1>2. PICK j \in DOMAIN do2[u] : Work(do2[u][j], a)
  BY <1>1
<1>3. CASE was[u][j] # 0
  <2>1. /\ was[u][j] \in DOMAIN do[u] /\ do2[u][j] = do[u][was[u][j]]
        /\ ~(u = t /\ was[u][j] = 1)
    BY <1>3 DEF Moves, Kept
  <2>2. Work(do[u][was[u][j]], a)
    BY <1>2, <2>1
  <2> QED
    BY <2>1, <2>2
<1>4. CASE was[u][j] = 0
  <2>1. CASE u = t /\ j = 1 /\ GoesOn(do[t][1], do2[u][j])
    BY <1>2, <1>4, <2>1
  <2>2. CASE Begins(do[t][1], do2[u][j])
    BY <1>2, <2>2 DEF Begins, Work
  <2> QED
    BY <1>4, <2>1, <2>2 DEF Moves, Added
<1> QED
  BY <1>3, <1>4

LEMMA LoadsBefore ==
  ASSUME NEW do, NEW do2, NEW t, NEW was, Moves(do, do2, t, was), AtHand(do),
         NEW c, NEW u \in Loads(do2, c)
  PROVE  \/ u \in Loads(do, c) /\ u # t
         \/ /\ u = t /\ 1 \in DOMAIN do2[t] /\ GoesOn(do[t][1], do2[t][1])
            /\ do2[t][1].do = "load" /\ do2[t][1].of = c
<1>1. /\ u \in Threads
      /\ \E j \in DOMAIN do2[u] : do2[u][j].do = "load" /\ do2[u][j].of = c
  BY DEF Loads
<1>2. PICK j \in DOMAIN do2[u] : do2[u][j].do = "load" /\ do2[u][j].of = c
  BY <1>1
<1>3. CASE was[u][j] # 0
  <2>1. /\ was[u][j] \in DOMAIN do[u] /\ do2[u][j] = do[u][was[u][j]]
        /\ ~(u = t /\ was[u][j] = 1)
    BY <1>1, <1>3 DEF Moves, Kept
  <2>2. was[u][j] = 1
    BY <1>1, <1>2, <2>1 DEF AtHand
  <2> QED
    BY <1>1, <1>2, <2>1, <2>2 DEF Loads
<1>4. CASE was[u][j] = 0
  BY <1>1, <1>2, <1>4 DEF Moves, Added, Begins
<1> QED
  BY <1>3, <1>4

LEMMA Counts ==
  ASSUME NEW do, NEW l, NEW c
  PROVE  /\ IsFiniteSet(Due(do, l, c)) /\ Cardinality(Due(do, l, c)) \in Nat
         /\ IsFiniteSet(Loads(do, c)) /\ Cardinality(Loads(do, c)) \in Nat
<1>1. IsFiniteSet(Actions) /\ IsFiniteSet(1 .. MaxTriggers)
  BY TreeAssumption, FS_Interval
<1>2. IsFiniteSet(Threads)
  BY <1>1, FS_Product DEF Threads
<1>3. Due(do, l, c) \in SUBSET Actions /\ Loads(do, c) \in SUBSET Threads
  BY DEF Due, Loads
<1> QED
  BY <1>1, <1>2, <1>3, FS_Subset, FS_CardinalityType

LEMMA CoveredLess ==
  ASSUME NEW do, NEW l, NEW do2, NEW l2, NEW c, l[c] \in Int, l2[c] \in Int,
         Covered(do, l, c), l2[c] = l[c],
         Due(do2, l2, c) \subseteq Due(do, l, c), Loads(do2, c) \subseteq Loads(do, c)
  PROVE  Covered(do2, l2, c)
<1>1. /\ Cardinality(Due(do2, l2, c)) <= Cardinality(Due(do, l, c))
      /\ Cardinality(Loads(do2, c)) <= Cardinality(Loads(do, c))
  BY Counts, FS_Subset
<1> QED
  BY <1>1, Counts DEF Covered

(* A part that was due reports.                                            *)
LEMMA CoveredReported ==
  ASSUME NEW do, NEW l, NEW do2, NEW c, l[c] \in Int, Covered(do, l, c),
         NEW a \in Due(do, l, c), NEW t,
         Due(do2, l, c) \subseteq Due(do, l, c) \ {a},
         Loads(do2, c) \subseteq Loads(do, c) \cup {t}
  PROVE  Covered(do2, l, c)
<1>1. /\ IsFiniteSet(Due(do, l, c) \ {a})
      /\ Cardinality(Due(do, l, c) \ {a}) = Cardinality(Due(do, l, c)) - 1
  BY Counts, FS_RemoveElement
<1>2. Cardinality(Due(do2, l, c)) <= Cardinality(Due(do, l, c)) - 1
  BY <1>1, Counts, FS_Subset
<1>3. /\ IsFiniteSet(Loads(do, c) \cup {t})
      /\ Cardinality(Loads(do, c) \cup {t}) <= Cardinality(Loads(do, c)) + 1
  <2> DEFINE S == Loads(do, c)
  <2>1. IsFiniteSet(S) /\ Cardinality(S) \in Nat
    BY Counts
  <2> HIDE DEF S
  <2>2. /\ IsFiniteSet(S \cup {t})
        /\ Cardinality(S \cup {t}) = IF t \in S THEN Cardinality(S) ELSE Cardinality(S) + 1
    BY <2>1, FS_AddElement
  <2>3. IsFiniteSet(S \cup {t}) /\ Cardinality(S \cup {t}) <= Cardinality(S) + 1
    BY <2>1, <2>2
  <2> QED
    BY <2>3 DEF S
<1>4. /\ Cardinality(Loads(do2, c)) <= Cardinality(Loads(do, c) \cup {t})
      /\ Cardinality(Loads(do, c) \cup {t}) \in Nat
  BY <1>3, Counts, FS_Subset, FS_CardinalityType
<1> QED
  BY <1>2, <1>3, <1>4, Counts DEF Covered

(* A report is counted.                                                    *)
LEMMA CoveredLoaded ==
  ASSUME NEW do, NEW l, NEW do2, NEW l2, NEW c, l[c] \in Int, l2[c] = l[c] - 1,
         Covered(do, l, c), NEW t \in Loads(do, c),
         Due(do2, l2, c) \subseteq Due(do, l, c),
         Loads(do2, c) \subseteq Loads(do, c) \ {t}
  PROVE  Covered(do2, l2, c)
<1>1. /\ IsFiniteSet(Loads(do, c) \ {t})
      /\ Cardinality(Loads(do, c) \ {t}) = Cardinality(Loads(do, c)) - 1
  BY Counts, FS_RemoveElement
<1>2. Cardinality(Loads(do2, c)) <= Cardinality(Loads(do, c)) - 1
  BY <1>1, Counts, FS_Subset
<1>3. Cardinality(Due(do2, l2, c)) <= Cardinality(Due(do, l, c))
  BY Counts, FS_Subset
<1> QED
  BY <1>2, <1>3, Counts DEF Covered

(* A compound is run.                                                      *)
LEMMA CoveredBegun ==
  ASSUME NEW do, NEW l, NEW c \in Compounds, l[c] = Len(Parts[c]), Loads(do, c) = {}
  PROVE  Covered(do, l, c)
<1> DEFINE n == Len(Parts[c])
           P == {a \in Actions : IsPart(a, c)}
<1>1. n \in Nat /\ DOMAIN Parts[c] = 1 .. n
  BY PartsType
<1>2. Parts[c] \in Surjection(1 .. n, P)
  <2>1. \A i \in 1 .. n : Parts[c][i] \in P
    BY <1>1, PartsType DEF IsPart
  <2>2. Parts[c] = [i \in 1 .. n |-> Parts[c][i]]
    <3>1. Parts[c] \in Seq(Actions)
      BY PartsType
    <3> QED
      BY <3>1
  <2>3. Parts[c] \in [1 .. n -> P]
    BY <2>1, <2>2
  <2>4. \A a \in P : \E i \in 1 .. n : Parts[c][i] = a
    BY <1>1 DEF IsPart
  <2> QED
    BY <2>3, <2>4 DEF Surjection
<1>3. Cardinality(P) <= n
  BY <1>1, <1>2, FS_SurjCardinalityBound DEF ExistsSurjection
<1>4. IsFiniteSet(P) /\ Cardinality(P) \in Nat
  <2>1. P \in SUBSET Actions
    OBVIOUS
  <2> QED
    BY <2>1, TreeAssumption, FS_Subset, FS_CardinalityType
<1>5. Cardinality(Due(do, l, c)) <= Cardinality(P)
  <2>1. Due(do, l, c) \in SUBSET P
    BY DEF Due
  <2> QED
    BY <1>4, <2>1, FS_Subset
<1>6. Cardinality(Loads(do, c)) = 0
  BY FS_EmptySet
<1> HIDE DEF P
<1> QED
  BY <1>1, <1>3, <1>4, <1>5, <1>6, Counts DEF Covered

(* What is below a compound is sequential when the compound is.            *)
LEMMA SequentialPart ==
  ASSUME NEW c \in Compounds, c \in Within[Root], Sequential(c),
         NEW a \in Compounds, IsPart(a, c)
  PROVE  a \notin Parallel /\ Sequential(a)
<1>1. c \in Actions /\ a \in Actions /\ a \in Within[c] /\ a # c
  BY CompoundsAre, WithinType, PartWithin, NoCycle
<1>2. Within[a] \subseteq Within[c] /\ c \notin Within[a]
  BY <1>1, WithinAgain, NoCycle
<1> QED
  BY <1>1, <1>2 DEF Sequential

(* What has something to do is of the tree, and so is what it is part of.  *)
LEMMA WholeOfTree ==
  ASSUME NEW do, OfTree(do), NEW t \in Threads, NEW i \in DOMAIN do[t],
         NEW c \in Compounds, IsPart(do[t][i].of, c)
  PROVE  c \in Within[Root]
<1>1. do[t][i].of \in Within[Root] /\ do[t][i].of # Root
  BY PartOfOne DEF OfTree
<1> QED
  BY <1>1, WholeWithin, CompoundsAre

(* A compound that hears a report has reports left.                        *)
LEMMA SomeLeft ==
  ASSUME Typed, AllCovered(todo, left), NEW c \in Compounds, Sequential(c),
         NEW t \in Loads(todo, c)
  PROVE  left[c] > 0
<1>1. Cardinality(Loads(todo, c)) # 0
  BY Counts, FS_EmptySet
<1>2. left[c] \in Int
  BY DEF Typed
<1> QED
  BY <1>1, <1>2, Counts DEF AllCovered, Covered

(* What a thread has at hand is of an action that will still report.       *)
LEMMA StillGoing ==
  ASSUME Typed, Counted, NEW t \in Threads, 1 \in DOMAIN todo[t],
         NEW d \in Compounds, Sequential(d), IsPart(todo[t][1].of, d)
  PROVE  Going(todo, left, todo[t][1].of)
<1> DEFINE h == todo[t][1]
<1>1. CASE h.do \in {"run"} \cup Partial
  BY <1>1 DEF Going, Works, Work
<1>2. CASE h.do = "load"
  <2>1. h.of \in Compounds /\ t \in Loads(todo, h.of)
    BY <1>2 DEF Typed, AtHand, Loads
  <2>2. Sequential(h.of)
    BY <2>1, WholeOfTree, SequentialPart DEF Counted, Orderly
  <2> QED
    BY <2>1, <2>2, SomeLeft DEF Counted, Going
<1>3. h.do \in Commands
  BY DoType DEF Typed
<1> QED
  BY <1>1, <1>2, <1>3 DEF Commands, Partial

(* Nothing more is due to a compound unless it is run.                     *)
LEMMA DueBefore ==
  ASSUME Typed, Counted, NEW do2, NEW t, NEW was, Moves(todo, do2, t, was),
         NEW l2, \A a \in Compounds : a # todo[t][1].of => l2[a] = left[a],
         NEW d \in Compounds, Sequential(d),
         todo[t][1].do = "run" => d # todo[t][1].of
  PROVE  Due(do2, l2, d) \subseteq Due(todo, left, d)
<1> DEFINE h == todo[t][1]
<1> SUFFICES ASSUME NEW a \in Actions, IsPart(a, d), Going(do2, l2, a)
             PROVE  Going(todo, left, a)
  BY DEF Due
<1>1. t \in Threads /\ 1 \in DOMAIN todo[t]
  BY DEF Moves
<1>2. CASE a = h.of
  BY <1>1, <1>2, StillGoing
<1>3. CASE a # h.of /\ a \in Compounds /\ l2[a] > 0
  BY <1>3 DEF Going
<1>4. CASE a # h.of /\ Works(do2, a)
  <2>1. \/ \E u \in Threads : \E i \in DOMAIN todo[u] :
             Work(todo[u][i], a) /\ ~(u = t /\ i = 1)
        \/ GoesOn(todo[t][1], do2[t][1]) /\ Work(do2[t][1], a)
        \/ todo[t][1].do = "run" /\ todo[t][1].of \in Compounds /\ IsPart(a, todo[t][1].of)
    BY <1>4, WorkBefore
  <2>2. ~(GoesOn(todo[t][1], do2[t][1]) /\ Work(do2[t][1], a))
    BY <1>4 DEF GoesOn, Work, Partial
  <2>3. ~(/\ todo[t][1].do = "run" /\ todo[t][1].of \in Compounds
          /\ IsPart(a, todo[t][1].of))
    BY PartOfOne
  <2> QED
    BY <2>1, <2>2, <2>3 DEF Going, Works
<1> QED
  BY <1>2, <1>3, <1>4 DEF Going

(* Nothing that has reported for this trigger is run or counts again.      *)
LEMMA OnceKept ==
  ASSUME Typed, Counted, OnceInv, NEW t, NEW was, Moves(todo, todo', t, was),
         triggers' = triggers,
         \A a \in Compounds :
           left'[a] > 0 => left[a] > 0 \/ (todo[t][1].do = "run" /\ todo[t][1].of = a),
         \A a \in Compounds :
           \/ reports'[a] = reports[a]
           \/ /\ todo[t][1].do = "test" /\ todo[t][1].of = a
              /\ Len(reports'[a]) = Len(reports[a]) + 1
              /\ a \notin Parallel /\ Sequential(a) => ~Going(todo', left', a)
  PROVE  OnceInv'
<1> DEFINE h == todo[t][1]
<1> SUFFICES ASSUME NEW c \in Compounds \ Parallel, Sequential(c)
             PROVE  /\ Len(reports'[c]) <= triggers
                    /\ Going(todo', left', c) \/ Ahead(todo', c) =>
                         Len(reports'[c]) < triggers
  BY DEF OnceInv
<1>1. /\ t \in Threads /\ 1 \in DOMAIN todo[t] /\ h.of \in Actions
      /\ c \in Compounds /\ c \in Actions /\ c \in Within[c]
  BY DoType, CompoundsAre, WithinType DEF Moves
<1>2. /\ Len(reports[c]) \in Nat /\ triggers \in Nat
      /\ Len(reports[c]) <= triggers
      /\ Going(todo, left, c) \/ Ahead(todo, c) => Len(reports[c]) < triggers
  BY LenProperties, TreeAssumption DEF OnceInv, Typed
<1>3. ASSUME Ahead(todo', c)
      PROVE  Ahead(todo, c)
  <2>1. PICK u \in Threads : \E j \in DOMAIN todo'[u] :
               todo'[u][j].do = "run" /\ c \in Within[todo'[u][j].of]
    BY <1>3 DEF Ahead
  <2>2. PICK j \in DOMAIN todo'[u] :
               todo'[u][j].do = "run" /\ c \in Within[todo'[u][j].of]
    BY <2>1
  <2>3. CASE was[u][j] # 0
    <3> DEFINE i == was[u][j]
    <3>1. i \in DOMAIN todo[u] /\ todo'[u][j] = todo[u][i]
      BY <2>3 DEF Moves, Kept
    <3> QED
      BY <2>2, <3>1 DEF Ahead
  <2>4. CASE was[u][j] = 0
    <3>1. Begins(h, todo'[u][j])
      BY <2>2, <2>4 DEF Moves, Added, GoesOn
    <3>2. todo'[u][j].of \in Within[h.of]
      BY <1>1, <3>1, PartWithin, WithinType DEF Begins
    <3>3. c \in Within[h.of]
      BY <1>1, <2>2, <3>2, WithinAgain
    <3> QED
      BY <1>1, <3>1, <3>3 DEF Ahead, Begins
  <2> QED
    BY <2>3, <2>4
<1>4. ASSUME h.do = "run", h.of = c
      PROVE  Ahead(todo, c)
  BY <1>1, <1>4 DEF Ahead
<1>5. ASSUME Going(todo', left', c)
      PROVE  Going(todo, left, c) \/ Ahead(todo, c)
  <2>1. CASE left'[c] > 0
    BY <1>1, <1>4, <2>1 DEF Going
  <2>2. CASE Works(todo', c)
    <3>1. CASE \E u \in Threads : \E i \in DOMAIN todo[u] : Work(todo[u][i], c)
      BY <3>1 DEF Going, Works
    <3>2. CASE GoesOn(h, todo'[t][1]) /\ Work(todo'[t][1], c)
      <4>1. h.do # "run" /\ h.of = c
        BY <3>2 DEF GoesOn, Work, Partial
      <4>2. CASE h.do = "load"
        <5>1. t \in Loads(todo, c)
          BY <1>1, <4>1, <4>2 DEF Loads
        <5> QED
          BY <1>1, <5>1, SomeLeft DEF Counted, Going
      <4>3. CASE h.do # "load"
        <5>1. h.do \in Commands
          BY <1>1, DoType DEF Moves
        <5>2. Work(h, c)
          BY <4>1, <4>3, <5>1 DEF Work, Partial, Commands
        <5> QED
          BY <1>1, <5>2 DEF Going, Works
      <4> QED
        BY <4>2, <4>3
    <3>3. CASE h.do = "run" /\ h.of \in Compounds /\ IsPart(c, h.of)
      <4>1. c \in Within[h.of]
        BY <1>1, <3>3, PartWithin, WithinType
      <4> QED
        BY <1>1, <3>3, <4>1 DEF Ahead
    <3> QED
      BY <2>2, <3>1, <3>2, <3>3, WorkBefore
  <2> QED
    BY <1>5, <2>1, <2>2 DEF Going
<1>6. CASE reports'[c] = reports[c]
  BY <1>2, <1>3, <1>5, <1>6
<1>7. CASE /\ h.do = "test" /\ h.of = c
           /\ Len(reports'[c]) = Len(reports[c]) + 1
           /\ ~Going(todo', left', c)
  <2>1. Going(todo, left, c)
    BY <1>1, <1>7 DEF Going, Works, Work, Partial
  <2>2. ~Ahead(todo, c)
    BY <1>1, <1>7 DEF Ahead, Counted, Orderly, RunOnce
  <2> QED
    BY <1>2, <1>3, <1>7, <2>1, <2>2
<1> QED
  BY <1>1, <1>6, <1>7

(* A sequence that finds nothing left has no more to report.               *)
LEMMA NoMore ==
  ASSUME Typed, Counted, NEW t, NEW was, Moves(todo, todo', t, was), left' = left,
         NEW c \in Compounds \ Parallel, Sequential(c), left[c] <= 0,
         todo[t][1].do = "test", todo[t][1].of = c,
         1 \in DOMAIN todo'[t] /\ was[t][1] = 0 => todo'[t][1].do = "load"
  PROVE  ~Going(todo', left', c)
<1>1. /\ t \in Threads /\ 1 \in DOMAIN todo[t] /\ c \in Compounds
      /\ c \in Within[c]
  BY CompoundsAre, WithinType DEF Moves
<1>2. ASSUME NEW u \in Threads, NEW i \in DOMAIN todo[u], Work(todo[u][i], c)
      PROVE  u = t /\ i = 1
  <2>1. CASE todo[u][i].do = "run"
    BY <1>1, <1>2, <2>1 DEF Counted, Orderly, RunOnce, Work
  <2>2. CASE todo[u][i].do # "run"
    <3>1. Begun(todo[u][i], c) /\ Begun(todo[t][1], c)
      BY <1>1, <1>2, <2>2 DEF Begun, Work
    <3>2. u = t
      BY <1>1, <3>1 DEF Counted, Orderly, OneThread
    <3> QED
      BY <2>2, <3>2 DEF Typed, AtHand
  <2> QED
    BY <2>1, <2>2
<1>3. ~Works(todo', c)
  <2> SUFFICES ASSUME Works(todo', c) PROVE FALSE
    OBVIOUS
  <2>1. 1 \in DOMAIN todo'[t] /\ was[t][1] = 0 /\ Work(todo'[t][1], c)
    BY <1>2, WorkBefore
  <2> QED
    BY <2>1 DEF Work, Partial
<1>4. left[c] \in Int
  BY <1>1 DEF Typed
<1> QED
  BY <1>3, <1>4 DEF Going

(* What threads have read is not ahead of what is left.                    *)
LEMMA ValuesKept ==
  ASSUME NEW do, NEW do2, NEW t, NEW was, Moves(do, do2, t, was), NEW l, NEW l2,
         Values(do, l), AtHand(do),
         l \in [Compounds -> Int], l2 \in [Compounds -> Int],
         \A u \in Threads : \A i \in DOMAIN do[u] :
           do[u][i].do \in Partial => l2[do[u][i].of] <= l[do[u][i].of],
         GoesOn(do[t][1], do2[t][1]) /\ do2[t][1].do \in Partial =>
           do2[t][1].value >= l2[do2[t][1].of]
  PROVE  Values(do2, l2)
<1> SUFFICES ASSUME NEW u \in Threads, NEW j \in DOMAIN do2[u], do2[u][j].do \in Partial
             PROVE  do2[u][j].value >= l2[do2[u][j].of]
  BY DEF Values
<1>1. CASE was[u][j] = 0
  BY <1>1 DEF Moves, Added, Begins, Partial
<1>2. CASE was[u][j] # 0
  <2> DEFINE i == was[u][j]
  <2>1. i \in DOMAIN do[u] /\ do2[u][j] = do[u][i]
    BY <1>2 DEF Moves, Kept
  <2>2. /\ do[u][i].value >= l[do[u][i].of] /\ l2[do[u][i].of] <= l[do[u][i].of]
        /\ do[u][i].of \in Compounds /\ do[u][i].value \in Int
    <3>1. do[u][i] \in Steps
      BY <2>1, DoType DEF Moves
    <3> QED
      BY <2>1, <3>1 DEF Values, AtHand, Partial, Steps
  <2> QED
    BY <2>1, <2>2
<1> QED
  BY <1>1, <1>2
-----------------------------------------------------------------------------
(* What a step does with what is left to do                                *)

LEMMA StepType ==
  ASSUME NEW k \in Commands, NEW a \in Actions, NEW b \in BOOLEAN, NEW n \in Int
  PROVE  /\ Step(k, a, b, n) \in Steps
         /\ Step(k, a, b, n).do = k /\ Step(k, a, b, n).of = a
         /\ Step(k, a, b, n).value = n /\ Step(k, a, b, n).start = b
BY DEF Step, Steps

LEMMA LoadType ==
  ASSUME NEW c \in Compounds, NEW b
  PROVE  /\ Step("load", c, b, 0).do = "load" /\ Step("load", c, b, 0).of = c
         /\ b \in BOOLEAN => Step("load", c, b, 0) \in Steps
BY CompoundsAre DEF Step, Steps, Commands

LEMMA FirstIs ==
  ASSUME todo \in [Threads -> Seq(Steps)], NEW t \in Threads, todo[t] # <<>>,
         NEW y \in Steps
  PROVE  Replace(t, <<y>>)[t][1] = y
<1>1. Tail(todo[t]) \in Seq(Steps)
  OBVIOUS
<1>2. Replace(t, <<y>>)[t] = <<y>> \o Tail(todo[t])
  BY DEF Replace
<1> QED
  BY <1>1, <1>2

(* An action that is a part of one reports to that.                        *)
LEMMA ReportIs ==
  ASSUME NEW a \in Actions, NEW b \in BOOLEAN
  PROVE  \/ a = Root /\ Report(a, b) = <<>>
         \/ \E c \in Compounds : IsPart(a, c) /\ Report(a, b) = <<Step("load", c, b, 0)>>
<1>1. CASE a = Root
  BY <1>1 DEF Report
<1>2. CASE a # Root
  <2> DEFINE c == CHOOSE c \in Compounds : IsPart(a, c)
  <2>1. \E d \in Compounds : IsPart(a, d)
    BY <1>2, TreeAssumption
  <2>2. c \in Compounds /\ IsPart(a, c)
    BY <2>1
  <2>3. Report(a, b) = <<Step("load", c, b, 0)>>
    BY <1>2 DEF Report
  <2> QED
    BY <2>2, <2>3
<1> QED
  BY <1>1, <1>2

LEMMA HeadOf ==
  ASSUME Typed, NEW t \in Threads, NEW k, At(t, k)
  PROVE  /\ todo \in [Threads -> Seq(Steps)] /\ todo[t] # <<>>
         /\ Head(todo[t]) = todo[t][1] /\ 1 \in DOMAIN todo[t]
         /\ todo[t][1].do = k /\ todo[t][1] \in Steps /\ todo[t][1].of \in Actions
         /\ k # "run" => todo[t][1].of \in Compounds
<1>1. todo \in [Threads -> Seq(Steps)] /\ todo[t] # <<>> /\ Head(todo[t]).do = k
  BY DEF Typed, At
<1>2. todo[t] \in Seq(Steps)
  BY <1>1
<1>3. Head(todo[t]) = todo[t][1] /\ 1 \in DOMAIN todo[t]
  BY <1>1, <1>2
<1> QED
  BY <1>1, <1>3, DoType DEF Typed, AtHand

LEMMA MovesKeep ==
  ASSUME Typed, NEW t, NEW was, Moves(todo, todo', t, was)
  PROVE  /\ todo' \in [Threads -> Seq(Steps)] /\ AtHand(todo')
         /\ Orderly(todo) => Orderly(todo')
BY AtHandKept, OrderlyKept DEF Typed, Moves

(* The thread of t counts on, and nothing is reported.                     *)
LEMMA CoveredOn ==
  ASSUME Typed, Counted, NEW t, NEW was, Moves(todo, todo', t, was),
         GoesOn(todo[t][1], todo'[t][1]) => todo'[t][1].do # "load",
         todo[t][1].do # "run", left' = left
  PROVE  AllCovered(todo', left')
<1> SUFFICES ASSUME NEW d \in Compounds, Sequential(d)
             PROVE  Covered(todo', left', d)
  BY DEF AllCovered
<1>1. Due(todo', left', d) \subseteq Due(todo, left, d)
  BY DueBefore
<1>2. Loads(todo', d) \subseteq Loads(todo, d)
  BY LoadsBefore DEF Typed
<1>3. Covered(todo, left, d) /\ left[d] \in Int
  BY DEF Counted, AllCovered, Typed
<1> QED
  BY <1>1, <1>2, <1>3, CoveredLess

(* The action of t is done, and reports to the one it is part of.          *)
LEMMA CoveredReport ==
  ASSUME Typed, Counted, NEW t, NEW was, Moves(todo, todo', t, was), left' = left,
         NEW c \in Compounds, IsPart(todo[t][1].of, c),
         todo'[t][1].of = c, todo'[t][1].do = "load",
         todo[t][1].do = "run" => todo[t][1].of \in Simple,
         Sequential(c) => ~Going(todo', left', todo[t][1].of)
  PROVE  AllCovered(todo', left')
<1> DEFINE h == todo[t][1]
<1> SUFFICES ASSUME NEW d \in Compounds, Sequential(d)
             PROVE  Covered(todo', left', d)
  BY DEF AllCovered
<1>1. t \in Threads /\ 1 \in DOMAIN todo[t] /\ h.of \in Actions
      /\ (h.do = "run" => h.of \notin Compounds)
  BY TreeAssumption, DoType DEF Moves
<1>2. Due(todo', left', d) \subseteq Due(todo, left, d)
  BY <1>1, DueBefore
<1>3. Covered(todo, left, d) /\ left[d] \in Int
  BY DEF Counted, AllCovered, Typed
<1>4. CASE d # c
  <2>1. Loads(todo', d) \subseteq Loads(todo, d)
    BY <1>4, LoadsBefore DEF Typed
  <2> QED
    BY <1>2, <1>3, <2>1, CoveredLess
<1>5. CASE d = c
  <2>1. h.of \in Due(todo, left, c)
    BY <1>1, <1>5, StillGoing DEF Due
  <2>2. Due(todo', left, c) \subseteq Due(todo, left, c) \ {h.of}
    BY <1>2, <1>5 DEF Due
  <2>3. Loads(todo', c) \subseteq Loads(todo, c) \cup {t}
    BY LoadsBefore DEF Typed
  <2> QED
    BY <1>3, <1>5, <2>1, <2>2, <2>3, CoveredReported
<1> QED
  BY <1>4, <1>5

(* What is left stays within what threads have read.                       *)
LEMMA LeftSame ==
  ASSUME Typed, left' = left
  PROVE  \A u \in Threads : \A i \in DOMAIN todo[u] :
           todo[u][i].do \in Partial => left'[todo[u][i].of] <= left[todo[u][i].of]
<1> SUFFICES ASSUME NEW u \in Threads, NEW i \in DOMAIN todo[u],
                    todo[u][i].do \in Partial
             PROVE  left[todo[u][i].of] <= left[todo[u][i].of]
  OBVIOUS
<1>1. todo[u][i].of \in Compounds
  BY DEF Typed, AtHand, Partial
<1>2. left[todo[u][i].of] \in Int
  BY <1>1 DEF Typed
<1> QED
  BY <1>2

LEMMA RunSimpleKeeps ==
  ASSUME IInv, NEW t \in Threads, RunSimple(t)
  PROVE  IInv'
<1> DEFINE h == todo[t][1]
           a == h.of
<1>1. /\ todo \in [Threads -> Seq(Steps)] /\ todo[t] # <<>> /\ Head(todo[t]) = h
      /\ 1 \in DOMAIN todo[t] /\ h.do = "run" /\ h \in Steps /\ a \in Actions
  BY HeadOf DEF RunSimple, IInv
<1>2. /\ a \in Simple /\ todo' = Replace(t, Report(a, a \in Starts))
      /\ UNCHANGED <<triggers, compound, left, reports, raced, retriggered>>
  BY <1>1 DEF RunSimple
<1>3. a \notin Compounds
  BY <1>2, TreeAssumption
<1>4. PICK c \in Compounds :
        IsPart(a, c) /\ Report(a, a \in Starts) = <<Step("load", c, a \in Starts, 0)>>
  <2>1. (a \in Starts) \in BOOLEAN /\ a # Root
    BY <1>3, CompoundsAre
  <2> QED
    BY <1>1, <2>1, ReportIs
<1> DEFINE y == Step("load", c, a \in Starts, 0)
<1>5. y \in Steps /\ y.do = "load" /\ y.of = c
  <2>1. (a \in Starts) \in BOOLEAN
    OBVIOUS
  <2> QED
    BY <2>1, LoadType
<1>6. GoesOn(h, y)
  BY <1>2, <1>4, <1>5 DEF GoesOn
<1>7. todo' = Replace(t, <<y>>)
  BY <1>2, <1>4
<1> HIDE DEF y
<1>8. Moves(todo, todo', t, Shifted(t, 1))
  BY <1>1, <1>5, <1>6, <1>7, OneMoves
<1>9. Typed'
  BY <1>2, <1>8, MovesKeep DEF IInv, Typed
<1>10. ASSUME ~retriggered'
       PROVE  Counted' /\ ReportInv' /\ OnceInv'
  <2>1. Typed /\ Counted /\ ReportInv /\ OnceInv
    BY <1>2, <1>10 DEF IInv
  <2>2. Orderly(todo')
    BY <1>8, <2>1, MovesKeep DEF Counted
  <2>3. todo'[t][1] = y
    BY <1>1, <1>5, <1>7, FirstIs
  <2>4. ~Going(todo', left', a)
    <3>1. ASSUME NEW u \in Threads, NEW i \in DOMAIN todo[u], Work(todo[u][i], a)
          PROVE  u = t /\ i = 1
      <4>1. todo[u][i].of \in Within[a]
        BY <1>1, <3>1, WithinType DEF Work
      <4> QED
        BY <1>1, <2>1, <4>1 DEF Counted, Orderly, RunOnce
    <3>2. ~Works(todo', a)
      BY <1>3, <1>5, <1>8, <2>3, <3>1, WorkBefore DEF Work, Partial
    <3> QED
      BY <1>3, <3>2 DEF Going
  <2>5. AllCovered(todo', left')
    BY <1>2, <1>4, <1>5, <1>8, <2>1, <2>3, <2>4, CoveredReport
  <2>6. Values(todo', left')
    <3>1. ~(todo'[t][1].do \in Partial)
      BY <1>5, <2>3 DEF Partial
    <3>2. \A u \in Threads : \A i \in DOMAIN todo[u] :
            todo[u][i].do \in Partial => left'[todo[u][i].of] <= left[todo[u][i].of]
      BY <1>2, <2>1, LeftSame
    <3> QED
      BY <1>2, <1>8, <2>1, <3>1, <3>2, ValuesKept DEF Typed, Counted, CountInv
  <2>7. OnceInv'
    BY <1>2, <1>8, <2>1, OnceKept
  <2> QED
    BY <1>2, <2>1, <2>2, <2>5, <2>6, <2>7 DEF Counted, CountInv, ReportInv
<1> QED
  BY <1>9, <1>10 DEF IInv

LEMMA LoadKeeps ==
  ASSUME IInv, NEW t \in Threads, Load(t)
  PROVE  IInv'
<1> DEFINE h == todo[t][1]
           c == h.of
           y == Step("store", c, h.start, compound[c].pending - 1)
<1>1. /\ todo \in [Threads -> Seq(Steps)] /\ todo[t] # <<>> /\ Head(todo[t]) = h
      /\ 1 \in DOMAIN todo[t] /\ h.do = "load" /\ h \in Steps /\ c \in Compounds
  BY HeadOf DEF Load, IInv
<1>2. /\ todo' = Replace(t, <<y>>) /\ left' = [left EXCEPT ![c] = @ - 1]
      /\ UNCHANGED <<triggers, compound, reports, retriggered>>
  BY <1>1 DEF Load
<1>3. y \in Steps /\ y.do = "store" /\ y.of = c /\ y.value = compound[c].pending - 1
  <2>1. compound[c].pending - 1 \in Int /\ h.start \in BOOLEAN /\ c \in Actions
    BY <1>1, CompoundsAre DEF IInv, Typed, Steps
  <2>2. "store" \in Commands
    BY DEF Commands
  <2> QED
    BY <2>1, <2>2, StepType
<1> HIDE DEF y
<1>4. GoesOn(h, y)
  BY <1>1, <1>3 DEF GoesOn, Partial
<1>5. Moves(todo, todo', t, Shifted(t, 1)) /\ todo'[t][1] = y
  BY <1>1, <1>2, <1>3, <1>4, OneMoves, FirstIs
<1>6. /\ left \in [Compounds -> Int] /\ left' \in [Compounds -> Int]
      /\ left'[c] = left[c] - 1
      /\ \A a \in Compounds : a # c => left'[a] = left[a]
  BY <1>1, <1>2 DEF IInv, Typed
<1>7. Typed'
  BY <1>2, <1>5, <1>6, MovesKeep DEF IInv, Typed
<1>8. ASSUME ~retriggered'
      PROVE  Counted' /\ ReportInv' /\ OnceInv'
  <2>1. Typed /\ Counted /\ ReportInv /\ OnceInv
    BY <1>2, <1>8 DEF IInv
  <2>2. Orderly(todo')
    BY <1>5, <2>1, MovesKeep DEF Counted
  <2>3. ASSUME NEW d \in Compounds, Sequential(d)
        PROVE  Covered(todo', left', d)
    <3>1. Due(todo', left', d) \subseteq Due(todo, left, d)
      BY <1>1, <1>5, <1>6, <2>1, <2>3, DueBefore
    <3>2. Loads(todo', d) \subseteq Loads(todo, d) \ {t}
      BY <1>3, <1>5, <2>1, LoadsBefore DEF Typed
    <3>3. Covered(todo, left, d)
      BY <2>1, <2>3 DEF Counted, AllCovered
    <3>4. CASE d = c
      <4>1. t \in Loads(todo, c)
        BY <1>1 DEF Loads
      <4> QED
        BY <1>6, <3>1, <3>2, <3>3, <3>4, <4>1, CoveredLoaded
    <3>5. CASE d # c
      BY <1>6, <3>1, <3>2, <3>3, <3>5, CoveredLess
    <3> QED
      BY <3>4, <3>5
  <2>4. ASSUME NEW d \in Compounds
        PROVE  compound'[d].pending >= left'[d]
    <3>1. compound[d].pending >= left[d] /\ compound[d].pending \in Int
      BY <2>1 DEF Counted, CountInv, Typed
    <3> QED
      BY <1>2, <1>6, <3>1
  <2>5. Values(todo', left')
    <3>1. y.value >= left'[y.of]
      <4>1. compound[c].pending >= left[c] /\ compound[c].pending \in Int
        BY <1>1, <2>1 DEF Counted, CountInv, Typed
      <4> QED
        BY <1>1, <1>3, <1>6, <4>1
    <3>2. \A d \in Compounds : left'[d] <= left[d]
      BY <1>6
    <3>3. \A u \in Threads : \A i \in DOMAIN todo[u] :
            todo[u][i].do \in Partial => left'[todo[u][i].of] <= left[todo[u][i].of]
      BY <2>1, <3>2 DEF Typed, AtHand, Partial
    <3> QED
      BY <1>5, <1>6, <2>1, <3>1, <3>3, ValuesKept DEF Typed, Counted, CountInv
  <2>6. OnceInv'
    <3>1. \A a \in Compounds : left'[a] > 0 => left[a] > 0
      BY <1>6
    <3> QED
      BY <1>2, <1>5, <2>1, <3>1, OnceKept
  <2> QED
    BY <1>2, <2>1, <2>2, <2>3, <2>4, <2>5, <2>6
       DEF Counted, CountInv, AllCovered, ReportInv
<1> QED
  BY <1>7, <1>8 DEF IInv

(* Of Store and Mark: the thread goes on with what it has read.            *)
LEMMA GoingOnKeeps ==
  ASSUME IInv, NEW t \in Threads, NEW y \in Steps, todo[t] # <<>>,
         todo[t][1].do # "run", todo[t][1].of \in Compounds,
         y.do \in {"mark", "test"}, y.of = todo[t][1].of,
         ~retriggered => y.value >= left[y.of],
         todo' = Replace(t, <<y>>),
         compound' \in [Compounds -> [pending : Int, hasStart : BOOLEAN]],
         ~retriggered => \A c \in Compounds : compound'[c].pending >= left[c],
         UNCHANGED <<triggers, left, reports, retriggered>>
  PROVE  IInv'
<1>1. todo \in [Threads -> Seq(Steps)] /\ Head(todo[t]) = todo[t][1]
  <2>1. todo \in [Threads -> Seq(Steps)] /\ <<>> \in Seq(Steps)
    BY DEF IInv, Typed
  <2> QED
    BY <2>1, ReplacedBy
<1>2. GoesOn(todo[t][1], y)
  BY DEF GoesOn, Partial
<1>3. Moves(todo, todo', t, Shifted(t, 1)) /\ todo'[t][1] = y
  BY <1>1, <1>2, OneMoves, FirstIs
<1>4. Typed'
  BY <1>3, MovesKeep DEF IInv, Typed
<1>5. ASSUME ~retriggered'
      PROVE  Counted' /\ ReportInv' /\ OnceInv'
  <2>1. Typed /\ Counted /\ ReportInv /\ OnceInv
    BY <1>5 DEF IInv
  <2>2. Orderly(todo')
    BY <1>3, <2>1, MovesKeep DEF Counted
  <2>3. AllCovered(todo', left')
    BY <1>3, <2>1, CoveredOn
  <2>4. Values(todo', left')
    <3>1. \A u \in Threads : \A i \in DOMAIN todo[u] :
            todo[u][i].do \in Partial => left'[todo[u][i].of] <= left[todo[u][i].of]
      BY <2>1, LeftSame
    <3> QED
      BY <1>3, <1>5, <2>1, <3>1, ValuesKept DEF Typed, Counted, CountInv
  <2>5. OnceInv'
    BY <1>3, <2>1, OnceKept
  <2> QED
    BY <1>5, <2>1, <2>2, <2>3, <2>4, <2>5 DEF Counted, CountInv, ReportInv
<1> QED
  BY <1>4, <1>5 DEF IInv

LEMMA StoreKeeps ==
  ASSUME IInv, NEW t \in Threads, Store(t)
  PROVE  IInv'
<1> DEFINE h == todo[t][1]
           c == h.of
           b == compound[c].hasStart \/ h.start
           y == Step("mark", c, b, h.value)
<1>1. /\ todo \in [Threads -> Seq(Steps)] /\ todo[t] # <<>> /\ Head(todo[t]) = h
      /\ 1 \in DOMAIN todo[t] /\ h.do = "store" /\ h \in Steps /\ c \in Compounds
  BY HeadOf DEF Store, IInv
<1>2. /\ todo' = Replace(t, <<y>>)
      /\ compound' = [compound EXCEPT ![c].pending = h.value]
      /\ UNCHANGED <<triggers, left, reports, retriggered>>
  BY <1>1 DEF Store
<1>3. h.value \in Int /\ compound \in [Compounds -> [pending : Int, hasStart : BOOLEAN]]
  BY <1>1 DEF IInv, Typed, Steps
<1>4. y \in Steps /\ y.do = "mark" /\ y.of = c /\ y.value = h.value
  <2>1. b \in BOOLEAN /\ c \in Actions
    BY <1>1, CompoundsAre
  <2>2. "mark" \in Commands
    BY DEF Commands
  <2> HIDE DEF b
  <2> QED
    BY <1>3, <2>1, <2>2, StepType
<1> HIDE DEF y
<1>5. /\ compound' \in [Compounds -> [pending : Int, hasStart : BOOLEAN]]
      /\ compound'[c].pending = h.value
      /\ \A d \in Compounds : d # c => compound'[d] = compound[d]
  BY <1>1, <1>2, <1>3
<1>6. ASSUME ~retriggered
      PROVE  h.value >= left[c] /\ \A d \in Compounds : compound'[d].pending >= left[d]
  <2>1. Counted
    BY <1>6 DEF IInv
  <2>2. h.value >= left[c]
    BY <1>1, <2>1 DEF Counted, CountInv, Values, Partial
  <2> QED
    BY <1>1, <1>5, <2>1, <2>2 DEF Counted, CountInv
<1> QED
  BY <1>1, <1>2, <1>4, <1>5, <1>6, GoingOnKeeps

LEMMA MarkKeeps ==
  ASSUME IInv, NEW t \in Threads, Mark(t)
  PROVE  IInv'
<1> DEFINE h == todo[t][1]
           c == h.of
           y == [h EXCEPT !.do = "test"]
<1>1. /\ todo \in [Threads -> Seq(Steps)] /\ todo[t] # <<>> /\ Head(todo[t]) = h
      /\ 1 \in DOMAIN todo[t] /\ h.do = "mark" /\ h \in Steps /\ c \in Compounds
  BY HeadOf DEF Mark, IInv
<1>2. /\ todo' = Replace(t, <<y>>)
      /\ compound' = [compound EXCEPT ![c].hasStart = h.start]
      /\ UNCHANGED <<triggers, left, reports, retriggered>>
  BY <1>1 DEF Mark
<1>3. y \in Steps /\ y.do = "test" /\ y.of = c /\ y.value = h.value
  BY <1>1 DEF Steps, Commands
<1>4. h.start \in BOOLEAN /\ compound \in [Compounds -> [pending : Int, hasStart : BOOLEAN]]
  BY <1>1 DEF IInv, Typed, Steps
<1> HIDE DEF y
<1>5. /\ compound' \in [Compounds -> [pending : Int, hasStart : BOOLEAN]]
      /\ \A d \in Compounds : compound'[d].pending = compound[d].pending
  BY <1>1, <1>2, <1>4
<1>6. ASSUME ~retriggered
      PROVE  h.value >= left[c] /\ \A d \in Compounds : compound'[d].pending >= left[d]
  <2>1. Counted
    BY <1>6 DEF IInv
  <2>2. h.value >= left[c]
    BY <1>1, <2>1 DEF Counted, CountInv, Values, Partial
  <2> QED
    BY <1>5, <2>1, <2>2 DEF Counted, CountInv
<1> QED
  BY <1>1, <1>2, <1>3, <1>5, <1>6, GoingOnKeeps

(* The thread of t makes a report of compound a.                           *)
Reported(t, a) ==
  /\ todo[t][1].do = "test" /\ todo[t][1].of = a
  /\ Len(reports'[a]) = Len(reports[a]) + 1
  /\ ~retriggered => left[a] <= 0

(* A thread that has nothing more to do for its report                     *)
LEMMA DoneKeeps ==
  ASSUME IInv, NEW t \in Threads, todo[t] # <<>>, todo[t][1].do # "run",
         todo' = Replace(t, <<>>), UNCHANGED <<triggers, compound, left, retriggered>>,
         reports' \in [Compounds -> Seq([start : BOOLEAN, left : Int])],
         \A a \in Compounds : reports'[a] = reports[a] \/ Reported(t, a)
  PROVE  Typed' /\ (~retriggered' => Counted' /\ OnceInv')
<1>1. todo \in [Threads -> Seq(Steps)]
  BY DEF IInv, Typed
<1>2. /\ Moves(todo, todo', t, Shifted(t, 0))
      /\ \A u \in Threads : \A j \in DOMAIN todo'[u] : Shifted(t, 0)[u][j] # 0
  BY <1>1, NoneMoves
<1>3. Typed'
  BY <1>2, MovesKeep DEF IInv, Typed
<1>4. ASSUME ~retriggered'
      PROVE  Counted' /\ OnceInv'
  <2>1. Typed /\ Counted /\ OnceInv
    BY <1>4 DEF IInv
  <2>2. Orderly(todo')
    BY <1>2, <2>1, MovesKeep DEF Counted
  <2>3. \A u \in Threads : \A j \in DOMAIN todo'[u] :
          \E i \in DOMAIN todo[u] : todo'[u][j] = todo[u][i] /\ ~(u = t /\ i = 1)
    <3> TAKE u \in Threads
    <3> TAKE j \in DOMAIN todo'[u]
    <3> DEFINE i == Shifted(t, 0)[u][j]
    <3>1. i \in DOMAIN todo[u] /\ todo'[u][j] = todo[u][i] /\ ~(u = t /\ i = 1)
      BY <1>2 DEF Moves, Kept
    <3> QED
      BY <3>1
  <2>4. ASSUME NEW d \in Compounds, Sequential(d)
        PROVE  Covered(todo', left', d)
    <3>1. Due(todo', left', d) \subseteq Due(todo, left, d)
      BY <1>2, <2>1, <2>4, DueBefore
    <3>2. Loads(todo', d) \subseteq Loads(todo, d)
      <4> SUFFICES ASSUME NEW u \in Threads, NEW j \in DOMAIN todo'[u],
                          todo'[u][j].do = "load", todo'[u][j].of = d
                   PROVE  u \in Loads(todo, d)
        BY DEF Loads
      <4>1. PICK i \in DOMAIN todo[u] : todo'[u][j] = todo[u][i]
        BY <2>3
      <4> QED
        BY <4>1 DEF Loads
    <3>3. Covered(todo, left, d) /\ left[d] \in Int
      BY <2>1, <2>4 DEF Counted, AllCovered, Typed
    <3> QED
      BY <3>1, <3>2, <3>3, CoveredLess
  <2>5. Values(todo', left')
    BY <2>1, <2>3 DEF Values, Counted, CountInv
  <2>6. OnceInv'
    <3>1. ASSUME NEW a \in Compounds \ Parallel, Sequential(a), Reported(t, a)
          PROVE  ~Going(todo', left', a)
      <4>1. ~(1 \in DOMAIN todo'[t] /\ Shifted(t, 0)[t][1] = 0)
        BY <1>2 DEF Moves
      <4> QED
        BY <1>2, <1>4, <2>1, <3>1, <4>1, NoMore DEF Reported
    <3> QED
      BY <1>2, <2>1, <3>1, OnceKept DEF Reported
  <2> QED
    BY <2>1, <2>2, <2>4, <2>5, <2>6 DEF Counted, CountInv, AllCovered
<1> QED
  BY <1>3, <1>4

(* A compound that tests nothing left reports to the one it is part of.    *)
LEMMA ReportingKeeps ==
  ASSUME IInv, NEW t \in Threads, todo[t] # <<>>, todo[t][1].do = "test",
         NEW c \in Compounds, todo[t][1].of = c, ~retriggered => left[c] <= 0,
         NEW d \in Compounds, IsPart(c, d),
         NEW y \in Steps, y.do = "load", y.of = d, todo' = Replace(t, <<y>>),
         UNCHANGED <<triggers, compound, left, retriggered>>,
         reports' \in [Compounds -> Seq([start : BOOLEAN, left : Int])],
         \A a \in Compounds : reports'[a] = reports[a] \/ Reported(t, a)
  PROVE  Typed' /\ (~retriggered' => Counted' /\ OnceInv')
<1>1. todo \in [Threads -> Seq(Steps)] /\ Head(todo[t]) = todo[t][1]
      /\ 1 \in DOMAIN todo[t]
  <2>1. todo \in [Threads -> Seq(Steps)] /\ <<>> \in Seq(Steps)
    BY DEF IInv, Typed
  <2> QED
    BY <2>1, ReplacedBy
<1>2. GoesOn(todo[t][1], y)
  BY DEF GoesOn
<1>3. Moves(todo, todo', t, Shifted(t, 1)) /\ todo'[t][1] = y
  BY <1>1, <1>2, OneMoves, FirstIs
<1>4. Typed'
  BY <1>3, MovesKeep DEF IInv, Typed
<1>5. ASSUME ~retriggered'
      PROVE  Counted' /\ OnceInv'
  <2>1. Typed /\ Counted /\ OnceInv /\ left[c] <= 0
    BY <1>5 DEF IInv
  <2>2. Orderly(todo')
    BY <1>3, <2>1, MovesKeep DEF Counted
  <2>3. ASSUME Sequential(d)
        PROVE  ~Going(todo', left', c)
    <3>1. c \notin Parallel /\ Sequential(c)
      <4>1. d \in Within[Root]
        BY <1>1, <2>1, WholeOfTree DEF Counted, Orderly
      <4> QED
        BY <2>3, <4>1, SequentialPart
    <3> QED
      BY <1>3, <2>1, <3>1, NoMore
  <2>4. AllCovered(todo', left')
    BY <1>3, <2>1, <2>3, CoveredReport
  <2>5. Values(todo', left')
    <3>1. ~(y.do \in Partial)
      BY DEF Partial
    <3>2. \A u \in Threads : \A i \in DOMAIN todo[u] :
            todo[u][i].do \in Partial => left'[todo[u][i].of] <= left[todo[u][i].of]
      BY <2>1, LeftSame
    <3> QED
      BY <1>3, <2>1, <3>1, <3>2, ValuesKept DEF Typed, Counted, CountInv
  <2>6. OnceInv'
    <3>1. ASSUME NEW a \in Compounds \ Parallel, Sequential(a), Reported(t, a)
          PROVE  ~Going(todo', left', a)
      BY <1>3, <1>5, <2>1, <3>1, NoMore DEF Reported
    <3> QED
      BY <1>3, <2>1, <3>1, OnceKept DEF Reported
  <2> QED
    BY <2>1, <2>2, <2>4, <2>5, <2>6 DEF Counted, CountInv
<1> QED
  BY <1>4, <1>5

LEMMA TestKeeps ==
  ASSUME IInv, NEW t \in Threads, Test(t)
  PROVE  IInv'
<1> DEFINE h == todo[t][1]
           c == h.of
           b == compound[c].hasStart
<1>1. /\ todo \in [Threads -> Seq(Steps)] /\ todo[t] # <<>> /\ Head(todo[t]) = h
      /\ 1 \in DOMAIN todo[t] /\ h.do = "test" /\ h \in Steps /\ c \in Compounds
  BY HeadOf DEF Test, IInv
<1>2. PICK pending \in {h.value, compound[c].pending} :
        IF IsLast(pending)
          THEN /\ todo' = Replace(t, Report(c, b))
               /\ reports' = [reports EXCEPT
                    ![c] = Append(@, [start |-> b, left |-> left[c]])]
          ELSE todo' = Replace(t, <<>>) /\ UNCHANGED reports
  BY <1>1 DEF Test
<1>3. UNCHANGED <<triggers, compound, left, raced, retriggered>>
  BY DEF Test
<1>4. /\ b \in BOOLEAN /\ left[c] \in Int
      /\ reports \in [Compounds -> Seq([start : BOOLEAN, left : Int])]
      /\ h.value \in Int /\ compound[c].pending \in Int
  BY <1>1 DEF IInv, Typed, Steps
<1>5. CASE ~IsLast(pending)
  <2>1. todo' = Replace(t, <<>>) /\ UNCHANGED reports
    BY <1>2, <1>5
  <2>2. Typed' /\ (~retriggered' => Counted' /\ OnceInv')
    BY <1>1, <1>3, <1>4, <2>1, DoneKeeps
  <2> QED
    BY <1>3, <2>1, <2>2 DEF IInv, ReportInv
<1>6. CASE IsLast(pending)
  <2> DEFINE r == [start |-> b, left |-> left[c]]
  <2>1. todo' = Replace(t, Report(c, b)) /\ reports' = [reports EXCEPT ![c] = Append(@, r)]
    BY <1>2, <1>6
  <2>2. r \in [start : BOOLEAN, left : Int] /\ r.left = left[c]
    BY <1>4
  <2> HIDE DEF r
  <2>3. /\ reports' \in [Compounds -> Seq([start : BOOLEAN, left : Int])]
        /\ reports'[c] = Append(reports[c], r)
        /\ \A d \in Compounds : d # c => reports'[d] = reports[d]
    <3> DEFINE s == Append(reports[c], r)
    <3>1. s \in Seq([start : BOOLEAN, left : Int])
      <4>1. reports[c] \in Seq([start : BOOLEAN, left : Int])
        BY <1>1, <1>4
      <4> QED
        BY <2>2, <4>1, AppendProperties
    <3>2. reports' = [reports EXCEPT ![c] = s]
      BY <2>1
    <3> HIDE DEF s
    <3>3. /\ reports' \in [Compounds -> Seq([start : BOOLEAN, left : Int])]
          /\ reports'[c] = s
          /\ \A d \in Compounds : d # c => reports'[d] = reports[d]
      BY <1>1, <1>4, <3>1, <3>2
    <3> QED
      BY <3>3 DEF s
  <2>4. ASSUME ~retriggered
        PROVE  left[c] <= 0
    <3>1. h.value >= left[c] /\ compound[c].pending >= left[c]
      BY <1>1, <2>4 DEF IInv, Counted, CountInv, Values, Partial
    <3> QED
      BY <1>2, <1>4, <1>6, <3>1 DEF IsLast
  <2>5. ASSUME ~retriggered, Sequential(c)
        PROVE  left[c] = 0
    <3>1. Covered(todo, left, c)
      BY <1>1, <2>5 DEF IInv, Counted, AllCovered
    <3>2. left[c] >= 0
      BY <1>4, <3>1, Counts DEF Covered
    <3> QED
      BY <1>4, <2>4, <2>5, <3>2
  <2>6. ~retriggered' => ReportInv'
    <3> SUFFICES ASSUME ~retriggered', NEW d \in Compounds, Sequential(d),
                        NEW i \in DOMAIN reports'[d]
                 PROVE  reports'[d][i].left = 0
      BY DEF ReportInv
    <3>1. ~retriggered /\ ReportInv
      BY <1>3 DEF IInv
    <3>2. CASE d # c
      BY <2>3, <3>1, <3>2 DEF ReportInv
    <3>3. CASE d = c
      <4> DEFINE s == reports[c]
      <4>1. s \in Seq([start : BOOLEAN, left : Int])
        BY <1>1, <1>4
      <4>2. i \in 1 .. Len(s) + 1 /\ Len(s) \in Nat /\ DOMAIN s = 1 .. Len(s)
            /\ reports'[d][i] = IF i <= Len(s) THEN s[i] ELSE r
        <5>1. reports'[d] = Append(s, r)
          BY <2>3, <3>3
        <5> HIDE DEF s
        <5>2. /\ Len(s) \in Nat /\ DOMAIN s = 1 .. Len(s)
              /\ DOMAIN Append(s, r) = 1 .. Len(s) + 1
              /\ \A k \in 1 .. Len(s) + 1 :
                   Append(s, r)[k] = IF k <= Len(s) THEN s[k] ELSE r
          BY <2>2, <4>1
        <5> QED
          BY <5>1, <5>2
      <4>3. CASE i <= Len(s)
        BY <3>1, <3>3, <4>2, <4>3 DEF ReportInv
      <4>4. CASE ~(i <= Len(s))
        BY <2>2, <2>5, <3>1, <3>3, <4>2, <4>4
      <4> QED
        BY <4>3, <4>4
    <3> QED
      BY <3>2, <3>3
  <2>7. \A a \in Compounds : reports'[a] = reports[a] \/ Reported(t, a)
    <3>1. Len(reports'[c]) = Len(reports[c]) + 1
      <4>1. reports[c] \in Seq([start : BOOLEAN, left : Int])
        BY <1>1, <1>4
      <4> QED
        BY <2>2, <2>3, <4>1, AppendProperties
    <3> QED
      BY <1>1, <2>3, <2>4, <3>1 DEF Reported
  <2>8. Typed' /\ (~retriggered' => Counted' /\ OnceInv')
    <3>1. c \in Actions
      BY <1>1, CompoundsAre
    <3>2. CASE Report(c, b) = <<>>
      <4>1. todo' = Replace(t, <<>>)
        BY <2>1, <3>2
      <4> QED
        BY <1>1, <1>3, <2>3, <2>7, <4>1, DoneKeeps
    <3>3. CASE \E d \in Compounds :
                 IsPart(c, d) /\ Report(c, b) = <<Step("load", d, b, 0)>>
      <4>1. PICK d \in Compounds :
              IsPart(c, d) /\ Report(c, b) = <<Step("load", d, b, 0)>>
        BY <3>3
      <4> DEFINE y == Step("load", d, b, 0)
      <4>2. y \in Steps /\ y.do = "load" /\ y.of = d
        BY <1>4, LoadType
      <4>3. todo' = Replace(t, <<y>>)
        BY <2>1, <4>1
      <4> HIDE DEF y
      <4> QED
        BY <1>1, <1>3, <2>3, <2>4, <2>7, <4>1, <4>2, <4>3, ReportingKeeps
    <3> QED
      BY <1>4, <3>1, <3>2, <3>3, ReportIs
  <2> QED
    BY <2>6, <2>8 DEF IInv
<1> QED
  BY <1>5, <1>6

LEMMA RunCompoundKeeps ==
  ASSUME IInv, NEW t \in Threads, RunCompound(t)
  PROVE  IInv'
<1> DEFINE h == todo[t][1]
           c == h.of
<1>1. /\ todo \in [Threads -> Seq(Steps)] /\ todo[t] # <<>> /\ Head(todo[t]) = h
      /\ 1 \in DOMAIN todo[t] /\ h.do = "run" /\ h \in Steps /\ c \in Actions
  BY HeadOf DEF RunCompound, IInv
<1>2. /\ c \in Compounds /\ compound' = [compound EXCEPT ![c] = Reset(c)]
      /\ left' = [left EXCEPT ![c] = Len(Parts[c])]
      /\ todo' = Spread(t, c)
      /\ UNCHANGED <<triggers, reports, retriggered>>
  BY <1>1 DEF RunCompound, Spread
<1>3. Moves(todo, todo', t, SpreadFrom(t, c))
  BY <1>1, <1>2, SequenceMoves, ParallelMoves
<1>4. /\ left' \in [Compounds -> Int] /\ left'[c] = Len(Parts[c])
      /\ \A a \in Compounds : a # c => left'[a] = left[a]
      /\ compound' \in [Compounds -> [pending : Int, hasStart : BOOLEAN]]
      /\ compound'[c].pending = Len(Parts[c])
      /\ \A a \in Compounds : a # c => compound'[a] = compound[a]
  <2>1. Len(Parts[c]) \in Int
    BY <1>2, PartsType
  <2>2. /\ Reset(c) \in [pending : Int, hasStart : BOOLEAN]
        /\ Reset(c).pending = Len(Parts[c])
    BY <2>1 DEF Reset
  <2>3. /\ left \in [Compounds -> Int]
        /\ compound \in [Compounds -> [pending : Int, hasStart : BOOLEAN]]
    BY DEF IInv, Typed
  <2> QED
    BY <1>2, <2>1, <2>2, <2>3
<1>5. Typed'
  BY <1>2, <1>3, <1>4, MovesKeep DEF IInv, Typed
<1>6. ASSUME ~retriggered'
      PROVE  Counted' /\ ReportInv' /\ OnceInv'
  <2>1. Typed /\ Counted /\ ReportInv /\ OnceInv
    BY <1>2, <1>6 DEF IInv
  <2>2. Orderly(todo')
    BY <1>3, <2>1, MovesKeep DEF Counted
  <2>3. ASSUME NEW u \in Threads, NEW i \in DOMAIN todo[u], todo[u][i].of = c
        PROVE  u = t /\ i = 1
    BY <1>1, <2>1, <2>3, WithinType DEF Counted, Orderly, RunOnce
  <2>4. ~(GoesOn(h, todo'[t][1]))
    BY <1>1, <1>2, TreeAssumption DEF GoesOn
  <2>5. ASSUME NEW d \in Compounds
        PROVE  Loads(todo', d) \subseteq Loads(todo, d)
    BY <1>3, <2>1, <2>4, LoadsBefore DEF Typed
  <2>6. ASSUME NEW d \in Compounds, Sequential(d)
        PROVE  Covered(todo', left', d)
    <3>1. CASE d = c
      <4>1. Loads(todo, c) = {}
        BY <1>1, <2>3 DEF Loads
      <4>2. Loads(todo', c) = {}
        BY <1>2, <2>5, <4>1
      <4> QED
        BY <1>4, <3>1, <4>2, CoveredBegun
    <3>2. CASE d # c
      <4>1. Due(todo', left', d) \subseteq Due(todo, left, d)
        BY <1>3, <1>4, <2>1, <2>6, <3>2, DueBefore
      <4>2. Covered(todo, left, d) /\ left[d] \in Int /\ left'[d] = left[d]
        BY <1>4, <2>1, <2>6, <3>2 DEF Counted, AllCovered, Typed
      <4> QED
        BY <2>5, <4>1, <4>2, CoveredLess
    <3> QED
      BY <3>1, <3>2
  <2>7. ASSUME NEW d \in Compounds
        PROVE  compound'[d].pending >= left'[d]
    <3>1. CASE d = c
      BY <1>2, <1>4, <3>1, PartsType
    <3>2. CASE d # c
      BY <1>4, <2>1, <3>2 DEF Counted, CountInv
    <3> QED
      BY <3>1, <3>2
  <2>8. Values(todo', left')
    <3>1. ASSUME NEW u \in Threads, NEW i \in DOMAIN todo[u], todo[u][i].do \in Partial
          PROVE  left'[todo[u][i].of] <= left[todo[u][i].of]
      <4>1. todo[u][i].of # c
        BY <1>1, <2>3, <3>1 DEF Partial
      <4>2. todo[u][i].of \in Compounds
        BY <2>1, <3>1 DEF Typed, AtHand, Partial
      <4>3. left[todo[u][i].of] \in Int
        BY <2>1, <4>2 DEF Typed
      <4> QED
        BY <1>4, <4>1, <4>2, <4>3
    <3> QED
      BY <1>3, <1>4, <2>1, <2>4, <3>1, ValuesKept DEF Typed, Counted, CountInv
  <2>9. OnceInv'
    <3>1. \A a \in Compounds : left'[a] > 0 => left[a] > 0 \/ a = c
      BY <1>4
    <3> QED
      BY <1>1, <1>2, <1>3, <2>1, <3>1, OnceKept
  <2> QED
    BY <1>2, <2>1, <2>2, <2>6, <2>7, <2>8, <2>9
       DEF Counted, CountInv, AllCovered, ReportInv
<1> QED
  BY <1>5, <1>6 DEF IInv

(* The condition is satisfied when no thread has anything to do, or else   *)
(* nothing more is claimed.                                                *)
LEMMA ConditionSatisfiedKeeps ==
  ASSUME IInv, ConditionSatisfied
  PROVE  IInv'
<1> DEFINE r == <<triggers + 1, Root>>
           y == Run(Root)
<1>1. /\ triggers \in 0 .. MaxTriggers /\ triggers < MaxTriggers
      /\ triggers' = triggers + 1
      /\ todo' = [todo EXCEPT ![r] = <<y>>]
      /\ retriggered' = (retriggered \/ ~Quiet)
      /\ UNCHANGED <<compound, left, reports, raced>>
  BY DEF ConditionSatisfied, IInv, Typed
<1>2. MaxTriggers \in Nat /\ Root \in Actions /\ Root \in Compounds
  BY TreeAssumption, CompoundsAre
<1>3. r \in Threads /\ triggers' \in 0 .. MaxTriggers
  BY <1>1, <1>2 DEF Threads
<1>4. y \in Steps /\ y.do = "run" /\ y.of = Root
  BY <1>2, RunType
<1> HIDE DEF y, r
<1>5. todo \in [Threads -> Seq(Steps)] /\ <<y>> \in Seq(Steps) /\ DOMAIN <<y>> = {1}
      /\ <<y>>[1] = y
  BY <1>4 DEF IInv, Typed
<1>6. /\ todo' \in [Threads -> Seq(Steps)] /\ todo'[r] = <<y>>
      /\ \A u \in Threads : u # r => todo'[u] = todo[u]
  BY <1>1, <1>3, <1>5
<1>7. AtHand(todo')
  <2> SUFFICES ASSUME NEW u \in Threads, NEW i \in DOMAIN todo'[u],
                      todo'[u][i].do # "run"
               PROVE  i = 1 /\ todo'[u][i].of \in Compounds
    BY DEF AtHand
  <2>1. u # r
    BY <1>4, <1>5, <1>6
  <2> QED
    BY <1>6, <2>1 DEF IInv, Typed, AtHand
<1>8. Typed'
  <2>1. retriggered' \in BOOLEAN
    BY <1>1 DEF IInv, Typed
  <2> QED
    BY <1>1, <1>3, <1>6, <1>7, <2>1 DEF IInv, Typed
<1>9. ASSUME ~retriggered'
      PROVE  Counted' /\ ReportInv' /\ OnceInv'
  <2>1. Typed /\ Counted /\ ReportInv /\ OnceInv /\ Quiet
    BY <1>1, <1>9 DEF IInv
  <2>2. ASSUME NEW u \in Threads, NEW i \in DOMAIN todo'[u]
        PROVE  u = r /\ i = 1 /\ todo'[u][i] = y
    <3>1. u = r
      BY <1>6, <2>1, <2>2 DEF Quiet
    <3> QED
      BY <1>5, <1>6, <2>2, <3>1
  <2>3. Orderly(todo')
    <3>1. OfTree(todo')
      BY <1>2, <1>4, <2>2, WithinType DEF OfTree
    <3>2. RunOnce(todo')
      BY <2>2 DEF RunOnce
    <3>3. OneThread(todo')
      BY <2>2 DEF OneThread
    <3> QED
      BY <3>1, <3>2, <3>3 DEF Orderly
  <2>4. Values(todo', left')
    BY <1>4, <2>2 DEF Values, Partial
  <2>5. ASSUME NEW d \in Compounds, Sequential(d)
        PROVE  Covered(todo', left', d)
    <3>1. Loads(todo', d) \subseteq Loads(todo, d)
      BY <1>4, <2>2 DEF Loads
    <3>2. ~IsPart(Root, d)
      BY <1>2, PartOfOne
    <3>3. ASSUME NEW a \in Actions, a # Root
          PROVE  ~Works(todo', a)
      BY <1>4, <2>2, <3>3 DEF Works, Work
    <3>4. Due(todo', left', d) \subseteq Due(todo, left, d)
      BY <1>1, <3>2, <3>3 DEF Due, Going
    <3>5. Covered(todo, left, d) /\ left[d] \in Int
      BY <2>1, <2>5 DEF Counted, AllCovered, Typed
    <3> QED
      BY <1>1, <3>1, <3>4, <3>5, CoveredLess
  <2>6. OnceInv'
    <3>1. ASSUME NEW c \in Compounds \ Parallel, Sequential(c)
          PROVE  Len(reports[c]) <= triggers /\ Len(reports[c]) \in Nat
      BY <2>1, <3>1, LenProperties DEF OnceInv, Typed
    <3> QED
      BY <1>1, <3>1 DEF OnceInv
  <2> QED
    BY <1>1, <2>1, <2>3, <2>4, <2>5, <2>6 DEF Counted, CountInv, AllCovered, ReportInv
<1> QED
  BY <1>8, <1>9 DEF IInv
-----------------------------------------------------------------------------
LEMMA InitHolds ==
  ASSUME Init
  PROVE  IInv
<1>1. /\ triggers = 0 /\ retriggered = FALSE
      /\ compound = [c \in Compounds |-> [pending |-> 0, hasStart |-> FALSE]]
      /\ todo = [t \in Threads |-> <<>>] /\ left = [c \in Compounds |-> 0]
      /\ reports = [c \in Compounds |-> <<>>]
  BY DEF Init
<1>2. \A t \in Threads : todo[t] = <<>> /\ DOMAIN todo[t] = {}
  BY <1>1
<1>3. Typed
  <2>1. 0 \in 0 .. MaxTriggers
    BY TreeAssumption
  <2>2. AtHand(todo)
    BY <1>2 DEF AtHand
  <2>3. todo \in [Threads -> Seq(Steps)]
    BY <1>1
  <2>4. compound \in [Compounds -> [pending : Int, hasStart : BOOLEAN]]
    BY <1>1
  <2>5. left \in [Compounds -> Int]
    BY <1>1
  <2>6. reports \in [Compounds -> Seq([start : BOOLEAN, left : Int])]
    BY <1>1
  <2> QED
    BY <1>1, <2>1, <2>2, <2>3, <2>4, <2>5, <2>6 DEF Typed
<1>4. Orderly(todo) /\ Values(todo, left)
  BY <1>2 DEF Orderly, OfTree, RunOnce, OneThread, Values
<1>5. AllCovered(todo, left)
  <2> SUFFICES ASSUME NEW c \in Compounds
               PROVE  Covered(todo, left, c)
    BY DEF AllCovered
  <2>1. Due(todo, left, c) = {} /\ Loads(todo, c) = {} /\ left[c] = 0
    BY <1>1, <1>2 DEF Due, Loads, Going, Works
  <2> QED
    BY <2>1, FS_EmptySet DEF Covered
<1>6. ReportInv
  BY <1>1 DEF ReportInv
<1>7. \A c \in Compounds : compound[c].pending >= left[c]
  BY <1>1
<1>8. OnceInv
  <2> SUFFICES ASSUME NEW c \in Compounds
               PROVE  /\ Len(reports[c]) <= triggers
                      /\ ~(Going(todo, left, c) \/ Ahead(todo, c))
    BY DEF OnceInv
  <2>1. ~Going(todo, left, c) /\ ~Ahead(todo, c)
    BY <1>1, <1>2 DEF Going, Works, Ahead
  <2>2. reports[c] = <<>> /\ Len(<<>>) = 0
    BY <1>1
  <2> QED
    BY <1>1, <2>1, <2>2
<1> QED
  BY <1>3, <1>4, <1>5, <1>6, <1>7, <1>8 DEF IInv, Counted, CountInv

LEMMA StepKeeps ==
  ASSUME IInv, [Next]_vars
  PROVE  IInv'
<1>1. CASE ConditionSatisfied
  BY <1>1, ConditionSatisfiedKeeps
<1>2. ASSUME NEW t \in Threads, RunThread(t)
      PROVE  IInv'
  BY <1>2, RunSimpleKeeps, RunCompoundKeeps, LoadKeeps, StoreKeeps, MarkKeeps, TestKeeps
     DEF RunThread
<1>3. CASE UNCHANGED vars
  BY <1>3 DEF vars, IInv, Typed, Counted, CountInv, ReportInv, OnceInv
<1> QED
  BY <1>1, <1>2, <1>3 DEF Next

LEMMA Always == Spec => []IInv
<1>1. Init => IInv
  BY InitHolds
<1>2. IInv /\ [Next]_vars => IInv'
  BY StepKeeps
<1> QED
  BY <1>1, <1>2, PTL DEF Spec

(* Nothing of the link's tree is run twice for a trigger, and while it has *)
(* still to be run no part of it is under way, so that LinkCompoundAction  *)
(* never resets the count of a compound that its parts are counting.       *)
THEOREM NoneRunsTwice == Spec => [](~retriggered => RunOnce(todo))
<1>1. IInv => (~retriggered => RunOnce(todo))
  BY DEF IInv, Counted, Orderly
<1> QED
  BY <1>1, Always, PTL

(* Of every compound, with or without parallel ones below, pendingActions  *)
(* is at least the number of reports left: the unlocked decrements of      *)
(* actionProcessed may lose one another, but none is done twice.           *)
THEOREM CountNotAhead ==
  Spec => [](~retriggered => \A c \in Compounds : compound[c].pending >= left[c])
<1>1. IInv => (~retriggered => \A c \in Compounds : compound[c].pending >= left[c])
  BY DEF IInv, Counted, CountInv
<1> QED
  BY <1>1, Always, PTL

(* ReportsAfterAll: of any tree and any interleaving of its threads in the *)
(* unlocked count, a compound with nothing parallel below reports when all *)
(* of its parts have, and a sequence at most once for each trigger.        *)
THEOREM NoneReportsEarly == Spec => []ReportsAfterAll
<1>1. IInv => ReportsAfterAll
  BY DEF IInv, ReportInv, OnceInv, ReportsAfterAll
<1> QED
  BY <1>1, Always, PTL
=============================================================================
