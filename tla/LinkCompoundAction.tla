-------------------------- MODULE LinkCompoundAction --------------------------
(***************************************************************************)
(* The action of one causal link when it is a compound (LinkCompoundAction *)
(* over LinkSimpleActions): a tree whose leaves run in threads of their    *)
(* own, or one after the other, and report to the compound they are part   *)
(* of, which counts the reports and reports in its turn.  What the root    *)
(* reports is the end of the link's evaluation for its composition.        *)
(*                                                                         *)
(* Nothing is locked.  A thread is the list of what it has still to do;    *)
(* each access to pendingActions and hasStart is a step.  A delay is a     *)
(* thread that does not move.                                              *)
(***************************************************************************)
EXTENDS Integers, FiniteSets, SequencesExt

CONSTANTS
  Root,         \* the link's action
  Simple,       \* simple actions
  Starts,       \* of these, those of ACT_START
  Compounds,
  Parts,        \* actions of a compound, in order
  Parallel,     \* compounds of OP_PAR; the others are of OP_SEQ
  MaxTriggers   \* bound: how often the link's condition is satisfied

Actions == Simple \cup Compounds

IsPart(a, c) == \E i \in DOMAIN Parts[c] : Parts[c][i] = a

(* addAction adds none twice.                                              *)
ASSUME TreeAssumption ==
  /\ IsFiniteSet(Actions)
  /\ Root \in Compounds
  /\ Simple \cap Compounds = {}
  /\ Starts \subseteq Simple /\ Parallel \subseteq Compounds
  /\ Parts \in [Compounds -> Seq(Actions \ {Root})]
  /\ \A c \in Compounds : IsInjective(Parts[c])
  /\ \A a \in Actions \ {Root} : \E c \in Compounds :
       /\ IsPart(a, c)
       /\ \A d \in Compounds \ {c} : ~IsPart(a, d)
  /\ MaxTriggers \in Nat

VARIABLES
  triggers,
  compound,     \* pendingActions and hasStart of each
  todo,         \* of the thread that runs an action for a trigger
  left,         \* parts that have not reported yet in the last run
  reports,      \* what each compound has reported, and what was left then
  raced,        \* compounds that heard two reports at once
  retriggered   \* the link was triggered before it was done

vars == <<triggers, compound, todo, left, reports, raced, retriggered>>

Threads == (1 .. MaxTriggers) \X Actions

(* What a thread does next                                                 *)
Step(do, of, start, value) ==
  [do |-> do, of |-> of, start |-> start, value |-> value]

Run(a) == Step("run", a, FALSE, 0)

At(t, do) == todo[t] # <<>> /\ Head(todo[t]).do = do

Replace(t, steps) == [todo EXCEPT ![t] = steps \o Tail(@)]

(* notifyProgressionListeners: actionProcessed of the compound it is in.   *)
Report(a, start) ==
  IF a = Root THEN <<>>
    ELSE <<Step("load", CHOOSE c \in Compounds : IsPart(a, c), start, 0)>>
-----------------------------------------------------------------------------
Init ==
  /\ triggers = 0
  /\ compound = [c \in Compounds |-> [pending |-> 0, hasStart |-> FALSE]]
  /\ todo = [t \in Threads |-> <<>>]
  /\ left = [c \in Compounds |-> 0]
  /\ reports = [c \in Compounds |-> <<>>]
  /\ raced = {}
  /\ retriggered = FALSE

Quiet == \A t \in Threads : todo[t] = <<>>

(* FormatterCausalLink::conditionSatisfied                                 *)
ConditionSatisfied ==
  /\ triggers < MaxTriggers
  /\ triggers' = triggers + 1
  /\ todo' = [todo EXCEPT ![<<triggers + 1, Root>>] = <<Run(Root)>>]
  /\ retriggered' = (retriggered \/ ~Quiet)
  /\ UNCHANGED <<compound, left, reports, raced>>

(* LinkSimpleAction::run                                                   *)
RunSimple(t) ==
  /\ At(t, "run")
  /\ LET a == Head(todo[t]).of
     IN  /\ a \in Simple
         /\ todo' = Replace(t, Report(a, a \in Starts))
  /\ UNCHANGED <<triggers, compound, left, reports, raced, retriggered>>

(* Fault model of Reset: the count is left from the run before.            *)
ResetFlagOnly(c) == [pending |-> compound[c].pending, hasStart |-> FALSE]

Reset(c) == [pending |-> Len(Parts[c]), hasStart |-> FALSE]

(* LinkCompoundAction::run                                                 *)
RunCompound(t) ==
  /\ At(t, "run")
  /\ LET c == Head(todo[t]).of
     IN  /\ c \in Compounds
         /\ compound' = [compound EXCEPT ![c] = Reset(c)]
         /\ left' = [left EXCEPT ![c] = Len(Parts[c])]
         /\ todo' =
              IF c \in Parallel
                THEN [u \in Threads |->
                        IF u[1] = t[1] /\ IsPart(u[2], c) THEN <<Run(u[2])>>
                          ELSE Replace(t, <<>>)[u]]
                ELSE Replace(t, [i \in DOMAIN Parts[c] |-> Run(Parts[c][i])])
  /\ UNCHANGED <<triggers, reports, raced, retriggered>>

(* actionProcessed.  pendingActions--, in two steps                        *)
Load(t) ==
  /\ At(t, "load")
  /\ LET step == Head(todo[t])
         c    == step.of
     IN  /\ todo' = Replace(t, <<Step("store", c, step.start,
                                       compound[c].pending - 1)>>)
         /\ left' = [left EXCEPT ![c] = @ - 1]
         /\ raced' = IF \E u \in Threads \ {t} :
                          /\ todo[u] # <<>> /\ Head(todo[u]).of = c
                          /\ Head(todo[u]).do \in {"store", "mark", "test"}
                       THEN raced \cup {c} ELSE raced
  /\ UNCHANGED <<triggers, compound, reports, retriggered>>

(* ... and hasStart || start, of which start is tested last                *)
Store(t) ==
  /\ At(t, "store")
  /\ LET step == Head(todo[t])
         c    == step.of
     IN  /\ compound' = [compound EXCEPT ![c].pending = step.value]
         /\ todo' = Replace(t, <<Step("mark", c, compound[c].hasStart \/ step.start,
                                       step.value)>>)
  /\ UNCHANGED <<triggers, left, reports, raced, retriggered>>

Mark(t) ==
  /\ At(t, "mark")
  /\ LET step == Head(todo[t])
     IN  /\ compound' = [compound EXCEPT ![step.of].hasStart = step.start]
         /\ todo' = Replace(t, <<[step EXCEPT !.do = "test"]>>)
  /\ UNCHANGED <<triggers, left, reports, raced, retriggered>>

(* Fault model of IsLast: the count is taken as it was before.             *)
IsLastBefore(pending) == pending = 1

IsLast(pending) == pending = 0

(* The count is read again, or what was stored is still in a register.     *)
Test(t) ==
  /\ At(t, "test")
  /\ LET step  == Head(todo[t])
         c     == step.of
         start == compound[c].hasStart
     IN  \E pending \in {step.value, compound[c].pending} :
           IF IsLast(pending)
             THEN /\ todo' = Replace(t, Report(c, start))
                  /\ reports' = [reports EXCEPT
                       ![c] = Append(@, [start |-> start, left |-> left[c]])]
             ELSE todo' = Replace(t, <<>>) /\ UNCHANGED reports
  /\ UNCHANGED <<triggers, compound, left, raced, retriggered>>

RunThread(t) ==
  \/ RunSimple(t) \/ RunCompound(t)
  \/ Load(t) \/ Store(t) \/ Mark(t) \/ Test(t)

Next == ConditionSatisfied \/ \E t \in Threads : RunThread(t)

Spec == Init /\ [][Next]_vars

(* The threads run; the condition is satisfied again or not.               *)
FairSpec == Spec /\ \A t \in Threads : WF_vars(RunThread(t))
-----------------------------------------------------------------------------
(* With each compound its parts                                            *)
Closed(as) ==
  \A c \in as \cap Compounds : \A i \in DOMAIN Parts[c] : Parts[c][i] \in as

(* The action and its parts, their parts and so on                         *)
Within ==
  [a \in Actions |->
    {b \in Actions : \A as \in SUBSET Actions : a \in as /\ Closed(as) => b \in as}]

(* No compound below this one is parallel.                                 *)
Sequential(c) == (Within[c] \ {c}) \cap Parallel = {}

(* Of a link that is not triggered before it is done, a compound that has  *)
(* no parallel one below it never reports while a part of it is still to   *)
(* report, however the threads of its parts overlap in the unlocked count, *)
(* and if it is a sequence never twice for a trigger.                      *)
ReportsAfterAll ==
  ~retriggered =>
    \A c \in Compounds :
      Sequential(c) =>
        /\ \A i \in DOMAIN reports[c] : reports[c][i].left = 0
        /\ c \notin Parallel => Len(reports[c]) <= triggers

(* And every compound comes to report once for each trigger, saying that   *)
(* something was started if a part of it is a start, as long as no two     *)
(* reports came at once to it or to one within it.                         *)
EachReports ==
  \A c \in Compounds :
    []<>(\/ retriggered \/ Within[c] \cap raced # {}
         \/ /\ Len(reports[c]) = triggers
            /\ \A i \in 1 .. triggers :
                 reports[c][i].start <=> Within[c] \cap Starts # {})
=============================================================================
