------------------------- MODULE CompositionContract -------------------------
(***************************************************************************)
(* What a composition promises to its parent and to its links, whatever    *)
(* its bookkeeping: the abstract specification CompositeExecutionObject    *)
(* implements.  Threads decide on a transition of the composition's own    *)
(* event in one step and carry it out in a later one; between the two the  *)
(* grounds of the decision may have gone.                                  *)
(***************************************************************************)
EXTENDS FormatterEvent

CONSTANTS children, links

VARIABLES
  active,    \* the children the composition presents
  held,      \* the links that hold it open
  whole,     \* the state of the composition's own event
  decided,   \* the transition the thread of a child has decided on
  reported   \* how many threads of links have decided on each kind of end

vars == <<active, held, whole, decided, reported>>

Init ==
  /\ active = {}
  /\ held = {}
  /\ whole = "sleeping"
  /\ decided = [c \in children |-> "none"]
  /\ reported = [t \in {"stops", "aborts"} |-> 0]

(* On what grounds a thread decides: the first child starts, the last one  *)
(* ends when no link is left either, and only children pause and resume.   *)
Grounds(t) ==
  CASE t = "starts"               -> active = {}
    [] t \in {"stops", "aborts"}  -> active = {} /\ held' = {}
    [] t \in {"pauses", "resumes"} -> active # {}

(* The thread of a child decides on a transition, be it as it takes back   *)
(* its hold of a link.                                                     *)
Decide(c) ==
  LET t == decided'[c] IN
  /\ decided[c] = "none"
  /\ t \in Transitions
  /\ decided' = [decided EXCEPT ![c] = t]
  /\ held' = held \/ \E l \in links : held' = held \ {l}
  /\ Grounds(t)
  /\ UNCHANGED <<active, whole, reported>>

(* The report of a link's last evaluation decides.                         *)
Report(l, t) ==
  /\ reported' = [reported EXCEPT ![t] = @ + 1]
  /\ held' = held \ {l}
  /\ Grounds(t)
  /\ UNCHANGED <<active, whole, decided>>

Take(t) ==
  whole' = IF Accepts(whole, t) THEN Settled(NewState(t)) ELSE whole

(* A decision is carried out once.                                         *)
CarryOut(c) ==
  /\ decided[c] # "none"
  /\ Take(decided[c])
  /\ decided' = [decided EXCEPT ![c] = "none"]
  /\ UNCHANGED <<active, held, reported>>

CarryOutReport(t) ==
  /\ reported[t] > 0
  /\ Take(t)
  /\ reported' = [reported EXCEPT ![t] = @ - 1]
  /\ UNCHANGED <<active, held, decided>>

(* A child joins once what it has decided is carried out.                  *)
Join(c) ==
  /\ decided[c] = "none"
  /\ active' = active \cup {c}
  /\ UNCHANGED <<held, whole, decided, reported>>

Leave(c) ==
  /\ active' = active \ {c}
  /\ UNCHANGED <<held, whole, decided, reported>>

Hold(l) ==
  held' = held \cup {l} /\ UNCHANGED <<active, whole, decided, reported>>

Release(l) ==
  held' = held \ {l} /\ UNCHANGED <<active, whole, decided, reported>>

Next ==
  \/ \E l \in links, t \in {"stops", "aborts"} : Report(l, t)
  \/ \E c \in children : Decide(c) \/ CarryOut(c) \/ Join(c) \/ Leave(c)
  \/ \E t \in {"stops", "aborts"} : CarryOutReport(t)
  \/ \E l \in links : Hold(l) \/ Release(l)

Spec == Init /\ [][Next]_vars
=============================================================================
