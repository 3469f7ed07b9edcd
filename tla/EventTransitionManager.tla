------------------------ MODULE EventTransitionManager ------------------------
(***************************************************************************)
(* The transition table of an object (EventTransitionManager): for each    *)
(* presentation event, when it begins and when it ends, in order of time,  *)
(* with an index of the next one to be done.                               *)
(*                                                                         *)
(* Times are milliseconds of the object's own time, in any unit.  The      *)
(* table holds what CAT_TIME has; sample and NPT anchors have no           *)
(* transitions in time.                                                    *)
(***************************************************************************)
EXTENDS Integers, FormatterEvent, SequencesExt

CONSTANTS
  Events,    \* presentation events of the object
  Whole,     \* of these, the one of the whole content (LambdaAnchor)
  Begin,
  End,
  Infinity   \* IntervalAnchor::OBJECT_DURATION

ASSUME EventsAssumption ==
  /\ Whole \in Events
  /\ Infinity \in Nat
  /\ Begin \in [Events -> 0 .. Infinity - 1]
  /\ End \in [Events -> 0 .. Infinity]
  /\ \A e \in Events : Begin[e] <= End[e]
  /\ Begin[Whole] = 0

Transition == [time : 0 .. Infinity, kind : {"begin", "end"}, ev : Events]

BeginOf(e) == [time |-> Begin[e], kind |-> "begin", ev |-> e]
EndOf(e)   == [time |-> End[e], kind |-> "end", ev |-> e]

(* compareType: at one time, begins come before ends, and otherwise what   *)
(* was added first.                                                        *)
CompareType(t, other) ==
  IF t.kind = other.kind THEN IF t.ev = other.ev THEN 0 ELSE 1
                         ELSE IF t.kind = "begin" THEN -1 ELSE 1

(* compareTo; there are no negative times.                                 *)
CompareTo(t, other) ==
  IF t.time = other.time THEN CompareType(t, other)
                         ELSE IF t.time < other.time THEN -1 ELSE 1

(* The binary search of addEventTransition: how many entries of the table  *)
(* t comes after, or -1 when it is there already.                          *)
Place(table, t) ==
  LET search[beg \in 0 .. Len(table), end \in -1 .. Len(table) - 1] ==
        LET pos == (beg + end) \div 2
            cmp == CompareTo(t, table[pos + 1])
        IN  IF beg > end THEN beg
              ELSE CASE cmp = 0  -> -1
                     [] cmp = -1 -> search[beg, pos - 1]
                     [] cmp = 1  -> search[pos + 1, end]
  IN  search[0, Len(table) - 1]

AddEventTransition(table, t) ==
  LET place == Place(table, t)
  IN  IF place = -1 THEN table ELSE InsertAt(table, place + 1, t)

(* addPresentationEvent: the whole content is put around all others.       *)
AddPresentationEvent(table, e) ==
  IF e = Whole
    THEN <<BeginOf(e)>> \o table \o <<EndOf(e)>>
    ELSE AddEventTransition(AddEventTransition(table, BeginOf(e)), EndOf(e))

(* The tables the events give, in whatever order they are added.           *)
Tables ==
  {FoldLeft(AddPresentationEvent, <<>>, order) : order \in SetToSeqs(Events)}

(* Such a table holds the begin and the end of events, each once and the   *)
(* begin first, in order of time.                                          *)
Ordered(table) ==
  /\ table \in Seq(Transition)
  /\ \A i \in DOMAIN table :
       table[i] \in {BeginOf(table[i].ev), EndOf(table[i].ev)}
  /\ \A i, j \in DOMAIN table :
       i < j => /\ table[i].time <= table[j].time
                /\ table[i] # table[j]
                /\ ~(\E e \in Events : table[i] = EndOf(e) /\ table[j] = BeginOf(e))

ASSUME TablesAssumption == \A table \in Tables : Ordered(table)

(* prepare: where a presentation that is of event main starts.  Indices    *)
(* count the transitions that are done.                                    *)
StartIndex(table, main) ==
  IF main = Whole THEN 0
    ELSE Cardinality({i \in DOMAIN table : \A j \in 1 .. i :
                        table[j].time < Begin[main]})

Done(table, index, e, kind) ==
  \E i \in 1 .. index : table[i].ev = e /\ table[i].kind = kind

(* Fault model of PreparedStates: what began earlier is left alone.        *)
PreparedStatesAsleep(table, index) == [e \in Events |-> "sleeping"]

(* prepare: what began earlier occurs, without anybody being told.         *)
PreparedStates(table, index) ==
  [e \in Events |->
     IF Done(table, index, e, "begin") /\ ~Done(table, index, e, "end")
       THEN "occurring" ELSE "sleeping"]

(* start: those that begin by the offset begin; ends are passed over.      *)
IndexAfterStart(table, index, offset) ==
  Cardinality({i \in DOMAIN table :
                 i <= index \/ \A j \in index + 1 .. i : table[j].time <= offset})

StatesAfterStart(table, index, offset, state) ==
  [e \in Events |->
     IF /\ state[e] = "sleeping"
        /\ \E i \in index + 1 .. IndexAfterStart(table, index, offset) :
             table[i] = BeginOf(e)
       THEN "occurring" ELSE state[e]]

(* Fault model of Due: it looks at the transition before.                  *)
DueByPrevious(table, index, value) ==
  index < Len(table) /\ table[index].time <= value

(* One round of the loop of updateTransitionTable: FormatterEvent::start,  *)
(* which only a sleeping event does, or stop.                              *)
Due(table, index, value) ==
  index < Len(table) /\ table[index + 1].time <= value

Fire(state, t) ==
  IF t.kind = "begin"
    THEN IF state[t.ev] = "sleeping"
           THEN [state EXCEPT ![t.ev] = "occurring"] ELSE state
    ELSE [state EXCEPT ![t.ev] = "sleeping"]

(* Fault model of HasNext: a transition at the very end is not one.        *)
HasNextBeforeEnd(table, index, main) ==
  /\ index < Len(table)
  /\ End[main] = Infinity \/ table[index + 1].time < End[main]

(* getNextTransition: is there one until the end of the main event?        *)
HasNext(table, index, main) ==
  /\ index < Len(table)
  /\ End[main] = Infinity \/ table[index + 1].time <= End[main]

(* stop: every event that has an end sleeps.                               *)
StatesAfterStop == [e \in Events |-> "sleeping"]
=============================================================================
