---------------------- MODULE CompositeRefinementProofs ----------------------
(***************************************************************************)
(* What a composition guarantees its parent and its links, however the     *)
(* threads of its children and of its links interleave: it implements      *)
(* CompositionContract, and its children, its parent and its end are wrong *)
(* only in the races the history variables name.                           *)
(***************************************************************************)
EXTENDS CompositeExecutionObjectProofs

Presenting == runningEvents \cup pausedEvents

(* Some thread has decided to end the composition and has not done it yet. *)
HasDecided ==
  \/ \E m \in Media : pc[m] \in Ends
  \/ \E t \in Ends : ending[t] > 0

(* The composition's own event and its children.  A decision to end it is  *)
(* still right unless a child or a link came after it (overtaken), and an  *)
(* end leaves a child behind only if it was not, or if a child was already *)
(* on its way in (endedLate).                                              *)
WholeInv ==
  /\ Presenting # {} => wholeContent # "sleeping" \/ endedLate
  /\ \A m \in Media :
       pc[m] = "insert" => wholeContent # "sleeping" \/ endedLate
  /\ HasDecided => NothingLeft \/ overtaken

(* The composition's own event and its parent: whoever is about to start   *)
(* the composition, or has started it, has registered the parent.          *)
ParentInv ==
  \/ unheard
  \/ /\ parentView = wholeContent
     /\ wholeContent # "sleeping" => parentListens
     /\ (\E m \in Media : pc[m] = "starts") => parentListens

LEMMA WholeInit == Init => WholeInv /\ ParentInv
BY DEF Init, WholeInv, ParentInv, HasDecided, Presenting, Ends, EndSteps

(* Steps of the other threads leave the composition alone.                 *)
Apart ==
  /\ UNCHANGED <<runningEvents, pausedEvents, pendingLinks, wholeContent,
                 parentListens, parentView, ending, overtaken, endedLate,
                 unheard>>
  /\ \/ UNCHANGED pc
     \/ \E m \in Media : /\ pc[m] \in {"links", "idle", "return"}
                         /\ pc'[m] \in {"links", "idle", "return"}
                         /\ \A x \in Media \ {m} : pc'[x] = pc[x]

LEMMA WholeApart == WholeInv /\ ParentInv /\ Apart => WholeInv' /\ ParentInv'
BY DEF Apart, WholeInv, ParentInv, HasDecided, Presenting, NothingLeft, AllDone,
   Ends

LEMMA ApartSteps ==
  ASSUME TypeOK,
         \/ \E m \in Media, c \in Commands : Command(m, c)
         \/ \E m \in Media : \/ NaturalEnd(m) \/ ObjectRepeats(m)
                             \/ Repeat(m) \/ Return(m)
         \/ \E l \in Links : TakeEventMutex(l) \/ RunAction(l)
         \/ UNCHANGED vars
  PROVE  Apart
<1>0. ChangeTypeOK
  BY DEF TypeOK
<1>1. ASSUME NEW m \in Media, pc[m] = "idle", Effect(m),
             UNCHANGED <<childVars, pendingLinks, wholeVars, ending,
                         historyVars>>
      PROVE  Apart
  <2>1. \A x \in Media \ {m} : pc'[x] = pc[x]
    BY <1>1 DEF Effect, SameEvent
  <2>2. pc'[m] \in {"idle", "links"}
    BY <1>0, <1>1 DEF Effect, Began, Stayed, ChangeTypeOK
  <2> QED
    BY <1>1, <2>1, <2>2 DEF Apart, childVars, wholeVars, historyVars
<1>2. ASSUME NEW m \in Media, NEW c \in Commands, Command(m, c)
      PROVE  Apart
  <2>1. numPresentations[m] \in Nat \ {0}
    BY DEF TypeOK, MediaTypeOK
  <2> QED
    BY <1>1, <1>2, <2>1, PerformEffect DEF Command
<1>3. ASSUME NEW m \in Media, NaturalEnd(m)
      PROVE  Apart
  BY <1>1, <1>3, AdapterStopEffect DEF NaturalEnd
<1>4. ASSUME NEW m \in Media, ObjectRepeats(m) \/ Repeat(m) \/ Return(m)
      PROVE  Apart
  <2>1. /\ pc[m] \in {"links", "return"} /\ pc'[m] \in {"links", "idle", "return"}
        /\ \A x \in Media \ {m} : pc'[x] = pc[x]
    BY <1>0, <1>4 DEF ObjectRepeats, Repeat, Return, CallsObject, ChangeState,
       GoTo, ChangeTypeOK
  <2> QED
    BY <1>4, <2>1 DEF ObjectRepeats, Repeat, Return, Apart, childVars,
       wholeVars, otherVars, historyVars
<1>5. ASSUME NEW l \in Links, TakeEventMutex(l)
      PROVE  Apart
  BY <1>5 DEF TakeEventMutex, Apart, changeVars, childVars, wholeVars,
     historyVars
<1>6. ASSUME NEW l \in Links, RunAction(l)
      PROVE  Apart
  <2> DEFINE m == ActionTarget[l]
             n == IF l \in RepeatLinks THEN RepeatCount + 1
                                       ELSE numPresentations[m]
  <2>1. m \in Media /\ ActionType[l] \in Commands /\ n \in Nat \ {0}
    BY CompositeAssumption DEF TypeOK, MediaTypeOK
  <2>2. /\ Perform(m, ActionType[l], n) /\ pc[m] = "idle"
        /\ UNCHANGED <<childVars, pendingLinks, wholeVars, ending, historyVars>>
    BY <1>6 DEF RunAction
  <2> QED
    BY <1>1, <2>1, <2>2, PerformEffect
<1>7. CASE UNCHANGED vars
  BY <1>7 DEF vars, Apart, changeVars, childVars, wholeVars, historyVars
<1> QED
  BY <1>2, <1>3, <1>4, <1>5, <1>6, <1>7
-----------------------------------------------------------------------------
(* Steps that touch the composition.                                       *)

(* A transition that ends, carried out with what is remembered of it.      *)
LEMMA WholeEnded ==
  ASSUME TypeOK, WholeInv, ParentInv, HasDecided, NEW t \in Ends,
         ChangeWhole(t), NoteEnd, HasDecided' => HasDecided,
         HasDecided' => AboutToEnd',
         \A x \in Media : /\ pc'[x] = "insert" => pc[x] = "insert"
                          /\ pc'[x] = "starts" => pc[x] = "starts",
         UNCHANGED <<childVars, pendingLinks, parentListens, unheard>>
  PROVE  WholeInv' /\ ParentInv'
<1>1. wholeContent' = "sleeping"
  BY EndingCloses DEF TypeOK
<1>2. UNCHANGED Presenting /\ NothingLeft' = NothingLeft
  BY DEF Presenting, NothingLeft, AllDone, childVars
<1>3. NothingLeft => Presenting = {}
  BY DEF NothingLeft, AllDone, Presenting
<1>4. CASE wholeContent = "sleeping"
  <2>1. endedLate' = endedLate
    BY <1>4 DEF NoteEnd
  <2>2. Presenting' # {} => endedLate'
    BY <1>2, <1>4, <2>1 DEF WholeInv
  <2>3. \A x \in Media : pc'[x] = "insert" => endedLate'
    BY <1>4, <2>1 DEF WholeInv
  <2> QED
    BY <2>2, <2>3, <1>1, <1>2, <1>4, Accepted DEF WholeInv, ParentInv, NoteEnd,
       ChangeWhole, Ends
<1>5. CASE wholeContent # "sleeping"
  <2>1. endedLate' = (overtaken \/ Joining)
    BY <1>5 DEF NoteEnd
  <2>2. Presenting' # {} => endedLate'
    BY <1>2, <1>3, <2>1 DEF WholeInv
  <2>3. \A x \in Media : pc'[x] = "insert" => endedLate'
    BY <2>1 DEF Joining
  <2>4. ParentInv'
    BY <1>1, <1>5 DEF ParentInv, ChangeWhole
  <2> QED
    BY <2>2, <2>3, <2>4, <1>2 DEF WholeInv, NoteEnd
<1> QED
  BY <1>4, <1>5

(* A listener that leaves the composition's own event alone.               *)
LEMMA WholeKept ==
  ASSUME WholeInv, ParentInv,
         UNCHANGED <<wholeContent, parentView, endedLate, unheard>>,
         parentListens => parentListens',
         Presenting' # {} =>
           Presenting # {} \/ \E m \in Media : pc[m] = "insert",
         \A x \in Media :
           /\ pc'[x] = "insert" =>
                pc[x] = "insert" \/ Presenting # {}
           /\ pc'[x] = "starts" => pc[x] = "starts" \/ parentListens',
         HasDecided' => NothingLeft' \/ overtaken'
  PROVE  WholeInv' /\ ParentInv'
BY DEF WholeInv, ParentInv

LEMMA WholeListeners ==
  ASSUME CoreInv, TrackInv, WholeInv, ParentInv, NEW m \in Media, Listener(m)
  PROVE  WholeInv' /\ ParentInv'
<1>1. /\ TypeOK /\ ChangeTypeOK /\ CompositionTypeOK /\ Tracked(m)
      /\ PendingExact /\ OwnLinks
  BY DEF CoreInv, TypeOK, TrackInv
<1>2. \A s : GoTo(m, s) =>
        pc'[m] = s /\ \A x \in Media \ {m} : pc'[x] = pc[x]
  BY <1>1 DEF GoTo, ChangeTypeOK
<1>3. CASE \E l \in Links : EvaluationStarted(m, l) \/ EvaluationFails(m, l)
  <2>1. /\ UNCHANGED <<childVars, wholeVars, ending, endedLate, unheard>>
        /\ NoteArrival
    BY <1>3 DEF EvaluationStarted, EvaluationFails
  <2>2. /\ pc[m] = "links" /\ pc'[m] \in {"links", "evaluate"}
        /\ \A x \in Media \ {m} : pc'[x] = pc[x]
    BY <1>2, <1>3 DEF EvaluationStarted, EvaluationFails, CallsLink
  <2>3. HasDecided' => AboutToEnd
    BY <2>1, <2>2 DEF HasDecided, AboutToEnd, Ends
  <2>4. HasDecided' => overtaken'
    BY <2>1, <2>3 DEF NoteArrival
  <2> QED
    BY <2>1, <2>2, <2>4, WholeKept DEF childVars, wholeVars, Presenting
<1>4. CASE EvaluationEnded(m)
  <2> DEFINE l == evaluated[m]
             pending == [pendingLinks EXCEPT ![l] = @ - 1]
  <2>1. /\ UNCHANGED <<childVars, wholeVars, ending, historyVars>>
        /\ pendingLinks' = pending /\ pc[m] = "evaluate"
    BY <1>4 DEF EvaluationEnded
  <2>2. l \in Links /\ pendingLinks[l] > 0
    BY <1>1, <2>1, CompositeAssumption DEF PendingExact, OwnLinks, Evaluates,
       TypeOK, ThreadTypeOK
  <2>3. ~NothingLeft
    BY <1>1, <2>2 DEF NothingLeft, AllDone, CompositionTypeOK
  <2>4. CASE IdleAfterReport(pending, l)
    <3>1. NothingLeft'
      BY <2>1, <2>4 DEF IdleAfterReport, NothingLeft, AllDone, childVars
    <3>2. pc'[m] \in Ends /\ \A x \in Media \ {m} : pc'[x] = pc[x]
      BY <1>1, <1>2, <1>4, <2>4 DEF EvaluationEnded, CompositionTypeOK
    <3> QED
      BY <2>1, <3>1, <3>2, WholeKept DEF childVars, wholeVars, historyVars,
         Presenting, Ends
  <2>5. CASE ~IdleAfterReport(pending, l)
    <3>1. pc'[m] = "links" /\ \A x \in Media \ {m} : pc'[x] = pc[x]
      BY <1>2, <1>4, <2>5 DEF EvaluationEnded
    <3>2. HasDecided' => HasDecided
      BY <2>1, <3>1 DEF HasDecided, Ends
    <3>3. HasDecided' => overtaken'
      BY <2>1, <2>3, <3>2 DEF WholeInv, historyVars
    <3> QED
      BY <2>1, <3>1, <3>3, WholeKept DEF childVars, wholeVars, historyVars,
         Presenting
  <2> QED
    BY <2>4, <2>5
<1>5. CASE ObjectStarts(m) \/ SetParents(m)
  <2>1. /\ UNCHANGED <<childVars, pendingLinks, wholeContent, parentView,
                       ending, overtaken, endedLate, unheard>>
        /\ parentListens => parentListens'
        /\ \A x \in Media \ {m} : pc'[x] = pc[x]
    BY <1>2, <1>5 DEF ObjectStarts, SetParents, otherVars, wholeVars
  <2>2. /\ pc[m] \in {"links", "parents"}
        /\ \/ pc'[m] = "parents"
           \/ pc'[m] = "starts" /\ parentListens'
           \/ pc'[m] = "insert" /\ Presenting # {}
    BY <1>2, <1>5 DEF ObjectStarts, SetParents, CallsObject, Opening, Presenting
  <2>3. HasDecided' => HasDecided
    BY <2>1, <2>2 DEF HasDecided, Ends
  <2>4. HasDecided' => NothingLeft' \/ overtaken'
    BY <2>1, <2>3 DEF WholeInv, NothingLeft, AllDone, childVars
  <2> QED
    BY <2>1, <2>2, <2>4, WholeKept DEF childVars, Presenting
<1>6. CASE StartWhole(m)
  <2>1. /\ UNCHANGED <<childVars, pendingLinks, parentListens, ending, overtaken>>
        /\ pc[m] = "starts" /\ pc'[m] = "insert"
        /\ \A x \in Media \ {m} : pc'[x] = pc[x]
        /\ ChangeWhole("starts") /\ NoteStart
    BY <1>2, <1>6 DEF StartWhole, otherVars
  <2>2. wholeContent' # "sleeping"
        /\ (wholeContent # "sleeping" => UNCHANGED <<wholeContent, parentView>>)
        /\ (wholeContent = "sleeping" /\ parentListens =>
              parentView' = wholeContent')
    BY <2>1, NewStates, Accepted DEF ChangeWhole, Settled
  <2>3. HasDecided' => HasDecided
    BY <2>1 DEF HasDecided, Ends
  <2>4. WholeInv'
    BY <2>1, <2>2, <2>3 DEF WholeInv, NothingLeft, AllDone, childVars
  <2>5. ParentInv'
    BY <2>1, <2>2 DEF ParentInv, NoteStart
  <2> QED
    BY <2>4, <2>5
<1>7. CASE InsertRunning(m)
  <2>1. /\ UNCHANGED <<wholeVars, ending, endedLate, unheard>>
        /\ pc[m] = "insert" /\ pc'[m] = "return"
        /\ \A x \in Media \ {m} : pc'[x] = pc[x]
        /\ NoteArrival
    BY <1>2, <1>7 DEF InsertRunning
  <2>2. HasDecided' => AboutToEnd
    BY <2>1 DEF HasDecided, AboutToEnd, Ends
  <2>3. HasDecided' => overtaken'
    BY <2>1, <2>2 DEF NoteArrival
  <2> QED
    BY <2>1, <2>3, WholeKept DEF wholeVars
<1>8. CASE ObjectStops(m) \/ ObjectPauses(m) \/ ObjectResumes(m)
  <2>1. /\ UNCHANGED <<wholeVars, pendingLinks, ending, overtaken, endedLate,
                       unheard>>
        /\ pc[m] = "links" /\ \A x \in Media \ {m} : pc'[x] = pc[x]
        /\ pc'[m] \in {"test", "pauses", "resumes", "return"}
    BY <1>2, <1>8 DEF ObjectStops, ObjectPauses, ObjectResumes, CallsObject,
       otherVars
  <2>2. Presenting' \subseteq Presenting
    <3>1. ObjectPauses(m) => m \in runningEvents
      BY <1>1 DEF ObjectPauses, CallsObject, Tracked, AtLinks
    <3>2. ObjectResumes(m) => m \in pausedEvents
      BY <1>1 DEF ObjectResumes, CallsObject, Tracked, AtLinks
    <3> QED
      BY <1>8, <3>1, <3>2 DEF ObjectStops, ObjectPauses, ObjectResumes,
         Presenting
  <2>3. HasDecided' => HasDecided
    BY <2>1 DEF HasDecided, Ends
  <2>4. NothingLeft => NothingLeft'
    BY <2>1, <2>2 DEF NothingLeft, AllDone, Presenting
  <2>5. HasDecided' => NothingLeft' \/ overtaken'
    BY <2>1, <2>3, <2>4 DEF WholeInv
  <2> QED
    BY <2>1, <2>2, <2>5, WholeKept DEF wholeVars
<1>9. CASE TestAllDone(m)
  <2>1. /\ UNCHANGED <<childVars, wholeVars, pendingLinks, ending, endedLate,
                       unheard>>
        /\ pc[m] = "test" /\ \A x \in Media \ {m} : pc'[x] = pc[x]
        /\ overtaken' = (overtaken /\ AboutToEnd')
    BY <1>2, <1>9 DEF TestAllDone, otherVars
  <2>2. CASE NothingLeft
    <3>1. pc'[m] \in Ends
      BY <1>1, <1>2, <1>9, <2>2 DEF TestAllDone, NothingLeft, Tracked, Finishing
    <3>2. NothingLeft'
      BY <2>1, <2>2 DEF NothingLeft, AllDone, childVars
    <3> QED
      BY <2>1, <3>1, <3>2, WholeKept DEF childVars, wholeVars, Presenting, Ends
  <2>3. CASE ~NothingLeft
    <3>1. pc'[m] = "return"
      BY <1>2, <1>9, <2>3 DEF TestAllDone, NothingLeft
    <3>2. HasDecided' => HasDecided /\ AboutToEnd'
      BY <2>1, <3>1 DEF HasDecided, AboutToEnd, Ends
    <3>3. HasDecided' => overtaken'
      BY <2>1, <2>3, <3>2 DEF WholeInv
    <3> QED
      BY <2>1, <3>1, <3>3, WholeKept DEF childVars, wholeVars, Presenting
  <2> QED
    BY <2>2, <2>3
<1>10. CASE EndWhole(m)
  <2>1. /\ UNCHANGED <<childVars, pendingLinks, parentListens, ending, unheard>>
        /\ pc[m] \in Ends /\ pc'[m] = "unset"
        /\ \A x \in Media \ {m} : pc'[x] = pc[x]
        /\ ChangeWhole(pc[m]) /\ NoteEnd
    BY <1>2, <1>10 DEF EndWhole, otherVars
  <2>2. HasDecided /\ (HasDecided' => AboutToEnd')
    BY <2>1 DEF HasDecided, AboutToEnd
  <2> QED
    BY <1>1, <2>1, <2>2, WholeEnded
<1>11. CASE UnsetParents(m)
  <2>1. /\ UNCHANGED <<childVars, pendingLinks, wholeContent, parentView,
                       ending, overtaken, endedLate>>
        /\ pc[m] = "unset" /\ pc'[m] \in {"return", "links"}
        /\ \A x \in Media \ {m} : pc'[x] = pc[x]
        /\ NoteUnset
    BY <1>2, <1>11 DEF UnsetParents
  <2>2. HasDecided' => HasDecided
    BY <2>1 DEF HasDecided, Ends
  <2>3. WholeInv'
    BY <2>1, <2>2 DEF WholeInv, NothingLeft, AllDone, childVars, Presenting
  <2>4. ParentInv'
    BY <2>1 DEF ParentInv, NoteUnset
  <2> QED
    BY <2>3, <2>4
<1>12. CASE PauseWhole(m)
  <2>1. /\ UNCHANGED <<childVars, pendingLinks, parentListens, ending,
                       overtaken, endedLate, unheard>>
        /\ pc[m] \in {"pauses", "resumes"} /\ pc'[m] = "return"
        /\ \A x \in Media \ {m} : pc'[x] = pc[x]
        /\ ChangeWhole(pc[m])
    BY <1>2, <1>12 DEF PauseWhole, otherVars
  <2>2. wholeContent' = "sleeping" <=> wholeContent = "sleeping"
    BY <2>1, ChangeStays
  <2>3. HasDecided' => HasDecided
    BY <2>1 DEF HasDecided, Ends
  <2>4. WholeInv'
    BY <2>1, <2>2, <2>3 DEF WholeInv, NothingLeft, AllDone, childVars, Presenting
  <2>5. ParentInv'
    BY <2>1, <2>2, Accepted DEF ParentInv, ChangeWhole
  <2> QED
    BY <2>4, <2>5
<1>13. CASE ObjectRepeats(m) \/ Repeat(m) \/ Return(m)
  BY <1>1, <1>13, ApartSteps, WholeApart
<1> QED
  BY <1>3, <1>4, <1>5, <1>6, <1>7, <1>8, <1>9, <1>10, <1>11, <1>12, <1>13
     DEF Listener

(* The report of a link's evaluation, and the thread that ends the         *)
(* composition after it.                                                   *)
LEMMA WholeEndings ==
  ASSUME CoreInv, WholeInv, ParentInv,
         EndingThread \/ \E l \in Links : LinkEvaluationFinished(l)
  PROVE  WholeInv' /\ ParentInv'
<1>1. TypeOK /\ CompositionTypeOK /\ ThreadTypeOK /\ PendingExact
  BY DEF CoreInv, TypeOK
<1>2. ASSUME NEW l \in Links, LinkEvaluationFinished(l)
      PROVE  WholeInv' /\ ParentInv'
  <2> DEFINE pending == [pendingLinks EXCEPT ![l] = @ - 1]
             idle    == IdleAfterReport(pending, l)
  <2>1. /\ UNCHANGED <<changeVars, childVars, wholeVars, overtaken, endedLate,
                       unheard>>
        /\ pendingLinks' = pending /\ toFinish[l] > 0
    BY <1>2 DEF LinkEvaluationFinished
  <2>2. ~NothingLeft
    BY <1>1, <2>1 DEF PendingExact, ThreadTypeOK, NothingLeft, AllDone
  <2>3. CASE idle
    <3>1. NothingLeft'
      BY <2>1, <2>3 DEF IdleAfterReport, NothingLeft, AllDone, childVars
    <3> QED
      BY <2>1, <3>1, WholeKept DEF changeVars, childVars, wholeVars, Presenting
  <2>4. CASE ~idle
    <3>1. UNCHANGED ending
      BY <1>2, <2>4 DEF LinkEvaluationFinished
    <3>2. HasDecided' => HasDecided
      BY <2>1, <3>1 DEF HasDecided, changeVars
    <3>3. HasDecided' => overtaken'
      BY <2>1, <2>2, <3>2 DEF WholeInv
    <3> QED
      BY <2>1, <3>3, WholeKept DEF changeVars, childVars, wholeVars, Presenting
  <2> QED
    BY <2>3, <2>4
<1>3. ASSUME NEW t \in Ends, EndByLink(t)
      PROVE  WholeInv' /\ ParentInv'
  <2>1. /\ UNCHANGED <<changeVars, childVars, pendingLinks, parentListens,
                       unheard>>
        /\ ending[t] > 0
        /\ ending' = [ending EXCEPT ![t] = @ - 1, !["unset"] = @ + 1]
        /\ ChangeWhole(t) /\ NoteEnd
    BY <1>3 DEF EndByLink
  <2>2. HasDecided
    BY <2>1 DEF HasDecided
  <2>3. HasDecided' => AboutToEnd'
    BY DEF HasDecided, AboutToEnd
  <2> QED
    BY <1>1, <2>1, <2>2, <2>3, WholeEnded DEF changeVars
<1>4. CASE UnsetByLink
  <2>1. /\ UNCHANGED <<changeVars, childVars, pendingLinks, wholeContent,
                       parentView, overtaken, endedLate>>
        /\ ending' = [ending EXCEPT !["unset"] = @ - 1]
        /\ NoteUnset
    BY <1>4 DEF UnsetByLink
  <2>2. HasDecided' => HasDecided
    BY <1>1, <2>1 DEF HasDecided, changeVars, Ends, EndSteps, CompositionTypeOK
  <2>3. WholeInv'
    BY <2>1, <2>2 DEF WholeInv, NothingLeft, AllDone, childVars, changeVars,
       Presenting
  <2>4. ParentInv'
    BY <2>1 DEF ParentInv, NoteUnset, changeVars
  <2> QED
    BY <2>3, <2>4
<1> QED
  BY <1>2, <1>3, <1>4 DEF EndingThread, Ends

LEMMA WholeStep ==
  CoreInv /\ TrackInv /\ WholeInv /\ ParentInv /\ [Next]_vars
    => WholeInv' /\ ParentInv'
<1> SUFFICES ASSUME CoreInv, TrackInv, WholeInv, ParentInv, [Next]_vars
             PROVE  WholeInv' /\ ParentInv'
  OBVIOUS
<1>1. TypeOK
  BY DEF CoreInv
<1>2. CASE \E m \in Media : Listener(m)
  BY <1>2, WholeListeners
<1>3. CASE EndingThread \/ \E l \in Links : LinkEvaluationFinished(l)
  BY <1>3, WholeEndings
<1>4. CASE \/ \E m \in Media, c \in Commands : Command(m, c)
           \/ \E m \in Media : NaturalEnd(m)
           \/ \E l \in Links : TakeEventMutex(l) \/ RunAction(l)
           \/ UNCHANGED vars
  BY <1>1, <1>4, ApartSteps, WholeApart
<1> QED
  BY <1>2, <1>3, <1>4 DEF Next, LinkThread

THEOREM WholeInvariant == Spec => [](WholeInv /\ ParentInv)
BY WholeInit, WholeStep, CoreInvariant, TrackInvariant, PTL DEF Spec

(* A composition with presenting children is itself presented, whatever    *)
(* the threads of its children and links do, unless its last end overlapped*)
(* a start or was overtaken by one.                                        *)
THEOREM WholeIsCovering == Spec => []WholeCoversChildren
<1>1. WholeInv => WholeCoversChildren
  BY DEF WholeInv, WholeCoversChildren, Presenting
<1> QED
  BY <1>1, WholeInvariant, PTL

(* The parent has been told every change of the composition and is         *)
(* registered for the next, unless a late unsetParentsAsListeners took away*)
(* the registration of a newer start.                                      *)
THEOREM ParentIsInformed == Spec => []ParentInformed
<1>1. ParentInv => ParentInformed
  BY DEF ParentInv, ParentInformed
<1> QED
  BY <1>1, WholeInvariant, PTL
-----------------------------------------------------------------------------
(***************************************************************************)
(* The end.  Only a thread that has decided ends the composition, and its  *)
(* decision is still right, or was overtaken.                              *)
(***************************************************************************)
LEMMA OnlyDecidedEnds ==
  ASSUME TypeOK, [Next]_vars,
         wholeContent # "sleeping", wholeContent' = "sleeping"
  PROVE  HasDecided
<1>1. CASE \E m \in Media : Listener(m)
  <2>1. PICK m \in Media : Listener(m)
    BY <1>1
  <2>2. \/ EndWhole(m) \/ StartWhole(m) \/ PauseWhole(m) \/ UNCHANGED wholeContent
    BY <2>1 DEF Listener, EvaluationStarted, EvaluationFails, EvaluationEnded,
       ObjectStarts, SetParents, InsertRunning, ObjectRepeats, ObjectStops,
       TestAllDone, ObjectPauses, ObjectResumes, UnsetParents, Repeat, Return,
       wholeVars
  <2>3. ~StartWhole(m)
    BY Accepted DEF StartWhole, ChangeWhole
  <2>4. ~PauseWhole(m)
    BY ChangeStays DEF PauseWhole
  <2> QED
    BY <2>2, <2>3, <2>4 DEF EndWhole, HasDecided
<1>2. CASE EndingThread
  BY <1>2 DEF EndingThread, EndByLink, UnsetByLink, HasDecided, Ends
<1>3. CASE \E l \in Links : LinkEvaluationFinished(l)
  BY <1>3 DEF LinkEvaluationFinished, wholeVars
<1>4. CASE Apart
  BY <1>4 DEF Apart
<1> QED
  BY <1>1, <1>2, <1>3, <1>4, ApartSteps DEF Next, LinkThread

(* With nothing left, everything is over.                                  *)
LEMMA NothingLeftIsOver == CoreInv /\ TrackInv /\ NothingLeft => Over
<1> SUFFICES ASSUME CoreInv, TrackInv, NothingLeft PROVE Over
  OBVIOUS
<1>1. TypeOK /\ PendingExact /\ ThreadTypeOK
  BY DEF CoreInv, TypeOK
<1>2. \A m \in Media : pc[m] = "idle" => currentState[m] = "sleeping"
  BY <1>1 DEF NothingLeft, AllDone, TrackInv, Tracked, Known, TypeOK,
     MediaTypeOK, States
<1>3. \A l \in Links : toRun[l] = 0 /\ toFinish[l] = 0 /\ eventMutex # l
  BY <1>1 DEF NothingLeft, AllDone, PendingExact, ThreadTypeOK
<1> QED
  BY <1>1, <1>2, <1>3 DEF Over, ThreadTypeOK

(* The composition ends ("ALL DONE" in eventStateChanged) only when all    *)
(* its children have ended and no link evaluation is under way, unless a   *)
(* child or an evaluation came between the test and the end.               *)
THEOREM EndsAreRight == Spec => EndsRightUnlessOvertaken
<1> DEFINE Right == wholeContent # "sleeping" /\ wholeContent' = "sleeping" =>
                      Over \/ overtaken
<1>1. CoreInv /\ TrackInv /\ WholeInv /\ [Next]_vars => [Right]_vars
  <2> SUFFICES ASSUME CoreInv, TrackInv, WholeInv, [Next]_vars,
                      wholeContent # "sleeping", wholeContent' = "sleeping"
               PROVE  Over \/ overtaken
    OBVIOUS
  <2>1. HasDecided
    BY OnlyDecidedEnds DEF CoreInv
  <2> QED
    BY <2>1, NothingLeftIsOver DEF WholeInv
<1> QED
  BY <1>1, CoreInvariant, TrackInvariant, WholeInvariant, PTL
     DEF Spec, EndsRightUnlessOvertaken
-----------------------------------------------------------------------------
(***************************************************************************)
(* Refinement.  Presenting is what the contract calls active; Holding,     *)
(* Decided and Reported are what it calls held, decided and reported.      *)
(***************************************************************************)
Holding == {l \in Links : pendingLinks[l] > 0}

Decision(step) == IF step = "parents" THEN "starts"
                  ELSE IF step \in Transitions THEN step
                  ELSE "none"

Decided == [m \in Media |-> Decision(pc[m])]

Reported == [t \in Ends |-> ending[t]]

(* The steps of the contract, in the composition's variables.              *)
Decides(m, t) ==
  /\ Decision(pc[m]) = "none" /\ Decision(pc'[m]) = t
  /\ Decided' = [Decided EXCEPT ![m] = t]
  /\ Holding' = Holding \/ \E l \in Links : Holding' = Holding \ {l}
  /\ Contract!Grounds(t)
  /\ UNCHANGED <<Presenting, wholeContent, Reported>>

CarriesOut(m) ==
  /\ Decision(pc[m]) # "none"
  /\ Contract!Take(Decision(pc[m]))
  /\ Decided' = [Decided EXCEPT ![m] = "none"]
  /\ UNCHANGED <<Presenting, Holding, Reported>>

JoinsOrLeaves(m) ==
  /\ \/ Decision(pc[m]) = "none" /\ Presenting' = Presenting \cup {m}
     \/ Presenting' = Presenting \ {m}
  /\ UNCHANGED <<Holding, wholeContent, Decided, Reported>>

HoldsOrReleases(l) ==
  /\ Holding' = Holding \cup {l} \/ Holding' = Holding \ {l}
  /\ UNCHANGED <<Presenting, wholeContent, Decided, Reported>>

Reports(l, t) ==
  /\ Reported' = [Reported EXCEPT ![t] = @ + 1]
  /\ Holding' = Holding \ {l}
  /\ Contract!Grounds(t)
  /\ UNCHANGED <<Presenting, wholeContent, Decided>>

CarriesOutReport(t) ==
  /\ Reported[t] > 0
  /\ Contract!Take(t)
  /\ Reported' = [Reported EXCEPT ![t] = @ - 1]
  /\ UNCHANGED <<Presenting, Holding, Decided>>

ContractStep ==
  \/ UNCHANGED <<Presenting, Holding, wholeContent, Decided, Reported>>
  \/ \E m \in Media, t \in Transitions : Decides(m, t)
  \/ \E m \in Media : CarriesOut(m) \/ JoinsOrLeaves(m)
  \/ \E l \in Links : HoldsOrReleases(l)
  \/ \E l \in Links, t \in Ends : Reports(l, t)
  \/ \E t \in Ends : CarriesOutReport(t)

LEMMA ContractSteps == ContractStep => [Contract!Next]_Contract!vars
<1>1. ASSUME NEW m \in Media, NEW t \in Transitions, Decides(m, t)
      PROVE  Contract!Decide(m)
  <2>1. Decided[m] = "none" /\ Decided'[m] = t
    BY <1>1 DEF Decided, Decides
  <2> QED
    BY <1>1, <2>1 DEF Decides, Contract!Decide, Presenting, Holding, Decision,
       Decided, Reported, Transitions, Contract!Transitions, Contract!Grounds
<1>2. ASSUME NEW m \in Media, CarriesOut(m)
      PROVE  Contract!CarryOut(m)
  BY <1>2 DEF CarriesOut, Contract!CarryOut, Presenting, Holding, Decision,
     Decided, Reported
<1>3. ASSUME NEW m \in Media, JoinsOrLeaves(m)
      PROVE  Contract!Join(m) \/ Contract!Leave(m)
  BY <1>3 DEF JoinsOrLeaves, Contract!Join, Contract!Leave, Presenting,
     Holding, Decision, Decided, Reported
<1>4. ASSUME NEW l \in Links, HoldsOrReleases(l)
      PROVE  Contract!Hold(l) \/ Contract!Release(l)
  BY <1>4 DEF HoldsOrReleases, Contract!Hold, Contract!Release, Presenting,
     Holding, Decision, Decided, Reported
<1>5. ASSUME NEW l \in Links, NEW t \in Ends, Reports(l, t)
      PROVE  Contract!Report(l, t)
  BY <1>5 DEF Reports, Contract!Report, Presenting, Holding, Decision,
     Decided, Reported
<1>6. ASSUME NEW t \in Ends, CarriesOutReport(t)
      PROVE  Contract!CarryOutReport(t)
  BY <1>6 DEF CarriesOutReport, Contract!CarryOutReport, Presenting, Holding,
     Decision, Decided, Reported
<1>7. ASSUME UNCHANGED <<Presenting, Holding, wholeContent, Decided, Reported>>
      PROVE  UNCHANGED Contract!vars
  BY <1>7 DEF Contract!vars, Presenting, Holding, Decision, Decided, Reported
<1> QED
  BY <1>1, <1>2, <1>3, <1>4, <1>5, <1>6, <1>7 DEF ContractStep, Contract!Next,
     Ends

(* Where the change of one media object may go, for the contract.          *)
LEMMA DecisionMoves ==
  ASSUME TypeOK, NEW m \in Media, \A x \in Media \ {m} : pc'[x] = pc[x]
  PROVE  Decided' = [Decided EXCEPT ![m] = Decision(pc'[m])]
BY DEF Decided

LEMMA DecisionStays ==
  ASSUME TypeOK, NEW m \in Media, \A x \in Media \ {m} : pc'[x] = pc[x],
         Decision(pc'[m]) = Decision(pc[m])
  PROVE  UNCHANGED Decided
BY DEF Decided

(* A decided transition is carried out.                                    *)
LEMMA Carried ==
  ASSUME TypeOK, NEW m \in Media, NEW t \in Transitions, pc[m] = t,
         ChangeWhole(t), Decision(pc'[m]) = "none",
         \A x \in Media \ {m} : pc'[x] = pc[x],
         UNCHANGED <<childVars, pendingLinks, ending>>
  PROVE  ContractStep
<1>1. Decision(pc[m]) = t /\ t # "none"
  BY DEF Decision, Transitions
<1>2. Contract!Take(t)
  BY DEF ChangeWhole, Contract!Take, Accepts, Settled, NewState,
     Contract!Accepts, Contract!Settled, Contract!NewState
<1>3. UNCHANGED <<Presenting, Holding, Reported>>
  BY DEF Presenting, Holding, Reported, childVars
<1> QED
  BY <1>1, <1>2, <1>3, DecisionMoves DEF CarriesOut, ContractStep

(* One evaluation of a link less.                                          *)
LEMMA OneLess ==
  ASSUME CompositionTypeOK, NEW l \in Links,
         pendingLinks' = [pendingLinks EXCEPT ![l] = @ - 1]
  PROVE  /\ Holding' = Holding \/ Holding' = Holding \ {l}
         /\ pendingLinks'[l] = 0 => Holding' = Holding \ {l}
<1>1. \A k \in Links \ {l} : pendingLinks'[k] = pendingLinks[k]
  BY DEF CompositionTypeOK
<1>2. pendingLinks'[l] > 0 => pendingLinks[l] > 0
  BY DEF CompositionTypeOK
<1> QED
  BY <1>1, <1>2 DEF Holding

LEMMA ApartRefines == Apart => ContractStep
<1> SUFFICES ASSUME Apart PROVE ContractStep
  OBVIOUS
<1>1. UNCHANGED <<Presenting, Holding, wholeContent, Reported>>
  BY DEF Apart, Presenting, Holding, Reported
<1>2. UNCHANGED Decided
  BY DEF Apart, Decided, Decision, Transitions
<1> QED
  BY <1>1, <1>2 DEF ContractStep

LEMMA ListenersRefine ==
  ASSUME CoreInv, TrackInv, NEW m \in Media, Listener(m)
  PROVE  ContractStep
<1>1. /\ TypeOK /\ ChangeTypeOK /\ CompositionTypeOK /\ Tracked(m)
      /\ PendingExact /\ OwnLinks
  BY DEF CoreInv, TypeOK, TrackInv
<1>2. \A s : GoTo(m, s) =>
        pc'[m] = s /\ \A x \in Media \ {m} : pc'[x] = pc[x]
  BY <1>1 DEF GoTo, ChangeTypeOK
<1>3. ASSUME NEW l \in Links, EvaluationStarted(m, l) \/ EvaluationFails(m, l)
      PROVE  ContractStep
  <2>1. UNCHANGED <<Presenting, wholeContent, Reported>>
    BY <1>3 DEF EvaluationStarted, EvaluationFails, childVars, wholeVars,
       Presenting, Reported
  <2>2. Holding' = Holding \cup {l}
    BY <1>1, <1>3 DEF EvaluationStarted, EvaluationFails, Counted, Holding,
       CompositionTypeOK
  <2>3. /\ pc[m] = "links" /\ pc'[m] \in {"links", "evaluate"}
        /\ \A x \in Media \ {m} : pc'[x] = pc[x]
    BY <1>2, <1>3 DEF EvaluationStarted, EvaluationFails, CallsLink
  <2>4. UNCHANGED Decided
    BY <1>1, <2>3, DecisionStays DEF Decision, Transitions
  <2> QED
    BY <2>1, <2>2, <2>4 DEF HoldsOrReleases, ContractStep
<1>4. CASE EvaluationEnded(m)
  <2> DEFINE l == evaluated[m]
             pending == [pendingLinks EXCEPT ![l] = @ - 1]
  <2>1. /\ UNCHANGED <<childVars, wholeVars, ending>>
        /\ pendingLinks' = pending /\ pc[m] = "evaluate"
    BY <1>4 DEF EvaluationEnded
  <2>2. UNCHANGED <<Presenting, wholeContent, Reported>>
    BY <2>1 DEF childVars, wholeVars, Presenting, Reported
  <2>3. l \in Links
    BY <1>1, <2>1 DEF OwnLinks
  <2>4. Holding' = Holding \/ Holding' = Holding \ {l}
    BY <1>1, <2>1, <2>3, OneLess
  <2>5. CASE IdleAfterReport(pending, l)
    <3>1. /\ pc'[m] = lastTransition /\ lastTransition \in Ends
          /\ \A x \in Media \ {m} : pc'[x] = pc[x]
      BY <1>1, <1>2, <1>4, <2>5 DEF EvaluationEnded, CompositionTypeOK
    <3>2. Presenting = {} /\ Holding' = {}
      BY <2>1, <2>5 DEF IdleAfterReport, AllDone, Presenting, Holding
    <3>3. PICK t \in Ends : t = lastTransition
      BY <3>1
    <3>4. Contract!Grounds(t)
      BY <3>2 DEF Contract!Grounds, Presenting, Holding, Ends
    <3>5. Decision(pc[m]) = "none" /\ Decision(pc'[m]) = t /\ t \in Transitions
      BY <2>1, <3>1, <3>3 DEF Decision, Transitions, Ends
    <3>6. Decided' = [Decided EXCEPT ![m] = t]
      BY <1>1, <3>1, <3>5, DecisionMoves
    <3>7. Decides(m, t)
      BY <2>2, <2>3, <2>4, <3>4, <3>5, <3>6 DEF Decides
    <3> QED
      BY <3>5, <3>7 DEF ContractStep
  <2>6. CASE ~IdleAfterReport(pending, l)
    <3>1. pc'[m] = "links" /\ \A x \in Media \ {m} : pc'[x] = pc[x]
      BY <1>2, <1>4, <2>6 DEF EvaluationEnded
    <3>2. UNCHANGED Decided
      BY <1>1, <2>1, <3>1, DecisionStays DEF Decision, Transitions
    <3> QED
      BY <2>2, <2>3, <2>4, <3>2 DEF HoldsOrReleases, ContractStep
  <2> QED
    BY <2>5, <2>6
<1>5. CASE ObjectStarts(m)
  <2>1. /\ UNCHANGED <<Presenting, Holding, wholeContent, Reported>>
        /\ pc[m] = "links" /\ \A x \in Media \ {m} : pc'[x] = pc[x]
    BY <1>2, <1>5 DEF ObjectStarts, CallsObject, otherVars, childVars,
       wholeVars, Presenting, Holding, Reported
  <2>2. CASE pc'[m] = "insert"
    <3>1. UNCHANGED Decided
      BY <1>1, <2>1, <2>2, DecisionStays DEF Decision, Transitions
    <3> QED
      BY <2>1, <3>1 DEF ContractStep
  <2>3. CASE pc'[m] # "insert"
    <3>1. pc'[m] = "parents" /\ Presenting = {}
      BY <1>2, <1>5, <2>3 DEF ObjectStarts, Opening, Presenting
    <3>2. Contract!Grounds("starts")
      BY <3>1 DEF Contract!Grounds, Presenting
    <3>3. Decision(pc[m]) = "none" /\ Decision(pc'[m]) = "starts"
      BY <2>1, <3>1 DEF Decision, Transitions
    <3>4. Decided' = [Decided EXCEPT ![m] = "starts"]
      BY <1>1, <2>1, <3>3, DecisionMoves
    <3>5. Decides(m, "starts") /\ "starts" \in Transitions
      BY <2>1, <3>2, <3>3, <3>4 DEF Decides, Transitions
    <3> QED
      BY <3>5 DEF ContractStep
  <2> QED
    BY <2>2, <2>3
<1>6. CASE StartWhole(m)
  <2>1. /\ pc[m] = "starts" /\ pc'[m] = "insert"
        /\ \A x \in Media \ {m} : pc'[x] = pc[x]
        /\ ChangeWhole("starts")
        /\ UNCHANGED <<childVars, pendingLinks, ending>>
    BY <1>2, <1>6 DEF StartWhole, otherVars
  <2> QED
    BY <1>1, <2>1, Carried DEF Decision, Transitions
<1>7. CASE InsertRunning(m)
  <2>1. /\ UNCHANGED <<Holding, wholeContent, Reported>>
        /\ Presenting' = Presenting \cup {m}
        /\ pc[m] = "insert" /\ pc'[m] = "return"
        /\ \A x \in Media \ {m} : pc'[x] = pc[x]
    BY <1>2, <1>7 DEF InsertRunning, wholeVars, Presenting, Holding, Reported
  <2>2. UNCHANGED Decided /\ Decision(pc[m]) = "none"
    BY <1>1, <2>1, DecisionStays DEF Decision, Transitions
  <2> QED
    BY <2>1, <2>2 DEF JoinsOrLeaves, ContractStep
<1>8. CASE ObjectStops(m)
  <2>1. /\ UNCHANGED <<Holding, wholeContent, Reported>>
        /\ pc[m] = "links" /\ pc'[m] = "test"
        /\ \A x \in Media \ {m} : pc'[x] = pc[x]
    BY <1>2, <1>8 DEF ObjectStops, CallsObject, otherVars, wholeVars, Holding,
       Reported
  <2>2. Presenting' = Presenting \/ Presenting' = Presenting \ {m}
    BY <1>8 DEF ObjectStops, Presenting
  <2>3. UNCHANGED Decided
    BY <1>1, <2>1, DecisionStays DEF Decision, Transitions
  <2> QED
    BY <2>1, <2>2, <2>3 DEF JoinsOrLeaves, ContractStep
<1>9. CASE TestAllDone(m)
  <2>1. /\ UNCHANGED <<Presenting, Holding, wholeContent, Reported>>
        /\ pc[m] = "test" /\ \A x \in Media \ {m} : pc'[x] = pc[x]
    BY <1>2, <1>9 DEF TestAllDone, otherVars, childVars, wholeVars, Presenting,
       Holding, Reported
  <2>2. CASE NothingLeft
    <3>1. pc'[m] = trans[m] /\ trans[m] \in Ends
      BY <1>1, <1>2, <1>9, <2>2 DEF TestAllDone, NothingLeft, Tracked, Finishing
    <3>2. Presenting = {} /\ Holding' = {}
      BY <2>1, <2>2 DEF NothingLeft, AllDone, Presenting, Holding
    <3>3. PICK t \in Ends : t = trans[m]
      BY <3>1
    <3>4. Contract!Grounds(t)
      BY <3>2 DEF Contract!Grounds, Presenting, Holding, Ends
    <3>5. Decision(pc[m]) = "none" /\ Decision(pc'[m]) = t /\ t \in Transitions
      BY <2>1, <3>1, <3>3 DEF Decision, Transitions, Ends
    <3>6. Decided' = [Decided EXCEPT ![m] = t]
      BY <1>1, <2>1, <3>5, DecisionMoves
    <3>7. Decides(m, t)
      BY <2>1, <3>4, <3>5, <3>6 DEF Decides
    <3> QED
      BY <3>5, <3>7 DEF ContractStep
  <2>3. CASE ~NothingLeft
    <3>1. pc'[m] = "return"
      BY <1>2, <1>9, <2>3 DEF TestAllDone, NothingLeft
    <3>2. UNCHANGED Decided
      BY <1>1, <2>1, <3>1, DecisionStays DEF Decision, Transitions
    <3> QED
      BY <2>1, <3>2 DEF ContractStep
  <2> QED
    BY <2>2, <2>3
<1>10. CASE EndWhole(m) \/ PauseWhole(m)
  <2>1. /\ pc[m] \in Transitions /\ pc'[m] \in {"unset", "return"}
        /\ \A x \in Media \ {m} : pc'[x] = pc[x]
        /\ ChangeWhole(pc[m])
        /\ UNCHANGED <<childVars, pendingLinks, ending>>
    BY <1>2, <1>10 DEF EndWhole, PauseWhole, Ends, Transitions, otherVars
  <2> QED
    BY <1>1, <2>1, Carried DEF Decision, Transitions
<1>11. CASE ObjectPauses(m) \/ ObjectResumes(m)
  <2>1. /\ m \in Presenting /\ UNCHANGED Presenting
    BY <1>1, <1>11 DEF ObjectPauses, ObjectResumes, CallsObject, Tracked,
       AtLinks, Presenting
  <2>2. /\ UNCHANGED <<Holding, wholeContent, Reported>>
        /\ pc[m] = "links" /\ pc'[m] \in {"pauses", "resumes", "return"}
        /\ \A x \in Media \ {m} : pc'[x] = pc[x]
    BY <1>2, <1>11 DEF ObjectPauses, ObjectResumes, CallsObject, otherVars,
       wholeVars, Holding, Reported
  <2>3. CASE pc'[m] = "return"
    <3>1. UNCHANGED Decided
      BY <1>1, <2>2, <2>3, DecisionStays DEF Decision, Transitions
    <3> QED
      BY <2>1, <2>2, <3>1 DEF ContractStep
  <2>4. CASE pc'[m] # "return"
    <3>1. PICK t \in {"pauses", "resumes"} : t = pc'[m]
      BY <2>2, <2>4
    <3>2. Contract!Grounds(t)
      BY <2>1 DEF Contract!Grounds, Presenting
    <3>3. Decision(pc[m]) = "none" /\ Decision(pc'[m]) = t /\ t \in Transitions
      BY <2>2, <3>1 DEF Decision, Transitions
    <3>4. Decided' = [Decided EXCEPT ![m] = t]
      BY <1>1, <2>2, <3>3, DecisionMoves
    <3>5. Decides(m, t)
      BY <2>1, <2>2, <3>2, <3>3, <3>4 DEF Decides
    <3> QED
      BY <3>3, <3>5 DEF ContractStep
  <2> QED
    BY <2>3, <2>4
<1>12. CASE SetParents(m) \/ UnsetParents(m)
  <2>1. /\ UNCHANGED <<Presenting, Holding, wholeContent, Reported>>
        /\ \A x \in Media \ {m} : pc'[x] = pc[x]
        /\ \/ pc[m] = "parents" /\ pc'[m] = "starts"
           \/ pc[m] = "unset" /\ pc'[m] \in {"return", "links"}
    BY <1>2, <1>12 DEF SetParents, UnsetParents, otherVars, childVars,
       Presenting, Holding, Reported
  <2>2. UNCHANGED Decided
    BY <1>1, <2>1, DecisionStays DEF Decision, Transitions
  <2> QED
    BY <2>1, <2>2 DEF ContractStep
<1>13. CASE ObjectRepeats(m) \/ Repeat(m) \/ Return(m)
  BY <1>1, <1>13, ApartSteps, ApartRefines
<1> QED
  BY <1>3, <1>4, <1>5, <1>6, <1>7, <1>8, <1>9, <1>10, <1>11, <1>12, <1>13
     DEF Listener

LEMMA StepRefines ==
  CoreInv /\ TrackInv /\ [Next]_vars => ContractStep
<1> SUFFICES ASSUME CoreInv, TrackInv, [Next]_vars PROVE ContractStep
  OBVIOUS
<1>1. TypeOK /\ CompositionTypeOK /\ ThreadTypeOK
  BY DEF CoreInv, TypeOK
<1>2. CASE \E m \in Media : Listener(m)
  BY <1>2, ListenersRefine
<1>3. ASSUME NEW l \in Links, LinkEvaluationFinished(l)
      PROVE  ContractStep
  <2> DEFINE pending == [pendingLinks EXCEPT ![l] = @ - 1]
             idle    == IdleAfterReport(pending, l)
  <2>1. /\ UNCHANGED <<changeVars, childVars, wholeVars>>
        /\ pendingLinks' = pending
    BY <1>3 DEF LinkEvaluationFinished
  <2>2. UNCHANGED <<Presenting, wholeContent, Decided>>
    BY <2>1 DEF changeVars, childVars, wholeVars, Presenting, Decided
  <2>3. CASE idle /\ ActionType[l] # "start"
    <3>1. PICK t \in Ends : t = lastTransition
      BY <1>1 DEF CompositionTypeOK
    <3>2. ending' = [ending EXCEPT ![t] = @ + 1]
      BY <1>3, <2>3, <3>1 DEF LinkEvaluationFinished
    <3>3. Reported' = [Reported EXCEPT ![t] = @ + 1]
      BY <1>1, <3>2 DEF Reported, CompositionTypeOK, EndSteps
    <3>4. Presenting = {} /\ Holding' = {} /\ pendingLinks'[l] = 0
      BY <2>1, <2>3 DEF IdleAfterReport, AllDone, Presenting, Holding
    <3>5. Contract!Grounds(t)
      BY <3>4 DEF Contract!Grounds, Presenting, Holding, Ends
    <3>6. Holding' = Holding \ {l}
      BY <1>1, <2>1, <3>4, OneLess
    <3> QED
      BY <2>2, <3>3, <3>5, <3>6 DEF Reports, ContractStep
  <2>4. CASE ~(idle /\ ActionType[l] # "start")
    <3>1. UNCHANGED Reported
      BY <1>3, <2>4 DEF LinkEvaluationFinished, Reported
    <3>2. Holding' = Holding \/ Holding' = Holding \ {l}
      BY <1>1, <2>1, OneLess
    <3> QED
      BY <2>2, <3>1, <3>2 DEF HoldsOrReleases, ContractStep
  <2> QED
    BY <2>3, <2>4
<1>4. ASSUME NEW t \in Ends, EndByLink(t)
      PROVE  ContractStep
  <2>1. /\ UNCHANGED <<changeVars, childVars, pendingLinks>>
        /\ ending[t] > 0
        /\ ending' = [ending EXCEPT ![t] = @ - 1, !["unset"] = @ + 1]
        /\ ChangeWhole(t)
    BY <1>4 DEF EndByLink
  <2>2. UNCHANGED <<Presenting, Holding, Decided>>
    BY <2>1 DEF changeVars, childVars, Presenting, Holding, Decided
  <2>3. Reported[t] > 0 /\ Reported' = [Reported EXCEPT ![t] = @ - 1]
    BY <1>1, <2>1 DEF Reported, CompositionTypeOK, EndSteps, Ends
  <2>4. Contract!Take(t)
    BY <2>1 DEF ChangeWhole, Contract!Take, Accepts, Settled, NewState,
       Contract!Accepts, Contract!Settled, Contract!NewState
  <2> QED
    BY <2>2, <2>3, <2>4 DEF CarriesOutReport, ContractStep
<1>5. CASE UnsetByLink
  BY <1>1, <1>5 DEF UnsetByLink, ContractStep, changeVars, childVars,
     Presenting, Holding, Decided, Reported, CompositionTypeOK, EndSteps, Ends
<1>6. CASE Apart
  BY <1>6, ApartRefines
<1> QED
  BY <1>1, <1>2, <1>3, <1>4, <1>5, <1>6, ApartSteps
     DEF Next, LinkThread, EndingThread, Ends

(* The bookkeeping of CompositeExecutionObject implements the contract,    *)
(* however its handlers interleave: whatever wholeContent does has been    *)
(* decided on before, on the grounds the contract names, and is done once. *)
THEOREM Implements == Spec => ImplementsContract
<1>1. Init => Contract!Init
  BY DEF Init, Contract!Init, Ends, EndSteps, Transitions
<1>2. CoreInv /\ TrackInv /\ [Next]_vars => [Contract!Next]_Contract!vars
  BY StepRefines, ContractSteps
<1> QED
  BY <1>1, <1>2, CoreInvariant, TrackInvariant, PTL
     DEF Spec, ImplementsContract, Contract!Spec
=============================================================================
