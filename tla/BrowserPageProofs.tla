---------------------------- MODULE BrowserPageProofs ----------------------------
(***************************************************************************)
(* Proofs about BrowserPage, part by part: each part has an invariant of   *)
(* its own variables, which the steps of the others leave alone.           *)
(***************************************************************************)
EXTENDS BrowserPage, FiniteSetTheorems, SequenceTheorems, TLAPS

\* A step of the page is a step of one part and leaves the others alone.
LEMMA PartsStep ==
  ASSUME [Next]_pageVars
  PROVE  /\ [NextScripts /\ page \in CeremonyPages]_scriptVars
         /\ [NextToasts]_toastVars
         /\ [NextInstant]_instantVars
         /\ [NextTimer]_timerVars
         /\ [NextButtons]_buttonVars
         /\ [NextInput]_inputVars
BY DEF Next, pageVars
--------------------------------------------------------------------------------
(* The timer. *)

TimerNumbers ==
  /\ remaining \in Int /\ given \in 0..MaxGiven
  /\ started \in 0..MaxClock /\ clock \in 0..MaxClock /\ ran \in 0..MaxClock
  /\ alarm \in Int

\* A timer that runs calls back when what remains has passed since it was started.
AlarmInv ==
  /\ ~running => alarm = -1
  /\ running /\ ~closed => alarm = started + IF remaining < 0 THEN 0 ELSE remaining
  /\ started <= clock /\ ran <= clock

TimerInv == TimerNumbers /\ AlarmInv /\ TimerIsExact

LEMMA TimerBegins == ASSUME InitTimer PROVE TimerInv /\ TimerTypeOK
<1>1. TimerInv
  BY TimerAssumption DEF InitTimer, TimerInv, TimerNumbers, AlarmInv, TimerIsExact, Left
<1>2. running \in BOOLEAN /\ closed \in BOOLEAN
  BY Zenon DEF InitTimer
<1> QED
  BY <1>1, <1>2 DEF TimerInv, TimerNumbers, TimerTypeOK

LEMMA TimerKept ==
  ASSUME TimerInv, [NextTimer]_timerVars
  PROVE  TimerInv'
<1> USE TimerAssumption
<1> USE DEF TimerInv, TimerNumbers, AlarmInv, TimerIsExact, Left, Alarm
<1>1. ASSUME Start, ~closed, UNCHANGED <<closed, clock, ran>> PROVE TimerInv'
  BY <1>1 DEF Start
<1>2. ASSUME Stop, ~closed, UNCHANGED <<closed, clock, ran>> PROVE TimerInv'
  BY <1>2 DEF Stop
<1>3. ASSUME GetTimerLeft, ~closed, UNCHANGED <<closed, clock, ran>> PROVE TimerInv'
  BY <1>3 DEF GetTimerLeft
<1>4. ASSUME NEW n \in Increases, Increase(n), ~closed, UNCHANGED <<closed, clock, ran>>
      PROVE  TimerInv'
  <2>1. n \in Nat /\ given' = given + n /\ given' <= MaxGiven /\ given' \in Nat
    BY <1>4 DEF Increase
  <2>2. CASE running
    BY <1>4, <2>1, <2>2 DEF Increase, RestartedLeft
  <2>3. CASE ~running
    BY <1>4, <2>1, <2>3 DEF Increase
  <2> QED
    BY <2>2, <2>3
<1>5. ASSUME Callback PROVE TimerInv'
  BY <1>5 DEF Callback
<1>6. ASSUME Tick PROVE TimerInv'
  <2>1. TimerNumbers' /\ AlarmInv'
    BY <1>6 DEF Tick
  <2>2. TimerIsExact'
    <3>1. CASE running
      BY <1>6, <3>1 DEF Tick
    <3>2. CASE ~running
      BY <1>6, <3>2 DEF Tick
    <3> QED
      BY <3>1, <3>2
  <2> QED
    BY <2>1, <2>2
<1>7. ASSUME UNCHANGED timerVars PROVE TimerInv'
  BY <1>7 DEF timerVars
<1> QED
  BY <1>1, <1>2, <1>3, <1>4, <1>5, <1>6, <1>7 DEF NextTimer, PageUsesTimer

LEMMA TimerTypes ==
  ASSUME TimerInv', TimerTypeOK, [NextTimer]_timerVars
  PROVE  TimerTypeOK'
<1>1. running' \in BOOLEAN /\ closed' \in BOOLEAN
  BY Zenon DEF TimerTypeOK, NextTimer, timerVars, PageUsesTimer, Start, Stop, GetTimerLeft,
               Increase, Callback, Tick
<1> QED
  BY <1>1 DEF TimerTypeOK, TimerInv, TimerNumbers

\* However the timer of a dialog is paused, resumed, prolonged and read, it counts down
\* exactly what it was given, and never closes the dialog early.
THEOREM TimerAlwaysExact == Spec => []TimerIsExact
<1>1. Init => TimerInv
  BY TimerBegins DEF Init
<1>2. TimerInv /\ [Next]_pageVars => TimerInv'
  BY TimerKept, PartsStep
<1>3. TimerInv => TimerIsExact
  BY DEF TimerInv
<1> QED
  BY <1>1, <1>2, <1>3, PTL DEF Spec
--------------------------------------------------------------------------------
(* Prefetching. *)

\* A timer runs for the link under the mouse; what is prefetched is under the mouse or the
\* finger, and the listener that drops it is there.
PointedInv ==
  /\ mouseoverTimer # NoLink =>
       /\ over = mouseoverTimer /\ over \in onMouseout /\ urlToPreload = over
       /\ finger = NoLink /\ prefetched = NoLink
  /\ prefetched # NoLink =>
       /\ urlToPreload = prefetched
       /\ \/ finger = prefetched /\ finger \in onTouchend
          \/ over = prefetched /\ over \in onMouseout

InstantInv == InstantTypeOK /\ PointedInv

LEMMA InstantBegins == ASSUME InitInstant PROVE InstantInv
BY InstantAssumption DEF InitInstant, InstantInv, InstantTypeOK, PointedInv, SomeLink

LEMMA InstantKept ==
  ASSUME InstantInv, [NextInstant]_instantVars
  PROVE  InstantInv'
<1> USE InstantAssumption
<1> USE DEF InstantInv, InstantTypeOK, PointedInv, SomeLink, IsPreloadable, Dropped
<1>1. ASSUME NEW l \in Links, TouchStart(l) PROVE InstantInv'
  BY <1>1 DEF TouchStart
<1>2. ASSUME NEW l \in Links, LinkMouseOver(l) PROVE InstantInv'
  BY <1>2 DEF LinkMouseOver, Hover, Listening
<1>3. ASSUME NEW l \in Links, TimerEnds(l) PROVE InstantInv'
  BY <1>3 DEF TimerEnds
<1>4. ASSUME TouchEnd PROVE InstantInv'
  BY <1>4 DEF TouchEnd
<1>5. ASSUME MouseMoves PROVE InstantInv'
  BY <1>5 DEF MouseMoves, Hover, Listening
<1>6. ASSUME MouseOut PROVE InstantInv'
  BY <1>6 DEF MouseOut
<1>7. ASSUME TouchForgotten PROVE InstantInv'
  BY <1>7 DEF TouchForgotten
<1>8. ASSUME UNCHANGED instantVars PROVE InstantInv'
  BY <1>8 DEF instantVars
<1> QED
  BY <1>1, <1>2, <1>3, <1>4, <1>5, <1>6, <1>7, <1>8 DEF NextInstant

\* In whatever order touches, made-up mouse events and timers come, nothing is prefetched
\* when neither the mouse nor a finger is on a link.
THEOREM NothingIsPrefetchedIdly == Spec => []NothingPrefetchedIdly
<1>1. Init => InstantInv
  BY InstantBegins DEF Init
<1>2. InstantInv /\ [Next]_pageVars => InstantInv'
  BY InstantKept, PartsStep
<1>3. InstantInv => NothingPrefetchedIdly
  BY InstantAssumption
     DEF InstantInv, InstantTypeOK, PointedInv, NothingPrefetchedIdly, SomeLink
<1> QED
  BY <1>1, <1>2, <1>3, PTL DEF Spec
--------------------------------------------------------------------------------
(* The buttons of a dialog and its focus. *)

\* A button of the dialog that is not displayed is the one that the loader stands for, or one
\* whose loader went over to another; and the container is there as long as it has buttons.
LoaderInv ==
  /\ rendered \subseteq ControlSet
  /\ displayed \subseteq ControlSet
  /\ toReplace \in Actions \cup {"none"}
  /\ overtaken \subseteq Actions
  /\ toReplace = "none" => overtaken = {}
  /\ \A b \in rendered \cap Actions :
       actionsShown /\ (b \in displayed \cup overtaken \/ (loading /\ b = toReplace))

FocusInv == keyFocus \in ControlSet \cup {"popup", "page"}

ButtonInv == LoaderInv /\ FocusInv

LEMMA ControlFacts ==
  /\ Len(Controls) = 5
  /\ ControlSet = {"close", "input", "confirm", "deny", "cancel"}
  /\ \A i \in 1..5 : Controls[i] \in ControlSet
  /\ \A c \in ControlSet : \E i \in 1..5 : Controls[i] = c
BY DEF Controls, ControlSet

\* A list of positions that is not empty has a first and a last one.
LEMMA NearestIsThere ==
  ASSUME NEW positions \in SUBSET (1..5), positions # {}, NEW increment \in {1, -1}
  PROVE  Nearest(positions, increment) \in positions
<1>1. 1 \in positions \/ 2 \in positions \/ 3 \in positions \/ 4 \in positions \/ 5 \in positions
  <2>1. PICK p \in positions : TRUE
    OBVIOUS
  <2>2. p = 1 \/ p = 2 \/ p = 3 \/ p = 4 \/ p = 5
    BY <2>1
  <2> QED
    BY <2>1, <2>2
<1>2. \E i \in positions : \A j \in positions : i <= j
  <2>1. \A j \in positions : j = 1 \/ j = 2 \/ j = 3 \/ j = 4 \/ j = 5
    OBVIOUS
  <2> QED
    BY <1>1, <2>1
<1>3. \E i \in positions : \A j \in positions : i >= j
  <2>1. \A j \in positions : j = 1 \/ j = 2 \/ j = 3 \/ j = 4 \/ j = 5
    OBVIOUS
  <2> QED
    BY <1>1, <2>1
<1> QED
  BY <1>2, <1>3 DEF Nearest

LEMMA SetFocusStays ==
  ASSUME NEW from \in 0..5, NEW increment \in {1, -1}
  PROVE  /\ SetFocus(from, increment) \in ControlSet \cup {"popup", "page"}
         /\ from # 0 \/ increment = 1 => SetFocus(from, increment) # "page"
<1> DEFINE ahead == Ahead(from, increment)
           reached == IF ahead = {} THEN FocusableElements ELSE ahead
<1>1. FocusableElements \in SUBSET (1..5) /\ ahead \in SUBSET FocusableElements
  BY ControlFacts DEF FocusableElements, Ahead
<1>2. FocusableElements # {} => Controls[Nearest(reached, increment)] \in ControlSet
  <2>1. FocusableElements # {} => reached \in SUBSET (1..5) /\ reached # {}
    BY <1>1
  <2>2. FocusableElements # {} => Nearest(reached, increment) \in reached
    BY <2>1, NearestIsThere
  <2> QED
    BY <2>1, <2>2, ControlFacts
<1>3. "page" \notin ControlSet
  BY ControlFacts
<1> QED
  BY <1>2, <1>3 DEF SetFocus

LEMMA IndexIsPosition ==
  /\ IndexOf(keyFocus) \in 0..5
  /\ keyFocus \in ControlSet /\ Usable(keyFocus) => IndexOf(keyFocus) # 0
<1>1. FocusableElements \in SUBSET (1..5)
  BY ControlFacts DEF FocusableElements
<1>2. keyFocus \in ControlSet /\ Usable(keyFocus) =>
        \E i \in FocusableElements : Controls[i] = keyFocus
  BY ControlFacts DEF FocusableElements
<1> QED
  BY <1>1, <1>2 DEF IndexOf

LEMMA ButtonsBegin == ASSUME InitButtons PROVE ButtonInv /\ ButtonsTypeOK
<1>1. LoaderInv
  BY ControlFacts DEF InitButtons, LoaderInv, Actions
<1>2. FocusInv
  <2>1. Preferred \in ControlSet \cup {"none"}
    BY ButtonsAssumption, ControlFacts DEF Actions
  <2>2. IsVisible(Preferred) => Preferred \in ControlSet
    BY <1>1, <2>1 DEF IsVisible, VisibleOf, LoaderInv
  <2> QED
    BY <2>2, SetFocusStays DEF InitButtons, FocusInv
<1>3. /\ actionsShown \in BOOLEAN /\ disabled \in BOOLEAN
      /\ awaited \in BOOLEAN /\ loading \in BOOLEAN
  BY Zenon DEF InitButtons
<1> QED
  BY <1>1, <1>2, <1>3 DEF ButtonInv, LoaderInv, FocusInv, ButtonsTypeOK

\* The loader goes, and the button it stands for is displayed: none is missing but those
\* whose loader went over to another.
LEMMA LoaderGoesKept ==
  ASSUME LoaderInv, LoaderGoes, displayed' \subseteq ControlSet,
         displayed \cup ({toReplace} \ {"none"}) \subseteq displayed'
  PROVE  LoaderInv'
<1>1. /\ rendered' = rendered /\ toReplace' = toReplace
      /\ overtaken' = overtaken \ {toReplace}
      /\ actionsShown' = (actionsShown /\ (toReplace # "none" \/ \E b \in Actions : IsVisible(b)))
  BY DEF LoaderGoes
<1>2. ASSUME NEW b \in rendered' \cap Actions
      PROVE  actionsShown' /\ b \in displayed' \cup overtaken'
  <2>1. b \in rendered \cap Actions /\ b # "none"
    BY <1>1, <1>2 DEF Actions
  <2>2. actionsShown /\ (b \in displayed \cup overtaken \/ b = toReplace)
    BY <2>1 DEF LoaderInv
  <2>3. CASE toReplace = "none"
    <3>1. b \in displayed
      BY <2>1, <2>2, <2>3 DEF LoaderInv
    <3>2. IsVisible(b)
      BY <2>2, <3>1 DEF IsVisible, VisibleOf
    <3> QED
      BY <1>1, <2>1, <2>2, <3>1, <3>2
  <2>4. CASE toReplace # "none"
    BY <1>1, <2>2, <2>4
  <2> QED
    BY <2>3, <2>4
<1> QED
  BY <1>1, <1>2 DEF LoaderInv

LEMMA LoaderShownKept ==
  ASSUME LoaderInv, NEW b \in Actions \cup {"none"}, ShowLoadingFor(b)
  PROVE  LoaderInv'
<1> DEFINE r == ReplacedBy(b)
<1>1. /\ displayed' = displayed \ {r} /\ actionsShown' = TRUE /\ loading' = TRUE
      /\ toReplace' = (IF r = "none" THEN toReplace ELSE r)
      /\ overtaken' = (IF loading /\ r # "none"
                       THEN (overtaken \cup {toReplace}) \ (displayed \cup {r, "none"})
                       ELSE overtaken)
      /\ rendered' = rendered
  BY DEF ShowLoadingFor, NextToReplace
<1>2. r \in Actions \cup {"none"}
  BY DEF ReplacedBy, Actions
<1> HIDE DEF r
<1>3. /\ toReplace' \in Actions \cup {"none"} /\ displayed' \subseteq ControlSet
      /\ overtaken' \subseteq Actions /\ (toReplace' = "none" => overtaken' = {})
  BY <1>1, <1>2 DEF LoaderInv
<1>4. ASSUME NEW c \in rendered' \cap Actions
      PROVE  c \in displayed' \cup overtaken' \/ c = toReplace'
  <2>1. c \in displayed \cup overtaken \/ (loading /\ c = toReplace)
    BY <1>1, <1>4 DEF LoaderInv
  <2>2. c # "none"
    BY <1>4 DEF Actions
  <2>3. CASE r = "none"
    BY <1>1, <2>1, <2>2, <2>3
  <2>4. CASE r # "none"
    BY <1>1, <2>1, <2>2, <2>4
  <2> QED
    BY <2>3, <2>4
<1> QED
  BY <1>1, <1>3, <1>4 DEF LoaderInv

LEMMA LoaderKept ==
  ASSUME ButtonInv, [NextButtons]_buttonVars
  PROVE  LoaderInv'
<1>1. LoaderInv
  BY DEF ButtonInv
<1>2. ASSUME NEW to, FocusMoves(to) PROVE LoaderInv'
  BY <1>1, <1>2 DEF LoaderInv, FocusMoves
<1>3. ASSUME NEW i \in {1, -1}, Tab(i) \/ Arrow(i) PROVE LoaderInv'
  BY <1>2, <1>3 DEF Tab, Arrow
<1>4. ASSUME NEW x \in ControlSet \cup {"popup"}, PointAt(x) PROVE LoaderInv'
  BY <1>2, <1>4 DEF PointAt
<1>5. ASSUME NEW b \in Actions \cup {"none"}, ShowLoadingFor(b) PROVE LoaderInv'
  BY <1>1, <1>5, LoaderShownKept
<1>6. toReplace \in ControlSet \cup {"none"} /\ "input" \in ControlSet
  BY <1>1, ControlFacts DEF LoaderInv, Actions
<1>7. ASSUME HideLoading PROVE LoaderInv'
  BY <1>1, <1>6, <1>7, LoaderGoesKept DEF HideLoading, LoaderInv
<1>8. ASSUME InputArrives PROVE LoaderInv'
  BY <1>1, <1>6, <1>8, LoaderGoesKept DEF InputArrives, LoaderInv
<1>9. ASSUME NEW d \in BOOLEAN, Disable(d) PROVE LoaderInv'
  BY <1>1, <1>9 DEF LoaderInv, Disable
<1>10. ASSUME NEW controls \in SUBSET ControlSet, Update(controls) PROVE LoaderInv'
  <2>1. /\ rendered' = controls /\ overtaken' = {} /\ toReplace' = toReplace
        /\ displayed' = (controls \ {"input"}) \cup (displayed \cap {"input"})
        /\ actionsShown' = (controls \cap Actions # {})
    BY <1>10 DEF Update
  <2>2. "input" \notin Actions
    BY DEF Actions
  <2> QED
    BY <1>1, <2>1, <2>2 DEF LoaderInv
<1>11. ASSUME UNCHANGED buttonVars PROVE LoaderInv'
  BY <1>1, <1>11 DEF LoaderInv, buttonVars
<1> QED
  BY <1>3, <1>4, <1>5, <1>7, <1>8, <1>9, <1>10, <1>11 DEF NextButtons

LEMMA FocusKept ==
  ASSUME ButtonInv, [NextButtons]_buttonVars
  PROVE  FocusInv' /\ [KeptStep]_buttonVars
<1>1. "page" \notin ControlSet /\ "popup" \notin ControlSet
  BY ControlFacts
<1>2. /\ FocusInv /\ displayed \subseteq ControlSet
      /\ \A c \in ControlSet : Usable(c)' <=> c \in UsableOf(displayed', actionsShown', disabled')
  BY DEF ButtonInv, LoaderInv, Usable
<1>3. ASSUME keyFocus' = Refocused(UsableOf(displayed', actionsShown', disabled'))
      PROVE  FocusInv' /\ KeptStep
  BY <1>1, <1>2, <1>3 DEF Refocused, FocusInv, KeptStep
<1>4. ASSUME keyFocus' \in ControlSet \cup {"popup", keyFocus}
      PROVE  FocusInv' /\ KeptStep
  BY <1>1, <1>2, <1>4 DEF FocusInv, KeptStep
<1>5. ASSUME NEW i \in {1, -1}, Tab(i) PROVE FocusInv' /\ KeptStep
  BY <1>1, <1>5, IndexIsPosition, SetFocusStays DEF Tab, FocusMoves, FocusInv, KeptStep
<1>6. ASSUME NEW i \in {1, -1}, Arrow(i) PROVE FocusInv' /\ KeptStep
  BY <1>4, <1>6, ControlFacts DEF Arrow, Actions, FocusMoves
<1>7. ASSUME NEW x \in ControlSet \cup {"popup"}, PointAt(x) PROVE FocusInv' /\ KeptStep
  BY <1>4, <1>7 DEF PointAt, FocusMoves
<1>8. ASSUME NEW b \in Actions \cup {"none"}, ShowLoadingFor(b)
      PROVE  FocusInv' /\ KeptStep
  BY <1>4, <1>8 DEF ShowLoadingFor
<1>9. ASSUME HideLoading PROVE FocusInv' /\ KeptStep
  BY <1>4, <1>9 DEF HideLoading
<1>10. ASSUME InputArrives PROVE FocusInv' /\ KeptStep
  BY <1>4, <1>10, ControlFacts DEF InputArrives
<1>11. ASSUME NEW d \in BOOLEAN, Disable(d) PROVE FocusInv' /\ KeptStep
  <2>1. keyFocus' = keyFocus \/ keyFocus' = Refocused(UsableOf(displayed', actionsShown', disabled'))
    BY <1>11 DEF Disable
  <2> QED
    BY <1>3, <1>4, <2>1
<1>12. ASSUME NEW controls \in SUBSET ControlSet, Update(controls) PROVE FocusInv' /\ KeptStep
  BY <1>3, <1>12 DEF Update
<1>13. ASSUME UNCHANGED buttonVars PROVE FocusInv'
  BY <1>2, <1>13 DEF buttonVars, FocusInv
<1> QED
  BY <1>5, <1>6, <1>7, <1>8, <1>9, <1>10, <1>11, <1>12, <1>13 DEF NextButtons

LEMMA ButtonTypes ==
  ASSUME ButtonInv', ButtonsTypeOK, [NextButtons]_buttonVars
  PROVE  ButtonsTypeOK'
<1>1. /\ actionsShown' \in BOOLEAN /\ disabled' \in BOOLEAN
      /\ awaited' \in BOOLEAN /\ loading' \in BOOLEAN
  BY Zenon DEF ButtonsTypeOK, NextButtons, buttonVars, Tab, Arrow, PointAt, FocusMoves,
               ShowLoadingFor, HideLoading, InputArrives, LoaderGoes, Disable, Update
<1> QED
  BY <1>1 DEF ButtonsTypeOK, ButtonInv, LoaderInv, FocusInv

LEMMA ButtonsKept == ASSUME ButtonInv, [Next]_pageVars PROVE ButtonInv'
BY PartsStep, LoaderKept, FocusKept DEF ButtonInv

\* Without a loader every button of the dialog is there, unless its loader went over to
\* another button, through any updates, late options and loaders of buttons it does not have.
THEOREM LoaderAlwaysGivesBack == Spec => []LoaderGivesBack
<1>1. Init => ButtonInv
  BY ButtonsBegin DEF Init
<1>2. ButtonInv /\ [Next]_pageVars => ButtonInv'
  BY ButtonsKept
<1>3. ButtonInv => LoaderGivesBack
  BY DEF ButtonInv, LoaderInv, LoaderGivesBack, IsVisible, VisibleOf
<1> QED
  BY <1>1, <1>2, <1>3, PTL DEF Spec

\* No key takes the focus from a control of the dialog to the page behind it.
THEOREM FocusIsAlwaysTrapped == Spec => FocusIsTrapped
<1>1. Init => ButtonInv
  BY ButtonsBegin DEF Init
<1>2. ButtonInv /\ [Next]_pageVars => ButtonInv'
  BY ButtonsKept
<1>3. ButtonInv /\ [Next]_pageVars => [KeptStep]_buttonVars
  BY PartsStep, FocusKept
<1> QED
  BY <1>1, <1>2, <1>3, PTL DEF Spec, FocusIsTrapped
--------------------------------------------------------------------------------
(* The input of a dialog. *)

ChoiceInv ==
  /\ input \in {"select", "radio"}
  /\ input = "radio" => ~placeholder
  /\ checked \subseteq Positions \cup {0}
  /\ input = "radio" => 0 \notin checked
  /\ choice \in Positions \cup {0}
  /\ grouped \subseteq Positions

\* As long as no update took a radio button out of its group, one option is checked: the
\* one chosen last, or the one that was preselected.
CheckedInv ==
  /\ ~offered => choice = 0
  /\ offered /\ (input = "select" \/ ~updated) =>
       /\ choice # 0 => checked = {choice}
       /\ choice = 0 => checked = Preselected
       /\ input = "radio" => grouped = Positions

InputInv == ChoiceInv /\ CheckedInv

LEMMA PositionFacts == 0 \notin Positions /\ 1 \in Positions /\ Positions \subseteq Nat
<1>1. OptionValues \in Seq(STRING) /\ Len(OptionValues) > 0
  BY InputAssumption
<1>2. Len(OptionValues) \in Nat
  BY <1>1
<1> QED
  BY <1>1, <1>2 DEF Positions

\* What is preselected is what inputValue asks for, else what the browser shows.
LEMMA PreselectedIs ==
  ASSUME ChoiceInv
  PROVE  /\ Preselected \subseteq Positions \cup {0}
         /\ input = "radio" => 0 \notin Preselected
         /\ inputValue \in Values \ Falsy =>
              \E i \in Positions : Preselected = {i} /\ OptionValues[i] = inputValue
         /\ inputValue \notin Values \ Falsy =>
              Preselected = IF placeholder THEN {0} ELSE IF input = "select" THEN {1} ELSE {}
<1> DEFINE asked == {i \in Positions : IsSelected(i)}
<1>1. ASSUME inputValue \in Values \ Falsy
      PROVE  \E i \in Positions : asked = {i} /\ OptionValues[i] = inputValue
  <2>1. PICK i \in Positions : OptionValues[i] = inputValue
    BY <1>1 DEF Values
  <2>2. inputValue # ""
    BY <1>1, InputAssumption
  <2>3. \A j \in Positions : IsSelected(j) <=> j = i
    BY <1>1, <2>1, <2>2, InputAssumption DEF IsSelected
  <2> QED
    BY <2>1, <2>3
<1>2. ASSUME inputValue \notin Values \ Falsy PROVE asked = {}
  BY <1>2 DEF IsSelected, Values
<1>3. Preselected = IF asked # {} THEN asked
                    ELSE IF placeholder THEN {0} ELSE IF input = "select" THEN {1} ELSE {}
  BY DEF Preselected
<1>4. asked \subseteq Positions
  OBVIOUS
<1> HIDE DEF asked
<1> QED
  BY <1>1, <1>2, <1>3, <1>4, PositionFacts DEF ChoiceInv

LEMMA InputBegins == ASSUME InitInput PROVE InputInv
BY PositionFacts DEF InitInput, InputInv, ChoiceInv, CheckedInv

LEMMA InputKept ==
  ASSUME InputInv, [NextInput]_inputVars
  PROVE  InputInv'
<1>1. ASSUME PopulateInputOptions PROVE InputInv'
  <2>1. checked' = Preselected /\ choice' = 0 /\ choice = 0
    BY <1>1 DEF PopulateInputOptions, InputInv, CheckedInv
  <2>2. Preselected' = Preselected
    BY <1>1 DEF PopulateInputOptions, Preselected, IsSelected
  <2>3. ChoiceInv'
    BY <1>1, <2>1, PreselectedIs DEF PopulateInputOptions, InputInv, ChoiceInv
  <2>4. CheckedInv'
    BY <1>1, <2>1, <2>2 DEF PopulateInputOptions, CheckedInv
  <2> QED
    BY <2>3, <2>4 DEF InputInv
<1>2. ASSUME UpdateInput PROVE InputInv'
  <2>1. Preselected' = Preselected
    BY <1>2 DEF UpdateInput, Preselected, IsSelected
  <2>2. ChoiceInv'
    BY <1>2 DEF UpdateInput, InputInv, ChoiceInv
  <2>3. CheckedInv'
    <3>1. ASSUME offered', input' = "select" \/ ~updated' PROVE input = "select"
      BY <1>2, <3>1, Zenon DEF UpdateInput
    <3> QED
      BY <1>2, <2>1, <3>1 DEF UpdateInput, InputInv, ChoiceInv, CheckedInv
  <2> QED
    BY <2>2, <2>3 DEF InputInv
<1>3. ASSUME NEW i \in Positions, Choose(i) PROVE InputInv'
  <2>1. ChoiceInv'
    BY <1>3, PositionFacts DEF Choose, InputInv, ChoiceInv
  <2>2. offered' /\ (input' = "select" \/ ~updated') => checked' = {i}
    BY <1>3 DEF Choose, InputInv, ChoiceInv, CheckedInv
  <2>3. CheckedInv'
    BY <1>3, <2>2, PositionFacts DEF Choose, InputInv, CheckedInv
  <2> QED
    BY <2>1, <2>3 DEF InputInv
<1>4. ASSUME UNCHANGED inputVars PROVE InputInv'
  <2>1. Preselected' = Preselected
    BY <1>4 DEF inputVars, Preselected, IsSelected
  <2> QED
    BY <1>4, <2>1 DEF inputVars, InputInv, ChoiceInv, CheckedInv
<1> QED
  BY <1>1, <1>2, <1>3, <1>4 DEF NextInput

\* What Confirm reads when one option is checked, and when none is.
LEMMA OneIsRead ==
  ASSUME ChoiceInv, NEW i \in Positions, checked = {i}
  PROVE  GetInputValue = OptionValues[i]
<1>1. GetInput = i
  BY PositionFacts DEF GetInput
<1>2. (CHOOSE j \in checked : TRUE) = i /\ ~(checked \subseteq {0})
  BY PositionFacts
<1> QED
  BY <1>1, <1>2 DEF GetInputValue

LEMMA InputConfirms == ASSUME InputInv PROVE ConfirmsChoice
<1> SUFFICES ASSUME offered, input = "select" \/ ~updated PROVE GetInputValue = Expected
  BY DEF ConfirmsChoice
<1>1. CASE choice # 0
  BY <1>1, OneIsRead DEF InputInv, ChoiceInv, CheckedInv, Expected
<1>2. CASE choice = 0 /\ inputValue \in Values \ Falsy
  <2>1. PICK i \in Positions : Preselected = {i} /\ OptionValues[i] = inputValue
    BY <1>2, PreselectedIs DEF InputInv
  <2> QED
    BY <1>2, <2>1, OneIsRead DEF InputInv, CheckedInv, Expected
<1>3. CASE choice = 0 /\ inputValue \notin Values \ Falsy
  <2>1. checked = IF placeholder THEN {0} ELSE IF input = "select" THEN {1} ELSE {}
    BY <1>3, PreselectedIs DEF InputInv, CheckedInv
  <2>2. CASE input = "radio"
    <3>1. checked = {} /\ ~placeholder
      BY <2>1, <2>2 DEF InputInv, ChoiceInv
    <3> QED
      BY <1>3, <2>2, <3>1 DEF GetInputValue, Expected
  <2>3. CASE input = "select" /\ placeholder
    BY <1>3, <2>1, <2>3 DEF GetInputValue, Expected
  <2>4. CASE input = "select" /\ ~placeholder
    <3>1. checked = {1}
      BY <2>1, <2>4
    <3> QED
      BY <1>3, <2>4, <3>1, OneIsRead, PositionFacts DEF InputInv, Expected
  <2> QED
    BY <2>2, <2>3, <2>4 DEF InputInv, ChoiceInv
<1> QED
  BY <1>1, <1>2, <1>3

\* Confirm reads the user's last choice, whenever the options came, and before it what
\* inputValue asks for or what the browser shows.
THEOREM ChoiceAlwaysConfirmed == Spec => []ConfirmsChoice
<1>1. Init => InputInv
  BY InputBegins DEF Init
<1>2. InputInv /\ [Next]_pageVars => InputInv'
  BY InputKept, PartsStep
<1>3. InputInv => ConfirmsChoice
  BY InputConfirms
<1> QED
  BY <1>1, <1>2, <1>3, PTL DEF Spec
--------------------------------------------------------------------------------
(* The scripts of a page with a ceremony. *)

BoxRecords == [kind : BoxKinds, of : Submissions]

DialogStates == {"unfired", "open", "replaced", "confirmed", "dismissed"}

\* The pages that hold options before a submission hold some that can be converted.
HeldInv ==
  page = "add" => /\ options.challenge \in {"string", "ArrayBuffer"}
                  /\ \A s \in Submissions : phase[s] # "fetching"

ScriptsInv == ScriptsTypeOK /\ HeldInv /\ NoOrphanWaiting /\ LastWordIsOutcome

\* What Swal.fire does to the dialogs: the last box is open, and no other.
LEMMA FireShows ==
  ASSUME ScriptsTypeOK, NEW boxes \in Seq(BoxRecords), boxes # <<>>, Fire(boxes)
  PROVE  /\ fired' \in Seq(BoxRecords)
         /\ Len(fired') = Len(fired) + Len(boxes)
         /\ Len(fired') <= MaxDialogs
         /\ \A d \in 1..Len(fired) : fired'[d] = fired[d]
         /\ \A d \in 1..Len(boxes) : fired'[Len(fired) + d] = boxes[d]
         /\ dialog' \in [Ids -> DialogStates]
         /\ \A d \in Ids : /\ dialog'[d] = "unfired" <=> d > Len(fired')
                           /\ dialog'[d] = "open" => d = Len(fired')
<1>1. fired \in Seq(BoxRecords) /\ Len(fired) \in Nat /\ Len(boxes) \in Nat /\ Len(boxes) > 0
  BY DEF ScriptsTypeOK, BoxRecords
<1>2. fired' = fired \o boxes /\ Len(fired) + Len(boxes) <= MaxDialogs
  BY DEF Fire
<1>3. /\ fired' \in Seq(BoxRecords)
      /\ Len(fired') = Len(fired) + Len(boxes)
      /\ \A d \in 1..Len(fired) : fired'[d] = fired[d]
      /\ \A d \in 1..Len(boxes) : fired'[Len(fired) + d] = boxes[d]
  BY <1>1, <1>2
<1>4. ASSUME NEW d \in Ids
      PROVE  /\ dialog'[d] \in DialogStates
             /\ dialog'[d] = "unfired" <=> d > Len(fired')
             /\ dialog'[d] = "open" => d = Len(fired')
  <2>1. dialog'[d] = IF d <= Len(fired) THEN Replaced(d)
                     ELSE IF d < Len(fired) + Len(boxes) THEN "replaced"
                     ELSE IF d = Len(fired) + Len(boxes) THEN "open" ELSE "unfired"
    BY DEF Fire
  <2>2. /\ dialog[d] \in DialogStates
        /\ dialog[d] = "unfired" <=> d > Len(fired)
    BY DEF ScriptsTypeOK, DialogStates
  <2>3. /\ Replaced(d) \in DialogStates \ {"open"}
        /\ Replaced(d) = "unfired" <=> dialog[d] = "unfired"
    BY <2>2 DEF Replaced, DialogStates
  <2>4. d \in Nat
    BY DEF Ids
  <2>5. CASE d <= Len(fired)
    <3>1. dialog'[d] = Replaced(d) /\ dialog[d] # "unfired"
      BY <1>1, <2>1, <2>2, <2>4, <2>5
    <3>2. ~(d > Len(fired'))
      BY <1>1, <1>3, <2>4, <2>5
    <3> QED
      BY <2>3, <3>1, <3>2
  <2>6. CASE d > Len(fired)
    <3>1. dialog'[d] = IF d < Len(fired') THEN "replaced"
                       ELSE IF d = Len(fired') THEN "open" ELSE "unfired"
      BY <1>1, <1>3, <2>1, <2>4, <2>6
    <3>2. Len(fired') \in Nat
      BY <1>1, <1>3
    <3> QED
      BY <2>4, <3>1, <3>2 DEF DialogStates
  <2> QED
    BY <1>1, <2>4, <2>5, <2>6
<1>5. dialog' \in [Ids -> DialogStates]
  BY <1>4 DEF Fire
<1> QED
  BY <1>2, <1>3, <1>4, <1>5

\* A step of submission s that shows boxes of its own: the last of them is the word for the
\* phase that s is in by then.  Without a box, the word for s stays as it was.
Told(s, p, boxes) ==
  /\ Phase(s, p)
  /\ boxes = <<>> => UNCHANGED <<dialog, fired>>
  /\ boxes # <<>> => Fire(boxes)
  /\ \A i \in 1..Len(boxes) : boxes[i].of = s
  /\ p = "silent" => page \in {"login", "register"}
  /\ IF boxes # <<>>
     THEN boxes[Len(boxes)].kind = Word[p] /\ p \notin {"idle", "fetching", "silent"}
     ELSE /\ {p, phase[s]} \cap {"failed", "done"} = {}
          /\ phase[s] \in {"idle", "fetching"} \/ p \in {"ceremony", "verifying", "posted"}

LEMMA ToldTypes ==
  ASSUME ScriptsTypeOK, NEW s \in Submissions, NEW p \in Phases, NEW boxes \in Seq(BoxRecords),
         Told(s, p, boxes)
  PROVE  /\ phase' \in [Submissions -> Phases]
         /\ fired' \in Seq(BoxRecords)
         /\ dialog' \in [Ids -> DialogStates]
         /\ Len(fired') <= MaxDialogs
         /\ \A d \in Ids : /\ dialog'[d] = "unfired" <=> d > Len(fired')
                           /\ dialog'[d] = "open" => d = Len(fired')
<1>1. phase' \in [Submissions -> Phases]
  BY DEF Told, Phase, ScriptsTypeOK
<1>2. CASE boxes = <<>>
  BY <1>1, <1>2 DEF Told, ScriptsTypeOK, BoxRecords, DialogStates
<1>3. CASE boxes # <<>>
  BY <1>1, <1>3, FireShows DEF Told
<1> QED
  BY <1>2, <1>3

LEMMA ToldIsNotOrphaned ==
  ASSUME ScriptsTypeOK, NoOrphanWaiting, NEW s \in Submissions, NEW p \in Phases,
         NEW boxes \in Seq(BoxRecords), Told(s, p, boxes)
  PROVE  NoOrphanWaiting'
<1>1. phase' = [phase EXCEPT ![s] = p] /\ phase \in [Submissions -> Phases]
  BY DEF Told, Phase, ScriptsTypeOK
<1>2. SUFFICES ASSUME NEW d \in Ids, dialog'[d] = "open", fired'[d].kind = "waiting"
               PROVE  phase'[fired'[d].of] \in {"ceremony", "verifying", "posted"}
  BY DEF NoOrphanWaiting, OpenBox
<1>3. CASE boxes = <<>>
  <2>1. dialog[d] = "open" /\ fired[d].kind = "waiting" /\ fired'[d] = fired[d]
    BY <1>2, <1>3 DEF Told
  <2>2. phase[fired[d].of] \in {"ceremony", "verifying", "posted"}
    BY <2>1 DEF NoOrphanWaiting, OpenBox
  <2>3. fired[d].of \in Submissions
    <3>1. d = Len(fired) /\ d \in Nat /\ d > 0
      BY <2>1 DEF ScriptsTypeOK, Ids
    <3>2. fired \in Seq(BoxRecords)
      BY DEF ScriptsTypeOK, BoxRecords
    <3>3. fired[d] \in BoxRecords
      BY <3>1, <3>2
    <3> QED
      BY <3>3 DEF BoxRecords
  <2>4. phase[s] \in {"idle", "fetching"} \/ p \in {"ceremony", "verifying", "posted"}
    BY <1>3 DEF Told
  <2> QED
    BY <1>1, <2>1, <2>2, <2>3, <2>4
<1>4. CASE boxes # <<>>
  <2>1. d = Len(fired')
    BY <1>2, ToldTypes
  <2>2. Len(boxes) \in Nat /\ Len(boxes) > 0 /\ Len(fired) \in Nat
    BY <1>4 DEF ScriptsTypeOK
  <2>3. fired'[d] = boxes[Len(boxes)]
    <3>1. /\ Len(fired') = Len(fired) + Len(boxes)
          /\ \A i \in 1..Len(boxes) : fired'[Len(fired) + i] = boxes[i]
      BY <1>4, FireShows DEF Told
    <3> QED
      BY <2>1, <2>2, <3>1
  <2>4. /\ boxes[Len(boxes)].of = s /\ boxes[Len(boxes)].kind = Word[p]
        /\ p \notin {"idle", "fetching", "silent"}
    BY <1>4, <2>2 DEF Told
  <2>5. p \in {"ceremony", "verifying", "posted"}
    BY <1>2, <2>3, <2>4 DEF Word, Phases
  <2> QED
    BY <1>1, <2>3, <2>4, <2>5
<1> QED
  BY <1>3, <1>4

LEMMA ToldIsTheOutcome ==
  ASSUME ScriptsTypeOK, LastWordIsOutcome, NEW s \in Submissions, NEW p \in Phases,
         NEW boxes \in Seq(BoxRecords), Told(s, p, boxes), page' = page
  PROVE  LastWordIsOutcome'
<1>1. phase' = [phase EXCEPT ![s] = p] /\ phase \in [Submissions -> Phases]
  BY DEF Told, Phase, ScriptsTypeOK
<1>2. /\ fired \in Seq(BoxRecords) /\ fired' \in Seq(BoxRecords)
      /\ Len(fired) \in Nat /\ Len(fired') \in Nat /\ Len(boxes) \in Nat
      /\ DOMAIN fired = 1..Len(fired) /\ DOMAIN fired' = 1..Len(fired')
  <2>1. fired \in Seq(BoxRecords) /\ fired' \in Seq(BoxRecords)
    BY ToldTypes DEF ScriptsTypeOK, BoxRecords
  <2> QED
    BY <2>1
<1>3. ASSUME NEW t \in Submissions
      PROVE  /\ phase[t] = "silent" => page \in {"login", "register"}
             /\ phase[t] \in {"failed", "done"} => \E d \in DOMAIN fired : fired[d].of = t
             /\ \A d \in DOMAIN fired :
                  fired[d].of = t /\ (\A e \in DOMAIN fired : fired[e].of = t => e <= d) =>
                    fired[d].kind = Word[phase[t]]
  BY DEF LastWordIsOutcome
<1>4. SUFFICES ASSUME NEW t \in Submissions
      PROVE  /\ phase'[t] = "silent" => page \in {"login", "register"}
             /\ phase'[t] \in {"failed", "done"} => \E d \in DOMAIN fired' : fired'[d].of = t
             /\ \A d \in DOMAIN fired' :
                  fired'[d].of = t /\ (\A e \in DOMAIN fired' : fired'[e].of = t => e <= d) =>
                    fired'[d].kind = Word[phase'[t]]
  <2> SUFFICES ASSUME NEW t \in Submissions
               PROVE  LET mine == {d \in DOMAIN fired' : fired'[d].of = t}
                      IN /\ \A d \in mine : (\A e \in mine : e <= d) =>
                                              fired'[d].kind = Word[phase'[t]]
                         /\ phase'[t] \in {"failed", "done"} => mine # {}
                         /\ phase'[t] = "silent" => page \in {"login", "register"}
    BY Zenon DEF LastWordIsOutcome
  <2> QED
    OBVIOUS
<1>5. CASE boxes = <<>>
  <2>1. fired' = fired
    BY <1>5 DEF Told
  <2>2. CASE t = s
    <3>1. /\ {p, phase[s]} \cap {"failed", "done"} = {} /\ phase'[s] = p
          /\ p = "silent" => page \in {"login", "register"}
      BY <1>1, <1>5 DEF Told
    <3>2. Word[p] = "waiting" /\ Word[phase[s]] = "waiting"
      BY <1>1, <3>1 DEF Word
    <3> QED
      BY <1>3, <2>1, <2>2, <3>1, <3>2
  <2>3. CASE t # s
    BY <1>1, <1>3, <2>1, <2>3
  <2> QED
    BY <2>2, <2>3
<1>6. CASE boxes # <<>>
  <2>1. /\ Len(fired') = Len(fired) + Len(boxes) /\ Len(boxes) > 0
        /\ \A d \in 1..Len(fired) : fired'[d] = fired[d]
        /\ \A d \in 1..Len(boxes) : fired'[Len(fired) + d] = boxes[d] /\ boxes[d].of = s
    <3>1. Fire(boxes) /\ (\A d \in 1..Len(boxes) : boxes[d].of = s) /\ Len(boxes) > 0
      BY <1>2, <1>6 DEF Told
    <3> QED
      BY <1>6, <3>1, FireShows
  <2>2. \A d \in DOMAIN fired' : d \in Nat /\ (d <= Len(fired) \/ d - Len(fired) \in 1..Len(boxes))
    BY <1>2, <2>1
  <2>3. \A d \in DOMAIN fired' :
          (d <= Len(fired) /\ d \in DOMAIN fired /\ fired'[d] = fired[d])
          \/ fired'[d].of = s
    <3> TAKE d \in DOMAIN fired'
    <3>1. CASE d <= Len(fired)
      BY <1>2, <2>1, <3>1
    <3>2. CASE d > Len(fired)
      <4>1. d - Len(fired) \in 1..Len(boxes) /\ Len(fired) + (d - Len(fired)) = d
        BY <1>2, <2>2, <3>2
      <4> QED
        BY <2>1, <4>1
    <3> QED
      BY <1>2, <2>2, <3>1, <3>2
  <2>4. CASE t = s
    <3>1. /\ Len(fired') \in DOMAIN fired' /\ fired'[Len(fired')].of = s
          /\ fired'[Len(fired')] = boxes[Len(boxes)]
      BY <1>2, <2>1
    <3>2. /\ boxes[Len(boxes)].kind = Word[p] /\ phase'[s] = p
          /\ p = "silent" => page \in {"login", "register"}
      BY <1>1, <1>6 DEF Told
    <3>3. \A d \in DOMAIN fired' : Len(fired') <= d => d = Len(fired')
      BY <1>2
    <3> QED
      BY <2>4, <3>1, <3>2, <3>3
  <2>5. CASE t # s
    <3>1. phase'[t] = phase[t]
      BY <1>1, <2>5
    <3>2. /\ \A d \in DOMAIN fired' : fired'[d].of = t => d \in DOMAIN fired /\ fired'[d] = fired[d]
          /\ \A d \in DOMAIN fired : d \in DOMAIN fired' /\ fired'[d] = fired[d]
      BY <1>2, <2>1, <2>3, <2>5
    <3> QED
      BY <1>3, <3>1, <3>2
  <2> QED
    BY <2>4, <2>5
<1> QED
  BY <1>5, <1>6

LEMMA ToldKept ==
  ASSUME ScriptsInv, NEW s \in Submissions, NEW p \in Phases, NEW boxes \in Seq(BoxRecords),
         Told(s, p, boxes), page' = page,
         options' \in HeldOptions, refused' \subseteq Submissions,
         form' \in Seq(Inputs), sent' \in Seq(Inputs), left' = left,
         page = "add" => options'.challenge \in {"string", "ArrayBuffer"} /\ p # "fetching"
  PROVE  ScriptsInv'
<1>1. ScriptsTypeOK /\ HeldInv /\ NoOrphanWaiting /\ LastWordIsOutcome
  BY DEF ScriptsInv
<1>2. NoOrphanWaiting' /\ LastWordIsOutcome'
  BY <1>1, ToldIsNotOrphaned, ToldIsTheOutcome
<1>3. ScriptsTypeOK'
  <2>1. left' \in BOOLEAN
    BY <1>1, Zenon DEF ScriptsTypeOK
  <2> QED
    BY <1>1, <2>1, ToldTypes DEF ScriptsTypeOK, BoxRecords, DialogStates
<1>4. HeldInv'
  <2>1. phase' = [phase EXCEPT ![s] = p] /\ phase \in [Submissions -> Phases]
    BY <1>1 DEF Told, Phase, ScriptsTypeOK
  <2>2. page = "add" => \A t \in Submissions : phase[t] # "fetching"
    BY <1>1 DEF HeldInv
  <2> QED
    BY <2>1, <2>2 DEF HeldInv
<1> QED
  BY <1>2, <1>3, <1>4 DEF ScriptsInv

\* One or two boxes of a kind and a submission, as the scripts fire them.
LEMMA BoxFacts ==
  ASSUME NEW kind \in BoxKinds, NEW s \in Submissions
  PROVE  /\ <<Box(kind, s)>> \in Seq(BoxRecords) /\ <<Box(kind, s)>> # <<>>
         /\ Len(<<Box(kind, s)>>) = 1
         /\ <<Box(kind, s)>>[1] = Box(kind, s)
         /\ <<Box(kind, s), Box(kind, s)>> \in Seq(BoxRecords)
         /\ <<Box(kind, s), Box(kind, s)>> # <<>>
         /\ Len(<<Box(kind, s), Box(kind, s)>>) = 2
         /\ \A i \in 1..2 : <<Box(kind, s), Box(kind, s)>>[i] = Box(kind, s)
         /\ Box(kind, s).of = s /\ Box(kind, s).kind = kind
<1>1. Box(kind, s) \in BoxRecords /\ Box(kind, s).of = s /\ Box(kind, s).kind = kind
  BY DEF Box, BoxRecords
<1> QED
  BY <1>1

\* A submission that ends with boxes of one kind.
LEMMA ToldByBoxes ==
  ASSUME NEW s \in Submissions, NEW p \in {"ceremony", "failed", "done"}, Phase(s, p),
         NEW boxes, boxes \in {<<Box(Word[p], s)>>, <<Box(Word[p], s), Box(Word[p], s)>>},
         Fire(boxes)
  PROVE  p \in Phases /\ boxes \in Seq(BoxRecords) /\ Told(s, p, boxes)
<1>1. p \in Phases /\ Word[p] \in BoxKinds
  BY DEF Phases, Word, BoxKinds
<1>2. boxes \in Seq(BoxRecords) /\ boxes # <<>>
  BY <1>1, BoxFacts
<1>3. \A i \in 1..Len(boxes) : boxes[i].of = s
  BY <1>1, BoxFacts
<1>4. boxes[Len(boxes)].kind = Word[p]
  <2>1. CASE boxes = <<Box(Word[p], s)>>
    <3>1. Len(boxes) = 1 /\ boxes[1] = Box(Word[p], s)
      BY <2>1, <1>1, BoxFacts
    <3> QED
      BY <3>1, <1>1, BoxFacts
  <2>2. CASE boxes = <<Box(Word[p], s), Box(Word[p], s)>>
    <3>1. Len(boxes) = 2 /\ boxes[2] = Box(Word[p], s)
      BY <2>2, <1>1, BoxFacts
    <3> QED
      BY <3>1, <1>1, BoxFacts
  <2> QED
    BY <2>1, <2>2
<1> QED
  BY <1>1, <1>2, <1>3, <1>4 DEF Told

\* A step of submission s without a box.
LEMMA ToldSilently ==
  ASSUME NEW s \in Submissions, NEW p \in Phases, Phase(s, p), UNCHANGED <<dialog, fired>>,
         p = "silent" => page \in {"login", "register"},
         {p, phase[s]} \cap {"failed", "done"} = {},
         phase[s] \in {"idle", "fetching"} \/ p \in {"ceremony", "verifying", "posted"}
  PROVE  <<>> \in Seq(BoxRecords) /\ Told(s, p, <<>>)
BY DEF Told

LEMMA AskKept ==
  ASSUME ScriptsInv, NEW s \in Submissions, phase[s] \in {"idle", "fetching"},
         NEW held \in HeldOptions, Ask(s, held), page \in CeremonyPages,
         held.challenge = "undefined" => page \in {"login", "register"},
         held.challenge \in {"string", "ArrayBuffer", "undefined"},
         UNCHANGED <<page, form, sent, left>>
  PROVE  ScriptsInv'
<1>1. ScriptsTypeOK
  BY DEF ScriptsInv
<1>2. CASE Decoded(held.challenge) = "TypeError"
  <2>1. Phase(s, "silent") /\ options' = held /\ UNCHANGED <<refused, dialog, fired>>
    BY <1>2 DEF Ask
  <2>2. page \in {"login", "register"}
    BY <1>2 DEF Decoded, CoerceToArrayBuffer
  <2>3. "silent" \in Phases
    BY DEF Phases
  <2>4. Told(s, "silent", <<>>) /\ <<>> \in Seq(BoxRecords)
    BY <2>1, <2>2, <2>3, ToldSilently
  <2>5. refused' \subseteq Submissions /\ form' \in Seq(Inputs) /\ sent' \in Seq(Inputs)
    BY <1>1, <2>1 DEF ScriptsTypeOK
  <2> QED
    BY <2>1, <2>2, <2>3, <2>4, <2>5, ToldKept
<1>3. CASE Decoded(held.challenge) # "TypeError"
  <2> DEFINE coerced == Decoded(held.challenge)
  <2>1. /\ Phase(s, "ceremony") /\ options' = [held EXCEPT !.challenge = coerced]
        /\ OneCeremony(s)
        /\ IF Waiting(s) = <<>> THEN UNCHANGED <<dialog, fired>> ELSE Fire(Waiting(s))
    BY <1>3, Zenon DEF Ask
  <2>2. /\ coerced \in {"ArrayBuffer", "Uint8Array"}
        /\ page = "add" => coerced = "ArrayBuffer"
    BY <1>3 DEF Decoded, CoerceToArrayBuffer
  <2>3. /\ options' \in HeldOptions
        /\ page = "add" => options'.challenge \in {"string", "ArrayBuffer"}
    BY <2>1, <2>2 DEF HeldOptions, Representations
  <2>4. refused' \subseteq Submissions
    BY <1>1, <2>1 DEF OneCeremony, ScriptsTypeOK
  <2>5. form' \in Seq(Inputs) /\ sent' \in Seq(Inputs)
    BY <1>1 DEF ScriptsTypeOK
  <2>6. "ceremony" \in Phases
    BY DEF Phases
  <2>7. CASE page = "register"
    <3>1. UNCHANGED <<dialog, fired>>
      BY <2>1, <2>7 DEF Waiting
    <3>2. Told(s, "ceremony", <<>>) /\ <<>> \in Seq(BoxRecords)
      BY <2>1, <2>6, <3>1, ToldSilently
    <3> HIDE DEF coerced
    <3> QED
      BY <2>3, <2>4, <2>5, <2>6, <3>2, ToldKept
  <2>8. CASE page # "register"
    <3>1. Waiting(s) = <<Box(Word["ceremony"], s)>>
      BY <2>8 DEF Waiting, Word, Phases
    <3>2. Waiting(s) # <<>>
      BY <3>1
    <3>3. Fire(Waiting(s))
      BY <2>1, <3>2
    <3>4. Told(s, "ceremony", Waiting(s)) /\ Waiting(s) \in Seq(BoxRecords)
      BY <2>1, <3>1, <3>3, ToldByBoxes
    <3> HIDE DEF coerced
    <3> QED
      BY <2>3, <2>4, <2>5, <2>6, <3>4, ToldKept
  <2> QED
    BY <2>7, <2>8
<1> QED
  BY <1>2, <1>3

LEMMA SubmitKept ==
  ASSUME ScriptsInv, NEW s \in Submissions, Submit(s), page \in CeremonyPages
  PROVE  ScriptsInv'
<1>1. ScriptsTypeOK /\ HeldInv
  BY DEF ScriptsInv
<1>2. phase[s] = "idle" /\ UNCHANGED <<page, form, sent, left>>
  BY DEF Submit
<1>3. CASE page = "add"
  <2>1. Ask(s, options)
    BY <1>3 DEF Submit
  <2>2. options \in HeldOptions /\ options.challenge \in {"string", "ArrayBuffer"}
    BY <1>1, <1>3 DEF ScriptsTypeOK, HeldInv
  <2> QED
    BY <1>2, <2>1, <2>2, AskKept
<1>4. CASE page # "add"
  <2>1. Phase(s, "fetching") /\ UNCHANGED <<options, refused, dialog, fired>>
    BY <1>4 DEF Submit
  <2>2. "fetching" \in Phases
    BY DEF Phases
  <2>3. Told(s, "fetching", <<>>) /\ <<>> \in Seq(BoxRecords)
    BY <1>2, <2>1, <2>2, ToldSilently
  <2>4. /\ options' \in HeldOptions /\ refused' \subseteq Submissions
        /\ form' \in Seq(Inputs) /\ sent' \in Seq(Inputs) /\ left' = left /\ page' = page
    BY <1>1, <1>2, <2>1 DEF ScriptsTypeOK
  <2> QED
    BY <1>4, <2>2, <2>3, <2>4, ToldKept
<1> QED
  BY <1>3, <1>4

LEMMA FetchEndsKept ==
  ASSUME ScriptsInv, NEW s \in Submissions, FetchEnds(s), page \in CeremonyPages
  PROVE  ScriptsInv'
<1>1. ScriptsTypeOK /\ HeldInv
  BY DEF ScriptsInv
<1>2. phase[s] = "fetching" /\ UNCHANGED <<page, form, sent, left>>
  BY DEF FetchEnds
<1>3. page # "add"
  BY <1>1, <1>2 DEF HeldInv
<1>4. page' = page /\ left' = left /\ form' \in Seq(Inputs) /\ sent' \in Seq(Inputs)
  BY <1>1, <1>2 DEF ScriptsTypeOK
<1>5. ASSUME Phase(s, "failed"), ShowErrorAlert(s), UNCHANGED <<options, refused>>
      PROVE  ScriptsInv'
  <2>1. Fire(<<Box(Word["failed"], s)>>)
    BY <1>5 DEF ShowErrorAlert, Word, Phases
  <2> DEFINE boxes == <<Box(Word["failed"], s)>>
  <2>2. Told(s, "failed", boxes) /\ boxes \in Seq(BoxRecords) /\ "failed" \in Phases
    BY <1>5, <2>1, ToldByBoxes
  <2>3. options' \in HeldOptions /\ refused' \subseteq Submissions
    BY <1>1, <1>5 DEF ScriptsTypeOK
  <2> HIDE DEF boxes
  <2> QED
    BY <1>3, <1>4, <2>2, <2>3, ToldKept
<1>6. ASSUME OptionsRejected(s), page \in FormPages PROVE ScriptsInv'
  <2>1. Phase(s, "silent") /\ UNCHANGED <<options, refused, dialog, fired>>
    BY <1>6 DEF OptionsRejected
  <2>2. "silent" \in Phases
    BY DEF Phases
  <2>3. Told(s, "silent", <<>>) /\ <<>> \in Seq(BoxRecords)
    BY <1>2, <1>3, <1>6, <2>1, <2>2, ToldSilently DEF FormPages
  <2>4. options' \in HeldOptions /\ refused' \subseteq Submissions
    BY <1>1, <2>1 DEF ScriptsTypeOK
  <2> QED
    BY <1>3, <1>4, <2>2, <2>3, <2>4, ToldKept
<1>7. ASSUME OptionsRejected(s), page \notin FormPages PROVE ScriptsInv'
  BY <1>5, <1>7 DEF OptionsRejected
<1>8. ASSUME OptionsRefused(s) PROVE ScriptsInv'
  <2>1. CASE page \in FormPages
    <3>1. Ask(s, [of |-> s, challenge |-> "undefined"])
      BY <1>8, <2>1 DEF OptionsRefused
    <3>2. [of |-> s, challenge |-> "undefined"] \in HeldOptions
      BY DEF HeldOptions, Representations
    <3>3. page \in {"login", "register"}
      BY <1>3, <2>1 DEF FormPages
    <3> QED
      BY <1>2, <3>1, <3>2, <3>3, AskKept
  <2>2. CASE page \notin FormPages
    BY <1>5, <1>8, <2>2 DEF OptionsRefused
  <2> QED
    BY <2>1, <2>2
<1>9. ASSUME OptionsArrive(s) PROVE ScriptsInv'
  <2>1. [of |-> s, challenge |-> "string"] \in HeldOptions
    BY DEF HeldOptions, Representations
  <2> QED
    BY <1>2, <1>9, <2>1, AskKept DEF OptionsArrive
<1> QED
  BY <1>6, <1>7, <1>8, <1>9 DEF FetchEnds

LEMMA CeremonyEndsKept ==
  ASSUME ScriptsInv, NEW s \in Submissions, CeremonyEnds(s), page \in CeremonyPages
  PROVE  ScriptsInv'
<1>1. ScriptsTypeOK /\ HeldInv
  BY DEF ScriptsInv
<1>2. phase[s] = "ceremony" /\ UNCHANGED <<page, refused, left>> /\ options' = options
  BY DEF CeremonyEnds, CeremonyFails, CeremonySucceeds, Post
<1>3. /\ options' \in HeldOptions /\ refused' \subseteq Submissions
      /\ page = "add" => options'.challenge \in {"string", "ArrayBuffer"}
  BY <1>1, <1>2 DEF ScriptsTypeOK, HeldInv
<1>4. /\ {"failed", "verifying", "posted"} \subseteq Phases /\ Word["failed"] = "alert"
  BY DEF Phases, Word
<1>5. ASSUME Phase(s, "failed"), UNCHANGED <<form, sent>>, NEW boxes, Fire(boxes),
             boxes \in {<<Box("alert", s)>>, <<Box("alert", s), Box("alert", s)>>}
      PROVE  ScriptsInv'
  <2>1. Told(s, "failed", boxes) /\ boxes \in Seq(BoxRecords)
    BY <1>4, <1>5, ToldByBoxes
  <2>2. form' \in Seq(Inputs) /\ sent' \in Seq(Inputs)
    BY <1>1, <1>5 DEF ScriptsTypeOK
  <2> QED
    BY <1>2, <1>3, <1>4, <2>1, <2>2, ToldKept
<1>6. ASSUME CeremonyFails(s) PROVE ScriptsInv'
  <2>1. CeremonyAlerts(s) \in {<<Box("alert", s)>>, <<Box("alert", s), Box("alert", s)>>}
    BY DEF CeremonyAlerts
  <2>2. CeremonyAlerts(s) # <<>>
    BY <2>1
  <2> QED
    BY <1>5, <1>6, <2>1, <2>2 DEF CeremonyFails
<1>7. ASSUME NEW p \in {"verifying", "posted"}, Phase(s, p), UNCHANGED <<dialog, fired>>,
             form' \in Seq(Inputs), sent' \in Seq(Inputs)
      PROVE  ScriptsInv'
  <2>1. Told(s, p, <<>>) /\ <<>> \in Seq(BoxRecords)
    BY <1>2, <1>4, <1>7, ToldSilently
  <2> QED
    BY <1>2, <1>3, <1>4, <1>7, <2>1, ToldKept
<1>8. ASSUME CeremonySucceeds(s), page \notin FormPages PROVE ScriptsInv'
  <2>1. Phase(s, "verifying") /\ UNCHANGED <<dialog, fired, form, sent>>
    BY <1>8 DEF CeremonySucceeds
  <2>2. form' \in Seq(Inputs) /\ sent' \in Seq(Inputs)
    BY <1>1, <2>1 DEF ScriptsTypeOK
  <2> QED
    BY <1>7, <2>1, <2>2
<1>9. ASSUME CeremonySucceeds(s), page \in FormPages, NamesAreGone(s) PROVE ScriptsInv'
  BY <1>5, <1>9 DEF CeremonySucceeds, ShowErrorAlert
<1>10. ASSUME CeremonySucceeds(s), page \in FormPages, ~NamesAreGone(s) PROVE ScriptsInv'
  <2> DEFINE posted == [of |-> s, name |-> options.of, rawId |-> CoerceToBase64Url("Uint8Array")]
  <2>1. Post(s)
    BY <1>10 DEF CeremonySucceeds
  <2>2. /\ Phase(s, "posted") /\ UNCHANGED <<dialog, fired>>
        /\ form' = Append(form, posted) /\ sent' = Append(form, posted)
    BY <2>1 DEF Post, Submitted
  <2>3. posted \in Inputs
    BY <1>1 DEF Inputs, CoerceToBase64Url, ScriptsTypeOK, HeldOptions
  <2>4. form \in Seq(Inputs)
    BY <1>1 DEF ScriptsTypeOK
  <2> HIDE DEF posted
  <2>5. Append(form, posted) \in Seq(Inputs)
    BY <2>3, <2>4
  <2> QED
    BY <1>7, <2>2, <2>5
<1> QED
  BY <1>6, <1>8, <1>9, <1>10 DEF CeremonyEnds

LEMMA VerifyEndsKept ==
  ASSUME ScriptsInv, NEW s \in Submissions, VerifyEnds(s), page \in CeremonyPages
  PROVE  ScriptsInv'
<1>1. ScriptsTypeOK /\ HeldInv
  BY DEF ScriptsInv
<1>2. UNCHANGED <<page, options, refused, form, sent, left>>
  BY DEF VerifyEnds
<1>3. /\ options' \in HeldOptions /\ refused' \subseteq Submissions
      /\ form' \in Seq(Inputs) /\ sent' \in Seq(Inputs)
      /\ page = "add" => options'.challenge \in {"string", "ArrayBuffer"}
  BY <1>1, <1>2 DEF ScriptsTypeOK, HeldInv
<1>4. Word["failed"] = "alert" /\ Word["done"] = "success"
  BY DEF Phases, Word
<1>5. ASSUME NEW p \in {"failed", "done"}, Phase(s, p), NEW boxes, Fire(boxes),
             boxes \in {<<Box(Word[p], s)>>, <<Box(Word[p], s), Box(Word[p], s)>>}
      PROVE  ScriptsInv'
  <2>1. Told(s, p, boxes) /\ boxes \in Seq(BoxRecords) /\ p \in Phases
    BY <1>5, ToldByBoxes
  <2> QED
    BY <1>2, <1>3, <1>5, <2>1, ToldKept
<1>6. ASSUME VerifyFails(s) PROVE ScriptsInv'
  BY <1>4, <1>5, <1>6 DEF VerifyFails
<1>7. ASSUME NEW status \in {"ok", "error"}, VerifyAnswers(s, status) PROVE ScriptsInv'
  BY <1>4, <1>5, <1>7 DEF VerifyAnswers, Verdict
<1> QED
  BY <1>6, <1>7 DEF VerifyEnds

\* A dialog that is answered, and everything else that only ends a dialog.
LEMMA SettleKept ==
  ASSUME ScriptsInv, NEW d \in Ids, NEW o \in {"confirmed", "dismissed"}, Boxes!Settle(d, o),
         UNCHANGED <<page, phase, options, refused, fired, form, sent, left>>
  PROVE  ScriptsInv'
<1>1. ScriptsTypeOK /\ HeldInv /\ NoOrphanWaiting /\ LastWordIsOutcome
  BY DEF ScriptsInv
<1>2. dialog[d] = "open" /\ dialog' = [dialog EXCEPT ![d] = o]
  BY DEF Boxes!Settle
<1>3. \A e \in Ids : IF e = d THEN dialog'[e] = o ELSE dialog'[e] = dialog[e]
  BY <1>1, <1>2 DEF ScriptsTypeOK
<1>4. /\ dialog' \in [Ids -> {"unfired", "open", "replaced", "confirmed", "dismissed"}]
      /\ \A e \in Ids : /\ dialog'[e] = "unfired" <=> e > Len(fired)
                        /\ dialog'[e] = "open" => e = Len(fired)
  BY <1>1, <1>2, <1>3 DEF ScriptsTypeOK
<1>5. left' \in BOOLEAN
  BY <1>1, Zenon DEF ScriptsTypeOK
<1>6. ScriptsTypeOK'
  BY <1>1, <1>4, <1>5 DEF ScriptsTypeOK
<1>7. HeldInv' /\ LastWordIsOutcome'
  BY <1>1 DEF HeldInv, LastWordIsOutcome
<1>8. NoOrphanWaiting'
  BY <1>1, <1>3 DEF NoOrphanWaiting, OpenBox
<1> QED
  BY <1>6, <1>7, <1>8 DEF ScriptsInv

LEMMA ScriptsUnchanged ==
  ASSUME ScriptsInv, left' \in BOOLEAN,
         UNCHANGED <<page, phase, options, refused, dialog, fired, form, sent>>
  PROVE  ScriptsInv'
BY DEF ScriptsInv, ScriptsTypeOK, HeldInv, NoOrphanWaiting, OpenBox, LastWordIsOutcome

LEMMA ScriptsBegin ==
  ASSUME InitScripts
  PROVE  ScriptsInv
<1>1. /\ fired = <<>> /\ form = <<>> /\ sent = <<>> /\ refused = {}
      /\ phase = [s \in Submissions |-> "idle"] /\ dialog = [d \in Ids |-> "unfired"]
      /\ options = [of |-> 0, challenge |-> IF page = "add" THEN "string" ELSE "undefined"]
  BY DEF InitScripts, Boxes!Init
<1>2. left \in BOOLEAN
  BY Zenon DEF InitScripts
<1>3. /\ phase \in [Submissions -> Phases] /\ options \in HeldOptions
      /\ dialog \in [Ids -> {"unfired", "open", "replaced", "confirmed", "dismissed"}]
      /\ refused \subseteq Submissions
  BY <1>1 DEF Phases, HeldOptions, Representations
<1>4. /\ fired \in Seq([kind : BoxKinds, of : Submissions]) /\ Len(fired) = 0
      /\ form \in Seq(Inputs) /\ sent \in Seq(Inputs)
  BY <1>1
<1>5. \A d \in Ids : dialog[d] = "unfired" /\ d > Len(fired)
  BY <1>1, <1>4 DEF Ids
<1>6. ScriptsTypeOK
  BY <1>2, <1>3, <1>4, <1>5, ScriptsAssumption DEF ScriptsTypeOK
<1>7. HeldInv /\ NoOrphanWaiting
  BY <1>1, <1>5 DEF HeldInv, NoOrphanWaiting, OpenBox
<1>8. DOMAIN fired = {}
  BY <1>1
<1>9. LastWordIsOutcome
  BY <1>1, <1>8 DEF LastWordIsOutcome
<1> QED
  BY <1>6, <1>7, <1>9 DEF ScriptsInv

LEMMA ScriptsKept ==
  ASSUME ScriptsInv, [NextScripts /\ page \in CeremonyPages]_scriptVars
  PROVE  ScriptsInv'
<1>1. ASSUME NEW s \in Submissions, page \in CeremonyPages,
             Submit(s) \/ FetchEnds(s) \/ CeremonyEnds(s) \/ VerifyEnds(s)
      PROVE  ScriptsInv'
  BY <1>1, SubmitKept, FetchEndsKept, CeremonyEndsKept, VerifyEndsKept
<1>2. ASSUME NEW d \in Ids, SuccessCloses(d) PROVE ScriptsInv'
  BY <1>2, SettleKept DEF SuccessCloses
<1>3. ASSUME NEW d \in Ids, NEW o \in {"confirmed", "dismissed"}, Answer(d, o)
      PROVE  ScriptsInv'
  BY <1>3, SettleKept DEF Answer
<1>4. ASSUME Leave PROVE ScriptsInv'
  <2>1. left' \in BOOLEAN
    BY <1>4, Zenon DEF Leave
  <2> QED
    BY <1>4, <2>1, ScriptsUnchanged DEF Leave
<1>5. ASSUME UNCHANGED scriptVars PROVE ScriptsInv'
  <2>1. left' \in BOOLEAN
    BY <1>5, Zenon DEF scriptVars, ScriptsInv, ScriptsTypeOK
  <2> QED
    BY <1>5, <2>1, ScriptsUnchanged DEF scriptVars
<1> QED
  BY <1>1, <1>2, <1>3, <1>4, <1>5 DEF NextScripts

LEMMA ScriptsAlways == Spec => []ScriptsInv
<1>1. Init => ScriptsInv
  BY ScriptsBegin DEF Init
<1>2. ScriptsInv /\ [Next]_pageVars => ScriptsInv'
  BY ScriptsKept, PartsStep
<1> QED
  BY <1>1, <1>2, PTL DEF Spec

\* A dialog that waits for the authenticator belongs to a ceremony that did not fail.
THEOREM NoDialogIsOrphaned == Spec => []NoOrphanWaiting
<1>1. ScriptsInv => NoOrphanWaiting
  BY DEF ScriptsInv
<1> QED
  BY <1>1, ScriptsAlways, PTL

\* The last dialog of each submission tells how it ended, however submissions overlap.
THEOREM OutcomeIsAlwaysTold == Spec => []LastWordIsOutcome
<1>1. ScriptsInv => LastWordIsOutcome
  BY DEF ScriptsInv
<1> QED
  BY <1>1, ScriptsAlways, PTL
--------------------------------------------------------------------------------
(* The toasts. *)

Distinct(body) == \A i, j \in 1..Len(body) : body[i] = body[j] => i = j

ToastNumbers ==
  /\ toastElement \in [Toasts -> 0..MaxShows]
  /\ stack \in Seq(Elements)
  /\ place \in [Elements -> Nat]

\* An element is in the body once, was built by its object, and lies where reposition says.
StackInv ==
  /\ Distinct(stack)
  /\ \A i \in 1..Len(stack) : stack[i].shown <= toastElement[stack[i].of]
  /\ \A i \in 1..Len(stack) : place[stack[i]] = Offset(stack, i)

LEMMA OffsetsAreNumbers ==
  ASSUME NEW body \in Seq(Elements), NEW i \in 1..Len(body)
  PROVE  Offset(body, i) \in Nat /\ IsFiniteSet({j \in 1..i : SameStack(body[j], body[i])})
<1>1. IsFiniteSet(1..i)
  BY FS_Interval
<1>2. {j \in 1..i : SameStack(body[j], body[i])} \in SUBSET (1..i)
  OBVIOUS
<1>3. IsFiniteSet({j \in 1..i : SameStack(body[j], body[i])})
  BY <1>1, <1>2, FS_Subset
<1> QED
  BY <1>3, FS_CardinalityType DEF Offset

\* The second of two elements of one stack lies further from the edge.
LEMMA OffsetsGrow ==
  ASSUME NEW body \in Seq(Elements), NEW i \in 1..Len(body), NEW j \in 1..Len(body), i < j,
         SameStack(body[i], body[j])
  PROVE  Offset(body, i) < Offset(body, j)
<1> DEFINE before(k) == {m \in 1..k : SameStack(body[m], body[k])}
<1>1. before(i) \in SUBSET before(j)
  BY DEF SameStack, Corner
<1>2. j \in before(j) /\ j \notin before(i)
  BY DEF SameStack
<1>3. IsFiniteSet(before(j))
  BY OffsetsAreNumbers
<1>4. Cardinality(before(i)) = Offset(body, i) /\ Cardinality(before(j)) = Offset(body, j)
  BY DEF Offset
<1>5. Offset(body, i) \in Nat /\ Offset(body, j) \in Nat
  BY OffsetsAreNumbers
<1> HIDE DEF before
<1>6. Cardinality(before(i)) <= Cardinality(before(j))
  BY <1>1, <1>3, FS_Subset
<1>7. Cardinality(before(i)) # Cardinality(before(j))
  BY <1>1, <1>2, <1>3, FS_Subset
<1> QED
  BY <1>4, <1>5, <1>6, <1>7

LEMMA RepositionPlaces ==
  ASSUME NEW body \in Seq(Elements), Distinct(body), Reposition(body)
  PROVE  /\ place' \in [Elements -> Nat]
         /\ \A i \in 1..Len(body) : place'[body[i]] = Offset(body, i)
<1>1. DOMAIN body = 1..Len(body)
  OBVIOUS
<1>2. ASSUME NEW e \in Elements, NEW i \in 1..Len(body), body[i] = e
      PROVE  place'[e] = Offset(body, i)
  <2>1. (CHOOSE k \in DOMAIN body : body[k] = e) = i
    BY <1>1, <1>2 DEF Distinct
  <2>2. place'[e] = Offset(body, CHOOSE k \in DOMAIN body : body[k] = e)
    BY <1>1, <1>2 DEF Reposition
  <2> QED
    BY <2>1, <2>2
<1>3. ASSUME NEW i \in 1..Len(body) PROVE place'[body[i]] = Offset(body, i)
  <2>1. body[i] \in Elements
    OBVIOUS
  <2> QED
    BY <1>2, <2>1
<1>4. ASSUME NEW e \in Elements PROVE place'[e] \in Nat
  <2>1. CASE \E i \in 1..Len(body) : body[i] = e
    BY <1>2, <2>1, OffsetsAreNumbers
  <2>2. CASE ~ \E i \in 1..Len(body) : body[i] = e
    BY <1>1, <2>2 DEF Reposition
  <2> QED
    BY <2>1, <2>2
<1>5. place' = [e \in Elements |-> place'[e]]
  BY DEF Reposition
<1> QED
  BY <1>3, <1>4, <1>5

\* removeChild takes out one element and keeps the order of the others.
LEMMA RemoveChildKeeps ==
  ASSUME NEW body \in Seq(Elements), Distinct(body), NEW e \in Elements
  PROVE  /\ RemoveChild(body, e) \in Seq(Elements)
         /\ Distinct(RemoveChild(body, e))
         /\ \A i \in 1..Len(RemoveChild(body, e)) :
              /\ RemoveChild(body, e)[i] # e
              /\ \E j \in 1..Len(body) : RemoveChild(body, e)[i] = body[j]
<1>1. DOMAIN body = 1..Len(body) /\ Len(body) \in Nat
  OBVIOUS
<1>2. CASE ~ \E j \in DOMAIN body : body[j] = e
  BY <1>1, <1>2 DEF RemoveChild
<1>3. CASE \E j \in DOMAIN body : body[j] = e
  <2> DEFINE i == CHOOSE k \in DOMAIN body : body[k] = e
             before == SubSeq(body, 1, i - 1)
             after == SubSeq(body, i + 1, Len(body))
             rest == before \o after
  <2>1. i \in 1..Len(body) /\ body[i] = e
    BY <1>1, <1>3
  <2>2. RemoveChild(body, e) = rest
    BY <1>3 DEF RemoveChild
  <2> HIDE DEF i
  <2>3. /\ before \in Seq(Elements) /\ Len(before) = i - 1
        /\ \A k \in 1..(i - 1) : before[k] = body[k]
    <3>1. 1 \in Int /\ i - 1 \in Int /\ \A k \in 1..(i - 1) : body[k] \in Elements
      BY <1>1, <2>1
    <3>2. /\ before \in Seq(Elements)
          /\ Len(before) = IF 1 <= i - 1 THEN (i - 1) - 1 + 1 ELSE 0
          /\ \A k \in 1..((i - 1) - 1 + 1) : before[k] = body[1 + k - 1]
      BY <3>1, SubSeqProperties
    <3> QED
      BY <2>1, <3>2
  <2>4. /\ after \in Seq(Elements) /\ Len(after) = Len(body) - i
        /\ \A k \in 1..(Len(body) - i) : after[k] = body[i + k]
    <3>1. i + 1 \in Int /\ Len(body) \in Int /\ \A k \in (i + 1)..Len(body) : body[k] \in Elements
      BY <1>1, <2>1
    <3>2. /\ after \in Seq(Elements)
          /\ Len(after) = IF i + 1 <= Len(body) THEN Len(body) - (i + 1) + 1 ELSE 0
          /\ \A k \in 1..(Len(body) - (i + 1) + 1) : after[k] = body[(i + 1) + k - 1]
      BY <3>1, SubSeqProperties
    <3> HIDE DEF after
    <3>3. \A k \in 1..(Len(body) - i) : (i + 1) + k - 1 = i + k
      BY <1>1, <2>1
    <3>4. Len(body) - (i + 1) + 1 = Len(body) - i
      BY <1>1, <2>1
    <3>5. Len(after) = Len(body) - i
      <4>1. CASE i + 1 <= Len(body)
        BY <3>2, <3>4, <4>1
      <4>2. CASE i = Len(body)
        <5>1. ~(i + 1 <= Len(body)) /\ Len(body) - i = 0
          BY <1>1, <4>2
        <5> QED
          BY <3>2, <5>1
      <4>3. i \in Nat /\ i <= Len(body) /\ Len(body) \in Nat
        BY <1>1, <2>1
      <4>4. i + 1 <= Len(body) \/ i = Len(body)
        BY <4>3
      <4> QED
        BY <4>1, <4>2, <4>4
    <3> QED
      BY <3>2, <3>3, <3>4, <3>5
  <2> HIDE DEF before, after
  <2>5. /\ rest \in Seq(Elements) /\ Len(rest) = Len(body) - 1
        /\ \A k \in 1..(Len(body) - 1) :
             rest[k] = IF k <= i - 1 THEN before[k] ELSE after[k - (i - 1)]
    <3>1. /\ rest \in Seq(Elements) /\ Len(rest) = Len(before) + Len(after)
          /\ \A k \in 1..(Len(before) + Len(after)) :
               rest[k] = IF k <= Len(before) THEN before[k] ELSE after[k - Len(before)]
      BY <2>3, <2>4, ConcatProperties
    <3> HIDE DEF rest
    <3>2. Len(before) + Len(after) = Len(body) - 1
      BY <1>1, <2>1, <2>3, <2>4
    <3> QED
      BY <2>3, <3>1, <3>2
  <2> HIDE DEF rest
  <2>6. ASSUME NEW k \in 1..(Len(body) - 1)
        PROVE  rest[k] = body[IF k < i THEN k ELSE k + 1]
    <3>1. CASE k < i
      BY <1>1, <2>1, <2>3, <2>5, <3>1
    <3>2. CASE k >= i
      <4>1. k - (i - 1) \in 1..(Len(body) - i) /\ ~(k <= i - 1)
        BY <1>1, <2>1, <3>2
      <4>2. rest[k] = after[k - (i - 1)]
        BY <2>5, <4>1
      <4>3. i + (k - (i - 1)) = k + 1
        BY <1>1, <2>1
      <4>4. ~(k < i)
        BY <1>1, <2>1, <3>2
      <4> QED
        BY <2>4, <4>1, <4>2, <4>3, <4>4
    <3> QED
      BY <1>1, <2>1, <3>1, <3>2
  <2>7. \A k \in 1..Len(rest) : \E j \in 1..Len(body) :
          rest[k] = body[j] /\ j = (IF k < i THEN k ELSE k + 1)
    BY <1>1, <2>1, <2>5, <2>6
  <2>8. \A k \in 1..Len(rest) : rest[k] # e
    BY <1>1, <2>1, <2>5, <2>7 DEF Distinct
  <2>9. Distinct(rest)
    BY <1>1, <2>1, <2>5, <2>7 DEF Distinct
  <2> QED
    BY <2>2, <2>5, <2>7, <2>8, <2>9
<1> QED
  BY <1>2, <1>3

\* Latest of an object that was shown is an element.
LEMMA LatestIsAnElement ==
  ASSUME NEW t \in Toasts, toastElement \in [Toasts -> 0..MaxShows], toastElement[t] # 0
  PROVE  Latest(t) \in Elements
<1>1. MaxShows \in Nat
  BY ToastifyAssumption
<1>2. toastElement[t] \in 1..MaxShows
  BY <1>1
<1> QED
  BY <1>2 DEF Latest, Elements

\* The body with the new element in front.
LEMMA ShowKeeps ==
  ASSUME ToastNumbers, StackInv, NEW t \in Toasts, NEW e \in Elements, e.of = t,
         e.shown = toastElement[t] + 1, toastElement' = [toastElement EXCEPT ![t] = e.shown],
         stack' = <<e>> \o stack, Reposition(stack')
  PROVE  ToastNumbers' /\ StackInv'
<1> DEFINE body == <<e>> \o stack
<1>1. /\ stack \in Seq(Elements) /\ Len(stack) \in Nat
      /\ toastElement \in [Toasts -> 0..MaxShows] /\ MaxShows \in Nat
  <2>1. stack \in Seq(Elements) /\ toastElement \in [Toasts -> 0..MaxShows] /\ MaxShows \in Nat
    BY ToastifyAssumption DEF ToastNumbers
  <2> QED
    BY <2>1
<1>2. /\ body \in Seq(Elements) /\ Len(body) = Len(stack) + 1 /\ body[1] = e
      /\ \A i \in 2..Len(body) : body[i] = stack[i - 1] /\ i - 1 \in 1..Len(stack)
  BY <1>1
<1>3. stack' = body
  OBVIOUS
<1> HIDE DEF body
<1>4. \A i \in 1..Len(stack) : stack[i] # e
  <2>1. toastElement[t] \in Nat
    BY <1>1
  <2> QED
    BY <2>1 DEF StackInv
<1>5. Distinct(body)
  <2> SUFFICES ASSUME NEW i \in 1..Len(body), NEW j \in 1..Len(body), body[i] = body[j]
               PROVE  i = j
    BY DEF Distinct
  <2>1. CASE i = 1 \/ j = 1
    <3>1. \A k \in 1..Len(body) : k # 1 => body[k] # e
      <4> TAKE k \in 1..Len(body)
      <4>1. k # 1 => k \in 2..Len(body)
        BY <1>1, <1>2
      <4> QED
        BY <1>2, <1>4, <4>1
    <3> QED
      BY <1>2, <2>1, <3>1
  <2>2. CASE i # 1 /\ j # 1
    <3>1. /\ i - 1 \in 1..Len(stack) /\ j - 1 \in 1..Len(stack)
          /\ stack[i - 1] = stack[j - 1]
      BY <1>1, <1>2, <2>2
    <3>2. i - 1 = j - 1
      BY <3>1 DEF StackInv, Distinct
    <3> QED
      BY <3>2
  <2> QED
    BY <2>1, <2>2
<1>6. /\ place' \in [Elements -> Nat]
      /\ \A i \in 1..Len(stack') : place'[stack'[i]] = Offset(stack', i)
  BY <1>2, <1>3, <1>5, RepositionPlaces
<1>7. e.shown \in 1..MaxShows
  BY DEF Elements
<1>8. toastElement' \in [Toasts -> 0..MaxShows]
  BY <1>1, <1>7
<1>9. ASSUME NEW i \in 1..Len(body) PROVE body[i].shown <= toastElement'[body[i].of]
  <2>1. CASE i = 1
    BY <1>1, <1>2, <1>7, <2>1
  <2>2. CASE i # 1
    <3>1. body[i] = stack[i - 1] /\ i - 1 \in 1..Len(stack)
      BY <1>1, <1>2, <2>2
    <3> DEFINE f == stack[i - 1]
    <3>2. f \in Elements
      BY <1>1, <3>1
    <3>3. f.shown <= toastElement[f.of]
      BY <3>1 DEF StackInv
    <3>4. f.of \in Toasts /\ f.shown \in Nat
      BY <3>2 DEF Elements
    <3> HIDE DEF f
    <3>5. f.shown <= toastElement'[f.of]
      BY <1>1, <3>3, <3>4
    <3> QED
      BY <3>1, <3>5 DEF f
  <2> QED
    BY <2>1, <2>2
<1>10. ToastNumbers'
  BY <1>2, <1>3, <1>6, <1>8 DEF ToastNumbers
<1>11. \A i \in 1..Len(stack') : stack'[i].shown <= toastElement'[stack'[i].of]
  BY <1>3, <1>9
<1>12. StackInv'
  BY <1>3, <1>5, <1>6, <1>11 DEF StackInv, Distinct
<1> QED
  BY <1>10, <1>12

LEMMA RemovalKeeps ==
  ASSUME ToastNumbers, StackInv, NEW e \in Elements, stack' = RemoveChild(stack, e),
         Reposition(stack'), toastElement' = toastElement
  PROVE  /\ ToastNumbers' /\ StackInv'
         /\ \A i \in 1..Len(stack') : stack'[i] # e
<1>1. stack \in Seq(Elements) /\ Distinct(stack)
  BY DEF ToastNumbers, StackInv
<1>2. /\ stack' \in Seq(Elements)
      /\ \A i, j \in 1..Len(stack') : stack'[i] = stack'[j] => i = j
      /\ \A i \in 1..Len(stack') : stack'[i] # e /\ \E j \in 1..Len(stack) : stack'[i] = stack[j]
  <2>1. /\ RemoveChild(stack, e) \in Seq(Elements)
        /\ Distinct(RemoveChild(stack, e))
        /\ \A i \in 1..Len(RemoveChild(stack, e)) :
             /\ RemoveChild(stack, e)[i] # e
             /\ \E j \in 1..Len(stack) : RemoveChild(stack, e)[i] = stack[j]
    BY <1>1, RemoveChildKeeps, Zenon
  <2> QED
    BY <2>1, Zenon DEF Distinct
<1>3. /\ place' \in [Elements -> Nat]
      /\ \A i \in 1..Len(stack') : place'[stack'[i]] = Offset(stack', i)
  BY <1>2, RepositionPlaces DEF Distinct
<1>4. \A i \in 1..Len(stack') : stack'[i].shown <= toastElement'[stack'[i].of]
  BY <1>2 DEF StackInv
<1>5. ToastNumbers'
  BY <1>2, <1>3 DEF ToastNumbers
<1>6. StackInv'
  BY <1>2, <1>3, <1>4 DEF StackInv, Distinct
<1> QED
  BY <1>2, <1>5, <1>6

LEMMA SameBody ==
  ASSUME ToastNumbers, StackInv, UNCHANGED <<toastElement, stack, place>>
  PROVE  ToastNumbers' /\ StackInv'
<1>1. ToastNumbers'
  BY DEF ToastNumbers
<1>2. /\ \A i, j \in 1..Len(stack') : stack'[i] = stack'[j] => i = j
      /\ \A i \in 1..Len(stack') : stack'[i].shown <= toastElement'[stack'[i].of]
      /\ \A i \in 1..Len(stack') : place'[stack'[i]] = Offset(stack', i)
  BY DEF StackInv, Distinct
<1> QED
  BY <1>1, <1>2 DEF StackInv, Distinct

\* The element that Show builds.
Built(t) == [of |-> t, shown |-> toastElement[t] + 1]

LEMMA BuiltIsAnElement ==
  ASSUME ToastNumbers, NEW t \in Toasts, toastElement[t] < MaxShows
  PROVE  Built(t) \in Elements /\ Built(t).of = t /\ Built(t).shown = toastElement[t] + 1
<1>1. MaxShows \in Nat /\ toastElement[t] \in 0..MaxShows
  BY ToastifyAssumption DEF ToastNumbers
<1>2. toastElement[t] + 1 \in 1..MaxShows
  BY <1>1
<1> QED
  BY <1>2 DEF Built, Elements

LEMMA ShowToastShows ==
  ASSUME NEW t \in Toasts, ShowToast(t)
  PROVE  /\ toastElement[t] < MaxShows
         /\ toastElement' = [toastElement EXCEPT ![t] = Built(t).shown]
         /\ stack' = <<Built(t)>> \o stack
         /\ Reposition(stack')
         /\ IF t \in Timed
            THEN /\ timeOutValue' = [timeOutValue EXCEPT ![Built(t)] = "shown"]
                 /\ countdowns' = countdowns \cup {[at |-> Built(t), set |-> "shown"]}
            ELSE UNCHANGED <<timeOutValue, countdowns>>
         /\ UNCHANGED <<hidden, removals, pointer>>
BY Zenon DEF ShowToast, Built

LEMMA StackKept ==
  ASSUME ToastNumbers, StackInv, [NextToasts]_toastVars
  PROVE  ToastNumbers' /\ StackInv'
<1>1. ASSUME NEW t \in Toasts, ShowToast(t) PROVE ToastNumbers' /\ StackInv'
  BY <1>1, ShowToastShows, BuiltIsAnElement, ShowKeeps
<1>2. ASSUME NEW e \in Elements, RemovalEnds(e) PROVE ToastNumbers' /\ StackInv'
  BY <1>2, RemovalKeeps DEF RemovalEnds, Without
<1>3. ASSUME NEW t \in Toasts, HideToast(t) PROVE ToastNumbers' /\ StackInv'
  BY <1>3, SameBody DEF HideToast
<1>4. ASSUME NEW e \in Elements, MouseOver(e) \/ MouseLeave(e) \/ CloseClick(e)
      PROVE  ToastNumbers' /\ StackInv'
  BY <1>4, SameBody DEF MouseOver, MouseLeave, CloseClick
<1>5. ASSUME NEW c \in Countdowns, CountdownEnds(c) PROVE ToastNumbers' /\ StackInv'
  BY <1>5, SameBody DEF CountdownEnds
<1>6. ASSUME UNCHANGED toastVars PROVE ToastNumbers' /\ StackInv'
  BY <1>6, SameBody DEF toastVars
<1> QED
  BY <1>1, <1>2, <1>3, <1>4, <1>5, <1>6 DEF NextToasts

LEMMA StackBegins == ASSUME InitToasts PROVE ToastNumbers /\ StackInv
<1>1. stack = <<>> /\ Len(stack) = 0
  BY DEF InitToasts
<1>2. MaxShows \in Nat
  BY ToastifyAssumption
<1>3. toastElement \in [Toasts -> 0..MaxShows] /\ place \in [Elements -> Nat]
  BY <1>2 DEF InitToasts
<1>4. stack \in Seq(Elements)
  BY <1>1
<1> QED
  BY <1>1, <1>3, <1>4 DEF ToastNumbers, StackInv, Distinct

LEMMA PlacedApart ==
  ASSUME ToastNumbers, StackInv
  PROVE  NoneOverlap
<1>1. stack \in Seq(Elements) /\ DOMAIN stack = 1..Len(stack)
  BY DEF ToastNumbers
<1>2. ASSUME NEW i \in 1..Len(stack), NEW j \in 1..Len(stack), i # j,
             SameStack(stack[i], stack[j])
      PROVE  place[stack[i]] # place[stack[j]]
  <2>1. SameStack(stack[j], stack[i])
    BY <1>2 DEF SameStack, Corner
  <2>2. Offset(stack, i) < Offset(stack, j) \/ Offset(stack, j) < Offset(stack, i)
    <3>1. CASE i < j
      BY <1>1, <1>2, <3>1, OffsetsGrow
    <3>2. CASE j < i
      BY <1>1, <2>1, <3>2, OffsetsGrow
    <3> QED
      BY <1>2, <3>1, <3>2
  <2>3. Offset(stack, i) \in Nat /\ Offset(stack, j) \in Nat
    BY <1>1, OffsetsAreNumbers
  <2>4. Offset(stack, i) # Offset(stack, j)
    BY <2>2, <2>3
  <2> QED
    BY <2>4 DEF StackInv
<1> QED
  BY <1>1, <1>2 DEF NoneOverlap, InBody

\* Toasts of one stack lie apart, in whatever order they are shown, hidden and removed.
THEOREM ToastsNeverOverlap == Spec => []NoneOverlap
<1>1. Init => ToastNumbers /\ StackInv
  BY StackBegins DEF Init
<1>2. ToastNumbers /\ StackInv /\ [Next]_pageVars => (ToastNumbers /\ StackInv)'
  BY StackKept, PartsStep
<1>3. ToastNumbers /\ StackInv => NoneOverlap
  BY PlacedApart
<1> QED
  BY <1>1, <1>2, <1>3, PTL DEF Spec
--------------------------------------------------------------------------------
(* Their countdowns. *)

CountdownNumbers ==
  /\ hidden \subseteq Elements
  /\ timeOutValue \in [Elements -> {"none", "shown", "left"}]
  /\ countdowns \subseteq Countdowns
  /\ removals \in [Elements -> 0..MaxRemovals]
  /\ pointer \in Elements \cup {Nobody}

\* A countdown is the one that its element knows, and belongs to an element that was built.
KnownCountdowns ==
  \A c \in countdowns : c.set = timeOutValue[c.at] /\ c.at.shown <= toastElement[c.at.of]

\* The element under the pointer was built, and has no countdown if it had one.
Paused ==
  \A e \in Elements : pointer = e =>
    /\ e.shown <= toastElement[e.of]
    /\ e.of \in Timed => \A c \in countdowns : c.at # e

\* A timed element that is the latest of its object, shows and is not pointed at counts down.
Counting ==
  \A e \in Elements :
    e.of \in Timed /\ e.shown = toastElement[e.of] /\ Visible(e) /\ pointer # e =>
      [at |-> e, set |-> timeOutValue[e]] \in countdowns

CountdownInv == CountdownNumbers /\ KnownCountdowns /\ Paused /\ Counting

LEMMA ElementFacts ==
  ASSUME NEW e \in Elements
  PROVE  /\ e.of \in Toasts /\ e.shown \in 1..MaxShows /\ e.shown \in Nat /\ e.shown > 0
         /\ e = [of |-> e.of, shown |-> e.shown]
BY DEF Elements

LEMMA CountdownFacts ==
  ASSUME NEW c \in Countdowns
  PROVE  c.at \in Elements /\ c.set \in {"shown", "left"} /\ c = [at |-> c.at, set |-> c.set]
BY DEF Countdowns

\* The latest element of an object is the one with its number.
LEMMA LatestFacts ==
  ASSUME toastElement \in [Toasts -> 0..MaxShows], NEW e \in Elements,
         e.shown = toastElement[e.of]
  PROVE  Latest(e.of) = e
BY ElementFacts DEF Latest

LEMMA CountdownsBegin == ASSUME InitToasts PROVE CountdownInv
<1>1. MaxRemovals \in Nat /\ Nobody \notin Elements
  BY ToastifyAssumption
<1>2. /\ timeOutValue = [e \in Elements |-> "none"] /\ removals = [e \in Elements |-> 0]
      /\ hidden = {} /\ countdowns = {} /\ pointer = Nobody /\ stack = <<>>
  BY DEF InitToasts
<1>3. CountdownNumbers
  BY <1>1, <1>2 DEF CountdownNumbers
<1>4. \A e \in Elements : ~InBody(e)
  BY <1>2 DEF InBody
<1>5. KnownCountdowns /\ Paused /\ Counting
  BY <1>1, <1>2, <1>4 DEF KnownCountdowns, Paused, Counting, Visible
<1> QED
  BY <1>3, <1>5 DEF CountdownInv

LEMMA ShowCounts ==
  ASSUME ToastNumbers, StackInv, CountdownInv, NEW t \in Toasts, ShowToast(t)
  PROVE  CountdownInv'
<1> DEFINE e0 == Built(t)
<1>1. /\ e0 \in Elements /\ e0.of = t /\ e0.shown = toastElement[t] + 1
      /\ toastElement' = [toastElement EXCEPT ![t] = e0.shown]
      /\ stack' = <<e0>> \o stack
      /\ UNCHANGED <<hidden, removals, pointer>>
  BY ShowToastShows, BuiltIsAnElement
<1> HIDE DEF e0
<1>2. /\ toastElement \in [Toasts -> 0..MaxShows] /\ stack \in Seq(Elements)
      /\ CountdownNumbers /\ KnownCountdowns /\ Paused /\ Counting
  BY DEF ToastNumbers, CountdownInv
<1>3. /\ \A u \in Toasts : toastElement[u] \in Nat /\ toastElement[u] <= toastElement'[u]
      /\ \A u \in Toasts : u # t => toastElement'[u] = toastElement[u]
      /\ toastElement'[t] = e0.shown
  <2>1. \A u \in Toasts : toastElement[u] \in Nat
    BY <1>2
  <2> QED
    BY <1>1, <1>2, <2>1
<1>4. \A c \in countdowns : c.at # e0 /\ c.at \in Elements
  <2> TAKE c \in countdowns
  <2>1. c.at \in Elements /\ c.at.shown <= toastElement[c.at.of]
    BY <1>2, CountdownFacts DEF CountdownNumbers, KnownCountdowns
  <2> QED
    BY <1>1, <1>3, <2>1
<1>5. pointer # e0
  BY <1>1, <1>2, <1>3 DEF Paused
<1>6. /\ timeOutValue' \in [Elements -> {"none", "shown", "left"}]
      /\ \A e \in Elements : e # e0 => timeOutValue'[e] = timeOutValue[e]
      /\ t \in Timed => timeOutValue'[e0] = "shown"
  BY <1>1, <1>2, ShowToastShows DEF CountdownNumbers, e0
<1>7. countdowns' = countdowns \/ (t \in Timed /\ countdowns' = countdowns \cup {[at |-> e0, set |-> "shown"]})
  BY ShowToastShows DEF e0
<1>8. t \in Timed => [at |-> e0, set |-> "shown"] \in countdowns'
  BY ShowToastShows DEF e0
<1>9. CountdownNumbers'
  <2>1. [at |-> e0, set |-> "shown"] \in Countdowns
    BY <1>1 DEF Countdowns
  <2> QED
    BY <1>1, <1>2, <1>6, <1>7, <2>1 DEF CountdownNumbers
<1>10. KnownCountdowns'
  <2> SUFFICES ASSUME NEW c \in countdowns'
               PROVE  c.set = timeOutValue'[c.at] /\ c.at.shown <= toastElement'[c.at.of]
    BY DEF KnownCountdowns
  <2>1. CASE c \in countdowns
    <3>1. c.set = timeOutValue[c.at] /\ c.at.shown <= toastElement[c.at.of]
      BY <1>2, <2>1 DEF KnownCountdowns
    <3>2. c.at \in Elements /\ c.at # e0
      BY <1>4, <2>1
    <3>3. c.at.of \in Toasts /\ c.at.shown \in Nat
      BY <3>2, ElementFacts
    <3>4. toastElement'[c.at.of] \in Nat
      BY <1>1, <1>3, <3>3, ElementFacts
    <3> QED
      BY <1>3, <1>6, <3>1, <3>2, <3>3, <3>4
  <2>2. CASE c = [at |-> e0, set |-> "shown"] /\ t \in Timed
    <3>1. e0.shown \in Nat
      BY <1>1, ElementFacts
    <3> QED
      BY <1>1, <1>3, <1>6, <2>2, <3>1
  <2> QED
    BY <1>7, <2>1, <2>2
<1>11. Paused'
  <2> SUFFICES ASSUME NEW e \in Elements, pointer' = e
               PROVE  /\ e.shown <= toastElement'[e.of]
                      /\ e.of \in Timed => \A c \in countdowns' : c.at # e
    BY DEF Paused
  <2>1. pointer = e /\ e # e0
    BY <1>1, <1>5
  <2>2. /\ e.shown <= toastElement[e.of]
        /\ e.of \in Timed => \A c \in countdowns : c.at # e
    BY <1>2, <2>1 DEF Paused
  <2>3. e.of \in Toasts /\ e.shown \in Nat
    BY ElementFacts
  <2>4. toastElement'[e.of] \in Nat
    BY <1>1, <1>3, <2>3, ElementFacts
  <2> QED
    BY <1>3, <1>7, <2>1, <2>2, <2>3, <2>4
<1>12. Counting'
  <2> SUFFICES ASSUME NEW e \in Elements, e.of \in Timed, e.shown = toastElement'[e.of],
                      InBody(e)', e \notin hidden', pointer' # e
               PROVE  [at |-> e, set |-> timeOutValue'[e]] \in countdowns'
    BY DEF Counting, Visible
  <2>1. CASE e.of = t
    <3>1. e = e0
      BY <1>1, <1>3, <2>1, ElementFacts
    <3> QED
      BY <1>6, <1>8, <2>1, <3>1
  <2>2. CASE e.of # t
    <3>1. e # e0
      BY <1>1, <2>2
    <3>2. PICK i \in 1..(Len(stack) + 1) : (<<e0>> \o stack)[i] = e
      BY <1>1, <1>2 DEF InBody
    <3>3. InBody(e)
      <4>1. i # 1 /\ i - 1 \in DOMAIN stack /\ stack[i - 1] = e
        BY <1>1, <1>2, <3>1, <3>2
      <4> QED
        BY <4>1 DEF InBody
    <3>4. e.shown = toastElement[e.of]
      BY <1>3, <2>2, ElementFacts
    <3>5. [at |-> e, set |-> timeOutValue[e]] \in countdowns
      BY <1>1, <1>2, <3>3, <3>4 DEF Counting, Visible
    <3> QED
      BY <1>6, <1>7, <3>1, <3>5
  <2> QED
    BY <2>1, <2>2
<1> QED
  BY <1>9, <1>10, <1>11, <1>12 DEF CountdownInv

LEMMA MouseOverCounts ==
  ASSUME ToastNumbers, StackInv, CountdownInv, NEW e \in Elements, MouseOver(e)
  PROVE  CountdownInv'
<1>1. /\ pointer = Nobody /\ pointer' = e /\ InBody(e)
      /\ UNCHANGED <<toastElement, stack, hidden, timeOutValue, removals>>
      /\ countdowns' = IF e.of \in Timed THEN Cleared(e) ELSE countdowns
  BY DEF MouseOver
<1>2. CountdownNumbers /\ KnownCountdowns /\ Counting
  BY DEF CountdownInv
<1>3. countdowns' \subseteq countdowns
  BY <1>1 DEF Cleared
<1>4. CountdownNumbers'
  BY <1>1, <1>2, <1>3 DEF CountdownNumbers
<1>5. KnownCountdowns'
  BY <1>1, <1>2, <1>3 DEF KnownCountdowns
<1>6. Paused'
  <2>1. e.shown <= toastElement'[e.of]
    BY <1>1 DEF InBody, StackInv, ToastNumbers
  <2>2. ASSUME e.of \in Timed, NEW c \in countdowns', c.at = e PROVE FALSE
    <3>1. c \in countdowns /\ c.set = timeOutValue[c.at] /\ c \in Countdowns
      BY <1>2, <1>3, <2>2 DEF KnownCountdowns, CountdownNumbers
    <3>2. c = [at |-> e, set |-> timeOutValue[e]]
      BY <2>2, <3>1, CountdownFacts
    <3> QED
      BY <1>1, <2>2, <3>2 DEF Cleared
  <2> QED
    BY <1>1, <2>1, <2>2 DEF Paused
<1>7. Counting'
  <2> SUFFICES ASSUME NEW f \in Elements, f.of \in Timed, f.shown = toastElement[f.of],
                      Visible(f), f # e
               PROVE  [at |-> f, set |-> timeOutValue[f]] \in countdowns'
    BY <1>1 DEF Counting, Visible, InBody
  <2>1. [at |-> f, set |-> timeOutValue[f]] \in countdowns
    BY <1>1, <1>2, ToastifyAssumption DEF Counting
  <2> QED
    BY <1>1, <2>1 DEF Cleared
<1> QED
  BY <1>4, <1>5, <1>6, <1>7 DEF CountdownInv

LEMMA MouseLeaveCounts ==
  ASSUME ToastNumbers, CountdownInv, NEW e \in Elements, MouseLeave(e)
  PROVE  CountdownInv'
<1>1. /\ pointer = e /\ pointer' = Nobody
      /\ UNCHANGED <<toastElement, stack, hidden, removals>>
      /\ e.of \in Timed => /\ timeOutValue' = [timeOutValue EXCEPT ![e] = "left"]
                           /\ countdowns' = countdowns \cup {[at |-> e, set |-> "left"]}
      /\ e.of \notin Timed => UNCHANGED <<timeOutValue, countdowns>>
  BY DEF MouseLeave, Known, Resumed
<1>2. CountdownNumbers /\ KnownCountdowns /\ Paused /\ Counting
  BY DEF CountdownInv
<1>3. Nobody \notin Elements
  BY ToastifyAssumption
<1>4. e.shown <= toastElement[e.of] /\ (e.of \in Timed => \A c \in countdowns : c.at # e)
  BY <1>1, <1>2 DEF Paused
<1>5. [at |-> e, set |-> "left"] \in Countdowns
  BY DEF Countdowns
<1>6. CountdownNumbers'
  BY <1>1, <1>2, <1>5 DEF CountdownNumbers
<1>7. \A f \in Elements : f # e \/ e.of \notin Timed => timeOutValue'[f] = timeOutValue[f]
  BY <1>1, <1>2 DEF CountdownNumbers
<1>8. e.of \in Timed => timeOutValue'[e] = "left"
  BY <1>1, <1>2 DEF CountdownNumbers
<1>9. KnownCountdowns'
  <2> SUFFICES ASSUME NEW c \in countdowns'
               PROVE  c.set = timeOutValue'[c.at] /\ c.at.shown <= toastElement[c.at.of]
    BY <1>1 DEF KnownCountdowns
  <2>1. CASE c \in countdowns
    <3>1. c.at \in Elements
      BY <1>2, <2>1, CountdownFacts DEF CountdownNumbers
    <3> QED
      BY <1>2, <1>4, <1>7, <2>1, <3>1 DEF KnownCountdowns
  <2>2. CASE c \notin countdowns
    <3>1. c = [at |-> e, set |-> "left"] /\ e.of \in Timed
      BY <1>1, <2>2
    <3> QED
      BY <1>4, <1>8, <3>1
  <2> QED
    BY <2>1, <2>2
<1>10. Paused'
  BY <1>1, <1>3 DEF Paused
<1>11. Counting'
  <2> SUFFICES ASSUME NEW f \in Elements, f.of \in Timed, f.shown = toastElement[f.of],
                      Visible(f)
               PROVE  [at |-> f, set |-> timeOutValue'[f]] \in countdowns'
    BY <1>1 DEF Counting, Visible, InBody
  <2>1. CASE f = e
    BY <1>1, <1>8, <2>1
  <2>2. CASE f # e
    <3>1. [at |-> f, set |-> timeOutValue[f]] \in countdowns
      BY <1>1, <1>2, <2>2 DEF Counting
    <3> QED
      BY <1>1, <1>7, <2>2, <3>1
  <2> QED
    BY <2>1, <2>2
<1> QED
  BY <1>6, <1>9, <1>10, <1>11 DEF CountdownInv

\* What is common to the ways to start a removal: an element is hidden, and countdowns go
\* that are of no other element that shows.
LEMMA HidingCounts ==
  ASSUME ToastNumbers, CountdownInv, NEW e \in Elements, RemoveElement(e),
         countdowns' \subseteq countdowns,
         \A c \in countdowns \ countdowns' :
           c.at.shown = toastElement[c.at.of] => c.at = e,
         UNCHANGED <<toastElement, stack, timeOutValue, pointer>>
  PROVE  CountdownInv'
<1>1. CountdownNumbers /\ KnownCountdowns /\ Paused /\ Counting
  BY DEF CountdownInv
<1>2. /\ hidden' = hidden \cup {e} /\ removals[e] < MaxRemovals
      /\ removals' = [removals EXCEPT ![e] = @ + 1]
  BY DEF RemoveElement
<1>3. removals' \in [Elements -> 0..MaxRemovals]
  <2>1. removals \in [Elements -> 0..MaxRemovals] /\ MaxRemovals \in Nat
    BY <1>1, ToastifyAssumption DEF CountdownNumbers
  <2>2. removals[e] + 1 \in 0..MaxRemovals
    BY <1>2, <2>1
  <2> QED
    BY <1>2, <2>1, <2>2
<1>4. CountdownNumbers'
  BY <1>1, <1>2, <1>3 DEF CountdownNumbers
<1>5. KnownCountdowns' /\ Paused'
  BY <1>1 DEF KnownCountdowns, Paused
<1>6. Counting'
  <2> SUFFICES ASSUME NEW f \in Elements, f.of \in Timed, f.shown = toastElement[f.of],
                      InBody(f), f \notin hidden', pointer # f
               PROVE  [at |-> f, set |-> timeOutValue[f]] \in countdowns'
    BY DEF Counting, Visible, InBody
  <2>1. [at |-> f, set |-> timeOutValue[f]] \in countdowns /\ f # e
    BY <1>1, <1>2 DEF Counting, Visible
  <2> QED
    BY <2>1
<1> QED
  BY <1>4, <1>5, <1>6 DEF CountdownInv

LEMMA CountdownEndCounts ==
  ASSUME ToastNumbers, CountdownInv, NEW c \in Countdowns, CountdownEnds(c)
  PROVE  CountdownInv'
<1>1. /\ c \in countdowns /\ countdowns' = countdowns \ {c} /\ RemoveElement(TargetOf(c))
      /\ UNCHANGED <<toastElement, stack, timeOutValue, pointer>>
  BY DEF CountdownEnds
<1>2. toastElement \in [Toasts -> 0..MaxShows]
  BY DEF ToastNumbers
<1>3. c.at \in Elements /\ c.at.shown <= toastElement[c.at.of]
  BY <1>1, CountdownFacts DEF CountdownInv, KnownCountdowns
<1>4. TargetOf(c) \in Elements
  <2>1. c.at.of \in Toasts /\ c.at.shown \in Nat /\ c.at.shown > 0
    BY <1>3, ElementFacts
  <2>2. MaxShows \in Nat
    BY ToastifyAssumption
  <2>3. toastElement[c.at.of] # 0
    BY <1>2, <1>3, <2>1, <2>2
  <2>4. Latest(c.at.of) \in Elements
    BY <1>2, <2>1, <2>3, LatestIsAnElement
  <2> QED
    BY <1>3, <2>4 DEF TargetOf
<1>5. c.at.shown = toastElement[c.at.of] => c.at = TargetOf(c)
  BY <1>2, <1>3, LatestFacts DEF TargetOf
<1> QED
  BY <1>1, <1>4, <1>5, HidingCounts

\* HideToast, and the close icon of any element of the object.
LEMMA HideCounts ==
  ASSUME ToastNumbers, CountdownInv, NEW t \in Toasts, toastElement[t] # 0,
         RemoveElement(Latest(t)), countdowns' = Cleared(Latest(t)),
         UNCHANGED <<toastElement, stack, timeOutValue, pointer>>
  PROVE  CountdownInv'
<1>1. Latest(t) \in Elements
  BY LatestIsAnElement DEF ToastNumbers
<1>2. countdowns' = countdowns \ {[at |-> Latest(t), set |-> timeOutValue[Latest(t)]]}
  BY DEF Cleared
<1> QED
  BY <1>1, <1>2, HidingCounts

LEMMA RemovalCounts ==
  ASSUME ToastNumbers, StackInv, CountdownInv, NEW e \in Elements, RemovalEnds(e)
  PROVE  CountdownInv'
<1>1. /\ removals[e] > 0 /\ removals' = [removals EXCEPT ![e] = @ - 1]
      /\ stack' = RemoveChild(stack, e)
      /\ pointer' = IF pointer = e THEN Nobody ELSE pointer
      /\ UNCHANGED <<toastElement, hidden, timeOutValue, countdowns>>
  BY DEF RemovalEnds, Without
<1>2. CountdownNumbers /\ KnownCountdowns /\ Paused /\ Counting
  BY DEF CountdownInv
<1>3. Nobody \notin Elements /\ MaxRemovals \in Nat
  BY ToastifyAssumption
<1>4. removals' \in [Elements -> 0..MaxRemovals]
  <2>1. removals \in [Elements -> 0..MaxRemovals]
    BY <1>2 DEF CountdownNumbers
  <2>2. removals[e] - 1 \in 0..MaxRemovals
    BY <1>1, <1>3, <2>1
  <2> QED
    BY <1>1, <2>1, <2>2
<1>5. CountdownNumbers'
  BY <1>1, <1>2, <1>4 DEF CountdownNumbers
<1>6. KnownCountdowns' /\ Paused'
  BY <1>1, <1>2, <1>3 DEF KnownCountdowns, Paused
<1>7. stack \in Seq(Elements) /\ Distinct(stack)
  BY DEF ToastNumbers, StackInv
<1>8. /\ stack' \in Seq(Elements)
      /\ \A i \in 1..Len(stack') : stack'[i] # e /\ \E j \in 1..Len(stack) : stack'[i] = stack[j]
  <2>1. /\ RemoveChild(stack, e) \in Seq(Elements)
        /\ \A i \in 1..Len(RemoveChild(stack, e)) :
             /\ RemoveChild(stack, e)[i] # e
             /\ \E j \in 1..Len(stack) : RemoveChild(stack, e)[i] = stack[j]
    BY <1>7, RemoveChildKeeps
  <2>2. stack' = RemoveChild(stack, e)
    BY <1>1
  <2> QED
    BY <2>1, <2>2
<1>9. \A f \in Elements : InBody(f)' => InBody(f) /\ f # e
  BY <1>7, <1>8 DEF InBody
<1>10. Counting'
  <2> SUFFICES ASSUME NEW f \in Elements, f.of \in Timed, f.shown = toastElement[f.of],
                      InBody(f)', f \notin hidden, pointer' # f
               PROVE  [at |-> f, set |-> timeOutValue[f]] \in countdowns
    BY <1>1 DEF Counting, Visible
  <2>1. InBody(f) /\ pointer # f
    BY <1>1, <1>9
  <2> QED
    BY <1>2, <2>1 DEF Counting, Visible
<1> QED
  BY <1>5, <1>6, <1>10 DEF CountdownInv

LEMMA CountdownsKept ==
  ASSUME ToastNumbers, StackInv, CountdownInv, [NextToasts]_toastVars
  PROVE  CountdownInv'
<1>1. ASSUME NEW t \in Toasts, ShowToast(t) PROVE CountdownInv'
  BY <1>1, ShowCounts
<1>2. ASSUME NEW t \in Toasts, HideToast(t) PROVE CountdownInv'
  BY <1>2, HideCounts DEF HideToast
<1>3. ASSUME NEW e \in Elements, MouseOver(e) PROVE CountdownInv'
  BY <1>3, MouseOverCounts
<1>4. ASSUME NEW e \in Elements, MouseLeave(e) PROVE CountdownInv'
  BY <1>4, MouseLeaveCounts
<1>5. ASSUME NEW e \in Elements, CloseClick(e) PROVE CountdownInv'
  <2>1. e.of \in Toasts /\ e.shown \in Nat /\ e.shown > 0 /\ e.shown <= toastElement[e.of]
    BY <1>5, ElementFacts DEF CloseClick, CountdownInv, Paused
  <2> QED
    BY <1>5, <2>1, HideCounts DEF CloseClick
<1>6. ASSUME NEW e \in Elements, RemovalEnds(e) PROVE CountdownInv'
  BY <1>6, RemovalCounts
<1>7. ASSUME NEW c \in Countdowns, CountdownEnds(c) PROVE CountdownInv'
  BY <1>7, CountdownEndCounts
<1>8. ASSUME UNCHANGED toastVars PROVE CountdownInv'
  BY <1>8 DEF toastVars, CountdownInv, CountdownNumbers, KnownCountdowns, Paused, Counting,
              Visible, InBody
<1> QED
  BY <1>1, <1>2, <1>3, <1>4, <1>5, <1>6, <1>7, <1>8 DEF NextToasts

ToastsInv == ToastNumbers /\ StackInv /\ CountdownInv

LEMMA ToastsAlways == Spec => []ToastsInv
<1>1. Init => ToastsInv
  BY StackBegins, CountdownsBegin DEF Init, ToastsInv
<1>2. ToastsInv /\ [Next]_pageVars => ToastsInv'
  BY StackKept, CountdownsKept, PartsStep DEF ToastsInv
<1> QED
  BY <1>1, <1>2, PTL DEF Spec

LEMMA PointerHolds ==
  ASSUME ToastsInv
  PROVE  PointerPauses
<1>1. /\ toastElement \in [Toasts -> 0..MaxShows] /\ countdowns \subseteq Countdowns
      /\ KnownCountdowns /\ Paused
  BY DEF ToastsInv, ToastNumbers, CountdownInv, CountdownNumbers
<1>2. SUFFICES ASSUME NEW e \in Elements, pointer = e, e.of \in Timed, NEW c \in countdowns
               PROVE  c.at # e /\ (TargetOf(c) = e => c.at.shown < e.shown)
  BY DEF PointerPauses
<1>3. c.at # e
  BY <1>1, <1>2 DEF Paused
<1>4. ASSUME TargetOf(c) = e PROVE c.at.shown < e.shown
  <2>1. c.set = "shown" /\ Latest(c.at.of) = e
    BY <1>3, <1>4 DEF TargetOf
  <2>2. e.of = c.at.of /\ e.shown = toastElement[c.at.of]
    BY <2>1 DEF Latest
  <2>3. c.at \in Elements /\ c.at.shown <= e.shown
    BY <1>1, <1>2, <2>2, CountdownFacts DEF KnownCountdowns
  <2>4. c.at.shown # e.shown
    BY <1>3, <2>2, <2>3, ElementFacts
  <2>5. c.at.shown \in Nat /\ e.shown \in Nat
    BY <1>2, <2>3, ElementFacts
  <2> QED
    BY <2>3, <2>4, <2>5
<1> QED
  BY <1>3, <1>4

\* The pointer stops the countdown of the toast it is on, for any number of shows; only one
\* of an earlier toast of the same object can still remove it.
THEOREM PointerAlwaysPauses == Spec => []PointerPauses
BY ToastsAlways, PointerHolds, PTL

LEMMA LatestCounts ==
  ASSUME ToastsInv
  PROVE  CountdownRuns
<1>1. toastElement \in [Toasts -> 0..MaxShows] /\ Counting
  BY DEF ToastsInv, ToastNumbers, CountdownInv
<1>2. SUFFICES ASSUME NEW t \in Timed, toastElement[t] # 0, Visible(Latest(t)),
                      pointer # Latest(t)
               PROVE  \E c \in countdowns : TargetOf(c) = Latest(t)
  BY DEF CountdownRuns
<1>3. t \in Toasts
  BY ToastifyAssumption
<1>4. /\ Latest(t) \in Elements /\ Latest(t).of = t
      /\ Latest(t).shown = toastElement[Latest(t).of]
  BY <1>1, <1>2, <1>3, LatestIsAnElement DEF Latest
<1>5. [at |-> Latest(t), set |-> timeOutValue[Latest(t)]] \in countdowns
  BY <1>1, <1>2, <1>4 DEF Counting
<1>6. TargetOf([at |-> Latest(t), set |-> timeOutValue[Latest(t)]]) = Latest(t)
  BY <1>4 DEF TargetOf
<1> QED
  BY <1>5, <1>6

\* The latest toast of an object with a duration counts down whenever it shows and the
\* pointer is not on it.
THEOREM ToastsAlwaysCount == Spec => []CountdownRuns
BY ToastsAlways, LatestCounts, PTL
--------------------------------------------------------------------------------
(* Types. *)

LEMMA InputTypes ==
  ASSUME InputInv', InputTypeOK, [NextInput]_inputVars
  PROVE  InputTypeOK'
<1>1. placeholder' \in BOOLEAN /\ offered' \in BOOLEAN /\ updated' \in BOOLEAN
  BY Zenon DEF InputTypeOK, NextInput, inputVars, PopulateInputOptions, UpdateInput, Choose
<1>2. inputValue' \in Values \cup {""} /\ (input' = "select" \/ placeholder' = FALSE)
  BY Zenon DEF InputTypeOK, NextInput, inputVars, PopulateInputOptions, UpdateInput, Choose
<1> QED
  BY <1>1, <1>2 DEF InputTypeOK, InputInv, ChoiceInv

LEMMA InputTypesBegin == ASSUME InitInput PROVE InputTypeOK
<1>1. input \in {"select", "radio"} /\ inputValue \in Values \cup {""}
  BY DEF InitInput
<1>2. placeholder \in BOOLEAN /\ offered \in BOOLEAN /\ updated \in BOOLEAN
  <2>1. CASE input = "select"
    BY <2>1, Zenon DEF InitInput
  <2>2. CASE input # "select"
    <3>1. placeholder = FALSE
      BY <2>2 DEF InitInput
    <3> QED
      BY <3>1, Zenon DEF InitInput
  <2> QED
    BY <2>1, <2>2
<1>3. input = "select" \/ placeholder = FALSE
  BY DEF InitInput
<1> QED
  BY <1>1, <1>2, <1>3, InputBegins DEF InputTypeOK, InputInv, ChoiceInv

LEMMA PageStays == ASSUME [Next]_pageVars PROVE page' = page
<1>1. ASSUME NextScripts PROVE page' = page
  BY <1>1 DEF NextScripts, Submit, FetchEnds, CeremonyEnds, VerifyEnds, Answer, SuccessCloses,
             Leave
<1> QED
  BY <1>1 DEF Next, pageVars, scriptVars

\* The parts' invariants together.
PageInv ==
  /\ page \in CeremonyPages \cup WidgetPages
  /\ ScriptsInv /\ ToastsInv /\ InstantInv
  /\ TimerInv /\ TimerTypeOK
  /\ ButtonInv /\ ButtonsTypeOK
  /\ InputInv /\ InputTypeOK

\* Every variable of a page stays in its type.
THEOREM TypeCorrect == Spec => []TypeOK
<1>1. Init => PageInv
  BY ScriptsBegin, StackBegins, CountdownsBegin, InstantBegins, TimerBegins, ButtonsBegin,
     InputBegins, InputTypesBegin DEF Init, PageInv, ToastsInv
<1>2. ASSUME PageInv, [Next]_pageVars PROVE PageInv'
  <2>1. ScriptsInv' /\ ToastsInv' /\ InstantInv'
    BY <1>2, PartsStep, ScriptsKept, StackKept, CountdownsKept, InstantKept
       DEF PageInv, ToastsInv
  <2>2. TimerInv' /\ TimerTypeOK'
    BY <1>2, PartsStep, TimerKept, TimerTypes DEF PageInv
  <2>3. ButtonInv' /\ ButtonsTypeOK'
    BY <1>2, PartsStep, ButtonsKept, ButtonTypes DEF PageInv
  <2>4. InputInv' /\ InputTypeOK'
    BY <1>2, PartsStep, InputKept, InputTypes DEF PageInv
  <2>5. page' = page
    BY <1>2, PartsStep, PageStays DEF PageInv
  <2> QED
    BY <1>2, <2>1, <2>2, <2>3, <2>4, <2>5 DEF PageInv
<1>3. PageInv => TypeOK
  <2>1. ToastsInv => ToastsTypeOK
    BY DEF ToastsInv, ToastNumbers, CountdownInv, CountdownNumbers, ToastsTypeOK
  <2> QED
    BY <2>1 DEF PageInv, TypeOK, ScriptsInv, InstantInv
<1> QED
  BY <1>1, <1>2, <1>3, PTL DEF Spec
================================================================================
