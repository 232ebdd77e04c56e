-------------------------------- MODULE Toastify --------------------------------
(***************************************************************************)
(* Toastify 1.9.3: toasts on the body of a page, the countdown of each,    *)
(* which a pointer over it pauses, the removal 400 ms after a toast was    *)
(* hidden, and the places that reposition gives them.                      *)
(*                                                                         *)
(* A toast object can be shown again, which builds a second element.  Left *)
(* out: contents, avatars, offsets and the callbacks of the page; all      *)
(* toasts are as high as one place, and the options "selector" and         *)
(* "destination" are not used.                                             *)
(***************************************************************************)
EXTENDS Naturals, FiniteSets, Sequences

CONSTANTS Toasts,   \* the objects that Toastify() made
          Timed,    \* those with a duration, whose countdown a pointer pauses
          Closable, \* those with a close icon
          MaxShows, \* bound: how often each is shown
          MaxRemovals, \* bound: removals of an element that are under way
          GravityOf,  \* the options "gravity",
          PositionOf, \* "position" and
          PositionLeft, \* "positionLeft": the toasts with it
          Narrow,   \* the screen is at most 360 px wide
          Nobody

VARIABLES toastElement, \* the element of each object: the last it built, 0 before
          stack,        \* the elements in the body, the newest first
          hidden,       \* elements that lost the class "on"
          timeOutValue, \* the countdown that each element knows
          countdowns,   \* the countdowns that run
          removals,     \* how many removals of each element are under way
          pointer,      \* the element under the pointer
          place         \* style.top or style.bottom of each element of the body

toastVars == <<toastElement, stack, hidden, timeOutValue, countdowns, removals, pointer, place>>

Elements == [of : Toasts, shown : 1..MaxShows]

\* showToast and mouseleave each set a countdown.
Countdowns == [at : Elements, set : {"shown", "left"}]

ASSUME ToastifyAssumption ==
  /\ Timed \cup Closable \subseteq Toasts
  /\ MaxShows \in Nat /\ MaxRemovals \in Nat
  /\ Narrow \in BOOLEAN
  /\ Nobody \notin Elements
  /\ GravityOf \in [Toasts -> {"top", "bottom"}]
  /\ PositionOf \in [Toasts -> {"left", "center", "right", ""}]
  /\ PositionLeft \subseteq Toasts

InBody(e) == \E i \in DOMAIN stack : stack[i] = e

ToastsTypeOK ==
  /\ toastElement \in [Toasts -> 0..MaxShows]
  /\ stack \in Seq(Elements)
  /\ hidden \subseteq Elements
  /\ timeOutValue \in [Elements -> {"none", "shown", "left"}]
  /\ countdowns \subseteq Countdowns
  /\ removals \in [Elements -> 0..MaxRemovals]
  /\ pointer \in Elements \cup {Nobody}
  /\ place \in [Elements -> Nat]

InitToasts ==
  /\ toastElement = [t \in Toasts |-> 0]
  /\ stack = <<>>
  /\ hidden = {}
  /\ timeOutValue = [e \in Elements |-> "none"]
  /\ countdowns = {}
  /\ removals = [e \in Elements |-> 0]
  /\ pointer = Nobody
  /\ place = [e \in Elements |-> 0]
--------------------------------------------------------------------------------
\* The classes of a toast, as reposition reads them: one in the center counts as right.
Side(t) ==
  IF PositionOf[t] = "left" \/ (PositionOf[t] = "" /\ t \in PositionLeft) THEN "left" ELSE "right"

Corner(t) == <<GravityOf[t], Side(t)>>

Latest(t) == [of |-> t, shown |-> toastElement[t]]

\* On a narrow screen the toasts of both sides share the stack of their gravity.
SameStack(e, f) ==
  IF Narrow THEN GravityOf[e.of] = GravityOf[f.of] ELSE Corner(e.of) = Corner(f.of)

Offset_Sides(body, i) == \* mutant: each side has its stack, also on a narrow screen
  Cardinality({j \in 1..i : Corner(body[j].of) = Corner(body[i].of)})

\* The place of an element of body, after those before it in the same stack.
Offset(body, i) == Cardinality({j \in 1..i : SameStack(body[j], body[i])})

Reposition(body) ==
  place' = [e \in Elements |->
              IF \E i \in DOMAIN body : body[i] = e
              THEN Offset(body, CHOOSE i \in DOMAIN body : body[i] = e) ELSE 0]

\* removeElement: also an element that is hidden or gone is removed again.
RemoveElement(e) ==
  /\ removals[e] < MaxRemovals
  /\ hidden' = hidden \cup {e}
  /\ removals' = [removals EXCEPT ![e] = @ + 1]

ShowToast(t) ==
  /\ toastElement[t] < MaxShows
  /\ LET e == [of |-> t, shown |-> toastElement[t] + 1]
     IN /\ toastElement' = [toastElement EXCEPT ![t] = e.shown]
        /\ stack' = <<e>> \o stack
        /\ Reposition(stack')
        /\ IF t \in Timed
           THEN /\ timeOutValue' = [timeOutValue EXCEPT ![e] = "shown"]
                /\ countdowns' = countdowns \cup {[at |-> e, set |-> "shown"]}
           ELSE UNCHANGED <<timeOutValue, countdowns>>
  /\ UNCHANGED <<hidden, removals, pointer>>

\* window.clearTimeout(e.timeOutValue)
Cleared(e) == countdowns \ {[at |-> e, set |-> timeOutValue[e]]}

MouseOver(e) ==
  /\ InBody(e)
  /\ pointer = Nobody
  /\ pointer' = e
  /\ countdowns' = IF e.of \in Timed THEN Cleared(e) ELSE countdowns
  /\ UNCHANGED <<toastElement, stack, hidden, timeOutValue, removals, place>>

Known_Forgotten(e) == timeOutValue \* mutant: mouseleave does not keep the new countdown

Known(e) == [timeOutValue EXCEPT ![e] = "left"]

Resumed_Never(e) == countdowns \* mutant: mouseleave does not start the countdown again

Resumed(e) == countdowns \cup {[at |-> e, set |-> "left"]}

MouseLeave(e) ==
  /\ pointer = e
  /\ pointer' = Nobody
  /\ IF e.of \in Timed
     THEN timeOutValue' = Known(e) /\ countdowns' = Resumed(e)
     ELSE UNCHANGED <<timeOutValue, countdowns>>
  /\ UNCHANGED <<toastElement, stack, hidden, removals, place>>

\* The countdown of showToast removes the element that its object has by then.
TargetOf(c) == IF c.set = "shown" THEN Latest(c.at.of) ELSE c.at

CountdownEnds(c) ==
  /\ c \in countdowns
  /\ countdowns' = countdowns \ {c}
  /\ RemoveElement(TargetOf(c))
  /\ UNCHANGED <<toastElement, stack, timeOutValue, pointer, place>>

\* The close icon is on e, and what it closes is the element of the object.
CloseClick(e) ==
  /\ pointer = e
  /\ e.of \in Closable
  /\ RemoveElement(Latest(e.of))
  /\ countdowns' = Cleared(Latest(e.of))
  /\ UNCHANGED <<toastElement, stack, timeOutValue, pointer, place>>

HideToast(t) ==
  /\ toastElement[t] # 0
  /\ RemoveElement(Latest(t))
  /\ countdowns' = Cleared(Latest(t))
  /\ UNCHANGED <<toastElement, stack, timeOutValue, pointer, place>>

\* removeChild, if the element is still in the body
RemoveChild(body, e) ==
  LET i == CHOOSE i \in DOMAIN body : body[i] = e
  IN IF \E j \in DOMAIN body : body[j] = e
     THEN SubSeq(body, 1, i - 1) \o SubSeq(body, i + 1, Len(body)) ELSE body

Without_Visible(e) == \* mutant: an element that lost its class is not found
  IF e \in hidden THEN stack ELSE RemoveChild(stack, e)

Without(e) == RemoveChild(stack, e)

\* The timeout of removeElement; nothing is removed twice.
RemovalEnds(e) ==
  /\ removals[e] > 0
  /\ removals' = [removals EXCEPT ![e] = @ - 1]
  /\ stack' = Without(e)
  /\ Reposition(stack')
  /\ pointer' = IF pointer = e THEN Nobody ELSE pointer
  /\ UNCHANGED <<toastElement, hidden, timeOutValue, countdowns>>

NextToasts ==
  \/ \E t \in Toasts : ShowToast(t) \/ HideToast(t)
  \/ \E e \in Elements : MouseOver(e) \/ MouseLeave(e) \/ CloseClick(e) \/ RemovalEnds(e)
  \/ \E c \in Countdowns : CountdownEnds(c)

\* The browser runs its timeouts.
FairToasts ==
  /\ \A e \in Elements : WF_toastVars(RemovalEnds(e))
  /\ \A c \in Countdowns : WF_toastVars(CountdownEnds(c))
--------------------------------------------------------------------------------
Visible(e) == InBody(e) /\ e \notin hidden

\* No toast is left on the page for ever: one that shows counts down, unless the pointer is
\* on it.  An object that is shown twice leaves its first element behind.
CountdownRuns ==
  \A t \in Timed : toastElement[t] # 0 /\ Visible(Latest(t)) =>
    pointer = Latest(t) \/ \E c \in countdowns : TargetOf(c) = Latest(t)

\* The pointer stops the countdown of the very toast it is on, however often it came and
\* went and its object was shown.  What it does not stop is the countdown of an earlier toast
\* of the same object, which then removes the toast under the pointer instead of its own.
PointerPauses ==
  \A e \in Elements : pointer = e /\ e.of \in Timed =>
    \A c \in countdowns : c.at # e /\ (TargetOf(c) = e => c.at.shown < e.shown)

\* Toasts of one corner never lie on each other, in whatever order they come and go.
NoneOverlap ==
  \A e, f \in Elements : InBody(e) /\ InBody(f) /\ e # f /\ SameStack(e, f) => place[e] # place[f]

\* A toast that counts down leaves the page, unless the pointer keeps it.
ToastGoesAway ==
  \A t \in Timed : toastElement[t] = 1 ~> pointer = Latest(t) \/ ~InBody(Latest(t))
================================================================================
