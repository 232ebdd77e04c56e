----------------------------- MODULE DialogButtons -----------------------------
(***************************************************************************)
(* Inside one modal dialog of SweetAlert: the controls of its popup, the   *)
(* loader that stands for one of its buttons, updates that render the      *)
(* buttons anew, and the keys by which the focus moves.  In SweetAlert the *)
(* focus is in the popup or not, and a button is there or not.             *)
(*                                                                         *)
(* Left out: audio, frames and the like inside the text of a dialog,       *)
(* tabindexes of its author, reverseButtons, and custom classes, by which  *)
(* hideLoading also looks for the button.  The loader may lie between two  *)
(* buttons: an arrow that goes from one to the other then does nothing.    *)
(***************************************************************************)
EXTENDS Integers, Sequences

CONSTANT Preferred \* the button of focusConfirm, focusDeny or focusCancel

VARIABLES rendered,     \* the controls that the parameters show
          displayed,    \* those whose own style displays them, shown or not
          actionsShown, \* the container of the buttons and the loader is displayed
          disabled,     \* the buttons are
          awaited,      \* the options or the value of the input are still to come
          loading,      \* the loader is displayed
          toReplace,    \* data-button-to-replace of the loader
          overtaken,    \* history: hidden buttons whose loader went over to another
          keyFocus      \* the control with the focus, the popup itself, or the page

buttonVars == <<rendered, displayed, actionsShown, disabled, awaited, loading, toReplace,
                overtaken, keyFocus>>

\* In the order of the document.
Controls == <<"close", "input", "confirm", "deny", "cancel">>

ControlSet == {Controls[i] : i \in 1..Len(Controls)}

Actions == {"confirm", "deny", "cancel"}

ASSUME ButtonsAssumption == Preferred \in Actions \cup {"none"}

ButtonsTypeOK ==
  /\ rendered \subseteq ControlSet /\ displayed \subseteq ControlSet
  /\ actionsShown \in BOOLEAN /\ disabled \in BOOLEAN
  /\ awaited \in BOOLEAN /\ loading \in BOOLEAN
  /\ toReplace \in Actions \cup {"none"}
  /\ overtaken \subseteq Actions
  /\ keyFocus \in ControlSet \cup {"popup", "page"}

\* isVisible: a button is seen with the container around it.
VisibleOf(shown, around) == {c \in shown : c \in Actions => around}

IsVisible(c) == c \in VisibleOf(displayed, actionsShown)

UsableOf(shown, around, off) == VisibleOf(shown, around) \ (IF off THEN Actions ELSE {})

Usable(c) == c \in UsableOf(displayed, actionsShown, disabled)

\* getFocusableElements, by their positions in the document
FocusableElements == {i \in 1..Len(Controls) : Usable(Controls[i])}

Ahead(from, increment) ==
  {i \in FocusableElements : IF increment = 1 THEN i > from ELSE i < from}

Nearest(positions, increment) ==
  CHOOSE i \in positions :
    \A j \in positions : IF increment = 1 THEN i <= j ELSE i >= j

SetFocus_NoRollover(from, increment) == \* mutant: the end of the list is not looked for
  IF FocusableElements = {} THEN "popup"
  ELSE IF Ahead(from, increment) = {} THEN "page"
  ELSE Controls[Nearest(Ahead(from, increment), increment)]

\* The next control, or the previous one, round the list.  The popup itself is not in the
\* list, at position 0: from there back, setFocus throws, and the browser moves the focus.
SetFocus(from, increment) ==
  LET ahead == Ahead(from, increment)
      reached == IF ahead = {} THEN FocusableElements ELSE ahead
  IN IF FocusableElements = {} THEN "popup"
     ELSE IF from = 0 /\ increment = -1 THEN "page"
     ELSE Controls[Nearest(reached, increment)]

\* A dialog opens.  Options or a value of its input that are a promise show the loader for
\* Confirm, there or not, and the input is still hidden, except a select without options.
\* Then the focus goes to a button or the first control, or leaves with allowEnterKey FALSE.
InitButtons ==
  /\ rendered \in SUBSET ControlSet
  /\ awaited \in BOOLEAN /\ (awaited => "input" \in rendered)
  /\ loading = awaited
  /\ toReplace = IF awaited THEN "confirm" ELSE "none"
  /\ \/ displayed = rendered \ {toReplace}
     \/ awaited /\ displayed = rendered \ {toReplace, "input"}
  /\ actionsShown = (awaited \/ rendered \cap Actions # {})
  /\ disabled = FALSE
  /\ overtaken = {}
  /\ \/ keyFocus = IF IsVisible(Preferred) THEN Preferred ELSE SetFocus(0, 1)
     \/ keyFocus = "page"
--------------------------------------------------------------------------------
IndexOf(target) ==
  IF \E i \in FocusableElements : Controls[i] = target
  THEN CHOOSE i \in FocusableElements : Controls[i] = target ELSE 0

FocusMoves(to) ==
  /\ keyFocus' = to
  /\ UNCHANGED <<rendered, displayed, actionsShown, disabled, awaited, loading, toReplace,
                 overtaken>>

\* A key is the popup's as long as the focus is in it.
Tab(increment) ==
  /\ keyFocus # "page"
  /\ FocusMoves(SetFocus(IndexOf(keyFocus), increment))

\* The next or previous sibling of a button; a hidden or disabled one cannot be focused.
Arrow(increment) ==
  /\ keyFocus \in Actions
  /\ LET sibling == Controls[(CHOOSE i \in 1..Len(Controls) : Controls[i] = keyFocus) + increment]
     IN /\ ~(keyFocus = "cancel" /\ increment = 1)
        /\ sibling \in Actions /\ Usable(sibling)
        /\ FocusMoves(sibling)

\* The user clicks a control, or the background of the popup; an input also takes the focus
\* itself just after the dialog opened.
PointAt(x) ==
  /\ x = "popup" \/ Usable(x)
  /\ FocusMoves(x)

\* replaceButton: without an argument, the confirm button if it is displayed.
ReplacedBy(b) == IF b = "none" /\ IsVisible("confirm") THEN "confirm" ELSE b

NextToReplace_Kept(b) == toReplace \* mutant: the attribute is not written

NextToReplace(b) == IF ReplacedBy(b) = "none" THEN toReplace ELSE ReplacedBy(b)

\* Swal.showLoading, and confirm and deny with the button of theirs, there or not.
ShowLoadingFor(b) ==
  /\ displayed' = displayed \ {ReplacedBy(b)}
  /\ actionsShown' = TRUE
  /\ toReplace' = NextToReplace(b)
  /\ loading' = TRUE
  /\ overtaken' = IF loading /\ ReplacedBy(b) # "none"
                  THEN (overtaken \cup {toReplace}) \ (displayed \cup {ReplacedBy(b), "none"})
                  ELSE overtaken
  /\ keyFocus' = "popup"
  /\ UNCHANGED <<rendered, disabled, awaited>>

\* hideLoading: the button of the attribute is displayed, of the dialog or not, or else a
\* container without buttons is hidden; and the buttons are enabled.
LoaderGoes ==
  /\ actionsShown' = (actionsShown /\ (toReplace # "none" \/ \E b \in Actions : IsVisible(b)))
  /\ loading' = FALSE
  /\ disabled' = FALSE
  /\ overtaken' = overtaken \ {toReplace}
  /\ UNCHANGED <<rendered, toReplace>>

HideLoading ==
  /\ LoaderGoes
  /\ displayed' = displayed \cup ({toReplace} \ {"none"})
  /\ UNCHANGED <<awaited, keyFocus>>

\* The options or the value arrive: the input is there and has the focus, and whichever
\* loader shows goes.
InputArrives ==
  /\ awaited
  /\ awaited' = FALSE
  /\ LoaderGoes
  /\ displayed' = displayed \cup ({toReplace, "input"} \ {"none"})
  /\ keyFocus' = "input"

\* What has the focus and can no longer be used gives it to the page.
Refocused(usable) == IF keyFocus \in ControlSet \ usable THEN "page" ELSE keyFocus

\* disableButtons and enableButtons; a browser may leave the focus on a disabled button.
Disable(d) ==
  /\ disabled' = d
  /\ keyFocus' \in {keyFocus, Refocused(UsableOf(displayed, actionsShown, d))}
  /\ UNCHANGED <<rendered, displayed, actionsShown, awaited, loading, toReplace, overtaken>>

\* update renders the buttons to new parameters, also under the loader and also the button
\* that the loader stands for; the input stays as it is.
Update(controls) ==
  /\ controls \cap {"input"} = rendered \cap {"input"}
  /\ rendered' = controls
  /\ displayed' = (controls \ {"input"}) \cup (displayed \cap {"input"})
  /\ actionsShown' = (controls \cap Actions # {})
  /\ overtaken' = {}
  /\ keyFocus' = Refocused(UsableOf(displayed', actionsShown', disabled))
  /\ UNCHANGED <<disabled, awaited, loading, toReplace>>

NextButtons ==
  \/ \E i \in {1, -1} : Tab(i) \/ Arrow(i)
  \/ \E x \in ControlSet \cup {"popup"} : PointAt(x)
  \/ \E b \in Actions \cup {"none"} : ShowLoadingFor(b)
  \/ HideLoading \/ InputArrives
  \/ \E d \in BOOLEAN : Disable(d)
  \/ \E controls \in SUBSET ControlSet : Update(controls)
--------------------------------------------------------------------------------
KeptStep ==
  \A c \in ControlSet : keyFocus = c /\ Usable(c) /\ keyFocus' = "page" => ~Usable(c)'

\* The focus is trapped: no key takes it from a control of the dialog to the page behind,
\* whatever buttons are hidden or disabled; it is lost only with a control that is disabled
\* or taken out by an update.
FocusIsTrapped == [][KeptStep]_buttonVars

\* Without a loader every button of the dialog is there, however loaders, updates and late
\* options came over each other; only one whose loader went over to another button may be
\* lost until an update.  (A button that the dialog does not have may be there as well.)
LoaderGivesBack == ~loading => \A b \in (rendered \cap Actions) \ overtaken : IsVisible(b)
================================================================================
