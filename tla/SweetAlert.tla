------------------------------- MODULE SweetAlert -------------------------------
(***************************************************************************)
(* SweetAlert 11.1.7, the dialogs of the pages: one popup in the document, *)
(* the instances that Swal.fire makes, the state they share (globalState,  *)
(* the WeakMaps, the classes and attributes of the page) and the tasks the *)
(* browser runs later: the end of the closing animation, the return of the *)
(* focus, the disposal, the timer, and the promises of validators, hooks   *)
(* and remote options.                                                     *)
(*                                                                         *)
(* Left out: texts, icons and layout; which button the loader replaces;    *)
(* allowEnterKey FALSE, keydownListenerCapture and hooks that call Swal    *)
(* before they return (didClose and didOpen are tasks of their own, and    *)
(* what they call is an action here).                                      *)
(***************************************************************************)
EXTENDS Naturals

CONSTANTS MaxDialogs,   \* bound: the instances a page makes
          Options,      \* the parameters it fires them with
          Updates,      \* the parameters it updates them with
          PageElements, \* the children of the body
          Marked,       \* those the page itself marked aria-hidden
          Slots,        \* bound: promises that are awaited at once
          None

VARIABLES params,              \* privateProps.innerParams, None where there is no entry
          latest,              \* currentInstance, behind the static methods
          currentInstance,     \* globalState.currentInstance
          popup,               \* the popup in the document
          promise,             \* the promise of each instance
          timeout,             \* globalState.timeout
          closeCallback,       \* the instance of swalCloseEventFinishedCallback
          restoreFocusTimeout, \* the instance of globalState.restoreFocusTimeout
          disposals,           \* tasks that triggerDidCloseAndDispose queued
          pending,             \* promises of validators, hooks and options
          page                 \* body classes, aria-hidden, padding, focus

vars == <<params, latest, currentInstance, popup, promise, timeout, closeCallback,
          restoreFocusTimeout, disposals, pending, page>>

Buttons == {"confirm", "deny"}

\* The reason of a dismissal is left out.
Outcomes == {"confirmed", "denied", "dismissed"}

\* Instances are numbered in the order in which they are made; 0 is before the first.
Ids == 1..MaxDialogs

Option == [toast : BOOLEAN, backdrop : BOOLEAN,
           animated : BOOLEAN,    \* hideClass animates the popup
           returnFocus : BOOLEAN, timer : BOOLEAN,
           hook : BOOLEAN,        \* preConfirm and preDeny
           loader : BOOLEAN,      \* showLoaderOnConfirm and showLoaderOnDeny
           remote : BOOLEAN,      \* inputOptions or inputValue is a promise
           escape : BOOLEAN, outside : BOOLEAN,
           buttons : BOOLEAN,     \* a button is shown
           denyInput : BOOLEAN,   \* returnInputValueOnDeny
           input : {"none", "plain", "validated"}]

DefaultParams ==
  [toast |-> FALSE, backdrop |-> TRUE, animated |-> TRUE, returnFocus |-> TRUE,
   timer |-> FALSE, hook |-> FALSE, loader |-> FALSE, remote |-> FALSE,
   escape |-> TRUE, outside |-> TRUE, buttons |-> TRUE, denyInput |-> FALSE,
   input |-> "none"]

Popup == [of : Ids, closing : BOOLEAN,
          disabled : BOOLEAN, \* the buttons
          invalid : BOOLEAN]  \* the validation message is visible

Checks == [of : Ids, step : {"validator", "hook", "options"}, button : Buttons]

Focusable == PageElements \cup {"body", "popup"}

\* aria-hidden: no attribute, the page's own, or the one of setAriaHidden.
AriaHidden == {"absent", "page", "swal"}

Page == [classes : SUBSET {"shown", "toast-shown", "no-backdrop"},
         shifted : BOOLEAN,                \* previousBodyPadding and the iosfix class
         aria : [PageElements -> AriaHidden],
         previous : [PageElements -> AriaHidden], \* data-previous-aria-hidden
         focus : Focusable,                \* document.activeElement
         previousActiveElement : Focusable \cup {"none"}]

ASSUME SweetAlertAssumption ==
  /\ Options \cup Updates \subseteq Option
  /\ Marked \subseteq PageElements
  /\ PageElements \cap {"body", "popup", "none"} = {}
  /\ MaxDialogs \in Nat
  /\ None \notin Ids \cup Option \cup Popup \cup Checks \cup [of : Ids, running : BOOLEAN]

TypeOK ==
  /\ params \in [Ids -> Option \cup {None}]
  /\ latest \in Ids \cup {0}
  /\ currentInstance \in Ids \cup {None}
  /\ popup \in Popup \cup {None}
  /\ promise \in [Ids -> Outcomes \cup {"pending"}]
  /\ timeout \in [of : Ids, running : BOOLEAN] \cup {None}
  /\ closeCallback \in Ids \cup {None}
  /\ restoreFocusTimeout \in Ids \cup {None}
  /\ disposals \subseteq Ids
  /\ pending \in [Slots -> Checks \cup {None}]
  /\ page \in Page

Unhidden == [e \in PageElements |-> "absent"]

Init ==
  /\ params = [d \in Ids |-> None]
  /\ latest = 0
  /\ currentInstance = None
  /\ popup = None
  /\ promise = [d \in Ids |-> "pending"]
  /\ timeout = None
  /\ closeCallback = None
  /\ restoreFocusTimeout = None
  /\ disposals = {}
  /\ pending = [s \in Slots |-> None]
  /\ page = [classes |-> {}, shifted |-> FALSE,
             aria |-> [e \in PageElements |-> IF e \in Marked THEN "page" ELSE "absent"],
             previous |-> Unhidden, focus |-> "body", previousActiveElement |-> "none"]
--------------------------------------------------------------------------------
(* The page around the popup. *)

IsToast(pg) == "toast-shown" \in pg.classes

IsModal(pg) == ~IsToast(pg) /\ "no-backdrop" \notin pg.classes

SetAriaHidden(pg) ==
  [pg EXCEPT !.aria = [e \in PageElements |-> "swal"],
             !.previous = [e \in PageElements |-> IF pg.aria[e] # "absent"
                                                  THEN pg.aria[e] ELSE pg.previous[e]]]

UnsetAriaHidden(pg) == [pg EXCEPT !.aria = pg.previous, !.previous = Unhidden]

\* The focus goes to the body when the element that has it is removed.
DropFocus(f) == IF f = "popup" THEN "body" ELSE f

\* iOSfix and fixScrollbar, on a page long enough to scroll.
FixScrollContainer(pg) == [pg EXCEPT !.shifted = TRUE]

\* undoScrollbar and undoIOSfix
UndoScroll(pg) == [pg EXCEPT !.shifted = FALSE]

RemoveBodyClasses(pg) == [pg EXCEPT !.classes = {}]

\* What removePopupAndResetState does to the page.
RemoveContainer(pg) ==
  LET removed == [pg EXCEPT !.focus = DropFocus(@)]
  IN RemoveBodyClasses(IF IsModal(pg) THEN UnsetAriaHidden(UndoScroll(removed)) ELSE removed)

\* resetOldContainer: only the classes of the old dialog's kind are removed.
ResetOldContainer(pg) ==
  [pg EXCEPT !.classes = @ \ {"no-backdrop", "toast-shown"}, !.focus = DropFocus(@)]

\* render: the classes of the kind of the dialog
AddClasses(pg, o) ==
  [pg EXCEPT !.classes = @ \cup (IF o.toast THEN {"toast-shown"} ELSE {})
                           \cup (IF o.backdrop THEN {} ELSE {"no-backdrop"})]

RememberFocus(pg) ==
  [pg EXCEPT !.previousActiveElement = IF @ = "none" THEN pg.focus ELSE @]

\* openPopup, then initFocus
OpenPopup(pg, o) ==
  LET shown == [pg EXCEPT !.classes = @ \cup {"shown"}]
      hidden == IF IsModal(shown) THEN SetAriaHidden(FixScrollContainer(shown)) ELSE shown
  IN IF o.toast THEN hidden ELSE [RememberFocus(hidden) EXCEPT !.focus = "popup"]
--------------------------------------------------------------------------------
(* Swal.fire: the constructor and _main. *)

\* privateProps.innerParams.get(instance)
Live(d) == params[d] # None

\* disposeSwal: unsetWeakMaps forgets every instance.
Forgotten == [d \in Ids |-> None]

\* The old instance is destroyed: a closing popup is removed at once.
Closing == currentInstance # None /\ Live(currentInstance) /\ closeCallback # None

AfterDestroy_Hidden == \* mutant: aria-hidden is only taken away by a removal
  IF Closing THEN RemoveContainer(page) ELSE page

\* _main takes aria-hidden away again, also when the removal just did.
AfterDestroy ==
  LET removed == IF Closing THEN RemoveContainer(page) ELSE page
  IN IF currentInstance # None /\ IsModal(removed) THEN UnsetAriaHidden(removed) ELSE removed

OldContainerRemoved ==
  IF popup # None /\ ~Closing THEN ResetOldContainer(AfterDestroy) ELSE AfterDestroy

\* A removal queues the disposal itself unless it first gives the focus back.
DisposesAtOnce(d) == IsToast(page) \/ ~params[d].returnFocus

NextCloseCallback_Kept == closeCallback \* mutant: called but not deleted

NextCloseCallback == IF Closing THEN None ELSE closeCallback

NextTimeout_Kept(d, o) == \* mutant: only a new timer stops the old one
  IF o.timer THEN [of |-> d, running |-> TRUE] ELSE timeout

NextTimeout(d, o) == IF o.timer THEN [of |-> d, running |-> TRUE] ELSE None

Main(d, o) ==
  /\ d = latest + 1
  /\ params' = [IF currentInstance # None /\ Live(currentInstance) THEN Forgotten ELSE params
                EXCEPT ![d] = o]
  /\ latest' = d
  /\ currentInstance' = d
  /\ disposals' = IF Closing /\ DisposesAtOnce(closeCallback)
                  THEN disposals \cup {closeCallback} ELSE disposals
  /\ closeCallback' = NextCloseCallback
  /\ restoreFocusTimeout' = None
  /\ timeout' = NextTimeout(d, o)
  /\ popup' = [of |-> d, closing |-> FALSE, disabled |-> FALSE, invalid |-> FALSE]
  /\ page' = OpenPopup(AddClasses(OldContainerRemoved, o), o)
  /\ UNCHANGED promise

\* A promise is awaited in a free slot.
Await(awaited, check) ==
  \E s \in Slots : awaited[s] = None /\ pending' = [awaited EXCEPT ![s] = check]

Check(d, step, b) == [of |-> d, step |-> step, button |-> b]

\* handleInputOptionsAndValue awaits the options of the input, or its value.
Fire(d, o) ==
  /\ Main(d, o)
  /\ IF o.remote THEN Await(pending, Check(d, "options", "confirm")) ELSE UNCHANGED pending

FocusPopup(pg) == [pg EXCEPT !.focus = "popup"]

\* A new dialog with no parameters, for a loader that has no popup to be in.
ShowLoading ==
  \/ /\ popup # None
     /\ page' = FocusPopup(page)
     /\ UNCHANGED <<params, latest, currentInstance, popup, promise, timeout, closeCallback,
                    restoreFocusTimeout, disposals, pending>>
  \/ /\ popup = None
     /\ \E ghost \in Ids : Main(ghost, DefaultParams)
     /\ UNCHANGED pending
--------------------------------------------------------------------------------
(* Closing. *)

\* removePopupAndResetState(d), for the popup that is in the document.
RemovePopupAndResetState(d, pg) ==
  /\ popup' = None
  /\ page' = RemoveContainer(pg)
  /\ IF DisposesAtOnce(d)
     THEN /\ disposals' = disposals \cup {d}
          /\ UNCHANGED restoreFocusTimeout
     ELSE /\ restoreFocusTimeout' = d
          /\ UNCHANGED disposals

Closable_Again(d, shown) == shown # None /\ Live(d) \* mutant: no look at hideClass

Closable(d, shown) == shown # None /\ Live(d) /\ ~shown.closing

\* swalPromiseResolve; that it is called once is ImplementsDialogs' to show.
Resolved(d, outcome) == [promise EXCEPT ![d] = outcome]

\* close of instance d, by a handler that leaves the popup as "shown" and the page as pg.
Close(d, outcome, shown, pg) ==
  IF ~Closable(d, shown)
  THEN /\ popup' = shown
       /\ page' = pg
       /\ UNCHANGED <<promise, closeCallback, restoreFocusTimeout, disposals>>
  ELSE /\ promise' = Resolved(d, outcome)
       /\ IF params[d].animated
          THEN /\ closeCallback' = d
               /\ popup' = [shown EXCEPT !.closing = TRUE]
               /\ page' = pg
               /\ UNCHANGED <<restoreFocusTimeout, disposals>>
          ELSE RemovePopupAndResetState(d, pg) /\ UNCHANGED closeCallback

\* What no handler of a popup changes.
Instances == <<params, latest, currentInstance>>

\* animationend of a closing popup
AnimationEnd ==
  /\ closeCallback # None
  /\ RemovePopupAndResetState(closeCallback, page)
  /\ closeCallback' = None
  /\ UNCHANGED <<Instances, promise, timeout, pending>>

RestoreFocus_Throws == \* mutant: the focus fails and the promise never resolves
  /\ restoreFocusTimeout # None
  /\ restoreFocusTimeout' = None
  /\ UNCHANGED <<Instances, popup, promise, timeout, closeCallback, disposals, pending, page>>

\* The timeout of restoreActiveElement, then triggerDidCloseAndDispose.
RestoreFocus ==
  /\ restoreFocusTimeout # None
  /\ page' = IF page.previousActiveElement # "none"
             THEN [page EXCEPT !.focus = page.previousActiveElement,
                               !.previousActiveElement = "none"]
             ELSE [page EXCEPT !.focus = "body"]
  /\ disposals' = disposals \cup {restoreFocusTimeout}
  /\ restoreFocusTimeout' = None
  /\ UNCHANGED <<Instances, popup, promise, timeout, closeCallback, pending>>

\* _destroy; an instance that is live here has no popup and is not closing.
Dispose(d) ==
  /\ d \in disposals
  /\ disposals' = disposals \ {d}
  /\ IF Live(d) THEN params' = Forgotten /\ currentInstance' = None
                ELSE UNCHANGED <<params, currentInstance>>
  /\ UNCHANGED <<latest, popup, promise, timeout, closeCallback, restoreFocusTimeout,
                 pending, page>>
--------------------------------------------------------------------------------
(* Confirm and deny: input, validator, hook, close. *)

OutcomeOf(b) == IF b = "confirm" THEN "confirmed" ELSE "denied"

\* confirm and deny; only confirm hides the validation message.
Approve(d, b, shown, awaited) ==
  LET focused == IF params[d].loader /\ shown # None THEN FocusPopup(page) ELSE page
  IN IF params[d].hook
     THEN /\ Await(awaited, Check(d, "hook", b))
          /\ popup' = IF b = "confirm" /\ shown # None
                      THEN [shown EXCEPT !.invalid = FALSE] ELSE shown
          /\ page' = focused
          /\ UNCHANGED <<promise, closeCallback, restoreFocusTimeout, disposals>>
     ELSE /\ pending' = awaited
          /\ Close(d, OutcomeOf(b), shown, focused)

UsesInput(o, b) == IF b = "confirm" THEN o.input # "none" ELSE o.denyInput

\* showValidationMessage, with the buttons enabled again
Refuse(shown) ==
  /\ popup' = [shown EXCEPT !.disabled = FALSE, !.invalid = TRUE]
  /\ page' = FocusPopup(page)
  /\ UNCHANGED <<promise, closeCallback, restoreFocusTimeout, disposals>>

\* The button of the popup, Enter in its input, Swal.clickConfirm and Swal.clickDeny.
ButtonClick(b, valid) ==
  /\ popup # None
  /\ ~popup.disabled
  /\ LET d == popup.of
         clicked == [popup EXCEPT !.disabled = TRUE]
     IN IF ~UsesInput(params[d], b) THEN Approve(d, b, clicked, pending)
        ELSE IF params[d].input = "validated"
        THEN /\ Await(pending, Check(d, "validator", b))
             /\ popup' = clicked
             /\ UNCHANGED <<promise, closeCallback, restoreFocusTimeout, disposals, page>>
        ELSE IF valid THEN Approve(d, b, clicked, pending)
        ELSE Refuse(clicked) /\ UNCHANGED pending
  /\ UNCHANGED <<Instances, timeout>>

Answered(s) == [pending EXCEPT ![s] = None]

Awaits(s, step) == pending[s] # None /\ pending[s].step = step

\* The first "then" of handleInputValidator, for an instance that is live.
ValidatorAnswers(s, valid) ==
  /\ Awaits(s, "validator")
  /\ LET d == pending[s].of
         enabled == IF popup = None THEN None ELSE [popup EXCEPT !.disabled = FALSE]
     IN /\ Live(d)
        /\ IF valid THEN /\ params[d].loader => popup # None
                         /\ Approve(d, pending[s].button, enabled, Answered(s))
           ELSE /\ pending' = Answered(s)
                /\ IF popup = None
                   THEN UNCHANGED <<popup, page, promise, closeCallback, restoreFocusTimeout,
                                    disposals>>
                   ELSE Refuse(enabled)
  /\ UNCHANGED <<Instances, timeout>>

\* Valid, after the popup went: showLoading fires an empty dialog, which destroys d.
\* resetValidationMessage then throws in confirm; deny still calls its hook.
ValidatorFiresGhost(s) ==
  /\ Awaits(s, "validator")
  /\ popup = None
  /\ LET d == pending[s].of
         b == pending[s].button
     IN /\ Live(d)
        /\ params[d].loader
        /\ \E ghost \in Ids : Main(ghost, DefaultParams)
        /\ pending' = IF b = "deny" /\ params[d].hook
                      THEN [pending EXCEPT ![s] = Check(d, "hook", b)] ELSE Answered(s)

\* enableButtons throws for an instance that is gone; a rejected promise changes nothing.
AnswerIsLost(s) ==
  /\ pending[s] # None
  /\ pending' = Answered(s)
  /\ UNCHANGED <<Instances, popup, promise, timeout, closeCallback, restoreFocusTimeout,
                 disposals, page>>

\* hideLoading of instance d
HiddenLoading(d) ==
  IF Live(d) /\ popup # None /\ popup.of = d THEN [popup EXCEPT !.disabled = FALSE] ELSE popup

Refuses_Value(b, approves) == ~approves \* mutant: a message of preConfirm is no refusal

Refuses(b, approves) == ~approves \/ (b = "confirm" /\ popup # None /\ popup.invalid)

\* The "then" of preConfirm and preDeny.
HookAnswers(s, approves) ==
  /\ Awaits(s, "hook")
  /\ pending' = Answered(s)
  /\ LET d == pending[s].of
         b == pending[s].button
     IN IF Refuses(b, approves)
        THEN /\ popup' = HiddenLoading(d)
             /\ UNCHANGED <<promise, closeCallback, restoreFocusTimeout, disposals, page>>
        ELSE Close(d, OutcomeOf(b), popup, page)
  /\ UNCHANGED <<Instances, timeout>>

\* The options or the value of the input arrive: the input gets the focus.
OptionsArrive(s) ==
  /\ Awaits(s, "options")
  /\ pending' = Answered(s)
  /\ popup' = HiddenLoading(pending[s].of)
  /\ page' = IF popup # None /\ popup.of = pending[s].of THEN FocusPopup(page) ELSE page
  /\ UNCHANGED <<Instances, promise, timeout, closeCallback, restoreFocusTimeout, disposals>>
--------------------------------------------------------------------------------
(* The other ways to close. *)

Dismiss(d, shown) ==
  /\ Close(d, "dismissed", shown, page)
  /\ UNCHANGED <<Instances, pending>>

CancelClick ==
  /\ popup # None
  /\ ~popup.disabled
  /\ Dismiss(popup.of, [popup EXCEPT !.disabled = TRUE])
  /\ UNCHANGED timeout

\* The close button; the toast itself when nothing else can close it.
CloseClick ==
  /\ popup # None
  /\ LET o == params[popup.of]
     IN o.buttons \/ (o.toast /\ ~o.timer /\ o.input = "none")
  /\ Dismiss(popup.of, popup)
  /\ UNCHANGED timeout

\* The key is handled by the popup, so the focus has to be in it.
Escape ==
  /\ popup # None
  /\ page.focus = "popup"
  /\ ~params[popup.of].toast
  /\ params[popup.of].escape
  /\ Dismiss(popup.of, popup)
  /\ UNCHANGED timeout

BackdropClick ==
  /\ popup # None
  /\ ~params[popup.of].toast
  /\ params[popup.of].backdrop
  /\ params[popup.of].outside
  /\ Dismiss(popup.of, popup)
  /\ UNCHANGED timeout

\* Swal.close()
CloseLatest ==
  /\ latest # 0
  /\ Dismiss(latest, popup)
  /\ UNCHANGED timeout

TimerFires ==
  /\ timeout # None
  /\ timeout.running
  /\ timeout' = None
  /\ Dismiss(timeout.of, popup)
--------------------------------------------------------------------------------
(* What the page does to the latest dialog, and the user with the focus. *)

\* Swal.stopTimer throws on the progress bar when there is no popup.
StopTimer ==
  /\ popup # None
  /\ timeout # None
  /\ timeout' = [timeout EXCEPT !.running = FALSE]
  /\ UNCHANGED <<Instances, popup, promise, closeCallback, restoreFocusTimeout, disposals,
                 pending, page>>

ResumeTimer ==
  /\ timeout # None
  /\ timeout' = [timeout EXCEPT !.running = TRUE]
  /\ UNCHANGED <<Instances, popup, promise, closeCallback, restoreFocusTimeout, disposals,
                 pending, page>>

\* update and render; of updatableParams those the closing, the keys and the hooks read.
Update(u) ==
  /\ popup # None
  /\ ~popup.closing
  /\ latest # 0 /\ Live(latest)
  /\ LET updated == [params[latest] EXCEPT !.animated = u.animated,
                                           !.hook = u.hook, !.escape = u.escape,
                                           !.outside = u.outside, !.buttons = u.buttons,
                                           !.returnFocus = u.returnFocus]
     IN /\ params' = [params EXCEPT ![latest] = updated]
        /\ page' = AddClasses(page, updated)
  /\ popup' = [popup EXCEPT !.invalid = FALSE]
  /\ UNCHANGED <<latest, currentInstance, promise, timeout, closeCallback,
                 restoreFocusTimeout, disposals, pending>>

\* enableButtons, disableButtons, hideLoading, showValidationMessage (a preConfirm calls
\* it to refuse), resetValidationMessage (also on every change of the input)
Retouch ==
  /\ popup # None
  /\ popup.of = latest
  /\ Live(latest)
  /\ popup' \in [of : {latest}, closing : {popup.closing}, disabled : BOOLEAN,
                 invalid : BOOLEAN]
  /\ UNCHANGED <<Instances, promise, timeout, closeCallback, restoreFocusTimeout, disposals,
                 pending, page>>

\* Clicks and tabs of the user, and focus() calls of the page.
MoveFocus(x) ==
  /\ x \notin Marked
  /\ x = "popup" => popup # None
  /\ page' = [page EXCEPT !.focus = x]
  /\ UNCHANGED <<Instances, popup, promise, timeout, closeCallback, restoreFocusTimeout,
                 disposals, pending>>

Next ==
  \/ \E d \in Ids, o \in Options : Fire(d, o)
  \/ ShowLoading
  \/ AnimationEnd
  \/ RestoreFocus
  \/ \E d \in Ids : Dispose(d)
  \/ \E b \in Buttons, valid \in BOOLEAN : ButtonClick(b, valid)
  \/ \E s \in Slots, valid \in BOOLEAN : ValidatorAnswers(s, valid)
  \/ \E s \in Slots : ValidatorFiresGhost(s)
  \/ \E s \in Slots : AnswerIsLost(s)
  \/ \E s \in Slots, approves \in BOOLEAN : HookAnswers(s, approves)
  \/ \E s \in Slots : OptionsArrive(s)
  \/ CancelClick
  \/ CloseClick
  \/ Escape
  \/ BackdropClick
  \/ CloseLatest
  \/ TimerFires
  \/ StopTimer
  \/ ResumeTimer
  \/ \E u \in Updates : Update(u)
  \/ Retouch
  \/ \E x \in Focusable : MoveFocus(x)

Spec == Init /\ [][Next]_vars

\* The browser ends animations, runs timeouts and fires timers; nobody has to click, and
\* no promise of the page has to be answered.
Fairness ==
  /\ WF_vars(AnimationEnd)
  /\ WF_vars(RestoreFocus)
  /\ \A d \in Ids : WF_vars(Dispose(d))

FairSpec == Spec /\ Fairness
--------------------------------------------------------------------------------
Open(d) == popup # None /\ popup.of = d

\* One dialog at a time: the WeakMaps hold at most the latest instance, the popup in the
\* document is its popup, and the removal that waits for an animation is of that popup,
\* whatever is fired, closed or answered late.
OneDialogAlive ==
  /\ \A d \in Ids : Live(d) => currentInstance = d
  /\ currentInstance # None => currentInstance = latest /\ Live(latest)
  /\ popup # None => Live(popup.of)
  /\ IF popup # None /\ popup.closing THEN closeCallback = popup.of ELSE closeCallback = None

\* A dialog goes away, without another taking its place, exactly when its promise resolved.
ClosingIsSettled ==
  /\ popup # None => (popup.closing <=> promise[popup.of] # "pending")
  /\ \A d \in Ids : Live(d) /\ popup = None => promise[d] # "pending"

\* While a modal dialog shows, all of the page is hidden from assistive technology; when
\* none shows, nothing is that the page had not hidden itself.
PageReachable ==
  IF popup # None /\ IsModal(page)
  THEN \A e \in PageElements : page.aria[e] = "swal"
  ELSE \A e \in PageElements : page.aria[e] # "swal" /\ (e \notin Marked => page.aria[e] = "absent")

\* The classes of the body, by which later steps tell toasts from modals, are those of the
\* dialog that shows.
ClassesAreTheDialogs ==
  /\ popup = None => page.classes = {}
  /\ \A d \in Ids : Open(d) => /\ "shown" \in page.classes
                               /\ IsToast(page) <=> params[d].toast
                               /\ IsModal(page) <=> ~params[d].toast /\ params[d].backdrop

\* The element that gets the focus back is never inside a popup, which will be gone.
FocusReturnsToPage == page.previousActiveElement # "popup"

\* A timer that still runs was set by the latest dialog: an old one never closes a new one.
TimerIsOfLatest ==
  timeout # None => timeout.of = latest /\ (Live(latest) => params[latest].timer)

ConfirmedStep ==
  \A d \in Ids :
    promise[d] = "pending" /\ promise'[d] = "confirmed" /\ params[d].hook =>
      /\ Open(d) /\ ~popup.invalid
      /\ \E s \in Slots : /\ pending[s] = Check(d, "hook", "confirm")
                          /\ pending'[s] = None

\* A dialog with preConfirm is only confirmed by the answer of its own preConfirm, while
\* no validation message shows.
ConfirmedByItsHook == [][ConfirmedStep]_vars

\* How each dialog stands for the page that fired it.
Status(d) ==
  IF d > latest THEN "unfired"
  ELSE IF promise[d] # "pending" THEN promise[d]
  ELSE IF Open(d) THEN "open" ELSE "replaced"

D == INSTANCE Dialogs WITH dialog <- [d \in Ids |-> Status(d)]

\* The dialogs keep what they promise the page.
ImplementsDialogs == D!Spec

\* The instance of an answered dialog is disposed of.
SettledIsDisposed == \A d \in Ids : promise[d] # "pending" ~> ~Live(d)
================================================================================
