---------------------------- MODULE SweetAlertProofs ----------------------------
(***************************************************************************)
(* Proofs about SweetAlert, for every number of dialogs, of page elements  *)
(* and of awaited promises, and for all parameters.  The page is handled   *)
(* apart from the dialogs: a removal leaves it clean whatever it was, and  *)
(* an opening needs it clean.                                              *)
(***************************************************************************)
EXTENDS SweetAlert, TLAPS

\* Nothing of the page is hidden that the page did not hide, and nothing is remembered.
Clean(pg) ==
  /\ \A e \in PageElements : pg.aria[e] # "swal" /\ (e \notin Marked => pg.aria[e] = "absent")
  /\ pg.previous = Unhidden

\* All of the page is hidden, and what it had hidden itself is remembered.
Hidden(pg) ==
  \A e \in PageElements : /\ pg.aria[e] = "swal"
                          /\ pg.previous[e] # "swal"
                          /\ e \notin Marked => pg.previous[e] = "absent"

KindClasses(o) == {"shown"} \cup (IF o.toast THEN {"toast-shown"} ELSE {})
                            \cup (IF o.backdrop THEN {} ELSE {"no-backdrop"})

PageInv ==
  /\ popup = None => page.classes = {} /\ page.focus # "popup"
  /\ popup # None => page.classes = KindClasses(params[popup.of])
  /\ IF popup # None /\ IsModal(page) THEN Hidden(page) ELSE Clean(page)
  /\ page.previousActiveElement # "popup"

\* The tasks of a dialog only run when its popup is gone.
TaskInv ==
  \A d \in Ids : d \in disposals \/ d = restoreFocusTimeout =>
    d <= latest /\ (Live(d) => popup = None)

PromiseInv == \A d \in Ids : promise[d] # "pending" => d <= latest

Inv ==
  /\ TypeOK
  /\ OneDialogAlive
  /\ ClosingIsSettled
  /\ PageInv
  /\ TimerIsOfLatest
  /\ TaskInv
  /\ PromiseInv
--------------------------------------------------------------------------------
(* The page. *)

LEMMA PageFields ==
  ASSUME NEW pg \in Page
  PROVE  /\ pg.classes \subseteq {"shown", "toast-shown", "no-backdrop"}
         /\ pg.shifted \in BOOLEAN
         /\ pg.aria \in [PageElements -> AriaHidden]
         /\ pg.previous \in [PageElements -> AriaHidden]
         /\ pg.focus \in Focusable
         /\ pg.previousActiveElement \in Focusable \cup {"none"}
BY DEF Page

LEMMA UnhiddenType == Unhidden \in [PageElements -> AriaHidden]
BY DEF Unhidden, AriaHidden

LEMMA UnsetIsPage == ASSUME NEW pg \in Page PROVE UnsetAriaHidden(pg) \in Page
BY UnhiddenType DEF UnsetAriaHidden, Page

\* Both a hidden and a clean page are clean after aria-hidden was taken away.
LEMMA UnsetCleans ==
  ASSUME NEW pg \in Page, Hidden(pg) \/ Clean(pg)
  PROVE  Clean(UnsetAriaHidden(pg))
<1>1. /\ UnsetAriaHidden(pg).aria = pg.previous
      /\ UnsetAriaHidden(pg).previous = Unhidden
  BY DEF UnsetAriaHidden, Page
<1>2. \A e \in PageElements : pg.previous[e] # "swal" /\ (e \notin Marked => pg.previous[e] = "absent")
  BY DEF Hidden, Clean, Unhidden
<1> QED BY <1>1, <1>2 DEF Clean

LEMMA DropFocusType ==
  ASSUME NEW f \in Focusable
  PROVE  DropFocus(f) \in Focusable /\ DropFocus(f) # "popup"
BY DEF DropFocus, Focusable

LEMMA RemoveContainerPage ==
  ASSUME NEW pg \in Page
  PROVE  /\ RemoveContainer(pg) \in Page
         /\ RemoveContainer(pg).classes = {}
         /\ RemoveContainer(pg).focus # "popup"
         /\ RemoveContainer(pg).previousActiveElement = pg.previousActiveElement
BY DropFocusType, UnhiddenType
   DEF RemoveContainer, RemoveBodyClasses, UnsetAriaHidden, UndoScroll, Page

\* A removal leaves the page clean when exactly the modal popup has hidden it.
LEMMA RemoveContainerCleans ==
  ASSUME NEW pg \in Page, IF IsModal(pg) THEN Hidden(pg) \/ Clean(pg) ELSE Clean(pg)
  PROVE  Clean(RemoveContainer(pg))
<1> DEFINE removed == [pg EXCEPT !.focus = DropFocus(@)]
<1>1. CASE IsModal(pg)
  <2> DEFINE undone == UndoScroll(removed)
  <2>1. undone \in Page /\ undone.aria = pg.aria /\ undone.previous = pg.previous
    BY DropFocusType DEF UndoScroll, Page
  <2>2. Hidden(undone) \/ Clean(undone)
    BY <1>1, <2>1 DEF Hidden, Clean
  <2>3. Clean(UnsetAriaHidden(undone))
    BY <2>1, <2>2, UnsetCleans
  <2>4. RemoveContainer(pg) = RemoveBodyClasses(UnsetAriaHidden(undone))
    BY <1>1 DEF RemoveContainer
  <2>5. UnsetAriaHidden(undone) \in Page
    BY <2>1, UnsetIsPage
  <2> HIDE DEF undone
  <2> QED BY <2>3, <2>4, <2>5 DEF RemoveBodyClasses, Clean, Page
<1>2. CASE ~IsModal(pg)
  <2>1. RemoveContainer(pg) = RemoveBodyClasses(removed)
    BY <1>2 DEF RemoveContainer
  <2>2. Clean(removed) /\ removed \in Page
    BY <1>2, DropFocusType DEF Clean, Page
  <2> HIDE DEF removed
  <2> QED BY <2>1, <2>2 DEF RemoveBodyClasses, Clean, Page
<1> QED BY <1>1, <1>2

\* What _main makes of the page before it draws the new popup.
LEMMA OldContainerGone ==
  ASSUME Inv
  PROVE  /\ OldContainerRemoved \in Page
         /\ Clean(OldContainerRemoved)
         /\ OldContainerRemoved.classes \subseteq {"shown"}
         /\ OldContainerRemoved.focus # "popup"
         /\ OldContainerRemoved.previousActiveElement # "popup"
<1> DEFINE removed == IF Closing THEN RemoveContainer(page) ELSE page
<1>0. page \in Page
  BY DEF Inv, TypeOK
<1>1. IF IsModal(page) THEN Hidden(page) \/ Clean(page) ELSE Clean(page)
  BY DEF Inv, PageInv
<1>2. removed \in Page /\ removed.previousActiveElement # "popup"
  BY <1>0, RemoveContainerPage DEF Inv, PageInv
<1>3. Closing => popup # None
  BY DEF Inv, OneDialogAlive, Closing
<1>4. popup # None => currentInstance # None
  BY SweetAlertAssumption DEF Inv, OneDialogAlive, TypeOK, Popup
<1>5. IF IsModal(removed) THEN Hidden(removed) \/ Clean(removed) ELSE Clean(removed)
  BY <1>0, <1>1, RemoveContainerCleans
<1>6. currentInstance = None => Clean(removed)
  BY <1>3, <1>4 DEF Inv, PageInv
<1>7. Clean(AfterDestroy) /\ AfterDestroy \in Page
  BY <1>2, <1>5, <1>6, UnsetCleans, UnsetIsPage DEF AfterDestroy
<1>8. /\ AfterDestroy.classes = removed.classes
      /\ AfterDestroy.focus = removed.focus
      /\ AfterDestroy.previousActiveElement = removed.previousActiveElement
  BY <1>2 DEF AfterDestroy, UnsetAriaHidden, Page
<1>9. CASE popup # None /\ ~Closing
  <2>1. OldContainerRemoved = ResetOldContainer(AfterDestroy)
    BY <1>9 DEF OldContainerRemoved
  <2>2. AfterDestroy.focus \in Focusable
    BY <1>7, PageFields
  <2> QED BY <2>1, <2>2, <1>2, <1>7, <1>8, DropFocusType DEF ResetOldContainer, Clean, Page
<1>10. CASE popup = None \/ Closing
  <2>1. OldContainerRemoved = AfterDestroy
    BY <1>10 DEF OldContainerRemoved
  <2>2. removed.classes = {} /\ removed.focus # "popup"
    BY <1>0, <1>3, <1>10, RemoveContainerPage DEF Inv, PageInv
  <2> QED BY <2>1, <2>2, <1>2, <1>7, <1>8
<1> QED BY <1>9, <1>10

LEMMA OpenPopupPage ==
  ASSUME NEW pg \in Page, NEW o \in Option, Clean(pg), pg.classes \subseteq {"shown"},
         pg.focus # "popup", pg.previousActiveElement # "popup"
  PROVE  LET opened == OpenPopup(AddClasses(pg, o), o)
         IN /\ opened \in Page
            /\ opened.classes = KindClasses(o)
            /\ IF IsModal(opened) THEN Hidden(opened) ELSE Clean(opened)
            /\ opened.previousActiveElement # "popup"
<1> DEFINE drawn == AddClasses(pg, o)
           shown == [drawn EXCEPT !.classes = @ \cup {"shown"}]
           hidden == IF IsModal(shown) THEN SetAriaHidden(FixScrollContainer(shown)) ELSE shown
           opened == OpenPopup(drawn, o)
<1>1. /\ shown \in Page
      /\ shown.classes = KindClasses(o)
      /\ shown.aria = pg.aria /\ shown.previous = pg.previous
      /\ shown.focus = pg.focus /\ shown.previousActiveElement = pg.previousActiveElement
  BY DEF AddClasses, KindClasses, Page, Option
<1> HIDE DEF shown
<1>2. /\ hidden \in Page
      /\ hidden.classes = shown.classes
      /\ hidden.focus = pg.focus /\ hidden.previousActiveElement = pg.previousActiveElement
  BY <1>1 DEF SetAriaHidden, FixScrollContainer, Page, AriaHidden
<1>3. IsModal(shown) => Hidden(hidden)
  BY <1>1 DEF SetAriaHidden, FixScrollContainer, Page, Hidden, Clean, Unhidden
<1>4. ~IsModal(shown) => Clean(hidden)
  BY <1>1 DEF Clean
<1> HIDE DEF hidden
<1>5. opened = IF o.toast THEN hidden ELSE [RememberFocus(hidden) EXCEPT !.focus = "popup"]
  BY DEF OpenPopup, shown, hidden
<1> HIDE DEF opened
<1>6. /\ opened \in Page
      /\ opened.classes = hidden.classes
      /\ opened.aria = hidden.aria /\ opened.previous = hidden.previous
      /\ opened.previousActiveElement # "popup"
  BY <1>2, <1>5 DEF RememberFocus, Page, Focusable
<1>7. IsModal(opened) <=> IsModal(shown)
  BY <1>2, <1>6 DEF IsModal, IsToast
<1>8. IF IsModal(opened) THEN Hidden(opened) ELSE Clean(opened)
  BY <1>3, <1>4, <1>6, <1>7 DEF Hidden, Clean
<1> QED BY <1>1, <1>2, <1>6, <1>8 DEF opened
--------------------------------------------------------------------------------
(* Swal.fire. *)

LEMMA NoneIsNoValue ==
  /\ None \notin Ids
  /\ None \notin Option
  /\ None \notin Popup
  /\ None \notin Checks
  /\ None \notin [of : Ids, running : BOOLEAN]
BY SweetAlertAssumption

LEMMA DefaultParamsType == DefaultParams \in Option
BY DEF DefaultParams, Option

LEMMA InitInv == Init => Inv
<1> SUFFICES ASSUME Init PROVE Inv
  OBVIOUS
<1>1. Unhidden \in [PageElements -> AriaHidden]
  BY UnhiddenType
<1>2. page \in Page
  <2>1. [e \in PageElements |-> IF e \in Marked THEN "page" ELSE "absent"]
          \in [PageElements -> AriaHidden]
    BY DEF AriaHidden
  <2> QED BY <1>1, <2>1 DEF Init, Page, Focusable
<1>3. TypeOK
  BY <1>2 DEF Init, TypeOK
<1>4. PageInv
  BY DEF Init, PageInv, Clean, Hidden, IsModal, IsToast
<1>5. OneDialogAlive /\ ClosingIsSettled /\ TimerIsOfLatest /\ PromiseInv
  BY DEF Init, OneDialogAlive, ClosingIsSettled, TimerIsOfLatest, PromiseInv, Live
<1>6. TaskInv
  BY NoneIsNoValue DEF Init, TaskInv, Live
<1> QED BY <1>3, <1>4, <1>5, <1>6 DEF Inv

\* Only the new instance is live, whatever was.
LEMMA MainForgets ==
  ASSUME Inv, NEW d \in Ids, NEW o, Main(d, o)
  PROVE  params' = [Forgotten EXCEPT ![d] = o]
<1>1. currentInstance = None => params = Forgotten
  BY NoneIsNoValue DEF Inv, OneDialogAlive, TypeOK, Live, Forgotten
<1> QED BY <1>1 DEF Main, Inv, OneDialogAlive

LEMMA MainStep ==
  ASSUME Inv, NEW d \in Ids, NEW o \in Option, Main(d, o),
         pending' \in [Slots -> Checks \cup {None}]
  PROVE  Inv'
<1> USE NoneIsNoValue
<1>1. params' = [e \in Ids |-> IF e = d THEN o ELSE None]
  BY MainForgets DEF Forgotten
<1>2. /\ d = latest + 1 /\ latest' = d /\ currentInstance' = d /\ promise' = promise
      /\ restoreFocusTimeout' = None
      /\ timeout' = NextTimeout(d, o)
      /\ popup' = [of |-> d, closing |-> FALSE, disabled |-> FALSE, invalid |-> FALSE]
      /\ page' = OpenPopup(AddClasses(OldContainerRemoved, o), o)
  BY DEF Main
<1>3. closeCallback' = None
  <2>1. popup # None => popup.of \in Ids /\ currentInstance = popup.of /\ Live(popup.of)
    BY DEF Inv, OneDialogAlive, TypeOK, Popup
  <2>2. closeCallback # None => Closing
    BY <2>1 DEF Inv, OneDialogAlive, Closing
  <2> QED BY <2>2 DEF Main, NextCloseCallback
<1>4. latest \in Nat /\ latest < d /\ \A e \in Ids : e \in Nat
  BY <1>2 DEF Inv, TypeOK, Ids
<1>5. /\ disposals' \subseteq Ids
      /\ \A e \in disposals' : e <= latest
  <2>1. Closing => closeCallback \in Ids /\ closeCallback = latest
    BY DEF Inv, OneDialogAlive, TypeOK, Closing
  <2>2. \A e \in disposals : e \in Ids /\ e <= latest
    BY DEF Inv, TaskInv, TypeOK
  <2>3. \A e \in disposals' : e \in disposals \/ (Closing /\ e = closeCallback)
    BY DEF Main
  <2> QED BY <1>4, <2>1, <2>2, <2>3
<1>6. /\ page' \in Page
      /\ page'.classes = KindClasses(o)
      /\ IF IsModal(page') THEN Hidden(page') ELSE Clean(page')
      /\ page'.previousActiveElement # "popup"
  BY <1>2, OldContainerGone, OpenPopupPage
<1>7. popup' \in Popup /\ popup'.of = d /\ ~popup'.closing
  BY <1>2 DEF Popup
<1>8. timeout' \in [of : Ids, running : BOOLEAN] \cup {None}
  BY <1>2 DEF NextTimeout
<1>9. TypeOK'
  BY <1>1, <1>2, <1>3, <1>5, <1>6, <1>7, <1>8 DEF TypeOK, Inv
<1>10. OneDialogAlive'
  BY <1>1, <1>2, <1>3, <1>7 DEF OneDialogAlive, Live
<1>11. ClosingIsSettled'
  <2>1. ~(d <= latest)
    BY <1>2, <1>4
  <2>2. promise'[d] = "pending"
    BY <1>2, <2>1 DEF PromiseInv, Inv
  <2> QED BY <1>7, <2>2 DEF ClosingIsSettled
<1>12. PageInv'
  BY <1>1, <1>6, <1>7 DEF PageInv, Hidden, Clean, IsModal, IsToast
<1>13. TimerIsOfLatest'
  BY <1>1, <1>2 DEF TimerIsOfLatest, NextTimeout, Live
<1>14. TaskInv'
  <2>1. \A e \in disposals' : e \in Ids /\ e <= latest' /\ e # d
    BY <1>2, <1>4, <1>5
  <2>2. \A e \in Ids \ {d} : params'[e] = None
    BY <1>1
  <2>3. \A e \in Ids : e # restoreFocusTimeout'
    BY <1>2
  <2> QED BY <2>1, <2>2, <2>3 DEF TaskInv, Live
<1>15. PromiseInv'
  BY <1>2, <1>4 DEF PromiseInv, Inv, TypeOK, Ids
<1> QED BY <1>9, <1>10, <1>11, <1>12, <1>13, <1>14, <1>15 DEF Inv
--------------------------------------------------------------------------------
(* Closing. *)

\* A handler of a popup may disable or enable its buttons, show or hide its message and
\* move the focus into it; the rest of the page is as it was.
SamePopup(shown) ==
  /\ popup = None <=> shown = None
  /\ shown # None => /\ shown \in Popup
                     /\ shown.of = popup.of /\ shown.closing = popup.closing

SamePage(pg, shown) ==
  /\ pg \in Page
  /\ pg.classes = page.classes /\ pg.aria = page.aria /\ pg.previous = page.previous
  /\ pg.previousActiveElement = page.previousActiveElement
  /\ shown = None => pg.focus = page.focus

LEMMA PageIsSame == ASSUME Inv PROVE \A shown : SamePage(page, shown)
BY DEF Inv, TypeOK, SamePage

LEMMA FocusPopupIsSame ==
  ASSUME Inv, NEW shown, shown # None
  PROVE  SamePage(FocusPopup(page), shown)
BY DEF Inv, TypeOK, SamePage, FocusPopup, Page, Focusable

\* A handler that closes nothing.
LEMMA HandlerStep ==
  ASSUME Inv, SamePopup(popup'), SamePage(page', popup'), UNCHANGED <<Instances, promise>>,
         UNCHANGED <<closeCallback, restoreFocusTimeout, disposals>>,
         timeout' = timeout \/ timeout' = None,
         pending' \in [Slots -> Checks \cup {None}]
  PROVE  Inv'
<1> USE NoneIsNoValue
<1>1. UNCHANGED <<params, latest, currentInstance>>
  BY DEF Instances
<1>2. TypeOK'
  BY <1>1 DEF Inv, TypeOK, SamePopup, SamePage
<1>3. OneDialogAlive'
  BY <1>1 DEF Inv, OneDialogAlive, SamePopup, Live
<1>4. ClosingIsSettled'
  BY <1>1 DEF Inv, ClosingIsSettled, SamePopup, Live
<1>5. PageInv'
  BY <1>1 DEF Inv, PageInv, SamePopup, SamePage, Hidden, Clean, IsModal, IsToast
<1>6. TimerIsOfLatest' /\ TaskInv' /\ PromiseInv'
  BY <1>1 DEF Inv, TimerIsOfLatest, TaskInv, PromiseInv, SamePopup, Live
<1> QED BY <1>2, <1>3, <1>4, <1>5, <1>6 DEF Inv

\* The popup that a live instance closes is its own.
LEMMA ClosableIsOpen ==
  ASSUME Inv, NEW d \in Ids, NEW shown, SamePopup(shown), Closable(d, shown)
  PROVE  popup # None /\ popup.of = d /\ ~popup.closing /\ d = latest
<1>1. popup # None /\ ~popup.closing /\ Live(d)
  BY DEF SamePopup, Closable
<1>2. popup.of \in Ids /\ Live(popup.of)
  BY <1>1 DEF Inv, OneDialogAlive, TypeOK, Popup
<1>3. currentInstance = d /\ currentInstance = popup.of
  BY <1>1, <1>2 DEF Inv, OneDialogAlive
<1> QED BY <1>1, <1>3, NoneIsNoValue DEF Inv, OneDialogAlive

LEMMA RemoveStep ==
  ASSUME Inv, NEW d \in Ids, NEW pg, SamePage(pg, popup), popup # None, popup.of = d,
         RemovePopupAndResetState(d, pg), closeCallback' = None, UNCHANGED Instances,
         promise' \in [Ids -> Outcomes \cup {"pending"}], promise'[d] # "pending",
         \A e \in Ids \ {d} : promise'[e] = promise[e],
         timeout' = timeout \/ timeout' = None,
         pending' \in [Slots -> Checks \cup {None}]
  PROVE  Inv'
<1> USE NoneIsNoValue
<1>1. /\ UNCHANGED <<params, latest, currentInstance>>
      /\ popup' = None
      /\ page' = RemoveContainer(pg)
  BY DEF Instances, RemovePopupAndResetState
<1>2. Live(d) /\ d = latest /\ \A e \in Ids : Live(e) => e = d
  BY DEF Inv, OneDialogAlive, TypeOK
<1>3. /\ disposals' \subseteq disposals \cup {d}
      /\ restoreFocusTimeout' \in {restoreFocusTimeout, d}
  BY DEF RemovePopupAndResetState
<1>4. pg \in Page /\ IF IsModal(pg) THEN Hidden(pg) \/ Clean(pg) ELSE Clean(pg)
  BY DEF Inv, PageInv, SamePage, Hidden, Clean, IsModal, IsToast
<1>5. /\ page' \in Page /\ page'.classes = {} /\ page'.focus # "popup"
      /\ page'.previousActiveElement # "popup"
      /\ Clean(page')
  BY <1>1, <1>4, RemoveContainerPage, RemoveContainerCleans DEF Inv, PageInv, SamePage
<1>6. TypeOK'
  BY <1>1, <1>3, <1>5 DEF Inv, TypeOK
<1>7. OneDialogAlive'
  BY <1>1 DEF Inv, OneDialogAlive, Live
<1>8. ClosingIsSettled'
  BY <1>1, <1>2 DEF ClosingIsSettled, Live
<1>9. PageInv'
  BY <1>1, <1>5 DEF PageInv, Clean
<1>10. TimerIsOfLatest'
  BY <1>1 DEF Inv, TimerIsOfLatest, Live
<1>11. TaskInv'
  BY <1>1, <1>2, <1>3 DEF Inv, TaskInv, TypeOK, Ids
<1>12. PromiseInv'
  BY <1>1, <1>2 DEF Inv, PromiseInv, TypeOK, Ids
<1> QED BY <1>6, <1>7, <1>8, <1>9, <1>10, <1>11, <1>12 DEF Inv

LEMMA CloseStep ==
  ASSUME Inv, NEW d \in Ids, NEW outcome \in Outcomes, NEW shown, NEW pg,
         SamePopup(shown), SamePage(pg, shown), Close(d, outcome, shown, pg),
         UNCHANGED Instances, timeout' = timeout \/ timeout' = None,
         pending' \in [Slots -> Checks \cup {None}]
  PROVE  Inv'
<1> USE NoneIsNoValue
<1>1. CASE ~Closable(d, shown)
  <2>1. /\ popup' = shown /\ page' = pg
        /\ UNCHANGED <<promise, closeCallback, restoreFocusTimeout, disposals>>
    BY <1>1 DEF Close
  <2> QED BY <2>1, HandlerStep
<1>2. CASE Closable(d, shown)
  <2>1. popup # None /\ popup.of = d /\ ~popup.closing /\ d = latest /\ Live(d)
    BY <1>2, ClosableIsOpen DEF Closable
  <2>2. /\ promise' = [promise EXCEPT ![d] = outcome]
        /\ outcome # "pending"
    BY <1>2 DEF Close, Resolved, Outcomes
  <2>3. /\ promise' \in [Ids -> Outcomes \cup {"pending"}]
        /\ promise'[d] # "pending"
        /\ \A e \in Ids \ {d} : promise'[e] = promise[e]
    BY <2>2 DEF Inv, TypeOK
  <2>4. CASE ~params[d].animated
    <3>1. RemovePopupAndResetState(d, pg) /\ closeCallback' = closeCallback
      BY <1>2, <2>4 DEF Close
    <3>2. closeCallback' = None
      BY <2>1, <3>1 DEF Inv, OneDialogAlive
    <3>3. SamePage(pg, popup)
      BY <2>1 DEF SamePage, SamePopup
    <3> QED BY <2>1, <2>3, <3>1, <3>2, <3>3, RemoveStep
  <2>5. CASE params[d].animated
    <3>1. /\ closeCallback' = d /\ popup' = [shown EXCEPT !.closing = TRUE] /\ page' = pg
          /\ UNCHANGED <<restoreFocusTimeout, disposals, params, latest, currentInstance>>
      BY <1>2, <2>5 DEF Close, Instances
    <3>2. shown \in Popup /\ popup' \in Popup /\ popup'.of = d /\ popup'.closing
      BY <2>1, <3>1 DEF SamePopup, Popup
    <3>3. TypeOK'
      BY <2>3, <3>1, <3>2 DEF Inv, TypeOK, SamePage
    <3>4. OneDialogAlive'
      BY <2>1, <3>1, <3>2 DEF Inv, OneDialogAlive, Live
    <3>5. ClosingIsSettled'
      BY <2>3, <3>2 DEF ClosingIsSettled
    <3>6. PageInv'
      BY <2>1, <3>1, <3>2 DEF Inv, PageInv, SamePage, SamePopup, Hidden, Clean, IsModal, IsToast
    <3>7. TimerIsOfLatest'
      BY <3>1 DEF Inv, TimerIsOfLatest, Live
    <3>8. TaskInv'
      BY <2>1, <3>1 DEF Inv, TaskInv, OneDialogAlive, Live
    <3>9. PromiseInv'
      BY <2>1, <2>3, <3>1 DEF Inv, PromiseInv, TypeOK, Ids
    <3> QED BY <3>3, <3>4, <3>5, <3>6, <3>7, <3>8, <3>9 DEF Inv
  <2> QED BY <2>4, <2>5
<1> QED BY <1>1, <1>2
--------------------------------------------------------------------------------
(* Every step. *)

LEMMA PendingType ==
  ASSUME Inv
  PROVE  /\ pending \in [Slots -> Checks \cup {None}]
         /\ \A s \in Slots : Answered(s) \in [Slots -> Checks \cup {None}]
BY DEF Inv, TypeOK, Answered

LEMMA CheckType ==
  ASSUME NEW d \in Ids, NEW step \in {"validator", "hook", "options"}, NEW b \in Buttons
  PROVE  Check(d, step, b) \in Checks
BY DEF Check, Checks

LEMMA AwaitType ==
  ASSUME NEW awaited \in [Slots -> Checks \cup {None}], NEW check \in Checks,
         Await(awaited, check)
  PROVE  pending' \in [Slots -> Checks \cup {None}]
BY DEF Await

LEMMA AwaitedCheck ==
  ASSUME Inv, NEW s \in Slots, pending[s] # None
  PROVE  pending[s] \in Checks /\ pending[s].of \in Ids /\ pending[s].button \in Buttons
BY DEF Inv, TypeOK, Checks

LEMMA PopupFields ==
  ASSUME Inv, popup # None
  PROVE  popup \in Popup /\ popup.of \in Ids
BY DEF Inv, TypeOK, Popup

LEMMA OutcomeOfType == \A b : OutcomeOf(b) \in Outcomes
BY DEF OutcomeOf, Outcomes

\* Whatever a handler makes of the buttons and the message, the popup is the same one.
LEMMA ButtonsAreSamePopup ==
  ASSUME Inv, popup # None
  PROVE  /\ SamePopup(popup)
         /\ SamePopup([popup EXCEPT !.disabled = TRUE])
         /\ SamePopup([popup EXCEPT !.disabled = FALSE])
         /\ SamePopup([popup EXCEPT !.invalid = FALSE])
BY PopupFields, NoneIsNoValue DEF SamePopup, Popup

LEMMA SamePopupFields ==
  ASSUME Inv, NEW shown, SamePopup(shown), shown # None
  PROVE  /\ SamePopup([shown EXCEPT !.invalid = FALSE])
         /\ SamePopup([shown EXCEPT !.disabled = FALSE, !.invalid = TRUE])
         /\ [shown EXCEPT !.disabled = FALSE, !.invalid = TRUE] # None
BY NoneIsNoValue DEF SamePopup, Popup

LEMMA HiddenLoadingIsSame == ASSUME Inv, NEW d PROVE SamePopup(HiddenLoading(d))
BY ButtonsAreSamePopup DEF HiddenLoading, SamePopup

LEMMA RefuseStep ==
  ASSUME Inv, NEW shown, SamePopup(shown), shown # None, Refuse(shown),
         UNCHANGED <<Instances, timeout>>, pending' \in [Slots -> Checks \cup {None}]
  PROVE  Inv'
<1>1. SamePopup(popup') /\ popup' # None
  BY SamePopupFields DEF Refuse
<1>2. SamePage(page', popup')
  BY <1>1, FocusPopupIsSame DEF Refuse
<1> QED BY <1>1, <1>2, HandlerStep DEF Refuse

LEMMA ApproveStep ==
  ASSUME Inv, NEW d \in Ids, NEW b \in Buttons, NEW shown, SamePopup(shown),
         NEW awaited \in [Slots -> Checks \cup {None}],
         Approve(d, b, shown, awaited), UNCHANGED <<Instances, timeout>>
  PROVE  Inv'
<1> DEFINE focused == IF params[d].loader /\ shown # None THEN FocusPopup(page) ELSE page
<1>1. SamePage(focused, shown)
  BY PageIsSame, FocusPopupIsSame
<1>2. CASE params[d].hook
  <2>1. /\ Await(awaited, Check(d, "hook", b))
        /\ popup' = IF b = "confirm" /\ shown # None
                    THEN [shown EXCEPT !.invalid = FALSE] ELSE shown
        /\ page' = focused
        /\ UNCHANGED <<promise, closeCallback, restoreFocusTimeout, disposals>>
    BY <1>2 DEF Approve
  <2> HIDE DEF focused
  <2>2. pending' \in [Slots -> Checks \cup {None}]
    BY <2>1, AwaitType, CheckType
  <2>3. SamePopup(popup') /\ (popup' = None => shown = None)
    BY <2>1, SamePopupFields DEF SamePopup
  <2>4. SamePage(page', popup')
    BY <1>1, <2>1, <2>3 DEF SamePage
  <2> QED BY <2>1, <2>2, <2>3, <2>4, HandlerStep
<1>3. CASE ~params[d].hook
  <2>1. pending' = awaited /\ Close(d, OutcomeOf(b), shown, focused)
    BY <1>3 DEF Approve
  <2> HIDE DEF focused
  <2> QED BY <1>1, <2>1, OutcomeOfType, CloseStep
<1> QED BY <1>2, <1>3

LEMMA DismissStep ==
  ASSUME Inv, NEW d \in Ids, NEW shown, SamePopup(shown), Dismiss(d, shown),
         timeout' = timeout \/ timeout' = None
  PROVE  Inv'
<1>1. "dismissed" \in Outcomes
  BY DEF Outcomes
<1>2. Close(d, "dismissed", shown, page) /\ UNCHANGED <<Instances, pending>>
  BY DEF Dismiss
<1>3. SamePage(page, shown)
  BY PageIsSame
<1> QED BY <1>1, <1>2, <1>3, CloseStep, PendingType

LEMMA FireStep == ASSUME Inv, NEW d \in Ids, NEW o \in Options, Fire(d, o) PROVE Inv'
<1>1. o \in Option
  BY SweetAlertAssumption
<1>2. Check(d, "options", "confirm") \in Checks
  BY CheckType DEF Buttons
<1>3. pending' \in [Slots -> Checks \cup {None}]
  BY <1>2, AwaitType, PendingType DEF Fire
<1> QED BY <1>1, <1>3, MainStep DEF Fire

LEMMA ShowLoadingStep == ASSUME Inv, ShowLoading PROVE Inv'
<1>1. CASE popup # None /\ page' = FocusPopup(page) /\ popup' = popup
  <2>1. SamePage(page', popup')
    BY <1>1, FocusPopupIsSame
  <2>2. SamePopup(popup')
    BY <1>1, ButtonsAreSamePopup
  <2>3. /\ UNCHANGED <<Instances, promise>>
        /\ UNCHANGED <<closeCallback, restoreFocusTimeout, disposals>>
        /\ timeout' = timeout /\ pending' = pending
    BY <1>1 DEF ShowLoading, Instances, Main
  <2> QED BY <2>1, <2>2, <2>3, PendingType, HandlerStep
<1>2. CASE popup = None /\ \E ghost \in Ids : Main(ghost, DefaultParams)
  BY <1>2, DefaultParamsType, PendingType, MainStep DEF ShowLoading
<1> QED BY <1>1, <1>2 DEF ShowLoading

LEMMA AnimationEndStep == ASSUME Inv, AnimationEnd PROVE Inv'
<1>1. popup # None /\ popup.of = closeCallback /\ popup.closing /\ closeCallback \in Ids
  BY DEF Inv, OneDialogAlive, AnimationEnd, TypeOK
<1>2. promise[closeCallback] # "pending"
  BY <1>1 DEF Inv, ClosingIsSettled
<1>3. SamePage(page, popup)
  BY PageIsSame
<1>4. promise \in [Ids -> Outcomes \cup {"pending"}]
  BY DEF Inv, TypeOK
<1>5. /\ RemovePopupAndResetState(closeCallback, page) /\ closeCallback' = None
      /\ UNCHANGED Instances /\ promise' = promise /\ timeout' = timeout /\ pending' = pending
  BY DEF AnimationEnd
<1> QED BY <1>1, <1>2, <1>3, <1>4, <1>5, PendingType, RemoveStep

LEMMA RestoreFocusStep == ASSUME Inv, RestoreFocus PROVE Inv'
<1> USE NoneIsNoValue
<1>1. /\ UNCHANGED <<params, latest, currentInstance, popup, promise, timeout>>
      /\ UNCHANGED <<closeCallback, pending>>
      /\ restoreFocusTimeout \in Ids
      /\ disposals' = disposals \cup {restoreFocusTimeout} /\ restoreFocusTimeout' = None
  BY DEF RestoreFocus, Instances, Inv, TypeOK
<1>2. /\ page' \in Page
      /\ page'.classes = page.classes /\ page'.aria = page.aria /\ page'.previous = page.previous
      /\ page'.previousActiveElement # "popup" /\ page'.focus # "popup"
  BY DEF RestoreFocus, Inv, TypeOK, PageInv, Page, Focusable
<1>3. TypeOK'
  BY <1>1, <1>2 DEF Inv, TypeOK
<1>4. PageInv'
  BY <1>1, <1>2 DEF Inv, PageInv, Hidden, Clean, IsModal, IsToast
<1>5. OneDialogAlive' /\ ClosingIsSettled' /\ TimerIsOfLatest' /\ PromiseInv'
  BY <1>1 DEF Inv, OneDialogAlive, ClosingIsSettled, TimerIsOfLatest, PromiseInv, Live
<1>6. TaskInv'
  BY <1>1 DEF Inv, TaskInv, Live
<1> QED BY <1>3, <1>4, <1>5, <1>6 DEF Inv

LEMMA DisposeStep == ASSUME Inv, NEW d \in Ids, Dispose(d) PROVE Inv'
<1> USE NoneIsNoValue
<1>1. /\ UNCHANGED <<latest, popup, promise, timeout, closeCallback, restoreFocusTimeout>>
      /\ UNCHANGED <<pending, page>>
      /\ disposals' \subseteq disposals
  BY DEF Dispose
<1>2. CASE ~Live(d)
  <2>1. UNCHANGED <<params, currentInstance>>
    BY <1>2 DEF Dispose
  <2>2. TypeOK' /\ OneDialogAlive' /\ ClosingIsSettled' /\ TimerIsOfLatest' /\ PromiseInv'
    BY <1>1, <2>1 DEF Inv, TypeOK, OneDialogAlive, ClosingIsSettled, TimerIsOfLatest,
                      PromiseInv, Live
  <2>3. PageInv'
    BY <1>1, <2>1 DEF Inv, PageInv, Hidden, Clean, IsModal, IsToast
  <2>4. TaskInv'
    BY <1>1, <2>1 DEF Inv, TaskInv, Live
  <2> QED BY <2>2, <2>3, <2>4 DEF Inv
<1>3. CASE Live(d)
  <2>1. params' = [e \in Ids |-> None] /\ currentInstance' = None
    BY <1>3 DEF Dispose, Forgotten
  <2>2. popup = None
    BY <1>3 DEF Dispose, Inv, TaskInv
  <2>3. TypeOK'
    BY <1>1, <2>1 DEF Inv, TypeOK
  <2>4. OneDialogAlive' /\ ClosingIsSettled' /\ TaskInv' /\ PromiseInv'
    BY <1>1, <2>1, <2>2 DEF Inv, OneDialogAlive, ClosingIsSettled, TaskInv, PromiseInv, Live
  <2>5. PageInv'
    BY <1>1, <2>1, <2>2 DEF Inv, PageInv, Hidden, Clean, IsModal, IsToast
  <2>6. TimerIsOfLatest'
    BY <1>1, <2>1 DEF Inv, TimerIsOfLatest, Live, TypeOK
  <2> QED BY <2>3, <2>4, <2>5, <2>6 DEF Inv
<1> QED BY <1>2, <1>3

LEMMA ButtonClickStep ==
  ASSUME Inv, NEW b \in Buttons, NEW valid \in BOOLEAN, ButtonClick(b, valid)
  PROVE  Inv'
<1> DEFINE d == popup.of
           clicked == [popup EXCEPT !.disabled = TRUE]
           validator == Check(d, "validator", b)
<1>1. popup # None /\ d \in Ids /\ SamePopup(clicked) /\ clicked # None
  BY PopupFields, ButtonsAreSamePopup DEF ButtonClick, SamePopup
<1>2. UNCHANGED <<Instances, timeout>>
  BY DEF ButtonClick
<1>3. CASE Approve(d, b, clicked, pending)
  <2> HIDE DEF d, clicked
  <2> QED BY <1>1, <1>2, <1>3, PendingType, ApproveStep
<1>4. CASE /\ Await(pending, validator)
           /\ popup' = clicked
           /\ UNCHANGED <<promise, closeCallback, restoreFocusTimeout, disposals, page>>
  <2>1. validator \in Checks
    BY <1>1, CheckType
  <2> HIDE DEF validator, clicked, d
  <2>2. pending' \in [Slots -> Checks \cup {None}]
    BY <1>4, <2>1, PendingType, AwaitType
  <2>3. SamePage(page', popup')
    BY <1>4, PageIsSame
  <2> QED BY <1>1, <1>2, <1>4, <2>2, <2>3, HandlerStep
<1>5. CASE Refuse(clicked) /\ UNCHANGED pending
  <2> HIDE DEF clicked, d
  <2> QED BY <1>1, <1>2, <1>5, PendingType, RefuseStep
<1>6. \/ Approve(d, b, clicked, pending)
      \/ /\ Await(pending, validator)
         /\ popup' = clicked
         /\ UNCHANGED <<promise, closeCallback, restoreFocusTimeout, disposals, page>>
      \/ Refuse(clicked) /\ UNCHANGED pending
  BY DEF ButtonClick
<1> HIDE DEF d, clicked, validator
<1> QED BY <1>3, <1>4, <1>5, <1>6

LEMMA ValidatorAnswersStep ==
  ASSUME Inv, NEW s \in Slots, NEW valid \in BOOLEAN, ValidatorAnswers(s, valid)
  PROVE  Inv'
<1> DEFINE d == pending[s].of
           enabled == IF popup = None THEN None ELSE [popup EXCEPT !.disabled = FALSE]
<1>1. d \in Ids /\ pending[s].button \in Buttons
  BY AwaitedCheck DEF ValidatorAnswers, Awaits
<1>2. SamePopup(enabled) /\ (popup # None => enabled # None)
  BY ButtonsAreSamePopup DEF SamePopup
<1>3. UNCHANGED <<Instances, timeout>>
  BY DEF ValidatorAnswers
<1>4. CASE Approve(d, pending[s].button, enabled, Answered(s))
  <2> HIDE DEF d, enabled
  <2> QED BY <1>1, <1>2, <1>3, <1>4, PendingType, ApproveStep
<1>5. CASE pending' = Answered(s) /\ popup # None /\ Refuse(enabled)
  <2> HIDE DEF d, enabled
  <2> QED BY <1>2, <1>3, <1>5, PendingType, RefuseStep
<1>6. CASE /\ pending' = Answered(s)
           /\ UNCHANGED <<popup, page, promise, closeCallback, restoreFocusTimeout, disposals>>
  <2>1. SamePopup(popup') /\ SamePage(page', popup')
    BY <1>6, ButtonsAreSamePopup, PageIsSame DEF SamePopup
  <2> QED BY <1>3, <1>6, <2>1, PendingType, HandlerStep
<1>7. \/ Approve(d, pending[s].button, enabled, Answered(s))
      \/ pending' = Answered(s) /\ popup # None /\ Refuse(enabled)
      \/ /\ pending' = Answered(s)
         /\ UNCHANGED <<popup, page, promise, closeCallback, restoreFocusTimeout, disposals>>
  BY DEF ValidatorAnswers
<1> HIDE DEF d, enabled
<1> QED BY <1>4, <1>5, <1>6, <1>7

LEMMA GhostStep == ASSUME Inv, NEW s \in Slots, ValidatorFiresGhost(s) PROVE Inv'
<1> DEFINE d == pending[s].of
           b == pending[s].button
<1>1. d \in Ids /\ b \in Buttons
  BY AwaitedCheck DEF ValidatorFiresGhost, Awaits
<1>2. Check(d, "hook", b) \in Checks
  BY <1>1, CheckType
<1>3. pending' = [pending EXCEPT ![s] = Check(d, "hook", b)] \/ pending' = Answered(s)
  BY DEF ValidatorFiresGhost
<1> HIDE DEF d, b
<1>4. pending' \in [Slots -> Checks \cup {None}]
  BY <1>2, <1>3, PendingType
<1> QED BY <1>4, DefaultParamsType, MainStep DEF ValidatorFiresGhost

LEMMA AnswerIsLostStep == ASSUME Inv, NEW s \in Slots, AnswerIsLost(s) PROVE Inv'
<1>1. SamePopup(popup') /\ SamePage(page', popup')
  BY ButtonsAreSamePopup, PageIsSame DEF AnswerIsLost, SamePopup
<1> QED BY <1>1, PendingType, HandlerStep DEF AnswerIsLost

LEMMA HookAnswersStep ==
  ASSUME Inv, NEW s \in Slots, NEW approves \in BOOLEAN, HookAnswers(s, approves)
  PROVE  Inv'
<1> DEFINE d == pending[s].of
<1>1. d \in Ids
  BY AwaitedCheck DEF HookAnswers, Awaits
<1>2. pending' = Answered(s) /\ UNCHANGED <<Instances, timeout>>
  BY DEF HookAnswers
<1>3. SamePopup(popup) /\ SamePage(page, popup)
  BY ButtonsAreSamePopup, PageIsSame DEF SamePopup
<1>4. CASE Close(d, OutcomeOf(pending[s].button), popup, page)
  <2> HIDE DEF d
  <2> QED BY <1>1, <1>2, <1>3, <1>4, OutcomeOfType, PendingType, CloseStep
<1>5. CASE /\ popup' = HiddenLoading(d)
           /\ UNCHANGED <<promise, closeCallback, restoreFocusTimeout, disposals, page>>
  <2>1. SamePopup(popup') /\ SamePage(page', popup')
    BY <1>5, HiddenLoadingIsSame, PageIsSame
  <2> QED BY <1>2, <1>5, <2>1, PendingType, HandlerStep
<1> QED BY <1>4, <1>5 DEF HookAnswers

LEMMA OptionsArriveStep == ASSUME Inv, NEW s \in Slots, OptionsArrive(s) PROVE Inv'
<1>1. SamePopup(popup')
  BY HiddenLoadingIsSame DEF OptionsArrive
<1>2. SamePage(page', popup')
  BY <1>1, PageIsSame, FocusPopupIsSame DEF OptionsArrive, SamePopup
<1> QED BY <1>1, <1>2, PendingType, HandlerStep DEF OptionsArrive

\* Cancel, close button, escape, backdrop, Swal.close and the timer.
LEMMA DismissalStep ==
  ASSUME Inv, CancelClick \/ CloseClick \/ Escape \/ BackdropClick \/ CloseLatest \/ TimerFires
  PROVE  Inv'
<1>1. SamePopup(popup)
  BY ButtonsAreSamePopup DEF SamePopup
<1>2. CASE CancelClick
  <2>1. popup.of \in Ids /\ SamePopup([popup EXCEPT !.disabled = TRUE])
    BY <1>2, PopupFields, ButtonsAreSamePopup DEF CancelClick
  <2> QED BY <1>2, <2>1, DismissStep DEF CancelClick
<1>3. CASE CloseClick
  BY <1>1, <1>3, PopupFields, DismissStep DEF CloseClick
<1>4. CASE Escape
  BY <1>1, <1>4, PopupFields, DismissStep DEF Escape
<1>5. CASE BackdropClick
  BY <1>1, <1>5, PopupFields, DismissStep DEF BackdropClick
<1>6. CASE CloseLatest
  <2>1. latest \in Ids
    BY <1>6 DEF CloseLatest, Inv, TypeOK
  <2> QED BY <1>1, <1>6, <2>1, DismissStep DEF CloseLatest
<1>7. CASE TimerFires
  <2>1. timeout.of \in Ids
    BY <1>7 DEF TimerFires, Inv, TypeOK
  <2> QED BY <1>1, <1>7, <2>1, DismissStep DEF TimerFires
<1> QED BY <1>2, <1>3, <1>4, <1>5, <1>6, <1>7

LEMMA TimerStep == ASSUME Inv, StopTimer \/ ResumeTimer PROVE Inv'
<1>1. /\ UNCHANGED <<params, latest, currentInstance, popup, promise, closeCallback>>
      /\ UNCHANGED <<restoreFocusTimeout, disposals, pending, page>>
      /\ timeout # None
      /\ \E running \in BOOLEAN : timeout' = [timeout EXCEPT !.running = running]
  BY DEF StopTimer, ResumeTimer, Instances
<1>2. /\ timeout \in [of : Ids, running : BOOLEAN]
      /\ timeout' \in [of : Ids, running : BOOLEAN]
      /\ timeout'.of = timeout.of
  BY <1>1 DEF Inv, TypeOK
<1>3. TypeOK' /\ OneDialogAlive' /\ ClosingIsSettled' /\ TaskInv' /\ PromiseInv'
  BY <1>1, <1>2 DEF Inv, TypeOK, OneDialogAlive, ClosingIsSettled, TaskInv, PromiseInv, Live
<1>4. PageInv'
  BY <1>1 DEF Inv, PageInv, Hidden, Clean, IsModal, IsToast
<1>5. TimerIsOfLatest'
  BY <1>1, <1>2 DEF Inv, TimerIsOfLatest, Live
<1> QED BY <1>3, <1>4, <1>5 DEF Inv

LEMMA UpdateStep == ASSUME Inv, NEW u \in Updates, Update(u) PROVE Inv'
<1> USE NoneIsNoValue
<1> DEFINE old == params[latest]
           updated == [old EXCEPT !.animated = u.animated, !.hook = u.hook,
                                  !.escape = u.escape, !.outside = u.outside,
                                  !.buttons = u.buttons, !.returnFocus = u.returnFocus]
<1>1. /\ popup # None /\ ~popup.closing /\ latest \in Ids /\ Live(latest)
      /\ params' = [params EXCEPT ![latest] = updated]
      /\ page' = AddClasses(page, updated)
      /\ popup' = [popup EXCEPT !.invalid = FALSE]
      /\ UNCHANGED <<latest, currentInstance, promise, timeout, closeCallback>>
      /\ UNCHANGED <<restoreFocusTimeout, disposals, pending>>
  BY DEF Update, Inv, TypeOK
<1>2. u \in Option
  BY SweetAlertAssumption
<1>3. /\ old \in Option /\ updated \in Option
      /\ updated.toast = old.toast /\ updated.backdrop = old.backdrop
      /\ updated.timer = old.timer
  <2>1. old \in Option
    BY <1>1 DEF Inv, TypeOK, Live
  <2> HIDE DEF old
  <2> QED
    BY <1>2, <2>1 DEF Option
<1> HIDE DEF updated
<1>4. popup.of = latest /\ popup \in Popup
  BY <1>1, PopupFields DEF Inv, OneDialogAlive
<1>5. /\ popup' \in Popup /\ popup'.of = latest /\ popup'.closing = popup.closing
  BY <1>1, <1>4 DEF Popup
<1>6. /\ page.classes = KindClasses(old)
      /\ KindClasses(updated) = KindClasses(old)
  BY <1>1, <1>3, <1>4 DEF Inv, PageInv, KindClasses
<1>7. page' = page
  <2>1. page.classes \cup (IF updated.toast THEN {"toast-shown"} ELSE {})
                     \cup (IF updated.backdrop THEN {} ELSE {"no-backdrop"}) = page.classes
    BY <1>3, <1>6 DEF KindClasses
  <2> QED BY <1>1, <2>1 DEF AddClasses, Inv, TypeOK, Page
<1>8. \A d \in Ids : (Live(d))' <=> Live(d)
  BY <1>1, <1>3 DEF Live, Inv, TypeOK
<1>9. params'[latest] = updated /\ params' \in [Ids -> Option \cup {None}]
  BY <1>1, <1>3 DEF Inv, TypeOK
<1>10. TypeOK'
  BY <1>1, <1>5, <1>7, <1>9 DEF Inv, TypeOK
<1>11. OneDialogAlive' /\ ClosingIsSettled'
  BY <1>1, <1>4, <1>5, <1>8 DEF Inv, OneDialogAlive, ClosingIsSettled
<1>12. PageInv'
  BY <1>1, <1>4, <1>5, <1>6, <1>7, <1>9 DEF Inv, PageInv, Hidden, Clean, IsModal, IsToast
<1>13. TimerIsOfLatest'
  BY <1>1, <1>3, <1>9 DEF Inv, TimerIsOfLatest, Live
<1>14. TaskInv' /\ PromiseInv'
  BY <1>1, <1>8 DEF Inv, TaskInv, PromiseInv
<1> QED BY <1>10, <1>11, <1>12, <1>13, <1>14 DEF Inv

LEMMA RetouchStep == ASSUME Inv, Retouch PROVE Inv'
<1>1. SamePopup(popup')
  BY PopupFields, NoneIsNoValue DEF Retouch, SamePopup, Popup
<1>2. SamePage(page', popup')
  BY PageIsSame DEF Retouch
<1> QED BY <1>1, <1>2, PendingType, HandlerStep DEF Retouch

LEMMA MoveFocusStep == ASSUME Inv, NEW x \in Focusable, MoveFocus(x) PROVE Inv'
<1>1. /\ UNCHANGED <<params, latest, currentInstance, popup, promise, timeout>>
      /\ UNCHANGED <<closeCallback, restoreFocusTimeout, disposals, pending>>
      /\ page' = [page EXCEPT !.focus = x]
      /\ x = "popup" => popup # None
  BY DEF MoveFocus, Instances
<1>2. /\ page' \in Page /\ page'.focus = x
      /\ page'.classes = page.classes /\ page'.aria = page.aria /\ page'.previous = page.previous
      /\ page'.previousActiveElement = page.previousActiveElement
  BY <1>1 DEF Inv, TypeOK, Page
<1>3. PageInv'
  BY <1>1, <1>2 DEF Inv, PageInv, Hidden, Clean, IsModal, IsToast
<1>4. /\ TypeOK' /\ OneDialogAlive' /\ ClosingIsSettled' /\ TimerIsOfLatest' /\ TaskInv'
      /\ PromiseInv'
  BY <1>1, <1>2 DEF Inv, TypeOK, OneDialogAlive, ClosingIsSettled, TimerIsOfLatest, TaskInv,
                    PromiseInv, Live
<1> QED BY <1>3, <1>4 DEF Inv

LEMMA StutterInv == ASSUME Inv, UNCHANGED vars PROVE Inv'
<1>1. SamePopup(popup') /\ SamePage(page', popup')
  BY ButtonsAreSamePopup, PageIsSame DEF vars, SamePopup
<1> QED BY <1>1, PendingType, HandlerStep DEF vars, Instances

LEMMA NextInv == Inv /\ [Next]_vars => Inv'
BY FireStep, ShowLoadingStep, AnimationEndStep, RestoreFocusStep, DisposeStep, ButtonClickStep,
   ValidatorAnswersStep, GhostStep, AnswerIsLostStep, HookAnswersStep, OptionsArriveStep,
   DismissalStep, TimerStep, UpdateStep, RetouchStep, MoveFocusStep, StutterInv DEF Next
--------------------------------------------------------------------------------
(* The promises and the dialogs as the page sees them. *)

\* How a step can change what the page sees: not at all, by one answer, or by a fire.
Unseen == \A d \in Ids : (Status(d))' = Status(d)

Answers(d, outcome) ==
  /\ Open(d) /\ promise[d] = "pending"
  /\ promise' = [promise EXCEPT ![d] = outcome]
  /\ latest' = latest
  /\ popup' = None \/ popup'.of = popup.of

LEMMA CloseAnswers ==
  ASSUME Inv, NEW d \in Ids, NEW outcome, NEW shown, NEW pg,
         SamePopup(shown), Close(d, outcome, shown, pg), UNCHANGED Instances
  PROVE  \/ Answers(d, outcome)
         \/ promise' = promise /\ latest' = latest /\ SamePopup(popup')
<1>1. CASE ~Closable(d, shown)
  BY <1>1 DEF Close, Instances
<1>2. CASE Closable(d, shown)
  <2>1. Open(d) /\ ~popup.closing
    BY <1>2, ClosableIsOpen DEF Open
  <2>2. promise[d] = "pending"
    BY <2>1 DEF Inv, ClosingIsSettled, Open
  <2>3. promise' = [promise EXCEPT ![d] = outcome] /\ latest' = latest
    BY <1>2 DEF Close, Resolved, Instances
  <2>4. popup' = None \/ popup' = [shown EXCEPT !.closing = TRUE]
    BY <1>2 DEF Close, RemovePopupAndResetState
  <2>5. popup' = None \/ popup'.of = popup.of
    BY <1>2, <2>4 DEF Closable, SamePopup, Popup
  <2> QED BY <2>1, <2>2, <2>3, <2>5 DEF Answers
<1> QED BY <1>1, <1>2

LEMMA ApproveAnswers ==
  ASSUME Inv, NEW d \in Ids, NEW b \in Buttons, NEW shown, SamePopup(shown),
         NEW awaited, Approve(d, b, shown, awaited), UNCHANGED Instances
  PROVE  \/ Answers(d, OutcomeOf(b)) /\ ~params[d].hook
         \/ promise' = promise /\ latest' = latest /\ SamePopup(popup')
<1>1. CASE params[d].hook
  <2>1. /\ promise' = promise
        /\ popup' = IF b = "confirm" /\ shown # None
                    THEN [shown EXCEPT !.invalid = FALSE] ELSE shown
    BY <1>1 DEF Approve
  <2> QED BY <2>1, SamePopupFields DEF Instances
<1>2. CASE ~params[d].hook
  <2>1. \E pg : Close(d, OutcomeOf(b), shown, pg)
    BY <1>2 DEF Approve
  <2> QED BY <1>2, <2>1, CloseAnswers
<1> QED BY <1>1, <1>2

LEMMA DismissAnswers ==
  ASSUME Inv, NEW d \in Ids, NEW shown, SamePopup(shown), Dismiss(d, shown)
  PROVE  \/ Answers(d, "dismissed")
         \/ promise' = promise /\ latest' = latest /\ SamePopup(popup')
<1>1. Close(d, "dismissed", shown, page) /\ UNCHANGED Instances
  BY DEF Dismiss
<1> QED BY <1>1, CloseAnswers

\* A confirmation is the answer of the hook, or of a dialog that has none.
Confirms(d) ==
  \/ ~params[d].hook
  \/ /\ Open(d) /\ ~popup.invalid
     /\ \E s \in Slots : pending[s] = Check(d, "hook", "confirm") /\ pending'[s] = None

StillThere == promise' = promise /\ latest' = latest /\ SamePopup(popup')

\* Everything the page can see of a step.
StepSeen ==
  \/ \E d \in Ids, o \in Option : Main(d, o)
  \/ \E d \in Ids, outcome \in Outcomes : Answers(d, outcome) /\ (outcome = "confirmed" => Confirms(d))
  \/ StillThere
  \/ popup' = None /\ popup # None /\ popup.closing /\ promise' = promise /\ latest' = latest

LEMMA HookAnswersSeen ==
  ASSUME Inv, NEW s \in Slots, NEW approves \in BOOLEAN, HookAnswers(s, approves)
  PROVE  StepSeen
<1> DEFINE d == pending[s].of
           b == pending[s].button
<1>1. d \in Ids /\ b \in Buttons /\ pending[s] \in Checks /\ pending[s].step = "hook"
  BY AwaitedCheck DEF HookAnswers, Awaits
<1>2. SamePopup(popup)
  BY ButtonsAreSamePopup DEF SamePopup
<1>3. CASE Refuses(b, approves)
  <2>1. promise' = promise /\ latest' = latest /\ popup' = HiddenLoading(d)
    BY <1>3 DEF HookAnswers, Instances
  <2> QED BY <2>1, HiddenLoadingIsSame DEF StepSeen, StillThere
<1>4. CASE ~Refuses(b, approves)
  <2>1. Close(d, OutcomeOf(b), popup, page) /\ UNCHANGED Instances
    BY <1>4 DEF HookAnswers
  <2>2. Answers(d, OutcomeOf(b)) \/ StillThere
    <3> HIDE DEF d, b
    <3> QED BY <1>1, <1>2, <2>1, CloseAnswers DEF StillThere
  <2>3. ASSUME Answers(d, OutcomeOf(b)), OutcomeOf(b) = "confirmed" PROVE Confirms(d)
    <3>1. b = "confirm" /\ Open(d)
      BY <2>3 DEF OutcomeOf, Answers
    <3>2. ~popup.invalid
      BY <1>4, <3>1 DEF Refuses, Open
    <3>3. pending[s] = Check(d, "hook", "confirm")
      BY <1>1, <3>1 DEF Checks, Check
    <3>4. pending'[s] = None
      BY DEF HookAnswers, Answered, Inv, TypeOK
    <3> HIDE DEF d, b
    <3> QED BY <3>1, <3>2, <3>3, <3>4 DEF Confirms
  <2> HIDE DEF d, b
  <2> QED BY <1>1, <2>2, <2>3, OutcomeOfType DEF StepSeen
<1> QED BY <1>3, <1>4

LEMMA ApproveSeen ==
  ASSUME Inv, NEW d \in Ids, NEW b \in Buttons, NEW shown, SamePopup(shown),
         NEW awaited, Approve(d, b, shown, awaited), UNCHANGED Instances
  PROVE  StepSeen
BY ApproveAnswers, OutcomeOfType DEF StepSeen, StillThere, Confirms

LEMMA DismissSeen ==
  ASSUME Inv, NEW d \in Ids, NEW shown, SamePopup(shown), Dismiss(d, shown)
  PROVE  StepSeen
<1>1. "dismissed" \in Outcomes /\ "dismissed" # "confirmed"
  BY DEF Outcomes
<1> QED BY <1>1, DismissAnswers DEF StepSeen, StillThere

LEMMA DismissalSeen ==
  ASSUME Inv, CancelClick \/ CloseClick \/ Escape \/ BackdropClick \/ CloseLatest \/ TimerFires
  PROVE  StepSeen
<1>1. SamePopup(popup)
  BY ButtonsAreSamePopup DEF SamePopup
<1>2. CASE CancelClick
  <2>1. popup.of \in Ids /\ SamePopup([popup EXCEPT !.disabled = TRUE])
    BY <1>2, PopupFields, ButtonsAreSamePopup DEF CancelClick
  <2> QED BY <1>2, <2>1, DismissSeen DEF CancelClick
<1>3. CASE CloseClick
  BY <1>1, <1>3, PopupFields, DismissSeen DEF CloseClick
<1>4. CASE Escape
  BY <1>1, <1>4, PopupFields, DismissSeen DEF Escape
<1>5. CASE BackdropClick
  BY <1>1, <1>5, PopupFields, DismissSeen DEF BackdropClick
<1>6. CASE CloseLatest
  <2>1. latest \in Ids
    BY <1>6 DEF CloseLatest, Inv, TypeOK
  <2> QED BY <1>1, <1>6, <2>1, DismissSeen DEF CloseLatest
<1>7. CASE TimerFires
  <2>1. timeout.of \in Ids
    BY <1>7 DEF TimerFires, Inv, TypeOK
  <2> QED BY <1>1, <1>7, <2>1, DismissSeen DEF TimerFires
<1> QED BY <1>2, <1>3, <1>4, <1>5, <1>6, <1>7

LEMMA ButtonClickSeen ==
  ASSUME Inv, NEW b \in Buttons, NEW valid \in BOOLEAN, ButtonClick(b, valid)
  PROVE  StepSeen
<1> DEFINE clicked == [popup EXCEPT !.disabled = TRUE]
<1>1. popup.of \in Ids /\ SamePopup(clicked) /\ clicked # None
  BY PopupFields, ButtonsAreSamePopup DEF ButtonClick, SamePopup
<1>2. \/ Approve(popup.of, b, clicked, pending)
      \/ promise' = promise /\ popup' = clicked
      \/ Refuse(clicked)
  BY DEF ButtonClick
<1>3. UNCHANGED Instances
  BY DEF ButtonClick
<1> HIDE DEF clicked
<1>4. CASE Refuse(clicked)
  BY <1>1, <1>3, <1>4, SamePopupFields DEF Refuse, StepSeen, StillThere, Instances
<1>5. CASE Approve(popup.of, b, clicked, pending)
  BY <1>1, <1>3, <1>5, ApproveSeen
<1>6. CASE promise' = promise /\ popup' = clicked
  BY <1>1, <1>3, <1>6 DEF StepSeen, StillThere, Instances
<1> QED BY <1>2, <1>4, <1>5, <1>6

LEMMA ValidatorAnswersSeen ==
  ASSUME Inv, NEW s \in Slots, NEW valid \in BOOLEAN, ValidatorAnswers(s, valid)
  PROVE  StepSeen
<1> DEFINE enabled == IF popup = None THEN None ELSE [popup EXCEPT !.disabled = FALSE]
<1>1. pending[s].of \in Ids /\ pending[s].button \in Buttons
  BY AwaitedCheck DEF ValidatorAnswers, Awaits
<1>2. SamePopup(enabled) /\ (popup # None => enabled # None) /\ SamePopup(popup)
  BY ButtonsAreSamePopup DEF SamePopup
<1>3. \/ Approve(pending[s].of, pending[s].button, enabled, Answered(s))
      \/ promise' = promise /\ popup' = popup
      \/ popup # None /\ Refuse(enabled)
  BY DEF ValidatorAnswers
<1>4. UNCHANGED Instances
  BY DEF ValidatorAnswers
<1> HIDE DEF enabled
<1>5. CASE Approve(pending[s].of, pending[s].button, enabled, Answered(s))
  BY <1>1, <1>2, <1>4, <1>5, ApproveSeen
<1>6. CASE popup # None /\ Refuse(enabled)
  BY <1>2, <1>4, <1>6, SamePopupFields DEF Refuse, StepSeen, StillThere, Instances
<1>7. CASE promise' = promise /\ popup' = popup
  BY <1>2, <1>4, <1>7 DEF StepSeen, StillThere, Instances
<1> QED BY <1>3, <1>5, <1>6, <1>7

\* The steps that close nothing.
LEMMA OthersSeen ==
  ASSUME Inv,
         \/ RestoreFocus \/ \E d \in Ids : Dispose(d)
         \/ \E s \in Slots : AnswerIsLost(s) \/ OptionsArrive(s)
         \/ StopTimer \/ ResumeTimer \/ Retouch
         \/ \E u \in Updates : Update(u)
         \/ \E x \in Focusable : MoveFocus(x)
         \/ UNCHANGED vars
  PROVE  StepSeen
<1>1. promise' = promise /\ latest' = latest
  BY DEF RestoreFocus, Dispose, AnswerIsLost, OptionsArrive, StopTimer, ResumeTimer, Retouch,
         Update, MoveFocus, Instances, vars
<1>2. \/ popup' = popup
      \/ \E s \in Slots : popup' = HiddenLoading(pending[s].of)
      \/ Retouch
      \/ popup # None /\ popup' = [popup EXCEPT !.invalid = FALSE]
  BY DEF RestoreFocus, Dispose, AnswerIsLost, OptionsArrive, StopTimer, ResumeTimer, Update,
         MoveFocus, vars
<1>3. Retouch => SamePopup(popup')
  BY PopupFields, NoneIsNoValue DEF Retouch, SamePopup, Popup
<1>4. SamePopup(popup)
  BY ButtonsAreSamePopup DEF SamePopup
<1> QED BY <1>1, <1>2, <1>3, <1>4, HiddenLoadingIsSame, ButtonsAreSamePopup
        DEF StepSeen, StillThere

LEMMA OpeningSeen ==
  ASSUME Inv,
         \/ \E d \in Ids, o \in Options : Fire(d, o)
         \/ ShowLoading
         \/ \E s \in Slots : ValidatorFiresGhost(s)
  PROVE  StepSeen
<1>1. Options \subseteq Option
  BY SweetAlertAssumption
<1>2. SamePopup(popup)
  BY ButtonsAreSamePopup DEF SamePopup
<1>3. CASE ShowLoading
  BY <1>2, <1>3, DefaultParamsType DEF ShowLoading, StepSeen, StillThere
<1>4. CASE \E d \in Ids, o \in Options : Fire(d, o)
  BY <1>1, <1>4 DEF Fire, StepSeen
<1>5. CASE \E s \in Slots : ValidatorFiresGhost(s)
  BY <1>5, DefaultParamsType DEF ValidatorFiresGhost, StepSeen
<1> QED BY <1>3, <1>4, <1>5

LEMMA AnimationEndSeen == ASSUME Inv, AnimationEnd PROVE StepSeen
<1>1. popup # None /\ popup.closing
  BY DEF Inv, OneDialogAlive, AnimationEnd
<1>2. popup' = None /\ promise' = promise /\ latest' = latest
  BY DEF AnimationEnd, RemovePopupAndResetState, Instances
<1> QED BY <1>1, <1>2 DEF StepSeen

LEMMA NextSeen == ASSUME Inv, [Next]_vars PROVE StepSeen
BY OpeningSeen, AnimationEndSeen, ButtonClickSeen, ValidatorAnswersSeen, HookAnswersSeen,
   DismissalSeen, OthersSeen DEF Next
--------------------------------------------------------------------------------
(* The refinement. *)

Statuses == [d \in Ids |-> Status(d)]

LEMMA MainFires ==
  ASSUME Inv, NEW d \in Ids, NEW o \in Option, Main(d, o)
  PROVE  D!Fire(d)
<1>0. popup' \in Popup /\ popup'.of = d
  BY DEF Main, Popup
<1>1. /\ d = latest + 1 /\ latest' = d /\ promise' = promise
      /\ popup' # None /\ popup'.of = d
  BY <1>0, NoneIsNoValue DEF Main
<1>2. latest \in Nat /\ \A e \in Ids : e \in Nat
  BY DEF Inv, TypeOK, Ids
<1>3. Status(d) = "unfired" /\ promise[d] = "pending"
  BY <1>1, <1>2 DEF Status, Inv, PromiseInv
<1>4. (Status(d))' = "open"
  BY <1>1, <1>2, <1>3 DEF Status, Open
<1>5. ASSUME NEW e \in Ids, e # d
      PROVE  (Status(e))' = IF Status(e) = "open" THEN "replaced" ELSE Status(e)
  <2>0. e \in Nat /\ latest \in Nat
    BY <1>2
  <2>1. e > latest <=> e > latest'
    BY <1>1, <1>5, <2>0
  <2>2. promise'[e] = promise[e] /\ ~(Open(e))'
    BY <1>1, <1>5 DEF Open
  <2>3. promise[e] # "open"
    BY DEF Inv, TypeOK, Outcomes
  <2> QED BY <2>1, <2>2, <2>3 DEF Status
<1> QED BY <1>3, <1>4, <1>5 DEF D!Fire

LEMMA AnswersSettle ==
  ASSUME Inv, NEW d \in Ids, NEW outcome \in Outcomes, Answers(d, outcome)
  PROVE  D!Settle(d, outcome)
<1>1. d = latest /\ latest \in Nat /\ outcome # "pending"
  <2>1. d = latest
    BY NoneIsNoValue DEF Answers, Open, Inv, OneDialogAlive
  <2> QED BY <2>1 DEF Inv, TypeOK, Ids, Outcomes
<1>2. Status(d) = "open"
  BY <1>1 DEF Status, Answers
<1>3. promise'[d] = outcome /\ latest' = latest
  BY DEF Answers, Inv, TypeOK
<1>4. (Status(d))' = outcome
  BY <1>1, <1>3 DEF Status
<1>5. ASSUME NEW e \in Ids, e # d PROVE (Status(e))' = Status(e)
  <2>1. promise'[e] = promise[e]
    BY <1>5 DEF Answers, Inv, TypeOK
  <2>2. ~Open(e) /\ ~(Open(e))'
    BY <1>5 DEF Answers, Open
  <2> QED BY <1>3, <2>1, <2>2 DEF Status
<1> QED BY <1>2, <1>4, <1>5 DEF D!Settle

LEMMA UnseenSteps ==
  ASSUME Inv, StillThere \/ (/\ popup' = None /\ popup # None /\ popup.closing
                             /\ promise' = promise /\ latest' = latest)
  PROVE  UNCHANGED Statuses
<1>1. promise' = promise /\ latest' = latest
  BY DEF StillThere
<1>2. ASSUME NEW e \in Ids PROVE (Status(e))' = Status(e)
  <2>1. CASE promise[e] # "pending"
    BY <1>1, <2>1 DEF Status
  <2>2. CASE promise[e] = "pending"
    <3>1. Open(e) <=> (Open(e))'
      BY <2>2 DEF Open, StillThere, SamePopup, Inv, ClosingIsSettled
    <3> QED BY <1>1, <3>1 DEF Status
  <2> QED BY <2>1, <2>2
<1> QED BY <1>2 DEF Statuses

LEMMA RefinedNext == ASSUME Inv, [Next]_vars PROVE [D!Next]_Statuses
<1>1. StepSeen
  BY NextSeen
<1> QED BY <1>1, MainFires, AnswersSettle, UnseenSteps DEF StepSeen, D!Next

LEMMA RefinedInit == Init => D!Init
<1> SUFFICES ASSUME Init PROVE D!Init
  OBVIOUS
<1>1. \A d \in Ids : Status(d) = "unfired"
  BY DEF Init, Status, Ids
<1> QED BY <1>1 DEF D!Init

LEMMA HookConfirms == ASSUME Inv, [Next]_vars PROVE ConfirmedStep
<1> SUFFICES ASSUME NEW d \in Ids, promise[d] = "pending", promise'[d] = "confirmed",
                    params[d].hook
             PROVE  /\ Open(d) /\ ~popup.invalid
                    /\ \E s \in Slots : /\ pending[s] = Check(d, "hook", "confirm")
                                        /\ pending'[s] = None
  BY DEF ConfirmedStep
<1>1. StepSeen /\ promise' # promise
  BY NextSeen
<1>2. PICK e \in Ids, outcome \in Outcomes :
        Answers(e, outcome) /\ (outcome = "confirmed" => Confirms(e))
  BY <1>1 DEF StepSeen, StillThere, Main
<1>3. e = d /\ outcome = "confirmed"
  BY <1>2 DEF Answers, Inv, TypeOK
<1> QED BY <1>2, <1>3 DEF Confirms
--------------------------------------------------------------------------------
LEMMA Inductive == Spec => []Inv
<1>1. Init => Inv
  BY InitInv
<1>2. Inv /\ [Next]_vars => Inv'
  BY NextInv
<1> QED BY <1>1, <1>2, PTL DEF Spec

\* The shared state of the dialogs, of the page and of the tasks keeps its type.
THEOREM TypeCorrect == Spec => []TypeOK
<1>1. Inv => TypeOK
  BY DEF Inv
<1> QED BY <1>1, Inductive, PTL

\* However fires, closings, tasks and late answers interleave, at most the latest instance
\* is alive, and the popup and its closing are those of that instance.
THEOREM AlwaysOneDialog == Spec => []OneDialogAlive
<1>1. Inv => OneDialogAlive
  BY DEF Inv
<1> QED BY <1>1, Inductive, PTL

\* No dialog that is not replaced leaves without resolving its promise, and none resolves
\* it and stays.
THEOREM ClosingMeansSettled == Spec => []ClosingIsSettled
<1>1. Inv => ClosingIsSettled
  BY DEF Inv
<1> QED BY <1>1, Inductive, PTL

\* The page is hidden from assistive technology while a modal dialog shows, and never
\* afterwards.
THEOREM PageAlwaysReachable == Spec => []PageReachable
<1>1. Inv => PageReachable
  BY DEF Inv, PageInv, PageReachable, Hidden, Clean
<1> QED BY <1>1, Inductive, PTL

\* The classes that tell a toast from a modal are those of the dialog that shows.
THEOREM ClassesAlwaysMatch == Spec => []ClassesAreTheDialogs
<1>1. ASSUME Inv PROVE ClassesAreTheDialogs
  <2>1. ASSUME NEW d \in Ids, Open(d)
        PROVE  page.classes = KindClasses(params[d]) /\ params[d] \in Option
    <3>1. Live(d)
      BY <2>1, <1>1 DEF Open, Inv, OneDialogAlive
    <3> QED BY <1>1, <2>1, <3>1 DEF Open, Inv, PageInv, TypeOK, Live
  <2>2. popup = None => page.classes = {}
    BY <1>1 DEF Inv, PageInv
  <2> QED BY <2>1, <2>2 DEF ClassesAreTheDialogs, KindClasses, IsModal, IsToast, Option
<1> QED BY <1>1, Inductive, PTL

\* The focus is never given back to an element of a popup that is gone.
THEOREM FocusAlwaysReturnsToPage == Spec => []FocusReturnsToPage
<1>1. Inv => FocusReturnsToPage
  BY DEF Inv, PageInv, FocusReturnsToPage
<1> QED BY <1>1, Inductive, PTL

\* The timer that runs is always the latest dialog's.
THEOREM TimerAlwaysOfLatest == Spec => []TimerIsOfLatest
<1>1. Inv => TimerIsOfLatest
  BY DEF Inv
<1> QED BY <1>1, Inductive, PTL

\* preConfirm decides about every confirmation, also when it answers late, twice or after
\* an update.
THEOREM HookAlwaysConfirms == Spec => ConfirmedByItsHook
<1>1. Inv /\ [Next]_vars => [ConfirmedStep]_vars
  BY HookConfirms
<1> QED BY <1>1, Inductive, PTL DEF Spec, ConfirmedByItsHook

\* The dialogs implement what Dialogs promises the scripts of the pages.
THEOREM DialogsAreImplemented == Spec => ImplementsDialogs
<1>1. Inv /\ [Next]_vars => [D!Next]_([d \in Ids |-> Status(d)])
  BY RefinedNext DEF Statuses
<1> QED BY <1>1, RefinedInit, Inductive, PTL DEF Spec, ImplementsDialogs, D!Spec
================================================================================
