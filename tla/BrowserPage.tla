------------------------------- MODULE BrowserPage -------------------------------
(***************************************************************************)
(* A page of the site in a browser, with the scripts it loads: a page with *)
(* a ceremony (PageScripts), or one with toasts (Toastify), links          *)
(* (InstantPage), a timer (DialogTimer), buttons (DialogButtons) or an     *)
(* input (DialogInput) of a dialog.  They share no state, so each is on a  *)
(* page of its own; what dialogs share is in PageScripts and SweetAlert.   *)
(***************************************************************************)
EXTENDS PageScripts, Toastify, InstantPage, DialogTimer, DialogButtons,
        DialogInput

pageVars == <<scriptVars, toastVars, instantVars, timerVars, buttonVars,
              inputVars>>

WidgetPages == {"toasts", "links", "timer", "buttons", "input"}

TypeOK ==
  /\ page \in CeremonyPages \cup WidgetPages
  /\ ScriptsTypeOK /\ ToastsTypeOK /\ InstantTypeOK /\ TimerTypeOK /\ ButtonsTypeOK
  /\ InputTypeOK

\* A script that the page does not load stays where it begins.
Init ==
  /\ page \in CeremonyPages \cup WidgetPages
  /\ InitScripts /\ InitToasts /\ InitInstant /\ InitTimer /\ InitButtons
  /\ InitInput
  /\ page # "buttons" => rendered = {} /\ keyFocus = "popup"
  /\ page # "input" => input = "radio" /\ inputValue = ""

Next ==
  \/ /\ page \in CeremonyPages /\ NextScripts
     /\ UNCHANGED <<toastVars, instantVars, timerVars, buttonVars, inputVars>>
  \/ /\ page = "toasts" /\ NextToasts
     /\ UNCHANGED <<scriptVars, instantVars, timerVars, buttonVars, inputVars>>
  \/ /\ page = "links" /\ NextInstant
     /\ UNCHANGED <<scriptVars, toastVars, timerVars, buttonVars, inputVars>>
  \/ /\ page = "timer" /\ NextTimer
     /\ UNCHANGED <<scriptVars, toastVars, instantVars, buttonVars, inputVars>>
  \/ /\ page = "buttons" /\ NextButtons
     /\ UNCHANGED <<scriptVars, toastVars, instantVars, timerVars, inputVars>>
  \/ /\ page = "input" /\ NextInput
     /\ UNCHANGED <<scriptVars, toastVars, instantVars, timerVars, buttonVars>>

Spec == Init /\ [][Next]_pageVars

FairSpec == Spec /\ FairScripts /\ FairToasts
================================================================================
