------------------------------ MODULE MCSweetAlert ------------------------------
(***************************************************************************)
(* SweetAlert for TLC: a page that shows an input with a validator and a   *)
(* hook, a toast with a timer and a dialog beside the page.  The fourth    *)
(* kind, a modal that closes with an animation, is the one of ShowLoading. *)
(***************************************************************************)
EXTENDS SweetAlert

Form == [DefaultParams EXCEPT !.input = "validated", !.hook = TRUE, !.loader = TRUE,
                              !.animated = FALSE]

Toast == [DefaultParams EXCEPT !.toast = TRUE, !.timer = TRUE, !.buttons = FALSE]

Aside == [DefaultParams EXCEPT !.backdrop = FALSE, !.input = "plain", !.remote = TRUE,
                               !.returnFocus = FALSE]

PageOptions == {Form, Toast, Aside}

PageUpdates == {[DefaultParams EXCEPT !.buttons = FALSE]}
================================================================================
