------------------------------ MODULE PageScripts ------------------------------
(***************************************************************************)
(* The scripts that take a form to an authenticator and its answer to the  *)
(* server: those of the pages Login, Register and Add device, and the two  *)
(* usernameless ones, with helpers.js.  A submission is one run of the     *)
(* page's submit handler; several overlap when the user submits again while*)
(* an answer is awaited, and they share the page's options and its dialog. *)
(*                                                                         *)
(* Dialogs are those of Dialogs, which SweetAlert implements.  Left out:   *)
(* what the options and the answers contain, except how the challenge is   *)
(* represented and whose names are posted.                                 *)
(***************************************************************************)
EXTENDS Naturals, Sequences

CONSTANTS MaxSubmissions, \* bound: how often the user submits the form
          MaxDialogs      \* bound: the dialogs that the scripts fire

VARIABLES page,    \* the page that is open
          phase,   \* how far each submission is
          options, \* the page's assertionOptions or credOptions
          refused, \* ceremonies that the browser refused or aborted for another
          dialog,  \* the state of each dialog
          fired,   \* what each dialog fired so far is about
          form,    \* the hidden inputs appended to the form
          sent,    \* the inputs of the last submit() of the form
          left     \* the browser has left the page

scriptVars == <<page, phase, options, refused, dialog, fired, form, sent, left>>

Submissions == 1..MaxSubmissions

Ids == 1..MaxDialogs

Boxes == INSTANCE Dialogs WITH Outcomes <- {"confirmed", "dismissed"}

FormPages == {"login", "register", "add"}

CeremonyPages == FormPages \cup {"usernameless login", "usernameless register"}

Phases == {"idle", "fetching", "ceremony", "verifying", "posted", "done", "failed", "silent"}

\* How a challenge is represented.
Representations == {"string", "array", "Uint8Array", "ArrayBuffer", "undefined"}

\* The options a page holds: those of a submission, or 0 for those the server rendered.
HeldOptions == [of : Submissions \cup {0}, challenge : Representations]

\* An input with the authenticator's answer, and whose names are in it.
Inputs == [of : Submissions, name : Submissions \cup {0}, rawId : {"string"}]

BoxKinds == {"waiting", "alert", "success"}

ASSUME ScriptsAssumption == MaxSubmissions \in Nat /\ MaxDialogs \in Nat

ScriptsTypeOK ==
  /\ phase \in [Submissions -> Phases]
  /\ options \in HeldOptions
  /\ refused \subseteq Submissions
  /\ dialog \in [Ids -> {"unfired", "open", "replaced", "confirmed", "dismissed"}]
  /\ fired \in Seq([kind : BoxKinds, of : Submissions])
  /\ form \in Seq(Inputs)
  /\ sent \in Seq(Inputs)
  /\ left \in BOOLEAN
  /\ Len(fired) <= MaxDialogs
  /\ \A d \in Ids : /\ dialog[d] = "unfired" <=> d > Len(fired)
                    /\ dialog[d] = "open" => d = Len(fired)

InitScripts ==
  /\ phase = [s \in Submissions |-> "idle"]
  /\ options = [of |-> 0, challenge |-> IF page = "add" THEN "string" ELSE "undefined"]
  /\ refused = {}
  /\ Boxes!Init
  /\ fired = <<>>
  /\ form = <<>>
  /\ sent = <<>>
  /\ left = FALSE
--------------------------------------------------------------------------------
(* helpers.js *)

CoerceToArrayBuffer(thing) ==
  LET bytes == IF thing \in {"string", "array"} THEN "Uint8Array" ELSE thing
  IN IF bytes \in {"Uint8Array", "ArrayBuffer"} THEN "ArrayBuffer" ELSE "TypeError"

\* The base64url text of bytes, or of text as it is.
CoerceToBase64Url(thing) ==
  IF thing \in {"array", "ArrayBuffer", "Uint8Array", "string"} THEN "string" ELSE "Error"

Box(kind, s) == [kind |-> kind, of |-> s]

Replaced(d) == IF dialog[d] = "open" THEN "replaced" ELSE dialog[d]

\* Swal.fire for each box, with nothing in between: only the last stays on the screen.
Fire(boxes) ==
  /\ Len(fired) + Len(boxes) <= MaxDialogs
  /\ fired' = fired \o boxes
  /\ dialog' = [d \in Ids |-> IF d <= Len(fired) THEN Replaced(d)
                              ELSE IF d < Len(fired) + Len(boxes) THEN "replaced"
                              ELSE IF d = Len(fired) + Len(boxes) THEN "open" ELSE "unfired"]

ShowErrorAlert(s) == Fire(<<Box("alert", s)>>)
--------------------------------------------------------------------------------
(* The options, and the dialog that waits for the authenticator. *)

Phase(s, p) == phase' = [phase EXCEPT ![s] = p]

\* Only one ceremony of a page runs: the browser refuses the second, or ends the first.
OneCeremony(s) ==
  LET running == {t \in Submissions : phase[t] = "ceremony"}
  IN \/ running = {} /\ UNCHANGED refused
     \/ running # {} /\ refused' = refused \cup {s}
     \/ running # {} /\ refused' = refused \cup running

\* The Register page shows no dialog.
Waiting(s) == IF page = "register" THEN <<>> ELSE <<Box("waiting", s)>>

\* The usernameless login decodes the challenge itself.
Decoded(thing) ==
  IF page = "usernameless login" THEN "Uint8Array" ELSE CoerceToArrayBuffer(thing)

\* From the options in hand to the call of navigator.credentials: nothing is awaited.
Ask(s, held) ==
  LET coerced == Decoded(held.challenge)
  IN IF coerced = "TypeError"
     THEN \* the handler's promise is rejected, and nobody looks at it
          /\ Phase(s, "silent")
          /\ options' = held
          /\ UNCHANGED <<refused, dialog, fired>>
     ELSE /\ Phase(s, "ceremony")
          /\ options' = [held EXCEPT !.challenge = coerced]
          /\ OneCeremony(s)
          /\ IF Waiting(s) = <<>> THEN UNCHANGED <<dialog, fired>> ELSE Fire(Waiting(s))

\* The form is behind the dialog while one is open.
Submit(s) ==
  /\ ~left
  /\ phase[s] = "idle"
  /\ \A t \in 1..(s - 1) : phase[t] # "idle"
  /\ \A d \in Ids : dialog[d] # "open"
  /\ IF page = "add" THEN Ask(s, options)
     ELSE Phase(s, "fetching") /\ UNCHANGED <<options, refused, dialog, fired>>
  /\ UNCHANGED <<page, form, sent, left>>

\* The fetch or the parsing of its answer fails: only the usernameless scripts say so.
OptionsRejected(s) ==
  /\ IF page \in FormPages THEN Phase(s, "silent") /\ UNCHANGED <<dialog, fired>>
     ELSE Phase(s, "failed") /\ ShowErrorAlert(s)
  /\ UNCHANGED <<options, refused>>

\* The server answers with an error: the pages take it for options.
OptionsRefused(s) ==
  IF page \in FormPages THEN Ask(s, [of |-> s, challenge |-> "undefined"])
  ELSE /\ Phase(s, "failed")
       /\ ShowErrorAlert(s)
       /\ UNCHANGED <<options, refused>>

OptionsArrive(s) == Ask(s, [of |-> s, challenge |-> "string"])

FetchEnds(s) ==
  /\ ~left
  /\ phase[s] = "fetching"
  /\ OptionsRejected(s) \/ OptionsRefused(s) \/ OptionsArrive(s)
  /\ UNCHANGED <<page, form, sent, left>>
--------------------------------------------------------------------------------
(* The answer of the authenticator. *)

CeremonyAlerts_Once(s) == \* mutant: the catch of the ceremony only logs
  IF page \in {"login", "usernameless login"} THEN <<Box("alert", s)>> ELSE <<>>

\* The two logins go on to verify undefined, which fails with an alert of its own.
CeremonyAlerts(s) ==
  IF page \in {"login", "usernameless login"} THEN <<Box("alert", s), Box("alert", s)>>
  ELSE <<Box("alert", s)>>

CeremonyFails(s) ==
  /\ Phase(s, "failed")
  /\ IF CeremonyAlerts(s) = <<>> THEN UNCHANGED <<dialog, fired>> ELSE Fire(CeremonyAlerts(s))
  /\ UNCHANGED <<options, form, sent>>

Submitted_Appended(inputs) == sent \* mutant: the input is appended, and no submit()

Submitted(inputs) == inputs

\* An input is appended and the form submitted; the earlier inputs are still in it.
Post(s) ==
  LET inputs == Append(form, [of |-> s, name |-> options.of,
                              rawId |-> CoerceToBase64Url("Uint8Array")])
  IN /\ Phase(s, "posted")
     /\ form' = inputs
     /\ sent' = Submitted(inputs)
     /\ UNCHANGED <<options, dialog, fired>>

\* Register reads the name from options that another submission may have overwritten.
NamesAreGone(s) == page = "register" /\ options.challenge # "ArrayBuffer"

CeremonySucceeds(s) ==
  /\ s \notin refused
  /\ IF page \notin FormPages
     THEN Phase(s, "verifying") /\ UNCHANGED <<options, dialog, fired, form, sent>>
     ELSE IF NamesAreGone(s)
     THEN Phase(s, "failed") /\ ShowErrorAlert(s) /\ UNCHANGED <<options, form, sent>>
     ELSE Post(s)

\* The options hold a timeout, at which the browser fails the ceremony.
CeremonyEnds(s) ==
  /\ ~left
  /\ phase[s] = "ceremony"
  /\ CeremonyFails(s) \/ CeremonySucceeds(s)
  /\ UNCHANGED <<page, refused, left>>
--------------------------------------------------------------------------------
(* The usernameless scripts send the answer themselves. *)

\* The login throws on after its alert, and the caller alerts again.
VerifyFails(s) ==
  /\ Phase(s, "failed")
  /\ Fire(IF page = "usernameless login" THEN <<Box("alert", s), Box("alert", s)>>
          ELSE <<Box("alert", s)>>)

Verdict_Success(status) == "success" \* mutant: no return after the alert

Verdict(status) == IF status = "ok" THEN "success" ELSE "alert"

VerifyAnswers(s, status) ==
  /\ Phase(s, IF status = "ok" THEN "done" ELSE "failed")
  /\ Fire(<<Box(Verdict(status), s)>>)

VerifyEnds(s) ==
  /\ ~left
  /\ phase[s] = "verifying"
  /\ VerifyFails(s) \/ \E status \in {"ok", "error"} : VerifyAnswers(s, status)
  /\ UNCHANGED <<page, options, refused, form, sent, left>>
--------------------------------------------------------------------------------
(* The user, the timer and the browser. *)

\* The waiting dialog has a Cancel button, which ends nothing but the dialog.
Answer(d, outcome) ==
  /\ ~left
  /\ Boxes!Settle(d, outcome)
  /\ outcome = "confirmed" => fired[d].kind # "waiting"
  /\ UNCHANGED <<page, phase, options, refused, fired, form, sent, left>>

\* "timer: 2000" of the two success dialogs
SuccessCloses(d) ==
  /\ ~left
  /\ Boxes!Settle(d, "dismissed")
  /\ fired[d].kind = "success"
  /\ UNCHANGED <<page, phase, options, refused, fired, form, sent, left>>

\* The submit() of the form takes the browser to the server's answer.
Leave ==
  /\ ~left
  /\ sent # <<>>
  /\ left' = TRUE
  /\ UNCHANGED <<page, phase, options, refused, dialog, fired, form, sent>>

NextScripts ==
  \/ \E s \in Submissions : Submit(s) \/ FetchEnds(s) \/ CeremonyEnds(s) \/ VerifyEnds(s)
  \/ \E d \in Ids : SuccessCloses(d) \/ \E o \in {"confirmed", "dismissed"} : Answer(d, o)
  \/ Leave

\* Requests end, ceremonies time out, timers fire and navigations arrive; the user need
\* not do anything.
FairScripts ==
  /\ \A s \in Submissions : /\ WF_scriptVars(FetchEnds(s))
                            /\ WF_scriptVars(CeremonyEnds(s))
                            /\ WF_scriptVars(VerifyEnds(s))
  /\ \A d \in Ids : WF_scriptVars(SuccessCloses(d))
  /\ WF_scriptVars(Leave)
--------------------------------------------------------------------------------
OpenBox(d, kind) == dialog[d] = "open" /\ fired[d].kind = kind

\* The dialog that asks for the authenticator never stays behind a ceremony that failed,
\* also when submissions overlap and one fails under the dialog of the other.
NoOrphanWaiting ==
  \A d \in Ids : OpenBox(d, "waiting") =>
    phase[fired[d].of] \in {"ceremony", "verifying", "posted"}

Word == [p \in Phases |-> IF p = "failed" THEN "alert" ELSE IF p = "done" THEN "success"
                          ELSE "waiting"]

\* The last dialog of a submission tells how it ended: no failure that got as far as a
\* dialog ends without an alert, no success is shown for an answer that was refused, and
\* only a request for options that failed ends without a word. So a form that holds options
\* can be submitted again after a failure.
LastWordIsOutcome ==
  \A s \in Submissions :
    LET mine == {d \in DOMAIN fired : fired[d].of = s}
    IN /\ \A d \in mine : (\A e \in mine : e <= d) => fired[d].kind = Word[phase[s]]
       /\ phase[s] \in {"failed", "done"} => mine # {}
       /\ phase[s] = "silent" => page \in {"login", "register"}

\* The dialog that asks for the authenticator goes away, by itself if need be.
WaitingGoesAway == \A d \in Ids : OpenBox(d, "waiting") ~> left \/ ~OpenBox(d, "waiting")
================================================================================
