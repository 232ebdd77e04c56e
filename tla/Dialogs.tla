-------------------------------- MODULE Dialogs --------------------------------
(***************************************************************************)
(* What SweetAlert promises the scripts of the pages: Swal.fire shows a    *)
(* dialog and takes the place of the one that is showing; the promise of a *)
(* showing dialog resolves once, with the way it was answered.  A dialog   *)
(* that another one replaced never resolves.                               *)
(***************************************************************************)
CONSTANTS Ids,     \* the dialogs a page can show
          Outcomes \* how a dialog can be answered

VARIABLE dialog

Unanswered == {"unfired", "open", "replaced"}

DialogType == dialog \in [Ids -> Unanswered \cup Outcomes]

Init == dialog = [d \in Ids |-> "unfired"]

Fire(d) ==
  /\ dialog[d] = "unfired"
  /\ dialog' = [e \in Ids |-> IF e = d THEN "open"
                              ELSE IF dialog[e] = "open" THEN "replaced" ELSE dialog[e]]

Settle(d, o) ==
  /\ dialog[d] = "open"
  /\ dialog' = [dialog EXCEPT ![d] = o]

Next == \E d \in Ids : Fire(d) \/ \E o \in Outcomes : Settle(d, o)

Spec == Init /\ [][Next]_dialog
================================================================================
