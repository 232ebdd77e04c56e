------------------------------ MODULE MCVerification ------------------------------
(***************************************************************************)
(* Verification for TLC: an authenticator of each format, with a certified *)
(* packed one beside it that has another model; and packed ones that are   *)
(* not what they say, or break a rule of the format.                       *)
(***************************************************************************)
EXTENDS Verification, TLC

Symmetry == Permutations(Ceremonies)

\* A sound authenticator of a format, of the model "m1", made by "maker".
Sound(fmt) ==
  [fmt |-> fmt, full |-> TRUE, ecdaa |-> FALSE, wellFormed |-> TRUE,
   profile |-> TRUE, aaguid |-> IF fmt = "fido-u2f" THEN "zero" ELSE "m1",
   certAaGuid |-> None, selfIssued |-> FALSE, name |-> "leaf", above |-> {"maker"},
   chain |-> <<>>, valid |-> 0..1, cts |-> TRUE, uv |-> TRUE, counts |-> TRUE]

KindsChecked ==
  {Sound(f) : f \in {"none", "tpm", "android-key", "android-safetynet", "fido-u2f"}}
    \cup {[Sound("apple") EXCEPT !.chain = <<"maker">>],
          [Sound("apple-appattest") EXCEPT !.chain = <<"maker">>, !.aaguid = "dev",
             !.counts = FALSE]}
    \cup {Sound("packed"),
          [Sound("packed") EXCEPT !.full = FALSE, !.uv = FALSE, !.counts = FALSE],
          [Sound("packed") EXCEPT !.ecdaa = TRUE],
          [Sound("packed") EXCEPT !.certAaGuid = "zero"],
          [Sound("packed") EXCEPT !.selfIssued = TRUE, !.above = {}],
          [Sound("packed") EXCEPT !.selfIssued = TRUE, !.above = {}, !.name = "maker"]}

Partner == [Sound("packed") EXCEPT !.certAaGuid = "m1", !.uv = FALSE]

PairingsChecked == {[a \in Authenticators |-> IF a = "a1" THEN k ELSE Partner] : k \in KindsChecked}

FullEntry == [types |-> {"basic_full"}, roots |-> {"maker"}, status |-> "certified"]

EntriesChecked ==
  {[g \in AaGuids |-> IF g = "m1" THEN e ELSE None] :
     e \in {None, FullEntry, [FullEntry EXCEPT !.types = {"basic_surrogate"}],
            [FullEntry EXCEPT !.types = {"anonca"}],
            [FullEntry EXCEPT !.status = "revoked"]}}
================================================================================
