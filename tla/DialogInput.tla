------------------------------ MODULE DialogInput ------------------------------
(***************************************************************************)
(* The input of a dialog of SweetAlert that offers a choice, a select or   *)
(* radio buttons: the options, at once or when their promise resolves, the *)
(* one that inputValue asks for, the choices of the user, and the value    *)
(* that Confirm reads.  In SweetAlert an input is only valid or not.       *)
(*                                                                         *)
(* Options have different values; groups of options and the attributes of  *)
(* inputAttributes are left out.                                           *)
(***************************************************************************)
EXTENDS Naturals, Sequences

CONSTANTS OptionValues, \* the inputOptions: their values, as text
          Falsy         \* values of which inputValue is false in JavaScript: 0 and ""

VARIABLES input,       \* "select" or "radio"
          inputValue,  \* what is asked for
          placeholder, \* a select has a placeholder, which is position 0
          offered,     \* the options are in the popup
          checked,     \* the positions that are selected or checked
          grouped,     \* the radio buttons that still have their name
          choice,      \* history: the position the user chose last, or 0
          updated      \* history: the dialog was updated

inputVars == <<input, inputValue, placeholder, offered, checked, grouped, choice, updated>>

Positions == 1..Len(OptionValues)

Values == {OptionValues[i] : i \in Positions}

ASSUME InputAssumption ==
  /\ OptionValues \in Seq(STRING) /\ Len(OptionValues) > 0
  /\ \A i, j \in Positions : OptionValues[i] = OptionValues[j] => i = j
  /\ {"", "null"} \cap Values = {}

InputTypeOK ==
  /\ input \in {"select", "radio"} /\ inputValue \in Values \cup {""}
  /\ placeholder \in BOOLEAN /\ offered \in BOOLEAN /\ updated \in BOOLEAN
  /\ checked \subseteq Positions \cup {0} /\ grouped \subseteq Positions
  /\ choice \in Positions \cup {0}
  /\ input = "select" \/ placeholder = FALSE

\* showInput and renderInputType: no options yet.
InitInput ==
  /\ input \in {"select", "radio"}
  /\ inputValue \in Values \cup {""}
  /\ placeholder \in IF input = "select" THEN BOOLEAN ELSE {FALSE}
  /\ offered = FALSE
  /\ checked = IF placeholder THEN {0} ELSE {}
  /\ grouped = {} /\ choice = 0 /\ updated = FALSE
--------------------------------------------------------------------------------
IsSelected(i) == inputValue \notin Falsy \cup {""} /\ inputValue = OptionValues[i]

\* A select without a placeholder shows its first option when none is selected.
Preselected ==
  LET asked == {i \in Positions : IsSelected(i)}
  IN IF asked # {} THEN asked
     ELSE IF placeholder THEN {0} ELSE IF input = "select" THEN {1} ELSE {}

\* formatInputOptions and populateInputOptions; the promise of the options may take long.
PopulateInputOptions ==
  /\ ~offered
  /\ offered' = TRUE
  /\ checked' = Preselected
  /\ grouped' = IF input = "radio" THEN Positions ELSE {}
  /\ UNCHANGED <<input, inputValue, placeholder, choice, updated>>

\* A radio button without a name is in no group, and is never unchecked again.
Choose(i) ==
  /\ offered
  /\ choice' = i
  /\ checked' = IF input = "select" THEN {i}
                ELSE IF i \in grouped THEN (checked \ grouped) \cup {i} ELSE checked \cup {i}
  /\ UNCHANGED <<input, inputValue, placeholder, offered, grouped, updated>>

GetInput_First == IF offered THEN 1 ELSE 0 \* mutant: the first radio button, checked or not

\* getInput: the first checked radio button, else the first one; 0 without options.
GetInput ==
  IF checked # {} THEN CHOOSE i \in checked : \A j \in checked : i <= j
  ELSE IF offered THEN 1 ELSE 0

\* getInputValue: null without an input, or with a radio button that is not checked.
GetInputValue ==
  IF input = "radio" THEN (IF GetInput \in checked THEN OptionValues[GetInput] ELSE "null")
  ELSE IF checked \subseteq {0} THEN "" ELSE OptionValues[CHOOSE i \in checked : TRUE]

\* Swal.update renders the dialog: removeAttributes takes the name of one radio button.
UpdateInput ==
  /\ updated' = TRUE
  /\ grouped' = IF input = "radio" THEN grouped \ {GetInput} ELSE grouped
  /\ UNCHANGED <<input, inputValue, placeholder, offered, checked, choice>>

NextInput == PopulateInputOptions \/ UpdateInput \/ \E i \in Positions : Choose(i)
--------------------------------------------------------------------------------
Expected ==
  IF choice # 0 THEN OptionValues[choice]
  ELSE IF inputValue \in Values \ Falsy THEN inputValue
  ELSE IF input = "radio" THEN "null" ELSE IF placeholder THEN "" ELSE OptionValues[1]

\* Confirm reads what the user chose last, whenever the options came, and before that what
\* inputValue asks for, unless it is 0 or empty: then what the browser shows. An update of
\* the dialog takes a radio button out of its group, and Confirm may read an old choice.
ConfirmsChoice ==
  offered /\ (input = "select" \/ ~updated) => GetInputValue = Expected
================================================================================
