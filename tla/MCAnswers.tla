------------------------------ MODULE MCAnswers ------------------------------
(* What a run makes of the pages it read: its notes, the answer composed from *)
(* them, the record extracted for a caller, and the state a verdict is asked  *)
(* on.  A behaviour is one of them; the others stay as they began.            *)
EXTENDS Notes, Composing, Extract

VARIABLE part

vars == <<part, noteVars, composeVars, extractVars>>

\* The notes: a and ia state one value, b and c another.
NoteValues == [q \in {"a", "b", "c", "ia"} |-> IF q \in {"a", "ia"} THEN 1 ELSE 2]
\* The first note fits a request of its own, the second has to be cut.
NoteSizes == <<3, 5>>
\* A bounded number and a text; span 3 is no number.
RecordSchemas == {<<[kind |-> "number", required |-> TRUE, least |-> 2], [kind |-> k, required |-> FALSE, least |-> 0]>> : k \in {"str", "other"}}
SpanValues == [s \in 1..6 |-> IF s = 3 THEN 99 ELSE s]

VerdictInputs == [fixed : 0..1, text : 0..2, links : 0..3, inputs : 0..1, needed : 0..2, other : 0..2, budget : 0..8]
NoInput == [fixed |-> 0, text |-> 0, links |-> 0, inputs |-> 0, needed |-> 0, other |-> 0, budget |-> 0]

Init ==
  /\ part \in {"notes", "composing", "extract", "verdict"}
  /\ NotesInit
  /\ part = "composing" \/ (asked = "text" /\ picked = {})
  /\ ComposeInit
  /\ part = "extract" \/ (onPage = <<>> /\ inNotes = <<>> /\ fields \in {r \in Records : r[2].kind = "str"})
  /\ part = "verdict" \/ verdict = NoInput
  /\ ExtractInit

Only(p) ==
  /\ part = p /\ UNCHANGED part
  /\ p # "notes" => UNCHANGED noteVars
  /\ p # "composing" => UNCHANGED composeVars
  /\ p # "extract" => UNCHANGED extractVars

Work == (Only("composing") /\ Compose) \/ (Only("extract") /\ Choose /\ UNCHANGED verdict)
Next ==
  \/ Only("notes") /\ NotesNext
  \/ Only("composing") /\ ComposingNext
  \/ Only("extract") /\ ExtractNext

Spec == Init /\ [][Next]_vars /\ WF_vars(Work)

----------------------------------------------------------------------------
\* However a composer writes and however many candidates a field has, the answer
\* and the record are settled.
Settling == stage = "compose" \/ (pool # <<>> /\ extracted = "no")
AnswersEnd == Settling ~> ~Settling
=============================================================================
