------------------------------- MODULE Extract -------------------------------
(***************************************************************************)
(* The record a caller asked for, and the state a verdict is asked on      *)
(* (fastbrowse-agent: verification/mod.rs, retrieval/fields.rs).           *)
(*                                                                         *)
(* Each field is copied from a span of the page or of the notes that the   *)
(* decision model points at.  More spans than a question has options are   *)
(* narrowed by asking for a group of them first.  A span is a number; what *)
(* it reads as is ReadsAs.                                                 *)
(***************************************************************************)
EXTENDS Notes

CONSTANTS
  Records,      \* the schemas a caller may ask for: sequences of [kind, required, least]
  ReadsAs,      \* span -> its value as a number, or NotANumber
  MaxOptions,   \* the most options a question may have
  GroupSize,    \* FIELD_GROUP_SIZE
  NotANumber,
  VerdictSizes  \* what a verdict may be asked on: sizes of the page, the notes and the budget

\* With two options a group could be the whole pool.
ASSUME OptionsAssumption ==
  /\ MaxOptions \in Nat /\ MaxOptions >= 3 /\ GroupSize \in Nat \ {0}
  /\ ReadsAs \in Seq(Nat \cup {NotANumber})
  /\ Records \subseteq Seq([kind : {"str", "number", "other"}, required : BOOLEAN, least : Nat])
  /\ VerdictSizes \subseteq [fixed : Nat, text : Nat, links : Nat, inputs : Nat, needed : Nat, other : Nat, budget : Nat]

Spans == DOMAIN ReadsAs

VARIABLES
  fields,      \* the record's fields
  onPage,      \* the spans of the last capture, in order
  inNotes,     \* the spans of the notes still current, in order
  field,       \* the field being filled
  pool,        \* the candidates left for it
  values,      \* the fields filled so far, and the span of each
  extracted,   \* the outcome: "no" yet, "data", "problem" or "error"
  verdict      \* the sizes the verdict is asked on

extractVars == <<fields, onPage, inNotes, field, pool, values, extracted, verdict>>

All == [s \in Spans |-> s]
\* The spans next to each other, in order: none, or some of them.
Stretches == {SubSeq(All, ends[1], ends[2]) : ends \in Spans \X (0..Len(ReadsAs))}

ExtractTypeOK ==
  /\ Range(onPage) \subseteq Spans /\ Range(inNotes) \subseteq Spans
  /\ field \in 1..(Len(fields) + 1) /\ Range(pool) \subseteq Range(onPage) \cup Range(inNotes)
  /\ DOMAIN values \subseteq 1..Len(fields) /\ extracted \in {"no", "data", "problem", "error"}
  /\ verdict \in VerdictSizes

ExtractInit ==
  /\ onPage \in Stretches /\ inNotes \in Stretches
  /\ fields \in Records /\ field = 1 /\ pool = <<>> /\ values = <<>> /\ extracted = "no"
  /\ verdict \in VerdictSizes

----------------------------------------------------------------------------
\* `scalar_candidate` and `holds`: the span as the field's type, within its bounds.
Taken(f, span) == f.kind = "str" \/ (f.kind = "number" /\ ReadsAs[span] # NotANumber /\ ReadsAs[span] >= f.least)

\* `field_candidates`, `field_candidates_from_notes` and `merge_candidates`: the
\* page's first, each span once.
FieldCandidates(f) ==
  LET readable == {s \in Spans : Taken(f, s)}
  IN  Among(onPage, readable) \o Among(inNotes, readable \ Range(onPage))

UpTo(a, b) == (a + b - 1) \div b
\* Mutant: the groups keep their size however many there are.
FieldGroupsFixed(seq) ==
  LET size == IF GroupSize < MaxOptions - 1 THEN GroupSize ELSE MaxOptions - 1
  IN  [g \in 1..UpTo(Len(seq), size) |->
         SubSeq(seq, (g - 1) * size + 1, IF g * size < Len(seq) THEN g * size ELSE Len(seq))]
\* `field_candidate_groups`: of the usual size, or larger so that no more groups
\* come out than a question has options beside its none.
FieldGroups(seq) ==
  LET usual == IF GroupSize < MaxOptions - 1 THEN GroupSize ELSE MaxOptions - 1
      size == IF UpTo(Len(seq), usual) >= MaxOptions THEN UpTo(Len(seq), MaxOptions - 1) ELSE usual
  IN  [g \in 1..UpTo(Len(seq), size) |->
         SubSeq(seq, (g - 1) * size + 1, IF g * size < Len(seq) THEN g * size ELSE Len(seq))]

FieldDone == field' = field + 1 /\ pool' = <<>> /\ UNCHANGED <<fields, onPage, inNotes, extracted>>

\* The next field of `extract`: an unsupported one ends it, one without candidates
\* is passed over.
BeginField ==
  /\ extracted = "no" /\ pool = <<>> /\ field <= Len(fields) /\ UNCHANGED values
  /\ LET f == fields[field] IN
     \/ f.kind = "other" /\ extracted' = "problem" /\ UNCHANGED <<fields, onPage, inNotes, field, pool>>
     \/ f.kind # "other" /\ FieldCandidates(f) = <<>> /\ FieldDone
     \/ f.kind # "other" /\ FieldCandidates(f) # <<>> /\ pool' = FieldCandidates(f) /\ UNCHANGED <<fields, onPage, inNotes, field, extracted>>

\* Mutant: a pool none of which is picked starts over with all there were.
ChooseGroupOver ==
  /\ extracted = "no" /\ Len(pool) >= MaxOptions /\ UNCHANGED <<values, fields, onPage, inNotes, field, extracted>>
  /\ \/ pool' = FieldCandidates(fields[field])
     \/ \E g \in DOMAIN FieldGroups(pool) : pool' = FieldGroups(pool)[g]
\* `choose_candidate`: a group, until the pool fits a question.
ChooseGroup ==
  /\ extracted = "no" /\ Len(pool) >= MaxOptions /\ UNCHANGED values
  /\ \/ FieldDone
     \/ \E g \in DOMAIN FieldGroups(pool) : pool' = FieldGroups(pool)[g] /\ UNCHANGED <<fields, onPage, inNotes, field, extracted>>
\* `field_question` and `copy_field`: the span, or none.
ChooseSpan ==
  /\ extracted = "no" /\ pool # <<>> /\ Len(pool) < MaxOptions /\ FieldDone
  /\ \/ UNCHANGED values
     \/ \E s \in Range(pool) : values' = [f \in DOMAIN values \cup {field} |-> IF f = field THEN s ELSE values[f]]
CallFails ==
  /\ extracted = "no" /\ pool # <<>> /\ extracted' = "error" /\ UNCHANGED <<fields, onPage, inNotes, field, pool, values>>

\* Every field was asked for: a required one without a value fails the record.
Validate ==
  /\ extracted = "no" /\ field > Len(fields)
  /\ extracted' = IF \A f \in 1..Len(fields) : fields[f].required => f \in DOMAIN values THEN "data" ELSE "problem"
  /\ UNCHANGED <<fields, onPage, inNotes, field, pool, values>>

ExtractEnded == extracted # "no" /\ UNCHANGED extractVars
Choose == BeginField \/ ChooseGroup \/ ChooseSpan \/ CallFails \/ Validate
ExtractNext == UNCHANGED verdict /\ (Choose \/ ExtractEnded)
ExtractSpec == ExtractInit /\ [][ExtractNext]_extractVars

----------------------------------------------------------------------------
(* `page_state`, as sizes: a page is [fixed, text, links, inputs] and the    *)
(* notes [needed, other], what the answer rests on and the rest.             *)

Least(a, b) == IF a < b THEN a ELSE b
Less(a, b) == IF a > b THEN a - b ELSE 0
\* `render` with the answer kept whole.
RenderedIn(notes, room) == [ok |-> notes.needed <= room, size |-> notes.needed + Least(notes.other, Less(room, notes.needed))]
Omitted == 1    \* what `controls_omitted` adds

\* The page's text gives way first, then controls that hold nothing.
PageState(page, notes, budget) ==
  LET full == RenderedIn(notes, Less(budget, page.fixed + page.text + page.links + page.inputs))
      bare == RenderedIn(notes, Less(budget, page.fixed + page.links + page.inputs))
      least == RenderedIn(notes, Less(budget, page.fixed + page.inputs + Omitted))
      early == ~full.ok /\ ~bare.ok
      shown == IF full.ok THEN full ELSE IF bare.ok THEN bare ELSE least
      controls == IF early THEN page.inputs + Omitted ELSE page.links + page.inputs
      base == page.fixed + controls + shown.size
      text == IF ~full.ok \/ base + page.text > budget THEN Least(page.text, Less(budget, base)) ELSE page.text
      drop == base + text > budget /\ ~early
      size == IF drop THEN base + text - page.links + Omitted ELSE base + text
  IN  [ok |-> shown.ok /\ size <= budget, size |-> size, notes |-> shown.size, inputs |-> page.inputs]

----------------------------------------------------------------------------
(* Properties.                                                              *)

\* However many candidates a field has, each is offered: in one group of a
\* question with room for the groups, and the pool gets smaller.
EveryCandidateOffered ==
  extracted = "no" /\ Len(pool) >= MaxOptions =>
    LET groups == FieldGroups(pool) IN
    /\ Len(groups) < MaxOptions
    /\ \A g \in DOMAIN groups : Len(groups[g]) < Len(pool)
    /\ \A s \in Range(pool) : Cardinality({g \in DOMAIN groups : s \in Range(groups[g])}) = 1

\* Data holds no value that is not a span the page or the notes showed for that
\* field, and every field the caller required.
DataWasShown ==
  extracted = "data" =>
    /\ \A f \in DOMAIN values : values[f] \in Range(onPage) \cup Range(inNotes)
                                /\ (fields[f].kind = "number" => ReadsAs[values[f]] \in Nat /\ ReadsAs[values[f]] >= fields[f].least)
    /\ \A f \in 1..Len(fields) : fields[f].required => f \in DOMAIN values

\* A verdict's state is refused only when what it must keep does not fit, and
\* what is sent fits and keeps the answer's evidence.
RefusedOnlyWhenItMust(page, notes, budget) ==
  LET state == PageState(page, notes, budget) IN
  IF state.ok THEN state.size <= budget /\ state.notes >= notes.needed
  ELSE page.fixed + page.inputs + Omitted + notes.needed > budget
VerdictAsked ==
  RefusedOnlyWhenItMust([fixed |-> verdict.fixed, text |-> verdict.text, links |-> verdict.links, inputs |-> verdict.inputs],
                        [needed |-> verdict.needed, other |-> verdict.other], verdict.budget)

\* Every candidate is offered, a record holds only what was read, and a verdict
\* is refused only when it must be (verification/mod.rs `extract`, `page_state`,
\* retrieval/fields.rs).
RecordKept == ExtractTypeOK /\ EveryCandidateOffered /\ DataWasShown /\ VerdictAsked
=============================================================================
