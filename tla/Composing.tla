------------------------------ MODULE Composing ------------------------------
(***************************************************************************)
(* Writing the answer (fastbrowse-agent: retrieval/answers.rs, with        *)
(* `conclude_attempt` and the endings that show what was composed).        *)
(*                                                                         *)
(* Notes too long for one request are packed into several, whose claims    *)
(* are the notes of the next round.  What is written is judged against the *)
(* quotes it cites; a rejected draft goes back with feedback, and what held*)
(* of it is kept for a run that stops short, as long as the notes are the  *)
(* ones it was judged against.  A text is known by its length, and the     *)
(* words of prompts and feedback are left out.                             *)
(***************************************************************************)
EXTENDS Naturals, Sequences, FiniteSets, SequencesExt

CONSTANTS
  NoteSize,      \* the length of each note, in the order they may be read
  Writings,      \* lengths of the claims a composer writes
  Room,          \* what a request holds beside its prompt
  Envelope       \* what a note's page and state add to its line

\* A run has read something before it composes, and a request has room for more
\* than what goes around a note.
ASSUME RoomAssumption ==
  /\ Room \in Nat /\ Envelope \in Nat /\ Envelope < Room
  /\ NoteSize \in Seq(Nat) \ {<<>>} /\ Writings \subseteq Nat /\ Writings # {}

Unknown == 0    \* an evidence id that names no note
Absent == <<>>

VARIABLES
  stage,     \* "acting", "compose", "review" or "ended"
  read,      \* how many notes there are
  replaced,  \* the notes a later read superseded
  picked,    \* the notes picked as the answer
  asked,     \* what the task asks for
  writeUp,   \* state.compose
  rejected,  \* state.composition_feedback: the texts of the rejected draft, or Absent
  partial,      \* state.composition_partial: the sources its claims were judged against, or Absent
  parts,     \* the requests of the round
  drafted,   \* the claims each request of the round returned
  reduced,   \* one request saw every claim of the round before
  stopping,  \* the composition writes up a stop
  shown      \* the ending: [status, by, whole, part], or Absent

composeVars == <<stage, read, replaced, picked, asked, writeUp, rejected, partial, parts, drafted, reduced,
                 stopping, shown>>
noteState == <<read, replaced, picked>>

Claim(size, cites) == [size |-> size, cites |-> cites]
Item(size, around, cites) == [size |-> size, around |-> around, cites |-> cites]
\* What was judged: each note and whether it was superseded.
JudgedSources == [i \in 1..read |-> i \in replaced]
AddedUp(sizes) == LET sum[k \in 0..Len(sizes)] == IF k = 0 THEN 0 ELSE sum[k - 1] + sizes[k] IN sum[Len(sizes)]
Joined(seqs) == LET all[k \in 0..Len(seqs)] == IF k = 0 THEN <<>> ELSE all[k - 1] \o seqs[k] IN all[Len(seqs)]
LineBytes(item) == item.size + item.around

ComposeTypeOK ==
  /\ stage \in {"acting", "compose", "review", "ended"}
  /\ read \in 1..Len(NoteSize) /\ replaced \subseteq 1..read /\ picked \subseteq 1..read
  /\ Len(drafted) <= Len(parts) /\ reduced \in BOOLEAN /\ writeUp \in BOOLEAN
  /\ \A i \in DOMAIN parts : AddedUp([j \in DOMAIN parts[i] |-> LineBytes(parts[i][j])]) <= Room
  /\ (stage = "ended") = (shown # Absent)

ComposeInit ==
  /\ stage = "acting" /\ read = 1 /\ replaced = {} /\ picked \in {{}, {1}}
  /\ asked \in {"text", "carried_out"}
  /\ writeUp = (picked = {}) /\ rejected = Absent /\ partial = Absent /\ parts = <<>> /\ drafted = <<>>
  /\ reduced = TRUE /\ stopping = FALSE /\ shown = Absent

----------------------------------------------------------------------------
(* Packing.                                                                 *)

\* `initial_items`: one line for each note, with its state and page.
InitialItems == [i \in 1..read |-> Item(NoteSize[i], Envelope, {i})]
ClaimItems(claims) == [i \in DOMAIN claims |-> Item(claims[i].size, 0, claims[i].cites)]

\* A line too long for a request is cut into pieces that fit.
Pieces(item) ==
  LET fits == Room - item.around
      count == IF item.size = 0 THEN 1 ELSE (item.size + fits - 1) \div fits
  IN  [i \in 1..count |-> [item EXCEPT !.size = IF i < count THEN fits ELSE @ - (count - 1) * fits]]
AllPieces(items) == Joined([i \in DOMAIN items |-> Pieces(items[i])])

\* `pack_items`: in order, each piece joining the last request while it fits.
PackItems(items) ==
  LET pieces == AllPieces(items)
      placed[k \in 0..Len(pieces)] ==
        IF k = 0 THEN [last |-> <<>>, full |-> <<>>, used |-> 0]
        ELSE LET p == placed[k - 1]  bytes == LineBytes(pieces[k]) IN
             IF p.used + bytes <= Room \/ p.last = <<>>
             THEN [last |-> Append(p.last, pieces[k]), full |-> p.full, used |-> p.used + bytes]
             ELSE [last |-> <<pieces[k]>>, full |-> Append(p.full, p.last), used |-> bytes]
      end == placed[Len(pieces)]
  IN  IF pieces = <<>> THEN <<>> ELSE Append(end.full, end.last)

Content(packed) == AddedUp([i \in DOMAIN packed |-> AddedUp([j \in DOMAIN packed[i] |-> packed[i][j].size])])
\* `packed_size`: requests first, then the bytes they carry.
PacksSmaller(next, now) ==
  Len(next) < Len(now) \/ (Len(next) = Len(now) /\ Content(next) < Content(now))

----------------------------------------------------------------------------
(* A review.  A judgement is what the decision model made of each check, or  *)
(* [failed] when the call did.                                               *)

\* `cited_quotes`: what a claim cites that names a note.
CitedQuotes(claim) == claim.cites \cap 1..read
Cited(claims) == {i \in DOMAIN claims : CitedQuotes(claims[i]) # {}}
\* `judged`: yes, no, or left unanswered.  A claim is one check, or one for each
\* cell of its row: all have to hold.  A claim whose count its quotes do not bear
\* out is a "no" too: it is withheld and rejected like one.
Judgements(claims, coverage) ==
  LET verdicts == {"yes", "no", "unanswered"}
      cited == Cited(claims) IN
  [support : [cited -> verdicts], coverage : IF coverage /\ cited # {} THEN verdicts ELSE {"unasked"}, failed : {FALSE}]
    \cup {[support |-> [i \in cited |-> "unanswered"], coverage |-> "unanswered", failed |-> TRUE]}

Supported(claims, j) == {i \in DOMAIN j.support : j.support[i] = "yes"}
\* Mutant: an answer stands while any claim of it does.
ProblemIfNothingHolds(claims, j, coverage) ==
  j.failed \/ claims = <<>> \/ Supported(claims, j) = {} \/ (coverage /\ j.coverage # "yes")
\* `problem`: why the answer may not end the run complete.
Problem(claims, j, coverage) ==
  \/ j.failed \/ claims = <<>> \/ Supported(claims, j) # DOMAIN claims
  \/ coverage /\ j.coverage # "yes"
\* `rejection`: some check was denied and none was left open.
Rejection(claims, j) ==
  /\ claims # <<>> /\ ~j.failed
  /\ j.coverage # "unanswered" /\ \A i \in DOMAIN j.support : j.support[i] # "unanswered"
  /\ j.coverage = "no" \/ Supported(claims, j) # DOMAIN claims
Upheld(claims, j) == LET sound == Supported(claims, j) IN
  Joined([i \in DOMAIN claims |-> IF i \in sound THEN <<claims[i]>> ELSE <<>>])
Reviewed(claims, j, coverage) ==
  [held |-> Upheld(claims, j), problem |-> Problem(claims, j, coverage), rejection |-> Rejection(claims, j)]
DraftTexts(claims) == [i \in DOMAIN claims |-> claims[i].size]

----------------------------------------------------------------------------
(* Endings.                                                                 *)

\* `by` tells where the claims shown come from, `whole` that none was withheld,
\* `part` that a page of the list the task covers was left unread.
Ending(status, by, whole, unread) == [status |-> status, by |-> by, whole |-> whole, part |-> unread]
EndsRun(status, by, whole, unread) ==
  /\ stage' = "ended" /\ shown' = Ending(status, by, whole, unread)
  /\ parts' = <<>> /\ drafted' = <<>>
\* A rejected draft gives up unverified, anything else as it ran out.
StopStatus == {"stuck"} \cup (IF rejected = Absent THEN {} ELSE {"unverified"})
\* `draft_claims`: the picks, each citing itself.
Picks == LET ids == SelectSeq([i \in 1..read |-> i], LAMBDA i : i \in picked) IN
  [i \in DOMAIN ids |-> Claim(NoteSize[ids[i]], {ids[i]})]

\* `checked_composition`: still judged against the notes as they are.
CheckedComposition == partial = JudgedSources

\* `partial_result`.
PartialResult(status) == \E unread \in BOOLEAN :
  \/ CheckedComposition /\ EndsRun(status, "kept", FALSE, unread)
  \/ ~CheckedComposition /\ writeUp /\ EndsRun(status, "picks", FALSE, unread)
  \/ ~CheckedComposition /\ ~writeUp /\ EndsRun(status, "everything", FALSE, unread)

\* The rest of `conclude_attempt`, and what `stopped` makes of a composition, for
\* the claims that held, whether they have a problem and the rejection.
Recovers(draft, rejection) ==
  /\ ~stopping /\ rejection /\ ~(rejected # Absent /\ rejected = DraftTexts(draft))
Settles(draft, held, problem, rejection) ==
  \/ /\ Recovers(draft, rejection)
     /\ rejected' = DraftTexts(draft)
     /\ partial' = IF held # <<>> THEN JudgedSources ELSE partial
     /\ stage' = "acting" /\ parts' = <<>> /\ drafted' = <<>> /\ UNCHANGED shown
  \/ /\ ~stopping /\ ~Recovers(draft, rejection)
     /\ rejected' = (IF problem THEN rejected ELSE Absent) /\ partial' = (IF problem THEN partial ELSE Absent)
     /\ \E unread \in BOOLEAN : LET status == IF problem \/ unread THEN "unverified" ELSE "complete" IN
        IF problem /\ CheckedComposition THEN EndsRun(status, "kept", FALSE, unread) ELSE EndsRun(status, "composed", held = draft, unread)
  \/ /\ stopping /\ UNCHANGED <<rejected, partial>>
     /\ \E status \in StopStatus, unread \in BOOLEAN :
        \/ held = <<>> /\ PartialResult(status)
        \/ held # <<>> /\ EndsRun(IF status = "unverified" /\ ~problem THEN "complete" ELSE status, "composed", held = draft, unread)

----------------------------------------------------------------------------
(* The run.                                                                 *)

\* More is read: another note, a note replaced, or a pick that has to be written up.
ReadsOn ==
  /\ stage = "acting"
  /\ \/ read < Len(NoteSize) /\ read' = read + 1 /\ UNCHANGED <<replaced, picked, writeUp>>
     \/ \E i \in {1} \ replaced : replaced' = replaced \cup {i} /\ picked' = picked \ {i}
                                     /\ UNCHANGED <<read, writeUp>>
     \/ ~writeUp /\ writeUp' = TRUE /\ UNCHANGED noteState
  /\ UNCHANGED <<asked, rejected, partial, parts, drafted, reduced, stopping, shown, stage>>

\* `compose_reviewed` begins: one request, or packed into several.
StartsComposing ==
  /\ stage' = "compose" /\ drafted' = <<>> /\ parts' \in {PackItems(InitialItems)} /\ reduced' = TRUE
  /\ UNCHANGED <<noteState, asked, writeUp, rejected, partial, shown>>

\* `verdict`: notes that state the answer, reviewed as picks; what has a problem
\* is left to the composer.
Verdict ==
  \E chosen \in SUBSET (1..read) \ {{}} :
    LET ids == SelectSeq([i \in 1..read |-> i], LAMBDA i : i \in chosen)
        claims == [i \in DOMAIN ids |-> Claim(NoteSize[ids[i]], {ids[i]})] IN
    /\ \E j \in Judgements(claims, TRUE) : ~Problem(claims, j, TRUE)
    /\ Settles(claims, claims, FALSE, FALSE)
    /\ UNCHANGED <<noteState, asked, writeUp, reduced>>

\* `draft_reviewed`: picks are their own quotes, so only their coverage is asked.
DraftReviewed ==
  \E coverage \in {"yes", "no", "unanswered"} :
    /\ writeUp' = (coverage # "yes")
    /\ Settles(Picks, Picks, coverage # "yes", coverage = "no")
    /\ UNCHANGED <<noteState, asked, reduced>>

\* `conclude_attempt`.
Conclude ==
  /\ stage = "acting"
  /\ UNCHANGED stopping
  /\ \/ writeUp /\ rejected = Absent /\ Verdict
     \/ writeUp /\ StartsComposing
     \/ ~writeUp /\ asked = "text" /\ picked # {} /\ DraftReviewed
     \/ /\ ~writeUp /\ asked = "carried_out"
        /\ Settles(Picks, Picks, FALSE, FALSE) /\ UNCHANGED <<noteState, asked, writeUp, reduced>>

\* `compose_part`: the claims of one request, each citing the sources of a line of
\* it, or an id that names none.  Bound: two claims from a lone request, one from
\* each of several.
Writes(lines, lone) ==
  LET one == UNION {{Claim(size, i.cites) : size \in Writings} : i \in Range(lines)}
      strays == IF lone THEN {Claim(CHOOSE size \in Writings : TRUE, {Unknown})} ELSE {}
  IN  {<<>>} \cup UNION {[1..n -> one \cup strays] : n \in 1..(IF lone THEN 2 ELSE 1)}
ComposePart ==
  /\ stage = "compose" /\ Len(drafted) < Len(parts)
  /\ \E claims \in Writes(parts[Len(drafted) + 1], Len(parts) = 1) : drafted' = Append(drafted, claims)
  /\ UNCHANGED <<stage, noteState, asked, writeUp, rejected, partial, parts, reduced, stopping, shown>>

\* The end of a round of `compose_packed`.
RoundEnds ==
  /\ stage = "compose" /\ Len(drafted) = Len(parts)
  /\ \E claims \in {Joined(drafted)} : \E next \in {PackItems(ClaimItems(claims))} :
     IF Len(parts) > 1 /\ Len(claims) > 1 /\ PacksSmaller(next, parts)
     THEN parts' = next /\ drafted' = <<>> /\ UNCHANGED <<stage, reduced>>
     ELSE stage' = "review" /\ reduced' = (Len(parts) = 1) /\ UNCHANGED <<parts, drafted>>
  /\ UNCHANGED <<noteState, asked, writeUp, rejected, partial, stopping, shown>>

\* `compose_reviewed`, once written.  A task only carried out is shown what holds,
\* and is never short of it.
Review ==
  /\ stage = "review" /\ UNCHANGED <<noteState, asked, writeUp, reduced, stopping>>
  /\ LET reports == asked = "text" \/ stopping IN
     \E claims \in {Joined(drafted)} :
     \E j \in Judgements(claims, reports) :
     \E r \in {Reviewed(claims, j, reports)} :
       Settles(claims, r.held, reports /\ (r.problem \/ ~reduced), reports /\ reduced /\ r.rejection)

\* A request failed: the run ends with what it has.
ComposeFails ==
  /\ stage = "compose" /\ Len(drafted) < Len(parts) /\ (\E status \in IF stopping THEN StopStatus ELSE {"error"} : PartialResult(status))
  /\ UNCHANGED <<noteState, asked, writeUp, rejected, partial, reduced, stopping>>

\* `stopped`: the run gave up, and what was read is written up.
StopsShort ==
  /\ stage = "acting"
  /\ \/ (CheckedComposition \/ ~writeUp) /\ (\E status \in StopStatus : PartialResult(status)) /\ UNCHANGED <<stopping, reduced>>
     \/ /\ ~CheckedComposition /\ writeUp /\ stopping' = TRUE /\ stage' = "compose"
        /\ parts' \in {PackItems(InitialItems)} /\ drafted' = <<>> /\ reduced' = TRUE /\ UNCHANGED shown
  /\ UNCHANGED <<noteState, asked, writeUp, rejected, partial>>

ComposeEnded == stage = "ended" /\ UNCHANGED composeVars

Compose == ComposePart \/ RoundEnds \/ Review \/ ComposeFails
ComposingNext == ReadsOn \/ Conclude \/ Compose \/ StopsShort \/ ComposeEnded
ComposingSpec == ComposeInit /\ [][ComposingNext]_composeVars

----------------------------------------------------------------------------
(* Properties.                                                              *)

\* Cut and packed, every note still reaches the composer whole, and in order.
NothingDropped ==
  stage = "compose" /\ drafted = <<>> /\ (\E p \in Range(parts) : \E i \in Range(p) : i.around > 0) =>
    LET offered == Joined(parts) IN
    \A i \in 1..read : AddedUp([k \in DOMAIN offered |-> IF i \in offered[k].cites THEN offered[k].size ELSE 0]) = NoteSize[i]

\* Claims shown from an earlier draft were judged against the notes as they are.
ShownWasJudged == shown # Absent /\ shown.by = "kept" => partial = JudgedSources

\* A composed answer ends a run complete only when every claim of it cites a note
\* and was upheld, and one request saw them all.
CompleteWasChecked ==
  [][ shown = Absent /\ shown' # Absent /\ shown'.status = "complete" /\ stage = "review" /\ asked = "text" =>
        /\ reduced /\ shown'.whole /\ Joined(drafted) # <<>>
        /\ \A c \in Range(Joined(drafted)) : c.cites \cap 1..read # {} ]_composeVars

\* Packed to the limits of a request, everything read reaches the composer; claims
\* kept from a rejected draft are shown only while the notes they were judged
\* against are the notes there are; and complete means checked (answers.rs,
\* state.rs `checked_composition`, finishing.rs `conclude_attempt`).
AnswerKept == [](ComposeTypeOK /\ NothingDropped /\ ShownWasJudged) /\ CompleteWasChecked
=============================================================================
