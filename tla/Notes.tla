-------------------------------- MODULE Notes --------------------------------
(***************************************************************************)
(* What a run has read (fastbrowse-agent: memory.rs, agent/reading.rs,     *)
(* agent/state.rs, retrieval/choices.rs).                                  *)
(*                                                                         *)
(* A read turns a capture of a page into facts, each cut from a span of it *)
(* or, for a value the page repeats, derived from several.  A later read   *)
(* of the same address retires what that page no longer shows.  A capture  *)
(* is known by the hash of its text, so it is the set of quotes it shows;  *)
(* two pages may show the same text.                                       *)
(***************************************************************************)
EXTENDS Naturals, Sequences, FiniteSets, SequencesExt

CONSTANTS
  Pages,      \* addresses the run reads
  Quotes,     \* spans of text a page may show
  Images,     \* what a reader may see in a page's pixels
  ValueOf,    \* the value each quote or image states
  MaxReads    \* bound: reads of a run

\* A page has finitely many spans.
ASSUME NotesAssumption == IsFiniteSet(Quotes) /\ MaxReads \in Nat

VARIABLES
  order,      \* the facts' keys, in the order they were read
  facts,      \* key -> [answers, basis]
  answering,  \* the keys standing as the task's answer
  retired,    \* the keys a later read replaced
  compose,    \* state.compose: the answer has to be written
  readWhole,  \* state.read_whole: captures read for one fact, kept whole
  latest,     \* history: what each page showed at its last read that added facts
  readings    \* how many reads there were

noteVars == <<order, facts, answering, retired, compose, readWhole, latest, readings>>

\* `evidence_id` and `fact_id`: a span is named by its capture, place and address,
\* a derived fact by what it concludes from which spans.
Key(page, text, quote, derived) == [page |-> page, text |-> text, quote |-> quote, derived |-> derived]
QuoteKey(page, text, quote) == Key(page, text, quote, FALSE)
Fact(answers, basis) == [answers |-> answers, basis |-> basis]
Texts == (SUBSET Quotes) \ {{}}
ValueQuote(v) == CHOOSE q \in Quotes : ValueOf[q] = v

NotesTypeOK ==
  /\ \A i, j \in DOMAIN order : i # j => order[i] # order[j]
  /\ DOMAIN facts = Range(order)
  /\ answering \subseteq DOMAIN facts /\ retired \subseteq DOMAIN facts
  /\ \A k \in DOMAIN facts : facts[k].basis \subseteq DOMAIN facts /\ (k.derived => facts[k].basis # {})
  /\ compose \in BOOLEAN /\ readWhole \subseteq Pages \X Texts
  /\ latest \in [Pages -> SUBSET Quotes] /\ readings \in 0..MaxReads

NotesInit ==
  /\ order = <<>> /\ facts = <<>> /\ answering = {} /\ retired = {}
  /\ compose = FALSE /\ readWhole = {} /\ latest = [p \in Pages |-> {}] /\ readings = 0

----------------------------------------------------------------------------
\* What of a list is in a set, in order.
Among(seq, set) ==
  LET taken[k \in 0..Len(seq)] ==
        IF k = 0 THEN <<>> ELSE IF seq[k] \in set THEN Append(taken[k - 1], seq[k]) ELSE taken[k - 1]
  IN  taken[Len(seq)]

----------------------------------------------------------------------------
(* The notes as a value: [order, facts, answering, retired].                *)

Held == [order |-> order, facts |-> facts, answering |-> answering, retired |-> retired]

\* `current`: a fact that was an answer is current only while it stands as one.
CurrentIn(n, k) == k \in DOMAIN n.facts /\ k \notin n.retired /\ (n.facts[k].answers => k \in n.answering)

\* `add`, for the entries of a read, each a key and its fact, no key twice.  A
\* context span that is read again as an answer becomes one.
AddAll(n, entries) ==
  LET keys == [i \in DOMAIN entries |-> entries[i][1]]
      added == [k \in Range(keys) |-> entries[CHOOSE i \in DOMAIN keys : keys[i] = k][2]]
      merged(k) == Fact(n.facts[k].answers \/ added[k].answers, n.facts[k].basis \cup added[k].basis) IN
  [order |-> n.order \o Among(keys, Range(keys) \ DOMAIN n.facts),
   facts |-> [k \in DOMAIN n.facts \cup DOMAIN added |->
                IF k \notin DOMAIN added THEN n.facts[k] ELSE IF k \notin DOMAIN n.facts THEN added[k] ELSE merged(k)],
   answering |-> n.answering \cup {k \in DOMAIN added : added[k].answers},
   retired |-> n.retired \ DOMAIN added]

\* `expand_evidence_ids`: the keys and all they rest on.
Expanded(n, keys) ==
  LET grown[i \in 0..Len(n.order)] ==
        IF i = 0 THEN keys
        ELSE LET seen == grown[i - 1] IN seen \cup UNION {n.facts[k].basis : k \in seen \cap DOMAIN n.facts}
  IN  grown[Len(n.order)]
Quoted(n) == {k \in DOMAIN n.facts : ~k.derived}

\* What a read of `page` showing `text` retires.
Stale(n, page, text, own, addresses) ==
  LET vanished(k) == k.text # text /\ k.page \in addresses /\ k.quote \notin text
  IN  {k \in DOMAIN n.facts \ own : \E s \in Expanded(n, {k}) \cap Quoted(n) : vanished(s)}

\* Mutant: a fact derived from several spans is left standing.
SupersedeSpans(n, page, text) ==
  LET fresh == {k \in Quoted(n) : CurrentIn(n, k) /\ k.text = text}
      own == {k \in Quoted(n) : k.text = text}
      gone == Stale(n, page, text, own, {page} \cup {k.page : k \in fresh}) \cap Quoted(n) IN
  IF fresh = {} THEN n
  ELSE [n EXCEPT !.retired = @ \cup gone, !.answering = @ \ gone]
\* `supersede`: only a read that left something current retires anything, at the
\* page's address and those of its frames.
Supersede(n, page, text) ==
  LET fresh == {k \in Quoted(n) : CurrentIn(n, k) /\ k.text = text}
      own == {k \in Quoted(n) : k.text = text}
      gone == Stale(n, page, text, own, {page} \cup {k.page : k \in fresh}) IN
  IF fresh = {} THEN n
  ELSE [order |-> n.order, answering |-> n.answering \ gone, retired |-> n.retired \cup gone,
        facts |-> [k \in DOMAIN n.facts |-> IF k \in own THEN [n.facts[k] EXCEPT !.basis = @ \ gone] ELSE n.facts[k]]]

----------------------------------------------------------------------------
(* A read.                                                                  *)

\* `whole_page_facts`: every block, none of them the answer.
WholePage(page, text) == [i \in 1..Cardinality(text) |-> <<QuoteKey(page, text, SetToSeq(text)[i]), Fact(FALSE, {})>>]

\* What `read_page` makes of a pick: the spans that state the value, the headings
\* or the block around them, and the answer: the one span, or a fact derived from
\* several.
PickFacts(page, text, value, around) ==
  LET group == {q \in text : ValueOf[q] = value}
      context == IF Cardinality(group) > 1 THEN group ELSE {}
      basis == {QuoteKey(page, text, q) : q \in context \cup around}
      answer == IF context = {} THEN QuoteKey(page, text, CHOOSE q \in group : TRUE) ELSE Key(page, text, ValueQuote(value), TRUE)
      noted == SetToSeq(context \cup around)
  IN  Append([i \in DOMAIN noted |-> <<QuoteKey(page, text, noted[i]), Fact(FALSE, {})>>], <<answer, Fact(TRUE, basis)>>)

Keeps(after) == \E n \in {after} :
  order' = n.order /\ facts' = n.facts /\ answering' = n.answering /\ retired' = n.retired

\* `record_read`.
RecordRead(page, text, entries, whole) ==
  /\ Keeps(IF entries = <<>> THEN Held ELSE Supersede(AddAll(Held, entries), page, text))
  /\ readWhole' = {r \in readWhole : r[1] # page} \cup (IF whole /\ entries # <<>> THEN {<<page, text>>} ELSE {})
  /\ latest' = IF entries = <<>> THEN latest ELSE [latest EXCEPT ![page] = text]
ReadsMore == readings < MaxReads /\ readings' = readings + 1

\* Nothing on the page bears on the task, or no request fits it.
ReadAbsent(page, text) == ReadsMore /\ RecordRead(page, text, <<>>, TRUE) /\ UNCHANGED compose
ReadToCompose(page, text) == ReadsMore /\ RecordRead(page, text, WholePage(page, text), FALSE) /\ compose' = TRUE

\* Whether a pick has to be written up: another pick differs from it, or another
\* page was kept to compose from.
Composes(page, value) ==
  \/ \E k \in DOMAIN facts : facts[k].answers /\ ValueOf[k.quote] # value
  \/ compose /\ \E k \in DOMAIN facts : ~facts[k].answers /\ ~k.derived /\ k.page # page
ReadPick(page, text, value, around) ==
  /\ ReadsMore /\ compose' = Composes(page, value)
  /\ RecordRead(page, text, PickFacts(page, text, value, around), TRUE)

\* `read_drawn_page`: a screenshot's reading, unless that image was read, or it
\* only repeats a current note of the page's text.
Repeats(page, value) ==
  \E k \in Quoted(Held) : CurrentIn(Held, k) /\ k.quote \notin Images /\ k.page = page /\ ValueOf[k.quote] = value
ReadImage(page, image, appearance) ==
  /\ ReadsMore /\ (appearance \/ answering = {})
  /\ \A k \in DOMAIN facts : k.quote \in Images => k.page # page
  /\ appearance \/ ~Repeats(page, ValueOf[image])
  /\ Keeps(AddAll(Held, <<<<QuoteKey(page, {}, image), Fact(TRUE, {})>>>>)) /\ compose' = TRUE
  /\ UNCHANGED <<readWhole, latest>>

NotesNext == \E page \in Pages :
  \/ \E text \in Texts :
       \/ ReadAbsent(page, text) \/ ReadToCompose(page, text)
       \/ \E value \in {ValueOf[q] : q \in text}, around \in {{}} \cup {{q} : q \in text} :
            (\A q \in around : ValueOf[q] # value) /\ ReadPick(page, text, value, around)
  \/ \E image \in Images, appearance \in BOOLEAN : ReadImage(page, image, appearance)

----------------------------------------------------------------------------
(* What is made of the notes.                                               *)

\* `notes_to_compose`: with the pages read for one fact whole.
NotesToCompose ==
  LET wholes == SetToSeq(readWhole)
  IN  AddAll(Held, FlattenSeq([i \in DOMAIN wholes |-> WholePage(wholes[i][1], wholes[i][2])]))

\* `draft_claims`: one claim for each fact standing as the answer.
DraftClaims == {[value |-> ValueOf[k.quote], cites |-> k] : k \in answering}

\* `render` within `room` facts: the answer's and what they rest on come first,
\* cut to the longest part whose facts rest on nothing cut, or refused.
ShownOf(ok, keys) == [ok |-> ok, keys |-> keys]
Rendered(n, room, preserve) ==
  LET required == Expanded(n, n.answering)
      ordered == Among(n.order, required) \o Among(n.order, DOMAIN n.facts \ required)
      kept(count) == {ordered[i] : i \in 1..count}
      whole(count) == \A k \in kept(count) : n.facts[k].basis \subseteq kept(count)
      best == CHOOSE c \in 0..room : whole(c) /\ \A more \in (c + 1)..room : ~whole(more) IN
  IF Len(n.order) <= room THEN ShownOf(TRUE, n.order)
  ELSE ShownOf(preserve => required \subseteq kept(best), SubSeq(ordered, 1, best))

NotesSpec == NotesInit /\ [][NotesNext]_noteVars

----------------------------------------------------------------------------
(* Properties.                                                              *)

SourcesOf(k) == Expanded(Held, {k}) \cap Quoted(Held)
IsText(k) == k.quote \notin Images

\* The last read of a page that found something left some of it current.
LastReadStands(page) == \E k \in Quoted(Held) : k.page = page /\ k.text = latest[page] /\ CurrentIn(Held, k)

\* No standing answer rests on a quote its page no longer showed when it was last
\* read and something of that read stands.
AnswerStillShown ==
  \A k \in answering : \A s \in SourcesOf(k) : IsText(s) /\ s.quote \notin latest[s.page] => ~LastReadStands(s.page)

\* In any room, what is shown of the notes rests on nothing left out; a draft of
\* the answer is refused its place only when it and what it rests on do not fit.
RenderedWhole ==
  LET draft == {claim.cites : claim \in DraftClaims}
      required == Expanded(Held, draft) IN
  \A room \in 0..Len(order) :
    LET shown == Rendered(Held, room, TRUE) IN
    /\ \A k \in Range(shown.keys) : facts[k].basis \subseteq Range(shown.keys)
    /\ shown.ok <=> Cardinality(required) <= room
    /\ shown.ok => required \subseteq Range(shown.keys)

\* Nothing is offered for composing as current that its page no longer shows, the
\* pages kept whole included.
ComposedFromCurrent ==
  LET n == NotesToCompose IN
  \A k \in Quoted(n) \ n.retired : IsText(k) /\ k.quote \notin latest[k.page] => ~LastReadStands(k.page)

\* No standing answer, and nothing composed from, is what its page no longer shows;
\* and notes cut to a room rest on nothing cut (memory.rs, state.rs).
NotesKept == NotesTypeOK /\ AnswerStillShown /\ ComposedFromCurrent /\ RenderedWhole
=============================================================================
