-------------------------------- MODULE Wires --------------------------------
(***************************************************************************)
(* What model replies and price lists are read as (fastbrowse-clients).    *)
(* Jev's questions go out in three shapes (System One, the Vercel gateway, *)
(* OpenAI's Decisions) and come back in three; `parse_answers` checks all  *)
(* of them.  Probabilities are hundredths, as they are rounded on the      *)
(* wire.  A router's price list becomes the ceiling an unanswered request  *)
(* is charged (openai_compatible.rs).                                      *)
(***************************************************************************)
EXTENDS Naturals, Integers, Sequences, FiniteSets, FiniteSetsExt, Functions

Refused == [refused |-> TRUE]
IsRefused(r) == r = Refused

----------------------------------------------------------------------------
(* Answers.  A question is [kind, options]; an answer [type, value, probs, *)
(* confidence]; a reply an array of named items or an object of them.      *)

\* `probability`.
Probability(p) == p \in 0..100

\* `probabilities`: one per option, each a probability, summing to one within
\* half a hundredth per option and never less than two.
Probabilities(raw, options) ==
  LET sum == FoldFunction(+, 0, raw)
      n   == Cardinality(options) IN
  /\ options # {} /\ DOMAIN raw = options /\ \A o \in options : Probability(raw[o])
  /\ LET off == 2 * (sum - 100) IN off <= (IF n > 4 THEN n ELSE 4) /\ -off <= (IF n > 4 THEN n ELSE 4)

\* The answer type a question expects, which the gateway names otherwise.
WireType(kind, gateway) == IF kind = "noul" /\ gateway THEN "boolean" ELSE kind

\* One answer against its question; a box's edges must not cross, a choice must
\* be one of the options and a score one of the levels.
AnswerTaken(question, answer, gateway) ==
  /\ answer.type = WireType(question.kind, gateway)
  /\ \/ question.kind = "noul" /\ Probability(answer.value)
     \/ /\ question.kind \in {"choice", "score"}
        /\ Probabilities(answer.probs, question.options)
        /\ answer.value \in question.options /\ Probability(answer.confidence)
     \/ /\ question.kind = "box"
        /\ \A edge \in DOMAIN answer.value : Probability(answer.value[edge])
        /\ answer.value.top <= answer.value.bottom /\ answer.value.left <= answer.value.right

\* `parse_answers`: every question answered, nothing else, each answer taken.
ParseAnswers(raw, questions, gateway) ==
  IF DOMAIN raw # DOMAIN questions \/ \E k \in DOMAIN questions : ~AnswerTaken(questions[k], raw[k], gateway)
  THEN Refused
  ELSE [k \in DOMAIN questions |-> [raw[k] EXCEPT !.type = questions[k].kind]]

\* `keyed_probabilities`: a later entry for a key replaces an earlier one.
KeyedProbabilities(items) ==
  [k \in {items[i].value : i \in DOMAIN items} |->
     items[CHOOSE i \in DOMAIN items : items[i].value = k /\ \A j \in DOMAIN items : items[j].value = k => j <= i]
       .probability]

\* `system_one_answers`: the Decisions array as System One's object.  A refusal,
\* a type it does not know and a second answer to one question fail the call.
SystemOneAnswers(items) ==
  IF \/ \E i \in DOMAIN items : items[i].type \notin {"predicate", "choice", "score"}
     \/ \E i, j \in DOMAIN items : i # j /\ items[i].name = items[j].name
  THEN Refused
  ELSE [n \in {items[i].name : i \in DOMAIN items} |->
         LET i == CHOOSE j \in DOMAIN items : items[j].name = n IN
         [type |-> IF items[i].type = "predicate" THEN "noul" ELSE items[i].type, value |-> items[i].value,
          probs |-> KeyedProbabilities(items[i].probs), confidence |-> items[i].confidence]]

\* `OpenAIDecisionsClient::request` reads a reply through both.
ParseDecisions(items, questions) ==
  LET raw == SystemOneAnswers(items) IN
  IF IsRefused(raw) THEN Refused ELSE ParseAnswers(raw, questions, FALSE)

\* `asking_open`: a choice of one option is answered here and never asked.
Forced(questions) ==
  {k \in DOMAIN questions : questions[k].kind = "choice" /\ Cardinality(questions[k].options) = 1}
AskingOpen(questions, items) ==
  LET forced == [k \in Forced(questions) |->
                   [type |-> "choice", value |-> Max(questions[k].options),
                    probs |-> [o \in questions[k].options |-> 100], confidence |-> 100]]
      rest == Restrict(questions, DOMAIN questions \ DOMAIN forced)
      read == IF rest = <<>> THEN <<>> ELSE ParseDecisions(items, rest) IN
  IF IsRefused(read) THEN Refused
  ELSE [k \in DOMAIN read \cup DOMAIN forced |-> IF k \in DOMAIN forced THEN forced[k] ELSE read[k]]

----------------------------------------------------------------------------
(* Prices.  An endpoint: [context, output, base, tiers, overrides, regions, *)
(* peak]; a price set: [token, request, search, image].                    *)

Largest(S) == IF S = {} THEN 0 ELSE Max(S)

\* One endpoint's part of `ceiling`: the dearest token of its prices, tiers,
\* overrides and regions; the base's per-request fees together, or the dearest
\* of an override's; all at the busiest hour.
CeilingOf(e) ==
  [context   |-> e.context,
   prompt    |-> IF e.output < e.context THEN e.context - e.output ELSE e.context,
   per_token |-> e.peak * Largest({e.base.token} \cup e.tiers \cup e.regions \cup {o.token : o \in e.overrides}),
   per_request |-> e.peak * Largest({e.base.request + e.base.search} \cup {o.request : o \in e.overrides}
                                     \cup {o.search : o \in e.overrides}),
   per_image |-> e.peak * Largest({e.base.image} \cup {o.image : o \in e.overrides})]

\* `ceiling`: a request may be routed to any endpoint, so the largest of each.
Ceiling(endpoints) ==
  LET each == {CeilingOf(e) : e \in endpoints} IN
  [context |-> Largest({c.context : c \in each}), prompt |-> Largest({c.prompt : c \in each}),
   per_token |-> Largest({c.per_token : c \in each}),
   per_request |-> Largest({c.per_request : c \in each}), per_image |-> Largest({c.per_image : c \in each})]

\* `bound`, before its fee for a key of the caller's own.
BoundOf(c, images) == c.context * c.per_token + c.per_request + c.per_image * images

\* External: what a request of `tokens` and `images` may cost at an endpoint, at
\* the prices of some window, tier or region, in a busy hour or a quiet one.
ChargesAt(e, tokens, images) ==
  LET prices == {e.base.token} \cup e.tiers \cup e.regions \cup {o.token : o \in e.overrides}
      at(peak, token) == {peak * (tokens * token + set.request + set.search + images * set.image) : set \in {e.base} \cup e.overrides}
  IN  UNION {at(1, token) \cup at(e.peak, token) : token \in prices}

----------------------------------------------------------------------------
\* The same judgements as System One's object, or the gateway's.
AsObject(items, gateway) ==
  [n \in {items[i].name : i \in DOMAIN items} |->
     LET item == items[CHOOSE i \in DOMAIN items : items[i].name = n] IN
     [type |-> IF item.type # "predicate" THEN item.type ELSE IF gateway THEN "boolean" ELSE "noul",
      value |-> item.value, probs |-> KeyedProbabilities(item.probs), confidence |-> item.confidence]]

\* A judgement reads the same from all three wires, one that breaks a rule is
\* refused on each, and two judgements of one question are no answer to it.
AnswersAgree(questions, items) ==
  IF \E i, j \in DOMAIN items : i # j /\ items[i].name = items[j].name
  THEN IsRefused(ParseDecisions(items, questions))
  ELSE LET system == ParseAnswers(AsObject(items, FALSE), questions, FALSE) IN
       /\ ParseAnswers(AsObject(items, TRUE), questions, TRUE) = system
       /\ ParseDecisions(items, questions) = system

\* Every question is answered as it would have to be, or the reply is refused.
OpenAnswered(questions, items) ==
  LET read == AskingOpen(questions, items) IN
  /\ IsRefused(read) \/ (DOMAIN read = DOMAIN questions /\ \A k \in DOMAIN read : AnswerTaken(questions[k], read[k], FALSE))
  /\ Forced(questions) = DOMAIN questions => ~IsRefused(read)

\* Rounding to hundredths never turns a distribution away: `exact` is one, in
\* thousandths.
RoundedTaken(exact) == Probabilities([o \in DOMAIN exact |-> (exact[o] + 5) \div 10], DOMAIN exact)

\* "No call can bill more tokens than its context window holds, so that window
\* at the highest price is a true ceiling."
CeilingHolds(endpoints, images) ==
  \A e \in endpoints : \A charge \in ChargesAt(e, e.context, images) :
    charge <= BoundOf(Ceiling(endpoints), images)
=============================================================================
