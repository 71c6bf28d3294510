------------------------------ MODULE MCModels ------------------------------
(* A pass of Jev questions, two generations beside each other, or one of the *)
(* rules on an input.                                                        *)
EXTENDS JevSpend, LlmClients, Providers, Wires, Safety, Schemas

CONSTANTS batch, other

VARIABLE part  \* which of the three runs

----------------------------------------------------------------------------
(* The rules that are functions, each over a set of inputs: a behaviour       *)
(* picks one rule and one input for it.                                       *)

VARIABLES rule, input

RulesInit == rule = "none" /\ input = <<>>

Pick(name, inputs) == rule = "none" /\ rule' = name /\ input' \in inputs

----------------------------------------------------------------------------
(* Settings: every key from the process or `.env`, with one family of       *)
(* settings varied at a time.                                               *)

KeyNames == {"openrouter", "gateway", "typesafe", "own", "local", "decision"}
Keys == {FromSources(env, [k \in KeyNames |-> "set"]) : env \in [KeyNames -> {"absent", "blank"}]}
SettingsOf(keys, source, decisionUrl, decisionModel, provider, llmUrl, llmModel, effort, extra) ==
  [keys |-> keys, source |-> source, decisionUrl |-> decisionUrl, decisionModel |-> decisionModel,
   provider |-> provider, llmUrl |-> llmUrl, llmModel |-> llmModel, effort |-> effort, extra |-> extra]

PickDecision == Pick("settings",
  {SettingsOf(keys, source, url, model, "none", "none", "none", "unset", "none") :
     keys \in Keys, source \in Sources \cup {"none"}, url \in BOOLEAN, model \in {"none", "blank", "named"}})
PickLlm == Pick("settings",
  {SettingsOf([k \in KeyNames |-> IF k \in {"openrouter", "gateway", "own"} THEN keys[k] ELSE "set"],
              "none", FALSE, "none", provider, url, model, effort, extra) :
     keys \in Keys, provider \in LLMs \cup {"none"}, url \in {"none", "blank", "resource", "other"},
     model \in {"none", "named"}, effort \in {"unset", "off", "on"}, extra \in {"none", "ok", "clash"}})

----------------------------------------------------------------------------
(* Replies to Jev questions.                                                *)

QuestionSet == {[kind |-> "noul", options |-> {}], [kind |-> "choice", options |-> {1, 2}],
                [kind |-> "score", options |-> {1, 2, 3}]}
Distribution == {<<>>, <<[value |-> 1, probability |-> 40], [value |-> 2, probability |-> 60]>>,
                 <<[value |-> 1, probability |-> 40], [value |-> 2, probability |-> 55]>>,
                 <<[value |-> 1, probability |-> 30], [value |-> 2, probability |-> 30], [value |-> 3, probability |-> 41]>>}
Items == [name : {"q", "r"}, type : {"predicate", "choice", "score", "refusal"}, value : {1, 4, 200},
          probs : Distribution, confidence : {90, 101}]
Sure == {i \in Items : i.confidence = 90 /\ i.value = 1 /\ i.type # "refusal"}
PickAnswers == Pick("answers",
  {[questions |-> [q \in {"q"} |-> question], items |-> <<item>>] : question \in QuestionSet, item \in Items}
    \cup {[questions |-> [q \in asked |-> question], items |-> <<first, second>>] :
            asked \in {{"q"}, {"q", "r"}}, question \in QuestionSet, first \in Sure, second \in Sure})

\* A choice of one option, alone or beside a question that is asked.
PickOpen == Pick("open",
  {[questions |-> [q \in asked |-> IF q = "q" THEN [kind |-> "choice", options |-> {7}] ELSE question], items |-> items] :
     asked \in {{"q"}, {"q", "r"}}, question \in QuestionSet, items \in {<<>>} \cup {<<i>> : i \in Items}})

\* Distributions over up to seven options, all but one of them small.
PickRounded == Pick("rounded",
  UNION {{[o \in 1..n |-> IF o < n THEN small[o] ELSE 1000 - FoldFunction(+, 0, small)] :
            small \in [1..(n - 1) -> {4, 5, 14}]} : n \in 2..7})

----------------------------------------------------------------------------
(* Price lists.  An override names at most one fee per request.             *)

PriceSets == {[token |-> t, request |-> r, search |-> s, image |-> i] :
                t \in {0, 2}, r \in {0, 1}, s \in {0, 3}, i \in {0, 5}}
Endpoints == {[context |-> 10, output |-> output, base |-> base, tiers |-> tiers, overrides |-> overrides,
               regions |-> regions, peak |-> peak] :
                output \in {4, 10}, base \in PriceSets, tiers \in {{}, {3}}, regions \in {{}, {4}}, peak \in {1, 2},
                overrides \in {{}} \cup {{o} : o \in {p \in PriceSets : p.request = 0 \/ p.search = 0}}}
Cheap == [context |-> 4, output |-> 1, base |-> [token |-> 1, request |-> 2, search |-> 2, image |-> 0],
          tiers |-> {}, overrides |-> {}, regions |-> {}, peak |-> 3]
PickPrices == Pick("prices", {[endpoints |-> {e, Cheap}, images |-> images] : e \in Endpoints, images \in {0, 2}})

----------------------------------------------------------------------------
(* Two values under one name, and the address of the page that asks for it. *)

Hosts == {<<"shop", "test">>, <<"a", "shop", "test">>, <<"evil", "test">>, <<"test">>}
Urls == [scheme : {"http", "https"}, host : Hosts, port : {0, 80, 443}]
Declared == {[scheme |-> u.scheme, host |-> u.host, port |-> u.port, wild |-> wild] :
               u \in {x \in Urls : x.host \in {<<"shop", "test">>, <<"a", "shop", "test">>}}, wild \in BOOLEAN}
PickOrigins == Pick("origin",
  {[entries |-> <<[name |-> "n", value |-> 1, origins |-> {first}], [name |-> "n", value |-> 2, origins |-> second]>>, url |-> url] :
     first \in Declared, second \in {{}} \cup {{d} : d \in {x \in Declared : x.port # 80}}, url \in Urls})

----------------------------------------------------------------------------
(* A page of two fields and a control that may submit them.                 *)

Field(id, form, type, tokens) ==
  [id |-> id, form |-> form, type |-> type, tokens |-> tokens, role |-> "textbox", link |-> FALSE, download |-> FALSE, saves |-> FALSE]
FieldsOf(id) == {Field(id, form, type, tokens) : form \in 0..1, type \in {"text", "password"},
                   tokens \in {{}, {"current-password"}, {"new-password"}, {"one-time-code"}, {"username", "webauthn"}}}
Submits == [id : {3}, form : 0..1, type : {"none"}, tokens : {{}}, role : {"button", "link"}, link : BOOLEAN, download : BOOLEAN, saves : BOOLEAN]
PickForms == Pick("form", {[fields |-> {one, two}, control |-> control] : one \in FieldsOf(1), two \in FieldsOf(2), control \in Submits})

----------------------------------------------------------------------------
(* Texts with secrets in them, under names that hold the values of others.  *)

Letters == {"a", "k", "&"}
Words12 == UNION {[1..n -> Letters] : n \in 1..2}
PickTexts == Pick("texts",
  {[values |-> Register(Register({}, <<"k">>, first, {}), <<"a", "k">>, second, {}), text |-> text] :
     first \in Words12, second \in {<<"k">>, <<"a", "k">>, <<"k", "&">>}, text \in UNION {[1..n -> Letters] : n \in 3..5}})

----------------------------------------------------------------------------
(* Schemas of a record with two properties whose names nearly collide.      *)

One == Num(2, FALSE)
LeafSchemas ==
  LET int == [type |-> <<"integer">>] IN
  {<<>>, int, [type |-> <<"number", "null">>], [type |-> <<"integer", "string">>],
   [type |-> <<"integer">>, minimum |-> 2], [type |-> <<"number">>, exclusiveMaximum |-> 2],
   [type |-> <<"boolean">>, maximum |-> 2], [minimum |-> 2], [pattern |-> "x"], [ref |-> "d"], [ref |-> "loop"],
   [ref |-> "d", minimum |-> 4], [anyOf |-> <<int, [type |-> <<"null">>]>>], [anyOf |-> <<[type |-> <<"null">>], [ref |-> "d"]>>],
   [anyOf |-> <<int, [type |-> <<"string">>]>>], [enum |-> <<One, Text("a")>>], [enum |-> <<One, Text("a")>>, type |-> <<"string">>],
   [enum |-> <<Num(2, TRUE), Null>>, const |-> One], [const |-> Text("a"), type |-> <<"integer">>],
   [enum |-> <<One, Num(4, FALSE)>>, minimum |-> 4], [type |-> <<"array">>, items |-> int], [items |-> int],
   [type |-> <<"object">>, properties |-> <<"b">> :> int, required |-> {<<"b">>}, additionalProperties |-> "false"]}
Definitions == [d |-> [type |-> <<"integer", "boolean">>], loop |-> [anyOf |-> <<[ref |-> "loop"], [type |-> <<"null">>]>>]]
Record2(one, two, required, extra, defs) ==
  [type |-> <<"object">>, properties |-> <<"a", "-">> :> one @@ <<"a", "_">> :> two, required |-> required,
   additionalProperties |-> extra, defs |-> Restrict(Definitions, defs)]
PickSchemas == Pick("schema",
  {Record2(one, two, required, extra, defs) : one \in LeafSchemas, two \in LeafSchemas,
     required \in {{}, {<<"a", "-">>}}, extra \in {"true", "false", "schema"}, defs \in {{"d"}, {"d", "loop"}}})
LeafValues == {Null, One, Num(1, TRUE), Num(4, TRUE), Text("a"), Text("1"), Flag(TRUE), List(<<One>>), List(<<Null>>),
               Obj(<<"b">> :> One), Obj(<<"c">> :> One)}
Records2 == UNION {{Obj(o) : o \in [keys -> LeafValues]} : keys \in SUBSET {<<"a", "-">>, <<"a", "_">>}}
              \cup {Obj(<<"a", "-">> :> One @@ <<"z">> :> One)}

----------------------------------------------------------------------------
(* Records with optional objects, and values of them.                       *)

LeafNode(null) == [k |-> "leaf", null |-> null]
ObjectNode(props, required) == [k |-> "object", props |-> props, required |-> required]
OptionalNode(object) == [k |-> "optional", of |-> object]
Deep == {LeafNode(FALSE), [k |-> "array", item |-> OptionalNode(ObjectNode(<<"m">> :> LeafNode(TRUE), {}))],
         ObjectNode(<<"m">> :> LeafNode(TRUE), {<<"m">>}), OptionalNode(ObjectNode(<<"m">> :> LeafNode(FALSE), {<<"m">>}))}
Nodes ==
  {ObjectNode(<<"a">> :> OptionalNode(ObjectNode(<<"n">> :> deep @@ inside, {<<"n">>})) @@ beside, {}) :
     deep \in Deep, inside \in {<<>>, <<"b">> :> LeafNode(FALSE), <<"n", "m">> :> LeafNode(TRUE)},
     beside \in {<<>>, <<"a", "b">> :> LeafNode(FALSE), <<"a", "n", "m">> :> LeafNode(FALSE) @@ <<"a", "n">> :> LeafNode(FALSE),
                 <<"a", "n", "m">> :> LeafNode(TRUE) @@ <<"a", "n", "m", "1">> :> LeafNode(FALSE),
                 <<"b">> :> ObjectNode(<<"a">> :> OptionalNode(ObjectNode(<<"c">> :> LeafNode(FALSE), {})), {})}}
RECURSIVE ValuesOf(_)
ValuesOf(node) ==
  CASE node.k = "leaf" -> {Text("x"), Text("y")} \cup (IF node.null THEN {Null} ELSE {})
    [] node.k = "array" -> {List(<<>>)} \cup {List(<<v>>) : v \in ValuesOf(Inner(node.item))}
    [] node.k = "optional" -> {Null} \cup ValuesOf(node.of)
    [] node.k = "object" ->
         {Obj(o) : o \in {f \in [DOMAIN node.props -> UNION {ValuesOf(node.props[k]) : k \in DOMAIN node.props}] :
                            \A k \in DOMAIN node.props : f[k] \in ValuesOf(node.props[k])}}
PickNodes == Pick("flat", Nodes)

RulesNext == PickDecision \/ PickLlm \/ PickAnswers \/ PickOpen \/ PickRounded \/ PickPrices \/ PickOrigins \/ PickForms
   \/ PickTexts \/ PickSchemas \/ PickNodes
ruleVars == <<rule, input>>

----------------------------------------------------------------------------
\* A key is sent to the host of the provider that issued it, whatever the
\* settings (environment.rs).
KeysAtHome == rule = "settings" => KeysStayHome(input)

\* A judgement reads the same from every wire, and rounding never turns one away
\* (validation.rs, openai_decisions.rs, vercel.rs, system_one.rs).
JudgementsRead ==
  /\ rule = "answers" => AnswersAgree(input.questions, input.items)
  /\ rule = "open" => OpenAnswered(input.questions, input.items)
  /\ rule = "rounded" => RoundedTaken(input)

\* An unanswered request is never charged less than a provider could bill for it
\* (openai_compatible.rs).
CeilingIsTrue == rule = "prices" => CeilingHolds(input.endpoints, input.images)

\* What was redacted or masked shows no secret, redacting it again changes
\* nothing, and a mask keeps every offset (safety.rs).
SecretsHidden == rule = "texts" =>
  LET redacted == Redact(input.values, input.text, {})
      masked == Mask(input.values, input.text, {}) IN
  /\ ~Reveals(input.values, redacted, {}) /\ Redact(input.values, redacted, {}) = redacted
  /\ ~Reveals(input.values, masked, {}) /\ Len(masked) = Len(input.text)

\* A secret resolves on the addresses its last declaration covers, however their
\* ports are written, and on no other (safety.rs).
OriginsKept == rule = "origin" =>
  LET entries == input.entries
      url == input.url
      port(u) == IF u.port = 0 THEN Implied[u.scheme] ELSE u.port
      covers(d) == /\ d.scheme = url.scheme /\ port(d) = port(url)
                   /\ d.host = url.host \/ (d.wild /\ \E n \in 1..Len(url.host) : SubSeq(url.host, n, Len(url.host)) = d.host)
      last == IF entries[2].origins = {} THEN entries[1] ELSE entries[2] IN
  Resolved(PerSecret(entries), "n", OriginOf(url)) = (IF \E d \in last.origins : covers(d) THEN {last.value} ELSE {})

\* A form known to set a password is one whose submission changes credentials,
\* which no step does unasked and no download link does; a masked code box alone
\* is a wall for a code (safety.rs).
FormsRead == rule = "form" =>
  LET all == input.fields \cup {input.control}
      asked(f) == {CredentialField(x) : x \in f} \ {"none"} IN
  /\ \A c \in all, op \in {"click", "enter", "drag", "fill", "hover"} :
       ChangesCredentials(all, c, op) => MayBeIrreversible(op) /\ ~(c.link /\ op = "click" /\ StartsDownload(c))
  /\ \A f \in input.fields : SetsNewPassword(all, f) = "yes" =>
       \A c \in all : c.form = f.form => ChangesCredentials(all, c, "enter")
  /\ \A f \in SUBSET input.fields :
       WallKind(asked(f)) = "password" <=> \E x \in f : "one-time-code" \notin x.tokens /\ (IsPassword(x) \/ "current-password" \in x.tokens)

\* A schema that is taken is kept (output_schema.rs, validation.rs).
SchemasKept == rule = "schema" => \A v \in Records2 : SchemaKept(input, v)

\* A flattened reply folds back into what it means (schema.rs).
RepliesFold == rule = "flat" => \A v \in ValuesOf(input) : RoundTrips(input, v)

----------------------------------------------------------------------------
(* The calls, and the whole.                                                  *)

TwoAndOne == [c \in Calls |-> IF c = batch THEN 2 ELSE 1]

MCInit ==
  /\ part \in {"jev", "llm", "rules"} /\ Init /\ LlmInit /\ RulesInit
  /\ part # "jev" => Total(ledger) = 0
  /\ part # "llm" => shape = CHOOSE s \in Shapes : TRUE

MCNext ==
  \/ part = "jev" /\ Next /\ UNCHANGED <<part, llmVars, ruleVars>>
  \/ part = "llm" /\ LlmNext /\ UNCHANGED <<part, vars, ruleVars>>
  \/ part = "rules" /\ RulesNext /\ UNCHANGED <<part, vars, llmVars>>

\* The runtime polls what is ready: some step that needs nobody's leave is taken.
MCProgress ==
  \/ part = "jev" /\ Progress /\ UNCHANGED <<part, llmVars, ruleVars>>
  \/ part = "llm" /\ LlmProgress /\ UNCHANGED <<part, vars, ruleVars>>

all == <<part, vars, llmVars, ruleVars>>
MCSpec == MCInit /\ [][MCNext]_all /\ WF_all(MCProgress)

\* However the providers behave, a pass and every generation end: repeats,
\* splits, second turns, lookups and the switches of provider nest, and each is
\* counted by another limit.
CallsEnd ==
  <>(CASE part = "jev" -> pass \in {"over", "refused"}
       [] part = "llm" -> \A g \in Gens : Over(g)
       [] part = "rules" -> TRUE)

\* The spending ends: every call does, and no request is sent once a line of
\* unknown cost has made the dollar limit unenforceable (telemetry.rs).
SpendingEnds == CallsEnd /\ UnpricedStopsSpending

\* The rules without state, each against its reference on every input.
RulesHold == KeysAtHome /\ JudgementsRead /\ CeilingIsTrue /\ SecretsHidden /\ OriginsKept
             /\ FormsRead /\ SchemasKept /\ RepliesFold
=============================================================================
