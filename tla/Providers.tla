------------------------------ MODULE Providers ------------------------------
(***************************************************************************)
(* Which model clients a run is given (fastbrowse-clients: environment.rs  *)
(* and the presets of providers.rs).  The environment, over a `.env` file, *)
(* becomes settings; the settings choose a decision source with its backup *)
(* and an LLM provider with its own; each client holds a key and the host  *)
(* it sends it to.  A key is named by the provider that issued it and a    *)
(* host by the provider that runs it, or "named" when a base URL says so.  *)
(***************************************************************************)
EXTENDS Naturals, FiniteSets

Jevs       == {"openrouter", "typesafe", "gateway"}
Sources    == Jevs \cup {"telnyx", "ollama", "custom", "openai", "aimlapi", "perplexity"}
Routers    == {"openrouter", "gateway"}
Hosted     == {"openai", "anthropic", "gemini", "groq", "together", "mistral", "deepseek", "xai",
               "fireworks"}
Locals     == {"ollama", "lmstudio", "vllm"}
LLMs       == Routers \cup Hosted \cup Locals \cup {"azure", "custom"}

----------------------------------------------------------------------------
(* Settings.                                                               *)

\* `from_sources`: a variable of the process hides the same one in `.env`, even
\* when it is blank.
FromSources(env, dotenv) ==
  [k \in DOMAIN env |-> IF env[k] # "absent" THEN env[k] ELSE dotenv[k]]

\* `set`: a blank key counts as unset.
IsSet(s, k) == s.keys[k] = "set"
\* `llm_base_url`: so does a blank address.
HasUrl(s) == s.llmUrl \notin {"none", "blank"}

\* `providers.rs`: what each preset reads, where it goes and what it takes.
Preset(p) ==
  [endpoint |-> IF p \in Hosted THEN "hosted" ELSE IF p = "azure" THEN "resource"
                ELSE IF p \in Locals THEN "local" ELSE "custom",
   key      |-> IF p \in Hosted \cup {"azure"} THEN "own" ELSE "local",
   strict   |-> p \notin {"together", "fireworks", "mistral", "deepseek"},
   effort   |-> p \notin {"together", "fireworks", "deepseek"},
   format   |-> IF p = "deepseek" THEN "json_object" ELSE "json_schema",
   wire     |-> IF p = "anthropic" THEN "messages" ELSE "chat",
   model    |-> p \in {"anthropic", "groq"}]

----------------------------------------------------------------------------
(* The decision model.                                                     *)

\* `decision_route`: the source, and the one a run moves to when its retries run
\* out.  A named host or a pinned model, even a blank one, has no backup.
DecisionRoute(s) ==
  LET source == IF s.source # "none" THEN s.source
                ELSE IF IsSet(s, "openrouter") THEN "openrouter"
                ELSE IF IsSet(s, "typesafe") THEN "typesafe" ELSE "gateway" IN
  [source |-> source,
   backup |-> IF source \notin Jevs \/ s.decisionUrl \/ s.decisionModel # "none" THEN "none"
              ELSE IF source # "gateway" THEN IF IsSet(s, "gateway") THEN "gateway" ELSE "none"
              ELSE IF IsSet(s, "openrouter") THEN "openrouter"
              ELSE IF IsSet(s, "typesafe") THEN "typesafe" ELSE "none"]

\* `decision_client`: {} is a configuration error.  The key of a source is its
\* own; ollama and custom take only the decision key, which may be missing.
DecisionClient(s, source) ==
  LET host == IF s.decisionUrl THEN "named" ELSE source
      ownKey == IF source \in Jevs THEN source ELSE "own" IN
  IF source \in {"ollama", "custom"}
  THEN IF s.decisionModel # "named" \/ (source = "custom" /\ ~s.decisionUrl) THEN {}
       ELSE {[key |-> IF IsSet(s, "decision") THEN "decision" ELSE "nobody", host |-> host,
              priced |-> TRUE, images |-> FALSE]}
  ELSE IF ~IsSet(s, ownKey) THEN {}
       ELSE {[key |-> ownKey, host |-> host, priced |-> source # "aimlapi",
              images |-> source \in {"openrouter", "typesafe"}]}

\* `decision`: the clients of a run, or {} when either cannot be built.
Decision(s) ==
  LET route == DecisionRoute(s)
      first == DecisionClient(s, route.source)
      second == IF route.backup = "none" THEN {} ELSE DecisionClient(s, route.backup) IN
  IF first = {} \/ (route.backup # "none" /\ second = {}) THEN {} ELSE first \cup second

----------------------------------------------------------------------------
(* The language model.                                                     *)

\* `llm_source`.
LlmSource(s) ==
  IF s.provider # "none" THEN s.provider
  ELSE IF HasUrl(s) THEN "custom"
  ELSE IF IsSet(s, "openrouter") THEN "openrouter" ELSE "gateway"

\* `extra_body`, and the fields a wire or its effort sets itself.
ExtraBodyTaken(s) == s.extra \notin {"malformed", "clash"}

\* `preset_url`: a hosted provider refuses another address, a resource must be
\* one of the provider's own, and a custom one must be named.
PresetUrl(s, p) ==
  LET endpoint == Preset(p).endpoint IN
  IF endpoint = "hosted" THEN IF HasUrl(s) THEN "refused" ELSE p
  ELSE IF endpoint = "resource" THEN IF s.llmUrl = "resource" THEN p ELSE "refused"
  ELSE IF HasUrl(s) THEN "named"
  ELSE IF endpoint = "local" THEN p ELSE "refused"

\* `preset_models`: the model named, or the preset's own default.
HasModel(s, p) == s.llmModel = "named" \/ Preset(p).model

\* `preset_llm` and `AnthropicLLM::new`.
PresetLlm(s, p) ==
  LET preset == Preset(p) IN
  IF \/ PresetUrl(s, p) = "refused"
     \/ preset.key = "own" /\ ~IsSet(s, "own")
     \/ ~HasModel(s, p) \/ ~ExtraBodyTaken(s)
     \/ s.effort # "unset" /\ ~preset.effort
     \/ s.effort = "off" /\ preset.wire = "messages"
  THEN {}
  ELSE {[key |-> IF preset.key = "own" THEN "own" ELSE IF IsSet(s, "local") THEN "local" ELSE "nobody",
         host |-> PresetUrl(s, p)]}

\* `llm` and `routed_llm`: OpenRouter, chosen because its key is set, has the
\* gateway behind it.
Llm(s) ==
  LET source == LlmSource(s) IN
  IF source \in Routers
  THEN IF (s.provider # "none" /\ HasUrl(s)) \/ ~IsSet(s, source) THEN {}
       ELSE {[key |-> source, host |-> source]}
              \cup (IF source = "openrouter" /\ s.provider = "none" /\ IsSet(s, "gateway")
                    THEN {[key |-> "gateway", host |-> "gateway"]} ELSE {})
  ELSE PresetLlm(s, source)

----------------------------------------------------------------------------
\* "that endpoint never receives the OpenRouter or gateway key", and "a
\* provider's key is sent to that provider's host alone": over every setting, a
\* key a client holds belongs to the host it is sent to.  A decision address
\* given for one source takes that source's key and no other.
KeysStayHome(s) ==
  /\ \A c \in Llm(s) : /\ c.key \in Routers => c.host = c.key
                       /\ c.key = "own" => c.host = s.provider
  /\ \A c \in Decision(s) :
       /\ c.key \in Jevs /\ c.host # "named" => c.host = c.key
       /\ \A d \in Decision(s) : c.host = "named" /\ d.host = "named" => c = d
=============================================================================
