----------------------------- MODULE LlmClients -----------------------------
(***************************************************************************)
(* Generations of the language models (fastbrowse-clients:                 *)
(* openai_compatible.rs, the retry loop of validation.rs, and              *)
(* FailoverLLMClient).  Each generation asks at most twice, repeating each *)
(* request through its retries, looks up what it was charged, and hands    *)
(* its cost lines to the run's ledger however it ends: answered, failed,   *)
(* or dropped at an await by `Billing::drop`.                              *)
(*                                                                         *)
(* A billed request costs Price, and the prices a router lists bound it by *)
(* Ceil.  A generation's cost lines are summed: dollars known, lines of    *)
(* unknown cost, physical requests.                                        *)
(***************************************************************************)
EXTENDS Integers, FiniteSets

CONSTANTS
  Gens,        \* generations of the run
  LlmRetries,  \* RETRY_DELAYS_SECONDS.len()
  Lookups,     \* how often a receipt or a price list is asked for (3)
  Price, Ceil, \* what a request is billed, and the listed bound on it
  LlmCap,      \* max_dollars
  LlmCallCap,  \* max_llm_calls
  Replies,     \* how a completion reads: "good", "cut_off" (by its finish reason, or
               \* mid-JSON), "empty", "invalid" against the schema, or "garbled" (an
               \* envelope without a readable finish reason)
  Shapes       \* "pair": OpenRouter with the gateway behind it; "single": one
               \* of them; "custom": a host that lists no prices

ASSUME LlmAssumption ==
  /\ IsFiniteSet(Gens)
  /\ LlmRetries \in Nat /\ Lookups \in Nat \ {0}
  /\ Price \in Nat /\ Ceil \in Nat /\ Price <= Ceil
  /\ LlmCap \in Nat /\ LlmCallCap \in Nat
  /\ Replies \subseteq {"good", "cut_off", "empty", "invalid", "garbled"}
  /\ Shapes \subseteq {"pair", "single", "custom"}

VARIABLES
  shape,        \* which clients the run was given
  gen,          \* each generation
  llmLedger,    \* the ledger's llm lines, summed
  llmCalls,     \* LedgerState.llm_calls
  llmOnBackup,  \* FailoverLLMClient.on_backup
  ceilings,     \* the hosts whose prices have been read and kept
  llmSent,      \* external: requests that reached a provider
  llmBilled     \* external: what the providers may bill for them

llmVars == <<shape, gen, llmLedger, llmCalls, llmOnBackup, ceilings, llmSent, llmBilled>>

Free == [known |-> 0, unknown |-> 0, reqs |-> 0]
Costs(a, b) == [known |-> a.known + b.known, unknown |-> a.unknown + b.unknown,
                reqs |-> a.reqs + b.reqs]

\* A generation at the start of its turns, on `who`.
Fresh(who) == [pc |-> "turn", who |-> who, turn |-> 0, requests |-> 0, lost |-> 0,
               costs |-> Free, open |-> 0, tries |-> 0, reply |-> "empty", error |-> "none"]
\* A generation that is over keeps nothing but how it ended.
Finished(how) == [Fresh("primary") EXCEPT !.pc = how]

LlmInit ==
  /\ shape \in Shapes
  /\ gen = [g \in Gens |-> [Fresh("primary") EXCEPT !.pc = "idle"]]
  /\ llmLedger = Free /\ llmCalls = 0 /\ llmOnBackup = FALSE /\ ceilings = {}
  /\ llmSent = 0 /\ llmBilled = 0

----------------------------------------------------------------------------
(* The ledger.                                                             *)

\* `Ledger::reserve` of one LLM call: the call cap, then `check_spend` (an
\* unknown line makes a dollar cap unenforceable), then spend at the cap.
LlmAffordable ==
  /\ llmCalls < LlmCallCap
  /\ llmLedger.unknown = 0
  /\ llmLedger.known < LlmCap

\* `Ledger::record` keeps the lines, then checks them.
RecordBreaks(lines) == lines.unknown > 0 \/ lines.known > LlmCap

----------------------------------------------------------------------------
(* Cost lines.                                                             *)

\* `charge_unanswered`: an unknown line per request without a response, and one
\* line of no cost for the responses that were refused.
Unanswered(requests, lost) == [known |-> 0, unknown |-> lost, reqs |-> requests]

\* Mutant: the requests that got no answer ride free.
AnsweredLineOnce(each, requests, lost) == [known |-> each, unknown |-> 0, reqs |-> requests]
\* `with_discarded` of a priced answer: each lost request is charged as it was.
AnsweredLine(each, requests, lost) ==
  [known |-> each * (1 + lost), unknown |-> 0, reqs |-> requests]

\* The same when the answer's own cost cannot be read.
UnreadLine(requests) == [known |-> 0, unknown |-> 1, reqs |-> requests]

\* `bound`: n unknown lines at the listed ceiling.
Bounded(costs, n) ==
  [known |-> costs.known + n * Ceil, unknown |-> costs.unknown - n, reqs |-> costs.reqs]

\* `listed_ceiling` asks only the two routers.
Lists == shape # "custom"

----------------------------------------------------------------------------
(* How a generation ends.                                                  *)

\* `billed` records what a failed generation cost, which may end it on the
\* budget instead.  A refused key alone moves the run to the backup
\* (`FailoverLLMClient::generate_value`), which is asked from the start.
GenFails(g, costs, error) ==
  LET total == Costs(llmLedger, costs)
      moves == /\ error = "rejected" /\ ~RecordBreaks(total)
               /\ shape = "pair" /\ gen[g].who = "primary" IN
  /\ llmLedger' = total
  /\ llmOnBackup' = (llmOnBackup \/ moves)
  /\ gen' = [gen EXCEPT ![g] = IF moves THEN Fresh("backup") ELSE Finished("failed")]

\* `generate_value`: the flag is read once, when the generation begins.
GenBegins(g) ==
  /\ gen[g].pc = "idle"
  /\ gen' = [gen EXCEPT ![g] = Fresh(IF llmOnBackup THEN "backup" ELSE "primary")]
  /\ UNCHANGED <<shape, llmLedger, llmCalls, llmOnBackup, ceilings, llmSent, llmBilled>>

\* A request leaves.
Flies(g) ==
  /\ gen' = [gen EXCEPT ![g].pc = "flying", ![g].requests = @ + 1]
  /\ llmCalls' = llmCalls + 1
  /\ llmSent' = llmSent + 1

\* A turn opens: reserved, then sent with usage of its own.
TurnOpens(g) ==
  /\ gen[g].pc = "turn"
  /\ \/ LlmAffordable /\ Flies(g) /\ UNCHANGED <<llmLedger, llmOnBackup>>
     \/ /\ ~LlmAffordable /\ GenFails(g, gen[g].costs, "budget")
        /\ UNCHANGED <<llmCalls, llmSent>>
  /\ UNCHANGED <<shape, ceilings, llmBilled>>

\* `turns` on an error from `request`: the attempt's requests are charged, and
\* what is unknown is priced from the listed ceiling before the error returns.
GivesUp(g, lost, error) ==
  LET costs == Costs(gen[g].costs, Unanswered(gen[g].requests, lost)) IN
  IF lost = 0 \/ ~Lists
  THEN GenFails(g, costs, error)
  ELSE /\ gen' = [gen EXCEPT ![g].pc = "pricing", ![g].costs = costs, ![g].open = lost,
                             ![g].error = error, ![g].requests = 0, ![g].lost = 0]
       /\ UNCHANGED <<llmLedger, llmOnBackup>>

\* Mutant: a repeat is not reserved.
RetryFliesUnreserved(g) ==
  /\ gen[g].pc = "backoff"
  /\ Flies(g) /\ UNCHANGED <<llmLedger, llmOnBackup>>
  /\ UNCHANGED <<shape, ceilings, llmBilled>>
\* The wait is over: `before_retry` reserves every repeat.
RetryFlies(g) ==
  /\ gen[g].pc = "backoff"
  /\ \/ LlmAffordable /\ Flies(g) /\ UNCHANGED <<llmLedger, llmOnBackup>>
     \/ ~LlmAffordable /\ GivesUp(g, gen[g].lost, "budget") /\ UNCHANGED <<llmCalls, llmSent>>
  /\ UNCHANGED <<shape, ceilings, llmBilled>>

\* `post_with_retry`: a response worth repeating, or none, waits for the next
\* attempt while there is one.
NotAnswered(g, lost) ==
  /\ IF gen[g].requests <= LlmRetries
     THEN /\ gen' = [gen EXCEPT ![g].pc = "backoff", ![g].lost = lost]
          /\ UNCHANGED <<llmLedger, llmOnBackup>>
     ELSE GivesUp(g, lost, "exhausted")
  /\ UNCHANGED <<shape, llmCalls, ceilings, llmSent>>

LlmOverloaded(g) == gen[g].pc = "flying" /\ NotAnswered(g, gen[g].lost) /\ UNCHANGED llmBilled
LlmSilent(g) ==
  /\ gen[g].pc = "flying" /\ NotAnswered(g, gen[g].lost + 1)
  /\ llmBilled' = llmBilled + Price

\* `request`: a response that ends the generation.  A success that cannot be
\* read, like a failed transport, may have been billed.
LlmRefused(g) ==
  /\ gen[g].pc = "flying"
  /\ \/ /\ \E error \in {"rejected", "failed"} : GivesUp(g, gen[g].lost, error)
        /\ UNCHANGED llmBilled
     \/ /\ GivesUp(g, gen[g].lost + 1, "failed")
        /\ llmBilled' = llmBilled + Price
  /\ UNCHANGED <<shape, llmCalls, ceilings, llmSent>>

----------------------------------------------------------------------------
(* A completion, its receipt and its judgement.                            *)

\* The completion's line replaces the attempt's usage.
Priced(g, line) == [gen[g] EXCEPT !.costs = Costs(@, line), !.requests = 0, !.lost = 0,
                                  !.tries = 0, !.pc = "judge"]

\* A completion arrives.  Its usage may state no cost; then its receipt is
\* looked up by its id, where the host keeps one.
LlmAnswers(g) ==
  /\ gen[g].pc = "flying"
  /\ \E reply \in Replies, stated \in BOOLEAN, named \in BOOLEAN :
       gen' = [gen EXCEPT ![g] =
         IF stated
         THEN [Priced(g, AnsweredLine(Price, gen[g].requests, gen[g].lost)) EXCEPT !.reply = reply]
         ELSE [gen[g] EXCEPT !.reply = reply,
                 !.pc = IF ~Lists THEN "unpriced" ELSE IF named THEN "receipt" ELSE "ceiling"]]
  /\ llmBilled' = llmBilled + Price
  /\ UNCHANGED <<shape, llmLedger, llmCalls, llmOnBackup, ceilings, llmSent>>

\* `receipt_cost`: a receipt settles the charge, names another generation
\* (`Distrusted`), or is not ready; at most Lookups are asked for.
Receipt(g) ==
  /\ gen[g].pc = "receipt"
  /\ \E found \in {"settled", "distrusted", "again"} :
       gen' = [gen EXCEPT ![g] =
         CASE found = "settled" -> Priced(g, AnsweredLine(Price, gen[g].requests, gen[g].lost))
           [] found = "again" /\ gen[g].tries # Lookups - 1 -> [gen[g] EXCEPT !.tries = @ + 1]
           [] OTHER -> [gen[g] EXCEPT !.pc = "ceiling", !.tries = 0]]
  /\ UNCHANGED <<shape, llmLedger, llmCalls, llmOnBackup, ceilings, llmSent, llmBilled>>

\* `listed_ceiling`: kept once read; otherwise asked for up to Lookups times.  A
\* list that states no bound ends the search.  `Found` and `None` say what follows.
CeilingLookup(g, found, none) ==
  \/ /\ \/ gen[g].who \in ceilings /\ UNCHANGED ceilings
        \/ gen[g].who \notin ceilings /\ ceilings' = ceilings \cup {gen[g].who}
     /\ gen' = [gen EXCEPT ![g] = found]
  \/ /\ gen[g].who \notin ceilings /\ UNCHANGED ceilings
     /\ \/ gen[g].tries < Lookups - 1 /\ gen' = [gen EXCEPT ![g].tries = @ + 1]
        \/ gen' = [gen EXCEPT ![g] = none]

\* `settled_cost` of an answer without a receipt.
AnswerBounded(g) ==
  /\ gen[g].pc = "ceiling"
  /\ CeilingLookup(g, Priced(g, AnsweredLine(Ceil, gen[g].requests, gen[g].lost)),
                      Priced(g, UnreadLine(gen[g].requests)))
  /\ UNCHANGED <<shape, llmLedger, llmCalls, llmOnBackup, llmSent, llmBilled>>

\* No router, no list: the charge stays unknown.
AnswerUnpriced(g) ==
  /\ gen[g].pc = "unpriced"
  /\ gen' = [gen EXCEPT ![g] = Priced(g, UnreadLine(gen[g].requests))]
  /\ UNCHANGED <<shape, llmLedger, llmCalls, llmOnBackup, ceilings, llmSent, llmBilled>>

\* `settle_unanswered`: line by line.
UnansweredBounded(g) ==
  /\ gen[g].pc = "pricing" /\ gen[g].open > 0
  /\ LET rest == [gen[g] EXCEPT !.open = @ - 1, !.tries = 0] IN
     CeilingLookup(g, [rest EXCEPT !.costs = Bounded(gen[g].costs, 1)], rest)
  /\ UNCHANGED <<shape, llmLedger, llmCalls, llmOnBackup, llmSent, llmBilled>>

PricedFails(g) ==
  /\ gen[g].pc = "pricing" /\ gen[g].open = 0
  /\ GenFails(g, gen[g].costs, gen[g].error)
  /\ UNCHANGED <<shape, llmCalls, ceilings, llmSent, llmBilled>>

\* A second turn follows the first, if the first could be read at all.
AsksAgain(g) == gen[g].turn = 0 /\ gen[g].reply # "garbled"

\* `turns`, once the reply is priced.  A good one returns its total, which the
\* caller records; a cut off, empty or invalid one is asked for once more, and a
\* garbled one is not.
Judge(g) ==
  /\ gen[g].pc = "judge"
  /\ \/ /\ gen[g].reply = "good"
        /\ llmLedger' = Costs(llmLedger, gen[g].costs)
        /\ gen' = [gen EXCEPT ![g] = Finished("ok")]
        /\ UNCHANGED llmOnBackup
     \/ /\ gen[g].reply # "good" /\ AsksAgain(g)
        /\ gen' = [gen EXCEPT ![g].pc = "turn", ![g].turn = 1]
        /\ UNCHANGED <<llmLedger, llmOnBackup>>
     \/ /\ gen[g].reply # "good" /\ ~AsksAgain(g)
        /\ GenFails(g, gen[g].costs, "failed")
  /\ UNCHANGED <<shape, llmCalls, ceilings, llmSent, llmBilled>>

\* `Billing::drop`.  An attempt in flight is charged as unanswered, bounded only
\* by prices already read; a completion is on the list before its receipt is
\* waited for, at the cost its usage stated: unknown.  No budget is checked.
GenDropped(g) ==
  LET me     == gen[g]
      flying == IF me.pc = "flying" THEN 1 ELSE 0
      lost   == me.lost + flying
      open   == CASE me.pc \in {"flying", "backoff"} ->
                       IF me.who \in ceilings THEN Bounded(Unanswered(me.requests, lost), lost)
                       ELSE Unanswered(me.requests, lost)
                  [] me.pc \in {"receipt", "ceiling", "unpriced"} -> UnreadLine(me.requests)
                  [] OTHER -> Free IN
  /\ me.pc \in {"flying", "backoff", "receipt", "ceiling", "pricing"}
  /\ llmLedger' = Costs(llmLedger, Costs(me.costs, open))
  /\ llmBilled' = llmBilled + flying * Price
  /\ gen' = [gen EXCEPT ![g] = Finished("dropped")]
  /\ UNCHANGED <<shape, llmCalls, llmOnBackup, ceilings, llmSent>>

GenStep(g) ==
  \/ GenBegins(g) \/ TurnOpens(g) \/ RetryFlies(g) \/ LlmOverloaded(g) \/ LlmSilent(g)
  \/ LlmRefused(g) \/ LlmAnswers(g) \/ Receipt(g) \/ AnswerBounded(g) \/ AnswerUnpriced(g)
  \/ UnansweredBounded(g) \/ PricedFails(g) \/ Judge(g)

LlmNext == \E g \in Gens : GenStep(g) \/ GenDropped(g)

LlmSpec == LlmInit /\ [][LlmNext]_llmVars

\* Steps that come of themselves: an attempt is answered or falls silent.
LlmProgress == \E g \in Gens : GenStep(g)

----------------------------------------------------------------------------
(* Properties.                                                             *)

Over(g) == gen[g].pc \in {"ok", "failed", "dropped"}
AllOver == \A g \in Gens : Over(g) \/ gen[g].pc = "idle"

\* Every physical request is on the ledger once, whichever of the endings each
\* generation meets, wherever it was dropped, and across a switch of provider.
RequestsOnLedger == AllOver => llmLedger.reqs = llmSent

\* Requests that lost their answer, receipts that never came and completions
\* that could not be read are priced from other things than the bill; the
\* ledger still never claims less than the bill without an unknown line.
NeverUnderstated == AllOver /\ llmLedger.unknown = 0 => llmLedger.known >= llmBilled

\* Once the ledger holds a line nobody can price, no generation of the run
\* sends another request, the repeats of one already under way included.
UnpricedStopsSpending == [][llmLedger.unknown > 0 => llmSent' = llmSent]_llmVars

\* A generation: every request it sent is on the ledger by the time it is over,
\* and never for less than its bill unless a line says the cost is unknown
\* (openai_compatible.rs, anthropic.rs).
LlmReceipts == RequestsOnLedger /\ NeverUnderstated
=============================================================================
