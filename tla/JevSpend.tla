------------------------------ MODULE JevSpend ------------------------------
(***************************************************************************)
(* What a pass of Jev questions is billed.  A pass                         *)
(* (fastbrowse-agent/src/batches.rs) sends its batches side by side; each  *)
(* goes through the failover client (fastbrowse-clients/src/failover.rs),  *)
(* which asks one provider and then its backup; a provider's call          *)
(* (validation.rs) repeats a request, and splits a batch that keeps        *)
(* failing into single questions.  Every level holds what it has paid so   *)
(* far in a list of its own, handed upwards when the level ends, is        *)
(* dropped or fails; the run's ledger is what the user sees.               *)
(*                                                                         *)
(* Money is counted in requests: a request costs one unit, and a receipt   *)
(* list counts the requests answered (`got`) and those whose response was  *)
(* lost and which may have been billed all the same (`lost`).              *)
(***************************************************************************)
EXTENDS Integers, FiniteSets, FiniteSetsExt, Functions

CONSTANTS
  Calls,        \* the batches of the pass
  QuestionsOf,  \* how many questions each holds
  Retries,      \* RETRY_DELAYS_SECONDS.len()
  HasBackup,    \* a backup provider is configured
  AllowFailed,  \* allow_failed_batches
  JevCap,       \* max_dollars
  Spent         \* bound: what the ledger may hold before the pass

ASSUME JevAssumption ==
  /\ IsFiniteSet(Calls)
  /\ QuestionsOf \in [Calls -> Nat \ {0}]
  /\ Retries \in Nat \ {0} /\ JevCap \in Nat /\ Spent \in Nat
  /\ HasBackup \in BOOLEAN /\ AllowFailed \in BOOLEAN

VARIABLES
  pass,      \* "new", "open", then "over" or "refused"
  ledger,    \* LedgerState.lines
  paid,      \* Spent.paid: what the answered batches cost
  onBackup,  \* FailoverDecisionClient.on_backup
  pc,        \* where each call stands
  client,    \* the provider it asks
  split,     \* whether it asks its questions one at a time
  todo,      \* questions this provider has not answered
  start,     \* start_attempt of the request under way
  usage,     \* RequestUsage of the request under way
  carried,   \* unaccounted requests of the batch that was split
  singles,   \* asking_split's list
  held,      \* the failover client's list
  receipt,   \* the batch's list in the pass
  sent,      \* requests sent, by provider
  billed,    \* external: what the providers may bill for the pass
  waived     \* the call dropped requests it does not charge (see ReceiptsKept)

call == <<pc, client, split, todo, start, usage, carried, singles, held, receipt, sent, waived>>
vars == <<pass, ledger, paid, onBackup, billed, call>>

Providers == {"primary", "backup"}
Receipts  == [got : Nat, lost : Nat]
Nothing   == [got |-> 0, lost |-> 0]
Lost(n)   == [got |-> 0, lost |-> n]
Plus(a, b) == [got |-> a.got + b.got, lost |-> a.lost + b.lost]
Total(a)  == a.got + a.lost
NoUsage   == [requests |-> 0, fives |-> 0, lost |-> 0]
InCall(c) == pc[c] \in {"asking", "flying"}
Summed(lists) == [got  |-> SumFunctionOnSet([c \in Calls |-> lists[c].got], Calls),
                  lost |-> SumFunctionOnSet([c \in Calls |-> lists[c].lost], Calls)]

TypeOK ==
  /\ pass \in {"new", "open", "over", "refused"}
  /\ ledger \in Receipts /\ paid \in Receipts /\ billed \in Receipts
  /\ onBackup \in BOOLEAN
  /\ pc \in [Calls -> {"idle", "asking", "flying", "ok", "failed", "dropped"}]
  /\ client \in [Calls -> Providers] /\ split \in [Calls -> BOOLEAN]
  /\ todo \in [Calls -> Nat] /\ start \in [Calls -> 0..Retries]
  /\ usage \in [Calls -> [requests : 0..Retries + 1, fives : Nat, lost : Nat]]
  /\ carried \in [Calls -> Nat]
  /\ singles \in [Calls -> Receipts] /\ held \in [Calls -> Receipts]
  /\ receipt \in [Calls -> Receipts]
  /\ sent \in [Calls -> [Providers -> Nat]] /\ waived \in [Calls -> BOOLEAN]

Init ==
  /\ pass = "new" /\ ledger \in {[got |-> n, lost |-> 0] : n \in 0..Spent}
  /\ paid = Nothing /\ billed = ledger /\ onBackup = FALSE
  /\ pc = [c \in Calls |-> "idle"] /\ client = [c \in Calls |-> "primary"]
  /\ split = [c \in Calls |-> FALSE] /\ todo = QuestionsOf
  /\ start = [c \in Calls |-> 0] /\ usage = [c \in Calls |-> NoUsage]
  /\ carried = [c \in Calls |-> 0]
  /\ singles = [c \in Calls |-> Nothing] /\ held = [c \in Calls |-> Nothing]
  /\ receipt = [c \in Calls |-> Nothing]
  /\ sent = [c \in Calls |-> [p \in Providers |-> 0]]
  /\ waived = [c \in Calls |-> FALSE]

----------------------------------------------------------------------------
(* The ledger.                                                             *)

\* `Ledger::reserve` of the whole pass, before any of it is sent.
Reserve ==
  /\ pass = "new"
  /\ pass' = IF Total(ledger) + Cardinality(Calls) > JevCap THEN "refused" ELSE "open"
  /\ UNCHANGED <<ledger, paid, onBackup, billed, call>>

\* `check_jev_spend`: one more request beside the ledger and every list a call
\* under way holds.
Affordable ==
  LET lists == [c \in Calls |-> IF InCall(c) THEN Plus(receipt[c], Plus(held[c], singles[c])) ELSE Nothing]
  IN  Total(ledger) + Total(Summed(lists)) + 1 <= JevCap

----------------------------------------------------------------------------
(* One call.                                                               *)

\* A provider is asked a batch of n questions from a fresh start.
AskFrom(c, provider, n) ==
  /\ pc' = [pc EXCEPT ![c] = "asking"]
  /\ client' = [client EXCEPT ![c] = provider]
  /\ todo' = [todo EXCEPT ![c] = n]
  /\ split' = [split EXCEPT ![c] = FALSE]
  /\ start' = [start EXCEPT ![c] = 0]
  /\ usage' = [usage EXCEPT ![c] = NoUsage]
  /\ carried' = [carried EXCEPT ![c] = 0]
  /\ singles' = [singles EXCEPT ![c] = Nothing]

\* `switching` reads which provider the run is on once, when the call begins.
Begin(c) ==
  /\ pass = "open" /\ pc[c] = "idle"
  /\ AskFrom(c, IF onBackup THEN "backup" ELSE "primary", QuestionsOf[c])
  /\ UNCHANGED <<pass, ledger, paid, onBackup, billed, held, receipt, sent, waived>>

\* The call is over: its lists are emptied into the one above.
Ends(c, how) ==
  /\ pc' = [pc EXCEPT ![c] = how]
  /\ held' = [held EXCEPT ![c] = Nothing] /\ singles' = [singles EXCEPT ![c] = Nothing]
  /\ usage' = [usage EXCEPT ![c] = NoUsage] /\ carried' = [carried EXCEPT ![c] = 0]
  /\ UNCHANGED <<client, split, start>>

\* Mutant: the answered singles go with the call that failed.
UnwoundForgetful(c, kept) == Plus(held[c], kept)
\* What an unfinished call hands its failover client: the unanswered requests
\* `CancelledJev` keeps, after the singles answered before it (`PaidOnDrop`, and
\* the same on an error).
Unwound(c, kept) == Plus(held[c], IF split[c] THEN Plus(singles[c], kept) ELSE kept)

\* `post` failed with u used.  `keep` says whether CancelledJev is armed.  A
\* refused key and spent retries move the run to the backup, which is asked
\* what is still open (after a refused key, everything).
PostFails(c, u, error, keep) ==
  LET up == Unwound(c, IF keep THEN Lost(u.lost) ELSE Nothing) IN
  /\ waived' = [waived EXCEPT ![c] = @ \/ carried[c] > 0 \/ (~keep /\ u.lost > 0)]
  /\ \/ /\ error \in {"exhausted", "rejected"} /\ HasBackup /\ client[c] = "primary"
        /\ onBackup' = TRUE
        /\ AskFrom(c, "backup", IF error = "rejected" THEN QuestionsOf[c] ELSE todo[c])
        /\ held' = [held EXCEPT ![c] = up]
        /\ UNCHANGED receipt
     \/ /\ ~(error \in {"exhausted", "rejected"} /\ HasBackup /\ client[c] = "primary")
        /\ Ends(c, "failed")
        /\ receipt' = [receipt EXCEPT ![c] = Plus(@, up)]
        /\ UNCHANGED <<onBackup, todo>>
  /\ UNCHANGED <<pass, ledger, paid, sent>>

\* A request goes out, priced before each attempt.
Send(c) ==
  /\ pc[c] = "asking" /\ Affordable
  /\ pc' = [pc EXCEPT ![c] = "flying"]
  /\ usage' = [usage EXCEPT ![c].requests = @ + 1]
  /\ sent' = [sent EXCEPT ![c][client[c]] = @ + 1]
  /\ UNCHANGED <<pass, ledger, paid, onBackup, billed, client, split, todo, start, carried,
                 singles, held, receipt, waived>>

\* A request the run cannot afford is not sent: the call ends on the budget.
OverBudget(c) ==
  /\ pc[c] = "asking" /\ ~Affordable
  /\ PostFails(c, usage[c], "failed", TRUE)
  /\ UNCHANGED billed

\* `with_discarded`: an answer is charged with the requests lost before it.
AnswerLine(u) == [got |-> 1, lost |-> u.lost]

\* Each request consumes a retry; later questions keep only their first attempt.
NextStart(s, u) == Min({Retries, s + u.requests - 1})

\* A usable answer, of the batch or of the single asked.  The result carries
\* what its provider and the one before it were paid.
Answered(c) ==
  /\ pc[c] = "flying"
  /\ LET line == AnswerLine(usage[c])
         mine == Plus(singles[c], line) IN
     /\ billed' = [billed EXCEPT !.got = @ + 1]
     /\ IF split[c] /\ todo[c] > 1
        THEN /\ pc' = [pc EXCEPT ![c] = "asking"]
             /\ singles' = [singles EXCEPT ![c] = mine]
             /\ todo' = [todo EXCEPT ![c] = @ - 1]
             /\ start' = [start EXCEPT ![c] = NextStart(@, usage[c])]
             /\ usage' = [usage EXCEPT ![c] = NoUsage]
             /\ UNCHANGED <<paid, client, split, carried, held>>
        ELSE /\ Ends(c, "ok")
             /\ todo' = [todo EXCEPT ![c] = 0]
             /\ paid' = Plus(paid, Plus(held[c], Plus(mine, Lost(carried[c]))))
  /\ UNCHANGED <<pass, ledger, onBackup, receipt, sent, waived>>

\* A response that ends the call: the input too large, the key refused, another
\* error, or a success whose body is no answer.  Nothing is charged for it.
TurnedAway(c) ==
  /\ pc[c] = "flying"
  /\ \E error \in {"failed", "rejected"} : PostFails(c, usage[c], error, FALSE)
  /\ UNCHANGED billed

\* A transport failure no repeat can clear.
Fatal(c) ==
  /\ pc[c] = "flying"
  /\ PostFails(c, [usage[c] EXCEPT !.lost = @ + 1], "failed", TRUE)
  /\ billed' = [billed EXCEPT !.lost = @ + 1]

\* Attempts run from the start the request was given to the schedule's end.
AttemptsLeft(c, u) == start[c] + u.requests - 1 < Retries

\* The request came to nothing that counts: give up, split, or wait and repeat.
Retry(c, u, responded) ==
  \/ /\ ~AttemptsLeft(c, u)
     /\ PostFails(c, u, IF responded THEN "exhausted" ELSE "failed", TRUE)
  \/ /\ AttemptsLeft(c, u)
     /\ pc' = [pc EXCEPT ![c] = "asking"]
     /\ IF ~split[c] /\ todo[c] > 1 /\ u.fives >= 2
        THEN /\ split' = [split EXCEPT ![c] = TRUE]
             /\ start' = [start EXCEPT ![c] = @ + u.requests]
             /\ carried' = [carried EXCEPT ![c] = u.lost]
             /\ usage' = [usage EXCEPT ![c] = NoUsage]
        ELSE /\ usage' = [usage EXCEPT ![c] = u]
             /\ UNCHANGED <<split, start, carried>>
     /\ UNCHANGED <<pass, ledger, paid, onBackup, client, todo, singles, held, receipt, sent,
                    waived>>

\* 429 and its like, or a 5xx.
Overloaded(c) ==
  /\ pc[c] = "flying"
  /\ \E five \in BOOLEAN :
       Retry(c, [usage[c] EXCEPT !.fives = IF five THEN @ + 1 ELSE 0], TRUE)
  /\ UNCHANGED billed

\* No response within the attempt's deadline.
Silent(c) ==
  /\ pc[c] = "flying"
  /\ Retry(c, [requests |-> usage[c].requests, fives |-> 0, lost |-> usage[c].lost + 1], FALSE)
  /\ billed' = [billed EXCEPT !.lost = @ + 1]

CallStep(c) == \/ Begin(c) \/ Send(c) \/ OverBudget(c) \/ Answered(c) \/ TurnedAway(c)
               \/ Fatal(c) \/ Overloaded(c) \/ Silent(c)

----------------------------------------------------------------------------
(* The end of the pass.                                                    *)

\* What a call dropped where it stands leaves in its batch's list: `InFlight`
\* counts the request in the air.
InAir(c) == IF pc[c] = "flying" THEN 1 ELSE 0
Dropped(c) ==
  IF InCall(c) THEN Plus(receipt[c], Unwound(c, Lost(usage[c].lost + InAir(c)))) ELSE receipt[c]

\* `Billing::drop` runs after the calls are gone.
Flushed == Summed([c \in Calls |-> Dropped(c)])

\* The calls still under way are dropped, then `Billing` hands the ledger what
\* the batches returned and what their lists hold.
Close ==
  /\ pass' = "over"
  /\ ledger' = Plus(ledger, Plus(paid, Flushed))
  /\ paid' = Nothing
  /\ billed' = [billed EXCEPT !.lost = @ + SumFunctionOnSet([c \in Calls |-> InAir(c)], Calls)]
  /\ pc' = [c \in Calls |-> IF InCall(c) \/ pc[c] = "idle" THEN "dropped" ELSE pc[c]]
  /\ held' = [c \in Calls |-> Nothing] /\ singles' = [c \in Calls |-> Nothing]
  /\ receipt' = [c \in Calls |-> Nothing] /\ usage' = [c \in Calls |-> NoUsage]
  /\ waived' = [c \in Calls |-> waived[c] \/ (InCall(c) /\ carried[c] > 0)]
  /\ carried' = [c \in Calls |-> 0]
  /\ UNCHANGED <<onBackup, client, split, todo, start, sent>>

\* Every batch is back, or one failed that the pass cannot do without.
PassEnds ==
  /\ pass = "open"
  /\ \/ \A c \in Calls : pc[c] \in {"ok", "failed"}
     \/ ~AllowFailed /\ \E c \in Calls : pc[c] = "failed"
  /\ Close

\* The run's deadline, a redrawn page or a cancel drops the pass.
PassDropped == pass = "open" /\ Close

----------------------------------------------------------------------------
Next == \/ Reserve \/ PassEnds \/ PassDropped
        \/ pass = "open" /\ \E c \in Calls : CallStep(c)

Spec == Init /\ [][Next]_vars

\* Steps that come of themselves: an attempt is answered or times out.
Progress == Reserve \/ PassEnds \/ (pass = "open" /\ \E c \in Calls : CallStep(c))

----------------------------------------------------------------------------
(* Properties.                                                             *)

\* However the pass ends (answers, errors, failover, a drop between any two
\* awaits), each answered request is on the ledger once, and only when the
\* lists are handed over; nothing is charged twice.
PaidOnce ==
  /\ pass = "over" => ledger.got = billed.got
  /\ ledger.got <= billed.got /\ ledger.lost <= billed.lost

\* A request whose response was lost is charged, unless the call waived it: its
\* batch was split and then failed or was dropped, or a response it could not
\* use ended it.
ReceiptsKept ==
  pass = "over" /\ (\A c \in Calls : ~waived[c]) => ledger.lost = billed.lost

\* However a batch is split and repeated, one provider sees at most Retries
\* requests more than the batch has questions.
RequestsBounded ==
  \A c \in Calls : \A p \in Providers : sent[c][p] <= Retries + QuestionsOf[c]

\* A pass of Jev questions: each request that was billed is on the ledger once,
\* through errors, splits, the failover and a drop at any await, and a failing
\* provider is asked no more often than its attempts allow (validation.rs,
\* failover.rs, batches.rs).
JevReceipts == TypeOK /\ PaidOnce /\ ReceiptsKept /\ RequestsBounded
=============================================================================
