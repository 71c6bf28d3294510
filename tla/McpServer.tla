------------------------------ MODULE McpServer ------------------------------
(***************************************************************************)
(* `fastbrowse-mcp` (crates/fastbrowse-cli/src/mcp): one `browse` tool over *)
(* stdio or streamable HTTP.  The setup is checked before the first call;   *)
(* each tools/call is a task of its own that waits for a slot, runs, and is *)
(* answered once: by its result, by the deadline with its grace, or at once *)
(* when the client cancels it, while the run goes on closing its browser.   *)
(*                                                                         *)
(* The run is what the server sees of it: it reports steps, ends by itself  *)
(* or after its Cancel is tripped, or (`hangs`) never.  A dropped run holds *)
(* nothing more of the server's.                                            *)
(***************************************************************************)
EXTENDS Safety

CONSTANTS
  Setups,       \* what the operator starts the server with
  Browses,      \* the calls the client makes, a sequence of their arguments
  Wire,         \* the HTTP requests the client may send
  MaxProgress   \* bound: steps one run reports

ASSUME McpAssumption ==
  /\ MaxProgress \in Nat
  /\ \A a \in Setups : a.concurrent \in Nat
  /\ DOMAIN Browses = 1..Len(Browses) /\ Len(Browses) \in Nat

VARIABLES
  conf,   \* ServerConfig, once `configure` accepted it
  mses,   \* the client's session: known to Http, initialized, its calls in flight by id
  call,   \* each tools/call
  slots,  \* the semaphore: permits left, and the calls waiting, in order
  posted  \* how many of Browses the client has sent

mvars == <<conf, mses, call, slots, posted>>

----------------------------------------------------------------------------
(* The setup.                                                              *)

OnCloud(a) == ~(a.extension \/ a.local \/ a.headed \/ a.profile)
\* `fastbrowse_run::check`, for the options every call shares.
CheckOperator(a) == a.extension \/ ~OnCloud(a) => ~a.cloudProfile /\ (a.extension => ~(a.local \/ a.headed \/ a.profile))
\* A secret's origin is required; names may repeat, a name for one origin may not.
SecretFlags(a) == \A i, j \in DOMAIN a.secrets : i # j => <<a.secrets[i].name, a.secrets[i].origin>> # <<a.secrets[j].name, a.secrets[j].origin>>
\* What a run would find missing on its first model call or browser start.
Environment(a) == (IF OnCloud(a) THEN a.key ELSE a.chrome) /\ a.models

\* Everything that can be wrong with the setup, before the first call.
Configure(a) ==
  /\ a.concurrent >= 1 /\ a.above0 /\ CheckOperator(a)
  /\ ~(~OnCloud(a) /\ a.profile /\ a.concurrent > 1)
  /\ \A i \in DOMAIN a.secrets : a.secrets[i].set
  /\ SecretFlags(a)
  /\ a.http /\ ~a.token => a.loopback
  /\ Environment(a)

----------------------------------------------------------------------------
(* HTTP.  What `Http::handle` and `transport` do with one request.          *)

Admitted(r) == ~conf.token \/ r.bearer \/ r.path = "health"
Transport(r) ==
  /\ r.path = "mcp" /\ (r.session = "ours" => mses.known) /\ r.session # "unknown"
  /\ r.method = "POST" => r.json
  /\ conf.loopback => r.host /\ r.origin
\* Only initialize comes without a session; the rest name one, and a version.
Headers(r) == r.session = "ours" /\ r.version
Posts(r, initializing) ==
  /\ Admitted(r) /\ Transport(r) /\ r.method = "POST" /\ r.accepts
  /\ initializing \/ Headers(r)
Reaches(initializing) == ~conf.http \/ \E r \in Wire : Posts(r, initializing)

----------------------------------------------------------------------------
(* JSON-RPC.                                                               *)

\* A well-formed initialize opens the session; one with the wrong parameters is
\* refused, and over HTTP opens it all the same.
Initialize ==
  /\ Reaches(TRUE) /\ ~mses.initialized
  /\ \E ok \in BOOLEAN : mses' = [mses EXCEPT !.known = TRUE, !.initialized = ok]
  /\ UNCHANGED <<conf, call, slots, posted>>
Initialized ==
  /\ Reaches(FALSE) /\ mses.known /\ mses' = [mses EXCEPT !.initialized = TRUE]
  /\ UNCHANGED <<conf, call, slots, posted>>
\* DELETE forgets the session; its calls go on.
DeleteSession ==
  /\ conf.http /\ \E r \in Wire : Admitted(r) /\ Transport(r) /\ r.method = "DELETE" /\ Headers(r)
  /\ mses' = [mses EXCEPT !.known = FALSE]
  /\ UNCHANGED <<conf, call, slots, posted>>

NewCall(b) ==
  [at |-> "spawned", id |-> b.id, cancel |-> FALSE, stop |-> FALSE, open |-> TRUE, live |-> FALSE, outcome |-> "none",
   grace |-> FALSE, told |-> <<>>, offered |-> {}]
\* The client reuses an id only once its earlier call was answered.
Reusable(id) == \A c \in DOMAIN call : call[c].id = id => "reply" \in Range(call[c].told)
ToolsCall ==
  /\ posted < Len(Browses) /\ Reaches(FALSE) /\ mses.known /\ mses.initialized
  /\ LET b == Browses[posted + 1] IN
       /\ Reusable(b.id)
       /\ call' = Append(call, NewCall(b))
       /\ mses' = [mses EXCEPT !.inFlight = [i \in DOMAIN @ \cup {b.id} |-> IF i = b.id THEN Len(call) + 1 ELSE @[i]]]
  /\ posted' = posted + 1
  /\ UNCHANGED <<conf, slots>>

\* notifications/cancelled trips the Cancel in_flight holds under that id.
Cancelled(id) ==
  /\ Reaches(FALSE) /\ mses.known /\ id \in DOMAIN mses.inFlight
  /\ call' = [call EXCEPT ![mses.inFlight[id]].cancel = TRUE]
  /\ UNCHANGED <<conf, mses, slots, posted>>

----------------------------------------------------------------------------
(* One call.                                                               *)

In2(c, places) == call[c].at \in places
Set2(c, new) == call' = [call EXCEPT ![c] = new]
\* A task that ended: its Cancels and its future are gone with it.
Gone(k) == [k EXCEPT !.at = "gone", !.live = FALSE, !.open = FALSE, !.cancel = FALSE, !.stop = FALSE, !.grace = FALSE, !.outcome = "none", !.offered = {}]
CallOutcome(c, what) == IF In2(c, {"winding"}) THEN Gone(call[c]) ELSE [call[c] EXCEPT !.outcome = what, !.at = "returned", !.live = FALSE]
Browsed(c) == Browses[c]

\* Browse::read, start_origin, authorize and the vault item's name.
Readable(b) == b.tool /\ b.valid /\ b.start # "bad" /\ (b.authorize => conf.authorize) /\ (b.item # "none" => b.start # "none" /\ b.item = "offered")

\* `call_secrets`.  The names declared for this origin, then the values of every
\* secret of those names, the last declared winning.
CallSecrets(here) ==
  LET declared == {s \in Range(conf.secrets) : SecretAllowed({s.origin}, here)}
      names == {s.name : s \in declared}
      Lasting(n) == conf.secrets[Max({i \in DOMAIN conf.secrets : conf.secrets[i].name = n})]
      Scope(n) == conf.secrets[Max({i \in DOMAIN conf.secrets : conf.secrets[i] \in declared /\ conf.secrets[i].name = n})].origin
  IN {[name |-> n, value |-> Lasting(n), origins |-> {Scope(n)}] : n \in names}
Clash(b, offered) == b.item # "none" /\ \E s \in offered : s.name = "password"

\* A call is refused, or joins the queue for a slot.
CallChecks(c) ==
  /\ In2(c, {"spawned", "winding"}) /\ ~call[c].live /\ call[c].outcome = "none" /\ c \notin Range(slots.waiting)
  /\ LET b == Browsed(c)
         offered == IF b.start \in {"none", "bad"} THEN {} ELSE CallSecrets(b.origin)
     IN IF Readable(b) /\ ~Clash(b, offered)
        THEN /\ Set2(c, [call[c] EXCEPT !.offered = offered, !.told = IF slots.free = 0 /\ call[c].open THEN Append(@, "waiting") ELSE @])
             /\ slots' = [slots EXCEPT !.waiting = Append(@, c)]
        ELSE Set2(c, CallOutcome(c, "refused")) /\ UNCHANGED slots
  /\ UNCHANGED <<conf, mses, posted>>

Acquire(c) ==
  /\ slots.waiting # <<>> /\ Head(slots.waiting) = c /\ slots.free > 0
  /\ slots' = [free |-> slots.free - 1, waiting |-> Tail(slots.waiting)]
  /\ Set2(c, [call[c] EXCEPT !.live = TRUE])
  /\ UNCHANGED <<conf, mses, posted>>

\* The permit goes back, and a task that is dropped leaves the queue.
Leaving(c) == IF c \in Range(slots.waiting) THEN RemoveAt(slots.waiting, CHOOSE i \in DOMAIN slots.waiting : slots.waiting[i] = c) ELSE slots.waiting
Release(c) == [free |-> slots.free + (IF call[c].live THEN 1 ELSE 0), waiting |-> Leaving(c)]

\* A step is told to a call that asked for progress and is not answered yet.
Progress(c) ==
  /\ call[c].live /\ Browsed(c).token /\ Len(call[c].told) < MaxProgress + 1
  /\ Set2(c, IF call[c].open THEN [call[c] EXCEPT !.told = Append(@, "progress")] ELSE call[c])
  /\ UNCHANGED <<conf, mses, slots, posted>>

RunEnds(c) ==
  /\ call[c].live /\ ~Browsed(c).hangs
  /\ \E what \in {"result", IF call[c].stop THEN "cancelled" ELSE "failed"} : Set2(c, CallOutcome(c, what))
  /\ slots' = Release(c)
  /\ UNCHANGED <<conf, mses, posted>>

\* The call's limits, never above the server's: 0 is no limit.
Bounded(asked) == IF conf.ceilings = 0 THEN asked ELSE IF asked = 0 \/ conf.ceilings < asked THEN conf.ceilings ELSE asked
\* max_seconds and the grace are over: the run is stopped, and given the grace again.
Deadline2(c) ==
  /\ call[c].live /\ Bounded(Browsed(c).seconds) # 0 /\ ~call[c].grace
  /\ Set2(c, [call[c] EXCEPT !.stop = TRUE, !.grace = TRUE])
  /\ UNCHANGED <<conf, mses, slots, posted>>
Abandon(c) ==
  /\ call[c].live /\ call[c].grace
  /\ Set2(c, CallOutcome(c, "refused")) /\ slots' = Release(c)
  /\ UNCHANGED <<conf, mses, posted>>

Forget(c) == [mses EXCEPT !.inFlight = [i \in DOMAIN @ \ {call[c].id} |-> @[i]]]

\* Cancelled: the client is answered at once and the run is left to close its
\* browser.  in_flight is cleared before the reply frees the id.
CancelAnswers(c) ==
  /\ In2(c, {"spawned"}) /\ call[c].cancel
  /\ Set2(c, [call[c] EXCEPT !.at = "winding", !.open = FALSE, !.stop = TRUE, !.told = Append(@, "reply")])
  /\ mses' = Forget(c)
  /\ UNCHANGED <<conf, slots, posted>>
\* Mutant: the id is cleared when the call is over.
CancelGraceEndsForgets(c) ==
  /\ In2(c, {"winding"})
  /\ Set2(c, Gone(call[c])) /\ slots' = Release(c) /\ mses' = Forget(c)
  /\ UNCHANGED <<conf, posted>>
\* The grace of a cancelled call is over: it is dropped, with what it held.
CancelGraceEnds(c) ==
  /\ In2(c, {"winding"})
  /\ Set2(c, Gone(call[c])) /\ slots' = Release(c)
  /\ UNCHANGED <<conf, mses, posted>>

\* The outcome is the reply: a result, an error text, or an error with a receipt.
CallReply(c) ==
  /\ In2(c, {"returned"}) /\ ~call[c].cancel
  /\ Set2(c, Gone([call[c] EXCEPT !.told = Append(@, "reply")]))
  /\ mses' = Forget(c)
  /\ UNCHANGED <<conf, slots, posted>>
\* The select is biased: a cancel that came before the outcome was taken wins.
ReplyCancelled(c) ==
  /\ In2(c, {"returned"}) /\ call[c].cancel
  /\ Set2(c, Gone([call[c] EXCEPT !.told = Append(@, "reply")]))
  /\ mses' = Forget(c)
  /\ UNCHANGED <<conf, slots, posted>>

----------------------------------------------------------------------------
McpInit ==
  /\ conf \in {a \in Setups : Configure(a)}
  /\ mses = [known |-> ~conf.http, initialized |-> FALSE, inFlight |-> <<>>]
  /\ call = <<>> /\ posted = 0
  /\ slots = [free |-> conf.concurrent, waiting |-> <<>>]

ServerStep ==
  \E c \in DOMAIN call :
    \/ CallChecks(c) \/ Acquire(c) \/ Abandon(c) \/ CancelAnswers(c) \/ CancelGraceEnds(c) \/ CallReply(c) \/ ReplyCancelled(c)
    \/ Deadline2(c) \/ RunEnds(c)
ClientStep == Initialize \/ Initialized \/ DeleteSession \/ ToolsCall \/ (\E id \in {Browses[i].id : i \in DOMAIN Browses} : Cancelled(id))
McpNext == ServerStep \/ ClientStep \/ \E c \in DOMAIN call : Progress(c)
McpSpec == McpInit /\ [][McpNext]_mvars
\* Every task is polled, every timer fires, and a run that does not hang ends.
McpFairness == \A c \in 1..Len(Browses) : WF_mvars(c \in DOMAIN call /\
    (CallChecks(c) \/ Acquire(c) \/ Abandon(c) \/ CancelAnswers(c) \/ CancelGraceEnds(c) \/ CallReply(c) \/ ReplyCancelled(c) \/ Deadline2(c) \/ RunEnds(c)))

----------------------------------------------------------------------------
(* Properties.                                                             *)

Replied(c) == "reply" \in Range(call[c].told)
\* A call is answered once, and nothing of it is told after: not the progress of
\* a run still closing its browser, nor the outcome of a cancelled one.
NothingAfterReply == \A c \in DOMAIN call : \A i \in DOMAIN call[c].told : call[c].told[i] = "reply" => i = Len(call[c].told)

\* A call that is not answered yet can be cancelled: in_flight holds it under its
\* id, whatever calls had that id before and are still winding down.
CancelFindsItsCall ==
  \A c \in DOMAIN call : ~Replied(c) => call[c].id \in DOMAIN mses.inFlight /\ mses.inFlight[call[c].id] = c

\* Runs alive never outnumber the slots, no slot is lost, and a local profile is
\* open in one Chrome at a time.
RunsWithinSlots ==
  LET live == Cardinality({c \in DOMAIN call : call[c].live}) IN
    live + slots.free = conf.concurrent /\ (conf.profile /\ ~OnCloud(conf) => live <= 1)

\* The MCP server: nothing follows a call's reply, a cancel finds the call its id
\* names now, and no more runs are live than the slots allow (mcp/mod.rs).
McpKept == NothingAfterReply /\ CancelFindsItsCall /\ RunsWithinSlots

\* With a limit on seconds every call is answered, though its run hangs and
\* ignores its Cancel.
EveryCallAnswered ==
  \A c \in 1..Len(Browses) :
    (c \in DOMAIN call /\ \A b \in Range(Browses) : b.hangs => Bounded(b.seconds) # 0) ~> (c \in DOMAIN call /\ Replied(c))
=============================================================================
