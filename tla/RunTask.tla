------------------------------ MODULE RunTask ------------------------------
(***************************************************************************)
(* run_task: one run from its arguments to its reply.                      *)
(*                                                                         *)
(* A run may first read over HTTP; what that attempt spent comes off the   *)
(* limits of the browser run that follows.  The browser run is one future, *)
(* the "work", dropped wherever it waits when the run is cancelled.  What  *)
(* it opens is held outside it, so the same teardown runs however the work *)
(* ended: the video, the cursor, the session, then the browser.  The reply *)
(* owes the caller every model call, every browser charge and every step.  *)
(*                                                                         *)
(* The cloud browser is the one CloudBrowser models, its owner now the     *)
(* run.  The agent is abstracted to what the run sees of it: calls it      *)
(* makes, steps it tells, and an end.                                      *)
(***************************************************************************)
EXTENDS CloudBrowser, SequencesExt

CONSTANTS
  Tasks,       \* the tasks to run, each with its options
  CallLimit,   \* Limits::max_jev_calls (and, with it, every counted limit)
  MaxTold      \* bound: steps the agent tells

ASSUME CallLimitAssumption == CallLimit \in Nat
ASSUME MaxToldAssumption == MaxTold \in Nat

(* via: how the browser is had.  attach: whether it drives a window already *)
(* open.  reads: whether it reads over HTTP first; fetch: and only so.      *)
(* record: a video is wanted.  dollars: a dollar cap is set.  banners: the  *)
(* consent question is asked.                                              *)
TaskOptions ==
  [via : {"handed", "extension", "local", "cloud"}, attach : BOOLEAN,
   reads : BOOLEAN, fetch : BOOLEAN, record : BOOLEAN, dollars : BOOLEAN,
   banners : BOOLEAN]

ASSUME TasksAssumption == Tasks \subseteq TaskOptions

VARIABLES
  task,         \* the options
  pc,           \* the await the run is at
  tripped,      \* whether Host::cancel is tripped
  half,         \* the two futures joined while the browser starts
  starting,     \* whether `starting` holds the cloud browser
  owned,        \* whether `owned` holds the browser
  chrome,       \* the local Chrome process
  session,      \* the session, once there is one
  filming,      \* whether a recording is under way
  feedback,     \* whether the cursor overlay is shown
  ledger,       \* the ledger of the attempt under way
  limit,        \* its call limit
  fetchSpent,   \* `fetch_spent`: the fetched attempt's lines
  told,         \* the steps kept by `noting`
  heard,        \* the steps the caller's own handler was given
  handling,     \* whether that handler is being awaited
  outcome,      \* how the work ended
  recordingFailed,
  browserCost,  \* `browser_cost`
  used,         \* `browser_used`
  reply,        \* what run_task returned
  made          \* model calls sent, over both attempts

opened == <<starting, owned, chrome, session, filming, feedback>>
spending == <<ledger, limit, fetchSpent, made>>
telling == <<told, heard, handling>>
ending == <<outcome, recordingFailed, browserCost, used, reply>>

runVars == <<task, pc, tripped, half, opened, spending, telling, ending>>

vars == <<runVars, cloudVars>>

(* The work's awaits, every one inside Cancel::guard.                      *)
WorkPoints == {"access", "assembling", "announcing", "opening", "filming",
               "agent", "card"}

TeardownPoints == {"unwinding", "wrapping", "quieting", "closing", "stopping",
                   "metering"}

Bases == {"metered", "unsettled", "unknown"}
CostLine == [of : {"model", "browser"}, basis : Bases]
Line(of, basis) == [of |-> of, basis |-> basis]

Ledger == [calls : Nat, lines : Seq(CostLine), flying : BOOLEAN]
NewLedger == [calls |-> 0, lines |-> <<>>, flying |-> FALSE]

NoReply == [kind |-> "none", status |-> "none", lines |-> <<>>, steps |-> 0]

TypeOK ==
  /\ CloudTypeOK
  /\ task \in Tasks
  /\ pc \in {"gate", "fetching", "key", "access", "assembling", "announcing",
             "opening", "filming", "agent", "card", "done"} \cup TeardownPoints
  /\ tripped \in BOOLEAN
  /\ half \in [browser : {"waiting", "held", "refused"},
               consent : {"waiting", "asked", "done"}]
  /\ starting \in BOOLEAN
  /\ owned \in BOOLEAN
  /\ chrome \in {"off", "up", "down"}
  /\ session \in {"none", "open", "closed"}
  /\ filming \in BOOLEAN
  /\ feedback \in BOOLEAN
  /\ ledger \in Ledger
  /\ ledger.calls <= limit
  /\ limit \in 0..CallLimit
  /\ fetchSpent \in Seq(CostLine)
  /\ told \in 0..MaxTold
  /\ heard \in 0..MaxTold
  /\ handling \in BOOLEAN
  /\ outcome \in {"none", "cancelled", "refused", "complete", "ended"}
  /\ recordingFailed \in BOOLEAN
  /\ browserCost \in Seq(CostLine)
  /\ used \in BOOLEAN
  /\ reply \in [kind : {"none", "result", "cancelled", "error"},
                status : {"none", "complete", "ended", "refused", "budget"},
                lines : Seq(CostLine), steps : 0..MaxTold]
  /\ made \in Nat

Init ==
  /\ CloudInit
  /\ task \in Tasks
  /\ pc = IF task.reads THEN "gate" ELSE "key"
  /\ tripped = FALSE
  /\ half = [browser |-> "waiting", consent |-> "waiting"]
  /\ starting = FALSE
  /\ owned = FALSE
  /\ chrome = "off"
  /\ session = "none"
  /\ filming = FALSE
  /\ feedback = FALSE
  /\ ledger = NewLedger
  /\ limit = CallLimit
  /\ fetchSpent = <<>>
  /\ told = 0
  /\ heard = 0
  /\ handling = FALSE
  /\ outcome = "none"
  /\ recordingFailed = FALSE
  /\ browserCost = <<>>
  /\ used = FALSE
  /\ reply = NoReply
  /\ made = 0

-----------------------------------------------------------------------------
(* Model calls, steps and replies.                                         *)

HasUnknown(lines) == \E n \in 1..Len(lines) : lines[n].basis # "metered"

(* Ledger::reserve and Ledger::record, for one call at a time.              *)
MayCall ==
  /\ ~ledger.flying
  /\ ledger.calls < limit
  /\ ~(task.dollars /\ HasUnknown(ledger.lines))

Sent == [ledger EXCEPT !.calls = @ + 1, !.flying = TRUE]

Settled(basis) ==
  [ledger EXCEPT !.flying = FALSE, !.lines = Append(@, Line("model", basis))]

(* A call dropped in flight is charged as unknown by the client's guard.    *)
Dropped == IF ledger.flying THEN Settled("unknown") ELSE ledger

(* RunError::after and the receipt of a cancelled run.                      *)
Receipt(kind, lines) ==
  [kind |-> kind, status |-> "none", lines |-> lines, steps |-> told]

Result(status, lines) ==
  [kind |-> "result", status |-> status, lines |-> lines, steps |-> 0]

(* The agent sends a call, and has its answer, with or without a price.     *)
AgentCalls ==
  /\ pc \in {"fetching", "agent"}
  /\ ~handling
  /\ MayCall
  /\ ledger' = Sent
  /\ made' = made + 1
  /\ UNCHANGED <<task, pc, tripped, half, opened, limit, fetchSpent, telling,
                 ending, cloudVars>>

AgentAnswered ==
  /\ pc \in {"fetching", "agent"}
  /\ ledger.flying
  /\ \E basis \in {"metered", "unknown"} : ledger' = Settled(basis)
  /\ UNCHANGED <<task, pc, tripped, half, opened, limit, fetchSpent, telling,
                 ending, made, cloudVars>>

(* `noting` keeps the step, then awaits the caller's handler.               *)
Tell ==
  /\ pc \in {"fetching", "agent"}
  /\ ~handling
  /\ ~ledger.flying
  /\ told < MaxTold
  /\ told' = told + 1
  /\ heard' = heard + 1
  /\ handling' = TRUE
  /\ UNCHANGED <<task, pc, tripped, half, opened, spending, ending, cloudVars>>

Handled ==
  /\ handling
  /\ pc \in {"fetching", "agent"}
  /\ handling' = FALSE
  /\ UNCHANGED <<task, pc, tripped, half, opened, spending, told, heard,
                 ending, cloudVars>>

(* The run returns, with nothing left to close.                             *)
Return(answer) ==
  /\ pc' = "done"
  /\ reply' = answer
  /\ UNCHANGED <<task, tripped, half, opened, limit, told, heard, outcome,
                 recordingFailed, browserCost, used, made, cloudVars>>

-----------------------------------------------------------------------------
(* The fetched attempt.                                                    *)

(* The caller's access check, awaited before the attempt's own guard.       *)
Gate ==
  /\ pc = "gate"
  /\ \/ /\ Return(Result("refused", <<>>))
        /\ UNCHANGED <<ledger, fetchSpent, handling>>
     \/ /\ pc' = "fetching"
        /\ UNCHANGED <<task, tripped, half, opened, spending, telling, ending,
                       cloudVars>>

FetchCancelled ==
  /\ pc = "fetching"
  /\ tripped
  /\ ledger' = Dropped
  /\ handling' = FALSE
  /\ Return(Receipt("cancelled", Dropped.lines))
  /\ UNCHANGED fetchSpent

(* The attempt ended for good: it was told to fetch only, or needs no       *)
(* browser.                                                                *)
FetchAnswers ==
  /\ pc = "fetching"
  /\ ~handling
  /\ ledger' = Dropped
  /\ \E status \in {"complete", "ended"} : Return(Result(status, Dropped.lines))
  /\ UNCHANGED <<fetchSpent, handling>>

(* `remaining`: the limit less what the attempt reserved; none when it is   *)
(* used up, or when a dollar cap cannot be enforced past an unpriced call.  *)
Remaining(spent) ==
  IF CallLimit <= spent.calls \/ (task.dollars /\ HasUnknown(spent.lines))
    THEN {} ELSE {CallLimit - spent.calls}

FetchOutOfBudget ==
  /\ pc = "fetching"
  /\ ~handling
  /\ ~task.fetch
  /\ Remaining(Dropped) = {}
  /\ ledger' = Dropped
  /\ Return(Result("budget", Dropped.lines))
  /\ UNCHANGED <<fetchSpent, handling>>

Escalate ==
  /\ pc = "fetching"
  /\ ~handling
  /\ ~task.fetch
  /\ limit' \in Remaining(Dropped)
  /\ fetchSpent' = Dropped.lines
  /\ ledger' = NewLedger
  /\ pc' = "key"
  /\ UNCHANGED <<task, tripped, half, opened, telling, ending, made,
                 cloudVars>>

(* No cloud key, or no scratch directory: the error carries what the        *)
(* attempt did.                                                            *)
AssemblyFails ==
  /\ pc = "key"
  /\ Return(Receipt("error", fetchSpent))
  /\ UNCHANGED <<ledger, fetchSpent, handling>>

WorkBegins ==
  /\ pc = "key"
  /\ pc' = "access"
  /\ UNCHANGED <<task, tripped, half, opened, spending, telling, ending,
                 cloudVars>>

-----------------------------------------------------------------------------
(* The work.                                                               *)

(* The work ends, by itself or dropped.                                     *)
WorkEnds(how) ==
  /\ outcome' = how
  /\ pc' = "unwinding"

(* The caller's gate refuses, a download directory cannot be made, the      *)
(* session does not open: the work ends refused where it is.               *)
Refused ==
  /\ pc \in {"access", "announcing", "opening"}
  /\ WorkEnds("refused")
  /\ UNCHANGED <<task, tripped, half, opened, spending, telling,
                 recordingFailed, browserCost, used, reply, cloudVars>>

AccessGranted ==
  /\ pc = "access"
  /\ pc' = "assembling"
  /\ half' = [half EXCEPT !.consent = IF task.banners THEN "waiting"
                                                      ELSE "done"]
  /\ UNCHANGED <<task, tripped, opened, spending, telling, ending, cloudVars>>

(* The half of the join that is `browser`.                                  *)
BrowserHalf(how) ==
  /\ pc = "assembling"
  /\ half.browser = "waiting"
  /\ half' = [half EXCEPT !.browser = how]
  /\ UNCHANGED <<task, pc, tripped, owned, session, filming, feedback,
                 spending, telling, ending>>

(* A browser handed over or reached through the extension is only found.    *)
BrowserFound ==
  /\ task.via \in {"handed", "extension"}
  /\ \E how \in {"held", "refused"} : BrowserHalf(how)
  /\ UNCHANGED <<starting, chrome, cloudVars>>

ChromeLaunched ==
  /\ task.via = "local"
  /\ \/ BrowserHalf("held") /\ chrome' = "up"
     \/ BrowserHalf("refused") /\ UNCHANGED chrome
  /\ UNCHANGED <<starting, cloudVars>>

(* Options the adapter refuses before it sends anything.                    *)
CloudRefused ==
  /\ task.via = "cloud"
  /\ at = "new"
  /\ BrowserHalf("refused")
  /\ UNCHANGED <<starting, chrome, cloudVars>>

CloudStarts ==
  /\ pc = "assembling"
  /\ half.browser = "waiting"
  /\ task.via = "cloud"
  /\ starting' = TRUE
  /\ Start
  /\ UNCHANGED <<task, pc, tripped, half, owned, chrome, session, filming,
                 feedback, spending, telling, ending>>

(* `start` as CloudBrowser steps it, while this run awaits it.              *)
CloudStartSteps ==
  /\ pc = "assembling"
  /\ starting
  /\ Created \/ Connected \/ ConnectFails \/ (at = "rollback" /\ StopReturns)
  /\ UNCHANGED runVars

(* A start that succeeded is taken out of `starting`; one that failed stays *)
(* there for its reading.                                                  *)
CloudStarted ==
  /\ at = "idle"
  /\ starting
  /\ \/ ended.start = "ok" /\ BrowserHalf("held") /\ starting' = FALSE
     \/ ended.start = "err" /\ BrowserHalf("refused") /\ UNCHANGED starting
  /\ UNCHANGED <<chrome, cloudVars>>

(* The other half: whether the task answers a consent banner itself.  Over  *)
(* the extension it is asked after the browser is found; a call the ledger  *)
(* refuses counts as no.                                                   *)
ConsentAsked ==
  /\ pc = "assembling"
  /\ half.consent = "waiting"
  /\ task.via = "extension" => half.browser = "held"
  /\ IF MayCall
       THEN /\ ledger' = Sent
            /\ made' = made + 1
            /\ half' = [half EXCEPT !.consent = "asked"]
       ELSE /\ half' = [half EXCEPT !.consent = "done"]
            /\ UNCHANGED <<ledger, made>>
  /\ UNCHANGED <<task, pc, tripped, opened, limit, fetchSpent, telling, ending,
                 cloudVars>>

ConsentAnswered ==
  /\ pc = "assembling"
  /\ half.consent = "asked"
  /\ half' = [half EXCEPT !.consent = "done"]
  /\ \E basis \in {"metered", "unknown"} : ledger' = Settled(basis)
  /\ UNCHANGED <<task, pc, tripped, opened, limit, fetchSpent, telling, ending,
                 made, cloudVars>>

(* Both halves are in: the browser becomes the run's to stop, or the run    *)
(* ends refused.  A missing extension ends it before the question.         *)
Assembled ==
  /\ pc = "assembling"
  /\ half.browser # "waiting"
  /\ half.consent = "done" \/ (task.via = "extension" /\ half.browser = "refused")
  /\ IF half.browser = "held"
       THEN /\ owned' = TRUE
            /\ pc' = "announcing"
            /\ UNCHANGED outcome
       ELSE /\ WorkEnds("refused")
            /\ UNCHANGED owned
  /\ UNCHANGED <<task, tripped, half, starting, chrome, session, filming,
                 feedback, spending, telling, recordingFailed, browserCost,
                 used, reply, cloudVars>>

(* The caller's handler heard of the browser: the session is kept, then     *)
(* opened.                                                                 *)
Announced ==
  /\ pc = "announcing"
  /\ pc' = "opening"
  /\ session' = "open"
  /\ UNCHANGED <<task, tripped, half, starting, owned, chrome, filming,
                 feedback, spending, telling, ending, cloudVars>>

(* The session is open; a cursor is drawn where there is a window.          *)
Opened ==
  /\ pc = "opening"
  /\ pc' = IF task.record THEN "filming" ELSE "agent"
  /\ feedback' \in {FALSE, task.via \in {"handed", "local"}}
  /\ UNCHANGED <<task, tripped, half, starting, owned, chrome, session,
                 filming, spending, telling, ending, cloudVars>>

RecordingStarts ==
  /\ pc = "filming"
  /\ \/ /\ filming' = TRUE
        /\ pc' = "agent"
        /\ UNCHANGED <<recordingFailed, outcome>>
     \/ /\ recordingFailed' = TRUE
        /\ WorkEnds("refused")
        /\ UNCHANGED filming
  /\ UNCHANGED <<task, tripped, half, starting, owned, chrome, session,
                 feedback, spending, telling, browserCost, used, reply,
                 cloudVars>>

(* The agent returns its result; a recording shows it as a card first,      *)
(* unless the window is the caller's.                                      *)
AgentReturns ==
  /\ pc = "agent"
  /\ ~handling
  /\ ledger' = Dropped
  /\ \E status \in {"complete", "ended"} :
       IF filming /\ ~task.attach
         THEN pc' = "card" /\ outcome' = status
         ELSE WorkEnds(status)
  /\ UNCHANGED <<task, tripped, half, opened, limit, fetchSpent, telling,
                 recordingFailed, browserCost, used, reply, made, cloudVars>>

CardShown ==
  /\ pc = "card"
  /\ WorkEnds(outcome)
  /\ UNCHANGED <<task, tripped, half, opened, spending, telling,
                 recordingFailed, browserCost, used, reply, cloudVars>>

(* Whoever holds the Cancel, the extension's stop button included.          *)
Trip ==
  /\ pc # "done"
  /\ ~tripped
  /\ tripped' = TRUE
  /\ UNCHANGED <<task, pc, half, opened, spending, telling, ending, cloudVars>>

(* Mutant: the guard drops the work and leaves a launched Chrome to itself. *)
GuardTripsOnly ==
  /\ pc \in WorkPoints
  /\ tripped
  /\ WorkEnds("cancelled")
  /\ ledger' = Dropped
  /\ handling' = FALSE
  /\ IF starting /\ at # "idle" THEN LetGo ELSE UNCHANGED cloudVars
  /\ UNCHANGED <<task, tripped, half, opened, limit, fetchSpent, made, told,
                 heard, recordingFailed, browserCost, used, reply>>

(* Mutant: the trip is a permit the first await takes, not a level.         *)
GuardTripsOnce ==
  /\ pc \in WorkPoints
  /\ tripped
  /\ tripped' = FALSE
  /\ UNCHANGED <<task, pc, half, opened, spending, telling, ending, cloudVars>>

(* The guard drops the work where it waits.  Dropped with it: a call in     *)
(* flight, the start future, and a browser the join already holds.         *)
GuardTrips ==
  /\ pc \in WorkPoints
  /\ tripped
  /\ WorkEnds("cancelled")
  /\ ledger' = Dropped
  /\ handling' = FALSE
  /\ IF pc = "assembling" /\ half.browser = "held"
       THEN IF task.via = "cloud"
              THEN Drop /\ UNCHANGED chrome
              ELSE /\ chrome' = IF chrome = "up" THEN "down" ELSE chrome
                   /\ UNCHANGED cloudVars
       ELSE /\ IF starting /\ at # "idle" THEN LetGo ELSE UNCHANGED cloudVars
            /\ UNCHANGED chrome
  /\ UNCHANGED <<task, tripped, half, starting, owned, session, filming,
                 feedback, limit, fetchSpent, told, heard, recordingFailed,
                 browserCost, used, reply, made>>

-----------------------------------------------------------------------------
(* The teardown, awaited outside the guard.                                *)

(* `unfinished_start`: after a failed start the reading stands; after a     *)
(* cancelled one it can only grow, and none at all is unknown.             *)
UnfinishedStart(cancelled) ==
  IF cost = "none"
    THEN IF cancelled THEN <<Line("browser", "unknown")>> ELSE <<>>
    ELSE <<Line("browser", IF cancelled THEN "unsettled" ELSE "metered")>>

TakeStarting ==
  /\ pc = "unwinding"
  /\ pc' = "wrapping"
  /\ starting' = FALSE
  /\ IF starting
       THEN /\ browserCost' = UnfinishedStart(outcome = "cancelled")
            /\ Drop
       ELSE UNCHANGED <<browserCost, cloudVars>>
  /\ UNCHANGED <<task, tripped, half, owned, chrome, session, filming,
                 feedback, spending, telling, outcome, recordingFailed, used,
                 reply>>

FinishRecording ==
  /\ pc = "wrapping"
  /\ pc' = "quieting"
  /\ filming' = FALSE
  /\ UNCHANGED <<task, tripped, half, starting, owned, chrome, session,
                 feedback, spending, telling, ending, cloudVars>>

CloseFeedback ==
  /\ pc = "quieting"
  /\ pc' = "closing"
  /\ feedback' = FALSE
  /\ UNCHANGED <<task, tripped, half, starting, owned, chrome, session,
                 filming, spending, telling, ending, cloudVars>>

(* The session closes, then what drove is noted for the reply.              *)
CloseSession ==
  /\ pc = "closing"
  /\ pc' = "stopping"
  /\ session' = IF session = "open" THEN "closed" ELSE session
  /\ used' = owned
  /\ UNCHANGED <<task, tripped, half, starting, owned, chrome, filming,
                 feedback, spending, telling, outcome, recordingFailed,
                 browserCost, reply, cloudVars>>

(* `stop`, for what is not a cloud browser, or for none at all.             *)
StopBrowser ==
  /\ pc = "stopping"
  /\ ~(owned /\ task.via = "cloud")
  /\ chrome' = IF owned /\ task.via = "local" THEN "down" ELSE chrome
  /\ owned' = FALSE
  /\ pc' = "metering"
  /\ UNCHANGED <<task, tripped, half, starting, session, filming, feedback,
                 spending, telling, ending, cloudVars>>

StopCloud ==
  /\ pc = "stopping"
  /\ owned /\ task.via = "cloud"
  /\ Stop \/ (at = "stopping" /\ StopReturns)
  /\ owned' = (at = "idle")
  /\ pc' = IF at = "idle" THEN pc ELSE "metering"
  /\ UNCHANGED <<task, tripped, half, starting, chrome, session, filming,
                 feedback, spending, telling, ending>>

(* Mutant: the receipt of a cancelled run forgets the fetched attempt.      *)
LinesOfTheBrowserRun(last) == ledger.lines \o last

(* The fetched read, the browser run, then the browser itself.              *)
Lines(last) == fetchSpent \o ledger.lines \o last

(* The stopped cloud browser's reading is added, its value dropped, and the *)
(* reply made.                                                             *)
Report ==
  /\ pc = "metering"
  /\ LET stopped == used /\ task.via = "cloud"
         lines == Lines(browserCost
                          \o IF stopped /\ cost # "none"
                               THEN <<Line("browser", "metered")>> ELSE <<>>)
     IN  /\ browserCost' = IF stopped /\ cost # "none"
                             THEN Append(browserCost, Line("browser", "metered"))
                             ELSE browserCost
         /\ IF stopped THEN Drop ELSE UNCHANGED cloudVars
         /\ reply' = IF outcome = "cancelled" THEN Receipt("cancelled", lines)
                     ELSE IF recordingFailed THEN Receipt("error", lines)
                     ELSE Result(outcome, lines)
  /\ pc' = "done"
  /\ UNCHANGED <<task, tripped, half, opened, spending, telling, outcome,
                 recordingFailed, used>>

-----------------------------------------------------------------------------
(* What happens only while the guard has not tripped: it is polled first,   *)
(* so once tripped neither the fetched attempt nor the work takes a step.   *)
Guarded ==
  /\ ~tripped
  /\ \/ FetchAnswers \/ FetchOutOfBudget \/ Escalate
     \/ Refused \/ AccessGranted \/ BrowserFound \/ ChromeLaunched
     \/ CloudRefused \/ CloudStarts \/ CloudStartSteps \/ CloudStarted
     \/ ConsentAsked \/ ConsentAnswered \/ Assembled \/ Announced \/ Opened
     \/ RecordingStarts \/ AgentReturns \/ CardShown
     \/ AgentCalls \/ AgentAnswered \/ Tell \/ Handled

Unguarded == Gate \/ AssemblyFails \/ WorkBegins

Teardown ==
  \/ TakeStarting \/ FinishRecording \/ CloseFeedback \/ CloseSession
  \/ StopBrowser \/ StopCloud \/ Report

(* The cloud browser's own tasks go on whatever the run does.               *)
Behind == CloudTasks /\ UNCHANGED runVars

Next ==
  \/ Unguarded \/ Guarded \/ Trip \/ FetchCancelled \/ GuardTrips \/ Teardown
  \/ Behind

Spec == Init /\ [][Next]_vars

(* The guard is woken by the trip, the teardown is awaited to its end and   *)
(* the cloud's requests are answered or time out; nothing is awaited between *)
(* a fetched attempt and the work.  Neither the agent, the caller's         *)
(* handlers nor a provider need ever return.                               *)
Fairness ==
  /\ WF_vars(GuardTrips)
  /\ WF_vars(FetchCancelled)
  /\ WF_vars(AssemblyFails \/ WorkBegins)
  /\ WF_vars(Teardown)
  /\ WF_vars(Behind)

FairSpec == Spec /\ Fairness

-----------------------------------------------------------------------------
(* Properties.                                                             *)

Done == pc = "done"

(* What the run opened ends inside what it was opened on: a recording needs *)
(* its session, and a session its browser.  The teardown closes them in     *)
(* that order at whichever await the work was dropped.                     *)
ClosedInsideOut ==
  /\ filming => session = "open"
  /\ session = "open" => owned /\ ended.stop = "none" /\ chrome # "down"

(* Nothing the run opened outlives its reply, except a cloud browser whose  *)
(* stop was handed to a task behind it.                                    *)
NothingLeftOpen ==
  Done => /\ session # "open"
          /\ ~filming /\ ~feedback /\ ~owned /\ ~starting
          /\ chrome # "up"
          /\ at \in {"new", "dropped"}

(* Every model call sent, in the fetched attempt, the consent question or   *)
(* the browser run, is one line of the reply, however the run ended.        *)
ModelLines(lines) == {n \in 1..Len(lines) : lines[n].of = "model"}
EveryCallIsOneLine == Done => made = Cardinality(ModelLines(reply.lines))

(* The two attempts together stay within the run's one limit: the browser   *)
(* run's ledger starts at zero on what `remaining` left.                    *)
BudgetHandedOver == made <= CallLimit

(* With a dollar cap, no call is sent once an unpriced one was made, in     *)
(* either attempt.                                                         *)
NothingPastUnpriced ==
  [][made' # made /\ task.dollars => ~HasUnknown(fetchSpent \o ledger.lines)]_vars

(* A run that ends in an error still reports every step its caller's        *)
(* handler was given, the one being told included.                         *)
StepsOwed == Done /\ reply.kind \in {"cancelled", "error"} => reply.steps = heard

(* A cloud browser is never reported free by a run stopped while it was     *)
(* starting, and its charge is never called final; one the run drove is on  *)
(* the reply.                                                              *)
BrowserCharged ==
  Done => /\ outcome = "cancelled" /\ half.browser = "waiting" /\ post # "unsent"
               => \E n \in 1..Len(reply.lines) :
                    /\ reply.lines[n].of = "browser"
                    /\ reply.lines[n].basis # "metered"
          /\ used /\ task.via = "cloud"
               => \E n \in 1..Len(reply.lines) : reply.lines[n].of = "browser"

(* A run stopped anywhere but at the caller's own access check of a fetched *)
(* attempt returns, whatever the agent, a handler or the browser's start is *)
(* waiting for.                                                            *)
CancelReturns == (tripped /\ pc # "gate") ~> Done

\* However a run ends, what it opened is closed, each thing inside what it was
\* opened on, before its reply (`run_unboxed`'s teardown).
RunCloses == TypeOK /\ ClosedInsideOut /\ NothingLeftOpen

\* However a run ends, its reply accounts for all of it: each model call once, the
\* two attempts within one limit, the steps its handler was told, and the browser
\* (`finish`, `cancelled`, `remaining`, `unfinished_start`).
ReplyAccounts == EveryCallIsOneLine /\ BudgetHandedOver /\ StepsOwed /\ BrowserCharged
=============================================================================
