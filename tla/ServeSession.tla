---------------------------- MODULE ServeSession ----------------------------
(***************************************************************************)
(* `fastbrowse serve` (crates/fastbrowse-cli/src/serve.rs): one process,   *)
(* one client on stdio, one run at a time.  The loop reads a line and      *)
(* handles it; a run goes on in a task of its own, asks the client         *)
(* questions (`run/until`, `secrets/resolve`) over the same wire, and is   *)
(* answered once, when its browser is closed.                              *)
(*                                                                         *)
(* The run itself is abstracted to what the server sees of it: it tells    *)
(* events, asks questions, ends by itself or is stopped by its Cancel, and *)
(* closes its browser before it returns.                                   *)
(***************************************************************************)
EXTENDS Naturals, Sequences, FiniteSets

CONSTANTS
  Requests,    \* the client's `run` requests
  RunIds,      \* the run ids it may give them
  RunIdOf,     \* the run id of each request: a client may use one twice
  NoRun,       \* no request, or no run id
  Asks,        \* bound: questions one run asks the client
  MaxCancels,  \* bound: `run/cancel` lines the client sends
  MaxLines     \* bound: lines sent and not yet read

ASSUME ServeAssumption ==
  /\ RunIdOf \in [Requests -> RunIds]
  /\ NoRun \notin Requests /\ NoRun \notin RunIds
  /\ Asks \in Nat /\ MaxCancels \in Nat /\ MaxLines \in Nat

VARIABLES
  loop,       \* the serve loop: "reading", "waiting" for its runs, "exited"
  closing,    \* State.closing
  active,     \* State.active: the run id of the run under way
  running,    \* State.running: whose Cancel a stop would trip
  answering,  \* State.answering: requests answered from a task
  lastId,     \* State.last_request_id
  pending,    \* State.pending: questions the client has not answered
  phase,      \* where each request's run stands
  tripped,    \* each run's Cancel
  stops,      \* times `cancel_run` tripped it
  failure,    \* RunContext.failure: a question of the run the client failed
  asked,      \* questions each run has asked
  question,   \* the question each run waits on, 0 for none
  given,      \* the answer handed to the run for it
  outcome,    \* what the run returned
  input,      \* external: the client's lines, unread
  sent,       \* external: what the client has sent
  questions,  \* external: the questions the client has, answered or not
  replies     \* the replies on the wire, in order

server == <<loop, closing, active, running, answering, lastId, pending>>
runs   == <<phase, tripped, stops, failure, asked, question, given, outcome>>
client == <<input, sent, questions>>
vars   == <<server, runs, client, replies>>

\* "working" until the work ends or is stopped, "closing" its browser, then
\* "returned" from the runner and at last "answered".
Phases   == {"unsent", "sent", "working", "closing", "returned", "answered"}
Outcomes == {"none", "result", "error", "cancelled"}
Replies  == {"result", "error", "cancelled", "failed", "busy", "refused"}
Question == [id : Nat, req : Requests]
NoAnswer == [id |-> 0, ok |-> TRUE, of |-> NoRun]

Line == [type : {"run"}, req : Requests] \cup [type : {"cancel"}, run : RunIds]
          \cup [type : {"answer"}, id : Nat, ok : BOOLEAN, of : Requests]
          \cup [type : {"shutdown", "eof"}]

TypeOK ==
  /\ loop \in {"reading", "waiting", "exited"} /\ closing \in BOOLEAN
  /\ active \in RunIds \cup {NoRun} /\ running \in Requests \cup {NoRun}
  /\ answering \subseteq Requests
  /\ lastId \in Nat /\ pending \subseteq Question
  /\ phase \in [Requests -> Phases]
  /\ tripped \in [Requests -> BOOLEAN] /\ stops \in [Requests -> Nat]
  /\ failure \in [Requests -> BOOLEAN]
  /\ asked \in [Requests -> Nat] /\ question \in [Requests -> Nat]
  /\ given \in [Requests -> [id : Nat, ok : BOOLEAN, of : Requests \cup {NoRun}]]
  /\ outcome \in [Requests -> Outcomes]
  /\ input \in Seq(Line)
  /\ sent \in [cancels : Nat, ended : BOOLEAN] /\ questions \subseteq [q : Question, open : BOOLEAN]
  /\ replies \in Seq([req : Requests, what : Replies])

Init ==
  /\ loop = "reading" /\ closing = FALSE /\ active = NoRun /\ running = NoRun
  /\ answering = {} /\ lastId = 0 /\ pending = {}
  /\ phase = [r \in Requests |-> "unsent"]
  /\ tripped = [r \in Requests |-> FALSE] /\ stops = [r \in Requests |-> 0]
  /\ failure = [r \in Requests |-> FALSE]
  /\ asked = [r \in Requests |-> 0] /\ question = [r \in Requests |-> 0]
  /\ given = [r \in Requests |-> NoAnswer]
  /\ outcome = [r \in Requests |-> "none"]
  /\ input = <<>>
  /\ sent = [cancels |-> 0, ended |-> FALSE] /\ questions = {}
  /\ replies = <<>>

----------------------------------------------------------------------------
(* The client, on the other end of the pipe.                               *)

Send(line) == /\ ~sent.ended /\ Len(input) < MaxLines
              /\ input' = Append(input, line)

ClientRuns(r) ==
  /\ phase[r] = "unsent" /\ Send([type |-> "run", req |-> r])
  /\ phase' = [phase EXCEPT ![r] = "sent"]
  /\ UNCHANGED <<server, tripped, stops, failure, asked, question, given, outcome, sent, questions, replies>>

ClientCancels(id) ==
  /\ sent.cancels < MaxCancels /\ Send([type |-> "cancel", run |-> id])
  /\ sent' = [sent EXCEPT !.cancels = @ + 1]
  /\ UNCHANGED <<server, runs, questions, replies>>

\* It answers a question once, with what was asked for or with a failure (an
\* error, or a result of the wrong shape), whether or not the run still waits.
ClientAnswers ==
  /\ \E x \in questions, ok \in BOOLEAN :
       /\ x.open /\ Send([type |-> "answer", id |-> x.q.id, ok |-> ok, of |-> x.q.req])
       /\ questions' = (questions \ {x}) \cup {[x EXCEPT !.open = FALSE]}
  /\ UNCHANGED <<server, runs, sent, replies>>

\* `shutdown`, or the client is gone and the input ends.
ClientEnds ==
  /\ \E type \in {"shutdown", "eof"} : Send([type |-> type])
  /\ sent' = [sent EXCEPT !.ended = TRUE]
  /\ UNCHANGED <<server, runs, questions, replies>>

----------------------------------------------------------------------------
(* The serve loop: one line at a time, handled before the next is read.    *)

Reply(r, what) == replies' = Append(replies, [req |-> r, what |-> what])

\* `finish_run`.
FinishRun == active' = NoRun /\ running' = NoRun

\* `cancel_run`: the Cancel is taken, so a run is stopped once.
CancelRun ==
  /\ running' = NoRun
  /\ tripped' = [r \in Requests |-> tripped[r] \/ r = running]
  /\ stops' = [r \in Requests |-> stops[r] + IF r = running THEN 1 ELSE 0]

Reads(type) ==
  /\ loop = "reading" /\ ~closing /\ input # <<>> /\ Head(input).type = type
  /\ input' = Tail(input)

\* `start_run`: refused while a run is active; arguments that cannot become a
\* run give the server back at once; else the run is under way.
StartRun ==
  /\ Reads("run")
  /\ LET r == Head(input).req IN
     \/ /\ active # NoRun /\ Reply(r, "busy")
        /\ phase' = [phase EXCEPT ![r] = "answered"]
        /\ UNCHANGED <<active, running, answering>>
     \/ /\ active = NoRun /\ Reply(r, "refused")
        /\ phase' = [phase EXCEPT ![r] = "answered"]
        /\ FinishRun /\ UNCHANGED answering
     \/ /\ active = NoRun
        /\ active' = RunIdOf[r] /\ running' = r
        /\ phase' = [phase EXCEPT ![r] = "working"]
        /\ answering' = answering \cup {r} /\ UNCHANGED replies
  /\ UNCHANGED <<loop, closing, lastId, pending, tripped, stops, failure, asked, question,
                 given, outcome, sent, questions>>

\* `run/cancel` stops the run it names, if that is the one under way.
HandleCancel ==
  /\ Reads("cancel")
  /\ IF active = Head(input).run THEN CancelRun ELSE UNCHANGED <<running, tripped, stops>>
  /\ UNCHANGED <<loop, closing, active, answering, lastId, pending, phase, failure, asked,
                 question, given, outcome, sent, questions, replies>>

\* `settle`: an answer goes to the question it names, if that is still out.
\* A stopped run leaves the answer with nobody to take it.
HandleAnswer ==
  /\ Reads("answer")
  /\ LET m == Head(input)
         found == {q \in pending : q.id = m.id} IN
     /\ pending' = pending \ found
     /\ given' = [r \in Requests |->
                    IF \E q \in found : q.req = r /\ phase[r] = "working"
                    THEN [id |-> m.id, ok |-> m.ok, of |-> m.of] ELSE given[r]]
  /\ UNCHANGED <<loop, closing, active, running, answering, lastId, phase, tripped, stops,
                 failure, asked, question, outcome, sent, questions, replies>>

HandleShutdown ==
  /\ Reads("shutdown") /\ closing' = TRUE
  /\ UNCHANGED <<loop, active, running, answering, lastId, pending, runs, sent, questions, replies>>

\* The client is done: the run is stopped, and its task waited for.
LoopEnds ==
  /\ loop = "reading"
  /\ \/ closing /\ UNCHANGED input
     \/ Reads("eof")
  /\ loop' = "waiting" /\ CancelRun
  /\ UNCHANGED <<closing, active, answering, lastId, pending, phase, failure, asked, question,
                 given, outcome, sent, questions, replies>>

Exit ==
  /\ loop = "waiting" /\ \A r \in answering : phase[r] = "answered"
  /\ loop' = "exited"
  /\ UNCHANGED <<closing, active, running, answering, lastId, pending, runs, client, replies>>

----------------------------------------------------------------------------
(* A run in its own task.  `Cancel::guard` is biased: a run whose Cancel   *)
(* is tripped takes no further step of its work.                           *)

Working(r) == phase[r] = "working" /\ loop # "exited"
Free(r)    == Working(r) /\ ~tripped[r] /\ question[r] = 0

\* Mutant: ids counted afresh for every run.
AskFromOne(r) ==
  /\ Free(r) /\ asked[r] < Asks
  /\ asked' = [asked EXCEPT ![r] = @ + 1]
  /\ lastId' = asked[r] + 1
  /\ pending' = {q \in pending : q.id # asked[r] + 1} \cup {[id |-> asked[r] + 1, req |-> r]}
  /\ questions' = questions \cup {[q |-> [id |-> asked[r] + 1, req |-> r], open |-> TRUE]}
  /\ question' = [question EXCEPT ![r] = asked[r] + 1]
  /\ given' = [given EXCEPT ![r] = NoAnswer]
  /\ UNCHANGED <<loop, closing, active, running, answering, phase, tripped, stops, failure,
                 outcome, input, sent, replies>>
\* `RunContext::ask` up to its await.
Ask(r) ==
  /\ Free(r) /\ asked[r] < Asks
  /\ asked' = [asked EXCEPT ![r] = @ + 1]
  /\ lastId' = lastId + 1
  /\ pending' = pending \cup {[id |-> lastId + 1, req |-> r]}
  /\ questions' = questions \cup {[q |-> [id |-> lastId + 1, req |-> r], open |-> TRUE]}
  /\ question' = [question EXCEPT ![r] = lastId + 1]
  /\ given' = [given EXCEPT ![r] = NoAnswer]
  /\ UNCHANGED <<loop, closing, active, running, answering, phase, tripped, stops, failure,
                 outcome, input, sent, replies>>

\* The answer is taken: the run goes on, or ends on the callback the client
\* failed (`fail`), its Cancel tripped by the run itself.
TakeAnswer(r) ==
  /\ Working(r) /\ ~tripped[r] /\ question[r] # 0 /\ given[r].id # 0
  /\ question' = [question EXCEPT ![r] = 0]
  /\ pending' = {q \in pending : q.id # question[r]}
  /\ IF given[r].ok THEN UNCHANGED <<failure, tripped>>
     ELSE failure' = [failure EXCEPT ![r] = TRUE] /\ tripped' = [tripped EXCEPT ![r] = TRUE]
  /\ UNCHANGED <<loop, closing, active, running, answering, lastId, phase, stops, asked, given,
                 outcome, client, replies>>

\* Mutant: the reply goes out before the browser is closed and the server free.
WorkEndsAnswering(r) ==
  /\ Free(r)
  /\ outcome' = [outcome EXCEPT ![r] = "result"] /\ Reply(r, "result")
  /\ phase' = [phase EXCEPT ![r] = "closing"]
  /\ UNCHANGED <<server, tripped, stops, failure, asked, question, given, client>>
\* The work ends by itself.
WorkEnds(r) ==
  /\ Free(r)
  /\ \E o \in {"result", "error"} : outcome' = [outcome EXCEPT ![r] = o]
  /\ phase' = [phase EXCEPT ![r] = "closing"]
  /\ UNCHANGED <<server, tripped, stops, failure, asked, question, given, client, replies>>

\* The work is dropped where it stands; a question it had out stays pending.
WorkStopped(r) ==
  /\ Working(r) /\ tripped[r]
  /\ outcome' = [outcome EXCEPT ![r] = "cancelled"]
  /\ phase' = [phase EXCEPT ![r] = "closing"]
  /\ question' = [question EXCEPT ![r] = 0]
  /\ UNCHANGED <<server, tripped, stops, failure, asked, given, client, replies>>

\* The browser is closed and the runner returns: the server is free again.
RunReturns(r) ==
  /\ phase[r] = "closing" /\ loop # "exited"
  /\ phase' = [phase EXCEPT ![r] = "returned"]
  /\ FinishRun
  /\ UNCHANGED <<loop, closing, answering, lastId, pending, tripped, stops, failure, asked,
                 question, given, outcome, client, replies>>

\* `reply`: a run stopped by a callback the client failed is answered with that.
ReplyOf(r) == IF outcome[r] = "cancelled" /\ failure[r] THEN "failed" ELSE outcome[r]

AnswerRun(r) ==
  /\ phase[r] = "returned" /\ loop # "exited"
  /\ phase' = [phase EXCEPT ![r] = "answered"]
  /\ Reply(r, ReplyOf(r))
  /\ UNCHANGED <<server, tripped, stops, failure, asked, question, given, outcome, client>>

----------------------------------------------------------------------------
LoopStep == \/ StartRun \/ HandleCancel \/ HandleAnswer \/ HandleShutdown
            \/ LoopEnds \/ Exit
RunStep(r) == \/ Ask(r) \/ TakeAnswer(r) \/ WorkEnds(r) \/ WorkStopped(r)
              \/ RunReturns(r) \/ AnswerRun(r)

Next ==
  \/ \E r \in Requests : ClientRuns(r) \/ RunStep(r)
  \/ \E id \in RunIds : ClientCancels(id)
  \/ ClientAnswers \/ ClientEnds
  \/ LoopStep

Spec == Init /\ [][Next]_vars

\* Lines that are there are read, and a run that can go on does; the client
\* owes nothing, not even an answer.
Fairness == WF_vars(LoopStep) /\ \A r \in Requests : WF_vars(RunStep(r))
FairSpec == Spec /\ Fairness

----------------------------------------------------------------------------
(* Properties.                                                             *)

Under(r) == phase[r] \in {"working", "closing"}

\* One run at a time, and `active` is that run from the line that started it
\* until its browser is closed: a cancel by name can only reach it.
ActiveIsTheRun ==
  /\ \A r, s \in Requests : Under(r) /\ Under(s) => r = s
  /\ \A r \in Requests : Under(r) => active = RunIdOf[r]
  /\ active # NoRun => \E r \in Requests : Under(r)
  /\ running # NoRun => Under(running)

\* A run is told to stop at most once: a second stop would land in it while it
\* closes its browser.
StoppedOnce == \A r \in Requests : stops[r] <= 1

\* A client that has its run's reply in hand is not refused as busy: the run
\* another request lost out to has not been answered yet.
Answered(r) == \E i \in 1..Len(replies) : replies[i].req = r
BusyMeansUnanswered ==
  [][\A r \in Requests :
       Len(replies') > Len(replies) /\ replies'[Len(replies')] = [req |-> r, what |-> "busy"] =>
         \E s \in Requests : Under(s) /\ ~Answered(s)]_vars

\* An answer reaches the run that asked for it: a late answer to a question of
\* a stopped run is never taken for the answer to a later run's question.
AnswersReachTheirQuestion ==
  \A r \in Requests : given[r].id # 0 => given[r].of = r

\* A callback the client failed ends the run, and the reply says so; a run is
\* answered as cancelled only when the client stopped it.
RepliesTellWhy ==
  \A i \in 1..Len(replies) :
    LET r == replies[i].req IN
    /\ replies[i].what = "failed" => failure[r]
    /\ replies[i].what = "cancelled" => stops[r] > 0 /\ ~failure[r]
    /\ failure[r] => replies[i].what = "failed"

\* The process exits only when every run it took on has been answered.
AnsweredBeforeExit ==
  loop = "exited" => \A r \in Requests : r \in answering => Answered(r)

\* `serve`: cancels and answers reach the run and the question they are for, one
\* run at a time, and the reply says what ended it, whichever of a cancel, a failed
\* callback and the run's own end came first (serve.rs).
ServeKept ==
  TypeOK /\ ActiveIsTheRun /\ StoppedOnce /\ AnswersReachTheirQuestion /\ RepliesTellWhy /\ AnsweredBeforeExit

\* Once the client is done the process ends, though the client never answers
\* the question a run waits on.
ServerExits == sent.ended ~> loop = "exited"
=============================================================================
