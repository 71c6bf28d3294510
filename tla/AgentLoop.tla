------------------------------- MODULE AgentLoop -------------------------------
(* `Agent::run`: the loop that observes a page, asks Jev what to do, gates   *)
(* and takes the action, and judges whether it moved the run on, and the     *)
(* endings of a run.  The browser, Jev, the LLM and the caller's `until` are *)
(* the environment.  Synchronous code between two awaits is one step, and    *)
(* the page moves by itself only while the loop awaits something.            *)
(*                                                                           *)
(* Left out: the wording of questions, notes and errors; the list of actions *)
(* an ask leaves out (`idle`), which narrows Jev's choice and never a step;  *)
(* recipes and their replay; and frames.                                     *)
EXTENDS Integers, FiniteSets

CONSTANTS
  Views,            \* page states, as `state_key` tells them apart
  UrlOf,            \* the address of each
  Errors,           \* views served with a status of 400 or more
  Blanks,           \* views that draw nothing
  Bare,             \* views that offer no control
  Choices,          \* what Jev may say of each view, and choose on it, in each task
  Front, NextPage,  \* where the run begins, and the next page its list names
  Tasks,            \* the tasks, options and surroundings a run may be given
  UnchangedActions, MaxRecoveries,  \* `StallRules`
  MaxEvidence,      \* reads that can find something new
  Drafts,           \* the answers the LLM may compose
  None              \* no value

Statuses == {"complete", "unverified", "needs_confirmation", "needs_login", "blocked",
             "needs_input", "stuck", "budget_exceeded", "unavailable", "error",
             "needs_browser"}

Intents == {"text", "image", "text_image", "carried_out"}
\* What the caller asks and allows, and how the surroundings may behave: calls
\* that fail, and the times a page moves by itself.
TaskOptions ==
  [authorized : BOOLEAN, intent : Intents, schema : BOOLEAN, every_page : BOOLEAN,
   until : BOOLEAN, http : BOOLEAN, limited : BOOLEAN, fails : BOOLEAN, moves : Nat]

\* "click" stands for the operations that may commit and have a target (click,
\* enter, drag and an accepted dialog), "fill" for the edits, "other" for those
\* with neither gate nor value.
Ops == {"click", "fill", "navigate", "other", "read", "done"}
Targeted == {"click", "fill"}
Gated == {"click", "navigate"}
\* Jev's reading of a page and its choice there.
Decisions ==
  [op : Ops, fails : BOOLEAN, shows : BOOLEAN, wall : {"none", "bot", "login"}]
NoDecision == [op |-> "done", fails |-> FALSE, shows |-> FALSE, wall |-> "none"]

ASSUME LoopAssumption ==
  /\ IsFiniteSet(Views) /\ {Front, NextPage} \subseteq Views
  /\ Errors \subseteq Views /\ Blanks \subseteq Views /\ Bare \subseteq Views
  /\ UrlOf \in [Views -> Views] /\ Choices \in [Tasks -> [Views -> SUBSET Decisions]]
  /\ Tasks \subseteq TaskOptions
  \* something can be chosen on a page that is not fresh
  /\ \A t \in Tasks, v \in Views :
       \E d \in Choices[t][v] : d.op # "read" /\ ~d.shows /\ d.wall = "none"
  /\ UnchangedActions \in Nat \ {0} /\ MaxRecoveries \in Nat
  /\ MaxEvidence \in Nat
  /\ None \notin Statuses

VARIABLES
  task, pc,
  \* the browser: the view, what happened to it since it was observed, and the
  \* moves it has left
  page, moved, moves,
  obs,              \* the loop's observation
  \* what is on file for the observed document: its status waited out, its
  \* blankness waited out, it is read and unchanged since, it was judged
  doc, first_url,
  decision, picked, redecided, committing, hung_page_reopened,
  site_failure, page_failed, blank_opening_checked, challenge_reloads,
  reached, evidence_reads, unchanged, recoveries, landing,
  notes,            \* the notes hold a fact
  compose, feedback,
  next_read,        \* of `read_urls`: the list's next page is read
  written, missing, acted, carried_out, pager_followed,
  asking,           \* of a recovery: the status it gives up as, where it returns
  ending,           \* the status a conclusion or a stop is about to report
  status,
  idleSteps, sent, held  \* history: steps since progress, the last commit, `until`

browser  == <<page, moved, moves>>
seen     == <<obs, doc, first_url>>
deciding == <<decision, picked, redecided, committing, hung_page_reopened>>
site     == <<site_failure, page_failed, blank_opening_checked, challenge_reloads>>
stall    == <<reached, evidence_reads, unchanged, recoveries, landing, idleSteps>>
reading  == <<notes, compose, feedback, next_read>>
deeds    == <<written, missing, acted, carried_out, pager_followed>>
frame    == <<asking, ending, status>>
vars == <<task, pc, browser, seen, deciding, site, stall, reading, deeds, frame, sent, held>>

Points == {"head", "http", "blank", "seen", "decide", "deciding", "judge", "wall", "reload",
           "leaving", "read", "build", "acting", "twin", "covered", "reopen", "recover",
           "asking", "finish", "report", "list", "conclude", "until", "stopping", "ended"}
\* Points at which the loop runs without awaiting anything.
Synchronous == {"seen", "decide", "judge", "ended"}

Failures == [url : Views, cause : {"http", "navigation", "reported"}]
NewDocument == [waited |-> FALSE, blanked |-> FALSE, read |-> FALSE, judged |-> FALSE]

TypeOK ==
  /\ task \in Tasks /\ pc \in Points
  /\ page \in Views /\ moved \in {"no", "redrawn", "loaded"} /\ moves \in 0..task.moves
  /\ doc \in [waited : BOOLEAN, blanked : BOOLEAN, read : BOOLEAN, judged : BOOLEAN]
  /\ obs \in Views /\ decision \in Decisions
  /\ picked \in {None} \cup [key : Views, of : Decisions]
  /\ redecided \in BOOLEAN /\ committing \in BOOLEAN /\ hung_page_reopened \in BOOLEAN
  /\ site_failure \in {None} \cup Failures /\ page_failed \in BOOLEAN
  /\ blank_opening_checked \in BOOLEAN /\ challenge_reloads \subseteq Views
  /\ reached \in [Views -> {-1} \cup 0..MaxEvidence] /\ evidence_reads \in 0..MaxEvidence
  /\ unchanged \in 0..UnchangedActions /\ recoveries \in 0..MaxRecoveries + 1
  /\ landing \in BOOLEAN /\ idleSteps \in Nat
  /\ notes \in BOOLEAN /\ compose \in BOOLEAN
  /\ feedback \in {None} \cup Drafts
  /\ next_read \in BOOLEAN /\ written \subseteq Views /\ missing \subseteq Views
  /\ acted \in BOOLEAN /\ carried_out \in BOOLEAN /\ pager_followed \in BOOLEAN
  /\ asking \in [gives_up_as : {"stuck", "needs_input", "unverified"}, back : {"head", "decide"}]
  /\ ending \in Statuses /\ status \in Statuses \cup {None}
  /\ first_url \in {None} \cup Views /\ sent \in {"no", "sent", "doubtful"} /\ held \in BOOLEAN

Here == UrlOf[obs]
WantsText == task.intent \in {"text", "text_image"}
WantsImage == task.intent \in {"image", "text_image"}

\* `Agent::body`: the opening page is loaded and the state is new.
Init ==
  /\ task \in Tasks /\ pc = "head"
  /\ page \in {v \in Views : UrlOf[v] = UrlOf[Front]} /\ moved = "loaded"
  /\ moves = task.moves /\ doc = NewDocument /\ obs = Front /\ first_url = None
  /\ decision = NoDecision /\ picked = None
  /\ redecided = FALSE /\ committing = FALSE /\ hung_page_reopened = FALSE
  /\ site_failure = None /\ page_failed = FALSE
  /\ blank_opening_checked = FALSE /\ challenge_reloads = {}
  /\ reached = [v \in Views |-> -1] /\ evidence_reads = 0
  /\ unchanged = 0 /\ recoveries = 0 /\ landing = FALSE
  /\ notes = FALSE /\ compose = FALSE /\ feedback = None
  /\ next_read = FALSE /\ written = {} /\ missing = {}
  /\ acted = FALSE /\ carried_out = FALSE /\ pager_followed = FALSE
  /\ asking = [gives_up_as |-> "stuck", back |-> "head"]
  /\ ending = "stuck" /\ status = None
  /\ idleSteps = 0 /\ sent = "no" /\ held = FALSE

----------------------------------------------------------------------------
(* The browser.                                                             *)

\* Another document.
Load(v) == page' = v /\ moved' = "loaded"

\* The document draws itself again.
Redraw(v) ==
  /\ UrlOf[v] = UrlOf[page] /\ page' = v
  /\ moved' = IF moved = "no" THEN "redrawn" ELSE moved

\* The page moves by itself, a bounded number of times.
PageMoves ==
  /\ pc \notin Synchronous /\ moves > 0 /\ moves' = moves - 1
  /\ \E v \in Views : Load(v) \/ Redraw(v)
  /\ UNCHANGED <<task, pc, seen, deciding, site, stall, reading, deeds, frame, sent, held>>

----------------------------------------------------------------------------
(* How a step ends: the run goes on, counts, recovers or stops.             *)

Goto(p) == pc' = p /\ UNCHANGED frame

\* `Agent::run` after the loop: the spend limits are checked, and a requested
\* image that cannot be taken leaves a complete run unverified.
Reported(s) ==
  {s} \cup {r \in {"budget_exceeded"} : task.limited /\ s \notin {"error", "needs_browser"}}
      \cup {r \in {"unverified"} : WantsImage /\ s = "complete"}
Ends(s) == pc' = "ended" /\ status' \in Reported(s) /\ UNCHANGED <<asking, ending>>

\* `Flow::Stop`, which `stopped` turns into a result.
Stops(s) == pc' = "stopping" /\ ending' = s /\ UNCHANGED <<asking, status>>
\* `recover` is called from here, and returns to `back`.
Recovers(s, back) ==
  /\ pc' = "recover" /\ asking' = [gives_up_as |-> s, back |-> back]
  /\ UNCHANGED <<ending, status>>

\* `count_progress`: the one stall rule.
CountProgress(progressed, back) ==
  LET counted == IF progressed THEN 0 ELSE unchanged + 1 IN
  /\ unchanged' = counted
  /\ idleSteps' = IF progressed THEN 0 ELSE idleSteps + 1
  /\ IF counted >= UnchangedActions THEN Recovers("stuck", back) ELSE Goto(back)

\* `SiteFailure::stop`: what a standing failure ends the run as.
FailureStatus(failure) ==
  IF failure.cause = "http" THEN {"needs_login", "blocked", "unavailable", "stuck"}
  ELSE {"unavailable"}

----------------------------------------------------------------------------
(* From the head of the loop to the page it decides on.                     *)

\* What is on file for the document the browser shows.
OnFile == IF moved = "loaded" THEN NewDocument ELSE doc

\* `settle_blank`, up to its wait; a page that draws forgets the waits.
BlankStage(v, d) ==
  IF v \in Blanks /\ ~d.blanked
    THEN pc' = "blank" /\ doc' = [d EXCEPT !.blanked = TRUE]
    ELSE pc' = "seen" /\ doc' = [d EXCEPT !.blanked = @ /\ v \in Blanks]

\* The loop observes.  A status that can clear by itself is waited out, once
\* for each document.
Observe ==
  /\ pc = "head"
  /\ obs' = page /\ moved' = "no" /\ decision' = NoDecision
  /\ first_url' = IF first_url = None THEN UrlOf[page] ELSE first_url
  /\ \/ /\ page \in Errors /\ ~OnFile.waited
        /\ pc' = "http" /\ doc' = [OnFile EXCEPT !.waited = TRUE]
     \/ BlankStage(page, [OnFile EXCEPT !.waited = @ \/ page \in Errors])
  /\ UNCHANGED <<task, page, moves, picked, redecided, committing, hung_page_reopened,
                 site, stall, reading, deeds, frame, sent, held>>

\* `outwait` of the status: the page moved, or stayed to the deadline.
HttpWaits ==
  /\ pc = "http"
  /\ \/ page # obs /\ pc' = "head" /\ UNCHANGED doc
     \/ page = obs /\ BlankStage(obs, doc)
  /\ UNCHANGED <<task, browser, obs, first_url, deciding, site, stall, reading, deeds,
                 frame, sent, held>>

\* `settle_blank` after its wait: the opening page is loaded once more, if
\* nothing was done on it.
BlankWaits ==
  /\ pc = "blank"
  /\ \/ page # obs /\ pc' = "head" /\ UNCHANGED <<page, moved, blank_opening_checked>>
     \/ /\ page = obs /\ (blank_opening_checked \/ acted)
        /\ pc' = "seen" /\ UNCHANGED <<page, moved, blank_opening_checked>>
     \/ /\ page = obs /\ ~blank_opening_checked /\ ~acted
        /\ blank_opening_checked' = TRUE
        /\ IF obs \in Errors
             THEN pc' = "seen" /\ UNCHANGED <<page, moved>>
             ELSE pc' = "head" /\ \E v \in Views : UrlOf[v] = Here /\ Load(v)
  /\ UNCHANGED <<task, moves, seen, deciding, site_failure, page_failed, challenge_reloads,
                 stall, reading, deeds, frame, sent, held>>

\* `note_effect`: what the page's status says of the site.
Noted ==
  IF obs \in Errors THEN [url |-> Here, cause |-> "http"]
  ELSE IF site_failure # None /\ site_failure.url = Here /\ site_failure.cause # "reported"
    THEN None ELSE site_failure

\* `settle`: a state never seen clears a failure left behind.
Cleared(failure) ==
  /\ failure # None /\ obs \notin Errors
  /\ failure.url # Here \/ failure.cause # "reported"

\* Mutant: a state is progress whenever the page changed.
ProgressOnAnyChange(last) == TRUE
\* `settle`: a state never seen, or not since the last evidence, is progress.
IsProgress(last) == last = -1 \/ last < evidence_reads

\* `note_effect` and `settle` on the observation.
Settle ==
  /\ pc = "seen"
  /\ LET last == reached[obs] IN
     /\ reached' = [reached EXCEPT ![obs] = evidence_reads]
     /\ site_failure' = IF last = -1 /\ Cleared(Noted) THEN None ELSE Noted
     /\ recoveries' = IF last = -1 THEN 0 ELSE recoveries
     /\ landing' = FALSE
     /\ IF landing THEN CountProgress(IsProgress(last), "decide")
        ELSE /\ Goto("decide") /\ UNCHANGED unchanged
             /\ idleSteps' = IF last = -1 THEN 0 ELSE idleSteps
  /\ UNCHANGED <<task, browser, seen, deciding, page_failed, blank_opening_checked,
                 challenge_reloads, evidence_reads, reading, deeds, sent, held>>

----------------------------------------------------------------------------
(* Recovery.                                                                *)

Unfilled == Here \in missing

\* `recover`: past the budget the run ends, as the failure standing on this
\* page or as what it was unsure about.
RecoverOrGiveUp ==
  /\ recoveries' = recoveries + 1
  /\ \/ recoveries' <= MaxRecoveries /\ Goto("asking")
     \/ /\ recoveries' > MaxRecoveries /\ site_failure # None
        /\ site_failure.url = Here \/ asking.gives_up_as # "needs_input"
        /\ \E s \in FailureStatus(site_failure) : Stops(s)
     \/ /\ recoveries' > MaxRecoveries
        /\ site_failure # None =>
             site_failure.url # Here /\ asking.gives_up_as = "needs_input"
        /\ Stops(IF Unfilled THEN "needs_input" ELSE asking.gives_up_as)

\* Giving up as stuck reads the screenshot of a drawn page first
\* (`read_drawn_page`), unless the page was reported failed.
Recover ==
  /\ pc = "recover" /\ unchanged' = 0
  /\ RecoverOrGiveUp
  /\ \/ UNCHANGED <<notes, compose>>
     \/ /\ pc' = "stopping" /\ ending' = "stuck" /\ site_failure = None /\ ~page_failed
        /\ notes' = TRUE /\ compose' = TRUE
  /\ UNCHANGED <<task, browser, seen, deciding, site, reached, evidence_reads, landing,
                 idleSteps, feedback, next_read, deeds, sent, held>>

\* `ask_jev_again`: the pick is kept with the page state it was made on.  The
\* ask has no question about walls.
AskJevAgain ==
  /\ pc = "asking"
  /\ \E d \in Choices[task][obs] :
       /\ d.op = "read" => ~doc.read
       /\ picked' = [key |-> obs, of |-> [d EXCEPT !.wall = "none", !.shows = FALSE]]
  /\ pc' = asking.back /\ asking' = [gives_up_as |-> "stuck", back |-> "head"]
  /\ UNCHANGED <<task, browser, seen, decision, redecided, committing, hung_page_reopened,
                 site, stall, reading, deeds, ending, status, sent, held>>

----------------------------------------------------------------------------
(* The decision and what it says of the page.                               *)

\* The pick is the decision on the page state it was made on, while its
\* control is still there; on any other page it is dropped.
Decide ==
  /\ pc = "decide" /\ picked' = None
  /\ \/ /\ picked # None /\ picked.key = obs
        /\ decision' = picked.of /\ Goto("judge")
     \/ /\ picked # None => picked.key # obs \/ picked.of.op \in Targeted
        /\ Goto("deciding") /\ UNCHANGED decision
  /\ UNCHANGED <<task, browser, seen, redecided, committing, hung_page_reopened, site, stall,
                 reading, deeds, sent, held>>

\* Walls and answers are asked about on a fresh page only, or on one reported
\* failed.  A page read and unchanged is not offered for another read.
Asked(d) ==
  LET fresh == ~doc.judged \/ page_failed IN
  /\ d.wall # "none" => fresh
  /\ d.shows => fresh
  /\ d.op = "read" => ~doc.read

JevDecides ==
  /\ pc = "deciding"
  /\ \E d \in Choices[task][obs] : Asked(d) /\ decision' = d
  /\ doc' = [doc EXCEPT !.judged = TRUE]
  /\ Goto("judge")
  /\ UNCHANGED <<task, browser, obs, first_url, picked, redecided, committing,
                 hung_page_reopened, site, stall, reading, deeds, sent, held>>

\* `unless_redrawn`: the page redrew under the decision, or under the control
\* an action is built for.  Only one drop until an action is built.
RedrawDrops ==
  /\ pc \in {"deciding", "build"} /\ ~redecided /\ moved # "no"
  /\ redecided' = TRUE
  /\ Goto("head")
  /\ UNCHANGED <<task, browser, seen, decision, picked, committing, hung_page_reopened, site,
                 stall, reading, deeds, sent, held>>

\* `judge_site`: Jev's word, kept while it holds, beside a status or
\* navigation error the browser gave.
JudgedSite ==
  LET here     == site_failure # None /\ site_failure.url = Here
      reported == here /\ site_failure.cause = "reported" IN
  IF decision.fails /\ (~here \/ reported) THEN [url |-> Here, cause |-> "reported"]
  ELSE IF ~decision.fails /\ reported THEN None ELSE site_failure

ReadsBeforeLeaving ==
  decision.op # "read" /\ (decision.shows \/ (~doc.read /\ (compose \/ Here = first_url)))

\* Where an iteration goes once the page is judged and read.
OnwardsFrom(op) == IF op = "done" THEN "finish" ELSE IF op = "read" THEN "read" ELSE "build"

\* The loop after the decision: a failed page needs a browser over HTTP and
\* ends a run that had just committed; walls come next, then what the page
\* shows is read before it is left.
Judge ==
  /\ pc = "judge"
  /\ site_failure' = JudgedSite
  \* the likelier of the two readings stands
  /\ page_failed' \in IF decision.fails /\ decision.shows THEN BOOLEAN ELSE {decision.fails}
  /\ committing' = FALSE
  /\ sent' = IF sent = "sent" THEN (IF page_failed' THEN "doubtful" ELSE "no") ELSE sent
  /\ IF page_failed' /\ task.http THEN Ends("needs_browser")
     ELSE IF committing /\ page_failed' THEN \E s \in FailureStatus(site_failure') : Stops(s)
     ELSE IF decision.wall # "none" THEN Goto("wall")
     ELSE IF ReadsBeforeLeaving THEN Goto("leaving")
     ELSE Goto(OnwardsFrom(decision.op))
  /\ decision' = [decision EXCEPT !.fails = FALSE, !.shows = FALSE]
  /\ UNCHANGED <<task, browser, seen, picked, redecided, hung_page_reopened,
                 blank_opening_checked, challenge_reloads, stall, reading, deeds, held>>

\* A bot check, or a wall that offers nothing, may clear by itself.  A bot
\* check offering nothing is reloaded, once for each address.
WallStands ==
  IF decision.wall = "bot" THEN Stops("blocked") ELSE Stops("needs_login")
Wall ==
  /\ pc = "wall"
  /\ LET waits == decision.wall = "bot" \/ obs \in Bare IN
     \/ waits /\ page # obs /\ Goto("head") /\ UNCHANGED <<page, moved, challenge_reloads>>
     \/ /\ waits => page = obs
        /\ decision.wall = "bot" /\ obs \in Bare /\ Here \notin challenge_reloads
        /\ challenge_reloads' = challenge_reloads \cup {Here}
        /\ \E v \in Views : UrlOf[v] = Here /\ Load(v)
        /\ Goto("reload")
     \/ /\ waits => page = obs
        /\ ~(decision.wall = "bot" /\ obs \in Bare /\ Here \notin challenge_reloads)
        /\ WallStands /\ UNCHANGED <<page, moved, challenge_reloads>>
  /\ UNCHANGED <<task, moves, seen, deciding, site_failure, page_failed, blank_opening_checked,
                 stall, reading, deeds, sent, held>>

\* `reload_challenge` after the reload: the wall moved, or it stands.
Reloaded ==
  /\ pc = "reload"
  /\ IF page # obs THEN Goto("head") ELSE Stops("blocked")
  /\ UNCHANGED <<task, browser, seen, deciding, site, stall, reading, deeds, sent, held>>

----------------------------------------------------------------------------
(* Reading.                                                                 *)

\* `Agent::read`: what was read, and whether it is new evidence.  New evidence
\* renews the stall's budgets.
Read(progressed) ==
  IF page_failed
    THEN ~progressed /\ UNCHANGED <<doc, notes, compose, next_read, evidence_reads>>
    ELSE /\ doc' = [doc EXCEPT !.read = TRUE] /\ next_read' = (next_read \/ Here = UrlOf[NextPage])
         /\ \/ ~progressed /\ UNCHANGED <<notes, compose>>
            \/ notes' = TRUE /\ compose' \in BOOLEAN
         /\ evidence_reads' = evidence_reads + (IF progressed THEN 1 ELSE 0)
         /\ progressed => evidence_reads < MaxEvidence

Renewed(progressed) ==
  IF progressed THEN unchanged' = 0 /\ recoveries' = 0 /\ idleSteps' = 0
                ELSE UNCHANGED <<unchanged, recoveries, idleSteps>>

\* The page is read before the action Jev chose leaves it.
ReadLeaving ==
  /\ pc = "leaving"
  /\ \E progressed \in BOOLEAN : Read(progressed) /\ Renewed(progressed)
  /\ Goto(OnwardsFrom(decision.op))
  /\ UNCHANGED <<task, browser, obs, first_url, deciding, site, reached, landing, feedback, deeds, sent, held>>

\* `step` of a READ: the read is a step, and progress only if it added evidence.
StepRead ==
  /\ pc = "read"
  /\ \E progressed \in BOOLEAN :
       /\ Read(progressed)
       /\ recoveries' = IF progressed THEN 0 ELSE recoveries
       /\ CountProgress(progressed, "head")
  /\ acted' = TRUE
  /\ UNCHANGED <<task, browser, obs, first_url, deciding, site, reached, landing, feedback, written, missing, carried_out, pager_followed, sent, held>>

----------------------------------------------------------------------------
(* Building an action and taking it.                                        *)

\* `action` refuses: a field without a value, a download ruled out, a lasting
\* change nobody asked for, a select without options.  Jev picks again.
BuildUnsure ==
  /\ pc = "build"
  /\ IF decision.op = "fill"
       THEN \/ missing' = missing \cup {Here} /\ Recovers("needs_input", "head")
            \/ missing' = missing /\ Recovers("stuck", "head")
       ELSE missing' = missing /\ Recovers("stuck", "head")
  /\ UNCHANGED <<task, browser, seen, deciding, site, stall, reading, written, acted,
                 carried_out, pager_followed, sent, held>>

\* `action` stops the run: a commit not authorized or not asked for, or an
\* input the run was not given.  A fetched page takes no typing.
BuildStops ==
  /\ pc = "build"
  /\ \/ decision.op = "fill" /\ task.http /\ Ends("needs_browser")
     \/ decision.op \in Gated /\ Stops("needs_confirmation")
     \/ decision.op = "fill" /\ Stops("needs_login")
     \/ \E s \in {"needs_input", "stuck"} : Stops(s)
  /\ UNCHANGED <<task, browser, seen, deciding, site, stall, reading, deeds, sent, held>>

\* The action is built.  `gate_question` lets a commit through only in an
\* authorized run, and marks it.
Built ==
  /\ pc = "build" /\ ~(decision.op = "fill" /\ task.http)
  /\ redecided' = FALSE
  /\ committing' \in IF decision.op \in Gated THEN {FALSE, task.authorized} ELSE {committing}
  /\ Goto("acting")
  /\ UNCHANGED <<task, browser, seen, decision, picked, hung_page_reopened, site, stall,
                 reading, deeds, sent, held>>

\* What a step leaves alone, whatever came of its action.
StepFrame == UNCHANGED <<task, moves, obs, first_url, decision, picked, redecided, committing,
                         page_failed, blank_opening_checked, challenge_reloads, reached,
                         evidence_reads, recoveries, reading, missing, pager_followed, held>>

\* The browser performed the action, and the page may have changed by it.  A
\* value never written there is progress by itself, and any other change is
\* judged by the page state it lands on.
Performed ==
  LET edits == decision.op = "fill" /\ Here \notin written IN
  /\ acted' = TRUE
  /\ carried_out' \in IF decision.op = "other" THEN {carried_out, TRUE} ELSE {TRUE}
  /\ written' = IF decision.op = "fill" THEN written \cup {Here} ELSE written
  /\ sent' = IF committing THEN "sent" ELSE sent
  /\ \E changed \in BOOLEAN :
       /\ \/ ~changed /\ UNCHANGED <<page, moved, doc>>
          \/ changed /\ (\E v \in Views : Load(v)) /\ UNCHANGED doc
          \/ /\ changed /\ \E v \in Views : Redraw(v)
             /\ doc' \in {doc, [doc EXCEPT !.read = FALSE]}
             /\ decision.op # "other" => doc'.read = FALSE
       /\ \/ edits /\ landing' = landing /\ \E new \in BOOLEAN : CountProgress(new, "head")
          \/ /\ ~edits /\ (changed \/ decision.op = "other")
             /\ landing' = TRUE /\ Goto("head") /\ UNCHANGED <<unchanged, idleSteps>>
          \/ /\ ~edits /\ (~changed \/ decision.op = "fill")
             /\ landing' = landing /\ CountProgress(FALSE, "head")
  /\ StepFrame /\ UNCHANGED <<hung_page_reopened, site_failure>>

\* The browser did not: the step counts as one that moved nothing.  A click on
\* a page that changed meanwhile leaves what was read out of date.
Unperformed ==
  /\ acted' = TRUE /\ landing' = landing
  /\ doc' = IF decision.op = "click" /\ moved = "redrawn"
              THEN [doc EXCEPT !.read = FALSE] ELSE doc
  /\ CountProgress(FALSE, "head")
  /\ StepFrame
  /\ UNCHANGED <<page, moved, written, carried_out, sent, hung_page_reopened>>

\* `act` reaches a control only in the document it was observed in.
Act ==
  /\ pc = "acting" /\ ~(decision.op \in Targeted /\ moved = "loaded")
  /\ Performed

ActFails ==
  /\ pc = "acting"
  /\ \/ decision.op = "other" /\ UNCHANGED site_failure
     \/ /\ decision.op = "navigate"
        /\ \E v \in Views : site_failure' = [url |-> UrlOf[v], cause |-> "navigation"]
  /\ Unperformed

\* The control is gone or redrawn, or another element lies over it.
Refused ==
  /\ pc = "acting"
  /\ \/ decision.op \in Targeted /\ moved # "no" /\ Goto("twin")
     \/ decision.op = "click" /\ Goto("covered")
     \/ decision.op = "fill" /\ moved = "no" /\ Goto("twin")
  /\ UNCHANGED <<task, browser, seen, deciding, site, stall, reading, deeds, sent, held>>

\* Mutant: a control that looks the same is acted on in any document.
TwinAnywhere == TRUE
\* `act_on_twin`: the decision is inherited only in the document it was made on.
TwinStands == moved # "loaded"

ActOnTwin ==
  /\ pc = "twin"
  /\ TwinStands /\ UrlOf[page] = Here
  /\ Performed

\* `click_where_seen`: a click at the place Jev sees, on the page as observed.
ClickWhereSeen ==
  /\ pc = "covered" /\ moved = "no"
  /\ Performed

GivesUpTarget ==
  /\ pc \in {"twin", "covered"} /\ UNCHANGED site_failure
  /\ Unperformed

\* `may_reopen`: once, and never after a commit the page may have received.
MayReopen == ~hung_page_reopened /\ (task.authorized => decision.op \notin Gated)

\* The page stopped answering under the action.
Hangs ==
  /\ pc = "acting"
  /\ sent' = IF committing THEN "doubtful" ELSE sent
  /\ IF MayReopen
       THEN hung_page_reopened' = TRUE /\ acted' = TRUE /\ Goto("reopen")
       ELSE Ends("unavailable") /\ UNCHANGED <<hung_page_reopened, acted>>
  /\ UNCHANGED <<task, browser, seen, decision, picked, redecided, committing, site, stall,
                 reading, written, missing, carried_out, pager_followed, held>>

\* `reopen_hung_page`, on the address the tab is at.
Reopen ==
  /\ pc = "reopen"
  /\ \E v \in Views : Load(v)
  /\ Goto("head")
  /\ UNCHANGED <<task, moves, seen, deciding, site, stall, reading, deeds, sent, held>>

----------------------------------------------------------------------------
(* DONE, and how a run ends.                                                *)

\* `finish`, up to its read: Jev says DONE on what is not done.
Finish ==
  /\ pc = "finish"
  /\ \/ written # {} /\ Stops("needs_confirmation") /\ UNCHANGED notes
     \/ WantsImage /\ task.http /\ Ends("needs_browser") /\ UNCHANGED notes
     \/ /\ task.intent = "carried_out" /\ ~carried_out /\ ~task.schema
        /\ notes' = FALSE
        /\ IF task.http THEN Ends("needs_browser") ELSE Recovers("stuck", "head")
     \/ carried_out /\ Recovers("stuck", "head") /\ UNCHANGED notes
     \/ /\ ~(WantsImage /\ task.http)
        /\ task.intent = "carried_out" => carried_out \/ task.schema
        /\ Goto("report") /\ UNCHANGED notes
  /\ UNCHANGED <<task, browser, seen, deciding, site, stall, compose, feedback,
                 next_read, deeds, sent, held>>

\* A page not read is read before the run answers; with nothing read, a failed
\* page ends the run as its failure.
FinishReads ==
  /\ pc = "report"
  /\ IF task.intent # "image" /\ ~task.schema /\ (~notes \/ ~doc.read)
       THEN \E progressed \in BOOLEAN : Read(progressed) /\ Renewed(progressed)
       ELSE UNCHANGED <<doc, notes, compose, next_read, evidence_reads, unchanged, recoveries,
                        idleSteps>>
  /\ IF ~notes' /\ site_failure # None /\ site_failure.url = Here
       THEN \E s \in FailureStatus(site_failure) : Stops(s)
       ELSE Goto("list")
  /\ UNCHANGED <<task, browser, obs, first_url, deciding, site, reached, landing, feedback, deeds, sent, held>>

\* `unread_list_pages`: the list was seen and noted, and its next page is not read.
UnreadList(noted) ==
  noted /\ reached[Front] # -1 /\ ~next_read

\* Mutant: nothing read answers any task.
AnswersFromNothing(noted) == TRUE
\* A task to be told something is not done on nothing read.
SomethingRead(noted) == task.schema \/ ~WantsText \/ noted

\* The screenshot of a drawn page may be read; then the list's next page is
\* opened, once, by the code's own decision.
FinishList ==
  /\ pc = "list"
  /\ \/ UNCHANGED <<notes, compose>>
     \/ /\ task.intent # "image" /\ ~task.schema /\ ~page_failed
        /\ notes' = TRUE /\ compose' = TRUE
  /\ IF ~task.schema /\ task.every_page /\ UnreadList(notes') /\ ~pager_followed
       THEN /\ pager_followed' = TRUE
            /\ decision' = [NoDecision EXCEPT !.op = "navigate"]
            /\ Goto("build")
       ELSE /\ UNCHANGED <<pager_followed, decision>>
            /\ IF SomethingRead(notes') THEN Goto("conclude") ELSE Recovers("stuck", "head")
  /\ UNCHANGED <<task, browser, seen, picked, redecided, committing, hung_page_reopened, site,
                 stall, feedback, next_read, written, missing, acted, carried_out,
                 sent, held>>

\* A conclusion is asked about by the caller's `until`, if there is one.
Concludes(s) ==
  IF task.until THEN pc' = "until" /\ ending' = s /\ UNCHANGED <<asking, status>> ELSE Ends(s)

\* `conclude_attempt` on a draft whose checks reject it: another draft than the
\* one rejected before recovers.  The same one, or a draft that could not be
\* checked, ends the run with what holds.
ConcludeRejected ==
  /\ pc = "conclude" /\ notes /\ task.intent # "image" /\ (compose \/ WantsText)
  /\ compose' = TRUE
  /\ \/ \E d \in Drafts \ {feedback} :
          /\ ~task.schema /\ feedback' = d
          /\ Recovers("unverified", "head")
     \/ UNCHANGED feedback /\ Concludes("unverified")
  /\ UNCHANGED <<task, browser, seen, deciding, site, stall, notes, next_read, deeds, sent, held>>

\* `conclude_attempt` on an answer, or on none to give.
ConcludeAnswered ==
  /\ pc = "conclude"
  /\ \/ task.intent # "image" /\ feedback' = None
     \/ (task.intent = "image" \/ ~compose) /\ UNCHANGED feedback
  /\ LET part == task.every_page /\ UnreadList(notes) IN
     \/ ~part /\ Concludes("complete")
     \/ (part \/ task.schema) /\ Concludes("unverified")
  /\ UNCHANGED <<task, browser, seen, deciding, site, stall, notes, compose, next_read, deeds,
                 sent, held>>

Until ==
  /\ pc = "until"
  /\ \/ held' = TRUE /\ Ends(ending) /\ UNCHANGED <<acted, unchanged, idleSteps>>
     \/ UNCHANGED held /\ acted' = TRUE /\ CountProgress(FALSE, "head")
  /\ UNCHANGED <<task, browser, seen, deciding, site, reached, evidence_reads, recoveries,
                 landing, reading, written, missing, carried_out, pager_followed, sent>>

\* `stopped`: what was read is written up, and a composition that passes its
\* checks answers a run stopped as unverified.
Stopped ==
  /\ pc = "stopping"
  /\ \/ Ends(ending)
     \/ ending = "unverified" /\ notes /\ compose /\ Ends("complete")
  /\ UNCHANGED <<task, browser, seen, deciding, site, stall, reading, deeds, sent, held>>

\* A limit, checked before each call the run pays for, or the deadline around
\* all of it, the report of a stop included.
LimitHits ==
  /\ task.limited /\ pc \notin Synchronous
  /\ \/ pc # "stopping" /\ Stops("budget_exceeded")
     \/ Ends("budget_exceeded")
  /\ UNCHANGED <<task, browser, seen, deciding, site, stall, reading, deeds, sent, held>>

\* Over HTTP any call on the page can meet what only a browser can do.
NeedsBrowser ==
  /\ task.http /\ pc \notin Synchronous \cup {"stopping", "until"}
  /\ Ends("needs_browser")
  /\ UNCHANGED <<task, browser, seen, deciding, site, stall, reading, deeds, sent, held>>

\* A browser or a provider fails the call the loop awaits.  "unavailable" stands
\* for every such end that is no error.
Fails ==
  /\ task.fails /\ pc \notin Synchronous \cup {"stopping", "until"}
  /\ \E s \in {"unavailable", "error"} : Ends(s)
  /\ UNCHANGED <<task, browser, seen, deciding, site, stall, reading, deeds, sent, held>>

----------------------------------------------------------------------------
\* What the loop itself does next.
LoopSteps ==
  \/ Observe \/ HttpWaits \/ BlankWaits \/ Settle \/ Recover \/ AskJevAgain
  \/ Decide \/ JevDecides \/ Judge \/ Wall \/ Reloaded \/ ReadLeaving \/ StepRead
  \/ BuildUnsure \/ BuildStops \/ Built
  \/ Act \/ ActFails \/ Refused \/ ActOnTwin \/ ClickWhereSeen \/ GivesUpTarget \/ Reopen
  \/ Finish \/ FinishReads \/ FinishList \/ ConcludeRejected \/ ConcludeAnswered \/ Until
  \/ Stopped
Environment == PageMoves \/ RedrawDrops \/ Hangs \/ NeedsBrowser \/ LimitHits \/ Fails
Over == pc = "ended" /\ UNCHANGED vars

Next == LoopSteps \/ Environment \/ Over
Spec == Init /\ [][Next]_vars
\* Every call the loop awaits returns, by its own timeout if by nothing else.
FairSpec == Spec /\ WF_vars(LoopSteps)

----------------------------------------------------------------------------
(* Properties.                                                              *)

\* A run ends though nothing limits it and whatever Jev chooses: the stall rule
\* and the recovery budget are renewed only by page states, evidence and values
\* that are new (`count_progress`, `settle`, `recover`).
RunEnds == <>(pc = "ended")

\* Between two steps that moved the run on there are only so many that did not,
\* however recoveries, landings and unsure picks interleave.
StallBounded == idleSteps <= (MaxRecoveries + 1) * UnchangedActions

\* An authorized commit whose landing failed, or whose page hung under it, is
\* the last thing the run does: no later step can send it again.
CommitNotResent ==
  sent = "doubtful" => pc \notin {"build", "acting", "twin", "covered", "reopen"}

\* A commit reaches only the document its gate judged, though the page may load
\* another while Jev answers and a redrawn control is looked for.
CommitInItsDocument ==
  [][(committing /\ sent' = "sent" /\ sent # "sent") =>
       (decision.op = "navigate" \/ moved # "loaded")]_vars

\* A run asked to tell something completes only with something read, whichever
\* way it ended.
CompleteWasRead == status = "complete" /\ WantsText /\ ~task.schema => notes

\* A run that ends complete has read what it tells (`finish`, `stopped`).
EndsAsRead == TypeOK /\ CompleteWasRead

\* A commit is made once, where it was judged: one in doubt is the last thing the
\* run does, and none reaches a document its gate did not see (`act_on_twin`,
\* `note_effect`, `reopen_hung_page`).
CommitsOnce == []CommitNotResent /\ CommitInItsDocument

\* What the documentation promises of `until`: only a run it held for is complete.
CompleteMeansUntil == status = "complete" /\ task.until => held
=============================================================================
