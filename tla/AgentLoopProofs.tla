---------------------------- MODULE AgentLoopProofs ----------------------------
(***************************************************************************)
(* Proofs about AgentLoop, for every site, every task, every answer of Jev *)
(* and every budget: a run never goes long without getting anywhere, a     *)
(* commit in doubt is never followed by another action, and a run that     *)
(* completes has read what it tells.                                       *)
(***************************************************************************)
EXTENDS AgentLoop, TLAPS

\* The types, one part per group of variables.
BrowserOK == page \in Views /\ moved \in {"no", "redrawn", "loaded"} /\ moves \in 0..task.moves
SeenOK ==
  /\ obs \in Views /\ first_url \in {None} \cup Views
  /\ doc \in [waited : BOOLEAN, blanked : BOOLEAN, read : BOOLEAN, judged : BOOLEAN]
DecidingOK ==
  /\ decision \in Decisions /\ picked \in {None} \cup [key : Views, of : Decisions]
  /\ redecided \in BOOLEAN /\ committing \in BOOLEAN /\ hung_page_reopened \in BOOLEAN
SiteOK ==
  /\ site_failure \in {None} \cup Failures /\ page_failed \in BOOLEAN
  /\ blank_opening_checked \in BOOLEAN /\ challenge_reloads \subseteq Views
StallOK ==
  /\ reached \in [Views -> {-1} \cup 0..MaxEvidence] /\ evidence_reads \in 0..MaxEvidence
  /\ unchanged \in 0..UnchangedActions /\ recoveries \in 0..MaxRecoveries + 1
  /\ landing \in BOOLEAN /\ idleSteps \in Nat
ReadingOK == notes \in BOOLEAN /\ compose \in BOOLEAN /\ feedback \in {None} \cup Drafts /\ next_read \in BOOLEAN
DeedsOK ==
  /\ written \subseteq Views /\ missing \subseteq Views
  /\ acted \in BOOLEAN /\ carried_out \in BOOLEAN /\ pager_followed \in BOOLEAN
FrameOK ==
  /\ asking \in [gives_up_as : {"stuck", "needs_input", "unverified"}, back : {"head", "decide"}]
  /\ ending \in Statuses /\ status \in Statuses \cup {None}
RestOK == task \in Tasks /\ pc \in Points /\ sent \in {"no", "sent", "doubtful"} /\ held \in BOOLEAN
Types == BrowserOK /\ SeenOK /\ DecidingOK /\ SiteOK /\ StallOK /\ ReadingOK /\ DeedsOK /\ FrameOK /\ RestOK

\* The stall's budgets: what is counted since the run last got on is what the
\* recoveries spent and the steps since the last of them.
Budgets ==
  /\ unchanged < UnchangedActions \/ pc \in {"recover", "stopping", "ended"}
  /\ recoveries <= MaxRecoveries \/ (pc \in {"stopping", "ended"} /\ unchanged = 0)
  /\ idleSteps <= recoveries * UnchangedActions + unchanged

\* A commit: from its gate to the judging of the page it landed on.
Sending == {"acting", "twin", "covered"}
Landing == {"head", "http", "blank", "seen", "decide", "deciding", "judge", "recover", "asking", "stopping", "ended"}
Commits ==
  /\ committing => pc \in Sending \cup Landing
  /\ committing /\ pc \in Sending => task.authorized /\ decision.op \in Gated
  /\ sent = "sent" => committing /\ pc \in Landing
  /\ sent = "doubtful" => pc \in {"stopping", "ended"}

\* What an ending rests on.
Endings ==
  /\ status # None => pc = "ended"
  /\ pc = "stopping" => ending # "complete"
  /\ pc = "conclude" \/ (pc = "until" /\ ending = "complete") => SomethingRead(notes)
  /\ CompleteWasRead

LoopInv == Types /\ Budgets /\ Commits /\ Endings

----------------------------------------------------------------------------
(* What a step leaves alone.                                               *)

\* A group of variables a step does not touch keeps its types.
LEMMA Unmoved ==
  ASSUME LoopInv, task' = task
  PROVE  /\ UNCHANGED browser => BrowserOK'
         /\ UNCHANGED seen => SeenOK'
         /\ UNCHANGED deciding => DecidingOK'
         /\ UNCHANGED site => SiteOK'
         /\ UNCHANGED stall => StallOK'
         /\ UNCHANGED reading => ReadingOK'
         /\ UNCHANGED deeds => DeedsOK'
<1>1. UNCHANGED browser => BrowserOK'
  BY DEF LoopInv, Types, BrowserOK, browser
<1>2. UNCHANGED seen => SeenOK'
  BY DEF LoopInv, Types, SeenOK, seen
<1>3. UNCHANGED deciding => DecidingOK'
  BY DEF LoopInv, Types, DecidingOK, deciding
<1>4. UNCHANGED site => SiteOK'
  BY DEF LoopInv, Types, SiteOK, site
<1>5. UNCHANGED stall => StallOK'
  BY DEF LoopInv, Types, StallOK, stall
<1>6. UNCHANGED reading => ReadingOK'
  BY DEF LoopInv, Types, ReadingOK, reading
<1>7. UNCHANGED deeds => DeedsOK'
  BY DEF LoopInv, Types, DeedsOK, deeds
<1> QED BY <1>1, <1>2, <1>3, <1>4, <1>5, <1>6, <1>7

\* The run goes on to another point, stops, ends or recovers.
LEMMA Goes ==
  ASSUME LoopInv, NEW p, Goto(p)
  PROVE  FrameOK' /\ pc' = p /\ status' = status /\ ending' = ending
BY DEF LoopInv, Types, FrameOK, Goto, frame

LEMMA StopsAs ==
  ASSUME LoopInv, NEW s \in Statuses, Stops(s)
  PROVE  FrameOK' /\ pc' = "stopping" /\ status' = status /\ ending' = s
BY DEF LoopInv, Types, FrameOK, Stops

LEMMA RecoversAs ==
  ASSUME LoopInv, NEW s \in {"stuck", "needs_input", "unverified"}, NEW back \in {"head", "decide"}, Recovers(s, back)
  PROVE  FrameOK' /\ pc' = "recover" /\ status' = status /\ ending' = ending
BY DEF LoopInv, Types, FrameOK, Recovers

LEMMA EndsAs ==
  ASSUME LoopInv, NEW s \in Statuses, Ends(s)
  PROVE  FrameOK' /\ pc' = "ended" /\ status' \in Statuses /\ (status' = "complete" => s = "complete")
<1>1. Reported(s) \subseteq Statuses /\ ("complete" \in Reported(s) => s = "complete")
  BY DEF Reported, Statuses
<1> QED BY <1>1 DEF LoopInv, Types, FrameOK, Ends

LEMMA Product ==
  ASSUME NEW a \in Nat, NEW b \in Nat
  PROVE  a * b \in Nat
OBVIOUS

\* The rest of the budget is as it was, unless the run leaves a recovery.
LEMMA BudgetsStand ==
  ASSUME LoopInv, UNCHANGED <<unchanged, recoveries, idleSteps>>,
         pc \notin {"recover", "stopping", "ended"} \/ pc' \in {"stopping", "ended"} \/ pc' = pc
  PROVE  Budgets'
BY DEF LoopInv, Budgets

\* The stall rule counts a step, and asks for a recovery when it has counted enough.
LEMMA BudgetsCount ==
  ASSUME LoopInv, pc \notin {"recover", "stopping", "ended"}, NEW progressed \in BOOLEAN, NEW back \in {"head", "decide"},
         CountProgress(progressed, back), recoveries' = recoveries \/ (progressed /\ recoveries' = 0)
  PROVE  /\ Budgets' /\ unchanged' \in 0..UnchangedActions /\ idleSteps' \in Nat /\ recoveries' \in 0..MaxRecoveries + 1
         /\ FrameOK' /\ pc' \in {back, "recover"} /\ status' = status /\ ending' = ending
<1>1. /\ unchanged \in Nat /\ unchanged < UnchangedActions /\ recoveries \in Nat /\ recoveries <= MaxRecoveries
      /\ idleSteps \in Nat /\ UnchangedActions \in Nat /\ UnchangedActions > 0 /\ MaxRecoveries \in Nat
  BY LoopAssumption DEF LoopInv, Types, StallOK, Budgets
<1> DEFINE R == recoveries * UnchangedActions
<1>2. R \in Nat /\ idleSteps <= R + unchanged
  BY <1>1 DEF LoopInv, Budgets
<1> DEFINE counted == IF progressed THEN 0 ELSE unchanged + 1
<1>3. /\ unchanged' = counted /\ idleSteps' = (IF progressed THEN 0 ELSE idleSteps + 1)
      /\ (IF counted >= UnchangedActions THEN Recovers("stuck", back) ELSE Goto(back))
  BY DEF CountProgress
<1>4. counted \in 0..UnchangedActions
  BY <1>1
<1>5. FrameOK' /\ pc' = (IF counted >= UnchangedActions THEN "recover" ELSE back) /\ status' = status /\ ending' = ending
  BY <1>3, Goes, RecoversAs
<1>6. CASE progressed
  <2>1. unchanged' = 0 /\ idleSteps' = 0 /\ recoveries' \in Nat /\ recoveries' <= MaxRecoveries
    BY <1>1, <1>3, <1>6
  <2>2. recoveries' * UnchangedActions \in Nat
    BY <1>1, <2>1, Product
  <2> DEFINE Q == recoveries' * UnchangedActions
  <2>3. 0 <= Q + 0
    <3> HIDE DEF Q
    <3> QED BY <2>2 DEF Q
  <2>4. Budgets'
    BY <1>1, <2>1, <2>3 DEF Budgets
  <2> QED BY <1>1, <1>5, <2>1, <2>4
<1>7. CASE ~progressed
  <2>1. unchanged' = unchanged + 1 /\ idleSteps' = idleSteps + 1 /\ recoveries' = recoveries
    BY <1>3, <1>7
  <2>2. idleSteps' <= R + unchanged'
    BY <1>1, <1>2, <2>1
  <2>3. recoveries' * UnchangedActions = R
    BY <2>1
  <2>4. unchanged' < UnchangedActions \/ pc' = "recover"
    BY <1>1, <1>3, <1>5, <2>1
  <2>5. Budgets'
    BY <1>1, <2>1, <2>2, <2>3, <2>4 DEF Budgets
  <2> QED BY <1>1, <1>5, <2>1, <2>5
<1> QED BY <1>6, <1>7

\* The budgets are renewed.
LEMMA BudgetsRenewed ==
  ASSUME LoopInv, pc \notin {"recover", "stopping", "ended"}, NEW progressed \in BOOLEAN, Renewed(progressed)
  PROVE  Budgets' /\ unchanged' \in 0..UnchangedActions /\ recoveries' \in 0..MaxRecoveries + 1 /\ idleSteps' \in Nat
<1>1. UnchangedActions \in Nat /\ UnchangedActions > 0 /\ MaxRecoveries \in Nat
  BY LoopAssumption
<1>2. CASE progressed
  <2>1. unchanged' = 0 /\ recoveries' = 0 /\ idleSteps' = 0
    BY <1>2 DEF Renewed
  <2>2. 0 * UnchangedActions = 0
    BY <1>1
  <2> QED BY <1>1, <2>1, <2>2 DEF Budgets
<1>3. CASE ~progressed
  BY <1>3, BudgetsStand DEF Renewed, LoopInv, Types, StallOK
<1> QED BY <1>2, <1>3

\* No commit is under way here, or the run goes on towards the page it lands on.
LEMMA CommitsNone ==
  ASSUME LoopInv, pc \notin Sending \cup Landing, UNCHANGED <<committing, sent>>
  PROVE  Commits'
BY DEF LoopInv, Commits, Landing

LEMMA CommitsLand ==
  ASSUME LoopInv, UNCHANGED <<committing, sent>>, pc' \in Landing, pc \in {"stopping", "ended"} => pc' \in {"stopping", "ended"}
  PROVE  Commits'
BY DEF LoopInv, Commits, Landing, Sending

\* The run goes on: nothing is reported yet.
LEMMA EndingsOpen ==
  ASSUME LoopInv, pc # "ended", status' = status, pc' = "stopping" => ending' # "complete", pc' \notin {"conclude", "until"}
  PROVE  Endings'
<1>1. status = None /\ None # "complete"
  BY LoopAssumption DEF LoopInv, Endings, Statuses
<1> QED BY <1>1 DEF Endings, CompleteWasRead

LEMMA EndingsReport ==
  ASSUME LoopInv, task' = task, NEW s \in Statuses, Ends(s), s = "complete" => SomethingRead(notes')
  PROVE  Endings'
<1>1. pc' = "ended" /\ (status' = "complete" => s = "complete")
  BY EndsAs
<1> QED BY <1>1 DEF Endings, CompleteWasRead, SomethingRead, WantsText

----------------------------------------------------------------------------
(* The browser, and the page the loop observes.                            *)

DocType == [waited : BOOLEAN, blanked : BOOLEAN, read : BOOLEAN, judged : BOOLEAN]

LEMMA DocField ==
  ASSUME NEW d \in DocType, NEW b \in BOOLEAN
  PROVE  /\ [d EXCEPT !.waited = b] \in DocType /\ [d EXCEPT !.blanked = b] \in DocType
         /\ [d EXCEPT !.read = b] \in DocType /\ [d EXCEPT !.judged = b] \in DocType
BY DEF DocType

LEMMA FileIsDoc ==
  ASSUME LoopInv
  PROVE  OnFile \in DocType /\ doc \in DocType
BY DEF LoopInv, Types, SeenOK, DocType, OnFile, NewDocument

LEMMA BlankStaged ==
  ASSUME NEW v, NEW d \in DocType, BlankStage(v, d)
  PROVE  doc' \in DocType /\ pc' \in {"blank", "seen"}
<1>1. PICK b \in BOOLEAN : doc' = [d EXCEPT !.blanked = b]
  BY DEF BlankStage, DocType
<1>2. pc' \in {"blank", "seen"}
  BY DEF BlankStage
<1> QED BY <1>1, <1>2, DocField

LEMMA PageMovesKeeps ==
  ASSUME LoopInv, PageMoves
  PROVE  LoopInv'
<1>1. /\ task' = task /\ pc' = pc /\ UNCHANGED <<seen, deciding, site, stall, reading, deeds, frame, sent, held>>
  BY DEF PageMoves
<1>2. BrowserOK'
  <2>1. page' \in Views /\ moved' \in {"no", "redrawn", "loaded"}
    BY DEF PageMoves, Load, Redraw, LoopInv, Types, BrowserOK
  <2>2. task.moves \in Nat
    BY LoopAssumption DEF LoopInv, Types, RestOK, TaskOptions
  <2>3. moves' \in 0..task.moves
    BY <2>2 DEF PageMoves, LoopInv, Types, BrowserOK
  <2> QED BY <1>1, <2>1, <2>3 DEF BrowserOK
<1>3. FrameOK' /\ RestOK'
  BY <1>1 DEF LoopInv, Types, FrameOK, RestOK, frame
<1>4. Budgets' /\ Commits' /\ Endings'
  BY <1>1 DEF LoopInv, Budgets, Commits, Endings, CompleteWasRead, SomethingRead, WantsText, stall, deciding, reading, frame
<1> QED BY <1>1, <1>2, <1>3, <1>4, Unmoved DEF LoopInv, Types

LEMMA ObserveKeeps ==
  ASSUME LoopInv, Observe
  PROVE  LoopInv'
<1>1. /\ task' = task /\ pc = "head" /\ UNCHANGED <<site, stall, reading, deeds, frame, sent, held>>
      /\ UNCHANGED <<page, moves, picked, redecided, committing, hung_page_reopened>>
      /\ obs' = page /\ moved' = "no" /\ decision' = NoDecision
  BY DEF Observe
<1>2. doc' \in DocType /\ pc' \in {"http", "blank", "seen"}
  <2>1. CASE pc' = "http" /\ doc' = [OnFile EXCEPT !.waited = TRUE]
    BY <2>1, FileIsDoc, DocField
  <2>2. CASE BlankStage(page, [OnFile EXCEPT !.waited = @ \/ page \in Errors])
    <3>1. PICK b \in BOOLEAN : BlankStage(page, [OnFile EXCEPT !.waited = b])
      BY <2>2
    <3>2. [OnFile EXCEPT !.waited = b] \in DocType
      BY FileIsDoc, DocField
    <3> QED BY <3>1, <3>2, BlankStaged
  <2> QED BY <2>1, <2>2 DEF Observe
<1>3. BrowserOK' /\ SeenOK'
  <2>1. first_url' \in {None} \cup Views
    BY LoopAssumption DEF Observe, LoopInv, Types, SeenOK, BrowserOK
  <2> QED BY <1>1, <1>2, <2>1 DEF LoopInv, Types, BrowserOK, SeenOK, DocType
<1>4. DecidingOK'
  BY <1>1 DEF LoopInv, Types, DecidingOK, NoDecision, Decisions, Ops
<1>5. FrameOK' /\ RestOK'
  BY <1>1, <1>2 DEF LoopInv, Types, FrameOK, RestOK, frame, Points
<1>6. Budgets' /\ Commits' /\ Endings'
  BY <1>1, <1>2, BudgetsStand, CommitsLand, EndingsOpen DEF stall, frame, Landing
<1> QED BY <1>1, <1>3, <1>4, <1>5, <1>6, Unmoved DEF LoopInv, Types

LEMMA HttpWaitsKeeps ==
  ASSUME LoopInv, HttpWaits
  PROVE  LoopInv'
<1>1. /\ task' = task /\ pc = "http" /\ UNCHANGED <<browser, deciding, site, stall, reading, deeds, frame, sent, held, obs, first_url>>
  BY DEF HttpWaits
<1>2. doc' \in DocType /\ pc' \in {"head", "blank", "seen"}
  BY FileIsDoc, BlankStaged DEF HttpWaits
<1>3. SeenOK'
  BY <1>1, <1>2 DEF LoopInv, Types, SeenOK, DocType
<1>4. FrameOK' /\ RestOK'
  BY <1>1, <1>2 DEF LoopInv, Types, FrameOK, RestOK, frame, Points
<1>5. Budgets' /\ Commits' /\ Endings'
  BY <1>1, <1>2, BudgetsStand, CommitsLand, EndingsOpen DEF stall, deciding, frame, Landing
<1> QED BY <1>1, <1>3, <1>4, <1>5, Unmoved DEF LoopInv, Types

LEMMA BlankWaitsKeeps ==
  ASSUME LoopInv, BlankWaits
  PROVE  LoopInv'
<1>1. /\ task' = task /\ pc = "blank" /\ UNCHANGED <<seen, deciding, stall, reading, deeds, frame, sent, held>>
      /\ UNCHANGED <<moves, site_failure, page_failed, challenge_reloads>>
  BY DEF BlankWaits
<1>2. pc' \in {"head", "seen"} /\ blank_opening_checked' \in BOOLEAN /\ page' \in Views /\ moved' \in {"no", "redrawn", "loaded"}
  BY DEF BlankWaits, Load, LoopInv, Types, BrowserOK, SiteOK
<1>3. BrowserOK' /\ SiteOK'
  BY <1>1, <1>2 DEF LoopInv, Types, BrowserOK, SiteOK
<1>4. FrameOK' /\ RestOK'
  BY <1>1, <1>2 DEF LoopInv, Types, FrameOK, RestOK, frame, Points
<1>5. Budgets' /\ Commits' /\ Endings'
  BY <1>1, <1>2, BudgetsStand, CommitsLand, EndingsOpen DEF stall, deciding, frame, Landing
<1> QED BY <1>1, <1>3, <1>4, <1>5, Unmoved DEF LoopInv, Types

\* An address is a view of its own.
LEMMA Addressed ==
  ASSUME LoopInv
  PROVE  Here \in Views
BY LoopAssumption DEF LoopInv, Types, SeenOK, Here

LEMMA SettleKeeps ==
  ASSUME LoopInv, Settle
  PROVE  LoopInv'
<1> DEFINE last == reached[obs]
<1>1. /\ task' = task /\ pc = "seen" /\ UNCHANGED <<browser, seen, deciding, reading, deeds, sent, held>>
      /\ UNCHANGED <<page_failed, blank_opening_checked, challenge_reloads, evidence_reads>> /\ landing' = FALSE
  BY DEF Settle
<1>2. reached' \in [Views -> {-1} \cup 0..MaxEvidence]
  BY DEF Settle, LoopInv, Types, StallOK, SeenOK
<1>3. site_failure' \in {None} \cup Failures
  <2>1. [url |-> Here, cause |-> "http"] \in Failures
    BY Addressed DEF Failures
  <2>2. Noted \in {None} \cup Failures
    BY <2>1 DEF Noted, LoopInv, Types, SiteOK
  <2> QED BY <2>2 DEF Settle
<1>4. /\ Budgets' /\ unchanged' \in 0..UnchangedActions /\ recoveries' \in 0..MaxRecoveries + 1 /\ idleSteps' \in Nat
      /\ FrameOK' /\ pc' \in {"decide", "recover"} /\ status' = status /\ ending' = ending
  <2>1. CASE landing
    <3>0. CountProgress(IsProgress(last), "decide")
      BY <2>1 DEF Settle
    <3>1. PICK b \in BOOLEAN : CountProgress(b, "decide") /\ (b <=> IsProgress(last))
      <4>1. CASE IsProgress(last)
        <5>1. CountProgress(TRUE, "decide")
          BY <3>0, <4>1 DEF CountProgress
        <5> QED BY <4>1, <5>1
      <4>2. CASE ~IsProgress(last)
        <5>1. CountProgress(FALSE, "decide")
          BY <3>0, <4>2 DEF CountProgress
        <5> QED BY <4>2, <5>1
      <4> QED BY <4>1, <4>2
    <3>2. recoveries' = recoveries \/ (b /\ recoveries' = 0)
      BY <3>1 DEF Settle, IsProgress
    <3> QED BY <1>1, <3>1, <3>2, BudgetsCount
  <2>2. CASE ~landing
    <3>1. Goto("decide") /\ unchanged' = unchanged
      BY <2>2 DEF Settle
    <3>2. FrameOK' /\ pc' = "decide" /\ status' = status /\ ending' = ending
      BY <3>1, Goes
    <3>3. CASE last = -1
      <4>1. recoveries' = 0 /\ idleSteps' = 0
        BY <2>2, <3>3 DEF Settle
      <4>2. UnchangedActions \in Nat /\ MaxRecoveries \in Nat /\ unchanged \in 0..UnchangedActions /\ unchanged < UnchangedActions
        BY <1>1, LoopAssumption DEF LoopInv, Types, StallOK, Budgets
      <4>3. 0 * UnchangedActions = 0
        BY <4>2
      <4>4. Budgets'
        BY <3>1, <4>1, <4>2, <4>3 DEF Budgets
      <4> QED BY <3>1, <3>2, <4>1, <4>2, <4>4
    <3>4. CASE last # -1
      <4>1. recoveries' = recoveries /\ idleSteps' = idleSteps
        BY <2>2, <3>4 DEF Settle
      <4> QED BY <1>1, <3>1, <3>2, <4>1, BudgetsStand DEF LoopInv, Types, StallOK
    <3> QED BY <3>3, <3>4
  <2> QED BY <2>1, <2>2 DEF LoopInv, Types, StallOK
<1>5. SiteOK' /\ StallOK'
  BY <1>1, <1>2, <1>3, <1>4 DEF LoopInv, Types, SiteOK, StallOK
<1>6. RestOK'
  BY <1>1, <1>4 DEF LoopInv, Types, RestOK, Points
<1>7. Commits' /\ Endings'
  BY <1>1, <1>4, CommitsLand, EndingsOpen DEF deciding, Landing
<1> QED BY <1>1, <1>4, <1>5, <1>6, <1>7, Unmoved DEF LoopInv, Types

----------------------------------------------------------------------------
(* Recovery and the decision.                                              *)

LEMMA Distributes ==
  ASSUME NEW a \in Nat, NEW b \in Nat
  PROVE  (a + 1) * b = a * b + b
OBVIOUS

LEMMA RecoverKeeps ==
  ASSUME LoopInv, Recover
  PROVE  LoopInv'
<1>1. /\ task' = task /\ pc = "recover" /\ UNCHANGED <<browser, seen, deciding, site, deeds, sent, held>>
      /\ UNCHANGED <<reached, evidence_reads, landing, idleSteps, feedback, next_read>>
      /\ unchanged' = 0 /\ recoveries' = recoveries + 1
  BY DEF Recover, RecoverOrGiveUp
<1>2. /\ FrameOK' /\ status' = status /\ pc' \in {"asking", "stopping"} /\ (pc' = "stopping" => ending' # "complete")
      /\ recoveries' <= MaxRecoveries \/ pc' = "stopping"
  <2>1. CASE recoveries' <= MaxRecoveries /\ Goto("asking")
    BY <2>1, Goes
  <2>2. CASE \E s \in Statuses \ {"complete"} : Stops(s)
    BY <2>2, StopsAs
  <2>3. CASE site_failure # None /\ \E s \in FailureStatus(site_failure) : Stops(s)
    BY <2>2, <2>3 DEF FailureStatus, Statuses
  <2>4. CASE Stops(IF Unfilled THEN "needs_input" ELSE asking.gives_up_as)
    <3>1. asking.gives_up_as \in {"stuck", "needs_input", "unverified"}
      BY DEF LoopInv, Types, FrameOK
    <3> QED BY <2>2, <2>4, <3>1 DEF Statuses
  <2> QED BY <2>1, <2>3, <2>4 DEF Recover, RecoverOrGiveUp
<1>3. /\ recoveries \in Nat /\ recoveries <= MaxRecoveries /\ MaxRecoveries \in Nat /\ UnchangedActions \in Nat /\ UnchangedActions > 0
      /\ unchanged \in Nat /\ unchanged <= UnchangedActions /\ idleSteps \in Nat
  BY <1>1, LoopAssumption DEF LoopInv, Types, StallOK, Budgets
<1> DEFINE R == recoveries * UnchangedActions
<1>4. R \in Nat /\ idleSteps <= R + unchanged /\ recoveries' * UnchangedActions = R + UnchangedActions
  BY <1>1, <1>3, Product, Distributes DEF LoopInv, Budgets
<1>5. Budgets'
  <2>1. idleSteps <= R + UnchangedActions
    <3> HIDE DEF R
    <3> QED BY <1>3, <1>4
  <2>2. idleSteps' <= recoveries' * UnchangedActions + unchanged'
    <3> HIDE DEF R
    <3> QED BY <1>1, <1>3, <1>4, <2>1
  <2> QED BY <1>1, <1>2, <1>3, <2>2 DEF Budgets
<1>6. StallOK'
  BY <1>1, <1>3 DEF LoopInv, Types, StallOK
<1>7. ReadingOK'
  BY <1>1 DEF Recover, LoopInv, Types, ReadingOK
<1>8. RestOK'
  BY <1>1, <1>2 DEF LoopInv, Types, RestOK, Points
<1>9. Commits' /\ Endings'
  BY <1>1, <1>2, CommitsLand, EndingsOpen DEF deciding, Landing
<1> QED BY <1>1, <1>2, <1>5, <1>6, <1>7, <1>8, <1>9, Unmoved DEF LoopInv, Types

\* Jev chooses among what the page offers.
LEMMA ChoicesAre ==
  ASSUME LoopInv, NEW d \in Choices[task][obs]
  PROVE  d \in Decisions
BY LoopAssumption DEF LoopInv, Types, RestOK, SeenOK

LEMMA AskJevAgainKeeps ==
  ASSUME LoopInv, AskJevAgain
  PROVE  LoopInv'
<1>1. /\ task' = task /\ pc = "asking" /\ UNCHANGED <<browser, seen, site, stall, reading, deeds, sent, held>>
      /\ UNCHANGED <<decision, redecided, committing, hung_page_reopened, ending, status>>
      /\ pc' = asking.back /\ asking' = [gives_up_as |-> "stuck", back |-> "head"]
  BY DEF AskJevAgain
<1>2. pc' \in {"head", "decide"}
  BY <1>1 DEF LoopInv, Types, FrameOK
<1>3. DecidingOK'
  <2>1. PICK d \in Choices[task][obs] : picked' = [key |-> obs, of |-> [d EXCEPT !.wall = "none", !.shows = FALSE]]
    BY DEF AskJevAgain
  <2>2. [d EXCEPT !.wall = "none", !.shows = FALSE] \in Decisions
    <3>1. \A b \in BOOLEAN : [d EXCEPT !.wall = "none", !.shows = b] \in Decisions
      BY ChoicesAre DEF Decisions
    <3> QED BY <3>1
  <2>3. picked' \in [key : Views, of : Decisions]
    BY <2>1, <2>2 DEF LoopInv, Types, SeenOK
  <2> QED BY <1>1, <2>3 DEF LoopInv, Types, DecidingOK
<1>4. FrameOK' /\ RestOK'
  BY <1>1, <1>2 DEF LoopInv, Types, FrameOK, RestOK, Points
<1>5. Budgets' /\ Commits' /\ Endings'
  BY <1>1, <1>2, BudgetsStand, CommitsLand, EndingsOpen DEF stall, Landing
<1> QED BY <1>1, <1>3, <1>4, <1>5, Unmoved DEF LoopInv, Types

LEMMA DecideKeeps ==
  ASSUME LoopInv, Decide
  PROVE  LoopInv'
<1>1. /\ task' = task /\ pc = "decide" /\ UNCHANGED <<browser, seen, site, stall, reading, deeds, sent, held>>
      /\ UNCHANGED <<redecided, committing, hung_page_reopened>> /\ picked' = None
  BY DEF Decide
<1>2. FrameOK' /\ pc' \in {"judge", "deciding"} /\ status' = status
  BY Goes DEF Decide
<1>3. decision' \in Decisions
  <2>1. picked # None => picked.of \in Decisions
    BY DEF LoopInv, Types, DecidingOK
  <2> QED BY <2>1 DEF Decide, LoopInv, Types, DecidingOK
<1>4. DecidingOK'
  BY <1>1, <1>3 DEF LoopInv, Types, DecidingOK
<1>5. RestOK'
  BY <1>1, <1>2 DEF LoopInv, Types, RestOK, Points
<1>6. Budgets' /\ Commits' /\ Endings'
  BY <1>1, <1>2, BudgetsStand, CommitsLand, EndingsOpen DEF stall, Landing
<1> QED BY <1>1, <1>2, <1>4, <1>5, <1>6, Unmoved DEF LoopInv, Types

LEMMA JevDecidesKeeps ==
  ASSUME LoopInv, JevDecides
  PROVE  LoopInv'
<1>1. /\ task' = task /\ pc = "deciding" /\ UNCHANGED <<browser, site, stall, reading, deeds, sent, held>>
      /\ UNCHANGED <<obs, first_url, picked, redecided, committing, hung_page_reopened>>
      /\ doc' = [doc EXCEPT !.judged = TRUE]
  BY DEF JevDecides
<1>2. FrameOK' /\ pc' = "judge" /\ status' = status
  BY Goes DEF JevDecides
<1>3. SeenOK'
  <2>1. doc' \in DocType
    BY <1>1, FileIsDoc, DocField
  <2> QED BY <1>1, <2>1 DEF LoopInv, Types, SeenOK, DocType
<1>4. DecidingOK'
  BY <1>1, ChoicesAre DEF JevDecides, LoopInv, Types, DecidingOK
<1>5. RestOK'
  BY <1>1, <1>2 DEF LoopInv, Types, RestOK, Points
<1>6. Budgets' /\ Commits' /\ Endings'
  BY <1>1, <1>2, BudgetsStand, CommitsLand, EndingsOpen DEF stall, Landing
<1> QED BY <1>1, <1>2, <1>3, <1>4, <1>5, <1>6, Unmoved DEF LoopInv, Types

LEMMA RedrawDropsKeeps ==
  ASSUME LoopInv, RedrawDrops
  PROVE  LoopInv'
<1>1. /\ task' = task /\ pc \in {"deciding", "build"} /\ UNCHANGED <<browser, seen, site, stall, reading, deeds, sent, held>>
      /\ UNCHANGED <<decision, picked, committing, hung_page_reopened>> /\ redecided' = TRUE
  BY DEF RedrawDrops
<1>2. FrameOK' /\ pc' = "head" /\ status' = status
  BY Goes DEF RedrawDrops
<1>3. DecidingOK'
  BY <1>1 DEF LoopInv, Types, DecidingOK
<1>4. RestOK'
  BY <1>1, <1>2 DEF LoopInv, Types, RestOK, Points
<1>5. Budgets' /\ Commits' /\ Endings'
  BY <1>1, <1>2, BudgetsStand, CommitsLand, EndingsOpen DEF stall, Landing
<1> QED BY <1>1, <1>2, <1>3, <1>4, <1>5, Unmoved DEF LoopInv, Types

----------------------------------------------------------------------------
(* The page judged, its walls and its reading.                             *)

\* Where a decided iteration may go.
LEMMA OnwardsIs ==
  ASSUME NEW op
  PROVE  OnwardsFrom(op) \in {"finish", "read", "build"}
BY DEF OnwardsFrom

\* What a standing failure ends a run as is never an answer.
LEMMA FailureEnds ==
  ASSUME NEW f
  PROVE  FailureStatus(f) \subseteq Statuses \ {"complete"}
BY DEF FailureStatus, Statuses

LEMMA JudgeKeeps ==
  ASSUME LoopInv, Judge
  PROVE  LoopInv'
<1>1. /\ task' = task /\ pc = "judge" /\ UNCHANGED <<browser, seen, stall, reading, deeds, held>>
      /\ UNCHANGED <<picked, redecided, hung_page_reopened, blank_opening_checked, challenge_reloads>>
      /\ committing' = FALSE /\ site_failure' = JudgedSite
      /\ decision' = [decision EXCEPT !.fails = FALSE, !.shows = FALSE]
      /\ sent' = (IF sent = "sent" THEN (IF page_failed' THEN "doubtful" ELSE "no") ELSE sent)
  BY DEF Judge
<1>2. page_failed' \in BOOLEAN
  BY DEF Judge, LoopInv, Types, DecidingOK, Decisions
<1>3. site_failure' \in {None} \cup Failures
  <2>1. [url |-> Here, cause |-> "reported"] \in Failures
    BY Addressed DEF Failures
  <2> QED BY <1>1, <2>1 DEF JudgedSite, LoopInv, Types, SiteOK
<1>4. decision' \in Decisions
  <2>1. \A b \in BOOLEAN : [decision EXCEPT !.fails = b, !.shows = b] \in Decisions
    BY DEF LoopInv, Types, DecidingOK, Decisions
  <2> QED BY <1>1, <2>1
<1>5. /\ FrameOK' /\ (pc' = "ended" => Endings') /\ (pc' # "ended" => status' = status)
      /\ pc' \in {"ended", "stopping", "wall", "leaving", "finish", "read", "build"} /\ (pc' = "stopping" => ending' # "complete")
      /\ committing /\ page_failed' => pc' \in {"stopping", "ended"}
  <2>1. CASE page_failed' /\ task.http /\ Ends("needs_browser")
    BY <1>1, <2>1, EndsAs, EndingsReport DEF Statuses
  <2>2. CASE committing /\ page_failed' /\ \E s \in FailureStatus(site_failure') : Stops(s)
    BY <2>2, FailureEnds, StopsAs
  <2>3. CASE ~(committing /\ page_failed') /\ \E p \in {"wall", "leaving", "finish", "read", "build"} : Goto(p)
    BY <2>3, Goes
  <2> QED BY <2>1, <2>2, <2>3, OnwardsIs DEF Judge
<1>6. DecidingOK' /\ SiteOK'
  BY <1>1, <1>2, <1>3, <1>4 DEF LoopInv, Types, DecidingOK, SiteOK
<1>7. RestOK'
  BY <1>1, <1>2, <1>5 DEF LoopInv, Types, RestOK, Points
<1>8. Commits'
  <2>1. sent # "doubtful" /\ (sent = "sent" => committing)
    BY <1>1 DEF LoopInv, Commits
  <2>2. sent' # "sent" /\ (sent' = "doubtful" => committing /\ page_failed')
    BY <1>1, <2>1
  <2> QED BY <1>1, <1>5, <2>2 DEF Commits
<1>9. Budgets' /\ Endings'
  BY <1>1, <1>5, BudgetsStand, EndingsOpen DEF stall
<1> QED BY <1>1, <1>5, <1>6, <1>7, <1>8, <1>9, Unmoved DEF LoopInv, Types

LEMMA WallKeeps ==
  ASSUME LoopInv, Wall
  PROVE  LoopInv'
<1>1. /\ task' = task /\ pc = "wall" /\ UNCHANGED <<seen, deciding, stall, reading, deeds, sent, held>>
      /\ UNCHANGED <<moves, site_failure, page_failed, blank_opening_checked>>
  BY DEF Wall
<1>2. FrameOK' /\ pc' \in {"head", "reload", "stopping"} /\ (pc' = "stopping" => ending' # "complete") /\ status' = status
  <2>1. CASE Goto("head") \/ Goto("reload")
    BY <2>1, Goes
  <2>2. CASE WallStands
    BY <2>2, StopsAs DEF WallStands, Statuses
  <2> QED BY <2>1, <2>2 DEF Wall
<1>3. page' \in Views /\ moved' \in {"no", "redrawn", "loaded"}
  BY DEF Wall, Load, LoopInv, Types, BrowserOK
<1>4. challenge_reloads' \subseteq Views
  BY Addressed DEF Wall, LoopInv, Types, SiteOK
<1>5. BrowserOK' /\ SiteOK'
  BY <1>1, <1>3, <1>4 DEF LoopInv, Types, BrowserOK, SiteOK
<1>6. RestOK'
  BY <1>1, <1>2 DEF LoopInv, Types, RestOK, Points
<1>7. Budgets' /\ Commits' /\ Endings'
  BY <1>1, <1>2, BudgetsStand, CommitsNone, EndingsOpen DEF stall, deciding, Landing, Sending
<1> QED BY <1>1, <1>2, <1>5, <1>6, <1>7, Unmoved DEF LoopInv, Types

\* A step that only stops or ends the run, short of an answer.
LEMMA GivesUpKeeps ==
  ASSUME LoopInv, task' = task, pc # "ended", NEW s \in Statuses \ {"complete"}, Stops(s) \/ Ends(s),
         UNCHANGED <<browser, seen, deciding, site, stall, reading, deeds, sent, held>>
  PROVE  LoopInv'
<1>1. FrameOK' /\ pc' \in {"stopping", "ended"}
  BY StopsAs, EndsAs
<1>2. Endings'
  <2>1. CASE Stops(s)
    BY <2>1, StopsAs, EndingsOpen
  <2>2. CASE Ends(s)
    BY <2>2, EndingsReport
  <2> QED BY <2>1, <2>2
<1>3. RestOK'
  BY <1>1 DEF LoopInv, Types, RestOK, Points
<1>4. Budgets' /\ Commits'
  BY <1>1, BudgetsStand, CommitsLand DEF stall, deciding, Landing
<1> QED BY <1>1, <1>2, <1>3, <1>4, Unmoved DEF LoopInv, Types

LEMMA ReloadedKeeps ==
  ASSUME LoopInv, Reloaded
  PROVE  LoopInv'
<1>1. task' = task /\ pc = "reload" /\ UNCHANGED <<browser, seen, deciding, site, stall, reading, deeds, sent, held>>
  BY DEF Reloaded
<1>2. CASE Stops("blocked")
  BY <1>1, <1>2, GivesUpKeeps DEF Statuses
<1>3. CASE Goto("head")
  <2>1. FrameOK' /\ pc' = "head" /\ status' = status
    BY <1>3, Goes
  <2>2. RestOK'
    BY <1>1, <2>1 DEF LoopInv, Types, RestOK, Points
  <2>3. Budgets' /\ Commits' /\ Endings'
    BY <1>1, <2>1, BudgetsStand, CommitsNone, EndingsOpen DEF stall, deciding, Landing, Sending
  <2> QED BY <1>1, <2>1, <2>2, <2>3, Unmoved DEF LoopInv, Types
<1> QED BY <1>2, <1>3 DEF Reloaded

\* What a read leaves, and the notes it never takes back.
LEMMA ReadLeaves ==
  ASSUME LoopInv, NEW progressed \in BOOLEAN, Read(progressed)
  PROVE  /\ doc' \in DocType /\ notes' \in BOOLEAN /\ compose' \in BOOLEAN /\ next_read' \in BOOLEAN
         /\ evidence_reads' \in 0..MaxEvidence
<1>1. CASE page_failed
  BY <1>1, FileIsDoc DEF Read, LoopInv, Types, ReadingOK, StallOK
<1>2. CASE ~page_failed
  <2>1. doc' = [doc EXCEPT !.read = TRUE]
    BY <1>2 DEF Read
  <2>2. doc' \in DocType
    BY <2>1, FileIsDoc, DocField
  <2>3. next_read' = (next_read \/ Here = UrlOf[NextPage])
    BY <1>2 DEF Read
  <2>4. notes' \in BOOLEAN /\ compose' \in BOOLEAN
    BY <1>2 DEF Read, LoopInv, Types, ReadingOK
  <2>5. evidence_reads' \in 0..MaxEvidence
    BY <1>2, LoopAssumption DEF Read, LoopInv, Types, StallOK
  <2> QED BY <2>2, <2>3, <2>4, <2>5
<1> QED BY <1>1, <1>2

LEMMA ReadLeavingKeeps ==
  ASSUME LoopInv, ReadLeaving
  PROVE  LoopInv'
<1>1. /\ task' = task /\ pc = "leaving" /\ UNCHANGED <<browser, deciding, site, deeds, sent, held>>
      /\ UNCHANGED <<obs, first_url, reached, landing, feedback>>
  BY DEF ReadLeaving
<1>2. PICK progressed \in BOOLEAN : Read(progressed) /\ Renewed(progressed)
  BY DEF ReadLeaving
<1>3. FrameOK' /\ pc' \in {"finish", "read", "build"} /\ status' = status
  BY Goes, OnwardsIs DEF ReadLeaving
<1>4. Budgets' /\ unchanged' \in 0..UnchangedActions /\ recoveries' \in 0..MaxRecoveries + 1 /\ idleSteps' \in Nat
  BY <1>1, <1>2, BudgetsRenewed
<1>5. SeenOK' /\ ReadingOK' /\ StallOK'
  <2>1. SeenOK' /\ ReadingOK'
    BY <1>1, <1>2, ReadLeaves DEF LoopInv, Types, SeenOK, ReadingOK, DocType
  <2>2. StallOK'
    BY <1>1, <1>2, <1>4, ReadLeaves DEF LoopInv, Types, StallOK
  <2> QED BY <2>1, <2>2
<1>6. RestOK'
  BY <1>1, <1>3 DEF LoopInv, Types, RestOK, Points
<1>7. Commits' /\ Endings'
  BY <1>1, <1>3, CommitsNone, EndingsOpen DEF deciding, Landing, Sending
<1> QED BY <1>1, <1>3, <1>4, <1>5, <1>6, <1>7, Unmoved DEF LoopInv, Types

LEMMA StepReadKeeps ==
  ASSUME LoopInv, StepRead
  PROVE  LoopInv'
<1>1. /\ task' = task /\ pc = "read" /\ UNCHANGED <<browser, deciding, site, sent, held>> /\ acted' = TRUE
      /\ UNCHANGED <<obs, first_url, reached, landing, feedback, written, missing, carried_out, pager_followed>>
  BY DEF StepRead
<1>2. PICK progressed \in BOOLEAN :
        Read(progressed) /\ recoveries' = (IF progressed THEN 0 ELSE recoveries) /\ CountProgress(progressed, "head")
  BY DEF StepRead
<1>3. /\ Budgets' /\ unchanged' \in 0..UnchangedActions /\ idleSteps' \in Nat /\ recoveries' \in 0..MaxRecoveries + 1
      /\ FrameOK' /\ pc' \in {"head", "recover"} /\ status' = status
  BY <1>1, <1>2, BudgetsCount
<1>4. SeenOK' /\ ReadingOK' /\ StallOK'
  <2>1. SeenOK' /\ ReadingOK'
    BY <1>1, <1>2, ReadLeaves DEF LoopInv, Types, SeenOK, ReadingOK, DocType
  <2>2. StallOK'
    BY <1>1, <1>2, <1>3, ReadLeaves DEF LoopInv, Types, StallOK
  <2> QED BY <2>1, <2>2
<1>5. DeedsOK' /\ RestOK'
  BY <1>1, <1>3 DEF LoopInv, Types, DeedsOK, RestOK, Points
<1>6. Commits' /\ Endings'
  BY <1>1, <1>3, CommitsNone, EndingsOpen DEF deciding, Landing, Sending
<1> QED BY <1>1, <1>3, <1>4, <1>5, <1>6, Unmoved DEF LoopInv, Types

----------------------------------------------------------------------------
(* The action built and taken.                                             *)

LEMMA BuildUnsureKeeps ==
  ASSUME LoopInv, BuildUnsure
  PROVE  LoopInv'
<1>1. /\ task' = task /\ pc = "build" /\ UNCHANGED <<browser, seen, deciding, site, stall, reading, sent, held>>
      /\ UNCHANGED <<written, acted, carried_out, pager_followed>>
  BY DEF BuildUnsure
<1>2. \E s \in {"stuck", "needs_input"} : Recovers(s, "head")
  BY DEF BuildUnsure
<1>3. FrameOK' /\ pc' = "recover" /\ status' = status
  BY <1>2, RecoversAs
<1>4. missing' \subseteq Views
  BY Addressed DEF BuildUnsure, LoopInv, Types, DeedsOK
<1>5. DeedsOK' /\ RestOK'
  BY <1>1, <1>3, <1>4 DEF LoopInv, Types, DeedsOK, RestOK, Points
<1>6. Budgets' /\ Commits' /\ Endings'
  BY <1>1, <1>3, BudgetsStand, CommitsNone, EndingsOpen DEF stall, deciding, Landing, Sending
<1> QED BY <1>1, <1>3, <1>5, <1>6, Unmoved DEF LoopInv, Types

LEMMA BuildStopsKeeps ==
  ASSUME LoopInv, BuildStops
  PROVE  LoopInv'
<1>1. task' = task /\ pc = "build" /\ UNCHANGED <<browser, seen, deciding, site, stall, reading, deeds, sent, held>>
  BY DEF BuildStops
<1>2. \E s \in Statuses \ {"complete"} : Stops(s) \/ Ends(s)
  BY DEF BuildStops, Statuses
<1> QED BY <1>1, <1>2, GivesUpKeeps

LEMMA BuiltKeeps ==
  ASSUME LoopInv, Built
  PROVE  LoopInv'
<1>1. /\ task' = task /\ pc = "build" /\ UNCHANGED <<browser, seen, site, stall, reading, deeds, sent, held>>
      /\ UNCHANGED <<decision, picked, hung_page_reopened>> /\ redecided' = FALSE
      /\ committing' \in (IF decision.op \in Gated THEN {FALSE, task.authorized} ELSE {committing})
  BY DEF Built
<1>2. FrameOK' /\ pc' = "acting" /\ status' = status
  BY Goes DEF Built
<1>3. ~committing /\ sent \notin {"sent", "doubtful"} /\ task.authorized \in BOOLEAN
  BY <1>1, LoopAssumption DEF LoopInv, Types, RestOK, Commits, Sending, Landing, TaskOptions
<1>4. committing' \in BOOLEAN /\ (committing' => task.authorized /\ decision.op \in Gated)
  BY <1>1, <1>3 DEF LoopInv, Types, DecidingOK
<1>5. DecidingOK'
  BY <1>1, <1>4 DEF LoopInv, Types, DecidingOK
<1>6. Commits'
  BY <1>1, <1>2, <1>3, <1>4 DEF Commits, Sending
<1>7. RestOK'
  BY <1>1, <1>2 DEF LoopInv, Types, RestOK, Points
<1>8. Budgets' /\ Endings'
  BY <1>1, <1>2, BudgetsStand, EndingsOpen DEF stall
<1> QED BY <1>1, <1>2, <1>5, <1>6, <1>7, <1>8, Unmoved DEF LoopInv, Types

\* While an action is under way no commit was sent yet.
LEMMA NothingSentYet ==
  ASSUME LoopInv, pc \in Sending
  PROVE  sent \notin {"sent", "doubtful"} /\ (committing => task.authorized /\ decision.op \in Gated)
BY DEF LoopInv, Commits, Sending, Landing

LEMMA PerformedKeeps ==
  ASSUME LoopInv, pc \in Sending, Performed
  PROVE  LoopInv'
<1>1. /\ UNCHANGED <<task, moves, obs, first_url, decision, picked, redecided, committing, hung_page_reopened, held>>
      /\ UNCHANGED <<site_failure, page_failed, blank_opening_checked, challenge_reloads>>
      /\ UNCHANGED <<reached, evidence_reads, recoveries, reading, missing, pager_followed>>
      /\ acted' = TRUE /\ sent' = (IF committing THEN "sent" ELSE sent)
  BY DEF Performed, StepFrame
<1>2. page' \in Views /\ moved' \in {"no", "redrawn", "loaded"} /\ doc' \in DocType
  <2>1. [doc EXCEPT !.read = FALSE] \in DocType
    BY FileIsDoc, DocField
  <2>2. \/ UNCHANGED <<page, moved, doc>> \/ ((\E v \in Views : Load(v)) /\ UNCHANGED doc)
        \/ (\E v \in Views : Redraw(v)) /\ doc' \in {doc, [doc EXCEPT !.read = FALSE]}
    BY DEF Performed
  <2>3. doc' \in DocType
    BY <2>1, <2>2, FileIsDoc
  <2>4. page' \in Views /\ moved' \in {"no", "redrawn", "loaded"}
    BY <2>2 DEF Load, Redraw, LoopInv, Types, BrowserOK
  <2> QED BY <2>3, <2>4
<1>3. carried_out' \in BOOLEAN /\ written' \subseteq Views
  <2>1. carried_out' \in BOOLEAN
    BY DEF Performed, LoopInv, Types, DeedsOK
  <2> QED BY <2>1, Addressed DEF Performed, LoopInv, Types, DeedsOK
<1>4. /\ landing' \in BOOLEAN
      /\ \/ \E b \in BOOLEAN : CountProgress(b, "head")
         \/ Goto("head") /\ UNCHANGED <<unchanged, idleSteps>>
  BY DEF Performed, LoopInv, Types, StallOK
<1>5. /\ Budgets' /\ unchanged' \in 0..UnchangedActions /\ idleSteps' \in Nat /\ recoveries' \in 0..MaxRecoveries + 1
      /\ FrameOK' /\ pc' \in {"head", "recover"} /\ status' = status
  <2>1. pc \notin {"recover", "stopping", "ended"}
    BY DEF Sending
  <2>2. CASE \E b \in BOOLEAN : CountProgress(b, "head")
    BY <1>1, <2>1, <2>2, BudgetsCount
  <2>3. CASE Goto("head") /\ UNCHANGED <<unchanged, idleSteps>>
    <3>1. FrameOK' /\ pc' = "head" /\ status' = status
      BY <2>3, Goes
    <3> QED BY <1>1, <2>1, <2>3, <3>1, BudgetsStand DEF LoopInv, Types, StallOK
  <2> QED BY <1>4, <2>2, <2>3
<1>6. BrowserOK' /\ SeenOK'
  BY <1>1, <1>2 DEF LoopInv, Types, BrowserOK, SeenOK, DocType
<1>7. DecidingOK' /\ SiteOK'
  BY <1>1 DEF LoopInv, Types, DecidingOK, SiteOK
<1>8. StallOK' /\ DeedsOK'
  BY <1>1, <1>3, <1>4, <1>5 DEF LoopInv, Types, StallOK, DeedsOK
<1>9. RestOK' /\ ReadingOK'
  BY <1>1, <1>5 DEF LoopInv, Types, RestOK, Points, ReadingOK, reading
<1>10. Commits'
  BY <1>1, <1>5, NothingSentYet DEF Commits, Landing, Sending
<1>11. Endings'
  BY <1>5, EndingsOpen DEF Sending
<1> QED BY <1>5, <1>6, <1>7, <1>8, <1>9, <1>10, <1>11 DEF LoopInv, Types

LEMMA UnperformedKeeps ==
  ASSUME LoopInv, pc \in Sending, Unperformed, site_failure' \in {None} \cup Failures
  PROVE  LoopInv'
<1>1. /\ UNCHANGED <<task, moves, obs, first_url, decision, picked, redecided, committing, hung_page_reopened, held>>
      /\ UNCHANGED <<page, moved, page_failed, blank_opening_checked, challenge_reloads, landing, sent>>
      /\ UNCHANGED <<reached, evidence_reads, recoveries, reading, missing, pager_followed, written, carried_out>>
      /\ acted' = TRUE
  BY DEF Unperformed, StepFrame
<1>2. doc' \in DocType
  <2>1. [doc EXCEPT !.read = FALSE] \in DocType
    BY FileIsDoc, DocField
  <2> QED BY <2>1, FileIsDoc DEF Unperformed
<1>3. /\ Budgets' /\ unchanged' \in 0..UnchangedActions /\ idleSteps' \in Nat /\ recoveries' \in 0..MaxRecoveries + 1
      /\ FrameOK' /\ pc' \in {"head", "recover"} /\ status' = status
  <2>1. pc \notin {"recover", "stopping", "ended"}
    BY DEF Sending
  <2>2. \E b \in BOOLEAN : CountProgress(b, "head")
    BY DEF Unperformed
  <2> QED BY <1>1, <2>1, <2>2, BudgetsCount
<1>4. BrowserOK' /\ SeenOK'
  BY <1>1, <1>2 DEF LoopInv, Types, BrowserOK, SeenOK, DocType
<1>5. DecidingOK' /\ SiteOK'
  BY <1>1 DEF LoopInv, Types, DecidingOK, SiteOK
<1>6. StallOK' /\ DeedsOK'
  BY <1>1, <1>3 DEF LoopInv, Types, StallOK, DeedsOK
<1>7. RestOK' /\ ReadingOK'
  BY <1>1, <1>3 DEF LoopInv, Types, RestOK, Points, ReadingOK, reading
<1>8. Commits'
  BY <1>1, <1>3, CommitsLand DEF Sending, Landing
<1>9. Endings'
  BY <1>3, EndingsOpen DEF Sending
<1> QED BY <1>3, <1>4, <1>5, <1>6, <1>7, <1>8, <1>9 DEF LoopInv, Types

LEMMA ActFailsKeeps ==
  ASSUME LoopInv, ActFails
  PROVE  LoopInv'
<1>1. site_failure' \in {None} \cup Failures
  <2>1. CASE UNCHANGED site_failure
    BY <2>1 DEF LoopInv, Types, SiteOK
  <2>2. CASE \E v \in Views : site_failure' = [url |-> UrlOf[v], cause |-> "navigation"]
    BY <2>2, LoopAssumption DEF Failures
  <2> QED BY <2>1, <2>2 DEF ActFails
<1> QED BY <1>1, UnperformedKeeps DEF ActFails, Sending

LEMMA GivesUpTargetKeeps ==
  ASSUME LoopInv, GivesUpTarget
  PROVE  LoopInv'
<1>1. site_failure' \in {None} \cup Failures
  BY DEF GivesUpTarget, LoopInv, Types, SiteOK
<1> QED BY <1>1, UnperformedKeeps DEF GivesUpTarget, Sending

LEMMA RefusedKeeps ==
  ASSUME LoopInv, Refused
  PROVE  LoopInv'
<1>1. task' = task /\ pc = "acting" /\ UNCHANGED <<browser, seen, deciding, site, stall, reading, deeds, sent, held>>
  BY DEF Refused
<1>2. FrameOK' /\ pc' \in {"twin", "covered"} /\ status' = status
  BY Goes DEF Refused
<1>3. Commits'
  BY <1>1, <1>2, NothingSentYet DEF Commits, deciding, Sending
<1>4. RestOK'
  BY <1>1, <1>2 DEF LoopInv, Types, RestOK, Points
<1>5. Budgets' /\ Endings'
  BY <1>1, <1>2, BudgetsStand, EndingsOpen DEF stall
<1> QED BY <1>1, <1>2, <1>3, <1>4, <1>5, Unmoved DEF LoopInv, Types

\* A page that hangs under a commit is never opened again.
LEMMA HangsKeeps ==
  ASSUME LoopInv, Hangs
  PROVE  LoopInv'
<1>1. /\ task' = task /\ pc = "acting" /\ UNCHANGED <<browser, seen, site, stall, reading, held>>
      /\ UNCHANGED <<decision, picked, redecided, committing, written, missing, carried_out, pager_followed>>
      /\ sent' = (IF committing THEN "doubtful" ELSE sent)
  BY DEF Hangs
<1>2. sent \notin {"sent", "doubtful"} /\ (committing => task.authorized /\ decision.op \in Gated)
  BY <1>1, NothingSentYet DEF Sending
<1>3. CASE MayReopen
  <2>1. FrameOK' /\ pc' = "reopen" /\ status' = status /\ hung_page_reopened' = TRUE /\ acted' = TRUE
    BY <1>3, Goes DEF Hangs
  <2>2. ~committing
    BY <1>2, <1>3 DEF MayReopen
  <2>3. DecidingOK' /\ DeedsOK' /\ RestOK'
    BY <1>1, <2>1, <2>2 DEF LoopInv, Types, DecidingOK, DeedsOK, RestOK, Points
  <2>4. Commits'
    BY <1>1, <1>2, <2>2 DEF Commits
  <2>5. Budgets' /\ Endings'
    BY <1>1, <2>1, BudgetsStand, EndingsOpen DEF stall
  <2> QED BY <1>1, <2>1, <2>3, <2>4, <2>5, Unmoved DEF LoopInv, Types
<1>4. CASE ~MayReopen
  <2>1. Ends("unavailable") /\ UNCHANGED <<hung_page_reopened, acted>>
    BY <1>4 DEF Hangs
  <2>2. FrameOK' /\ pc' = "ended" /\ Endings'
    BY <1>1, <2>1, EndsAs, EndingsReport DEF Statuses
  <2>3. DecidingOK' /\ DeedsOK' /\ RestOK'
    BY <1>1, <2>1, <2>2 DEF LoopInv, Types, DecidingOK, DeedsOK, RestOK, Points
  <2>4. Commits'
    BY <1>1, <1>2, <2>2 DEF Commits, Landing, Sending
  <2>5. Budgets'
    BY <1>1, <2>2, BudgetsStand DEF stall
  <2> QED BY <1>1, <2>2, <2>3, <2>4, <2>5, Unmoved DEF LoopInv, Types
<1> QED BY <1>3, <1>4

LEMMA ReopenKeeps ==
  ASSUME LoopInv, Reopen
  PROVE  LoopInv'
<1>1. task' = task /\ pc = "reopen" /\ moves' = moves /\ UNCHANGED <<seen, deciding, site, stall, reading, deeds, sent, held>>
  BY DEF Reopen
<1>2. FrameOK' /\ pc' = "head" /\ status' = status
  BY Goes DEF Reopen
<1>3. page' \in Views /\ moved' = "loaded"
  BY DEF Reopen, Load
<1>4. BrowserOK' /\ RestOK'
  BY <1>1, <1>2, <1>3 DEF LoopInv, Types, BrowserOK, RestOK, Points
<1>5. Budgets' /\ Commits' /\ Endings'
  BY <1>1, <1>2, BudgetsStand, CommitsNone, EndingsOpen DEF stall, deciding, Landing, Sending
<1> QED BY <1>1, <1>2, <1>4, <1>5, Unmoved DEF LoopInv, Types

----------------------------------------------------------------------------
(* DONE, and how a run ends.                                               *)

\* A conclusion, or its `until`, on something read.
LEMMA EndingsConcluding ==
  ASSUME LoopInv, task' = task, pc # "ended", status' = status, pc' \in {"conclude", "until"},
         SomethingRead(notes') \/ (pc' = "until" /\ ending' # "complete")
  PROVE  Endings'
<1>1. status = None /\ None # "complete"
  BY LoopAssumption DEF LoopInv, Endings, Statuses
<1> QED BY <1>1 DEF Endings, CompleteWasRead, SomethingRead, WantsText

LEMMA FinishKeeps ==
  ASSUME LoopInv, Finish
  PROVE  LoopInv'
<1>1. /\ task' = task /\ pc = "finish" /\ UNCHANGED <<browser, seen, deciding, site, stall, deeds, sent, held>>
      /\ UNCHANGED <<compose, feedback, next_read>>
  BY DEF Finish
<1>2. notes' \in BOOLEAN
  BY DEF Finish, LoopInv, Types, ReadingOK
<1>3. Stops("needs_confirmation") \/ Ends("needs_browser") \/ Recovers("stuck", "head") \/ Goto("report")
  BY DEF Finish
<1>4. FrameOK' /\ Endings' /\ pc' \in {"stopping", "ended", "recover", "report"}
  <2>1. CASE Stops("needs_confirmation")
    BY <1>1, <2>1, StopsAs, EndingsOpen DEF Statuses
  <2>2. CASE Ends("needs_browser")
    BY <1>1, <2>2, EndsAs, EndingsReport DEF Statuses
  <2>3. CASE Recovers("stuck", "head")
    BY <1>1, <2>3, RecoversAs, EndingsOpen
  <2>4. CASE Goto("report")
    BY <1>1, <2>4, Goes, EndingsOpen
  <2> QED BY <1>3, <2>1, <2>2, <2>3, <2>4
<1>5. ReadingOK' /\ RestOK'
  BY <1>1, <1>2, <1>4 DEF LoopInv, Types, ReadingOK, RestOK, Points
<1>6. Budgets' /\ Commits'
  BY <1>1, <1>4, BudgetsStand, CommitsNone DEF stall, deciding, Landing, Sending
<1> QED BY <1>1, <1>4, <1>5, <1>6, Unmoved DEF LoopInv, Types

LEMMA FinishReadsKeeps ==
  ASSUME LoopInv, FinishReads
  PROVE  LoopInv'
<1>1. /\ task' = task /\ pc = "report" /\ UNCHANGED <<browser, deciding, site, deeds, sent, held>>
      /\ UNCHANGED <<obs, first_url, reached, landing, feedback>>
  BY DEF FinishReads
<1>2. \/ \E progressed \in BOOLEAN : Read(progressed) /\ Renewed(progressed)
      \/ UNCHANGED <<doc, notes, compose, next_read, evidence_reads, unchanged, recoveries, idleSteps>>
  BY DEF FinishReads
<1>3. FrameOK' /\ Endings' /\ pc' \in {"stopping", "list"}
  <2>1. CASE \E s \in FailureStatus(site_failure) : Stops(s)
    <3>1. PICK s \in Statuses \ {"complete"} : Stops(s)
      BY <2>1, FailureEnds
    <3>2. FrameOK' /\ pc' = "stopping" /\ status' = status /\ ending' = s
      BY <3>1, StopsAs
    <3> QED BY <1>1, <3>2, EndingsOpen
  <2>2. CASE Goto("list")
    BY <1>1, <2>2, Goes, EndingsOpen
  <2> QED BY <2>1, <2>2 DEF FinishReads
<1>4. /\ Budgets' /\ unchanged' \in 0..UnchangedActions /\ recoveries' \in 0..MaxRecoveries + 1 /\ idleSteps' \in Nat
      /\ doc' \in DocType /\ notes' \in BOOLEAN /\ compose' \in BOOLEAN /\ next_read' \in BOOLEAN
      /\ evidence_reads' \in 0..MaxEvidence
  <2>1. CASE \E progressed \in BOOLEAN : Read(progressed) /\ Renewed(progressed)
    <3>1. PICK progressed \in BOOLEAN : Read(progressed) /\ Renewed(progressed)
      BY <2>1
    <3> QED BY <1>1, <3>1, ReadLeaves, BudgetsRenewed
  <2>2. CASE UNCHANGED <<doc, notes, compose, next_read, evidence_reads, unchanged, recoveries, idleSteps>>
    BY <1>1, <2>2, BudgetsStand, FileIsDoc DEF LoopInv, Types, ReadingOK, StallOK
  <2> QED BY <1>2, <2>1, <2>2
<1>5. SeenOK' /\ ReadingOK'
  BY <1>1, <1>4 DEF LoopInv, Types, SeenOK, ReadingOK, DocType
<1>6. StallOK'
  BY <1>1, <1>4 DEF LoopInv, Types, StallOK
<1>7. RestOK'
  BY <1>1, <1>3 DEF LoopInv, Types, RestOK, Points
<1>8. Commits'
  BY <1>1, CommitsNone DEF deciding, Landing, Sending
<1> QED BY <1>1, <1>3, <1>4, <1>5, <1>6, <1>7, <1>8, Unmoved DEF LoopInv, Types

LEMMA FinishListKeeps ==
  ASSUME LoopInv, FinishList
  PROVE  LoopInv'
<1>1. /\ task' = task /\ pc = "list" /\ UNCHANGED <<browser, seen, site, stall, sent, held, feedback, next_read>>
      /\ UNCHANGED <<picked, redecided, committing, hung_page_reopened, written, missing, acted, carried_out>>
  BY DEF FinishList
<1>2. ReadingOK'
  BY <1>1 DEF FinishList, LoopInv, Types, ReadingOK
<1>3. decision' \in Decisions /\ pager_followed' \in BOOLEAN
  <2>1. [NoDecision EXCEPT !.op = "navigate"] \in Decisions
    BY DEF NoDecision, Decisions, Ops
  <2> QED BY <2>1 DEF FinishList, LoopInv, Types, DecidingOK, DeedsOK
<1>4. \/ Goto("build") \/ (SomethingRead(notes') /\ Goto("conclude")) \/ Recovers("stuck", "head")
  BY DEF FinishList
<1>5. FrameOK' /\ Endings' /\ pc' \in {"build", "conclude", "recover"}
  <2>1. CASE Goto("build")
    BY <1>1, <2>1, Goes, EndingsOpen
  <2>2. CASE SomethingRead(notes') /\ Goto("conclude")
    BY <1>1, <2>2, Goes, EndingsConcluding
  <2>3. CASE Recovers("stuck", "head")
    BY <1>1, <2>3, RecoversAs, EndingsOpen
  <2> QED BY <1>4, <2>1, <2>2, <2>3
<1>6. DecidingOK' /\ DeedsOK'
  BY <1>1, <1>3 DEF LoopInv, Types, DecidingOK, DeedsOK
<1>7. RestOK'
  BY <1>1, <1>5 DEF LoopInv, Types, RestOK, Points
<1>8. Budgets' /\ Commits'
  BY <1>1, <1>5, BudgetsStand, CommitsNone DEF stall, Landing, Sending
<1> QED BY <1>1, <1>2, <1>5, <1>6, <1>7, <1>8, Unmoved DEF LoopInv, Types

\* A conclusion ends the run or asks the caller's `until`.
LEMMA ConcludesAs ==
  ASSUME LoopInv, task' = task, pc = "conclude", NEW s \in Statuses, Concludes(s), s = "complete" => SomethingRead(notes')
  PROVE  FrameOK' /\ Endings' /\ pc' \in {"until", "ended"}
<1>1. CASE task.until
  <2>1. pc' = "until" /\ ending' = s /\ UNCHANGED <<asking, status>>
    BY <1>1 DEF Concludes
  <2>2. FrameOK'
    BY <2>1 DEF LoopInv, Types, FrameOK
  <2> QED BY <2>1, <2>2, EndingsConcluding
<1>2. CASE ~task.until
  <2>1. Ends(s)
    BY <1>2 DEF Concludes
  <2> QED BY <2>1, EndsAs, EndingsReport
<1> QED BY <1>1, <1>2

LEMMA ConcludeRejectedKeeps ==
  ASSUME LoopInv, ConcludeRejected
  PROVE  LoopInv'
<1>1. /\ task' = task /\ pc = "conclude" /\ UNCHANGED <<browser, seen, deciding, site, stall, deeds, sent, held>>
      /\ UNCHANGED <<notes, next_read>> /\ compose' = TRUE
  BY DEF ConcludeRejected
<1>2. feedback' \in {None} \cup Drafts
  BY DEF ConcludeRejected, LoopInv, Types, ReadingOK
<1>3. FrameOK' /\ Endings' /\ pc' \in {"recover", "until", "ended"}
  <2>1. CASE Recovers("unverified", "head")
    BY <1>1, <2>1, RecoversAs, EndingsOpen
  <2>2. CASE Concludes("unverified")
    BY <1>1, <2>2, ConcludesAs DEF Statuses
  <2> QED BY <2>1, <2>2 DEF ConcludeRejected
<1>4. ReadingOK' /\ RestOK'
  BY <1>1, <1>2, <1>3 DEF LoopInv, Types, ReadingOK, RestOK, Points
<1>5. Budgets' /\ Commits'
  BY <1>1, <1>3, BudgetsStand, CommitsNone DEF stall, deciding, Landing, Sending
<1> QED BY <1>1, <1>3, <1>4, <1>5, Unmoved DEF LoopInv, Types

LEMMA ConcludeAnsweredKeeps ==
  ASSUME LoopInv, ConcludeAnswered
  PROVE  LoopInv'
<1>1. /\ task' = task /\ pc = "conclude" /\ UNCHANGED <<browser, seen, deciding, site, stall, deeds, sent, held>>
      /\ UNCHANGED <<notes, compose, next_read>>
  BY DEF ConcludeAnswered
<1>2. feedback' \in {None} \cup Drafts
  BY DEF ConcludeAnswered, LoopInv, Types, ReadingOK
<1>3. FrameOK' /\ Endings' /\ pc' \in {"until", "ended"}
  <2>1. SomethingRead(notes')
    BY <1>1 DEF LoopInv, Endings
  <2>2. Concludes("complete") \/ Concludes("unverified")
    BY DEF ConcludeAnswered
  <2> QED BY <1>1, <2>1, <2>2, ConcludesAs DEF Statuses
<1>4. ReadingOK' /\ RestOK'
  BY <1>1, <1>2, <1>3 DEF LoopInv, Types, ReadingOK, RestOK, Points
<1>5. Budgets' /\ Commits'
  BY <1>1, <1>3, BudgetsStand, CommitsNone DEF stall, deciding, Landing, Sending
<1> QED BY <1>1, <1>3, <1>4, <1>5, Unmoved DEF LoopInv, Types

LEMMA UntilKeeps ==
  ASSUME LoopInv, Until
  PROVE  LoopInv'
<1>1. /\ task' = task /\ pc = "until" /\ UNCHANGED <<browser, seen, deciding, site, reading, sent>>
      /\ UNCHANGED <<reached, evidence_reads, recoveries, landing, written, missing, carried_out, pager_followed>>
  BY DEF Until
<1>2. /\ FrameOK' /\ Endings' /\ Budgets' /\ pc' \in {"ended", "head", "recover"} /\ held' \in BOOLEAN /\ acted' \in BOOLEAN
      /\ unchanged' \in 0..UnchangedActions /\ idleSteps' \in Nat
  <2>1. CASE held' = TRUE /\ Ends(ending) /\ UNCHANGED <<acted, unchanged, idleSteps>>
    <3>1. ending \in Statuses /\ (ending = "complete" => SomethingRead(notes'))
      BY <1>1 DEF LoopInv, Types, FrameOK, Endings, reading
    <3>2. FrameOK' /\ Endings' /\ pc' = "ended"
      BY <1>1, <2>1, <3>1, EndsAs, EndingsReport
    <3>3. Budgets'
      BY <1>1, <2>1, <3>2, BudgetsStand
    <3> QED BY <2>1, <3>2, <3>3 DEF LoopInv, Types, DeedsOK, StallOK
  <2>2. CASE UNCHANGED held /\ acted' = TRUE /\ CountProgress(FALSE, "head")
    <3>1. \E b \in BOOLEAN : CountProgress(b, "head")
      BY <2>2
    <3>2. /\ Budgets' /\ unchanged' \in 0..UnchangedActions /\ idleSteps' \in Nat /\ FrameOK'
          /\ pc' \in {"head", "recover"} /\ status' = status
      BY <1>1, <3>1, BudgetsCount
    <3>3. Endings'
      BY <1>1, <3>2, EndingsOpen
    <3> QED BY <2>2, <3>2, <3>3 DEF LoopInv, Types, RestOK
  <2> QED BY <2>1, <2>2 DEF Until
<1>3. StallOK' /\ DeedsOK'
  BY <1>1, <1>2 DEF LoopInv, Types, StallOK, DeedsOK
<1>4. RestOK'
  BY <1>1, <1>2 DEF LoopInv, Types, RestOK, Points
<1>5. Commits'
  BY <1>1, CommitsNone DEF deciding, Landing, Sending
<1> QED BY <1>1, <1>2, <1>3, <1>4, <1>5, Unmoved DEF LoopInv, Types

LEMMA StoppedKeeps ==
  ASSUME LoopInv, Stopped
  PROVE  LoopInv'
<1>1. task' = task /\ pc = "stopping" /\ UNCHANGED <<browser, seen, deciding, site, stall, reading, deeds, sent, held>>
  BY DEF Stopped
<1>2. ending \in Statuses \ {"complete"}
  BY <1>1 DEF LoopInv, Types, FrameOK, Endings
<1>3. CASE Ends(ending)
  BY <1>1, <1>2, <1>3, GivesUpKeeps
<1>4. CASE notes /\ Ends("complete")
  <2>1. SomethingRead(notes')
    BY <1>1, <1>4 DEF SomethingRead, reading
  <2>2. FrameOK' /\ Endings' /\ pc' = "ended"
    BY <1>1, <1>4, <2>1, EndsAs, EndingsReport DEF Statuses
  <2>3. RestOK'
    BY <1>1, <2>2 DEF LoopInv, Types, RestOK, Points
  <2>4. Budgets' /\ Commits'
    BY <1>1, <2>2, BudgetsStand, CommitsLand DEF stall, deciding, Landing
  <2> QED BY <1>1, <2>2, <2>3, <2>4, Unmoved DEF LoopInv, Types
<1> QED BY <1>3, <1>4 DEF Stopped

\* A limit, a fetched page and a failed call only stop or end the run.
LEMMA CutShortKeeps ==
  ASSUME LoopInv, LimitHits \/ NeedsBrowser \/ Fails
  PROVE  LoopInv'
<1>1. task' = task /\ pc # "ended" /\ UNCHANGED <<browser, seen, deciding, site, stall, reading, deeds, sent, held>>
  BY DEF LimitHits, NeedsBrowser, Fails, Synchronous
<1>2. \E s \in Statuses \ {"complete"} : Stops(s) \/ Ends(s)
  BY DEF LimitHits, NeedsBrowser, Fails, Statuses
<1> QED BY <1>1, <1>2, GivesUpKeeps

----------------------------------------------------------------------------
(* The theorems.                                                           *)

LEMMA InitHolds ==
  ASSUME Init
  PROVE  LoopInv
<1>1. BrowserOK /\ RestOK
  <2>1. task.moves \in Nat /\ task \in Tasks
    BY LoopAssumption DEF Init, TaskOptions
  <2>2. page \in Views /\ moved = "loaded" /\ moves \in 0..task.moves
    BY <2>1 DEF Init
  <2>3. pc \in Points /\ sent \in {"no", "sent", "doubtful"} /\ held \in BOOLEAN
    BY DEF Init, Points
  <2> QED BY <2>1, <2>2, <2>3 DEF BrowserOK, RestOK
<1>2. SeenOK /\ DecidingOK
  <2>1. NoDecision \in Decisions
    BY DEF NoDecision, Decisions, Ops
  <2>2. NewDocument \in [waited : BOOLEAN, blanked : BOOLEAN, read : BOOLEAN, judged : BOOLEAN]
    BY DEF NewDocument
  <2> QED BY <2>1, <2>2, LoopAssumption DEF Init, SeenOK, DecidingOK
<1>3. SiteOK /\ StallOK
  <2>1. SiteOK
    BY DEF Init, SiteOK
  <2>2. UnchangedActions \in Nat /\ MaxRecoveries \in Nat /\ MaxEvidence \in Nat
    BY LoopAssumption
  <2>3. reached \in [Views -> {-1} \cup 0..MaxEvidence]
    BY <2>2 DEF Init
  <2>4. evidence_reads \in 0..MaxEvidence /\ unchanged \in 0..UnchangedActions /\ recoveries \in 0..MaxRecoveries + 1
    BY <2>2 DEF Init
  <2>5. landing \in BOOLEAN /\ idleSteps \in Nat
    BY DEF Init
  <2> QED BY <2>1, <2>3, <2>4, <2>5 DEF StallOK
<1>4. ReadingOK /\ DeedsOK /\ FrameOK
  BY DEF Init, ReadingOK, DeedsOK, FrameOK, Statuses
<1>5. Budgets
  <2>1. UnchangedActions \in Nat /\ UnchangedActions > 0 /\ MaxRecoveries \in Nat /\ 0 * UnchangedActions = 0
    BY LoopAssumption
  <2> QED BY <2>1 DEF Init, Budgets
<1>6. Commits /\ Endings
  BY LoopAssumption DEF Init, Commits, Endings, CompleteWasRead, Statuses
<1> QED BY <1>1, <1>2, <1>3, <1>4, <1>5, <1>6 DEF LoopInv, Types

LEMMA StutterKeeps ==
  ASSUME LoopInv, UNCHANGED vars
  PROVE  LoopInv'
<1>1. /\ task' = task /\ pc' = pc /\ UNCHANGED <<browser, seen, deciding, site, stall, reading, deeds, frame, sent, held>>
  BY DEF vars
<1>2. FrameOK' /\ RestOK'
  BY <1>1 DEF LoopInv, Types, FrameOK, RestOK, frame
<1>3. Budgets' /\ Commits' /\ Endings'
  BY <1>1 DEF LoopInv, Budgets, Commits, Endings, CompleteWasRead, SomethingRead, WantsText, stall, deciding, reading, frame
<1> QED BY <1>1, <1>2, <1>3, Unmoved DEF LoopInv, Types

LEMMA StepKeeps ==
  ASSUME LoopInv, [Next]_vars
  PROVE  LoopInv'
<1>1. CASE LoopSteps
  <2>1. Act \/ ActOnTwin \/ ClickWhereSeen => LoopInv'
    BY PerformedKeeps DEF Act, ActOnTwin, ClickWhereSeen, Sending
  <2> QED BY <1>1, <2>1, ObserveKeeps, HttpWaitsKeeps, BlankWaitsKeeps, SettleKeeps, RecoverKeeps, AskJevAgainKeeps,
             DecideKeeps, JevDecidesKeeps, JudgeKeeps, WallKeeps, ReloadedKeeps, ReadLeavingKeeps, StepReadKeeps,
             BuildUnsureKeeps, BuildStopsKeeps, BuiltKeeps, ActFailsKeeps, RefusedKeeps, GivesUpTargetKeeps,
             ReopenKeeps, FinishKeeps, FinishReadsKeeps, FinishListKeeps, ConcludeRejectedKeeps,
             ConcludeAnsweredKeeps, UntilKeeps, StoppedKeeps
          DEF LoopSteps
<1>2. CASE Environment
  BY <1>2, PageMovesKeeps, RedrawDropsKeeps, HangsKeeps, CutShortKeeps DEF Environment
<1>3. CASE Over \/ UNCHANGED vars
  BY <1>3, StutterKeeps DEF Over
<1> QED BY <1>1, <1>2, <1>3 DEF Next

\* The inductive invariant: types, the stall's budgets, the commit under way and
\* what the endings rest on.
THEOREM LoopInvariant == Spec => []LoopInv
<1>1. Init => LoopInv
  BY InitHolds
<1>2. LoopInv /\ [Next]_vars => LoopInv'
  BY StepKeeps
<1> QED BY <1>1, <1>2, PTL DEF Spec

\* Whatever the site, the task and Jev, a run that is to tell something ends
\* complete only with something read (`finish`, `stopped`), and its state keeps
\* its types.
THEOREM RunsEndAsRead == Spec => []EndsAsRead
<1>1. LoopInv => EndsAsRead
  <2> SUFFICES ASSUME LoopInv PROVE EndsAsRead
    OBVIOUS
  <2>1. TypeOK
    BY DEF LoopInv, Types, BrowserOK, SeenOK, DecidingOK, SiteOK, StallOK, ReadingOK, DeedsOK, FrameOK, RestOK, TypeOK
  <2> QED BY <2>1 DEF LoopInv, Endings, EndsAsRead
<1> QED BY <1>1, LoopInvariant, PTL

LEMMA Monotone ==
  ASSUME NEW a \in Nat, NEW b \in Nat, NEW c \in Nat, a <= b
  PROVE  a * c <= b * c
<1>1. PICK d \in Nat : b = a + d
  BY b - a \in Nat, b = a + (b - a)
<1>2. b * c = a * c + d * c
  BY <1>1
<1> DEFINE A == a * c
           D == d * c
<1>3. A \in Nat /\ D \in Nat
  BY <1>1, Product
<1>4. A <= A + D
  <2> HIDE DEF A, D
  <2> QED BY <1>3
<1> QED BY <1>2, <1>4

\* The steps between two that moved the run on are bounded by the two budgets
\* of `StallRules`, however recoveries, landings and reads interleave.
THEOREM StallsAreBounded == Spec => []StallBounded
<1>1. LoopInv => StallBounded
  <2> SUFFICES ASSUME LoopInv PROVE StallBounded
    OBVIOUS
  <2>1. /\ recoveries \in Nat /\ recoveries <= MaxRecoveries + 1 /\ MaxRecoveries \in Nat /\ UnchangedActions \in Nat
        /\ unchanged \in Nat /\ unchanged <= UnchangedActions /\ idleSteps \in Nat
        /\ recoveries <= MaxRecoveries \/ unchanged = 0
    BY LoopAssumption DEF LoopInv, Types, StallOK, Budgets
  <2> DEFINE R == recoveries * UnchangedActions
             B == (MaxRecoveries + 1) * UnchangedActions
  <2>2. R \in Nat /\ B \in Nat /\ idleSteps <= R + unchanged
    BY <2>1, Product DEF LoopInv, Budgets
  <2>3. R + unchanged <= B
    <3>1. CASE recoveries = MaxRecoveries + 1
      BY <2>1, <2>2, <3>1
    <3>2. CASE recoveries <= MaxRecoveries
      <4>1. (recoveries + 1) * UnchangedActions <= B
        BY <2>1, <3>2, Monotone
      <4>2. (recoveries + 1) * UnchangedActions = R + UnchangedActions
        BY <2>1, Distributes
      <4> HIDE DEF R, B
      <4> QED BY <2>1, <2>2, <4>1, <4>2
    <3> QED BY <2>1, <3>1, <3>2
  <2>4. idleSteps <= B
    <3> HIDE DEF R, B
    <3> QED BY <2>1, <2>2, <2>3
  <2> QED BY <2>4 DEF StallBounded
<1> QED BY <1>1, LoopInvariant, PTL

\* The steps that say anything of a commit's fate.
LEMMA OnlySenders ==
  ASSUME Next
  PROVE  Act \/ ActOnTwin \/ ClickWhereSeen \/ Judge \/ Hangs \/ sent' = sent
<1>1. CASE Observe \/ HttpWaits \/ BlankWaits \/ Settle \/ Recover \/ AskJevAgain \/ Decide \/ JevDecides
  BY <1>1 DEF Observe, HttpWaits, BlankWaits, Settle, Recover, AskJevAgain, Decide, JevDecides
<1>2. CASE Wall \/ Reloaded \/ ReadLeaving \/ StepRead \/ BuildUnsure \/ BuildStops \/ Built \/ Refused \/ Reopen
  BY <1>2 DEF Wall, Reloaded, ReadLeaving, StepRead, BuildUnsure, BuildStops, Built, Refused, Reopen
<1>3. CASE ActFails \/ GivesUpTarget
  BY <1>3 DEF ActFails, GivesUpTarget, Unperformed
<1>4. CASE Finish \/ FinishReads \/ FinishList \/ ConcludeRejected \/ ConcludeAnswered \/ Until \/ Stopped
  BY <1>4 DEF Finish, FinishReads, FinishList, ConcludeRejected, ConcludeAnswered, Until, Stopped
<1>5. CASE PageMoves \/ RedrawDrops \/ NeedsBrowser \/ LimitHits \/ Fails \/ Over
  BY <1>5 DEF PageMoves, RedrawDrops, NeedsBrowser, LimitHits, Fails, Over, vars
<1> QED BY <1>1, <1>2, <1>3, <1>4, <1>5 DEF Next, LoopSteps, Environment

\* A commit reaches only the document its gate judged, and one in doubt is the
\* last thing the run does (`act_on_twin`, `click_where_seen`, `may_reopen`).
THEOREM CommitsAreMadeOnce == Spec => CommitsOnce
<1> DEFINE InItsDocument == (committing /\ sent' = "sent" /\ sent # "sent") => (decision.op = "navigate" \/ moved # "loaded")
<1>1. LoopInv => CommitNotResent
  BY DEF LoopInv, Commits, CommitNotResent
<1>2. LoopInv /\ [Next]_vars => [InItsDocument]_vars
  <2> SUFFICES ASSUME LoopInv, Next, committing, sent' = "sent", sent # "sent"
               PROVE  decision.op = "navigate" \/ moved # "loaded"
    OBVIOUS
  <2>1. pc \in Sending => decision.op \in Gated
    BY NothingSentYet
  <2>2. CASE Act
    BY <2>1, <2>2 DEF Act, Sending, Gated, Targeted
  <2>3. CASE ActOnTwin
    BY <2>3 DEF ActOnTwin, TwinStands
  <2>4. CASE ClickWhereSeen
    BY <2>4 DEF ClickWhereSeen
  <2>5. CASE Judge \/ Hangs
    BY <2>5 DEF Judge, Hangs
  <2>6. CASE sent' = sent
    BY <2>6
  <2>7. Next => Act \/ ActOnTwin \/ ClickWhereSeen \/ Judge \/ Hangs \/ sent' = sent
    BY OnlySenders
  <2> QED BY <2>2, <2>3, <2>4, <2>5, <2>6, <2>7
<1>3. Spec => [][InItsDocument]_vars
  BY <1>2, LoopInvariant, PTL DEF Spec
<1>4. Spec => []CommitNotResent
  BY <1>1, LoopInvariant, PTL
<1>5. [][InItsDocument]_vars => CommitInItsDocument
  BY DEF CommitInItsDocument
<1> QED BY <1>3, <1>4, <1>5 DEF CommitsOnce
=============================================================================
