------------------------------- MODULE Recipes -------------------------------
(* Recipes (core/recipe.rs, agent/replay.rs): the steps a completed run took,  *)
(* saved by what each control means, and followed by a later run.  The next    *)
(* saved step is offered to Jev alone when its page and control are certain;   *)
(* any other decision of Jev that agrees with a saved step reuses its value.   *)
(* A decision may be dropped by a redraw, replaced by a recovery, left unbuilt *)
(* or refused by the page before it is carried out.  The run keeps a recipe of *)
(* its own, and a secret can be learned after the text was written down.       *)
EXTENDS Integers, Sequences, FiniteSets, SequencesExt

CONSTANTS
  RpRecipes,   \* the recipes a run may be given: sequences of steps
  RpPages,     \* the pages of the site: [url, controls]
  RpTexts,     \* what a live fill may type, besides named inputs and secrets
  MaxActs      \* bound on the actions of a run

RpOps == {"click", "fill", "scroll", "select", "read", "done"}
RpTargeted == {"click", "fill", "select"}
Replayable == {"click", "fill", "scroll"}
\* A control is known to a recipe by its name: role, label, context, link and
\* input, together.  Two controls may share it.
NoTarget == [id |-> 0, name |-> "none", ops |-> {}, kind |-> "plain"]
NoText == [from |-> "none", value |-> "none"]
LiveText == [from |-> "live", value |-> "none"]

ASSUME RpAssumption ==
  /\ MaxActs \in Nat
  /\ \A p \in RpPages : IsFiniteSet(p.controls)
  /\ \A p \in RpPages : \A c \in p.controls : c.id # 0 /\ c.kind \in {"plain", "sensitive", "password"}
  /\ \A r \in RpRecipes : Len(r) \in Nat

VARIABLES
  saved,     \* the recipe followed
  nxt,       \* Replay.next
  pend,      \* Replay.pending, 0 when none
  declinedAt,\* Replay.failed
  rph,       \* see, decide, act, ended, then the saving of the recipe
  rpage,     \* the page observed
  alone,     \* whether the saved step was offered alone
  deed,      \* the decision being carried out
  rlog,      \* the steps of this run's own recipe
  known,     \* the secrets resolved so far
  acts,      \* actions decided
  rfile      \* the recipe file at the destination

rpVars == <<saved, nxt, pend, declinedAt, rph, rpage, alone, deed, rlog, known, acts, rfile>>
NoDeed == [op |-> "none", target |-> NoTarget, replayed |-> FALSE]

----------------------------------------------------------------------------
(* The saved steps.                                                           *)

\* A step the recipe can carry out by itself.
IsReplayable(step) ==
  /\ step.replay /\ step.op \in Replayable
  /\ step.op \in RpTargeted => step.target # "none"
  /\ step.op = "fill" => step.text.from \in {"literal", "input", "secret"}

\* The one control the step names: none when several do.
Find(step, controls) ==
  LET matching == {c \in controls : c.name = step.target} IN
  IF Cardinality(matching) = 1 THEN matching ELSE {}

\* The text a saved step gives this field: never a password, no literal for a
\* sensitive field.
TextAnywhere(step, control) == step.text.from \in {"literal", "input", "secret"}
TextFor(step, control) ==
  /\ control.kind # "password"
  /\ step.text.from \in {"literal", "input", "secret"}
  /\ step.text.from = "literal" => control.kind # "sensitive"

\* The targets of a step on this page: empty when it cannot be taken here.
TargetsOn(step, page) ==
  IF step.target = "none" THEN {NoTarget}
  ELSE {c \in Find(step, page.controls) : step.op \in c.ops}

\* The next step as a decision to offer alone.
Certain(page) ==
  /\ nxt <= Len(saved) /\ nxt \notin declinedAt
  /\ LET step == saved[nxt] IN
     /\ IsReplayable(step) /\ ~step.readFirst /\ step.page = page.url
     /\ (step.target # "none" \/ step.op \notin RpTargeted)
     /\ \E c \in TargetsOn(step, page) : step.op = "fill" => TextFor(step, c)

\* The saved steps a live choice may be: any left, on this page, of this control.
Matching(op, target) ==
  {k \in nxt..Len(saved) :
     LET step == saved[k] IN
     IsReplayable(step) /\ step.page = rpage.url /\ step.op = op /\ target \in TargetsOn(step, rpage)}
MatchingStep(op, target) ==
  LET all == Matching(op, target) IN
  IF all = {} THEN 0 ELSE CHOOSE k \in all : \A j \in all : k <= j

\* The saved step a carried out action of Jev's own was, if one.
FollowedSteps(op, target) ==
  {k \in nxt..Len(saved) :
     saved[k].op = op /\ saved[k].page = rpage.url /\ saved[k].target = target.name}

----------------------------------------------------------------------------
(* The run.                                                                   *)

RpInit ==
  /\ saved \in RpRecipes /\ nxt = 1 /\ pend = 0 /\ declinedAt = {} /\ rph = "see"
  /\ rpage \in RpPages /\ alone = FALSE /\ deed = NoDeed /\ rlog = <<>> /\ known = {} /\ acts = 0 /\ rfile = "old"

Follows == <<saved, rlog, known, rfile>>

\* The page is observed, and the next saved step offered alone when it is certain.
Sees ==
  /\ rph = "see" /\ acts < MaxActs
  /\ rpage' \in RpPages
  /\ alone' = Certain(rpage') /\ pend' = IF Certain(rpage') THEN nxt ELSE 0
  /\ rph' = "decide" /\ deed' = NoDeed /\ acts' = acts + 1
  /\ UNCHANGED <<nxt, declinedAt, Follows>>

\* Jev's pick when it was asked again stands for the decision: nothing of the
\* recipe was handed out.
TakesThePick ==
  /\ rph = "see" /\ acts < MaxActs /\ rpage' \in RpPages
  /\ \E op \in RpOps \ {"done"} : \E c \in (IF op \in RpTargeted THEN {d \in rpage'.controls : op \in d.ops} ELSE {NoTarget}) :
       deed' = [op |-> op, target |-> c, replayed |-> FALSE]
  /\ pend' = 0 /\ alone' = FALSE /\ rph' = "act" /\ acts' = acts + 1
  /\ UNCHANGED <<nxt, declinedAt, Follows>>

\* Jev decides among what it was offered: the one control, or the whole page.
Offered == IF alone THEN TargetsOn(saved[pend], rpage) \ {NoTarget} ELSE rpage.controls
OnOffer == {[op |-> op, target |-> NoTarget] : op \in RpOps \ RpTargeted}
             \cup {[op |-> op, target |-> c] : op \in RpTargeted, c \in Offered}
Agrees(d) == d.op = saved[pend].op /\ d.target \in TargetsOn(saved[pend], rpage)

\* Offered alone: taken, or left to Jev from now on.
JevAgrees ==
  /\ rph = "decide" /\ alone
  /\ \E d \in OnOffer : Agrees(d) /\ deed' = [op |-> d.op, target |-> d.target, replayed |-> TRUE]
  /\ rph' = "act" /\ UNCHANGED <<nxt, pend, declinedAt, rpage, alone, acts, Follows>>
JevDeclines ==
  /\ rph = "decide" /\ alone
  /\ \E d \in OnOffer :
       /\ ~Agrees(d) /\ (d.target # NoTarget => d.op \in d.target.ops)
       /\ IF d.target # NoTarget THEN rph' = "see" /\ deed' = NoDeed
          ELSE rph' = (IF d.op = "done" THEN "ended" ELSE "act") /\ deed' = [op |-> d.op, target |-> d.target, replayed |-> FALSE]
  /\ declinedAt' = declinedAt \cup {pend} /\ pend' = 0
  /\ UNCHANGED <<nxt, rpage, alone, acts, Follows>>

\* The whole page: a choice that is a saved step reuses it, unless it is a fill
\* whose value this field may not take.
Confirms ==
  /\ rph = "decide" /\ ~alone
  /\ \E d \in OnOffer :
       /\ d.target # NoTarget => d.op \in d.target.ops
       /\ IF d.op \in {"read", "done"} \/ MatchingStep(d.op, d.target) = 0
             \/ (d.op = "fill" /\ ~TextFor(saved[MatchingStep(d.op, d.target)], d.target))
          THEN pend' = 0 /\ deed' = [op |-> d.op, target |-> d.target, replayed |-> FALSE]
          ELSE pend' = MatchingStep(d.op, d.target) /\ deed' = [op |-> d.op, target |-> d.target, replayed |-> TRUE]
       /\ rph' = IF d.op = "done" THEN "ended" ELSE "act"
  /\ UNCHANGED <<nxt, declinedAt, rpage, alone, acts, Follows>>

\* The page redraws while Jev decides; or the action is dropped or not built,
\* which leaves the saved step handed out.
RedrawnDeciding ==
  /\ rph = "decide" /\ rph' = "see" /\ pend' = 0 /\ deed' = NoDeed
  /\ UNCHANGED <<nxt, declinedAt, rpage, alone, acts, Follows>>
NotBuilt ==
  /\ rph = "act" /\ rph' = "see" /\ deed' = NoDeed
  /\ UNCHANGED <<nxt, pend, declinedAt, rpage, alone, acts, Follows>>

\* The recipe step an executed action becomes; none when what it says of its page
\* or control reveals a secret.  The text is kept only when it is safe to write.
Reveals(value) == value \in known
StepOf(source, typed, secrets) ==
  LET sensitive == deed.target.kind # "plain"
      text == IF deed.op # "fill" THEN NoText
              ELSE IF source.from \in {"live", "input", "secret"} THEN source
              ELSE IF sensitive \/ typed \in secrets THEN NoText
              ELSE [from |-> "literal", value |-> typed]
      step == [op |-> deed.op, page |-> rpage.url, target |-> deed.target.name, text |-> text, readFirst |-> FALSE,
               replay |-> deed.op \in Replayable /\ (deed.op = "fill" => text.from \notin {"none", "live"})]
  IN IF deed.op = "read" \/ {rpage.url, deed.target.name} \cap secrets # {} THEN <<>> ELSE <<step>>

\* What a fill types: the saved text when the recipe gives one, or a value found live.
Sources ==
  IF deed.op # "fill" THEN {[source |-> NoText, typed |-> "none"]}
  ELSE IF deed.replayed
  THEN {[source |-> saved[pend].text, typed |-> saved[pend].text.value]}
  ELSE {[source |-> NoText, typed |-> t] : t \in RpTexts}
         \cup {[source |-> LiveText, typed |-> "none"], [source |-> [from |-> "secret", value |-> "pw"], typed |-> "s3cret"]}

\* The action is carried out.
Settle(k) == nxt' = k + 1 /\ pend' = 0
Executes ==
  /\ rph = "act" /\ rph' = "see"
  /\ IF deed.replayed THEN Settle(pend)
     ELSE /\ UNCHANGED pend
          /\ LET took == FollowedSteps(deed.op, deed.target) IN
             nxt' = IF took = {} THEN nxt ELSE (CHOOSE k \in took : \A j \in took : k <= j) + 1
  /\ \E s \in Sources :
       /\ known' = IF s.source.from = "secret" THEN known \cup {"s3cret"} ELSE known
       /\ rlog' = rlog \o StepOf(s.source, s.typed, known')
  /\ deed' = NoDeed /\ UNCHANGED <<saved, declinedAt, rpage, alone, acts, rfile>>
\* The page refuses it, or stops answering.
Fails ==
  /\ rph = "act" /\ rph' = "see" /\ deed' = NoDeed
  /\ IF deed.replayed /\ pend # 0 THEN declinedAt' = declinedAt \cup {pend} /\ pend' = 0 ELSE UNCHANGED <<declinedAt, pend>>
  /\ UNCHANGED <<nxt, rpage, alone, acts, Follows>>

\* The steps that reveal nothing known by the end of the run.
IsSafe(step) == /\ ~Reveals(step.page) /\ ~Reveals(step.target)
                /\ step.text.from = "literal" => ~Reveals(step.text.value)
SafeSteps(log) ==
  LET kept[n \in 0..Len(log)] ==
        IF n = 0 THEN <<>> ELSE IF IsSafe(log[n]) THEN Append(kept[n - 1], log[n]) ELSE kept[n - 1]
  IN  kept[Len(log)]
Completes ==
  /\ rph = "ended" /\ rph' = "saving" /\ rlog' = SafeSteps(rlog)
  /\ UNCHANGED <<saved, nxt, pend, declinedAt, rpage, alone, deed, known, acts, rfile>>

\* The file is written beside its destination, synced and put in its place; the
\* process may stop at any point of it.
Saves ==
  /\ \/ rph = "saving" /\ rph' = "written" /\ UNCHANGED rfile
     \/ rph = "written" /\ rph' = "synced" /\ UNCHANGED rfile
     \/ rph = "synced" /\ rph' = "saved" /\ rfile' = "new"
  /\ UNCHANGED <<saved, nxt, pend, declinedAt, rpage, alone, deed, rlog, known, acts>>
RpNext ==
  \/ Sees \/ TakesThePick \/ JevAgrees \/ JevDeclines \/ Confirms \/ RedrawnDeciding \/ NotBuilt
  \/ Executes \/ Fails \/ Completes \/ Saves
RpSpec == RpInit /\ [][RpNext]_rpVars

----------------------------------------------------------------------------
\* A decision counted as the recipe's is the saved step handed out for it, still
\* ahead of the run, on its own page and control, with a text its field may take,
\* whatever was dropped, replaced or left unbuilt before it (`Replay`).
ReplayIsTheStep ==
  rph = "act" /\ deed.replayed =>
    /\ pend \in nxt..Len(saved) /\ saved[pend].op = deed.op /\ saved[pend].page = rpage.url
    /\ saved[pend].target = deed.target.name
    /\ deed.op = "fill" => /\ deed.target.kind # "password"
                           /\ saved[pend].text.from = "literal" => deed.target.kind = "plain"

\* What stands at the destination is a whole recipe at every moment, and the new
\* one shows nothing that was a secret by the end of the run, though it was none
\* when the step was recorded (`safe_steps`, `Recipe::save`).
RecipeOnDisk ==
  /\ rfile \in {"old", "new"}
  /\ rfile = "new" =>
       \A k \in 1..Len(rlog) : ~Reveals(rlog[k].page) /\ ~Reveals(rlog[k].target)
                                 /\ (rlog[k].text.from = "literal" => ~Reveals(rlog[k].text.value))

\* A recipe is played back as it was recorded, each text only into the field of its
\* own step, and what is written to disk holds no secret the run came to know
\* (replay.rs, recipe.rs).
RecipesKept == ReplayIsTheStep /\ RecipeOnDisk
=============================================================================
