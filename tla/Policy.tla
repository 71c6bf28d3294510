------------------------------- MODULE Policy -------------------------------
(* Asking Jev for the next action (policy.rs): `decide` offers the controls of *)
(* one observation, and makes room when the request is more than Jev takes.    *)
(* History and texts are cut first when that is enough, then controls are      *)
(* shortlisted by relevance, then the off-screen ones go, then all but the     *)
(* prefix that fits.  The page may redraw at any await, which drops the        *)
(* decision; relevance scores already answered stay cached.                    *)
(* Sizes stand for characters of the JSON written: one for a control, listed   *)
(* once in the state and once in each question that offers it.                 *)
EXTENDS Integers, Sequences, FiniteSetsExt, SequencesExt

CONSTANTS
  PolPages,      \* observations with their step context: [doc, ctx, controls, texts, hist]
  PolOptions,    \* DecisionProfile.max_choice_options
  PolGroup,      \* ObservationLimits.group_size
  PolLargest,    \* TokenBudget: state plus the largest question
  PolTotal,      \* TokenBudget: state plus all questions
  PolBatch,      \* TokenBudget.batch_tokens: a larger request may be shed
  PolMarker,     \* what a cut text says of itself
  MaxDecides     \* bound on the decisions asked for in a behaviour

ASSUME PolAssumption ==
  /\ PolOptions \in Nat \ {0} /\ PolGroup \in Nat
  /\ PolLargest \in Nat /\ PolTotal \in Nat /\ PolBatch \in Nat /\ PolMarker \in Nat /\ MaxDecides \in Nat
  /\ \A p \in PolPages : DOMAIN p = {"doc", "ctx", "controls", "texts", "hist", "dialog"} /\ Len(p.controls) \in Nat

VARIABLES
  pph,      \* where `decide` is
  obsn,     \* the observation and context as they are offered: texts and history may be cut
  ctl,      \* the indices of the controls offered
  red,      \* Reduction
  tries,    \* what was tried once: trimming, shortlisting; how often the request was shed
  toScore,  \* relevance questions still out
  scores,   \* the relevance answers of this pass
  rcache,   \* RelevanceCache: its key, and its answers with what each was judged on
  chosen,   \* the decision
  decides   \* decisions asked for so far

polVars == <<pph, obsn, ctl, red, tries, toScore, scores, rcache, chosen, decides>>

TargetedOps == {"click", "drag"}
None == [op |-> "none", target |-> 0, drop |-> 0]
Untried == [trim |-> FALSE, shortlist |-> FALSE, sheds |-> 0]
SumOf(f) == MapThenSumSet(LAMBDA x : f[x], DOMAIN f)

Controls == obsn.controls
Protected(i) == Controls[i].prot

----------------------------------------------------------------------------
(* The request: what it holds and whether it fits.                            *)

\* The controls each operation can target.
IndexControls(kept, op) == {i \in kept : op \in Controls[i].ops}

OfferedOperations(kept) ==
  IF obsn.dialog THEN {"dialog"}
  ELSE {"read", "done"} \cup {op \in TargetedOps : IndexControls(kept, op) # {}}

Size == Min({PolGroup, PolOptions})
Chunk == Max({1, Size})
\* The controls of `all`, in order, as groups of `Chunk`.
Groups(all) ==
  LET at(i) == (Cardinality({j \in all : j < i}) \div Chunk) + 1 IN
  {{i \in all : at(i) = g} : g \in {at(i) : i \in all}}
Grouped(all) == Cardinality(all) > PolOptions

Drops(kept) == {i \in kept : Controls[i].label}

\* One question for the operation, one for each operation's target, one for
\* where a drag is dropped: a question with too many options names groups.
Written(all) == 1 + (IF Grouped(all) THEN Cardinality(Groups(all)) ELSE Cardinality(all))
Questions(kept) ==
  LET offered == OfferedOperations(kept) IN
  [q \in {"operation"} \cup (offered \cap TargetedOps) \cup (IF "drag" \in offered THEN {"destination"} ELSE {}) |->
     IF q = "operation" THEN 1 ELSE IF q = "destination" THEN Written(Drops(kept)) ELSE Written(IndexControls(kept, q))]

\* The state: the texts, the actions taken and the controls offered.
StateSize(kept, texts, hist) ==
  SumOf(texts) + SumOf([k \in DOMAIN hist |-> hist[k].size]) + Cardinality(kept)

InputRoom(questions) ==
  Max({0, Min({PolLargest - Max({questions[q] : q \in DOMAIN questions}), PolTotal - SumOf(questions)})})
Excess(kept, texts, hist) == StateSize(kept, texts, hist) - InputRoom(Questions(kept))
Fits(kept, texts, hist) == Excess(kept, texts, hist) <= 0
FitsNow(kept) == \A offered \in {kept} : Fits(offered, obsn.texts, obsn.hist)

\* The largest prefix a bisection finds: `ok` need not be monotone, since a
\* question with too many options is written shorter.
Bisect(ok, most) ==
  LET found[r \in (0..most) \X (0..most)] ==
        IF r[1] >= r[2] THEN r[1]
        ELSE LET middle == (r[1] + r[2] + 1) \div 2 IN
             IF ok[middle] THEN found[<<middle, r[2]>>] ELSE found[<<r[1], middle - 1>>]
  IN found[<<0, most>>]

----------------------------------------------------------------------------
(* The rungs.                                                                 *)

CutOrder == <<"fact2", "fact1", "offscreen", "viewport", "notes">>
CutTo(size, room) == IF size <= room THEN size ELSE IF room > PolMarker THEN room ELSE 0

\* The actions left when the first `dropped` are: oldest first, values set last.
Without(hist, dropped) ==
  LET order(k) == Cardinality({j \in DOMAIN hist : (~hist[j].set /\ hist[k].set) \/ (hist[j].set = hist[k].set /\ j <= k)})
  IN FoldLeft(LAMBDA left, k : IF order(k) > dropped THEN Append(left, hist[k]) ELSE left, <<>>, [k \in DOMAIN hist |-> k])
Fewest(kept, texts, hist) ==
  LET enough == {d \in 0..Len(hist) : Fits(kept, texts, Without(hist, d))} IN
  IF enough = {} THEN Len(hist) ELSE Min(enough)

\* One text cut by what the request still runs over.
CutOne(kept, texts, hist, name) ==
  [texts EXCEPT ![name] = LET over == Excess(kept, texts, hist) IN
                          IF over <= 0 THEN @ ELSE CutTo(@, Max({0, @ - over}))]
\* The texts cut in turn, as far as it takes.
CutTexts(kept, texts, hist) ==
  LET cut[k \in 0..Len(CutOrder)] ==
        IF k = 0 THEN {texts} ELSE {CutOne(kept, before, hist, CutOrder[k]) : before \in cut[k - 1]}
  IN cut[Len(CutOrder)]

\* The observation and context cut until `kept` fits: none when no cut makes it fit.
Trim(kept) ==
  LET cut == IF Fits(kept, obsn.texts, <<>>) THEN {obsn.texts} ELSE CutTexts(kept, obsn.texts, obsn.hist)
      smaller == {[obsn EXCEPT !.texts = texts, !.hist = Without(obsn.hist, Fewest(kept, texts, obsn.hist))] : texts \in cut}
  IN {o \in smaller : o # obsn /\ Fits(kept, o.texts, o.hist)}

\* Protected controls, then the first others, up to `limit`.
ProtectedFirst(limit) ==
  LET keep == {i \in ctl : Protected(i)}
      room == Max({0, limit - Cardinality(keep)})
  IN keep \cup {i \in ctl \ keep : Cardinality({j \in ctl \ keep : j < i}) < room}

MaxOffered == Size * PolOptions

\* `controls` without the off-screen ones: none when the rung was taken.
Offscreen == {i \in ctl : Controls[i].off}
OnscreenRungAlways == {ctl \ Offscreen}
OnscreenRung == IF red \in {"onscreen_only", "capped"} \/ Offscreen = {} THEN {} ELSE {ctl \ Offscreen}

RequestIsLarge ==
  LET questions == Questions(ctl) IN
  StateSize(ctl, obsn.texts, obsn.hist) + Max({questions[q] : q \in DOMAIN questions}) > PolBatch
Shed == IF RequestIsLarge THEN OnscreenRung ELSE {}

\* The first `n` of `order`, which lists all of `ctl`.
KeepIndices(order, n) == {i \in ctl : order[i] <= n}
CapOrderByPlace == [i \in ctl |-> Cardinality({j \in ctl : j <= i})]
CapOrder == [i \in ctl |-> Cardinality({j \in ctl : (Protected(j) /\ ~Protected(i)) \/ (Protected(j) = Protected(i) /\ j <= i)})]

LargestPrefix(ranks, most) ==
  {KeepIndices(order, Bisect([n \in 0..most |-> FitsNow(KeepIndices(order, n))], most)) : order \in {ranks}}

\* The largest prefix, protected controls first, short of them all, that fits.
Cap ==
  IF ctl = {} \/ ~FitsNow({}) THEN {}
  ELSE LargestPrefix(CapOrder, Cardinality(ctl) - 1)

----------------------------------------------------------------------------
(* The relevance pass.                                                        *)

CacheKey == <<obsn.doc, obsn.ctx, obsn.hist>>
\* The question asked of a control: twins ask the same one.
Question(i) == Controls[i].rel
Candidates == {i \in ctl : ~Protected(i)}

\* The cache ready for this document and context.
PrepareForDocument(cache) ==
  IF cache.key # <<>> /\ cache.key[1] = CacheKey[1] THEN [cache EXCEPT !.key = CacheKey] ELSE [key |-> CacheKey, answers |-> {}]
Prepare(cache) == IF cache.key = CacheKey THEN cache ELSE [key |-> CacheKey, answers |-> {}]

Scored(i) == \E a \in scores : a.question = Question(i)
ScoreOf(i) == IF Scored(i) THEN (CHOOSE a \in scores : a.question = Question(i)).score ELSE 2

\* Most relevant first; a control with no score goes ahead of an equal one.
Ahead(i, j) ==
  \/ ScoreOf(i) > ScoreOf(j)
  \/ ScoreOf(i) = ScoreOf(j) /\ ~Scored(i) /\ Scored(j)
  \/ ScoreOf(i) = ScoreOf(j) /\ Scored(i) = Scored(j) /\ i <= j

\* The protected controls, and as many of the others as fit.
Shortlisted ==
  LET prot == ctl \ Candidates
      rank == [i \in ctl |-> IF i \in prot THEN 0 ELSE Cardinality({j \in Candidates : Ahead(j, i)})]
      most == Min({Cardinality(Candidates), Max({0, MaxOffered - Cardinality(prot)})})
  IN LargestPrefix(rank, most)

\* The questions no cached answer settles go out together.
StartScoring ==
  \E cache \in {Prepare(rcache)} :
    /\ rcache' = cache
    /\ scores' = {a \in cache.answers : \E i \in Candidates : Question(i) = a.question}
    /\ toScore' = {Question(i) : i \in Candidates} \ {a.question : a \in cache.answers}
    /\ pph' = "scoring"

----------------------------------------------------------------------------
(* decide.                                                                    *)

PolInit ==
  /\ pph = "idle" /\ obsn \in PolPages /\ ctl = {} /\ red = "none" /\ tries = Untried
  /\ toScore = {} /\ scores = {} /\ rcache = [key |-> <<>>, answers |-> {}] /\ chosen = None /\ decides = 0

\* A step asks for its decision, on any observation.
DecideBegins ==
  /\ pph \in {"idle", "decided"} /\ decides < MaxDecides
  /\ obsn' \in PolPages
  /\ ctl' = 1..Len(obsn'.controls)
  /\ pph' = "opening" /\ red' = "none" /\ tries' = Untried /\ decides' = decides + 1 /\ chosen' = None
  /\ UNCHANGED <<toScore, scores, rcache>>

\* More controls than groups can offer are shortlisted before anything is asked.
Open ==
  /\ pph = "opening"
  /\ IF Cardinality(ctl) > MaxOffered
     THEN tries' = [tries EXCEPT !.shortlist = TRUE] /\ StartScoring
     ELSE pph' = "fitting" /\ UNCHANGED <<tries, rcache, scores, toScore>>
  /\ UNCHANGED <<obsn, ctl, red, chosen, decides>>

\* One batch comes back with its answers, or fails and scores nothing.
BatchAnswers ==
  /\ pph = "scoring"
  /\ \E q \in toScore, s \in 0..2 :
       LET answer == [question |-> q, score |-> s, judged |-> CacheKey] IN
       /\ rcache' = [rcache EXCEPT !.answers = @ \cup {answer}]
       /\ scores' = scores \cup {answer} /\ toScore' = toScore \ {q}
  /\ UNCHANGED <<pph, obsn, ctl, red, tries, chosen, decides>>
BatchFails ==
  /\ pph = "scoring"
  /\ \E q \in toScore : toScore' = toScore \ {q}
  /\ UNCHANGED <<pph, obsn, ctl, red, tries, scores, rcache, chosen, decides>>

\* The controls kept; with no answer at all, the protected and the first ones when
\* there are too many to offer, and the next rung when there are not.
Shortlist ==
  /\ pph = "scoring" /\ toScore = {}
  /\ IF scores # {} THEN ctl' \in Shortlisted /\ red' = "relevance" /\ pph' = "fitting"
     ELSE /\ UNCHANGED red
          /\ IF ~tries.trim
             THEN ctl' = ProtectedFirst(MaxOffered) /\ pph' = "fitting"
             ELSE ctl' = ctl /\ pph' = "reducing"
  /\ UNCHANGED <<obsn, tries, toScore, scores, rcache, chosen, decides>>

\* The request is sent when it fits.
Fit ==
  /\ pph = "fitting" /\ pph' = IF FitsNow(ctl) THEN "asking" ELSE "reducing"
  /\ UNCHANGED <<obsn, ctl, red, tries, toScore, scores, rcache, chosen, decides>>

\* The first rung that applies.  Trimming and shortlisting are tried once each.
OnlyRung == UNCHANGED <<toScore, scores, rcache, chosen, decides>>
TrimRung == pph = "reducing" /\ ~tries.trim
Trims ==
  /\ TrimRung /\ tries' = [tries EXCEPT !.trim = TRUE]
  /\ \E found \in {Trim(ctl)} :
       IF found # {} THEN obsn' \in found /\ red' = "trimmed" /\ pph' = "fitting"
       ELSE UNCHANGED <<obsn, red, pph>>
  /\ UNCHANGED ctl /\ OnlyRung
Shortlists ==
  /\ pph = "reducing" /\ tries.trim /\ ~tries.shortlist
  /\ tries' = [tries EXCEPT !.shortlist = TRUE] /\ StartScoring
  /\ UNCHANGED <<obsn, ctl, red, chosen, decides>>
LowerRungs == pph = "reducing" /\ tries.trim /\ tries.shortlist
DropsOffscreen ==
  /\ LowerRungs /\ OnscreenRung # {}
  /\ ctl' \in OnscreenRung /\ red' = "onscreen_only" /\ pph' = "fitting"
  /\ UNCHANGED <<obsn, tries>> /\ OnlyRung
Caps ==
  /\ LowerRungs /\ OnscreenRung = {}
  /\ \E found \in {Cap} : found # {} /\ ctl' \in found
  /\ red' = "capped" /\ pph' = "fitting"
  /\ UNCHANGED <<obsn, tries>> /\ OnlyRung
\* Not even no controls fit beside the texts: they are cut, or the step fails.
CutsBare ==
  /\ LowerRungs /\ OnscreenRung = {} /\ Cap = {}
  /\ \E found \in {IF FitsNow({}) THEN {} ELSE Trim({})} :
       IF found # {} THEN obsn' \in found /\ pph' = "fitting" ELSE pph' = "too_large" /\ UNCHANGED obsn
  /\ UNCHANGED <<ctl, red, tries>> /\ OnlyRung

\* Jev refuses the size after all.
RefusedAsTooLarge ==
  /\ pph \in {"asking", "grouping"} /\ pph' = "reducing"
  /\ chosen' = None
  /\ UNCHANGED <<obsn, ctl, red, tries, toScore, scores, rcache, decides>>

\* Retries ran out: a large request is asked again without off-screen controls.
RetriesRunOut ==
  /\ pph \in {"asking", "grouping"} /\ chosen' = None
  /\ \E smaller \in {Shed} :
       IF smaller = {} THEN pph' = "unavailable" /\ UNCHANGED <<ctl, red, tries>>
       ELSE /\ ctl' \in smaller /\ red' = "onscreen_only" /\ pph' = "fitting"
            /\ tries' = [tries EXCEPT !.sheds = @ + 1]
  /\ UNCHANGED <<obsn, toScore, scores, rcache, decides>>

\* Jev's pick among `all`, links to one address counted as one destination:
\* `votes` are Jev's probabilities, `pick` the option it named.
DestinationPick(all, votes, pick) ==
  LET total(i) == IF Controls[i].href = "none" THEN votes[i]
                  ELSE SumOf([j \in {k \in all : Controls[k].href = Controls[i].href} |-> votes[j]])
      best == CHOOSE i \in all : \A j \in all : total(j) < total(i) \/ (total(j) = total(i) /\ j <= i)
  IN IF total(best) > total(pick) THEN best ELSE pick

\* What follows a target: a drag still needs where to drop it.
Settled(op, target) ==
  IF op = "drag" /\ Grouped(Drops(ctl)) THEN {[p |-> "grouping", d |-> [op |-> op, target |-> target, drop |-> 0]]}
  ELSE {[p |-> "decided", d |-> [op |-> op, target |-> target, drop |-> drop]] :
          drop \in IF op = "drag" THEN Drops(ctl) ELSE {0}}

\* Jev names an operation, and its target when there are few enough of them.
JevAnswers ==
  /\ pph = "asking"
  /\ \E op \in OfferedOperations(ctl) :
       LET all == IndexControls(ctl, op) IN
       IF op \notin TargetedOps THEN pph' = "decided" /\ chosen' = [None EXCEPT !.op = op]
       ELSE IF Grouped(all) THEN pph' = "grouping" /\ chosen' = [None EXCEPT !.op = op]
       ELSE \E votes \in [all -> 0..1], pick \in all :
              /\ \A i \in all : votes[i] <= votes[pick]
              /\ \E next \in Settled(op, DestinationPick(all, votes, pick)) : pph' = next.p /\ chosen' = next.d
  /\ UNCHANGED <<obsn, ctl, red, tries, toScore, scores, rcache, decides>>

\* A group is named with the operation, and one more request picks inside it.
JevPicks ==
  /\ pph = "grouping"
  /\ IF chosen.target = 0
     THEN \E group \in Groups(IndexControls(ctl, chosen.op)) : \E i \in group :
            \E next \in Settled(chosen.op, i) : pph' = next.p /\ chosen' = next.d
     ELSE \E group \in Groups(Drops(ctl)) : \E i \in group : pph' = "decided" /\ chosen' = [chosen EXCEPT !.drop = i]
  /\ UNCHANGED <<obsn, ctl, red, tries, toScore, scores, rcache, decides>>

\* The page redraws under the decision, which is dropped where it stands.
PageRedraws ==
  /\ pph \in {"scoring", "asking", "grouping"}
  /\ pph' = "idle" /\ toScore' = {} /\ scores' = {} /\ chosen' = None
  /\ UNCHANGED <<obsn, ctl, red, tries, rcache, decides>>

PolWork ==
  \/ Open \/ BatchAnswers \/ BatchFails \/ Shortlist \/ Fit \/ Trims \/ Shortlists \/ DropsOffscreen
  \/ Caps \/ CutsBare \/ RefusedAsTooLarge \/ RetriesRunOut \/ JevAnswers \/ JevPicks
PolNext == DecideBegins \/ PolWork \/ PageRedraws
PolSpec == PolInit /\ [][PolNext]_polVars

----------------------------------------------------------------------------
\* Nothing is being decided.
DecideOver == pph \in {"idle", "decided", "too_large", "unavailable"}

\* A relevance score is used only for the document, context and history it was
\* judged on, whatever decision was dropped half scored before this one
\* (`RelevanceCache::prepare`).
ScoresOfThisPage == pph = "scoring" => \A a \in scores : a.judged = CacheKey

\* What the task has set on the page is the last thing given up for room: a step
\* that drops such a control from view drops the off-screen ones as a rung, or
\* leaves nothing else (`protected_first`, `shortlist`, `cap`).
SetStateGoesLast ==
  [][ \A i \in ctl : (i \notin ctl' /\ Protected(i) /\ obsn' = obsn /\ red' # "onscreen_only") =>
        \A j \in ctl' : Protected(j) ]_polVars
=============================================================================
