------------------------------- MODULE Acting -------------------------------
(* A decision turned into an action (agent/acting.rs): the gates before an     *)
(* action that may commit or download, and where the text of a field comes     *)
(* from.  Jev's answers may be missing, and a run builds several actions, so   *)
(* what one of them leaves behind is there for the next.                       *)
EXTENDS Integers, Sequences, FiniteSets

CONSTANTS
  ActDecisions,     \* decisions to build: [op, downloads, credential, open, control]
  SecretNames,      \* stored secrets
  ScopeOf,          \* for each secret, the origins it may be typed at
  MaxChoice,        \* DecisionProfile.max_choice_options
  SourceParts,      \* VALUE_SOURCE_PARTS
  TaskWords,        \* how many words the task has
  MaxBuilds         \* bound on the actions built

ASSUME ActAssumption ==
  /\ MaxChoice \in Nat /\ MaxChoice >= 3      \* `narrowed` refuses a smaller profile
  /\ SourceParts \in Nat /\ SourceParts >= 3  \* 4: with fewer, two parts of the words can cut a short value
  /\ TaskWords \in Nat \ {0} /\ MaxBuilds \in Nat
  /\ ScopeOf \in [SecretNames -> SUBSET {"site", "frame"}]

VARIABLES
  aph,        \* idle, download, gate, text, sensitive, narrow, source, end, start, secret, ready, refused, stopped
  adec,       \* the decision being built
  authorized, \* RunOptions.authorization.irreversible_actions
  forbidden,  \* RunState.downloads_forbidden
  saidNo,     \* Jev answered that the task rules downloads out
  judged,     \* what Jev answered of this action: [irreversible, requested, lasting]
  commits,    \* RunState.committing
  handed,     \* the tab was handed over
  picks,      \* the words a value is picked from, [from, to)
  wanted,     \* the words that are the value
  source,     \* the text's source
  ends,       \* the first and the last word picked
  redacts,    \* the secrets the redactor knows
  builds

actVars == <<aph, adec, authorized, forbidden, saidNo, judged, commits, handed, picks, wanted, source, ends, redacts, builds>>

Unjudged == [irreversible |-> "none", requested |-> "none", lasting |-> "none"]
NoSource == [from |-> "none", secret |-> "none", replaces |-> FALSE]
NoEnds == [first |-> 0, last |-> 0]
Span == [from : 0..TaskWords, to : 0..TaskWords]
Whole == [from |-> 0, to |-> TaskWords]
Within(a, b) == b.from <= a.from /\ a.to <= b.to
Words(s) == s.to - s.from

ActInit ==
  /\ aph = "idle" /\ adec \in ActDecisions /\ authorized \in BOOLEAN /\ forbidden = "unset" /\ saidNo = FALSE
  /\ judged = Unjudged /\ commits = FALSE /\ handed = FALSE /\ picks = Whole /\ source = NoSource /\ ends = NoEnds
  /\ wanted \in {s \in Span : s.from < s.to} /\ redacts = {} /\ builds = 0

Refuses == aph' = "refused"
Stops == aph' = "stopped"

\* What the decision's operation needs before anything is typed or pressed.  `open`
\* is what the page or the caller must provide: an address the caller supplied, a
\* drop target, options, a file, an open dialog, a page in a browser.
FirstStep(d) ==
  CASE d.op \in {"navigate", "drag"} -> IF d.open THEN {"download"} ELSE {"stopped"}
    [] d.op = "click" -> {"download"}
    [] d.op = "dialog" -> IF d.open THEN {"gate", "ready"} ELSE {"stopped"}
    [] d.op = "fill" -> IF d.open THEN {"text"} ELSE {"stopped"}
    [] d.op = "select" -> IF d.open THEN {"ready", "stopped"} ELSE {"refused"}
    [] d.op = "upload" -> IF d.open THEN {"ready", "stopped"} ELSE {"stopped"}
    [] OTHER -> {"ready"}
Begins ==
  /\ aph \in {"idle", "ready", "refused"} /\ builds < MaxBuilds /\ builds' = builds + 1
  /\ adec' \in ActDecisions /\ aph' \in FirstStep(adec')
  \* The page a commit landed on was judged before the next decision.
  /\ commits' = FALSE /\ judged' = Unjudged /\ source' = NoSource /\ picks' = Whole /\ ends' = NoEnds
  /\ UNCHANGED <<authorized, forbidden, saidNo, handed, wanted, redacts>>

KeepForbidden(answer) == IF answer = "none" THEN "unset" ELSE answer
GateDownload ==
  /\ aph = "download"
  /\ IF ~adec.downloads THEN aph' = "gate" /\ UNCHANGED <<forbidden, saidNo>>
     ELSE IF forbidden # "unset"
     THEN aph' = (IF forbidden = "yes" THEN "refused" ELSE "gate") /\ UNCHANGED <<forbidden, saidNo>>
     ELSE \E answer \in {"yes", "no", "none"} :
            /\ forbidden' = KeepForbidden(answer) /\ saidNo' = (saidNo \/ answer = "yes")
            /\ aph' = IF answer = "no" THEN "gate" ELSE "refused"
  /\ UNCHANGED <<adec, authorized, judged, commits, handed, picks, wanted, source, ends, redacts, builds>>

\* What Jev may answer: a question not asked has no answer, and an asked one may
\* go unanswered.
Asked(yes) == IF yes THEN {"low", "high", "none"} ELSE {"none"}
GateAnswers ==
  [irreversible : Asked(~adec.credential), requested : Asked(authorized), lasting : Asked(authorized /\ adec.op \in {"click", "drag"})]

\* The one rule for an action that may commit.
Reversible(a) == a.irreversible = "low"
AskedFor(a) == a.requested = "high"
KeepsSomething(a) == authorized /\ adec.op \in {"click", "drag"} /\ a.lasting # "low"
Proceeds(a) == Reversible(a) \/ AskedFor(a)
GateQuestion ==
  /\ aph = "gate"
  /\ \E a \in GateAnswers :
       /\ judged' = a
       /\ IF Reversible(a) /\ KeepsSomething(a) /\ ~AskedFor(a) THEN Refuses /\ UNCHANGED <<commits, handed>>
          ELSE IF Proceeds(a)
          THEN aph' = "ready" /\ commits' = ~Reversible(a) /\ handed' = (handed \/ ~Reversible(a))
          ELSE Stops /\ UNCHANGED <<commits, handed>>
  /\ UNCHANGED <<adec, authorized, forbidden, saidNo, picks, wanted, source, ends, redacts, builds>>

----------------------------------------------------------------------------
(* The text of a field.                                                       *)

TheField == adec.control
\* The secrets the field's own frame may receive.
Usable == {name \in SecretNames : TheField.origin \in ScopeOf[name]}

\* A saved text, a password, or a value picked from the task.
Text ==
  /\ aph = "text"
  /\ \/ TheField.kind # "password" /\ TheField.saved # "none"
        /\ \/ TheField.saved = "literal" /\ aph' = "ready" /\ source' = [NoSource EXCEPT !.from = "saved"]
           \/ TheField.saved \in SecretNames /\ aph' = "secret"
              /\ source' = [NoSource EXCEPT !.from = "secret", !.secret = TheField.saved]
     \/ TheField.kind = "password" /\ aph' = "sensitive" /\ UNCHANGED source
     \/ TheField.kind # "password" /\ TheField.saved = "none" /\ aph' = "narrow" /\ UNCHANGED source
  /\ UNCHANGED <<adec, authorized, forbidden, saidNo, judged, commits, handed, picks, wanted, ends, redacts, builds>>

\* A password: its role from the form or from Jev, and the stored secret for it.
SensitiveText ==
  /\ aph = "sensitive"
  /\ \E role \in (IF TheField.role = "unclear" THEN {"replacement", "current", "unclear"} ELSE {TheField.role}) :
       LET names == IF role = "replacement" THEN Usable \cap {"new_password"} ELSE Usable \ {"new_password"} IN
       IF role = "unclear" \/ names = {} THEN Stops /\ UNCHANGED source
       ELSE \E name \in names :
              aph' = "secret" /\ source' = [from |-> "secret", secret |-> name, replaces |-> role = "replacement"]
  /\ UNCHANGED <<adec, authorized, forbidden, saidNo, judged, commits, handed, picks, wanted, ends, redacts, builds>>

\* The parts of the words left: each half again as wide as its step, so that a
\* value across a cut is whole in one of them.
StepOfParts(n) ==
  LET parts == IF MaxChoice - 1 < SourceParts THEN MaxChoice - 1 ELSE SourceParts IN (n + parts - 1) \div parts
LeastOf(a, b) == IF a < b THEN a ELSE b
WidthNoOverlap(n) == StepOfParts(n)
WidthOf(n) == LeastOf(2 * StepOfParts(n), n - 1)
Parts ==
  LET n == Words(picks)
      step == StepOfParts(n)
      starts == {k \in 0..(n - 1) : k % step = 0}
  IN {[from |-> picks.from + k, to |-> LeastOf(picks.from + k + WidthOf(n), picks.to)] : k \in starts}

\* Too many words for one choice: Jev names a part that holds the value, or none
\* where no part holds it.
Narrowed ==
  /\ aph = "narrow"
  /\ IF Words(picks) <= MaxChoice THEN aph' = "source" /\ UNCHANGED picks
     ELSE LET holding == {p \in Parts : Within(wanted, p)} IN
          IF holding = {} THEN aph' = "source" /\ picks' = [from |-> 0, to |-> 0]
          ELSE picks' \in holding /\ UNCHANGED aph
  /\ UNCHANGED <<adec, authorized, forbidden, saidNo, judged, commits, handed, wanted, source, ends, redacts, builds>>

\* Where the value comes from; one nothing gives leaves the field alone.  The two
\* ends of one the task gives are picked apart, so each may fall anywhere.
WordsLeft == picks.from..(picks.to - 1)
Value ==
  /\ aph = "source"
  /\ \/ \E name \in Usable :
          aph' = "secret" /\ source' = [NoSource EXCEPT !.from = "secret", !.secret = name] /\ UNCHANGED ends
     \/ \E first, last \in WordsLeft :
          aph' = "end" /\ source' = [NoSource EXCEPT !.from = "task"] /\ ends' = [first |-> first, last |-> last]
     \/ \E from \in {"written", "input", "read"} :
          aph' = "ready" /\ source' = [NoSource EXCEPT !.from = from] /\ UNCHANGED ends
     \/ Refuses /\ UNCHANGED <<source, ends>>
  /\ UNCHANGED <<adec, authorized, forbidden, saidNo, judged, commits, handed, picks, wanted, redacts, builds>>

\* The end is asked again knowing where the value begins, then the beginning
\* knowing where it ends.
Lasts == IF ends.first = ends.last THEN {ends.last} ELSE {w \in WordsLeft : w >= ends.first}
Firsts == IF ends.first >= ends.last THEN {ends.first} ELSE {w \in WordsLeft : w <= ends.last}
EndAgain == aph = "end" /\ aph' = "start" /\ \E w \in Lasts : ends' = [ends EXCEPT !.last = w]
StartAgain == aph = "start" /\ aph' = "ready" /\ \E w \in Firsts : ends' = [ends EXCEPT !.first = w]
AskedAgain ==
  /\ EndAgain \/ StartAgain
  /\ UNCHANGED <<adec, authorized, forbidden, saidNo, judged, commits, handed, picks, wanted, source, redacts, builds>>

\* A question Jev fails to answer where the code needs an answer ends the run.
JevFails ==
  /\ aph \in {"download", "gate", "sensitive", "narrow", "source", "end", "start"} /\ Stops
  /\ UNCHANGED <<adec, authorized, forbidden, saidNo, judged, commits, handed, picks, wanted, source, ends, redacts, builds>>

\* The secret is resolved for the field's origin and registered before it is typed.
ResolvesAnywhere(name) == TRUE
Resolves(name) == TheField.origin \in ScopeOf[name]
Secret ==
  /\ aph = "secret"
  /\ \/ Resolves(source.secret) /\ aph' = "ready" /\ redacts' = redacts \cup {source.secret}
     \/ Stops /\ UNCHANGED redacts
  /\ UNCHANGED <<adec, authorized, forbidden, saidNo, judged, commits, handed, picks, wanted, source, ends, builds>>

ActWork == GateDownload \/ GateQuestion \/ Text \/ SensitiveText \/ Narrowed \/ Value \/ AskedAgain \/ Secret \/ JevFails
ActNext == Begins \/ ActWork
ActingSpec == ActInit /\ [][ActNext]_actVars

----------------------------------------------------------------------------
ActOver == aph \in {"idle", "ready", "refused", "stopped"}

\* An action that commits goes ahead only in an authorized run whose task asked
\* for it, with its tab handed over, and a question Jev left unanswered never
\* lets one through; nor does one forbid downloads for good.
GatesHold ==
  /\ aph = "ready" /\ adec.op \in {"click", "drag", "navigate"} /\ judged.irreversible # "low" =>
       authorized /\ judged.requested = "high" /\ commits /\ handed
  /\ forbidden = "yes" => saidNo

\* A secret is typed only where its scope lets it be, once the redactor knows it;
\* a password field gets nothing else, and a replacement password only goes where
\* one is set.
SecretsStayHome ==
  aph = "ready" /\ adec.op = "fill" =>
    /\ source.from = "secret" => TheField.origin \in ScopeOf[source.secret] /\ source.secret \in redacts
    /\ TheField.kind = "password" =>
         /\ source.from = "secret"
         /\ source.replaces <=> source.secret = "new_password"
         /\ TheField.role # "unclear" => (source.replaces <=> TheField.role = "replacement")

\* A value as short as the narrowest part is never cut apart: it is still among
\* the words offered when Jev is asked where it begins and ends.
NarrowKeepsShort ==
  aph \in {"narrow", "source"} /\ Words(wanted) <= StepOfParts(MaxChoice + 1) => Within(wanted, picks)

\* What is copied from the task runs forwards and lies in the words offered,
\* however the two ends were first picked: the copy counts `last.end - first.start`
\* characters, which must not fall below zero.
CopiedForwards ==
  aph = "ready" /\ source.from = "task" => ends.first <= ends.last /\ {ends.first, ends.last} \subseteq WordsLeft

\* No action goes ahead that its gates did not allow, though their questions may come
\* back unanswered, and a secret is typed only into a frame it may be given to, after
\* the redactor knows it.
ActsAsAllowed == GatesHold /\ SecretsStayHome

\* A value copied from the task is the one Jev pointed at: not cut apart while the
\* source is narrowed, and never from a later word to an earlier one.
CopiedWhole == NarrowKeepsShort /\ CopiedForwards
=============================================================================
