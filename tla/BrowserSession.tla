--------------------------- MODULE BrowserSession ---------------------------
(***************************************************************************)
(* The run's side of the browser (crates/fastbrowse-browser/src/session.rs):*)
(* the tabs it opened, attached to or adopted, which of them it is on, the *)
(* frames it casts, the responses it captures and the dialogs it is shown. *)
(*                                                                         *)
(* Three actors share State behind one lock: the run, which calls one      *)
(* operation at a time and may be dropped at any await; the socket's       *)
(* reader, which handles events in order; and the background tasks those   *)
(* events spawn.  Whatever the code does in one lock section is one step.  *)
(* The browser is external: windows open and close by themselves.  A       *)
(* session id is named after its target.                                   *)
(***************************************************************************)
EXTENDS Naturals, Sequences, FiniteSets, SequencesExt

CONSTANTS
  Targets,      \* page targets
  Root,         \* the target the run opens for itself
  NoTarget,
  Subframes,    \* frames in a renderer of their own
  Responses,    \* document responses that Fetch pauses
  Confs,        \* the connections, and what each scene's pages may do
  MaxFrames,    \* bound: screencast frames Chrome sends
  MaxMoves      \* bound: calls the run makes between open and close

ASSUME SessionAssumption ==
  /\ Root \in Targets /\ NoTarget \notin Targets \cup Subframes
  /\ Targets \cap Subframes = {} /\ MaxFrames \in Nat /\ MaxMoves \in Nat

VARIABLES
  conf,    \* BrowserConnection and SessionOptions, with the scene's events
  chrome,  \* external: windows, gates, dialogs, casts, responses
  tab,     \* State: tabs, activated, owned, open_before, handed_over, popups, active
  cast,    \* State: screencast_session_id, pending_frame, frame_scheduled, and the delivery
  file,    \* State: paused and the settled downloads
  life,    \* State: closing, dialogs, frame sessions; the client; the reader
  tasks,   \* State.background
  run      \* the run's call: where it stands

svars == <<conf, chrome, tab, cast, file, life, tasks, run>>

TabSessions == Targets \cup Subframes
NoFrame == [n |-> 0, of |-> NoTarget]
HasTab(t) == t \in ToSet(tab.list)
Popups == ToSet(tab.popups)
KnownPopup(t) == \E p \in Popups : p.id = t
At(where) == run.at = where
Go(where) == run' = [run EXCEPT !.at = where]

\* One type invariant.
SessionTypeOK ==
  /\ chrome.window \in [Targets -> {"none", "waiting", "open", "gone"}]
  /\ chrome.opener \in [Targets -> Targets \cup {NoTarget}]
  /\ chrome.gate \cup chrome.casting \cup tab.owned \cup tab.openBefore \subseteq Targets
  /\ chrome.alerts \cup life.dialogs \subseteq TabSessions
  /\ \A f \in chrome.flying : f.n \in 1..MaxFrames /\ f.of \in Targets
  /\ tab.list \in Seq(Targets) /\ IsInjective(tab.list)
  /\ tab.activated \in Seq(Targets) /\ IsInjective(tab.activated)
  /\ {tab.active, cast.session} \cup tab.handedOver \subseteq Targets \cup {NoTarget}
  /\ \A p \in Popups : p.id \in Targets /\ p.adopted \in {"unknown", "joined", "lost"}
  /\ file.paused \subseteq Responses /\ file.kept \in Nat /\ file.refused \in Nat

----------------------------------------------------------------------------
(* What the code reads under the lock.                                     *)

\* `active_session_id`: none when the active target is no tab.
ActiveSession == IF HasTab(tab.active) THEN tab.active ELSE NoTarget

\* The opener a tab was adopted with.
TabOpener(t) == IF KnownPopup(t) THEN (CHOOSE p \in Popups : p.id = t).opener ELSE NoTarget

\* A target is on a list once at most: `retain` takes it off.
Without(list, t) == IF t \in ToSet(list) THEN RemoveAt(list, CHOOSE i \in DOMAIN list : list[i] = t) ELSE list

\* `successor`: the opener, else the tab the run was on last, else the first.
Successor(closed, left, recent) ==
  LET live == {i \in DOMAIN recent : recent[i] \in ToSet(left)}
  IN IF TabOpener(closed) \in ToSet(left) THEN TabOpener(closed)
     ELSE IF live # {} THEN recent[Max(live)]
     ELSE IF left # <<>> THEN left[1] ELSE NoTarget

\* The session a frame's session descends from (`belongs`): two levels of frames.
RootOf(s) ==
  LET up(x) == IF \E f \in ToSet(life.frames) : f.id = x
               THEN (CHOOSE f \in ToSet(life.frames) : f.id = x).parent ELSE x
  IN up(up(s))

\* `frame_sessions_of_active`.
FramesOfActive ==
  SelectSeq([i \in DOMAIN life.frames |-> life.frames[i].id], LAMBDA f : RootOf(f) = ActiveSession)

\* `pending_dialog`: the active tab's, else the first of its frames'.
PendingDialog ==
  LET asked == SelectSeq(<<ActiveSession>> \o FramesOfActive, LAMBDA s : s \in life.dialogs)
  IN IF ActiveSession = NoTarget \/ asked = <<>> THEN NoTarget ELSE asked[1]

\* `popup_opener`: the tab a new page belongs to, when the run adopts it.  A
\* window without an opener counts as the active one's only when the run matched
\* a target.
PopupOpener(t, o) ==
  LET joins == /\ conf.attach /\ ~HasTab(t) /\ t \notin tab.openBefore
               /\ IF o = NoTarget THEN conf.match ELSE HasTab(o)
  IN IF life.closing THEN NoTarget
     ELSE IF o \in tab.owned THEN o
     ELSE IF joins THEN (IF o = NoTarget THEN tab.active ELSE o) ELSE NoTarget

\* `downloads_settled`.
DownloadsSettled == file.kept + file.refused

----------------------------------------------------------------------------
(* Background tasks.  Nothing is spawned once the session closes.          *)

Spawned(new) == IF life.closing THEN tasks ELSE tasks \cup new
Task(what, of) == [what |-> what, of |-> of, at |-> "start"]
Ack(f) == IF f = NoFrame THEN {} ELSE {Task("ack", f.n)}
Ends(x) == tasks' = tasks \ {x}
Moves(x, at) == tasks' = (tasks \ {x}) \cup {[x EXCEPT !.at = at]}

\* `set_active_target`, over tabs `t` may no longer be one of; `list` is State
\* after what the caller did under its own lock.
Activated(list, t) ==
  [list EXCEPT !.active = t,
     !.activated = IF t = NoTarget THEN @ ELSE Append(Without(@, t), t)]

SetActiveTarget(list, t) ==
  /\ tab' = Activated(list, t)
  /\ cast' = [cast EXCEPT !.pending = NoFrame]
  /\ tasks' = Spawned(Ack(cast.pending) \cup (IF conf.frames THEN {Task("cast", t)} ELSE {}))

\* `insert_tab`: a known tab keeps its place.
Inserted(list, t) == IF t \in ToSet(list) THEN list ELSE Append(list, t)

\* The drop of AdoptionSettled, for those adopted in `ended`: a popup joined if it
\* is a tab by then.
AdoptionSettled(popups, ended, list) ==
  [i \in DOMAIN popups |->
     IF popups[i].id \in ended /\ popups[i].adopted = "unknown"
     THEN [popups[i] EXCEPT !.adopted = IF popups[i].id \in ToSet(list) THEN "joined" ELSE "lost"] ELSE popups[i]]

\* `prepare_session`: Fetch first, then the page runs, then the rest; a target
\* that is gone answers with an error.
PrepareGate(t) == chrome' = [chrome EXCEPT !.gate = @ \cup {t}]

AdoptGate(x) ==
  /\ x.what = "adopt" /\ x.at = "start" /\ chrome.window[x.of] # "gone"
  /\ PrepareGate(x.of) /\ Moves(x, "gated")
  /\ UNCHANGED <<conf, tab, cast, file, life, run>>

\* Mutant: the page is resumed before its gate is on.
AdoptResumeEarly(x) ==
  /\ x.what = "adopt" /\ x.at \in {"start", "gated"} /\ chrome.window[x.of] # "gone"
  /\ chrome' = [chrome EXCEPT !.window[x.of] = "open"] /\ Moves(x, "running")
  /\ UNCHANGED <<conf, tab, cast, file, life, run>>
AdoptResume(x) ==
  /\ x.what = "adopt" /\ x.at = "gated" /\ chrome.window[x.of] # "gone"
  /\ chrome' = [chrome EXCEPT !.window[x.of] = "open"] /\ Moves(x, "running")
  /\ UNCHANGED <<conf, tab, cast, file, life, run>>

\* The rest of `adopt_popup`: the tab joins and the popup is settled, whether or
\* not the read of its address that follows succeeds.
AdoptJoin(x) ==
  /\ x.what = "adopt" /\ x.at = "running"
  /\ LET list == Inserted(tab.list, x.of)
     IN tab' = [tab EXCEPT !.list = list, !.popups = AdoptionSettled(@, {x.of}, list)]
  /\ Ends(x) /\ UNCHANGED <<conf, chrome, cast, file, life, run>>

\* Mutant: a failed adoption tells nobody.
AdoptFailsSilently(x) ==
  /\ x.what = "adopt" /\ (chrome.window[x.of] = "gone" \/ conf.faults)
  /\ Ends(x) /\ UNCHANGED <<conf, chrome, tab, cast, file, life, run>>
\* A command fails or times out: the popup never joined.
AdoptFails(x) ==
  /\ x.what = "adopt" /\ (chrome.window[x.of] = "gone" \/ conf.faults)
  /\ tab' = [tab EXCEPT !.popups = AdoptionSettled(@, {x.of}, tab.list)]
  /\ Ends(x) /\ UNCHANGED <<conf, chrome, cast, file, life, run>>

\* Not the run's page: let it start, and let go.
LetStart(x) ==
  /\ x.what = "let" /\ Ends(x)
  /\ chrome' = [chrome EXCEPT !.window[x.of] = IF @ = "waiting" THEN "open" ELSE @]
  /\ UNCHANGED <<conf, tab, cast, file, life, run>>

----------------------------------------------------------------------------
(* The live cast.                                                          *)

AckFrame(x) ==
  /\ x.what = "ack" /\ Ends(x)
  /\ chrome' = [chrome EXCEPT !.flying = {f \in @ : f.n # x.of}]
  /\ UNCHANGED <<conf, tab, cast, file, life, run>>

\* `update_screencast`: one task at a time past its lock.
CastLook(x) ==
  /\ x.what = "cast" /\ x.at = "start"
  /\ \A y \in tasks : y.what = "cast" => y.at = "start"
  /\ IF life.closing \/ ActiveSession = cast.session THEN Ends(x)
     ELSE Moves(x, IF cast.session # NoTarget THEN "stopping" ELSE "starting")
  /\ UNCHANGED <<conf, chrome, tab, cast, file, life, run>>
CastStop(x) ==
  /\ x.what = "cast" /\ x.at = "stopping" /\ Moves(x, "starting")
  /\ chrome' = [chrome EXCEPT !.casting = @ \ {cast.session}]
  /\ cast' = [cast EXCEPT !.session = NoTarget]
  /\ UNCHANGED <<conf, tab, file, life, run>>

\* The active tab is read again, noted as cast, and then its cast is started.
CastStart(x) ==
  /\ x.what = "cast" /\ x.at = "starting" /\ Moves(x, "started")
  /\ cast' = [cast EXCEPT !.session = IF life.closing THEN NoTarget ELSE ActiveSession]
  /\ UNCHANGED <<conf, chrome, tab, file, life, run>>
CastStarted(x) ==
  /\ x.what = "cast" /\ x.at = "started" /\ Ends(x)
  /\ chrome' = [chrome EXCEPT !.casting = @ \cup {t \in {cast.session} : t # NoTarget /\ chrome.window[t] = "open"}]
  /\ UNCHANGED <<conf, tab, cast, file, life, run>>

Shown(f) == conf.frames /\ ~life.closing /\ ActiveSession # NoTarget /\ f.of = ActiveSession
Pend(f) == [cast EXCEPT !.pending = f, !.scheduled = TRUE, !.task = IF cast.scheduled THEN @ ELSE "looking"]
\* `on_screencast_frame`: latest wins, and the one it replaces is acked unseen.
OnScreencastFrame(f) ==
  IF Shown(f) THEN cast' = Pend(f) /\ tasks' = Spawned(Ack(cast.pending))
  ELSE tasks' = Spawned(Ack(f)) /\ UNCHANGED cast

\* Chrome casts a frame, two at most in flight.
FrameCast(t) ==
  /\ life.connected /\ t \in chrome.casting /\ chrome.window[t] = "open"
  /\ chrome.sent < MaxFrames /\ Cardinality({f \in chrome.flying : f.of = t}) < 2
  /\ LET f == [n |-> chrome.sent + 1, of |-> t]
     IN /\ chrome' = [chrome EXCEPT !.sent = @ + 1, !.flying = @ \cup {f}]
        /\ OnScreencastFrame(f)
  /\ UNCHANGED <<conf, tab, file, life, run>>

\* `deliver_frames`: take the pending frame, hand it to the caller, ack it, look
\* again; a frame that came after the last look is acked on the way out.
DeliverTake ==
  /\ cast.task = "looking"
  /\ cast' = IF life.closing \/ cast.pending = NoFrame THEN [cast EXCEPT !.task = "ending"]
             ELSE [cast EXCEPT !.task = "handing", !.held = cast.pending, !.pending = NoFrame]
  /\ UNCHANGED <<conf, chrome, tab, file, life, tasks, run>>
DeliverHanded ==
  /\ cast.task = "handing" /\ tasks' = Spawned(Ack(cast.held))
  /\ \E next \in {"looking"} \cup (IF conf.faults THEN {"ending"} ELSE {}) :
       cast' = [cast EXCEPT !.task = next, !.held = NoFrame]
  /\ UNCHANGED <<conf, chrome, tab, file, life, run>>

DeliverEnd ==
  /\ cast.task = "ending"
  /\ cast' = [cast EXCEPT !.task = "none", !.scheduled = FALSE, !.pending = NoFrame]
  /\ tasks' = Spawned(Ack(cast.pending))
  /\ UNCHANGED <<conf, chrome, tab, file, life, run>>

----------------------------------------------------------------------------
(* Responses.                                                              *)

Respond(r, how) == [chrome EXCEPT !.response[r].st = how]
\* The scope gate's task: a document outside the grant is failed, not shown.
GateRequest(x) ==
  /\ x.what = "gate" /\ Ends(x)
  /\ chrome' = Respond(x.of, IF chrome.response[x.of].inside THEN "sent" ELSE "failed")
  /\ UNCHANGED <<conf, tab, cast, file, life, run>>

Keep(r) == [file EXCEPT !.settled = Append(@, r), !.kept = @ + 1]
\* `refuse_download`.
Refuse(r) == [file EXCEPT !.settled = Append(@, r), !.refused = @ + 1]

\* `handle_paused` up to the release: `capture_download` keeps the body, or
\* refuses it (too large, not handed over, not stored).
CaptureDownload(x) ==
  /\ x.what = "paused" /\ x.at = "start" /\ Moves(x, "captured")
  /\ IF ~chrome.response[x.of].file THEN UNCHANGED file
     ELSE file' \in {Keep(x.of)} \cup (IF conf.faults THEN {Refuse(x.of)} ELSE {})
  /\ UNCHANGED <<conf, chrome, tab, cast, life, run>>

\* Never leave a request paused, even if the capture failed.
HandlePaused(x) ==
  /\ x.what = "paused" /\ x.at = "captured" /\ Ends(x)
  /\ chrome' = Respond(x.of, "released")
  /\ file' = [file EXCEPT !.paused = @ \ {x.of}]
  /\ UNCHANGED <<conf, tab, cast, life, run>>

TaskSteps == \E x \in tasks :
  \/ AdoptGate(x) \/ AdoptResume(x) \/ AdoptJoin(x) \/ AdoptFails(x) \/ LetStart(x)
  \/ AckFrame(x) \/ CastLook(x) \/ CastStop(x) \/ CastStart(x) \/ CastStarted(x)
  \/ GateRequest(x) \/ CaptureDownload(x) \/ HandlePaused(x)
DeliverySteps == DeliverTake \/ DeliverHanded \/ DeliverEnd

----------------------------------------------------------------------------
(* The reader: events of the browser, one at a time.                       *)

ReaderFree == life.connected /\ life.handover = <<>>

\* Mutant: a popup is the run's to close only once it has joined.
BeginPopupUnowned(t, o) ==
  IF KnownPopup(t) THEN UNCHANGED <<tab, tasks>>
  ELSE /\ tab' = [tab EXCEPT !.popups = Append(@, [id |-> t, opener |-> o, adopted |-> "unknown"])]
       /\ tasks' = Spawned({Task("adopt", t)})
\* `begin_popup`.
BeginPopup(t, o) ==
  IF KnownPopup(t) THEN UNCHANGED <<tab, tasks>>
  ELSE /\ tab' = [tab EXCEPT !.owned = IF o \in tab.owned THEN @ \cup {t} ELSE @,
                    !.popups = Append(@, [id |-> t, opener |-> o, adopted |-> "unknown"])]
       /\ tasks' = Spawned({Task("adopt", t)})

\* `on_attached` for a page that waits on the debugger, and `on_new_page`.
OnNewPage(t, o) ==
  IF o # NoTarget THEN BeginPopup(t, o)
  ELSE tasks' = Spawned({Task("let", t)}) /\ UNCHANGED tab

\* A window opens: from a page, or from the user or the app.
WindowOpens(t, from) ==
  /\ ReaderFree /\ life.listening /\ t \in conf.windows /\ chrome.window[t] = "none"
  /\ from # NoTarget => chrome.window[from] = "open"
  /\ chrome' = [chrome EXCEPT !.window[t] = "waiting", !.opener[t] = from,
                  !.mine = IF from \in @ THEN @ \cup {t} ELSE @,
                  !.late = IF life.closing THEN @ \cup {t} ELSE @]
  /\ OnNewPage(t, PopupOpener(t, from))
  /\ UNCHANGED <<conf, cast, file, life, run>>

\* `Target.targetDestroyed`: the tab is gone under one lock, and a successor is
\* made active under the next.  No session id is used twice, so the dialog State
\* still has under a gone session is out of reach.
WindowCloses(t) ==
  /\ ReaderFree /\ t \in conf.dies /\ chrome.window[t] \in {"waiting", "open"}
  /\ chrome' = [chrome EXCEPT !.window[t] = "gone", !.casting = @ \ {t}, !.alerts = @ \ {t}]
  /\ LET left == Without(tab.list, t)
         recent == Without(tab.activated, t)
     IN /\ tab' = [tab EXCEPT !.list = left, !.owned = @ \ {t}, !.activated = recent]
        /\ life' = [life EXCEPT !.dialogs = @ \ {t},
             !.handover = IF t = tab.active THEN <<Successor(t, left, recent)>> ELSE <<>>]
  /\ UNCHANGED <<conf, cast, file, tasks, run>>

HandsOver ==
  /\ life.handover # <<>> /\ SetActiveTarget(tab, life.handover[1])
  /\ life' = [life EXCEPT !.handover = <<>>]
  /\ UNCHANGED <<conf, chrome, file, run>>

\* `Target.attachedToTarget` and `detachedFromTarget` of a frame.
FrameComesAndGoes(f) ==
  /\ ReaderFree /\ f \in conf.subframes
  /\ \/ /\ \A x \in ToSet(life.frames) : x.id # f
        /\ \E p \in ToSet(tab.list) \cup {x.id : x \in ToSet(life.frames)} :
             life' = [life EXCEPT !.frames = Append(@, [id |-> f, parent |-> p])]
        /\ UNCHANGED chrome
     \/ /\ \E x \in ToSet(life.frames) : x.id = f
        /\ life' = [life EXCEPT !.frames = SelectSeq(@, LAMBDA x : x.id # f), !.dialogs = @ \ {f}]
        /\ chrome' = [chrome EXCEPT !.alerts = @ \ {f}]
  /\ UNCHANGED <<conf, tab, cast, file, tasks, run>>

\* `Page.javascriptDialogOpening`; a navigation may close it again.
DialogOpens(s) ==
  /\ ReaderFree /\ conf.alerts /\ chrome.asked < 2 /\ s \notin chrome.alerts
  /\ (HasTab(s) /\ chrome.window[s] = "open") \/ \E x \in ToSet(life.frames) : x.id = s
  /\ chrome' = [chrome EXCEPT !.alerts = @ \cup {s}, !.asked = @ + 1]
  /\ life' = [life EXCEPT !.dialogs = @ \cup {s}]
  /\ UNCHANGED <<conf, tab, cast, file, tasks, run>>
DialogCloses(s) ==
  /\ ReaderFree /\ s \in chrome.alerts
  /\ chrome' = [chrome EXCEPT !.alerts = @ \ {s}]
  /\ life' = [life EXCEPT !.dialogs = @ \ {s}]
  /\ UNCHANGED <<conf, tab, cast, file, tasks, run>>

\* `on_request_paused`, before anything is sent: a scoped run's gate.
RequestPaused(r) ==
  /\ ReaderFree /\ r \in conf.responses /\ conf.scoped /\ chrome.response[r].st = "none"
  /\ ActiveSession # NoTarget
  /\ \E inside \in BOOLEAN :
       chrome' = [chrome EXCEPT !.response[r].st = "asked", !.response[r].inside = inside]
  /\ tasks' = Spawned({Task("gate", r)})
  /\ UNCHANGED <<conf, tab, cast, file, life, run>>

Paused(r) == [file EXCEPT !.paused = @ \cup {r}]
\* `on_request_paused`, at the response.
ResponsePaused(r) ==
  /\ ReaderFree /\ r \in conf.responses /\ ActiveSession # NoTarget
  /\ chrome.response[r].st = (IF conf.scoped THEN "sent" ELSE "none")
  /\ \E isFile \in BOOLEAN :
       chrome' = [chrome EXCEPT !.response[r].st = "answered", !.response[r].file = isFile]
  /\ file' = Paused(r) /\ tasks' = Spawned({Task("paused", r)})
  /\ UNCHANGED <<conf, tab, cast, life, run>>

ReaderSteps ==
  \/ \E t \in Targets, from \in Targets \cup {NoTarget} : WindowOpens(t, from)
  \/ \E t \in Targets : WindowCloses(t) \/ FrameCast(t)
  \/ \E f \in Subframes : FrameComesAndGoes(f)
  \/ \E s \in TabSessions : DialogOpens(s) \/ DialogCloses(s)
  \/ \E r \in Responses : RequestPaused(r) \/ ResponsePaused(r)

----------------------------------------------------------------------------
(* The run: `open`.                                                        *)

OpenConnects ==
  /\ At("unopened") /\ Go(IF conf.attach THEN "listing" ELSE "making")
  /\ life' = [life EXCEPT !.connected = TRUE, !.closing = FALSE]
  /\ UNCHANGED <<conf, chrome, tab, cast, file, tasks>>

Open(t) == chrome.window[t] = "open"
OfKind(k) == {t \in Targets : Open(t) /\ chrome.kind[t] = k}
\* `attach_existing_tab`'s choice: a page of the grant that matches; a web page
\* before an app's window; a blank window before a second one.
AttachChoice ==
  LET pages == IF conf.match THEN {t \in OfKind("web") \cup OfKind("app") : t \in conf.matches}
               ELSE IF OfKind("web") # {} THEN OfKind("web") ELSE OfKind("app")
  IN IF pages = {} /\ ~conf.match THEN OfKind("blank") ELSE pages

\* The windows listed are noted, then one is chosen, or the run's own is made.
AttachLists ==
  /\ At("listing")
  /\ tab' = [tab EXCEPT !.openBefore = {t \in Targets : Open(t)}]
  /\ \/ \E t \in AttachChoice : run' = [run EXCEPT !.at = "attaching", !.t = t]
     \/ AttachChoice = {} /\ ~conf.match /\ Go("making")
     \/ AttachChoice = {} /\ conf.match /\ Go("failed")
  /\ UNCHANGED <<conf, chrome, cast, file, life, tasks>>

\* `open_owned_tab`: the browser makes the target, the run learns its id.
MakesTab ==
  /\ At("making") /\ Go("made")
  /\ chrome' = [chrome EXCEPT !.window[Root] = "open", !.mine = @ \cup {Root}]
  /\ UNCHANGED <<conf, tab, cast, file, life, tasks>>
LearnsTab ==
  /\ At("made") /\ run' = [run EXCEPT !.at = "attaching", !.t = Root]
  /\ tab' = [tab EXCEPT !.owned = @ \cup {Root}]
  /\ UNCHANGED <<conf, chrome, cast, file, life, tasks>>

\* The session is prepared, the tab listed and made active; in an attached run
\* the window it had to open is from then on the user's.
JoinsTab ==
  /\ At("attaching") /\ Open(run.t) /\ Go("listening")
  /\ PrepareGate(run.t)
  /\ SetActiveTarget([tab EXCEPT !.list = Inserted(@, run.t),
                                 !.owned = IF conf.attach THEN @ \ {run.t} ELSE @], run.t)
  /\ UNCHANGED <<conf, file, life>>
Listens ==
  /\ At("listening") /\ Go("free") /\ life' = [life EXCEPT !.listening = TRUE]
  /\ UNCHANGED <<conf, chrome, tab, cast, file, tasks>>

\* A command of `open` fails, or the caller drops it: the guard closes.
OpenFails ==
  /\ run.at \in {"listing", "making", "made", "attaching", "listening"}
  /\ conf.faults \/ (At("attaching") /\ ~Open(run.t))
  /\ chrome' = IF At("made") THEN [chrome EXCEPT !.late = @ \cup {Root}] ELSE chrome
  /\ Go("failed") /\ UNCHANGED <<conf, tab, cast, file, life, tasks>>

----------------------------------------------------------------------------
(* The run, between open and close.                                        *)

Move(where) == /\ At("free") /\ run.moves < MaxMoves
               /\ run' = [run EXCEPT !.at = where, !.moves = @ + 1]

\* `hand_over_active_tab`.
HandOver ==
  /\ Move("free") /\ conf.commits /\ tab' = [tab EXCEPT !.handedOver = @ \cup {tab.active}]
  /\ UNCHANGED <<conf, chrome, cast, file, life, tasks>>

\* `switch_tab`: the tab is looked up under one lock and made active under another.
SwitchTab ==
  /\ At("free") /\ run.moves < MaxMoves
  /\ \E t \in ToSet(tab.list) : run' = [run EXCEPT !.at = "switching", !.moves = @ + 1, !.t = t]
  /\ UNCHANGED <<conf, chrome, tab, cast, file, life, tasks>>
Switched ==
  /\ At("switching") /\ Go("free") /\ SetActiveTarget(tab, run.t)
  /\ UNCHANGED <<conf, chrome, file, life>>

\* An action: what was open and settled before it is noted.
Acts ==
  /\ At("free") /\ run.moves < MaxMoves
  /\ run' = [run EXCEPT !.at = "acted", !.moves = @ + 1, !.t = tab.active, !.since = DownloadsSettled,
                        !.known = {p.id : p \in Popups}]
  /\ UNCHANGED <<conf, chrome, tab, cast, file, life, tasks>>

Fresh == SelectSeq(tab.popups, LAMBDA p : p.opener = run.t /\ p.id \notin run.known)
\* `follow_popup`: the latest window the tab opened, once it is adopted.
FollowFinds ==
  /\ At("acted") /\ Fresh # <<>>
  /\ run' = [run EXCEPT !.at = "adopting", !.t = Last(Fresh).id]
  /\ UNCHANGED <<conf, chrome, tab, cast, file, life, tasks>>
FollowGivesUp ==
  /\ At("acted") /\ Fresh = <<>> /\ Go("awaiting")
  /\ UNCHANGED <<conf, chrome, tab, cast, file, life, tasks>>
FollowLearns ==
  /\ At("adopting")
  /\ \E p \in Popups : p.id = run.t /\ p.adopted # "unknown"
       /\ Go(IF p.adopted = "joined" /\ HasTab(p.id) THEN "switching" ELSE "free")
  /\ UNCHANGED <<conf, chrome, tab, cast, file, life, tasks>>

\* `download_settled`: one landed, or nothing paused can still become one, or the
\* deadline passed.
DownloadSettled ==
  /\ At("awaiting") /\ Go("free")
  /\ UNCHANGED <<conf, chrome, tab, cast, file, life, tasks>>

\* `handle_dialog`: the dialog pending is answered, then taken off the list.
HandleDialog ==
  /\ At("free") /\ PendingDialog # NoTarget
  /\ run' = [run EXCEPT !.at = "handled", !.t = PendingDialog]
  /\ chrome' = [chrome EXCEPT !.alerts = @ \ {PendingDialog}]
  /\ UNCHANGED <<conf, tab, cast, file, life, tasks>>
DialogHandled ==
  /\ At("handled") /\ Go("free")
  /\ life' = [life EXCEPT !.dialogs = @ \ {run.t}]
  /\ UNCHANGED <<conf, chrome, tab, cast, file, tasks>>

----------------------------------------------------------------------------
(* The run: `close`, after the work ended or was dropped at an await.      *)

Working == {"free", "switching", "acted", "adopting", "awaiting", "handled", "failed"}
CloseBegins ==
  /\ run.at \in Working
  /\ run' = [run EXCEPT !.at = "aborting", !.release = file.paused]
  /\ life' = [life EXCEPT !.closing = TRUE]
  /\ file' = [file EXCEPT !.paused = {}]
  /\ UNCHANGED <<conf, chrome, tab, cast, tasks>>

\* A task dropped before it first ran leaves its popup unsettled.
CloseAborts ==
  /\ At("aborting") /\ Go("releasing") /\ tasks' = {}
  /\ \E early \in SUBSET {x \in tasks : x.what = "adopt" /\ x.at = "start"} :
       tab' = [tab EXCEPT !.popups = AdoptionSettled(@, {x.of : x \in {y \in tasks \ early : y.what = "adopt"}}, tab.list)]
  /\ cast' = [cast EXCEPT !.pending = NoFrame, !.scheduled = FALSE, !.task = "none", !.held = NoFrame]
  /\ UNCHANGED <<conf, chrome, file, life>>

Released(these) ==
  [r \in Responses |-> IF r \in these /\ chrome.response[r].st \in {"asked", "answered"}
                       THEN [chrome.response[r] EXCEPT !.st = "released"] ELSE chrome.response[r]]
CloseReleases ==
  /\ At("releasing") /\ Go("shutting")
  /\ chrome' = [chrome EXCEPT !.response = Released(run.release), !.casting = @ \ {cast.session}]
  /\ cast' = [cast EXCEPT !.session = NoTarget]
  /\ UNCHANGED <<conf, tab, file, life, tasks>>

\* What is closed: the owned targets, except those handed over.
ToClose == tab.owned \ tab.handedOver
CloseShuts ==
  /\ At("shutting") /\ Go("disconnecting")
  /\ chrome' = [chrome EXCEPT !.shut = ToClose,
                  !.window = [t \in Targets |-> IF t \in ToClose /\ @[t] # "none" THEN "gone" ELSE @[t]]]
  /\ UNCHANGED <<conf, tab, cast, file, life, tasks>>

\* The socket closes: Chrome lets go of what the session had paused.
Disconnects ==
  /\ At("disconnecting") /\ Go("closed")
  /\ life' = [life EXCEPT !.connected = FALSE, !.handover = <<>>]
  /\ tab' = [tab EXCEPT !.owned = {}, !.list = <<>>]
  /\ chrome' = [chrome EXCEPT !.response = Released(Responses), !.gate = {}, !.casting = {}, !.flying = {},
                  !.window = [t \in Targets |-> IF @[t] = "waiting" THEN "open" ELSE @[t]]]
  /\ UNCHANGED <<conf, cast, file, tasks>>

CloseSteps == CloseAborts \/ CloseReleases \/ CloseShuts \/ Disconnects
RunGoesOn ==
  \/ OpenConnects \/ AttachLists \/ MakesTab \/ LearnsTab \/ JoinsTab \/ Listens
  \/ Switched \/ FollowFinds \/ FollowGivesUp \/ FollowLearns \/ DownloadSettled \/ DialogHandled \/ CloseSteps
RunMoves == HandOver \/ SwitchTab \/ Acts \/ HandleDialog \/ OpenFails \/ CloseBegins

----------------------------------------------------------------------------
SessionInit ==
  /\ conf \in Confs
  /\ chrome = [window |-> [t \in Targets |-> IF conf.kinds[t] = "none" THEN "none" ELSE "open"],
               opener |-> [t \in Targets |-> NoTarget], kind |-> conf.kinds, gate |-> {}, alerts |-> {}, asked |-> 0,
               casting |-> {}, flying |-> {}, sent |-> 0, mine |-> {}, late |-> {}, shut |-> {},
               response |-> [r \in Responses |-> [st |-> "none", inside |-> TRUE, file |-> FALSE]]]
  /\ tab = [list |-> <<>>, activated |-> <<>>, owned |-> {}, openBefore |-> {}, handedOver |-> {}, popups |-> <<>>,
            active |-> NoTarget]
  /\ cast = [session |-> NoTarget, pending |-> NoFrame, scheduled |-> FALSE, task |-> "none", held |-> NoFrame]
  /\ file = [paused |-> {}, settled |-> <<>>, kept |-> 0, refused |-> 0]
  /\ life = [closing |-> FALSE, connected |-> FALSE, listening |-> FALSE, dialogs |-> {}, frames |-> <<>>,
             handover |-> <<>>]
  /\ tasks = {}
  /\ run = [at |-> "unopened", t |-> NoTarget, known |-> {}, since |-> 0, release |-> {}, moves |-> 0]

SessionNext == TaskSteps \/ DeliverySteps \/ ReaderSteps \/ HandsOver \/ RunGoesOn \/ RunMoves

SessionSpec == SessionInit /\ [][SessionNext]_svars

\* Commands are answered or time out, the reader reads on, and the caller's frame
\* callback returns; a run may rest between two calls, or never close.
SessionFairness ==
  /\ WF_svars(TaskSteps) /\ WF_svars(DeliverySteps) /\ WF_svars(HandsOver) /\ WF_svars(RunGoesOn)

----------------------------------------------------------------------------
(* Properties.                                                             *)

\* `close` shuts only windows of the run's own lineage (its tab, and the windows
\* they opened), none that was handed over, and in an attached run none at all:
\* "the caller's browser and any of its other tabs are never touched".
UserWindowsStay ==
  /\ chrome.shut \subseteq chrome.mine \ tab.handedOver
  /\ (conf.attach /\ life.listening) => chrome.shut = {}

\* When `close` returns, no window the run opened is left in the user's browser,
\* whatever became of its adoption: only those handed over, and those that opened
\* behind its back (while closing, or before its id was known), remain.
NothingLeftOpen ==
  (At("closed") /\ ~conf.attach) =>
    \A t \in chrome.mine : chrome.window[t] = "gone" \/ t \in tab.handedOver \cup chrome.late

\* A popup of the run never runs before the run's Fetch gate is on its session, so
\* its first document meets the scope gate and its download is captured.
GateBeforeDocument ==
  life.connected => \A p \in Popups : chrome.window[p.id] = "open" => p.id \in chrome.gate

\* When nothing is left to change it, the live cast is of the tab the run is on,
\* however its switches fell between the cast's own commands.
CastFollowsRun ==
  (/\ conf.frames /\ run.at \in Working \ {"failed"} /\ life.handover = <<>>
   /\ \A x \in tasks : x.what # "cast") => cast.session = ActiveSession

\* A response the run was shown as a file is either still paused or settled, and
\* settled downloads are indexed as they are counted: `download_settled` never
\* says that none is coming when one is.
CapturesCounted ==
  ~life.closing =>
    /\ \A r \in Responses : (chrome.response[r].file /\ chrome.response[r].st \in {"answered", "released"})
         => r \in file.paused \/ r \in ToSet(file.settled)
    /\ Len(file.settled) = DownloadsSettled

\* What the session is at any moment is what the run and the user are owed: it
\* shuts its own windows and only those, casts the tab the run is on, and counts
\* every file it captured (session.rs `close`, `own_popup`, `follow_cast`,
\* `capture_download`).
SessionKept == SessionTypeOK /\ UserWindowsStay /\ NothingLeftOpen /\ CastFollowsRun /\ CapturesCounted

\* "an unacked frame stalls the cast": every frame Chrome sent is acked, unless
\* its tab or the session goes.
FramesAcked ==
  \A n \in 1..MaxFrames :
    (\E f \in chrome.flying : f.n = n)
      ~> (life.closing \/ \A f \in chrome.flying : f.n = n => chrome.window[f.of] = "gone")

\* "Never leave a request paused": every response Fetch paused goes on or is
\* failed, at the latest when the session closes.
PausedReleased ==
  \A r \in Responses : (chrome.response[r].st \in {"asked", "answered"})
    ~> (chrome.response[r].st \notin {"asked", "answered"})

\* A run that follows a window always learns what became of it.
FollowReturns == At("adopting") ~> ~At("adopting")
=============================================================================
