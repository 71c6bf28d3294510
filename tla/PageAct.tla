------------------------------ MODULE PageAct ------------------------------
(***************************************************************************)
(* One action on the page (crates/fastbrowse-browser/src/page/act.rs and   *)
(* the settle of page/mod.rs): from the checks of `act`, through the route *)
(* each operation takes to its input, to the settled result.               *)
(*                                                                         *)
(* The page is the other actor.  It reacts to what the driver does to it   *)
(* (a scroll, a focus, a pointer entry, a press) before the next answer,   *)
(* and it changes by itself at any time.  Each renderer evaluation is one  *)
(* step, since no page script runs inside it; `drv.late` holds what the    *)
(* page changed by itself since the driver last looked at it.              *)
(***************************************************************************)
EXTENDS Naturals, FiniteSets

CONSTANTS
  Scenes,      \* the operations, their controls, and what each page may do
  MaxEvents    \* bound: things the page does during one action

Ops == {"click", "hover", "fill", "select", "enter", "escape", "drag", "upload", "blur", "dialog", "scroll", "wait",
        "switch", "back", "navigate"}
Kinds == {"repurpose", "vanish", "shift", "clear", "band", "obstruction", "other", "dialog", "navigate", "away", "editor",
          "behind", "request", "redraw", "window", "hang", "dropshift", "dropchange"}
Covers == {"none", "band", "obstruction", "other"}

ASSUME ScenesAssumption ==
  Scenes \subseteq
    [op : Ops, known : BOOLEAN, secret : BOOLEAN, authorized : BOOLEAN, origin : {"authorized", "elsewhere"}, cover : Covers,
     front : BOOLEAN, timers : {"fine", "never", "throw"}, suggesting : BOOLEAN, key : BOOLEAN, native : BOOLEAN,
     fits : BOOLEAN, apart : BOOLEAN, file : BOOLEAN, pending : BOOLEAN, marked : {"none", "here"}, repeated : BOOLEAN,
     reacts : SUBSET Kinds, alone : SUBSET Kinds]

VARIABLES
  scene,  \* the action, the observed control, what this page does
  page,   \* external: the document, the control on it, the browser's counters
  drv,    \* the call: where it stands and what it measured
  sent    \* what reached the page, and whether it was what had been observed

avars == <<scene, page, drv, sent>>

Points == {"p1", "p2"}
Op(ops) == scene.op \in ops
At(where) == drv.at = where
Go(where) == drv' = [drv EXCEPT !.at = where]

----------------------------------------------------------------------------
(* The page.                                                               *)

\* `guardKey` of the control against the one observed.
Guard == page.doc = 0 /\ page.same

\* HIT_TEST_JS, made only when the guard holds.
HitTest ==
  IF ~Guard \/ page.pos = "gone" THEN "gone"
  ELSE IF page.cover # "none" THEN "covered" ELSE page.pos

\* COVER_JS: a node that is gone has no cover.
Cover == IF page.doc = 0 THEN page.cover ELSE "gone"

\* The drop target's hit test.
DropTest == IF page.doc = 0 THEN page.drop ELSE "gone"

Blocked == page.dialog \/ page.hung

\* What a handler, a timer or a user does to the page.
Event(p, kind) ==
  LET q == [p EXCEPT !.events = @ + 1]
  IN CASE kind = "repurpose" -> [q EXCEPT !.same = FALSE]
       [] kind = "vanish" -> [q EXCEPT !.pos = "gone"]
       [] kind = "shift" -> [q EXCEPT !.pos = IF @ = "p1" THEN "p2" ELSE "p1"]
       [] kind = "clear" -> [q EXCEPT !.cover = "none"]
       [] kind \in {"band", "obstruction", "other"} -> [q EXCEPT !.cover = kind]
       [] kind = "dialog" -> [q EXCEPT !.dialog = TRUE]
       [] kind = "navigate" -> [q EXCEPT !.nav = TRUE, !.gen = @ + 1]
       [] kind = "away" -> [q EXCEPT !.focus = "other"]
       [] kind = "editor" -> [q EXCEPT !.focus = "editor"]
       [] kind = "behind" -> [q EXCEPT !.front = FALSE]
       [] kind = "request" -> [q EXCEPT !.open = @ + 1]
       [] kind = "redraw" -> [q EXCEPT !.print = @ + 1]
       [] kind = "window" -> [q EXCEPT !.windows = @ + 1]
       [] kind = "hang" -> [q EXCEPT !.hung = TRUE]
       [] kind = "dropshift" -> [q EXCEPT !.drop = IF @ = "p1" THEN "p2" ELSE "p1"]
       [] kind = "dropchange" -> [q EXCEPT !.drop = "gone"]
       [] OTHER -> q

\* The handlers of what the driver just did have run.
Reactions(p) ==
  {p} \cup (IF p.events < MaxEvents THEN {Event(p, k) : k \in scene.reacts} ELSE {})

\* The same, inside the window that counts a navigation as the run's own.
InputReactions(p) ==
  {[q EXCEPT !.inputNav = IF q.nav /\ ~p.nav THEN @ + 1 ELSE @] : q \in Reactions(p)}

Aspect(kind) == IF kind \in {"away", "editor", "behind"} THEN "focus" ELSE "control"

\* The page changes by itself.
PageAlone ==
  /\ ~At("done") /\ page.events < MaxEvents
  /\ \E k \in scene.alone :
       /\ page' = Event(page, k)
       /\ drv' = [drv EXCEPT !.late = @ \cup {Aspect(k)}]
  /\ UNCHANGED <<scene, sent>>

\* A navigation commits: the document is replaced, with its control and focus.
Commits ==
  /\ page.nav /\ ~scene.file
  /\ page' = [page EXCEPT !.doc = 1, !.nav = FALSE, !.ready = FALSE, !.print = @ + 1, !.gen = @ + 1,
       !.dialog = FALSE, !.focus = "none", !.open = 0, !.queued = FALSE, !.hung = FALSE]
  /\ drv' = [drv EXCEPT !.late = @ \cup {"focus", "control"}]
  /\ UNCHANGED <<scene, sent>>

\* The navigation was a download: the tab keeps its page, the capture settles later.
Aborts ==
  /\ page.nav /\ scene.file
  /\ page' = [page EXCEPT !.nav = FALSE, !.gen = @ + 1, !.downloads = @ + 1]
  /\ UNCHANGED <<scene, drv, sent>>

Loads ==
  /\ ~page.ready
  /\ page' = [page EXCEPT !.ready = TRUE, !.gen = @ + 1]
  /\ UNCHANGED <<scene, drv, sent>>

\* The last bytes of a request arrive: its handler is queued, and the browser's
\* event wakes a settle.
RequestEnds ==
  /\ page.open > 0 /\ ~scene.pending
  /\ page' = [page EXCEPT !.open = @ - 1, !.gen = @ + 1, !.queued = TRUE]
  /\ UNCHANGED <<scene, drv, sent>>

\* The handler redraws what it was called for.
RunQueued(p) == IF p.queued THEN [p EXCEPT !.queued = FALSE, !.print = @ + 1] ELSE p
QueuedRuns ==
  /\ page.queued /\ page' = RunQueued(page)
  /\ UNCHANGED <<scene, drv, sent>>

----------------------------------------------------------------------------
(* `act`: the checks before anything is dispatched.                        *)

Ends(outcome) == [drv EXCEPT !.at = "done", !.outcome = outcome, !.changed = page.dialog]
Returns(outcome) == drv' = Ends(outcome) /\ UNCHANGED <<scene, page, sent>>
Looked(d) == [d EXCEPT !.late = @ \ {"control"}]
Focused(d) == [d EXCEPT !.late = @ \ {"focus"}]

\* An observation that is not the last, or a control it did not name.
Begin ==
  /\ At("idle")
  /\ \/ ~scene.known /\ Returns("stale")
     \/ /\ scene.known
        /\ drv' = [drv EXCEPT !.at = IF page.dialog THEN "mark" ELSE "measure", !.drawn = Op({"click", "fill", "hover"})]
        /\ UNCHANGED <<scene, page, sent>>

Targeted == Op({"click", "hover", "fill", "select", "enter", "drag", "upload"})

\* `before_action`: an action without a control has no point.
BeforeAction == IF Targeted THEN HitTest ELSE "gone"

\* The measuring evaluation: fingerprint, guard and hit test in one task, with the
\* scroll that brings the control into view.  With `drawn` it also waits for a
\* frame on the page's timers, which can never fire or throw.
Measure ==
  /\ At("measure") /\ ~Blocked
  /\ \/ drv.drawn /\ scene.timers = "never" /\ drv' = [Ends("error") EXCEPT !.missed = TRUE]
        /\ UNCHANGED <<scene, page, sent>>
     \/ drv.drawn /\ scene.timers = "throw" /\ drv' = [drv EXCEPT !.drawn = FALSE] /\ UNCHANGED <<scene, page, sent>>
     \/ /\ ~(drv.drawn /\ scene.timers # "fine")
        /\ LET point == BeforeAction
               covered == point = "covered" /\ Op({"click", "fill"}) /\ ~drv.left
           IN IF (Targeted \/ Op({"blur"})) /\ ~Guard THEN Returns("stale")
              ELSE /\ drv' = [Looked(drv) EXCEPT !.at = IF covered THEN "leave" ELSE "mark", !.point = point,
                        !.before = page.print]
                   /\ page' \in Reactions(page)
                   /\ UNCHANGED <<scene, sent>>

\* A suggesting field elsewhere may hold the focus its list covers this control with.
LeaveSuggestingField ==
  /\ At("leave") /\ ~Blocked
  /\ IF scene.suggesting /\ page.doc = 0
     THEN \E p \in Reactions([page EXCEPT !.focus = "none", !.cover = IF @ = "other" THEN "none" ELSE @]) :
            page' = p /\ drv' = [drv EXCEPT !.at = "measure", !.left = TRUE, !.drawn = FALSE]
     ELSE drv' = [drv EXCEPT !.at = "mark"] /\ UNCHANGED page
  /\ UNCHANGED <<scene, sent>>

NoMark == 99
\* The marks a result is judged against.  A dialog is answered under the mark of the
\* action that opened it, when it is from that action's address.
InputMark ==
  IF Op({"dialog"}) THEN (IF scene.marked = "here" /\ page.dialog THEN 0 ELSE NoMark)
  ELSE IF page.dialog THEN NoMark ELSE page.inputNav
Mark ==
  /\ At("mark")
  /\ drv' = [drv EXCEPT !.at = "dispatch", !.begun = InputMark, !.windows = page.windows, !.downloads = page.downloads]
  /\ UNCHANGED <<scene, page, sent>>

GoesTo(where) == Go(where) /\ UNCHANGED <<scene, page, sent>>

\* `click`: a covered control may be routed around, and pressed from the keyboard.
Click ==
  /\ Op({"click"})
  /\ \/ drv.point = "gone" /\ Returns("stale")
     \/ drv.point = "covered" /\ GoesTo("cover")
     \/ drv.point \in Points /\ GoesTo("move")
\* `hover`: a covered control is not hovered.
Hover ==
  /\ Op({"hover"})
  /\ \/ drv.point = "gone" /\ Returns("stale")
     \/ drv.point = "covered" /\ Returns("covered")
     \/ drv.point \in Points /\ GoesTo("move")
\* `key`: Enter needs the focus, not the pointer; Escape goes to the page.
Key ==
  \/ Op({"escape"}) /\ GoesTo("send")
  \/ /\ Op({"enter"})
     /\ \/ drv.point = "gone" /\ Returns("stale")
        \/ drv.point = "covered" /\ GoesTo("cover")
        \/ drv.point \in Points /\ GoesTo("focus")

\* `dispatch`: where each of the other operations starts.  A secret nobody authorized
\* is not typed anywhere.
Dispatch ==
  /\ At("dispatch")
  /\ \/ Click \/ Hover \/ Key
     \/ Op({"fill", "select", "drag", "upload"}) /\ drv.point = "gone" /\ Returns("stale")
     \/ Op({"fill"}) /\ drv.point # "gone" /\ scene.secret /\ ~scene.authorized /\ Returns("failed")
     \/ Op({"drag", "upload"}) /\ drv.point = "covered" /\ Returns("covered")
     \/ /\ Op({"fill", "select"}) /\ drv.point = "covered" /\ ~(scene.secret /\ ~scene.authorized)
        /\ GoesTo("cover")
     \/ /\ Op({"fill", "select", "drag", "upload"}) /\ drv.point \in Points /\ ~(scene.secret /\ ~scene.authorized)
        /\ GoesTo(CASE Op({"fill"}) -> "move" [] Op({"select"}) -> "select" [] Op({"drag"}) -> "drop" [] OTHER -> "upload")
     \/ Op({"blur"}) /\ GoesTo("blur")
     \/ Op({"dialog", "wait", "scroll", "back", "switch", "navigate"}) /\ GoesTo("plain")

\* An evaluation that a dialog or a hung renderer never answers.  A fill and a blur
\* watch for the dialog, as the check after a pointer move does.
Evaluating == {"measure", "leave", "cover", "uncover", "recover", "guard", "key", "focus", "reach", "check", "handed",
               "native", "insert", "landed", "select", "upload", "drop", "redrop", "dragging", "rest", "blur"}
DialogWatched == At("check") \/ (Op({"fill"}) /\ drv.at \notin {"measure", "leave"})
Unanswered ==
  /\ drv.at \in Evaluating /\ Blocked
  /\ IF page.dialog /\ At("blur")
     THEN drv' = Ends("executed") /\ sent' = [sent EXCEPT !.effects = 1]
     ELSE /\ drv' = [Ends(IF page.dialog /\ DialogWatched THEN "failed" ELSE "error") EXCEPT
                      !.missed = At("measure") /\ drv.drawn]
          /\ UNCHANGED sent
  /\ UNCHANGED <<scene, page>>

----------------------------------------------------------------------------
(* The ways around a cover.                                                *)

\* `route_around`: only a band fixed to the window is routed around.
RouteAround ==
  /\ At("cover") /\ ~Blocked
  /\ IF Cover # "band" THEN Returns("covered")
     ELSE drv' = [drv EXCEPT !.at = IF Op({"click", "fill"}) THEN "uncover" ELSE "guard"] /\ UNCHANGED <<scene, page, sent>>

\* UNCOVER_JS scrolls the control clear and waits for the handlers that runs; a point
\* it found is pressed, the keyboard is left for the rest.
Uncover ==
  /\ At("uncover") /\ ~Blocked
  /\ IF ~Guard THEN Returns("stale")
     ELSE \E clear \in BOOLEAN, settled \in BOOLEAN :
       LET was == [page EXCEPT !.front = TRUE, !.cover = IF clear THEN "none" ELSE @]
           point == IF was.pos = "gone" THEN "gone" ELSE IF clear THEN was.pos ELSE "covered"
       IN \E p \in Reactions(was) :
            /\ page' = p
            /\ drv' = IF point = "gone" \/ ~settled THEN [drv EXCEPT !.at = "done", !.outcome = "stale", !.changed = p.dialog]
                      ELSE [drv EXCEPT !.at = IF clear THEN "move" ELSE "recover", !.point = IF clear THEN point ELSE @,
                              !.drawn = FALSE]
            /\ UNCHANGED <<scene, sent>>

\* The last alignment can have put the control under something else.
CoverAgain ==
  /\ At("recover") /\ ~Blocked
  /\ IF Cover # "band" THEN Returns("covered") ELSE Go("guard") /\ UNCHANGED <<scene, page, sent>>

\* `guard_holds`: the way onto the keyboard.
GuardHolds ==
  /\ At("guard") /\ ~Blocked
  /\ IF ~Guard THEN Returns("stale")
     ELSE /\ drv' = [Looked(drv) EXCEPT !.keyboard = TRUE,
               !.at = CASE Op({"click"}) -> "key" [] Op({"fill"}) -> "native" [] Op({"select"}) -> "select" [] OTHER -> "focus"]
          /\ UNCHANGED <<scene, page, sent>>

\* `press`: a control whose semantics name no key is not pressed.
ActivationKey ==
  /\ At("key") /\ ~Blocked
  /\ IF ~scene.key \/ page.doc # 0 THEN Returns("covered") ELSE Go("focus") /\ UNCHANGED <<scene, page, sent>>

\* `focus_script`: the element is focused, in a window brought forward if it must be,
\* and what its handlers leave is what the answer is read from.
FocusScript(fronts) == Reactions([page EXCEPT !.front = @ \/ fronts, !.focus = drv.field])

\* `focus`: a document the window does not have in front answers null, and is brought
\* forward once.  Focus handlers run, and success is judged after them.
Focus ==
  /\ At("focus") /\ ~Blocked
  /\ LET fronts == ~page.front /\ (Op({"click", "enter"}) \/ drv.keyboard \/ drv.attempt > 0 \/ drv.activate)
         gone == page.doc # 0 \/ (~page.front /\ ~fronts)
     IN \E p \in (IF gone THEN {page} ELSE FocusScript(fronts)) :
          /\ page' = p
          /\ IF ~gone /\ p.focus = drv.field
             THEN drv' = Focused([drv EXCEPT !.at = "reach"])
             ELSE drv' = [drv EXCEPT !.at = "done", !.outcome = IF Op({"click"}) THEN "covered" ELSE "failed",
                                     !.changed = p.dialog]
  /\ UNCHANGED <<scene, sent>>

\* `keys_reach`: asked after focusing and right before each key or insertion.
KeysReach ==
  /\ At("reach") /\ ~Blocked
  /\ IF drv.keyboard /\ ~Guard THEN Returns("stale")
     ELSE IF Cover \in {"obstruction", "other"} THEN Returns("covered")
     ELSE drv' = [Looked(drv) EXCEPT !.at = IF Op({"fill"}) THEN "insert" ELSE "send"] /\ UNCHANGED <<scene, page, sent>>

\* An input event: sent whether or not Chrome answers it.  A page that leaves it
\* unanswered and does not answer a read either is hung.
Astray(kind, reaches, aspects) ==
  IF reaches \/ drv.late \cap aspects # {} THEN sent.astray ELSE sent.astray \cup {kind}
Input(next) ==
  IF page.hung THEN drv' = [Ends("error") EXCEPT !.missed = TRUE] ELSE drv' = [drv EXCEPT !.at = next]

\* `press_key`: down and up, to what has the focus.
PressKey ==
  /\ At("send")
  /\ Input("after")
  /\ sent' = [sent EXCEPT !.effects = @ + 1,
       !.astray = IF Op({"escape"}) THEN @
                  ELSE Astray("key", page.focus = "target" /\ Cover \in {"none", "band"} /\ (drv.keyboard => Guard),
                              {"focus", "control"})]
  /\ page' \in InputReactions(page)
  /\ UNCHANGED scene

----------------------------------------------------------------------------
(* The pointer.                                                            *)

\* `move_to`: pointer entry can move, cover or repurpose the control.
MoveTo ==
  /\ At("move")
  /\ Input(IF Op({"hover"}) THEN "after" ELSE "check")
  /\ sent' = IF Op({"hover"}) THEN [sent EXCEPT !.effects = 1] ELSE sent
  /\ page' \in Reactions(page)
  /\ UNCHANGED scene

\* Mutant: only the point is compared after the move, not the guard.
StablePointUnguarded ==
  /\ At("check") /\ ~Blocked
  /\ LET fresh == IF page.pos = "gone" THEN "gone" ELSE IF page.cover # "none" THEN "covered" ELSE page.pos
     IN IF fresh = "gone" THEN Returns("stale") ELSE IF fresh = "covered" THEN Returns("covered")
        ELSE /\ drv' = [Looked(drv) EXCEPT !.at = IF fresh = drv.point THEN (IF Op({"drag"}) THEN "redrop" ELSE "press") ELSE "move",
                                           !.point = fresh]
             /\ UNCHANGED <<scene, page, sent>>
\* `stable_point`: pressed only once the guarded control stays under the pointer;
\* one that keeps moving past the deadline is not.
StablePoint ==
  /\ At("check") /\ ~Blocked
  /\ LET fresh == HitTest
     IN IF fresh = "gone" THEN Returns("stale")
        ELSE IF fresh = "covered" THEN Returns("covered")
        ELSE \/ /\ drv' = [Looked(drv) EXCEPT !.point = fresh, !.drawn = FALSE,
                     !.at = IF fresh # drv.point THEN "move" ELSE IF Op({"drag"}) THEN "redrop" ELSE "press"]
                /\ UNCHANGED <<scene, page, sent>>
             \/ fresh # drv.point /\ Returns("stale")

\* `click_point`: press and release are sent together.
ClickPoint ==
  /\ At("press")
  /\ Input(IF Op({"fill"}) THEN "handed" ELSE "after")
  /\ sent' = [sent EXCEPT !.effects = IF Op({"click"}) THEN @ + 1 ELSE @, !.touched = TRUE,
       !.astray = Astray("press", HitTest = drv.point, {"control"})]
  /\ page' \in InputReactions(IF Op({"fill"}) THEN [page EXCEPT !.focus = IF page.doc = 0 THEN "target" ELSE @] ELSE page)
  /\ UNCHANGED scene

----------------------------------------------------------------------------
(* Fill.                                                                   *)

\* HANDED_FOCUS_JS and the focus in the same evaluation: an editor drawn over the
\* field takes the text, a secret stays with its field, and a date is set directly.
HandedFocus ==
  /\ At("handed") /\ ~Blocked
  /\ LET handed == IF page.doc # 0 THEN "none"
                   ELSE IF page.focus = "editor" /\ ~scene.secret THEN "editor" ELSE "target"
     IN IF handed = "none" THEN Returns("failed")
        ELSE IF scene.native /\ ~scene.secret /\ handed = "target"
        THEN drv' = [drv EXCEPT !.at = "native"] /\ UNCHANGED <<scene, page, sent>>
        ELSE IF ~page.front
        THEN drv' = [drv EXCEPT !.at = "focus", !.field = handed, !.activate = TRUE] /\ UNCHANGED <<scene, page, sent>>
        ELSE \E p \in Reactions([page EXCEPT !.focus = handed]) :
               /\ page' = p
               /\ drv' = IF p.focus # handed THEN [drv EXCEPT !.at = "done", !.outcome = "failed", !.changed = p.dialog]
                         ELSE IF p.cover \in {"obstruction", "other"}
                         THEN [drv EXCEPT !.at = "done", !.outcome = "covered", !.changed = p.dialog]
                         ELSE Looked(Focused([drv EXCEPT !.at = "insert", !.field = handed]))
               /\ UNCHANGED <<scene, sent>>

\* `fill_native_date`, or on the keyboard route the look for its type.
FillNativeDate ==
  /\ At("native") /\ ~Blocked
  /\ IF ~scene.native \/ scene.secret THEN Go("focus") /\ UNCHANGED <<scene, page, sent>>
     ELSE IF page.doc # 0 THEN Returns("stale")
     ELSE \E kept \in BOOLEAN :
            /\ page' \in InputReactions(page)
            /\ sent' = [sent EXCEPT !.effects = @ + 1]
            /\ drv' = IF kept THEN [drv EXCEPT !.at = "after"] ELSE Ends("failed")
            /\ UNCHANGED scene

\* Where the text goes: the element that has the focus, unless the page drops it.
Typed(p, keeps) == [p EXCEPT !.text = IF keeps /\ p.focus \in {"target", "editor"} THEN p.focus ELSE "none"]
Landed(p) == p.doc = 0 /\ p.text \in {"target", "editor"} /\ (p.text = drv.field \/ p.text = p.focus)

\* A secret is checked and inserted in one renderer task: its field, its origin, its
\* focus.
InsertSecret(p) == p.doc = 0 /\ scene.origin = "authorized" /\ p.focus = drv.field
Insert ==
  /\ At("insert")
  /\ IF scene.secret
     THEN /\ ~Blocked
          /\ IF ~InsertSecret(page) THEN Returns("failed")
             ELSE /\ \E p \in Reactions(Typed(page, TRUE)) : page' = p
                  /\ sent' = [sent EXCEPT !.effects = @ + 1,
                       !.leaked = @ \/ page.doc # 0 \/ scene.origin # "authorized" \/ page.focus # "target"]
                  /\ Go("landed") /\ UNCHANGED scene
     ELSE \E keeps \in BOOLEAN : \E p \in InputReactions(Typed(page, keeps)) :
            /\ page' = p
            /\ sent' = [sent EXCEPT !.effects = IF Landed(Typed(page, keeps)) THEN @ + 1 ELSE @,
                 !.astray = Astray("text", page.doc = 0 /\ page.focus = drv.field /\ Cover \in {"none", "band"}
                                           /\ (drv.keyboard => Guard), {"focus", "control"})]
            /\ IF page.dialog THEN drv' = Ends("failed") ELSE Go("landed")
            /\ UNCHANGED scene

\* Mutant: text that did not land is typed again wherever focus is.
LandedRetries ==
  /\ At("landed") /\ ~Blocked
  /\ \/ Landed(page) /\ drv.attempt > 0 /\ Go("after") /\ UNCHANGED <<scene, page, sent>>
     \/ ~(Landed(page) /\ drv.attempt > 0) /\ drv.attempt < 2
        /\ drv' = [drv EXCEPT !.at = "focus", !.attempt = @ + 1] /\ UNCHANGED <<scene, page, sent>>
     \/ ~Landed(page) /\ drv.attempt = 2 /\ Returns("failed")
\* The text is typed once more only into an editor that took focus after the
\* hand-off looked.
LandedCheck ==
  /\ At("landed") /\ ~Blocked
  /\ IF Landed(page) THEN Go("after") /\ UNCHANGED <<scene, page, sent>>
     ELSE LET handed == IF scene.secret \/ drv.keyboard THEN drv.field
                        ELSE IF page.doc # 0 THEN "none" ELSE IF page.focus = "editor" THEN "editor" ELSE "target"
          IN IF drv.attempt = 0 /\ handed \notin {"none", drv.field}
             THEN /\ drv' = [drv EXCEPT !.at = "focus", !.field = handed, !.attempt = 1, !.activate = FALSE]
                  /\ UNCHANGED <<scene, page, sent>>
             ELSE Returns("failed")

----------------------------------------------------------------------------
(* The other operations.                                                   *)

\* `select`: set in one task; the page may keep another option or have none.
Select ==
  /\ At("select") /\ ~Blocked
  /\ IF page.doc # 0 THEN Returns("stale")
     ELSE \E kept \in {"set", "other", "no option"} :
            IF kept = "no option" THEN Returns("failed")
            ELSE /\ page' \in InputReactions(page)
                 /\ sent' = [sent EXCEPT !.effects = @ + 1]
                 /\ drv' = IF kept = "set" THEN [drv EXCEPT !.at = "after"] ELSE Ends("failed")
                 /\ UNCHANGED scene

\* BLUR_JS: only the field that was chosen, and only while it has the focus.
Blur ==
  /\ At("blur") /\ ~Blocked
  /\ IF ~Guard THEN Returns("stale")
     ELSE IF page.focus # "target" THEN Returns("failed")
     ELSE /\ page' \in InputReactions([page EXCEPT !.focus = "none"])
          /\ sent' = [sent EXCEPT !.effects = @ + 1]
          /\ Go("after") /\ UNCHANGED scene

\* `upload`: size, then the origin in the task that writes.
Upload ==
  /\ At("upload") /\ ~Blocked
  /\ IF ~scene.fits THEN Returns("failed")
     ELSE IF page.doc # 0 \/ scene.origin # "authorized" THEN Returns("stale")
     ELSE /\ page' \in Reactions(page)
          /\ sent' = [sent EXCEPT !.effects = @ + 1]
          /\ Go("after") /\ UNCHANGED scene

\* Operations with no control: their own effect is elsewhere (a tab, the history, a
\* navigation, a dialog's answer).
Elsewhere(pages) ==
  /\ page' \in pages
  /\ sent' = [sent EXCEPT !.effects = 1]
  /\ UNCHANGED scene

\* `handle_dialog`: nothing to answer, or no answer given.
AnswerDialog ==
  /\ At("plain") /\ Op({"dialog"})
  /\ \/ page.dialog /\ Elsewhere(InputReactions([page EXCEPT !.dialog = FALSE])) /\ Go("after")
     \/ ~page.dialog /\ Returns("error")
     \/ Returns("failed")

\* `scroll`: one turn of the wheel, in the middle of the window.
Scroll == /\ At("plain") /\ Op({"scroll"}) /\ Elsewhere(Reactions(page)) /\ Input("after")

\* `await_change`: until the page shows something else, or its time is over.
AwaitChange == /\ At("plain") /\ Op({"wait"}) /\ Elsewhere(Reactions(page)) /\ Go("after")

\* `switch_tab`, and `await_document`: a tab may still be loading.
SwitchTab ==
  /\ At("plain") /\ Op({"switch"})
  /\ \/ Elsewhere(Reactions(page)) /\ Go("after")
     \/ \E o \in {"failed", "error"} : Returns(o)

\* `back`: the history is read again, and may have no earlier page of this site.
Back ==
  /\ At("plain") /\ Op({"back"})
  /\ \/ Elsewhere(Reactions(page)) /\ Go("after")
     \/ \E o \in {"failed", "error"} : Returns(o)

\* `navigate`, through to the document it opened.
Navigate ==
  /\ At("plain") /\ Op({"navigate"})
  /\ \/ Elsewhere({[page EXCEPT !.doc = 1, !.print = @ + 1]}) /\ Go("after")
     \/ \E o \in {"failed", "error"} : Returns(o)

\* `drag`: the drop target is checked, the source made stable, the drop target again.
Drop ==
  /\ At("drop") /\ ~Blocked
  /\ \/ ~scene.apart /\ Returns("failed")
     \/ scene.apart /\ DropTest = "gone" /\ Returns("stale")
     \/ scene.apart /\ DropTest # "gone" /\ page' \in Reactions(page) /\ Go("move") /\ UNCHANGED <<scene, sent>>
DropAgain ==
  /\ At("redrop") /\ ~Blocked
  /\ IF DropTest = "gone" THEN Returns("stale")
     ELSE drv' = [drv EXCEPT !.at = "lift", !.drop = DropTest] /\ UNCHANGED <<scene, page, sent>>
Lift ==
  /\ At("lift")
  /\ Input("dragging")
  /\ sent' = [sent EXCEPT !.touched = TRUE, !.astray = Astray("press", HitTest = drv.point, {"control"})]
  /\ page' \in Reactions(page) /\ UNCHANGED scene
\* After the first move: a handler of the gesture can repurpose the destination.
Dragging ==
  /\ At("dragging") /\ ~Blocked
  /\ IF DropTest = "gone" THEN Returns("stale")
     ELSE drv' = [Looked(drv) EXCEPT !.at = "rest", !.rests = 0] /\ page' \in Reactions(page) /\ UNCHANGED <<scene, sent>>
\* Two moves at rest, a look, and a release only where the pointer already rests;
\* else the drag is cancelled where it began.
Rest ==
  /\ At("rest") /\ ~Blocked
  /\ IF DropTest = "gone" \/ (DropTest # drv.drop /\ drv.rests = 1) THEN Returns("stale")
     ELSE /\ drv' = [Looked(drv) EXCEPT !.at = IF DropTest = drv.drop THEN "release" ELSE "rest", !.drop = DropTest,
                       !.rests = @ + 1]
          /\ page' \in IF DropTest = drv.drop THEN {page} ELSE Reactions(page)
          /\ UNCHANGED <<scene, sent>>
Release ==
  /\ At("release")
  /\ Input("after")
  /\ sent' = [sent EXCEPT !.effects = @ + 1, !.astray = Astray("drop", DropTest = drv.drop, {"control"})]
  /\ page' \in InputReactions(page) /\ UNCHANGED scene

----------------------------------------------------------------------------
(* The settle and the result.                                              *)

\* The announced popup is waited for, then the page settles: `changed_since`.
After ==
  /\ At("after")
  /\ drv' = [drv EXCEPT !.at = "settle", !.unchanged = FALSE]
  /\ UNCHANGED <<scene, page, sent>>

Settled(changed) == [drv EXCEPT !.at = "follow", !.changed = changed]
Deadline == [Settled(~drv.unchanged) EXCEPT !.deadline = TRUE]

\* The lifecycle mark is taken before the page is read.
SettleLook ==
  /\ At("settle")
  /\ \/ page.dialog /\ drv' = Settled(TRUE)
     \/ ~page.dialog /\ page.nav /\ drv' = [drv EXCEPT !.at = "waiting", !.unchanged = FALSE, !.mark = page.gen]
     \/ ~page.dialog /\ ~page.nav /\ drv' = [drv EXCEPT !.at = "read", !.mark = page.gen]
  /\ UNCHANGED <<scene, page, sent>>

\* `settled_fingerprint`: its message comes back after the tasks queued before it.
SettleRead ==
  /\ At("read")
  /\ \/ page.dialog /\ drv' = Settled(TRUE) /\ UNCHANGED page
     \/ page.hung /\ drv' = Deadline /\ UNCHANGED page
     \/ /\ ~Blocked
        /\ page' = RunQueued(page)
        /\ drv' = IF page.ready THEN [drv EXCEPT !.at = "judge", !.sample = page'.print, !.late = @ \ {"control"}]
                  ELSE [drv EXCEPT !.at = "waiting", !.unchanged = FALSE]
  /\ UNCHANGED <<scene, sent>>

\* Judged only with no request of the action open, no navigation on its way and
\* nothing reported since the mark.
SettleJudge ==
  /\ At("judge")
  /\ IF page.open = 0 /\ ~page.nav /\ page.gen = drv.mark
     THEN drv' = Settled(drv.sample # drv.before)
     ELSE drv' = [drv EXCEPT !.at = "waiting", !.unchanged = drv.sample = drv.before]
  /\ UNCHANGED <<scene, page, sent>>

\* `wait_for_lifecycle`, at most SETTLE_SECONDS in all.
SettleWait ==
  /\ At("waiting")
  /\ \/ page.gen # drv.mark /\ drv' = [drv EXCEPT !.at = "settle"]
     \/ page.dialog /\ page.nav /\ drv' = Settled(TRUE)
     \/ drv' = Deadline
  /\ UNCHANGED <<scene, page, sent>>

\* A window the input opened is followed; a navigation the input began is a move,
\* and one that ended in a file is the action's whole effect.
Follow ==
  /\ At("follow")
  /\ LET moved == drv.begun # NoMark /\ page.inputNav > drv.begun
         opened == Op({"click", "enter"}) /\ page.windows > drv.windows
         landed == page.downloads > drv.downloads
     IN drv' = [drv EXCEPT !.at = "done", !.outcome = "executed", !.moved = opened \/ moved,
                  !.changed = @ \/ opened \/ (moved /\ landed /\ ~scene.repeated)]
  /\ UNCHANGED <<scene, page, sent>>

----------------------------------------------------------------------------
ActInit ==
  /\ scene \in Scenes
  /\ page = [doc |-> 0, same |-> TRUE, pos |-> "p1", drop |-> "p1", cover |-> scene.cover, dialog |-> scene.op = "dialog",
             focus |-> IF scene.op = "blur" THEN "target" ELSE "none", front |-> scene.front, hung |-> FALSE, ready |-> TRUE,
             nav |-> FALSE, open |-> 0, queued |-> FALSE, print |-> 0, gen |-> 0, inputNav |-> 0, windows |-> 0,
             downloads |-> 0, text |-> "none", events |-> 0]
  /\ drv = [at |-> "idle", point |-> "gone", drawn |-> FALSE, left |-> FALSE, keyboard |-> FALSE, field |-> "target",
            attempt |-> 0, activate |-> FALSE, drop |-> "p1", rests |-> 0, before |-> 0, begun |-> NoMark, windows |-> 0,
            downloads |-> 0, mark |-> 0, sample |-> 0, unchanged |-> FALSE, deadline |-> FALSE, missed |-> FALSE,
            outcome |-> "none", changed |-> FALSE, moved |-> FALSE, late |-> {}]
  /\ sent = [effects |-> 0, astray |-> {}, leaked |-> FALSE, touched |-> FALSE]

Driver ==
  \/ Begin \/ Measure \/ LeaveSuggestingField \/ Mark \/ Dispatch \/ Unanswered
  \/ RouteAround \/ Uncover \/ CoverAgain \/ GuardHolds \/ ActivationKey \/ Focus \/ KeysReach \/ PressKey
  \/ MoveTo \/ StablePoint \/ ClickPoint \/ HandedFocus \/ FillNativeDate \/ Insert \/ LandedCheck
  \/ Select \/ Blur \/ Upload \/ AnswerDialog \/ Scroll \/ AwaitChange \/ SwitchTab
  \/ Back \/ Navigate \/ Drop \/ DropAgain \/ Lift \/ Dragging \/ Rest \/ Release
  \/ After \/ SettleLook \/ SettleRead \/ SettleJudge \/ SettleWait \/ Follow
PageActs == PageAlone \/ (~At("done") /\ (Commits \/ Aborts \/ Loads \/ RequestEnds \/ QueuedRuns))
ActNext == Driver \/ PageActs
ActSpec == ActInit /\ [][ActNext]_avars

----------------------------------------------------------------------------
(* Properties.                                                             *)

Places == Evaluating \cup {"idle", "mark", "dispatch", "move", "press", "send", "plain", "lift", "release", "after", "settle",
                            "read", "judge", "waiting", "follow", "done"}
PageType ==
  [doc : {0, 1}, same : BOOLEAN, pos : Points \cup {"gone"}, drop : Points \cup {"gone"}, cover : Covers, dialog : BOOLEAN,
   focus : {"none", "target", "editor", "other"}, front : BOOLEAN, hung : BOOLEAN, ready : BOOLEAN, nav : BOOLEAN,
   open : Nat, queued : BOOLEAN, print : Nat, gen : Nat, inputNav : Nat, windows : Nat, downloads : Nat,
   text : {"none", "target", "editor"}, events : Nat]
DrvType ==
  [at : Places, point : Points \cup {"gone", "covered"}, drawn : BOOLEAN, left : BOOLEAN, keyboard : BOOLEAN,
   field : {"target", "editor"}, attempt : Nat, activate : BOOLEAN, drop : Points \cup {"gone"}, rests : Nat, before : Nat,
   begun : Nat, windows : Nat, downloads : Nat, mark : Nat, sample : Nat, unchanged : BOOLEAN, deadline : BOOLEAN,
   missed : BOOLEAN, outcome : {"none", "stale", "covered", "failed", "error", "executed"}, changed : BOOLEAN,
   moved : BOOLEAN, late : SUBSET {"focus", "control"}]
SentType == [effects : Nat, astray : SUBSET {"key", "press", "text", "drop"}, leaked : BOOLEAN, touched : BOOLEAN]
ActTypeOK == scene \in Scenes /\ page \in PageType /\ drv \in DrvType /\ sent \in SentType

\* A press, a keyboard-route key or text, and a drop reach the control that was
\* observed, as it was observed and uncovered, unless the page changed by itself
\* after the driver's last look: whatever the driver's own scroll, focus or pointer
\* did to the control is seen before the input goes.
ReachesTheObserved == sent.astray = {}

\* A secret is put only into its own field, in a document of the origin it was
\* authorized for, whatever the page does and when.
SecretStaysHome == ~sent.leaked

\* A settle that did not run into its deadline misses nothing the action caused:
\* a result of no change has no request of the action open and the page shows what it
\* showed before, unless it changed by itself since.
NoChangeIsTrue ==
  (At("done") /\ drv.outcome = "executed" /\ ~drv.changed /\ ~drv.deadline /\ drv.late = {} /\ ~Op({"blur"}))
    => page.print = drv.before /\ page.open = 0 /\ ~page.queued

\* What `act` puts into the page goes where it was meant, a secret above all, and a
\* result of no change is true (act.rs, page/mod.rs `settle`).
ActKept == ActTypeOK /\ ReachesTheObserved /\ SecretStaysHome /\ NoChangeIsTrue

\* What `act` promises: dispatch at most once, and a refusal after no effect.
Promise == INSTANCE ActPromise WITH
  phase <- IF At("done") THEN drv.outcome ELSE IF At("idle") THEN "idle" ELSE "asked",
  effects <- sent.effects
PromiseKept == Promise!PromiseSpec

\* Every action returns, on a page that hangs, asks or never answers a request.
ActReturns == At("measure") ~> At("done")
=============================================================================
