---------------------------- MODULE PageActProofs ----------------------------
(***************************************************************************)
(* Proofs about PageAct, for every set of scenes and however often the     *)
(* page changes: where an action's input goes, where a secret goes, what a *)
(* result of no change means, and that `act` keeps what ActPromise says.   *)
(***************************************************************************)
EXTENDS PageAct, TLAPS

----------------------------------------------------------------------------
(* The inductive invariant, in parts.                                      *)

\* Where the text goes: only an open fill is handed to an editor, never a secret,
\* and the control has no focus while the editor is the field.
FieldKept ==
  /\ page.focus = "target" => drv.field = "target"
  /\ scene.secret \/ scene.op # "fill" => drv.field = "target"

\* The places only some operations reach, and those of the keyboard's route.
RoutesKept ==
  /\ drv.at \in {"handed", "native", "insert", "landed"} => scene.op = "fill"
  /\ drv.at = "send" => scene.op \in {"click", "enter", "escape"}
  /\ drv.at \in {"focus", "reach"} => scene.op \in {"click", "enter", "fill"}
  /\ drv.at \in {"cover", "guard"} => scene.op \in {"click", "enter", "fill", "select"}
  /\ drv.at \in {"uncover", "recover"} => scene.op \in {"click", "fill"}
  /\ drv.at = "key" => scene.op = "click"
  /\ drv.at = "blur" => scene.op = "blur"
  /\ drv.at = "move" => scene.op \in {"click", "hover", "fill", "drag"}
  /\ drv.at = "check" => scene.op \in {"click", "fill", "drag"}
  /\ drv.at = "press" => scene.op \in {"click", "fill"}
  /\ drv.at = "drop" => scene.op = "drag"
  /\ drv.field # "target" => drv.at \in {"focus", "reach", "insert", "landed", "after", "settle", "read", "judge", "waiting",
                                        "follow", "done"}
  /\ drv.keyboard => drv.at \in {"key", "native", "select", "focus", "reach", "send", "insert", "landed", "after",
                                 "settle", "read", "judge", "waiting", "follow", "done"}

\* The effect is had once, on the way to the settle; text that did not land is
\* nowhere, and text that did is where the check will find it.
Settling == {"after", "settle", "read", "judge", "waiting", "follow"}
EffectOnce ==
  /\ sent.effects \in {0, 1}
  /\ drv.at \in Settling => sent.effects = 1
  /\ drv.at \notin Settling \cup {"landed", "done"} => sent.effects = 0
  /\ drv.at = "landed" /\ sent.effects = 0 => page.doc = 1 \/ page.text = "none"
  /\ drv.at = "landed" /\ sent.effects = 1 =>
       page.doc = 1 \/ page.text = drv.field \/ (page.text = "editor" /\ drv.field = "target")
  /\ drv.at = "done" => drv.outcome # "none"
  /\ drv.at = "done" /\ drv.outcome \in {"stale", "covered"} => sent.effects = 0
  /\ drv.at = "done" /\ drv.outcome = "executed" => sent.effects = 1

\* Between its last look and its input the driver leaves the page alone: what it
\* looked at is still so, unless the page changed by itself since.
Reaches == page.doc = 0 /\ page.focus = drv.field /\ page.cover \in {"none", "band"} /\ (drv.keyboard => page.same)
AimKept ==
  /\ drv.at = "reach" => "focus" \in drv.late \/ (page.doc = 0 /\ page.focus = drv.field)
  /\ drv.at \in {"send", "insert"} /\ scene.op # "escape" => drv.late # {} \/ Reaches
  /\ drv.at \in {"press", "redrop", "lift"} => "control" \in drv.late \/ HitTest = drv.point
  /\ drv.at = "release" => "control" \in drv.late \/ DropTest = drv.drop
  /\ sent.astray = {}

\* A sample the settle judges by is of the page as it is, while nothing was
\* reported since the mark and the page did nothing by itself.
SettleKept ==
  /\ drv.at \in {"read", "judge"} => drv.mark <= page.gen
  /\ drv.at = "judge" /\ page.gen = drv.mark /\ drv.late = {} => page.print = drv.sample /\ ~page.queued
  /\ drv.at = "follow" \/ (drv.at = "done" /\ drv.outcome = "executed" /\ scene.op # "blur") =>
       (~drv.changed /\ ~drv.deadline /\ drv.late = {} => page.print = drv.before /\ page.open = 0 /\ ~page.queued /\ ~page.nav)

ActInv ==
  /\ ActTypeOK /\ FieldKept /\ RoutesKept /\ EffectOnce /\ AimKept /\ SettleKept /\ ~sent.leaked

----------------------------------------------------------------------------
(* What the page does.                                                     *)

\* Whatever a page does keeps its document and the text in it; the focus goes
\* elsewhere, never to the control; what concerns the focus leaves the control
\* alone, and the other way round.
Kept(p, k, q) ==
  /\ q \in PageType
  /\ q.doc = p.doc /\ q.text = p.text /\ q.queued = p.queued /\ q.gen >= p.gen
  /\ q.focus = p.focus \/ q.focus \in {"other", "editor"}
  /\ Aspect(k) = "focus" => q.same = p.same /\ q.pos = p.pos /\ q.cover = p.cover /\ q.drop = p.drop
  /\ Aspect(k) = "control" => q.focus = p.focus
LEMMA EventKeeps ==
  ASSUME NEW p \in PageType, NEW k
  PROVE  Kept(p, k, Event(p, k))
<1> DEFINE e == [p EXCEPT !.events = @ + 1]
<1>1. e \in PageType
  BY DEF PageType
<1>2. /\ e.doc = p.doc /\ e.text = p.text /\ e.queued = p.queued /\ e.gen = p.gen /\ e.focus = p.focus
      /\ e.same = p.same /\ e.pos = p.pos /\ e.cover = p.cover /\ e.drop = p.drop
  BY DEF PageType
<1> HIDE DEF e
<1>3. Event(p, k) =
        CASE k = "repurpose" -> [e EXCEPT !.same = FALSE]
          [] k = "vanish" -> [e EXCEPT !.pos = "gone"]
          [] k = "shift" -> [e EXCEPT !.pos = IF @ = "p1" THEN "p2" ELSE "p1"]
          [] k = "clear" -> [e EXCEPT !.cover = "none"]
          [] k \in {"band", "obstruction", "other"} -> [e EXCEPT !.cover = k]
          [] k = "dialog" -> [e EXCEPT !.dialog = TRUE]
          [] k = "navigate" -> [e EXCEPT !.nav = TRUE, !.gen = @ + 1]
          [] k = "away" -> [e EXCEPT !.focus = "other"]
          [] k = "editor" -> [e EXCEPT !.focus = "editor"]
          [] k = "behind" -> [e EXCEPT !.front = FALSE]
          [] k = "request" -> [e EXCEPT !.open = @ + 1]
          [] k = "redraw" -> [e EXCEPT !.print = @ + 1]
          [] k = "window" -> [e EXCEPT !.windows = @ + 1]
          [] k = "hang" -> [e EXCEPT !.hung = TRUE]
          [] k = "dropshift" -> [e EXCEPT !.drop = IF @ = "p1" THEN "p2" ELSE "p1"]
          [] k = "dropchange" -> [e EXCEPT !.drop = "gone"]
          [] OTHER -> e
  BY DEF Event, e
<1>4. \A q : Kept(e, k, q) => Kept(p, k, q)
  BY <1>2 DEF Kept
<1>5. CASE k = "repurpose"
  <2>1. Event(p, k) = [e EXCEPT !.same = FALSE]
    BY <1>3, <1>5
  <2>2. \A b \in BOOLEAN : Kept(e, k, [e EXCEPT !.same = b])
    BY <1>1, <1>5 DEF Kept, Aspect, PageType
  <2> QED BY <1>4, <2>1, <2>2
<1>6. CASE k = "vanish"
  <2>1. Event(p, k) = [e EXCEPT !.pos = "gone"]
    BY <1>3, <1>6
  <2>2. Kept(e, k, [e EXCEPT !.pos = "gone"])
    BY <1>1, <1>6 DEF Kept, Aspect, PageType
  <2> QED BY <1>4, <2>1, <2>2
<1>7. CASE k = "shift" /\ e.pos = "p1"
  <2>1. Event(p, k) = [e EXCEPT !.pos = "p2"]
    BY <1>3, <1>7
  <2>2. Kept(e, k, [e EXCEPT !.pos = "p2"])
    BY <1>1, <1>7 DEF Kept, Aspect, PageType, Points
  <2> QED BY <1>4, <2>1, <2>2
<1>8. CASE k = "shift" /\ e.pos # "p1"
  <2>1. Event(p, k) = [e EXCEPT !.pos = "p1"]
    BY <1>3, <1>8
  <2>2. Kept(e, k, [e EXCEPT !.pos = "p1"])
    BY <1>1, <1>8 DEF Kept, Aspect, PageType, Points
  <2> QED BY <1>4, <2>1, <2>2
<1>9. CASE k = "clear"
  <2>1. Event(p, k) = [e EXCEPT !.cover = "none"]
    BY <1>3, <1>9
  <2>2. Kept(e, k, [e EXCEPT !.cover = "none"])
    BY <1>1, <1>9 DEF Kept, Aspect, PageType, Covers
  <2> QED BY <1>4, <2>1, <2>2
<1>10. CASE k \in {"band", "obstruction", "other"}
  <2>1. Event(p, k) = [e EXCEPT !.cover = k]
    BY <1>3, <1>10
  <2>2. Kept(e, k, [e EXCEPT !.cover = k])
    BY <1>1, <1>10 DEF Kept, Aspect, PageType, Covers
  <2> QED BY <1>4, <2>1, <2>2
<1>11. CASE k = "dialog"
  <2>1. Event(p, k) = [e EXCEPT !.dialog = TRUE]
    BY <1>3, <1>11
  <2>2. \A b \in BOOLEAN : Kept(e, k, [e EXCEPT !.dialog = b])
    BY <1>1, <1>11 DEF Kept, Aspect, PageType
  <2> QED BY <1>4, <2>1, <2>2
<1>12. CASE k = "navigate"
  <2>1. Event(p, k) = [e EXCEPT !.nav = TRUE, !.gen = @ + 1]
    BY <1>3, <1>12
  <2>2. \A b \in BOOLEAN, n \in Nat : n >= e.gen => Kept(e, k, [e EXCEPT !.nav = b, !.gen = n])
    BY <1>1, <1>12 DEF Kept, Aspect, PageType
  <2>3. \A n \in Nat : n >= e.gen => Kept(e, k, [e EXCEPT !.nav = TRUE, !.gen = n])
    BY <2>2, Zenon
  <2>4. e.gen + 1 \in Nat /\ e.gen + 1 >= e.gen
    BY <1>1 DEF PageType
  <2>5. Kept(e, k, [e EXCEPT !.nav = TRUE, !.gen = e.gen + 1])
    BY <2>3, <2>4, Zenon
  <2> QED BY <1>4, <2>1, <2>5
<1>13. CASE k = "away"
  <2>1. Event(p, k) = [e EXCEPT !.focus = "other"]
    BY <1>3, <1>13
  <2>2. Kept(e, k, [e EXCEPT !.focus = "other"])
    BY <1>1, <1>13 DEF Kept, Aspect, PageType
  <2> QED BY <1>4, <2>1, <2>2
<1>14. CASE k = "editor"
  <2>1. Event(p, k) = [e EXCEPT !.focus = "editor"]
    BY <1>3, <1>14
  <2>2. Kept(e, k, [e EXCEPT !.focus = "editor"])
    BY <1>1, <1>14 DEF Kept, Aspect, PageType
  <2> QED BY <1>4, <2>1, <2>2
<1>15. CASE k = "behind"
  <2>1. Event(p, k) = [e EXCEPT !.front = FALSE]
    BY <1>3, <1>15
  <2>2. \A b \in BOOLEAN : Kept(e, k, [e EXCEPT !.front = b])
    BY <1>1, <1>15 DEF Kept, Aspect, PageType
  <2> QED BY <1>4, <2>1, <2>2
<1>16. CASE k = "request"
  <2>1. Event(p, k) = [e EXCEPT !.open = @ + 1]
    BY <1>3, <1>16
  <2>2. Kept(e, k, [e EXCEPT !.open = @ + 1])
    BY <1>1, <1>16 DEF Kept, Aspect, PageType
  <2> QED BY <1>4, <2>1, <2>2
<1>17. CASE k = "redraw"
  <2>1. Event(p, k) = [e EXCEPT !.print = @ + 1]
    BY <1>3, <1>17
  <2>2. Kept(e, k, [e EXCEPT !.print = @ + 1])
    BY <1>1, <1>17 DEF Kept, Aspect, PageType
  <2> QED BY <1>4, <2>1, <2>2
<1>18. CASE k = "window"
  <2>1. Event(p, k) = [e EXCEPT !.windows = @ + 1]
    BY <1>3, <1>18
  <2>2. Kept(e, k, [e EXCEPT !.windows = @ + 1])
    BY <1>1, <1>18 DEF Kept, Aspect, PageType
  <2> QED BY <1>4, <2>1, <2>2
<1>19. CASE k = "hang"
  <2>1. Event(p, k) = [e EXCEPT !.hung = TRUE]
    BY <1>3, <1>19
  <2>2. \A b \in BOOLEAN : Kept(e, k, [e EXCEPT !.hung = b])
    BY <1>1, <1>19 DEF Kept, Aspect, PageType
  <2> QED BY <1>4, <2>1, <2>2
<1>20. CASE k = "dropshift" /\ e.drop = "p1"
  <2>1. Event(p, k) = [e EXCEPT !.drop = "p2"]
    BY <1>3, <1>20
  <2>2. Kept(e, k, [e EXCEPT !.drop = "p2"])
    BY <1>1, <1>20 DEF Kept, Aspect, PageType, Points
  <2> QED BY <1>4, <2>1, <2>2
<1>21. CASE k = "dropshift" /\ e.drop # "p1"
  <2>1. Event(p, k) = [e EXCEPT !.drop = "p1"]
    BY <1>3, <1>21
  <2>2. Kept(e, k, [e EXCEPT !.drop = "p1"])
    BY <1>1, <1>21 DEF Kept, Aspect, PageType, Points
  <2> QED BY <1>4, <2>1, <2>2
<1>22. CASE k = "dropchange"
  <2>1. Event(p, k) = [e EXCEPT !.drop = "gone"]
    BY <1>3, <1>22
  <2>2. Kept(e, k, [e EXCEPT !.drop = "gone"])
    BY <1>1, <1>22 DEF Kept, Aspect, PageType
  <2> QED BY <1>4, <2>1, <2>2
<1>23. CASE k \notin Kinds
  <2>1. Event(p, k) = e
    BY <1>3, <1>23 DEF Kinds
  <2>2. Kept(e, k, e)
    BY <1>1, <1>23 DEF Kept, Aspect, PageType, Kinds
  <2> QED BY <1>4, <2>1, <2>2
<1> QED BY <1>5, <1>6, <1>7, <1>8, <1>9, <1>10, <1>11, <1>12, <1>13, <1>14, <1>15, <1>16, <1>17, <1>18, <1>19, <1>20, <1>21, <1>22, <1>23 DEF Kinds

\* The same of the handlers of what the driver did.
Same(p, q) ==
  /\ q \in PageType
  /\ q.doc = p.doc /\ q.text = p.text /\ q.queued = p.queued /\ q.gen >= p.gen
  /\ q.focus = p.focus \/ q.focus \in {"other", "editor"}
LEMMA ReactionsKeep ==
  ASSUME NEW p \in PageType, NEW q \in Reactions(p)
  PROVE  Same(p, q)
<1>1. CASE q = p
  BY <1>1 DEF Same, PageType
<1>2. ASSUME NEW k \in scene.reacts, q = Event(p, k) PROVE Same(p, q)
  <2>1. Kept(p, k, q)
    BY <1>2, EventKeeps
  <2> QED BY <2>1 DEF Kept, Same
<1> QED BY <1>1, <1>2 DEF Reactions

LEMMA InputReactionsKeep ==
  ASSUME NEW p \in PageType, NEW q \in InputReactions(p)
  PROVE  Same(p, q)
<1>1. PICK r \in Reactions(p) : q = [r EXCEPT !.inputNav = IF r.nav /\ ~p.nav THEN @ + 1 ELSE @]
  BY DEF InputReactions
<1>2. Same(p, r)
  BY ReactionsKeep
<1>3. PICK n \in Nat : q = [r EXCEPT !.inputNav = n]
  <2>1. r.inputNav \in Nat
    BY <1>2 DEF Same, PageType
  <2> QED BY <1>1, <2>1
<1> QED BY <1>2, <1>3 DEF Same, PageType

----------------------------------------------------------------------------
(* Kinds of step.  A step moves the driver to a place; all the invariant   *)
(* asks of most places is that the effect is still to come.                *)

Moves(d, x, a) == x \in DrvType /\ x.at = a /\ x.field = d.field /\ x.keyboard = d.keyboard
PageKept == page' \in PageType /\ (page'.focus = "target" => page.focus = "target" \/ drv.field = "target")

\* To a place before any input, with nothing measured for the next one.
Aimed == {"reach", "insert", "press", "redrop", "lift", "release"}
LEMMA QuietStep ==
  ASSUME ActInv, drv.at \notin Settling \cup {"landed", "done"}, PageKept, UNCHANGED <<scene, sent>>,
         NEW a \in Places \ (Settling \cup Aimed \cup {"landed", "done"}), Moves(drv, drv', a),
         a = "send" => scene.op = "escape", RoutesKept'
  PROVE  ActInv'
<1>1. ActTypeOK'
  BY DEF ActInv, ActTypeOK, PageKept, Moves
<1>2. FieldKept'
  BY DEF ActInv, FieldKept, PageKept, Moves
<1>3. EffectOnce'
  BY DEF ActInv, EffectOnce, Moves, Settling
<1>4. AimKept'
  BY DEF ActInv, AimKept, Moves, Aimed
<1>5. SettleKept' /\ ~sent'.leaked
  BY DEF ActInv, SettleKept, Moves, Settling
<1> QED BY <1>1, <1>2, <1>3, <1>4, <1>5 DEF ActInv

\* To the end of the call, with no result of an action carried out.
LEMMA RefusedStep ==
  ASSUME ActInv, drv.at # "done", PageKept, UNCHANGED <<scene, sent>>, Moves(drv, drv', "done"),
         drv'.outcome \in {"stale", "covered", "failed", "error"},
         drv'.outcome \in {"stale", "covered"} => drv.at \notin Settling \cup {"landed"}
  PROVE  ActInv'
<1>1. ActTypeOK'
  BY DEF ActInv, ActTypeOK, PageKept, Moves
<1>2. FieldKept'
  BY DEF ActInv, FieldKept, PageKept, Moves
<1>3. EffectOnce'
  BY DEF ActInv, EffectOnce, Moves, Settling
<1>4. AimKept' /\ RoutesKept'
  BY DEF ActInv, AimKept, RoutesKept, Moves
<1>5. SettleKept' /\ ~sent'.leaked
  BY DEF ActInv, SettleKept, Moves
<1> QED BY <1>1, <1>2, <1>3, <1>4, <1>5 DEF ActInv

\* The effect, and on to the settle or to a failure.
LEMMA EffectStep ==
  ASSUME ActInv, drv.at \notin Settling \cup {"landed", "done"}, PageKept, UNCHANGED scene,
         sent' \in SentType, sent'.effects = 1, sent'.astray = {}, ~sent'.leaked,
         NEW a \in {"after", "done"}, Moves(drv, drv', a),
         a = "done" => drv'.outcome \in {"failed", "error"}
  PROVE  ActInv'
<1>1. ActTypeOK'
  BY DEF ActInv, ActTypeOK, PageKept, Moves
<1>2. FieldKept'
  BY DEF ActInv, FieldKept, PageKept, Moves
<1>3. EffectOnce'
  BY DEF ActInv, EffectOnce, Moves, Settling
<1>4. AimKept' /\ RoutesKept'
  BY DEF ActInv, AimKept, RoutesKept, Moves
<1>5. SettleKept'
  BY DEF ActInv, SettleKept, Moves
<1> QED BY <1>1, <1>2, <1>3, <1>4, <1>5 DEF ActInv

\* The moves the actions make.
LEMMA GoMoves ==
  ASSUME ActTypeOK, NEW a \in Places, Go(a)
  PROVE  Moves(drv, drv', a) /\ drv'.late = drv.late /\ drv'.point = drv.point /\ drv'.drop = drv.drop
BY DEF ActTypeOK, Go, Moves, DrvType

Ended(d, o, b) == [d EXCEPT !.at = "done", !.outcome = o, !.changed = b]
LEMMA EndsMoves ==
  ASSUME NEW d \in DrvType, NEW o \in {"stale", "covered", "failed", "error", "executed"}, NEW b \in BOOLEAN
  PROVE  Moves(d, Ended(d, o, b), "done") /\ Ended(d, o, b).outcome = o /\ Ended(d, o, b).late = d.late
<1> DEFINE x == Ended(d, o, b)
<1>1. x \in DrvType
  BY ZenonT(60) DEF DrvType, Places, Ended
<1>2. x.at = "done" /\ x.outcome = o /\ x.field = d.field /\ x.keyboard = d.keyboard /\ x.late = d.late
  BY DEF DrvType, Ended
<1> QED BY <1>1, <1>2 DEF Moves

LEMMA EndsType ==
  ASSUME ActTypeOK, NEW o \in {"stale", "covered", "failed", "error", "executed"}
  PROVE  Ends(o) \in DrvType /\ Moves(drv, Ends(o), "done") /\ Ends(o).outcome = o /\ Ends(o).late = drv.late
<1>1. drv \in DrvType /\ page.dialog \in BOOLEAN
  BY DEF ActTypeOK, PageType
<1>2. Moves(drv, Ends(o), "done") /\ Ends(o).outcome = o /\ Ends(o).late = drv.late
  <2>1. Ends(o) = Ended(drv, o, page.dialog)
    BY DEF Ends, Ended
  <2> QED BY <1>1, <2>1, EndsMoves
<1> QED BY <1>2 DEF Moves

\* A call that returns early leaves the page and what was sent as they are.
LEMMA ReturnsStep ==
  ASSUME ActInv, drv.at # "done", NEW o \in {"stale", "covered", "failed", "error"}, Returns(o),
         o \in {"stale", "covered"} => drv.at \notin Settling \cup {"landed"}
  PROVE  ActInv'
<1>1. Moves(drv, drv', "done") /\ drv'.outcome = o /\ UNCHANGED <<scene, page, sent>>
  BY EndsType DEF Returns, ActInv
<1>2. PageKept
  BY <1>1 DEF PageKept, ActInv, ActTypeOK
<1> QED BY <1>1, <1>2, RefusedStep

\* Missing a deadline is noted beside the outcome.
LEMMA MissedMoves ==
  ASSUME NEW d \in DrvType, NEW x \in DrvType, Moves(d, x, "done"), NEW b \in BOOLEAN
  PROVE  Moves(d, [x EXCEPT !.missed = b], "done") /\ [x EXCEPT !.missed = b].outcome = x.outcome
BY DEF Moves, DrvType

\* An input event goes on to the next place, or ends the call on a hung page.
LEMMA InputMoves ==
  ASSUME ActTypeOK, NEW next \in Places, Input(next)
  PROVE  \/ Moves(drv, drv', next) /\ drv'.late = drv.late /\ drv'.point = drv.point /\ drv'.drop = drv.drop
         \/ Moves(drv, drv', "done") /\ drv'.outcome = "error"
<1>1. CASE drv' = [drv EXCEPT !.at = next]
  BY <1>1, GoMoves DEF Go
<1>2. CASE drv' = [Ends("error") EXCEPT !.missed = TRUE]
  <2>1. \A b \in BOOLEAN : Moves(drv, [Ends("error") EXCEPT !.missed = b], "done") /\ [Ends("error") EXCEPT !.missed = b].outcome = "error"
    BY EndsType, MissedMoves DEF ActTypeOK
  <2> QED BY <1>2, <2>1
<1> QED BY <1>1, <1>2 DEF Input

\* The page after the handlers of what the driver did.
LEMMA SameKept ==
  ASSUME ActInv, Same(page, page')
  PROVE  PageKept
BY DEF Same, PageKept

----------------------------------------------------------------------------
(* The steps: the checks, and the ways around a cover.                     *)

\* What an action that goes to another place, and no further, has to show.
LEMMA GoesToStep ==
  ASSUME ActInv, drv.at \notin Settling \cup {"landed", "done"},
         NEW a \in Places \ (Settling \cup Aimed \cup {"landed", "done"}), Go(a), UNCHANGED <<scene, page, sent>>,
         a = "send" => scene.op = "escape",
         a \in {"handed", "native"} => scene.op = "fill",
         a = "focus" => scene.op \in {"click", "enter", "fill"},
         a \in {"cover", "guard"} => scene.op \in {"click", "enter", "fill", "select"},
         a \in {"uncover", "recover"} => scene.op \in {"click", "fill"},
         a = "key" => scene.op = "click",
         a = "blur" => scene.op = "blur",
         a = "move" => scene.op \in {"click", "hover", "fill", "drag"},
         a \notin {"check", "press"},
         a = "drop" => scene.op = "drag",
         drv.field = "target",
         drv.keyboard => a \in {"key", "native", "select", "focus"}
  PROVE  ActInv'
<1>1. Moves(drv, drv', a)
  BY GoMoves DEF ActInv
<1>2. PageKept
  BY DEF PageKept, ActInv, ActTypeOK
<1>3. RoutesKept'
  BY <1>1 DEF Moves, RoutesKept, Aimed
<1> QED BY <1>1, <1>2, <1>3, QuietStep

LEMMA BeginStep == ActInv /\ Begin => ActInv'
<1> SUFFICES ASSUME ActInv, Begin PROVE ActInv'
  OBVIOUS
<1>0. drv.at = "idle" /\ drv \in DrvType /\ page \in PageType
  BY DEF Begin, At, ActInv, ActTypeOK
<1>1. CASE Returns("stale")
  BY <1>0, <1>1, ReturnsStep DEF Settling
<1>2. CASE drv' = [drv EXCEPT !.at = IF page.dialog THEN "mark" ELSE "measure", !.drawn = Op({"click", "fill", "hover"})]
           /\ UNCHANGED <<scene, page, sent>>
  <2>1. PICK a \in {"mark", "measure"}, b \in BOOLEAN : drv' = [drv EXCEPT !.at = a, !.drawn = b]
    <3>1. Op({"click", "fill", "hover"}) \in BOOLEAN
      BY DEF Op
    <3> QED BY <1>2, <3>1, Zenon
  <2>2. a \in Places
    BY DEF Places, Evaluating
  <2>3. Moves(drv, drv', a)
    BY <1>0, <2>1, <2>2 DEF Moves, DrvType
  <2>4. PageKept /\ RoutesKept'
    BY <1>0, <1>2, <2>3 DEF PageKept, RoutesKept, Moves, ActInv
  <2> QED BY <1>0, <1>2, <2>2, <2>3, <2>4, QuietStep DEF Settling, Aimed
<1> QED BY <1>1, <1>2 DEF Begin

LEMMA MeasureStep == ActInv /\ Measure => ActInv'
<1> SUFFICES ASSUME ActInv, Measure PROVE ActInv'
  OBVIOUS
<1>0. drv.at = "measure" /\ drv \in DrvType /\ page \in PageType /\ ActTypeOK /\ ~drv.keyboard
  BY DEF Measure, At, ActInv, ActTypeOK, RoutesKept
<1>p. "mark" \in Places /\ "leave" \in Places /\ "measure" \in Places
  BY DEF Places, Evaluating
<1>1. CASE drv' = [Ends("error") EXCEPT !.missed = TRUE] /\ UNCHANGED <<scene, page, sent>>
  <2>1. \A b \in BOOLEAN : Moves(drv, [Ends("error") EXCEPT !.missed = b], "done") /\ [Ends("error") EXCEPT !.missed = b].outcome = "error"
    BY <1>0, EndsType, MissedMoves
  <2>2. Moves(drv, drv', "done") /\ drv'.outcome = "error"
    BY <1>1, <2>1
  <2>3. PageKept
    BY <1>0, <1>1 DEF PageKept
  <2> QED BY <1>0, <1>1, <2>2, <2>3, RefusedStep
<1>2. CASE drv' = [drv EXCEPT !.drawn = FALSE] /\ UNCHANGED <<scene, page, sent>>
  <2>1. \A b \in BOOLEAN : Moves(drv, [drv EXCEPT !.drawn = b], "measure")
    BY <1>0, <1>p DEF Moves, DrvType
  <2>2. Moves(drv, drv', "measure") /\ PageKept
    BY <1>0, <1>2, <2>1 DEF PageKept
  <2>3. RoutesKept'
    BY <1>0, <1>2, <2>2 DEF RoutesKept, Moves, ActInv
  <2> QED BY <1>0, <1>p, <1>2, <2>2, <2>3, QuietStep DEF Settling, Aimed
<1>3. CASE Returns("stale")
  BY <1>0, <1>3, ReturnsStep DEF Settling
<1>4. ASSUME NEW a \in {"leave", "mark"}, NEW v \in Points \cup {"gone", "covered"},
             drv' = [Looked(drv) EXCEPT !.at = a, !.point = v, !.before = page.print],
             page' \in Reactions(page), UNCHANGED <<scene, sent>>
      PROVE  ActInv'
  <2>1. Looked(drv) \in DrvType /\ Looked(drv).field = drv.field /\ Looked(drv).keyboard = drv.keyboard
    BY <1>0 DEF Looked, DrvType
  <2>2. page.print \in Nat /\ a \in Places
    BY <1>0, <1>p DEF PageType
  <2>3. \A d \in DrvType, n \in Nat : Moves(d, [d EXCEPT !.at = a, !.point = v, !.before = n], a)
    BY <2>2, ZenonT(60) DEF Moves, DrvType
  <2>4. Moves(drv, drv', a)
    BY <1>4, <2>1, <2>2, <2>3 DEF Moves
  <2>5. PageKept
    BY <1>0, <1>4, ReactionsKeep, SameKept
  <2>6. RoutesKept'
    BY <1>0, <1>4, <2>4 DEF RoutesKept, Moves, ActInv
  <2> QED BY <1>0, <1>4, <2>2, <2>4, <2>5, <2>6, QuietStep DEF Settling, Aimed
<1>5. BeforeAction \in Points \cup {"gone", "covered"}
  BY <1>0 DEF BeforeAction, HitTest, PageType
<1> QED BY <1>1, <1>2, <1>3, <1>4, <1>5 DEF Measure

LEMMA LeaveStep == ActInv /\ LeaveSuggestingField => ActInv'
<1> SUFFICES ASSUME ActInv, LeaveSuggestingField PROVE ActInv'
  OBVIOUS
<1>0. drv.at = "leave" /\ drv \in DrvType /\ page \in PageType /\ ActTypeOK /\ ~drv.keyboard /\ UNCHANGED <<scene, sent>>
      /\ drv.field = "target"
  BY DEF LeaveSuggestingField, At, ActInv, ActTypeOK, RoutesKept
<1>p. "mark" \in Places /\ "measure" \in Places
  BY DEF Places, Evaluating
<1>1. CASE drv' = [drv EXCEPT !.at = "mark"] /\ UNCHANGED page
  BY <1>0, <1>p, <1>1, GoesToStep DEF Go, Settling, Aimed
<1>2. ASSUME NEW c \in Covers, NEW p \in Reactions([page EXCEPT !.focus = "none", !.cover = c]), page' = p,
             drv' = [drv EXCEPT !.at = "measure", !.left = TRUE, !.drawn = FALSE]
      PROVE  ActInv'
  <2> DEFINE was == [page EXCEPT !.focus = "none", !.cover = c]
  <2>1. was \in PageType /\ was.focus = "none"
    BY <1>0 DEF PageType
  <2>2. Same(was, page')
    BY <1>2, <2>1, ReactionsKeep
  <2>3. PageKept
    BY <2>1, <2>2 DEF Same, PageKept
  <2>4. \A b, l \in BOOLEAN : Moves(drv, [drv EXCEPT !.at = "measure", !.left = l, !.drawn = b], "measure")
    BY <1>0, <1>p, ZenonT(60) DEF Moves, DrvType
  <2>5. Moves(drv, drv', "measure")
    BY <1>2, <2>4
  <2>6. RoutesKept'
    BY <1>0, <1>2, <2>5 DEF RoutesKept, Moves, ActInv
  <2> QED BY <1>0, <1>p, <2>3, <2>5, <2>6, QuietStep DEF Settling, Aimed
<1>3. (IF page.cover = "other" THEN "none" ELSE page.cover) \in Covers
  BY <1>0 DEF PageType, Covers
<1> QED BY <1>1, <1>2, <1>3 DEF LeaveSuggestingField

LEMMA MarkStep == ActInv /\ Mark => ActInv'
<1> SUFFICES ASSUME ActInv, Mark PROVE ActInv'
  OBVIOUS
<1>0. drv.at = "mark" /\ drv \in DrvType /\ page \in PageType /\ ActTypeOK /\ ~drv.keyboard /\ UNCHANGED <<scene, page, sent>>
  BY DEF Mark, At, ActInv, ActTypeOK, RoutesKept
<1>1. "dispatch" \in Places /\ InputMark \in Nat /\ page.windows \in Nat /\ page.downloads \in Nat
  BY <1>0 DEF Places, InputMark, NoMark, PageType
<1>2. \A i, w, d \in Nat : Moves(drv, [drv EXCEPT !.at = "dispatch", !.begun = i, !.windows = w, !.downloads = d], "dispatch")
  BY <1>0, <1>1, ZenonT(60) DEF Moves, DrvType
<1>3. Moves(drv, drv', "dispatch")
  BY <1>1, <1>2 DEF Mark
<1>4. PageKept
  BY <1>0 DEF PageKept
<1>5. RoutesKept'
  BY <1>0, <1>3 DEF RoutesKept, Moves, ActInv
<1> QED BY <1>0, <1>1, <1>3, <1>4, <1>5, QuietStep DEF Settling, Aimed

LEMMA DispatchStep == ActInv /\ Dispatch => ActInv'
<1> SUFFICES ASSUME ActInv, Dispatch PROVE ActInv'
  OBVIOUS
<1>0. drv.at = "dispatch" /\ ~drv.keyboard /\ drv.field = "target"
  BY DEF Dispatch, At, ActInv, RoutesKept
<1>p. {"cover", "move", "send", "focus", "select", "drop", "upload", "blur", "plain"} \subseteq Places
  BY DEF Places, Evaluating
<1>1. ASSUME NEW o \in {"stale", "covered", "failed"}, Returns(o) PROVE ActInv'
  BY <1>0, <1>1, ReturnsStep DEF Settling
<1>2. ASSUME NEW a \in {"cover", "move", "send", "focus", "select", "drop", "upload", "blur", "plain"}, GoesTo(a),
             a = "send" => scene.op = "escape",
             a = "focus" => scene.op \in {"click", "enter", "fill"},
             a = "cover" => scene.op \in {"click", "enter", "fill", "select"},
             a = "blur" => scene.op = "blur",
             a = "move" => scene.op \in {"click", "hover", "fill", "drag"},
             a = "drop" => scene.op = "drag"
      PROVE  ActInv'
  BY <1>0, <1>p, <1>2, GoesToStep DEF GoesTo, Settling, Aimed
<1>3. CASE Click \/ Hover \/ Key
  BY <1>1, <1>2, <1>3 DEF Click, Hover, Key, Op
<1>4. CASE /\ Op({"fill", "select", "drag", "upload"})
           /\ GoesTo(CASE Op({"fill"}) -> "move" [] Op({"select"}) -> "select" [] Op({"drag"}) -> "drop" [] OTHER -> "upload")
  <2>1. PICK a \in {"move", "select", "drop", "upload"} :
          GoesTo(a) /\ (a = "move" => scene.op = "fill") /\ (a = "drop" => scene.op = "drag")
    BY <1>4 DEF Op
  <2> QED BY <1>2, <2>1
<1>5. CASE Op({"fill", "select"}) /\ GoesTo("cover")
  BY <1>2, <1>5 DEF Op
<1>6. CASE Op({"blur"}) /\ GoesTo("blur")
  BY <1>2, <1>6 DEF Op
<1>7. CASE GoesTo("plain")
  BY <1>2, <1>7
<1>8. CASE Returns("stale") \/ Returns("failed") \/ Returns("covered")
  BY <1>1, <1>8
<1> QED BY <1>3, <1>4, <1>5, <1>6, <1>7, <1>8 DEF Dispatch

\* A dialog over the blurred field's page means the blur ran.
LEMMA UnansweredStep == ActInv /\ Unanswered => ActInv'
<1> SUFFICES ASSUME ActInv, Unanswered PROVE ActInv'
  OBVIOUS
<1>0. drv.at \in Evaluating /\ drv \in DrvType /\ page \in PageType /\ ActTypeOK /\ UNCHANGED <<scene, page>>
  BY DEF Unanswered, ActInv, ActTypeOK
<1>1. drv.at # "done" /\ drv.at \notin Settling
  BY <1>0 DEF Evaluating, Settling
<1>2. PageKept
  BY <1>0 DEF PageKept
<1>3. ASSUME NEW o \in {"failed", "error"}, NEW b \in BOOLEAN, drv' = [Ends(o) EXCEPT !.missed = b], UNCHANGED sent
      PROVE  ActInv'
  <2>1. Moves(drv, drv', "done") /\ drv'.outcome = o
    BY <1>0, <1>3, EndsType, MissedMoves
  <2> QED BY <1>0, <1>1, <1>2, <1>3, <2>1, RefusedStep
<1>4. CASE drv.at = "blur" /\ drv' = Ends("executed") /\ sent' = [sent EXCEPT !.effects = 1]
  <2>1. Moves(drv, drv', "done") /\ drv'.outcome = "executed"
    BY <1>0, <1>4, EndsType
  <2>2. sent' \in SentType /\ sent'.effects = 1 /\ sent'.astray = sent.astray /\ sent'.leaked = sent.leaked
    BY <1>0, <1>4 DEF ActTypeOK, SentType
  <2>3. ActTypeOK' /\ FieldKept'
    BY <1>0, <1>2, <2>1, <2>2 DEF ActInv, ActTypeOK, FieldKept, Moves
  <2>4. EffectOnce' /\ AimKept' /\ RoutesKept'
    BY <1>0, <2>1, <2>2 DEF ActInv, EffectOnce, AimKept, RoutesKept, Moves, Settling
  <2>5. scene.op = "blur"
    BY <1>4 DEF ActInv, RoutesKept
  <2>6. SettleKept' /\ ~sent'.leaked
    BY <1>0, <2>1, <2>2, <2>5 DEF ActInv, SettleKept, Moves
  <2> QED BY <2>3, <2>4, <2>6 DEF ActInv
<1>5. (At("measure") /\ drv.drawn) \in BOOLEAN /\ (IF page.dialog /\ DialogWatched THEN "failed" ELSE "error") \in {"failed", "error"}
  BY DEF At
<1>6. CASE /\ drv' = [Ends(IF page.dialog /\ DialogWatched THEN "failed" ELSE "error") EXCEPT !.missed = At("measure") /\ drv.drawn]
           /\ UNCHANGED sent
  BY <1>3, <1>5, <1>6, Zenon
<1> QED BY <1>4, <1>6 DEF Unanswered, At

LEMMA RouteAroundStep == ActInv /\ RouteAround => ActInv'
<1> SUFFICES ASSUME ActInv, RouteAround PROVE ActInv'
  OBVIOUS
<1>0. drv.at = "cover" /\ ~drv.keyboard /\ drv.field = "target" /\ scene.op \in {"click", "enter", "fill", "select"}
  BY DEF RouteAround, At, ActInv, RoutesKept
<1>1. CASE Returns("covered")
  BY <1>0, <1>1, ReturnsStep DEF Settling
<1>2. ASSUME NEW a \in {"uncover", "guard"}, a = "uncover" => Op({"click", "fill"}), Go(a), UNCHANGED <<scene, page, sent>> PROVE ActInv'
  <2>1. a \in Places
    BY DEF Places, Evaluating
  <2> QED BY <1>0, <1>2, <2>1, GoesToStep DEF Settling, Aimed, Op
<1> QED BY <1>1, <1>2 DEF RouteAround, Go

LEMMA UncoverStep == ActInv /\ Uncover => ActInv'
<1> SUFFICES ASSUME ActInv, Uncover PROVE ActInv'
  OBVIOUS
<1>0. drv.at = "uncover" /\ drv \in DrvType /\ page \in PageType /\ ActTypeOK /\ ~drv.keyboard
      /\ scene.op \in {"click", "fill"}
  BY DEF Uncover, At, ActInv, ActTypeOK, RoutesKept
<1>1. CASE Returns("stale")
  BY <1>0, <1>1, ReturnsStep DEF Settling
<1>2. ASSUME NEW c \in Covers, NEW p \in Reactions([page EXCEPT !.front = TRUE, !.cover = c]), page' = p,
             UNCHANGED <<scene, sent>>,
             \/ drv' = [drv EXCEPT !.at = "done", !.outcome = "stale", !.changed = p.dialog]
             \/ \E a \in {"move", "recover"}, v \in Points \cup {"gone", "covered"} :
                  drv' = [drv EXCEPT !.at = a, !.point = v, !.drawn = FALSE]
      PROVE  ActInv'
  <2> DEFINE was == [page EXCEPT !.front = TRUE, !.cover = c]
  <2>1. \A b \in BOOLEAN : LET w == [page EXCEPT !.front = b, !.cover = c] IN w \in PageType /\ w.focus = page.focus
    BY <1>0 DEF PageType
  <2>2. was \in PageType /\ was.focus = page.focus
    BY <2>1
  <2>3. Same(was, page')
    BY <1>2, <2>2, ReactionsKeep
  <2>4. PageKept /\ page'.dialog \in BOOLEAN
    BY <2>2, <2>3 DEF Same, PageKept, PageType
  <2>5. CASE drv' = [drv EXCEPT !.at = "done", !.outcome = "stale", !.changed = p.dialog]
    <3>1. drv' = Ended(drv, "stale", page'.dialog)
      BY <1>2, <2>5 DEF Ended
    <3>2. Moves(drv, drv', "done") /\ drv'.outcome = "stale"
      BY <1>0, <2>4, <3>1, EndsMoves
    <3> QED BY <1>0, <1>2, <2>4, <3>2, RefusedStep DEF Settling
  <2>6. ASSUME NEW a \in {"move", "recover"}, NEW v \in Points \cup {"gone", "covered"},
               drv' = [drv EXCEPT !.at = a, !.point = v, !.drawn = FALSE]
        PROVE  ActInv'
    <3>1. a \in Places
      BY DEF Places, Evaluating
    <3>2. \A b \in BOOLEAN : Moves(drv, [drv EXCEPT !.at = a, !.point = v, !.drawn = b], a)
      BY <1>0, <3>1 DEF Moves, DrvType
    <3>3. Moves(drv, drv', a)
      BY <2>6, <3>2
    <3>4. RoutesKept'
      BY <1>0, <1>2, <3>3 DEF RoutesKept, Moves, ActInv
    <3> QED BY <1>0, <1>2, <2>4, <3>1, <3>3, <3>4, QuietStep DEF Settling, Aimed
  <2> QED BY <1>2, <2>5, <2>6
<1>3. CASE ~Returns("stale")
  <2>1. PICK clear \in BOOLEAN, settled \in BOOLEAN :
          LET was == [page EXCEPT !.front = TRUE, !.cover = IF clear THEN "none" ELSE @]
              point == IF was.pos = "gone" THEN "gone" ELSE IF clear THEN was.pos ELSE "covered"
          IN \E p \in Reactions(was) :
               /\ page' = p
               /\ drv' = IF point = "gone" \/ ~settled THEN [drv EXCEPT !.at = "done", !.outcome = "stale", !.changed = p.dialog]
                         ELSE [drv EXCEPT !.at = IF clear THEN "move" ELSE "recover", !.point = IF clear THEN point ELSE @,
                                 !.drawn = FALSE]
               /\ UNCHANGED <<scene, sent>>
    BY <1>3 DEF Uncover
  <2> DEFINE c == IF clear THEN "none" ELSE page.cover
             was == [page EXCEPT !.front = TRUE, !.cover = c]
  <2>2. c \in Covers /\ drv.point \in Points \cup {"gone", "covered"}
    BY <1>0 DEF PageType, Covers, DrvType
  <2>3. \A b \in BOOLEAN : LET w == [page EXCEPT !.front = b, !.cover = c] IN w.pos \in Points \cup {"gone"}
    BY <1>0 DEF PageType
  <2>4. was.pos \in Points \cup {"gone"}
    BY <2>3
  <2> QED BY <1>2, <2>1, <2>2, <2>4
<1> QED BY <1>1, <1>3

LEMMA CoverAgainStep == ActInv /\ CoverAgain => ActInv'
<1> SUFFICES ASSUME ActInv, CoverAgain PROVE ActInv'
  OBVIOUS
<1>0. drv.at = "recover" /\ ~drv.keyboard /\ drv.field = "target" /\ scene.op \in {"click", "fill"}
  BY DEF CoverAgain, At, ActInv, RoutesKept
<1>1. CASE Returns("covered")
  BY <1>0, <1>1, ReturnsStep DEF Settling
<1>2. CASE Go("guard") /\ UNCHANGED <<scene, page, sent>>
  <2>1. "guard" \in Places
    BY DEF Places, Evaluating
  <2> QED BY <1>0, <1>2, <2>1, GoesToStep DEF Settling, Aimed
<1> QED BY <1>1, <1>2 DEF CoverAgain

LEMMA GuardHoldsStep == ActInv /\ GuardHolds => ActInv'
<1> SUFFICES ASSUME ActInv, GuardHolds PROVE ActInv'
  OBVIOUS
<1>0. drv.at = "guard" /\ drv \in DrvType /\ page \in PageType /\ ActTypeOK /\ scene.op \in {"click", "enter", "fill", "select"}
      /\ drv.field = "target"
  BY DEF GuardHolds, At, ActInv, ActTypeOK, RoutesKept
<1>1. CASE Returns("stale")
  BY <1>0, <1>1, ReturnsStep DEF Settling
<1>2. ASSUME NEW a \in {"key", "native", "select", "focus"}, UNCHANGED <<scene, page, sent>>,
             a = "key" => scene.op = "click", a = "native" => scene.op = "fill", a = "focus" => scene.op = "enter",
             drv' = [Looked(drv) EXCEPT !.keyboard = TRUE, !.at = a]
      PROVE  ActInv'
  <2>p. a \in Places
    BY DEF Places, Evaluating
  <2>1. Looked(drv) \in DrvType /\ Looked(drv).field = drv.field
    BY <1>0 DEF Looked, DrvType
  <2>2. ASSUME NEW d \in DrvType, NEW b \in BOOLEAN
        PROVE  LET x == [d EXCEPT !.keyboard = b, !.at = a] IN x \in DrvType /\ x.at = a /\ x.field = d.field
    <3>1. [d EXCEPT !.keyboard = b, !.at = a] \in DrvType
      BY <2>p DEF DrvType
    <3> QED BY <3>1 DEF DrvType
  <2>3. drv' \in DrvType /\ drv'.at = a /\ drv'.field = drv.field
    BY <1>2, <2>1, <2>2
  <2>4. ActTypeOK' /\ FieldKept'
    BY <1>0, <1>2, <2>3 DEF ActTypeOK, ActInv, FieldKept
  <2>5. RoutesKept'
    BY <1>0, <1>2, <2>3 DEF RoutesKept
  <2>6. EffectOnce'
    BY <1>0, <1>2, <2>3 DEF ActInv, EffectOnce, Settling
  <2>7. AimKept' /\ SettleKept' /\ ~sent'.leaked
    BY <1>0, <1>2, <2>3 DEF ActInv, AimKept, SettleKept
  <2> QED BY <2>4, <2>5, <2>6, <2>7 DEF ActInv
<1> DEFINE A == CASE Op({"click"}) -> "key" [] Op({"fill"}) -> "native" [] Op({"select"}) -> "select" [] OTHER -> "focus"
<1>3. PICK a \in {"key", "native", "select", "focus"} :
        /\ a = A
        /\ a = "key" => scene.op = "click"
        /\ a = "native" => scene.op = "fill"
        /\ a = "focus" => scene.op = "enter"
  <2>1. CASE scene.op = "click"
    BY <2>1 DEF Op
  <2>2. CASE scene.op = "fill"
    BY <2>2 DEF Op
  <2>3. CASE scene.op = "select"
    BY <2>3 DEF Op
  <2>4. CASE scene.op = "enter"
    BY <2>4 DEF Op
  <2> QED BY <1>0, <2>1, <2>2, <2>3, <2>4
<1>4. CASE drv' = [Looked(drv) EXCEPT !.keyboard = TRUE, !.at = A] /\ UNCHANGED <<scene, page, sent>>
  <2> HIDE DEF A
  <2> QED BY <1>2, <1>3, <1>4
<1> QED BY <1>1, <1>4 DEF GuardHolds

LEMMA ActivationKeyStep == ActInv /\ ActivationKey => ActInv'
<1> SUFFICES ASSUME ActInv, ActivationKey PROVE ActInv'
  OBVIOUS
<1>0. drv.at = "key" /\ scene.op = "click" /\ drv.field = "target"
  BY DEF ActivationKey, At, ActInv, RoutesKept
<1>1. CASE Returns("covered")
  BY <1>0, <1>1, ReturnsStep DEF Settling
<1>2. CASE Go("focus") /\ UNCHANGED <<scene, page, sent>>
  <2>1. "focus" \in Places
    BY DEF Places, Evaluating
  <2> QED BY <1>0, <1>2, <2>1, GoesToStep DEF Settling, Aimed
<1> QED BY <1>1, <1>2 DEF ActivationKey

----------------------------------------------------------------------------
(* The steps: focus and keys.                                              *)

\* The field has the focus when its focusing is judged a success.
LEMMA FocusStep == ActInv /\ Focus => ActInv'
<1> SUFFICES ASSUME ActInv, Focus PROVE ActInv'
  OBVIOUS
<1>0. drv.at = "focus" /\ drv \in DrvType /\ page \in PageType /\ ActTypeOK /\ scene.op \in {"click", "enter", "fill"} /\ UNCHANGED <<scene, sent>>
  BY DEF Focus, At, ActInv, ActTypeOK, RoutesKept
<1> DEFINE fronts == ~page.front /\ (Op({"click", "enter"}) \/ drv.keyboard \/ drv.attempt > 0 \/ drv.activate)
           gone == page.doc # 0 \/ (~page.front /\ ~fronts)
<1>1. PICK p \in (IF gone THEN {page} ELSE FocusScript(fronts)) :
        /\ page' = p
        /\ IF ~gone /\ p.focus = drv.field
           THEN drv' = Focused([drv EXCEPT !.at = "reach"])
           ELSE drv' = [drv EXCEPT !.at = "done", !.outcome = IF Op({"click"}) THEN "covered" ELSE "failed", !.changed = p.dialog]
  BY DEF Focus
<1>2. /\ page' \in PageType /\ page'.doc = page.doc
      /\ page'.focus = page.focus \/ page'.focus = drv.field \/ page'.focus \in {"other", "editor"}
  <2>1. CASE gone
    BY <1>0, <1>1, <2>1
  <2>2. CASE ~gone
    <3>1. ASSUME NEW b \in BOOLEAN PROVE [page EXCEPT !.front = b, !.focus = drv.field] \in PageType
      BY <1>0 DEF PageType, DrvType
    <3>2. ASSUME NEW b \in BOOLEAN
          PROVE  [page EXCEPT !.front = b, !.focus = drv.field].doc = page.doc /\ [page EXCEPT !.front = b, !.focus = drv.field].focus = drv.field
      BY <1>0 DEF PageType
    <3>3. (page.front \/ fronts) \in BOOLEAN
      OBVIOUS
    <3>4. PICK b \in BOOLEAN : page' \in Reactions([page EXCEPT !.front = b, !.focus = drv.field])
      BY <1>1, <2>2, <3>3, Zenon DEF FocusScript
    <3>5. Same([page EXCEPT !.front = b, !.focus = drv.field], page')
      BY <3>1, <3>4, ReactionsKeep
    <3> QED BY <3>2, <3>5 DEF Same
  <2> QED BY <2>1, <2>2
<1>3. page'.focus = "target" => drv.field = "target"
  BY <1>2 DEF ActInv, FieldKept
<1>4. CASE ~gone /\ page'.focus = drv.field
  <2>p. "reach" \in Places
    BY DEF Places, Evaluating
  <2>1. drv' = Focused([drv EXCEPT !.at = "reach"])
    BY <1>1, <1>4
  <2>2. Moves(drv, [drv EXCEPT !.at = "reach"], "reach")
    BY <1>0, <2>p DEF Moves, DrvType
  <2>3. \A d \in DrvType : Moves(d, Focused(d), d.at)
    BY DEF Moves, DrvType, Focused
  <2>4. Moves(drv, drv', "reach")
    BY <2>1, <2>2, <2>3 DEF Moves
  <2>5. page'.doc = 0
    BY <1>2, <1>4
  <2>6. ActTypeOK' /\ FieldKept'
    BY <1>0, <1>2, <1>3, <2>4 DEF ActInv, ActTypeOK, FieldKept, Moves
  <2>7. RoutesKept'
    BY <1>0, <2>4 DEF RoutesKept, Moves
  <2>8. EffectOnce' /\ SettleKept' /\ ~sent'.leaked
    BY <1>0, <2>4 DEF ActInv, EffectOnce, SettleKept, Settling, Moves
  <2>9. AimKept'
    BY <1>0, <1>4, <2>4, <2>5 DEF ActInv, AimKept, Moves
  <2> QED BY <2>6, <2>7, <2>8, <2>9 DEF ActInv
<1>5. CASE ~(~gone /\ page'.focus = drv.field)
  <2>1. PICK o \in {"covered", "failed"} : drv' = Ended(drv, o, page'.dialog)
    BY <1>1, <1>5 DEF Ended
  <2>2. Moves(drv, drv', "done") /\ drv'.outcome = o
    BY <1>0, <1>2, <2>1, EndsMoves DEF PageType
  <2>3. ActTypeOK' /\ FieldKept'
    BY <1>0, <1>2, <1>3, <2>2 DEF ActInv, ActTypeOK, FieldKept, Moves
  <2>4. EffectOnce' /\ SettleKept' /\ ~sent'.leaked
    BY <1>0, <2>2 DEF ActInv, EffectOnce, SettleKept, Settling, Moves
  <2>5. AimKept' /\ RoutesKept'
    BY <1>0, <2>2 DEF ActInv, AimKept, RoutesKept, Moves
  <2> QED BY <2>3, <2>4, <2>5 DEF ActInv
<1> QED BY <1>4, <1>5

\* What the driver last looked at before a key or an insertion.
LEMMA KeysReachStep == ActInv /\ KeysReach => ActInv'
<1> SUFFICES ASSUME ActInv, KeysReach PROVE ActInv'
  OBVIOUS
<1>0. drv.at = "reach" /\ drv \in DrvType /\ page \in PageType /\ ActTypeOK /\ scene.op \in {"click", "enter", "fill"}
  BY DEF KeysReach, At, ActInv, ActTypeOK, RoutesKept
<1>1. CASE Returns("stale") \/ Returns("covered")
  BY <1>0, <1>1, ReturnsStep DEF Settling
<1>2. CASE /\ ~(drv.keyboard /\ ~Guard) /\ Cover \notin {"obstruction", "other"}
           /\ drv' = [Looked(drv) EXCEPT !.at = IF Op({"fill"}) THEN "insert" ELSE "send"]
           /\ UNCHANGED <<scene, page, sent>>
  <2> DEFINE a == IF Op({"fill"}) THEN "insert" ELSE "send"
  <2>0. drv' = [Looked(drv) EXCEPT !.at = a]
    BY <1>2
  <2>1. a \in {"insert", "send"} /\ (a = "insert" <=> scene.op = "fill")
    BY DEF Op
  <2> HIDE DEF a
  <2>p. a \in Places
    BY <2>1 DEF Places, Evaluating
  <2>4. Moves(drv, drv', a) /\ drv'.late = drv.late \ {"control"}
    <3> DEFINE y == Looked(drv)
    <3>0. drv' = [y EXCEPT !.at = a]
      BY <2>0
    <3>1. y \in DrvType /\ Moves(drv, y, drv.at) /\ y.late = drv.late \ {"control"}
      BY <1>0 DEF Looked, DrvType, Moves
    <3> HIDE DEF y
    <3>2. Moves(y, drv', a) /\ drv'.late = y.late
      BY <2>p, <3>0, <3>1 DEF Moves, DrvType
    <3> QED BY <3>1, <3>2 DEF Moves
  <2>5. ActTypeOK' /\ FieldKept'
    BY <1>0, <1>2, <2>4 DEF ActInv, ActTypeOK, FieldKept, Moves
  <2>6. RoutesKept'
    BY <1>0, <1>2, <2>1, <2>4 DEF RoutesKept, Moves, ActInv, FieldKept
  <2>7. EffectOnce' /\ SettleKept' /\ ~sent'.leaked
    BY <1>0, <1>2, <2>1, <2>4 DEF ActInv, EffectOnce, SettleKept, Settling, Moves
  <2>8. drv'.late # {} \/ Reaches'
    <3>1. CASE "focus" \in drv.late
      BY <2>4, <3>1
    <3>2. CASE page.doc = 0 /\ page.focus = drv.field
      <4>1. page.cover \in {"none", "band"} /\ (drv.keyboard => page.same)
        BY <1>0, <1>2, <3>2 DEF Cover, Guard, PageType, Covers
      <4> QED BY <1>2, <2>4, <3>2, <4>1 DEF Reaches, Moves
    <3> QED BY <1>0, <3>1, <3>2 DEF ActInv, AimKept
  <2>9. AimKept'
    BY <1>0, <1>2, <2>1, <2>4, <2>8 DEF ActInv, AimKept, Moves
  <2> QED BY <2>5, <2>6, <2>7, <2>9 DEF ActInv
<1> QED BY <1>1, <1>2 DEF KeysReach

\* A key goes to the control the driver looked at.
LEMMA PressKeyStep == ActInv /\ PressKey => ActInv'
<1> SUFFICES ASSUME ActInv, PressKey PROVE ActInv'
  OBVIOUS
<1>0. drv.at = "send" /\ drv \in DrvType /\ page \in PageType /\ ActTypeOK /\ scene.op \in {"click", "enter", "escape"}
      /\ sent \in SentType /\ UNCHANGED scene
  BY DEF PressKey, At, ActInv, ActTypeOK, RoutesKept
<1>p. "after" \in Places
  BY DEF Places
<1>1. \E a \in {"after", "done"} : Moves(drv, drv', a) /\ (a = "done" => drv'.outcome \in {"failed", "error"})
  BY <1>0, <1>p, InputMoves DEF PressKey
<1>2. PageKept
  BY <1>0, InputReactionsKeep, SameKept DEF PressKey
<1> DEFINE reaches == page.focus = "target" /\ Cover \in {"none", "band"} /\ (drv.keyboard => Guard)
           stray == IF Op({"escape"}) THEN sent.astray ELSE Astray("key", reaches, {"focus", "control"})
<1>3. stray = {}
  <2>1. CASE scene.op = "escape"
    BY <2>1 DEF Op, ActInv, AimKept
  <2>2. CASE scene.op # "escape" /\ drv.late # {}
    <3>1. drv.late \cap {"focus", "control"} # {}
      BY <1>0, <2>2 DEF DrvType
    <3> QED BY <2>2, <3>1 DEF Op, Astray, ActInv, AimKept
  <2>3. CASE scene.op # "escape" /\ drv.late = {}
    <3>1. Reaches /\ drv.field = "target"
      BY <1>0, <2>3 DEF ActInv, AimKept, FieldKept
    <3>2. reaches
      BY <3>1 DEF Reaches, Cover, Guard
    <3> HIDE DEF reaches
    <3> QED BY <2>3, <3>2 DEF Op, Astray, ActInv, AimKept
  <2> QED BY <2>1, <2>2, <2>3
<1>4. sent' = [sent EXCEPT !.effects = @ + 1, !.astray = stray]
  BY DEF PressKey
<1> HIDE DEF stray
<1>5. sent.effects = 0
  BY <1>0 DEF ActInv, EffectOnce, Settling
<1>6. sent' \in SentType /\ sent'.effects = 1 /\ sent'.astray = {} /\ sent'.leaked = sent.leaked
  <2>1. sent' = [sent EXCEPT !.effects = 1, !.astray = {}]
    BY <1>3, <1>4, <1>5
  <2> QED BY <1>0, <2>1 DEF SentType
<1> QED BY <1>0, <1>1, <1>2, <1>6, EffectStep DEF Settling, ActInv

----------------------------------------------------------------------------
(* The steps: the pointer.                                                 *)

LEMMA MoveToStep == ActInv /\ MoveTo => ActInv'
<1> SUFFICES ASSUME ActInv, MoveTo PROVE ActInv'
  OBVIOUS
<1>0. drv.at = "move" /\ drv \in DrvType /\ page \in PageType /\ ActTypeOK /\ ~drv.keyboard /\ sent \in SentType /\ UNCHANGED scene
  BY DEF MoveTo, At, ActInv, ActTypeOK, RoutesKept
<1>p. "after" \in Places /\ "check" \in Places
  BY DEF Places, Evaluating
<1>1. PageKept
  BY <1>0, ReactionsKeep, SameKept DEF MoveTo
<1>2. CASE scene.op = "hover"
  <2>1. \E a \in {"after", "done"} : Moves(drv, drv', a) /\ (a = "done" => drv'.outcome \in {"failed", "error"})
    BY <1>0, <1>2, <1>p, InputMoves DEF MoveTo, Op
  <2>2. sent' = [sent EXCEPT !.effects = 1]
    BY <1>2 DEF MoveTo, Op
  <2>3. sent' \in SentType /\ sent'.effects = 1 /\ sent'.astray = {} /\ ~sent'.leaked
    BY <1>0, <2>2 DEF SentType, ActInv, AimKept
  <2> QED BY <1>0, <1>1, <2>1, <2>3, EffectStep DEF Settling
<1>3. CASE scene.op # "hover"
  <2>1. sent' = sent /\ Input("check")
    BY <1>3 DEF MoveTo, Op
  <2>2. CASE Moves(drv, drv', "check")
    <3>1. RoutesKept'
      BY <1>0, <1>3, <2>2 DEF RoutesKept, Moves, ActInv
    <3> QED BY <1>0, <1>1, <1>p, <2>1, <2>2, <3>1, QuietStep DEF Settling, Aimed
  <2>3. CASE Moves(drv, drv', "done") /\ drv'.outcome = "error"
    BY <1>0, <1>1, <2>1, <2>3, RefusedStep
  <2> QED BY <1>0, <1>p, <2>1, <2>2, <2>3, InputMoves
<1> QED BY <1>2, <1>3

\* The control is under the point when the press is decided on.
LEMMA StablePointStep == ActInv /\ StablePoint => ActInv'
<1> SUFFICES ASSUME ActInv, StablePoint PROVE ActInv'
  OBVIOUS
<1>0. drv.at = "check" /\ drv \in DrvType /\ page \in PageType /\ ActTypeOK /\ ~drv.keyboard
  BY DEF StablePoint, At, ActInv, ActTypeOK, RoutesKept
<1>1. CASE Returns("stale") \/ Returns("covered")
  BY <1>0, <1>1, ReturnsStep DEF Settling
<1>2. CASE /\ HitTest \notin {"gone", "covered"} /\ UNCHANGED <<scene, page, sent>>
           /\ drv' = [Looked(drv) EXCEPT !.point = HitTest, !.drawn = FALSE,
                       !.at = IF HitTest # drv.point THEN "move" ELSE IF Op({"drag"}) THEN "redrop" ELSE "press"]
  <2> DEFINE y == Looked(drv)
             v == HitTest
             place == IF v # drv.point THEN "move" ELSE IF Op({"drag"}) THEN "redrop" ELSE "press"
  <2>1. y \in DrvType /\ Moves(drv, y, drv.at)
    BY <1>0 DEF Looked, DrvType, Moves
  <2>2. v \in Points /\ place \in Places /\ place \in {"move", "redrop", "press"}
    BY <1>0, <1>2 DEF HitTest, PageType, Places, Evaluating
  <2>3. drv' = [y EXCEPT !.point = v, !.drawn = FALSE, !.at = place]
    BY <1>2
  <2> HIDE DEF y, v, place
  <2>4. ASSUME NEW b \in BOOLEAN
        PROVE  LET x == [y EXCEPT !.point = v, !.drawn = b, !.at = place] IN Moves(y, x, place) /\ x.point = v
    <3>1. [y EXCEPT !.point = v, !.drawn = b, !.at = place] \in DrvType
      BY <2>1, <2>2 DEF DrvType
    <3> QED BY <2>1, <3>1 DEF DrvType, Moves
  <2>5. Moves(y, drv', place) /\ drv'.point = v
    BY <2>3, <2>4
  <2>6. Moves(drv, drv', place) /\ drv'.point = HitTest
    BY <2>1, <2>5 DEF Moves, v
  <2>7. ActTypeOK' /\ FieldKept'
    BY <1>0, <1>2, <2>6 DEF ActInv, ActTypeOK, FieldKept, Moves
  <2>8. RoutesKept'
    <3>1. place = "press" => scene.op \in {"click", "fill"}
      BY <1>0 DEF place, Op, ActInv, RoutesKept
    <3> QED BY <1>0, <1>2, <2>2, <2>6, <3>1 DEF RoutesKept, Moves, ActInv
  <2>9. EffectOnce' /\ SettleKept' /\ ~sent'.leaked
    BY <1>0, <1>2, <2>2, <2>6 DEF ActInv, EffectOnce, SettleKept, Settling, Moves
  <2>10. HitTest' = HitTest
    BY <1>2 DEF HitTest, Guard
  <2>11. AimKept'
    BY <1>2, <2>2, <2>6, <2>10 DEF ActInv, AimKept, Moves
  <2> QED BY <2>7, <2>8, <2>9, <2>11 DEF ActInv
<1> QED BY <1>1, <1>2 DEF StablePoint

\* A press goes to the control at the point.
LEMMA PressStrays ==
  ASSUME ActInv, drv.at \in {"press", "lift"}
  PROVE  Astray("press", HitTest = drv.point, {"control"}) = {}
<1>1. CASE "control" \in drv.late
  BY <1>1 DEF Astray, ActInv, AimKept
<1>2. CASE HitTest = drv.point
  BY <1>2 DEF Astray, ActInv, AimKept
<1> QED BY <1>1, <1>2 DEF ActInv, AimKept

LEMMA ClickPointStep == ActInv /\ ClickPoint => ActInv'
<1> SUFFICES ASSUME ActInv, ClickPoint PROVE ActInv'
  OBVIOUS
<1>0. drv.at = "press" /\ drv \in DrvType /\ page \in PageType /\ ActTypeOK /\ ~drv.keyboard /\ sent \in SentType /\ UNCHANGED scene
  BY DEF ClickPoint, At, ActInv, ActTypeOK, RoutesKept
<1>p. "after" \in Places /\ "handed" \in Places
  BY DEF Places, Evaluating
<1>1. sent.effects = 0 /\ sent.astray = {} /\ ~sent.leaked
  BY <1>0 DEF ActInv, EffectOnce, Settling, AimKept
<1>2. sent' = [sent EXCEPT !.effects = IF Op({"click"}) THEN @ + 1 ELSE @, !.touched = TRUE,
                 !.astray = Astray("press", HitTest = drv.point, {"control"})]
  BY DEF ClickPoint
<1>3. PICK n \in Nat : /\ n = (IF Op({"click"}) THEN 1 ELSE 0)
                       /\ sent' = [sent EXCEPT !.effects = n, !.touched = TRUE, !.astray = {}]
  <2>1. Astray("press", HitTest = drv.point, {"control"}) = {}
    BY <1>0, PressStrays
  <2>2. (IF Op({"click"}) THEN sent.effects + 1 ELSE sent.effects) = (IF Op({"click"}) THEN 1 ELSE 0)
    BY <1>1
  <2> QED BY <1>2, <2>1, <2>2
<1>4. ASSUME NEW b \in BOOLEAN
      PROVE  LET x == [sent EXCEPT !.effects = n, !.touched = b, !.astray = {}] IN
             x \in SentType /\ x.effects = n /\ x.astray = {} /\ x.leaked = sent.leaked
  BY <1>0 DEF SentType
<1>5. sent' \in SentType /\ sent'.effects = n /\ sent'.astray = {} /\ sent'.leaked = sent.leaked
  BY <1>3, <1>4
<1>6. CASE scene.op # "fill"
  <2>1. Input("after") /\ page' \in InputReactions(page)
    BY <1>6 DEF ClickPoint, Op
  <2>2. PageKept
    BY <1>0, <2>1, InputReactionsKeep, SameKept
  <2>3. scene.op \in {"click"}
    BY <1>0, <1>6 DEF ActInv, RoutesKept
  <2>4. \E a \in {"after", "done"} : Moves(drv, drv', a) /\ (a = "done" => drv'.outcome \in {"failed", "error"})
    BY <1>0, <1>p, <2>1, InputMoves
  <2>5. sent'.effects = 1
    BY <1>3, <1>5, <2>3 DEF Op
  <2> QED BY <1>0, <1>1, <1>5, <2>2, <2>4, <2>5, EffectStep DEF Settling
<1>7. CASE scene.op = "fill"
  <2> DEFINE f == IF page.doc = 0 THEN "target" ELSE page.focus
             was == [page EXCEPT !.focus = f]
  <2>1. Input("handed") /\ page' \in InputReactions(was)
    BY <1>7 DEF ClickPoint, Op
  <2>2. f \in {"none", "target", "editor", "other"}
    BY <1>0 DEF PageType
  <2>3. was \in PageType
    BY <1>0, <2>2 DEF PageType
  <2>4. Same(was, page')
    BY <2>1, <2>3, InputReactionsKeep
  <2>5. page' \in PageType
    BY <2>4 DEF Same
  <2>6. n = 0 /\ drv.field = "target"
    BY <1>0, <1>3, <1>7 DEF Op, ActInv, RoutesKept
  <2>7. CASE Moves(drv, drv', "handed")
    <3>1. ActTypeOK' /\ FieldKept'
      BY <1>0, <1>5, <2>5, <2>6, <2>7 DEF ActTypeOK, FieldKept, Moves
    <3>2. RoutesKept'
      BY <1>0, <1>7, <2>6, <2>7 DEF RoutesKept, Moves
    <3>3. EffectOnce' /\ SettleKept' /\ AimKept'
      BY <1>5, <2>6, <2>7 DEF EffectOnce, SettleKept, AimKept, Settling, Moves
    <3> QED BY <1>1, <1>5, <3>1, <3>2, <3>3 DEF ActInv
  <2>8. CASE Moves(drv, drv', "done") /\ drv'.outcome = "error"
    <3>1. ActTypeOK' /\ FieldKept'
      BY <1>0, <1>5, <2>5, <2>6, <2>8 DEF ActTypeOK, FieldKept, Moves
    <3>2. RoutesKept'
      BY <2>8 DEF RoutesKept, Moves
    <3>3. EffectOnce' /\ SettleKept' /\ AimKept'
      BY <1>5, <2>6, <2>8 DEF EffectOnce, SettleKept, AimKept, Settling, Moves
    <3> QED BY <1>1, <1>5, <3>1, <3>2, <3>3 DEF ActInv
  <2> QED BY <1>0, <1>p, <2>1, <2>7, <2>8, InputMoves
<1> QED BY <1>6, <1>7

----------------------------------------------------------------------------
(* The steps: a fill.                                                      *)

\* The one effect of an action is counted.
LEMMA EffectSent ==
  ASSUME ActInv, drv.at \notin Settling \cup {"landed", "done"},
         sent' = [sent EXCEPT !.effects = @ + 1] \/ sent' = [sent EXCEPT !.effects = 1]
  PROVE  sent' \in SentType /\ sent'.effects = 1 /\ sent'.astray = {} /\ ~sent'.leaked
<1>1. sent \in SentType /\ sent.effects = 0 /\ sent.astray = {} /\ ~sent.leaked
  BY DEF ActInv, ActTypeOK, EffectOnce, AimKept
<1>2. sent' = [sent EXCEPT !.effects = 1]
  BY <1>1
<1> QED BY <1>1, <1>2 DEF SentType

\* The field is the control, or the editor that has the focus: never a secret's.
LEMMA HandedFocusStep == ActInv /\ HandedFocus => ActInv'
<1> SUFFICES ASSUME ActInv, HandedFocus PROVE ActInv'
  OBVIOUS
<1>0. drv.at = "handed" /\ drv \in DrvType /\ page \in PageType /\ ActTypeOK /\ ~drv.keyboard /\ scene.op = "fill"
      /\ drv.field = "target"
  BY DEF HandedFocus, At, ActInv, ActTypeOK, RoutesKept
<1> DEFINE handed == IF page.doc # 0 THEN "none" ELSE IF page.focus = "editor" /\ ~scene.secret THEN "editor" ELSE "target"
<1>p. {"native", "focus", "insert"} \subseteq Places
  BY DEF Places, Evaluating
<1>1. CASE Returns("failed")
  BY <1>0, <1>1, ReturnsStep DEF Settling
<1>2. CASE drv' = [drv EXCEPT !.at = "native"] /\ UNCHANGED <<scene, page, sent>>
  BY <1>0, <1>p, <1>2, GoesToStep DEF Settling, Aimed, Go
<1>h. handed # "none" => /\ handed \in {"target", "editor"} /\ page.doc = 0
                         /\ handed = "editor" => page.focus = "editor" /\ ~scene.secret
  BY <1>0
<1>3. CASE handed # "none" /\ drv' = [drv EXCEPT !.at = "focus", !.field = handed, !.activate = TRUE] /\ UNCHANGED <<scene, page, sent>>
  <2> HIDE DEF handed
  <2>1. ASSUME NEW b \in BOOLEAN, NEW h \in {"target", "editor"}
        PROVE  LET x == [drv EXCEPT !.at = "focus", !.field = h, !.activate = b] IN
               x \in DrvType /\ x.at = "focus" /\ x.field = h /\ x.keyboard = drv.keyboard
    <3>1. [drv EXCEPT !.at = "focus", !.field = h, !.activate = b] \in DrvType
      BY <1>0, <1>p DEF DrvType
    <3> QED BY <1>0, <3>1 DEF DrvType
  <2>2. drv' \in DrvType /\ drv'.at = "focus" /\ drv'.field = handed /\ ~drv'.keyboard
    BY <1>0, <1>3, <1>h, <2>1
  <2>3. ActTypeOK' /\ FieldKept'
    BY <1>0, <1>3, <1>h, <2>2 DEF ActTypeOK, FieldKept
  <2>4. RoutesKept'
    BY <1>0, <1>3, <2>2 DEF RoutesKept
  <2>5. EffectOnce' /\ SettleKept' /\ ~sent'.leaked
    BY <1>0, <1>3, <2>2 DEF ActInv, EffectOnce, SettleKept, Settling
  <2>6. AimKept'
    BY <1>3, <2>2 DEF ActInv, AimKept
  <2> QED BY <2>3, <2>4, <2>5, <2>6 DEF ActInv
<1>4. ASSUME handed # "none", NEW p \in Reactions([page EXCEPT !.focus = handed]), page' = p, UNCHANGED <<scene, sent>>,
             drv' = IF p.focus # handed THEN [drv EXCEPT !.at = "done", !.outcome = "failed", !.changed = p.dialog]
                    ELSE IF p.cover \in {"obstruction", "other"}
                    THEN [drv EXCEPT !.at = "done", !.outcome = "covered", !.changed = p.dialog]
                    ELSE Looked(Focused([drv EXCEPT !.at = "insert", !.field = handed]))
      PROVE  ActInv'
  <2> HIDE DEF handed
  <2>1. [page EXCEPT !.focus = handed] \in PageType /\ [page EXCEPT !.focus = handed].doc = 0
    BY <1>0, <1>4, <1>h DEF PageType
  <2>2. Same([page EXCEPT !.focus = handed], page')
    BY <1>4, <2>1, ReactionsKeep
  <2>3. PageKept /\ page'.doc = 0 /\ page'.dialog \in BOOLEAN /\ page'.cover \in Covers
    BY <1>0, <2>1, <2>2 DEF Same, PageKept, PageType
  <2>4. ASSUME NEW o \in {"failed", "covered"}, drv' = Ended(drv, o, page'.dialog) PROVE ActInv'
    <3>1. Moves(drv, drv', "done") /\ drv'.outcome = o
      BY <1>0, <2>3, <2>4, EndsMoves
    <3> QED BY <1>0, <1>4, <2>3, <3>1, RefusedStep DEF Settling
  <2>5. CASE p.focus = handed /\ p.cover \notin {"obstruction", "other"}
    <3> DEFINE y == [drv EXCEPT !.at = "insert", !.field = handed]
    <3>1. drv' = Looked(Focused(y))
      BY <1>4, <2>5
    <3>2. y \in DrvType /\ y.at = "insert" /\ y.field = handed /\ y.keyboard = drv.keyboard
      BY <1>0, <1>p, <1>4, <1>h DEF DrvType
    <3> HIDE DEF y
    <3> DEFINE z == Focused(y)
    <3>3. z \in DrvType /\ z.at = "insert" /\ z.field = handed /\ z.keyboard = drv.keyboard /\ z.late = y.late \ {"focus"}
      BY <3>2 DEF Focused, DrvType
    <3>4. drv' = Looked(z)
      BY <3>1
    <3> HIDE DEF z
    <3>5. drv' \in DrvType /\ drv'.at = "insert" /\ drv'.field = handed /\ ~drv'.keyboard
      BY <1>0, <3>3, <3>4 DEF Looked, DrvType
    <3>6. ActTypeOK' /\ FieldKept'
      BY <1>0, <1>4, <1>h, <2>3, <2>5, <3>5 DEF ActInv, ActTypeOK, FieldKept, PageKept
    <3>7. RoutesKept'
      BY <1>0, <1>4, <3>5 DEF RoutesKept
    <3>8. EffectOnce' /\ SettleKept' /\ ~sent'.leaked
      BY <1>0, <1>4, <3>5 DEF ActInv, EffectOnce, SettleKept, Settling
    <3>9. Reaches'
      BY <1>4, <2>3, <2>5, <3>5 DEF Reaches, Covers
    <3>10. AimKept'
      BY <1>4, <3>5, <3>9 DEF ActInv, AimKept
    <3> QED BY <3>6, <3>7, <3>8, <3>10 DEF ActInv
  <2> QED BY <1>4, <2>4, <2>5 DEF Ended
<1> QED BY <1>1, <1>2, <1>3, <1>4 DEF HandedFocus

LEMMA FillNativeDateStep == ActInv /\ FillNativeDate => ActInv'
<1> SUFFICES ASSUME ActInv, FillNativeDate PROVE ActInv'
  OBVIOUS
<1>0. drv.at = "native" /\ drv \in DrvType /\ page \in PageType /\ ActTypeOK /\ scene.op = "fill" /\ drv.field = "target"
  BY DEF FillNativeDate, At, ActInv, ActTypeOK, RoutesKept
<1>p. "focus" \in Places /\ "after" \in Places
  BY DEF Places, Evaluating
<1>1. CASE Returns("stale")
  BY <1>0, <1>1, ReturnsStep DEF Settling
<1>2. CASE Go("focus") /\ UNCHANGED <<scene, page, sent>>
  BY <1>0, <1>p, <1>2, GoesToStep DEF Settling, Aimed
<1>3. ASSUME NEW kept \in BOOLEAN, page' \in InputReactions(page), sent' = [sent EXCEPT !.effects = @ + 1], UNCHANGED scene,
             drv' = IF kept THEN [drv EXCEPT !.at = "after"] ELSE Ends("failed")
      PROVE  ActInv'
  <2>1. PageKept
    BY <1>0, <1>3, InputReactionsKeep, SameKept
  <2>2. sent' \in SentType /\ sent'.effects = 1 /\ sent'.astray = {} /\ ~sent'.leaked
    BY <1>0, <1>3, EffectSent DEF Settling
  <2>3. \E a \in {"after", "done"} : Moves(drv, drv', a) /\ (a = "done" => drv'.outcome \in {"failed", "error"})
    BY <1>0, <1>3, <1>p, GoMoves, EndsType DEF Go
  <2> QED BY <1>0, <1>3, <2>1, <2>2, <2>3, EffectStep DEF Settling
<1> QED BY <1>1, <1>2, <1>3 DEF FillNativeDate

\* Where text that is typed lands: where the focus is, or nowhere.
LEMMA TypedText ==
  ASSUME NEW p \in PageType, NEW keeps \in BOOLEAN
  PROVE  /\ Typed(p, keeps) \in PageType /\ Typed(p, keeps).doc = p.doc /\ Typed(p, keeps).focus = p.focus
         /\ Typed(p, keeps).text \in {"none", p.focus} \cap {"none", "target", "editor"}
         /\ keeps /\ p.focus \in {"target", "editor"} => Typed(p, keeps).text = p.focus
<1> DEFINE t == IF keeps /\ p.focus \in {"target", "editor"} THEN p.focus ELSE "none"
<1>1. t \in {"none", p.focus} \cap {"none", "target", "editor"} /\ (keeps /\ p.focus \in {"target", "editor"} => t = p.focus)
  OBVIOUS
<1>2. Typed(p, keeps) = [p EXCEPT !.text = t]
  BY DEF Typed
<1> HIDE DEF t
<1> QED BY <1>1, <1>2 DEF PageType

\* Text goes to its field, a secret's above all; the effect is counted when the text
\* landed.
LEMMA InsertStep == ActInv /\ Insert => ActInv'
<1> SUFFICES ASSUME ActInv, Insert PROVE ActInv'
  OBVIOUS
<1>0. drv.at = "insert" /\ drv \in DrvType /\ page \in PageType /\ ActTypeOK /\ scene.op = "fill" /\ sent \in SentType
  BY DEF Insert, At, ActInv, ActTypeOK, RoutesKept
<1>1. sent.effects = 0 /\ sent.astray = {} /\ ~sent.leaked /\ drv.field \in {"target", "editor"}
  BY <1>0 DEF ActInv, EffectOnce, Settling, AimKept, DrvType
<1>p. "landed" \in Places
  BY DEF Places, Evaluating
<1>2. CASE scene.secret /\ Returns("failed")
  BY <1>0, <1>2, ReturnsStep DEF Settling
<1>3. CASE /\ scene.secret /\ InsertSecret(page) /\ Go("landed") /\ UNCHANGED scene
           /\ \E p \in Reactions(Typed(page, TRUE)) : page' = p
           /\ sent' = [sent EXCEPT !.effects = @ + 1,
                !.leaked = @ \/ page.doc # 0 \/ scene.origin # "authorized" \/ page.focus # "target"]
  <2>1. drv.field = "target" /\ page.focus = "target" /\ page.doc = 0 /\ scene.origin = "authorized"
    BY <1>3 DEF InsertSecret, ActInv, FieldKept
  <2>2. sent' \in SentType /\ sent'.effects = 1 /\ sent'.astray = {} /\ ~sent'.leaked
    <3> DEFINE l == sent.leaked \/ page.doc # 0 \/ scene.origin # "authorized" \/ page.focus # "target"
    <3>0. l \in BOOLEAN /\ ~l
      BY <1>1, <2>1
    <3>1. sent' = [sent EXCEPT !.effects = 1, !.leaked = l]
      <4>1. sent' = [sent EXCEPT !.effects = sent.effects + 1, !.leaked = l]
        BY <1>3, Zenon
      <4> HIDE DEF l
      <4> QED BY <1>1, <4>1
    <3> HIDE DEF l
    <3>2. \A b \in BOOLEAN : LET x == [sent EXCEPT !.effects = 1, !.leaked = b] IN
                              x \in SentType /\ x.effects = 1 /\ x.astray = sent.astray /\ x.leaked = b
      BY <1>0 DEF SentType
    <3> QED BY <1>1, <3>0, <3>1, <3>2
  <2>3. Same(Typed(page, TRUE), page')
    BY <1>0, <1>3, TypedText, ReactionsKeep
  <2>4. page' \in PageType /\ page'.text = "target"
    BY <1>0, <2>1, <2>3, TypedText DEF Same
  <2>5. Moves(drv, drv', "landed")
    BY <1>0, <1>3, <1>p, GoMoves
  <2>6. ActTypeOK' /\ FieldKept'
    BY <1>0, <1>3, <2>1, <2>2, <2>4, <2>5 DEF ActTypeOK, FieldKept, Moves
  <2>7. RoutesKept'
    BY <1>0, <1>3, <2>1, <2>5 DEF RoutesKept, Moves
  <2>8. EffectOnce' /\ SettleKept' /\ AimKept'
    BY <2>1, <2>2, <2>4, <2>5 DEF EffectOnce, SettleKept, Settling, AimKept, Moves
  <2> QED BY <2>2, <2>6, <2>7, <2>8 DEF ActInv
<1>4. ASSUME ~scene.secret, NEW keeps \in BOOLEAN, NEW p \in InputReactions(Typed(page, keeps)), page' = p, UNCHANGED scene,
             sent' = [sent EXCEPT !.effects = IF Landed(Typed(page, keeps)) THEN @ + 1 ELSE @,
               !.astray = Astray("text", page.doc = 0 /\ page.focus = drv.field /\ Cover \in {"none", "band"}
                                         /\ (drv.keyboard => Guard), {"focus", "control"})],
             IF page.dialog THEN drv' = Ends("failed") ELSE Go("landed")
      PROVE  ActInv'
  <2> DEFINE typed == Typed(page, keeps)
             n == IF Landed(typed) THEN 1 ELSE 0
             reaches == page.doc = 0 /\ page.focus = drv.field /\ Cover \in {"none", "band"} /\ (drv.keyboard => Guard)
             stray == Astray("text", reaches, {"focus", "control"})
  <2>1. stray = {}
    <3>1. CASE drv.late # {}
      <4>1. drv.late \cap {"focus", "control"} # {}
        BY <1>0, <3>1 DEF DrvType
      <4> QED BY <1>1, <4>1 DEF Astray
    <3>2. CASE drv.late = {}
      <4>1. Reaches
        BY <1>0, <3>2 DEF ActInv, AimKept
      <4>2. reaches
        BY <4>1 DEF Reaches, Cover, Guard
      <4> HIDE DEF reaches
      <4> QED BY <1>1, <4>2 DEF Astray
    <3> QED BY <3>1, <3>2
  <2>2. sent' = [sent EXCEPT !.effects = n, !.astray = {}]
    <3>1. sent' = [sent EXCEPT !.effects = n, !.astray = stray]
      BY <1>1, <1>4
    <3> HIDE DEF stray
    <3> QED BY <2>1, <3>1
  <2>3. n \in {0, 1}
    OBVIOUS
  <2>4. typed \in PageType /\ typed.doc = page.doc /\ typed.focus = page.focus /\ typed.text \in {"none", "target", "editor"}
        /\ typed.text \in {"none", page.focus}
    BY <1>0, TypedText
  <2>5. n = 0 => page.doc = 1 \/ typed.text = "none"
    BY <1>0, <2>4 DEF Landed, PageType
  <2>6. n = 1 => typed.text = drv.field \/ (typed.text = "editor" /\ drv.field = "target")
    BY <1>0, <1>1, <2>4 DEF Landed, ActInv, FieldKept
  <2> HIDE DEF n, typed
  <2>7. sent' \in SentType /\ sent'.effects = n /\ sent'.astray = {} /\ ~sent'.leaked
    <3>1. n \in Nat
      BY <2>3
    <3>2. sent' \in SentType /\ sent'.effects = n /\ sent'.astray = {} /\ sent'.leaked = sent.leaked
      BY <1>0, <2>2, <3>1 DEF SentType
    <3> QED BY <1>1, <3>2
  <2>8. Same(typed, page')
    BY <1>4, <2>4, InputReactionsKeep DEF typed
  <2>9. PageKept /\ page'.doc = page.doc /\ page'.text = typed.text
    BY <2>4, <2>8 DEF Same, PageKept
  <2>10. CASE drv' = Ends("failed")
    <3>1. Moves(drv, drv', "done") /\ drv'.outcome = "failed"
      BY <1>0, <2>10, EndsType
    <3>2. ActTypeOK' /\ FieldKept'
      BY <1>0, <1>4, <2>7, <2>9, <3>1 DEF ActInv, ActTypeOK, FieldKept, PageKept, Moves
    <3>3. RoutesKept'
      BY <3>1 DEF RoutesKept, Moves
    <3>4. EffectOnce' /\ SettleKept' /\ AimKept'
      BY <2>3, <2>7, <3>1 DEF EffectOnce, SettleKept, Settling, AimKept, Moves
    <3> QED BY <2>7, <3>2, <3>3, <3>4 DEF ActInv
  <2>11. CASE Go("landed")
    <3>1. Moves(drv, drv', "landed")
      BY <1>0, <1>p, <2>11, GoMoves
    <3>2. ActTypeOK' /\ FieldKept'
      BY <1>0, <1>4, <2>7, <2>9, <3>1 DEF ActInv, ActTypeOK, FieldKept, PageKept, Moves
    <3>3. RoutesKept'
      BY <1>0, <1>4, <3>1 DEF RoutesKept, Moves
    <3>4. SettleKept' /\ AimKept'
      BY <2>7, <3>1 DEF SettleKept, AimKept, Moves
    <3>5. EffectOnce'
      BY <2>3, <2>5, <2>6, <2>7, <2>9, <3>1 DEF EffectOnce, Settling, Moves
    <3> QED BY <2>7, <3>2, <3>3, <3>4, <3>5 DEF ActInv
  <2> QED BY <1>4, <2>10, <2>11
<1> QED BY <1>2, <1>3, <1>4 DEF Insert

\* Text is typed again only when it is nowhere: text that landed is where the first
\* field is, or in the editor that still has the focus, and both are looked for.
LEMMA LandedCheckStep == ActInv /\ LandedCheck => ActInv'
<1> SUFFICES ASSUME ActInv, LandedCheck PROVE ActInv'
  OBVIOUS
<1>0. drv.at = "landed" /\ drv \in DrvType /\ page \in PageType /\ ActTypeOK /\ scene.op = "fill" /\ sent \in SentType
  BY DEF LandedCheck, At, ActInv, ActTypeOK, RoutesKept
<1>1. /\ sent.effects \in {0, 1} /\ sent.astray = {} /\ ~sent.leaked /\ drv.field \in {"target", "editor"}
      /\ sent.effects = 0 => page.doc = 1 \/ page.text = "none"
      /\ sent.effects = 1 => page.doc = 1 \/ page.text = drv.field \/ (page.text = "editor" /\ drv.field = "target")
  BY <1>0 DEF ActInv, EffectOnce, Settling, AimKept, DrvType
<1>p. "after" \in Places /\ "focus" \in Places
  BY DEF Places, Evaluating
<1>2. CASE Returns("failed")
  BY <1>0, <1>2, ReturnsStep
<1>3. CASE Landed(page) /\ Go("after") /\ UNCHANGED <<scene, page, sent>>
  <2>1. sent.effects = 1
    BY <1>1, <1>3 DEF Landed
  <2>2. Moves(drv, drv', "after")
    BY <1>0, <1>3, <1>p, GoMoves
  <2>3. ActTypeOK' /\ FieldKept'
    BY <1>0, <1>3, <2>2 DEF ActInv, ActTypeOK, FieldKept, Moves
  <2>4. RoutesKept'
    BY <2>2 DEF RoutesKept, Moves
  <2>5. EffectOnce' /\ SettleKept' /\ AimKept' /\ ~sent'.leaked
    BY <1>1, <1>3, <2>1, <2>2 DEF EffectOnce, SettleKept, Settling, AimKept, Moves
  <2> QED BY <2>3, <2>4, <2>5 DEF ActInv
<1> DEFINE handed == IF scene.secret \/ drv.keyboard THEN drv.field
                     ELSE IF page.doc # 0 THEN "none" ELSE IF page.focus = "editor" THEN "editor" ELSE "target"
<1>4. CASE /\ ~Landed(page) /\ handed \notin {"none", drv.field} /\ UNCHANGED <<scene, page, sent>>
           /\ drv' = [drv EXCEPT !.at = "focus", !.field = handed, !.attempt = 1, !.activate = FALSE]
  <2>1. ~scene.secret /\ page.doc = 0 /\ handed \in {"target", "editor"} /\ ~drv.keyboard /\ (handed = "editor" <=> page.focus = "editor")
    BY <1>4
  <2>2. sent.effects = 0
    BY <1>0, <1>1, <1>4, <2>1 DEF Landed, PageType
  <2> HIDE DEF handed
  <2>3. ASSUME NEW b \in BOOLEAN
        PROVE  LET x == [drv EXCEPT !.at = "focus", !.field = handed, !.attempt = 1, !.activate = b] IN
               x \in DrvType /\ x.at = "focus" /\ x.field = handed /\ x.keyboard = drv.keyboard
    <3>1. [drv EXCEPT !.at = "focus", !.field = handed, !.attempt = 1, !.activate = b] \in DrvType
      BY <1>0, <1>p, <2>1 DEF DrvType
    <3> QED BY <1>0, <3>1 DEF DrvType
  <2>4. drv' \in DrvType /\ drv'.at = "focus" /\ drv'.field = handed /\ drv'.keyboard = drv.keyboard
    BY <1>4, <2>3
  <2>5. ActTypeOK' /\ FieldKept'
    BY <1>0, <1>4, <2>1, <2>4 DEF ActTypeOK, FieldKept
  <2>6. RoutesKept'
    BY <1>0, <1>4, <2>4 DEF RoutesKept
  <2>7. EffectOnce' /\ SettleKept' /\ AimKept' /\ ~sent'.leaked
    BY <1>1, <1>4, <2>2, <2>4 DEF EffectOnce, SettleKept, Settling, AimKept
  <2> QED BY <2>5, <2>6, <2>7 DEF ActInv
<1> QED BY <1>2, <1>3, <1>4 DEF LandedCheck

----------------------------------------------------------------------------
(* The steps: the operations with one input, and those without a control.  *)

\* An effect, then the settle or the error an unanswered input is.
LEMMA DoneOnce ==
  ASSUME ActInv, drv.at \notin Settling \cup {"landed", "done"}, UNCHANGED scene,
         sent' = [sent EXCEPT !.effects = @ + 1] \/ sent' = [sent EXCEPT !.effects = 1],
         NEW p \in PageType, p.focus = page.focus \/ p.focus = "none",
         page' \in Reactions(p) \cup InputReactions(p) \cup {p},
         Go("after") \/ Input("after") \/ drv' = Ends("failed")
  PROVE  ActInv'
<1>0. ActTypeOK /\ "after" \in Places
  BY DEF ActInv, Places
<1>1. sent' \in SentType /\ sent'.effects = 1 /\ sent'.astray = {} /\ ~sent'.leaked
  BY EffectSent
<1>2. page' = p \/ Same(p, page')
  BY ReactionsKeep, InputReactionsKeep
<1>3. PageKept
  BY <1>2 DEF Same, PageKept
<1>4. \E a \in {"after", "done"} : Moves(drv, drv', a) /\ (a = "done" => drv'.outcome \in {"failed", "error"})
  BY <1>0, GoMoves, InputMoves, EndsType
<1> QED BY <1>1, <1>3, <1>4, EffectStep

LEMMA SelectStep == ActInv /\ Select => ActInv'
<1> SUFFICES ASSUME ActInv, Select PROVE ActInv'
  OBVIOUS
<1>0. drv.at = "select" /\ page \in PageType
  BY DEF Select, At, ActInv, ActTypeOK
<1>1. CASE Returns("stale") \/ Returns("failed")
  BY <1>0, <1>1, ReturnsStep DEF Settling
<1>2. CASE /\ page' \in InputReactions(page) /\ sent' = [sent EXCEPT !.effects = @ + 1] /\ UNCHANGED scene
           /\ Go("after") \/ drv' = Ends("failed")
  BY <1>0, <1>2, DoneOnce DEF Settling
<1> QED BY <1>1, <1>2 DEF Select, Go

LEMMA BlurStep == ActInv /\ Blur => ActInv'
<1> SUFFICES ASSUME ActInv, Blur PROVE ActInv'
  OBVIOUS
<1>0. drv.at = "blur" /\ page \in PageType
  BY DEF Blur, At, ActInv, ActTypeOK
<1>1. CASE Returns("stale") \/ Returns("failed")
  BY <1>0, <1>1, ReturnsStep DEF Settling
<1>2. CASE /\ page' \in InputReactions([page EXCEPT !.focus = "none"]) /\ sent' = [sent EXCEPT !.effects = @ + 1]
           /\ Go("after") /\ UNCHANGED scene
  <2> DEFINE p == [page EXCEPT !.focus = "none"]
  <2>1. p \in PageType /\ p.focus = "none"
    BY <1>0 DEF PageType
  <2> HIDE DEF p
  <2>2. page' \in InputReactions(p)
    BY <1>2 DEF p
  <2> QED BY <1>0, <1>2, <2>1, <2>2, DoneOnce DEF Settling
<1> QED BY <1>1, <1>2 DEF Blur

LEMMA UploadStep == ActInv /\ Upload => ActInv'
<1> SUFFICES ASSUME ActInv, Upload PROVE ActInv'
  OBVIOUS
<1>0. drv.at = "upload" /\ page \in PageType
  BY DEF Upload, At, ActInv, ActTypeOK
<1>1. CASE Returns("stale") \/ Returns("failed")
  BY <1>0, <1>1, ReturnsStep DEF Settling
<1>2. CASE /\ page' \in Reactions(page) /\ sent' = [sent EXCEPT !.effects = @ + 1]
           /\ Go("after") /\ UNCHANGED scene
  BY <1>0, <1>2, DoneOnce DEF Settling
<1> QED BY <1>1, <1>2 DEF Upload

LEMMA PlainStep == ActInv /\ (AnswerDialog \/ Scroll \/ AwaitChange \/ SwitchTab \/ Back \/ Navigate) => ActInv'
<1> SUFFICES ASSUME ActInv, AnswerDialog \/ Scroll \/ AwaitChange \/ SwitchTab \/ Back \/ Navigate PROVE ActInv'
  OBVIOUS
<1>0. drv.at = "plain" /\ page \in PageType
  BY DEF AnswerDialog, Scroll, AwaitChange, SwitchTab, Back, Navigate, At, ActInv, ActTypeOK
<1>1. ASSUME NEW o \in {"failed", "error"}, Returns(o) PROVE ActInv'
  BY <1>0, <1>1, ReturnsStep DEF Settling
<1>2. ASSUME NEW p \in PageType, p.focus = page.focus, NEW S \in SUBSET (Reactions(p) \cup InputReactions(p) \cup {p}), Elsewhere(S),
             Go("after") \/ Input("after")
      PROVE  ActInv'
  BY <1>0, <1>2, DoneOnce DEF Settling, Elsewhere
<1>3. CASE AnswerDialog
  <2> DEFINE p == [page EXCEPT !.dialog = FALSE]
  <2>1. \A b \in BOOLEAN : LET q == [page EXCEPT !.dialog = b] IN q \in PageType /\ q.focus = page.focus
    BY <1>0 DEF PageType
  <2>2. p \in PageType /\ p.focus = page.focus
    BY <2>1
  <2> HIDE DEF p
  <2>3. CASE Elsewhere(InputReactions(p)) /\ Go("after")
    BY <1>2, <2>2, <2>3
  <2> QED BY <1>1, <1>3, <2>3 DEF AnswerDialog, p
<1>4. CASE Scroll \/ AwaitChange \/ SwitchTab \/ Back
  BY <1>0, <1>1, <1>2, <1>4 DEF Scroll, AwaitChange, SwitchTab, Back
<1>5. CASE Navigate
  <2> DEFINE p == [page EXCEPT !.doc = 1, !.print = @ + 1]
  <2>1. p \in PageType /\ p.focus = page.focus
    <3>1. page.print + 1 \in Nat
      BY <1>0 DEF PageType
    <3>2. ASSUME NEW n \in Nat
          PROVE  LET q == [page EXCEPT !.doc = 1, !.print = n] IN q \in PageType /\ q.focus = page.focus
      BY <1>0 DEF PageType
    <3> QED BY <3>1, <3>2
  <2> HIDE DEF p
  <2>2. CASE Elsewhere({p}) /\ Go("after")
    BY <1>2, <2>1, <2>2
  <2> QED BY <1>1, <1>5, <2>2 DEF Navigate, p
<1> QED BY <1>3, <1>4, <1>5

----------------------------------------------------------------------------
(* The steps: a drag.                                                      *)

LEMMA DropStep == ActInv /\ Drop => ActInv'
<1> SUFFICES ASSUME ActInv, Drop PROVE ActInv'
  OBVIOUS
<1>0. drv.at = "drop" /\ drv \in DrvType /\ page \in PageType /\ ActTypeOK /\ ~drv.keyboard /\ scene.op = "drag"
      /\ drv.field = "target"
  BY DEF Drop, At, ActInv, ActTypeOK, RoutesKept
<1>p. "move" \in Places
  BY DEF Places
<1>1. CASE Returns("stale") \/ Returns("failed")
  BY <1>0, <1>1, ReturnsStep DEF Settling
<1>2. CASE page' \in Reactions(page) /\ Go("move") /\ UNCHANGED <<scene, sent>>
  <2>1. PageKept
    BY <1>0, <1>2, ReactionsKeep, SameKept
  <2>2. Moves(drv, drv', "move")
    BY <1>0, <1>2, <1>p, GoMoves
  <2>3. RoutesKept'
    BY <1>0, <1>2, <2>2 DEF RoutesKept, Moves
  <2> QED BY <1>0, <1>2, <1>p, <2>1, <2>2, <2>3, QuietStep DEF Settling, Aimed
<1> QED BY <1>1, <1>2 DEF Drop

LEMMA DropAgainStep == ActInv /\ DropAgain => ActInv'
<1> SUFFICES ASSUME ActInv, DropAgain PROVE ActInv'
  OBVIOUS
<1>0. drv.at = "redrop" /\ drv \in DrvType /\ page \in PageType /\ ActTypeOK /\ ~drv.keyboard /\ drv.field = "target"
  BY DEF DropAgain, At, ActInv, ActTypeOK, RoutesKept
<1>p. "lift" \in Places
  BY DEF Places
<1>1. CASE Returns("stale")
  BY <1>0, <1>1, ReturnsStep DEF Settling
<1>2. CASE drv' = [drv EXCEPT !.at = "lift", !.drop = DropTest] /\ UNCHANGED <<scene, page, sent>>
  <2>1. DropTest \in Points \cup {"gone"}
    BY <1>0 DEF DropTest, PageType
  <2>2. Moves(drv, drv', "lift") /\ drv'.late = drv.late /\ drv'.point = drv.point
    BY <1>0, <1>2, <1>p, <2>1 DEF Moves, DrvType
  <2>3. ActTypeOK' /\ FieldKept'
    BY <1>0, <1>2, <2>2 DEF ActInv, ActTypeOK, FieldKept, Moves
  <2>4. RoutesKept'
    BY <1>0, <2>2 DEF RoutesKept, Moves
  <2>5. EffectOnce' /\ SettleKept' /\ ~sent'.leaked
    BY <1>0, <1>2, <2>2 DEF ActInv, EffectOnce, SettleKept, Settling, Moves
  <2>6. HitTest' = HitTest
    BY <1>2 DEF HitTest, Guard
  <2>7. AimKept'
    BY <1>0, <1>2, <2>2, <2>6 DEF ActInv, AimKept, Moves
  <2> QED BY <2>3, <2>4, <2>5, <2>7 DEF ActInv
<1> QED BY <1>1, <1>2 DEF DropAgain

LEMMA LiftStep == ActInv /\ Lift => ActInv'
<1> SUFFICES ASSUME ActInv, Lift PROVE ActInv'
  OBVIOUS
<1>0. drv.at = "lift" /\ drv \in DrvType /\ page \in PageType /\ ActTypeOK /\ ~drv.keyboard /\ drv.field = "target"
      /\ sent \in SentType /\ UNCHANGED scene
  BY DEF Lift, At, ActInv, ActTypeOK, RoutesKept
<1>p. "dragging" \in Places
  BY DEF Places, Evaluating
<1>1. PageKept
  BY <1>0, ReactionsKeep, SameKept DEF Lift
<1>2. sent.effects = 0 /\ ~sent.leaked
  BY <1>0 DEF ActInv, EffectOnce, Settling
<1>3. sent' \in SentType /\ sent'.effects = 0 /\ sent'.astray = {} /\ ~sent'.leaked
  <2>1. sent' = [sent EXCEPT !.touched = TRUE, !.astray = {}]
    BY <1>0, PressStrays DEF Lift
  <2>2. ASSUME NEW b \in BOOLEAN
        PROVE  LET x == [sent EXCEPT !.touched = b, !.astray = {}] IN
               x \in SentType /\ x.effects = sent.effects /\ x.astray = {} /\ x.leaked = sent.leaked
    BY <1>0 DEF SentType
  <2> QED BY <1>2, <2>1, <2>2
<1>4. \E a \in {"dragging", "done"} : Moves(drv, drv', a) /\ (a = "done" => drv'.outcome = "error")
  BY <1>0, <1>p, InputMoves DEF Lift
<1>5. ActTypeOK' /\ FieldKept'
  BY <1>0, <1>1, <1>3, <1>4 DEF ActTypeOK, FieldKept, Moves, PageKept
<1>6. RoutesKept'
  BY <1>0, <1>4 DEF RoutesKept, Moves
<1>7. EffectOnce' /\ SettleKept' /\ AimKept'
  BY <1>3, <1>4 DEF EffectOnce, SettleKept, AimKept, Settling, Moves
<1> QED BY <1>3, <1>5, <1>6, <1>7 DEF ActInv

LEMMA DraggingStep == ActInv /\ Dragging => ActInv'
<1> SUFFICES ASSUME ActInv, Dragging PROVE ActInv'
  OBVIOUS
<1>0. drv.at = "dragging" /\ drv \in DrvType /\ page \in PageType /\ ActTypeOK /\ ~drv.keyboard /\ drv.field = "target"
  BY DEF Dragging, At, ActInv, ActTypeOK, RoutesKept
<1>p. "rest" \in Places
  BY DEF Places, Evaluating
<1>1. CASE Returns("stale")
  BY <1>0, <1>1, ReturnsStep DEF Settling
<1>2. CASE drv' = [Looked(drv) EXCEPT !.at = "rest", !.rests = 0] /\ page' \in Reactions(page) /\ UNCHANGED <<scene, sent>>
  <2> DEFINE y == Looked(drv)
  <2>1. y \in DrvType /\ Moves(drv, y, drv.at)
    BY <1>0 DEF Looked, DrvType, Moves
  <2>2. drv' = [y EXCEPT !.at = "rest", !.rests = 0]
    BY <1>2
  <2> HIDE DEF y
  <2>3. Moves(y, drv', "rest")
    BY <1>p, <2>1, <2>2 DEF DrvType, Moves
  <2>4. Moves(drv, drv', "rest")
    BY <2>1, <2>3 DEF Moves
  <2>5. PageKept
    BY <1>0, <1>2, ReactionsKeep, SameKept
  <2>6. RoutesKept'
    BY <1>0, <2>4 DEF RoutesKept, Moves
  <2> QED BY <1>0, <1>2, <1>p, <2>4, <2>5, <2>6, QuietStep DEF Settling, Aimed
<1> QED BY <1>1, <1>2 DEF Dragging

\* The pointer rests over the drop target when the release is decided on.
LEMMA RestStep == ActInv /\ Rest => ActInv'
<1> SUFFICES ASSUME ActInv, Rest PROVE ActInv'
  OBVIOUS
<1>0. drv.at = "rest" /\ drv \in DrvType /\ page \in PageType /\ ActTypeOK /\ ~drv.keyboard /\ drv.field = "target"
  BY DEF Rest, At, ActInv, ActTypeOK, RoutesKept
<1>1. CASE Returns("stale")
  BY <1>0, <1>1, ReturnsStep DEF Settling
<1> DEFINE v == DropTest
           place == IF v = drv.drop THEN "release" ELSE "rest"
<1>2. CASE /\ drv' = [Looked(drv) EXCEPT !.at = place, !.drop = v, !.rests = @ + 1]
           /\ page' \in IF v = drv.drop THEN {page} ELSE Reactions(page)
           /\ UNCHANGED <<scene, sent>>
  <2> DEFINE y == Looked(drv)
  <2>1. y \in DrvType /\ Moves(drv, y, drv.at)
    BY <1>0 DEF Looked, DrvType, Moves
  <2>2. drv' = [y EXCEPT !.at = place, !.drop = v, !.rests = @ + 1]
    BY <1>2
  <2>3. v \in Points \cup {"gone"} /\ place \in Places /\ place \in {"release", "rest"} /\ (place = "release" => UNCHANGED page)
    BY <1>0, <1>2 DEF DropTest, PageType, Places, Evaluating
  <2>4. PageKept
    BY <1>0, <1>2, ReactionsKeep, SameKept DEF PageKept
  <2> HIDE DEF y, place, v
  <2>5. Moves(y, drv', place) /\ drv'.drop = v
    <3>1. y.rests + 1 \in Nat
      BY <2>1 DEF DrvType
    <3>2. ASSUME NEW n \in Nat
          PROVE  LET x == [y EXCEPT !.at = place, !.drop = v, !.rests = n] IN Moves(y, x, place) /\ x.drop = v
      <4>1. [y EXCEPT !.at = place, !.drop = v, !.rests = n] \in DrvType
        BY <2>1, <2>3 DEF DrvType
      <4> QED BY <2>1, <4>1 DEF DrvType, Moves
    <3> QED BY <2>2, <3>1, <3>2
  <2>6. Moves(drv, drv', place) /\ drv'.drop = DropTest
    BY <2>1, <2>5 DEF Moves, v
  <2>7. ActTypeOK' /\ FieldKept'
    BY <1>0, <1>2, <2>4, <2>6 DEF ActInv, ActTypeOK, FieldKept, Moves, PageKept
  <2>8. RoutesKept'
    BY <1>0, <2>3, <2>6 DEF RoutesKept, Moves
  <2>9. EffectOnce' /\ SettleKept' /\ ~sent'.leaked
    BY <1>0, <1>2, <2>3, <2>6 DEF ActInv, EffectOnce, SettleKept, Settling, Moves
  <2>10. place = "release" => DropTest' = DropTest
    BY <2>3 DEF DropTest
  <2>11. AimKept'
    BY <1>2, <2>3, <2>6, <2>10 DEF ActInv, AimKept, Moves
  <2> QED BY <2>7, <2>8, <2>9, <2>11 DEF ActInv
<1> QED BY <1>1, <1>2 DEF Rest

LEMMA ReleaseStep == ActInv /\ Release => ActInv'
<1> SUFFICES ASSUME ActInv, Release PROVE ActInv'
  OBVIOUS
<1>0. drv.at = "release" /\ page \in PageType /\ ActTypeOK /\ UNCHANGED scene
  BY DEF Release, At, ActInv, ActTypeOK
<1>1. Astray("drop", DropTest = drv.drop, {"control"}) = sent.astray
  <2>1. CASE "control" \in drv.late
    BY <2>1 DEF Astray
  <2>2. CASE DropTest = drv.drop
    BY <2>2 DEF Astray
  <2> QED BY <1>0, <2>1, <2>2 DEF ActInv, AimKept
<1>2. sent' = [sent EXCEPT !.effects = @ + 1]
  <2>1. sent' = [sent EXCEPT !.effects = @ + 1, !.astray = sent.astray]
    BY <1>1 DEF Release
  <2> QED BY <2>1, <1>0 DEF ActTypeOK, SentType
<1> QED BY <1>0, <1>2, DoneOnce DEF Settling, Release

----------------------------------------------------------------------------
(* The steps: the settle.                                                  *)

\* All a step of the settle can disturb is what the settle knows.
LEMMA SettlingStep ==
  ASSUME ActInv, drv.at \in Settling, PageKept, UNCHANGED <<scene, sent>>, NEW a \in Settling, Moves(drv, drv', a), SettleKept'
  PROVE  ActInv'
<1>1. ActTypeOK' /\ FieldKept'
  BY DEF ActInv, ActTypeOK, FieldKept, Moves, PageKept
<1>2. RoutesKept'
  BY DEF RoutesKept, Moves, Settling
<1>3. EffectOnce' /\ AimKept' /\ ~sent'.leaked
  BY DEF ActInv, EffectOnce, AimKept, Settling, Moves
<1> QED BY <1>1, <1>2, <1>3 DEF ActInv

SettledAs(d, c, late) == [d EXCEPT !.at = "follow", !.changed = c, !.deadline = late]
LEMMA SettledMoves ==
  ASSUME NEW d \in DrvType, NEW c \in BOOLEAN, NEW l \in BOOLEAN
  PROVE  /\ Moves(d, SettledAs(d, c, l), "follow") /\ SettledAs(d, c, l).changed = c /\ SettledAs(d, c, l).deadline = l
         /\ SettledAs(d, c, l).late = d.late /\ SettledAs(d, c, l).before = d.before
<1>1. SettledAs(d, c, l) \in DrvType
  BY DEF SettledAs, DrvType, Places
<1> QED BY <1>1 DEF SettledAs, DrvType, Moves

\* A settle that found a change, or ran into its deadline, says nothing of the page.
LEMMA SettledStep ==
  ASSUME ActInv, drv.at \in Settling, UNCHANGED <<scene, page, sent>>,
         \/ drv' = Settled(TRUE) \/ drv' = Deadline
  PROVE  ActInv'
<1>0. drv \in DrvType /\ page \in PageType
  BY DEF ActInv, ActTypeOK
<1>1. PageKept
  BY <1>0 DEF PageKept
<1>2. Moves(drv, drv', "follow") /\ (drv'.changed \/ drv'.deadline)
  <2>1. CASE drv' = Settled(TRUE)
    <3>1. \A c \in BOOLEAN : LET x == Settled(c) IN Moves(drv, x, "follow") /\ x.changed = c
      BY <1>0, ZenonT(60) DEF Settled, Moves, DrvType, Places
    <3> QED BY <2>1, <3>1
  <2>2. CASE drv' = Deadline
    <3>1. \A c, l \in BOOLEAN : [Settled(c) EXCEPT !.deadline = l] = SettledAs(drv, c, l)
      BY <1>0 DEF Settled, SettledAs, DrvType
    <3>2. (~drv.unchanged) \in BOOLEAN
      OBVIOUS
    <3>3. PICK c \in BOOLEAN : drv' = [Settled(c) EXCEPT !.deadline = TRUE]
      BY <2>2, <3>2, Zenon DEF Deadline
    <3>4. drv' = SettledAs(drv, c, TRUE)
      BY <3>1, <3>3
    <3>5. \A l \in BOOLEAN : Moves(drv, SettledAs(drv, c, l), "follow") /\ SettledAs(drv, c, l).deadline = l
      BY <1>0, SettledMoves
    <3> QED BY <3>4, <3>5
  <2> QED BY <2>1, <2>2
<1>3. SettleKept'
  BY <1>2 DEF SettleKept, Moves
<1> QED BY <1>1, <1>2, <1>3, SettlingStep DEF Settling

LEMMA AfterStep == ActInv /\ After => ActInv'
<1> SUFFICES ASSUME ActInv, After PROVE ActInv'
  OBVIOUS
<1>0. drv.at = "after" /\ drv \in DrvType /\ page \in PageType /\ UNCHANGED <<scene, page, sent>>
  BY DEF After, At, ActInv, ActTypeOK
<1>1. \A b \in BOOLEAN : Moves(drv, [drv EXCEPT !.at = "settle", !.unchanged = b], "settle")
  BY <1>0, ZenonT(60) DEF Moves, DrvType, Places
<1>2. Moves(drv, drv', "settle")
  BY <1>1 DEF After
<1>3. PageKept
  BY <1>0 DEF PageKept
<1>4. SettleKept'
  BY <1>2 DEF SettleKept, Moves
<1> QED BY <1>0, <1>2, <1>3, <1>4, SettlingStep DEF Settling

LEMMA SettleLookStep == ActInv /\ SettleLook => ActInv'
<1> SUFFICES ASSUME ActInv, SettleLook PROVE ActInv'
  OBVIOUS
<1>0. drv.at = "settle" /\ drv \in DrvType /\ page \in PageType /\ UNCHANGED <<scene, page, sent>>
  BY DEF SettleLook, At, ActInv, ActTypeOK
<1>1. CASE drv' = Settled(TRUE)
  BY <1>0, <1>1, SettledStep DEF Settling
<1>2. PageKept /\ page.gen \in Nat
  BY <1>0 DEF PageKept, PageType
<1>3. CASE drv' = [drv EXCEPT !.at = "waiting", !.unchanged = FALSE, !.mark = page.gen]
  <2>1. ASSUME NEW b \in BOOLEAN, NEW n \in Nat
        PROVE  Moves(drv, [drv EXCEPT !.at = "waiting", !.unchanged = b, !.mark = n], "waiting")
    BY <1>0 DEF Moves, DrvType, Places
  <2>2. Moves(drv, drv', "waiting")
    BY <1>2, <1>3, <2>1
  <2>3. SettleKept'
    BY <2>2 DEF SettleKept, Moves
  <2> QED BY <1>0, <1>2, <2>2, <2>3, SettlingStep DEF Settling
<1>4. CASE drv' = [drv EXCEPT !.at = "read", !.mark = page.gen]
  <2>1. Moves(drv, drv', "read") /\ drv'.mark = page.gen
    BY <1>0, <1>2, <1>4 DEF Moves, DrvType, Places
  <2>2. SettleKept'
    BY <1>0, <1>2, <2>1 DEF SettleKept, Moves
  <2> QED BY <1>0, <1>2, <2>1, <2>2, SettlingStep DEF Settling
<1> QED BY <1>1, <1>3, <1>4 DEF SettleLook

\* Running what was queued changes what the page shows, and nothing else it keeps.
LEMMA RunQueuedKeeps ==
  ASSUME NEW p \in PageType
  PROVE  /\ RunQueued(p) \in PageType /\ ~RunQueued(p).queued /\ RunQueued(p).gen = p.gen /\ RunQueued(p).focus = p.focus
         /\ RunQueued(p).doc = p.doc /\ RunQueued(p).same = p.same /\ RunQueued(p).pos = p.pos /\ RunQueued(p).cover = p.cover
         /\ RunQueued(p).drop = p.drop /\ RunQueued(p).text = p.text
<1>1. CASE p.queued
  <2>1. RunQueued(p) = [p EXCEPT !.queued = FALSE, !.print = @ + 1]
    BY <1>1 DEF RunQueued
  <2>2. p.print + 1 \in Nat
    BY DEF PageType
  <2>4. PICK n \in Nat, b \in BOOLEAN : ~b /\ RunQueued(p) = [p EXCEPT !.queued = b, !.print = n]
    BY <2>1, <2>2, Zenon
  <2>5. /\ RunQueued(p) \in PageType /\ RunQueued(p).queued = b /\ RunQueued(p).gen = p.gen /\ RunQueued(p).focus = p.focus
        /\ RunQueued(p).doc = p.doc /\ RunQueued(p).same = p.same /\ RunQueued(p).pos = p.pos /\ RunQueued(p).cover = p.cover
        /\ RunQueued(p).drop = p.drop /\ RunQueued(p).text = p.text
    BY <2>4 DEF PageType
  <2> QED BY <2>4, <2>5
<1>2. CASE ~p.queued
  BY <1>2 DEF RunQueued
<1> QED BY <1>1, <1>2

\* The sample is of the page with nothing left queued.
LEMMA SettleReadStep == ActInv /\ SettleRead => ActInv'
<1> SUFFICES ASSUME ActInv, SettleRead PROVE ActInv'
  OBVIOUS
<1>0. drv.at = "read" /\ drv \in DrvType /\ page \in PageType /\ UNCHANGED <<scene, sent>>
  BY DEF SettleRead, At, ActInv, ActTypeOK
<1>1. CASE (drv' = Settled(TRUE) \/ drv' = Deadline) /\ UNCHANGED page
  BY <1>0, <1>1, SettledStep DEF Settling
<1>2. ASSUME page' = RunQueued(page) PROVE PageKept /\ page'.gen = page.gen /\ ~page'.queued /\ page'.print \in Nat
  BY <1>0, <1>2, RunQueuedKeeps DEF PageKept, PageType
<1>3. CASE page' = RunQueued(page) /\ drv' = [drv EXCEPT !.at = "judge", !.sample = page'.print, !.late = @ \ {"control"}]
  <2>1. PageKept /\ page'.gen = page.gen /\ ~page'.queued /\ page'.print \in Nat
    BY <1>2, <1>3
  <2>2. ASSUME NEW n \in Nat
        PROVE  LET x == [drv EXCEPT !.at = "judge", !.sample = n, !.late = @ \ {"control"}] IN
               Moves(drv, x, "judge") /\ x.mark = drv.mark /\ x.sample = n
    <3>1. [drv EXCEPT !.at = "judge", !.sample = n, !.late = @ \ {"control"}] \in DrvType
      BY <1>0 DEF DrvType, Places
    <3> QED BY <1>0, <3>1 DEF DrvType, Moves
  <2>3. Moves(drv, drv', "judge") /\ drv'.mark = drv.mark /\ drv'.sample = page'.print
    BY <1>3, <2>1, <2>2
  <2>4. SettleKept'
    BY <1>0, <2>1, <2>3 DEF ActInv, SettleKept, Moves
  <2> QED BY <1>0, <2>1, <2>3, <2>4, SettlingStep DEF Settling
<1>4. CASE page' = RunQueued(page) /\ drv' = [drv EXCEPT !.at = "waiting", !.unchanged = FALSE]
  <2>1. PageKept
    BY <1>2, <1>4
  <2>2. \A b \in BOOLEAN : Moves(drv, [drv EXCEPT !.at = "waiting", !.unchanged = b], "waiting")
    BY <1>0, ZenonT(60) DEF Moves, DrvType, Places
  <2>3. Moves(drv, drv', "waiting")
    BY <1>4, <2>2
  <2>4. SettleKept'
    BY <2>3 DEF SettleKept, Moves
  <2> QED BY <1>0, <2>1, <2>3, <2>4, SettlingStep DEF Settling
<1> QED BY <1>1, <1>3, <1>4 DEF SettleRead

\* A result of no change is given with nothing open, queued or on its way.
LEMMA SettleJudgeStep == ActInv /\ SettleJudge => ActInv'
<1> SUFFICES ASSUME ActInv, SettleJudge PROVE ActInv'
  OBVIOUS
<1>0. drv.at = "judge" /\ drv \in DrvType /\ page \in PageType /\ UNCHANGED <<scene, page, sent>>
  BY DEF SettleJudge, At, ActInv, ActTypeOK
<1>1. PageKept
  BY <1>0 DEF PageKept
<1>2. CASE page.open = 0 /\ ~page.nav /\ page.gen = drv.mark /\ drv' = Settled(drv.sample # drv.before)
  <2> DEFINE c == drv.sample # drv.before
  <2>1. \A b \in BOOLEAN : LET x == Settled(b) IN
          Moves(drv, x, "follow") /\ x.changed = b /\ x.late = drv.late /\ x.before = drv.before
    BY <1>0, ZenonT(60) DEF Settled, Moves, DrvType, Places
  <2>2. c \in BOOLEAN /\ (~c => drv.sample = drv.before)
    OBVIOUS
  <2>3. drv' = Settled(c)
    BY <1>2
  <2> HIDE DEF c
  <2>4. Moves(drv, drv', "follow") /\ drv'.changed = c /\ drv'.late = drv.late /\ drv'.before = drv.before
    BY <2>1, <2>2, <2>3
  <2>5. drv.late = {} => page.print = drv.sample /\ ~page.queued
    BY <1>0, <1>2 DEF ActInv, SettleKept
  <2>6. SettleKept'
    BY <1>0, <1>2, <2>2, <2>4, <2>5 DEF SettleKept, Moves
  <2> QED BY <1>0, <1>1, <2>4, <2>6, SettlingStep DEF Settling
<1>3. CASE drv' = [drv EXCEPT !.at = "waiting", !.unchanged = drv.sample = drv.before]
  <2>1. \A b \in BOOLEAN : Moves(drv, [drv EXCEPT !.at = "waiting", !.unchanged = b], "waiting")
    BY <1>0, ZenonT(60) DEF Moves, DrvType, Places
  <2>2. (drv.sample = drv.before) \in BOOLEAN
    OBVIOUS
  <2>3. Moves(drv, drv', "waiting")
    BY <1>3, <2>1, <2>2, Zenon
  <2>4. SettleKept'
    BY <2>3 DEF SettleKept, Moves
  <2> QED BY <1>0, <1>1, <2>3, <2>4, SettlingStep DEF Settling
<1> QED BY <1>2, <1>3 DEF SettleJudge

LEMMA SettleWaitStep == ActInv /\ SettleWait => ActInv'
<1> SUFFICES ASSUME ActInv, SettleWait PROVE ActInv'
  OBVIOUS
<1>0. drv.at = "waiting" /\ drv \in DrvType /\ page \in PageType /\ UNCHANGED <<scene, page, sent>>
  BY DEF SettleWait, At, ActInv, ActTypeOK
<1>1. CASE drv' = Settled(TRUE) \/ drv' = Deadline
  BY <1>0, <1>1, SettledStep DEF Settling
<1>2. CASE drv' = [drv EXCEPT !.at = "settle"]
  <2>1. Moves(drv, drv', "settle")
    BY <1>0, <1>2 DEF Moves, DrvType, Places
  <2>2. PageKept
    BY <1>0 DEF PageKept
  <2>3. SettleKept'
    BY <2>1 DEF SettleKept, Moves
  <2> QED BY <1>0, <2>1, <2>2, <2>3, SettlingStep DEF Settling
<1> QED BY <1>1, <1>2 DEF SettleWait

LEMMA FollowStep == ActInv /\ Follow => ActInv'
<1> SUFFICES ASSUME ActInv, Follow PROVE ActInv'
  OBVIOUS
<1>0. drv.at = "follow" /\ drv \in DrvType /\ page \in PageType /\ UNCHANGED <<scene, page, sent>>
  BY DEF Follow, At, ActInv, ActTypeOK
<1> DEFINE moved == drv.begun # NoMark /\ page.inputNav > drv.begun
           opened == Op({"click", "enter"}) /\ page.windows > drv.windows
           landed == page.downloads > drv.downloads
           m == opened \/ moved
           c == drv.changed \/ opened \/ (moved /\ landed /\ ~scene.repeated)
<1>1. m \in BOOLEAN /\ c \in BOOLEAN /\ (drv.changed => c)
  BY <1>0 DEF DrvType
<1>2. drv' = [drv EXCEPT !.at = "done", !.outcome = "executed", !.moved = m, !.changed = c]
  BY Zenon DEF Follow
<1> HIDE DEF m, c
<1>3. Moves(drv, drv', "done") /\ drv'.outcome = "executed" /\ drv'.changed = c /\ drv'.late = drv.late
      /\ drv'.before = drv.before /\ drv'.deadline = drv.deadline
  <2>1. drv' \in DrvType
    BY <1>0, <1>1, <1>2, ZenonT(60) DEF DrvType, Places
  <2> QED BY <1>0, <1>2, <2>1 DEF DrvType, Moves
<1>4. ActTypeOK' /\ FieldKept'
  BY <1>0, <1>3 DEF ActInv, ActTypeOK, FieldKept, Moves
<1>5. RoutesKept' /\ AimKept' /\ ~sent'.leaked
  BY <1>0, <1>3 DEF ActInv, RoutesKept, AimKept, Moves
<1>6. EffectOnce'
  BY <1>0, <1>3 DEF ActInv, EffectOnce, Settling, Moves
<1>7. SettleKept'
  BY <1>0, <1>1, <1>3 DEF ActInv, SettleKept, Moves
<1> QED BY <1>4, <1>5, <1>6, <1>7 DEF ActInv

----------------------------------------------------------------------------
(* The page's own steps.                                                   *)

\* What the page does by itself is noted, by what it concerns.
LEMMA PageAloneStep == ActInv /\ PageAlone => ActInv'
<1> SUFFICES ASSUME ActInv, PageAlone PROVE ActInv'
  OBVIOUS
<1>0. drv \in DrvType /\ page \in PageType /\ drv.at # "done" /\ UNCHANGED <<scene, sent>>
  BY DEF PageAlone, At, ActInv, ActTypeOK
<1>1. PICK k : page' = Event(page, k) /\ drv' = [drv EXCEPT !.late = @ \cup {Aspect(k)}]
  BY DEF PageAlone
<1>2. Kept(page, k, page')
  BY <1>0, <1>1, EventKeeps
<1>3. Aspect(k) \in {"focus", "control"}
  BY DEF Aspect
<1>4. Moves(drv, drv', drv.at) /\ drv'.late = drv.late \cup {Aspect(k)} /\ drv'.point = drv.point /\ drv'.drop = drv.drop
      /\ drv'.mark = drv.mark /\ drv'.outcome = drv.outcome
  <2>1. drv' \in DrvType
    BY <1>0, <1>1, <1>3 DEF DrvType
  <2> QED BY <1>0, <1>1, <2>1 DEF DrvType, Moves
<1>5. ActTypeOK' /\ FieldKept'
  BY <1>0, <1>2, <1>4 DEF ActInv, ActTypeOK, FieldKept, Kept, Moves
<1>6. RoutesKept' /\ ~sent'.leaked
  BY <1>0, <1>4 DEF ActInv, RoutesKept, Moves
<1>7. EffectOnce'
  BY <1>0, <1>2, <1>4 DEF ActInv, EffectOnce, Kept, Moves
<1>8. AimKept'
  <2>1. CASE Aspect(k) = "focus"
    <3>1. HitTest' = HitTest /\ DropTest' = DropTest
      BY <1>2, <2>1 DEF Kept, HitTest, Guard, DropTest
    <3> QED BY <1>0, <1>4, <2>1, <3>1 DEF ActInv, AimKept, Moves
  <2>2. CASE Aspect(k) = "control"
    BY <1>0, <1>2, <1>4, <2>2 DEF ActInv, AimKept, Moves, Kept
  <2> QED BY <1>3, <2>1, <2>2
<1>9. SettleKept'
  <2>1. drv'.late # {}
    BY <1>4
  <2>2. drv.mark \in Nat /\ page.gen \in Nat /\ page'.gen \in Nat /\ page'.gen >= page.gen
    BY <1>0, <1>2 DEF DrvType, PageType, Kept
  <2> QED BY <1>0, <1>4, <2>1, <2>2 DEF ActInv, SettleKept, Moves
<1> QED BY <1>5, <1>6, <1>7, <1>8, <1>9 DEF ActInv

LEMMA CommitsStep == ActInv /\ Commits => ActInv'
<1> SUFFICES ASSUME ActInv, Commits PROVE ActInv'
  OBVIOUS
<1>0. drv \in DrvType /\ page \in PageType /\ UNCHANGED <<scene, sent>>
  BY DEF Commits, ActInv, ActTypeOK
<1>1. page' \in PageType /\ page'.doc = 1 /\ page'.focus = "none" /\ page'.gen = page.gen + 1
  <2>1. page.print + 1 \in Nat /\ page.gen + 1 \in Nat
    BY <1>0 DEF PageType
  <2>2. page' = [page EXCEPT !.doc = 1, !.nav = FALSE, !.ready = FALSE, !.print = page.print + 1, !.gen = page.gen + 1,
                   !.dialog = FALSE, !.focus = "none", !.open = 0, !.queued = FALSE, !.hung = FALSE]
    BY DEF Commits
  <2>3. \A a, b, c \in BOOLEAN : [page EXCEPT !.nav = a, !.ready = b, !.dialog = c] \in PageType
    BY <1>0 DEF PageType
  <2> DEFINE p == [page EXCEPT !.nav = FALSE, !.ready = FALSE, !.dialog = FALSE]
  <2>4. p \in PageType
    BY <2>3
  <2>5. page' = [p EXCEPT !.doc = 1, !.print = page.print + 1, !.gen = page.gen + 1, !.focus = "none", !.open = 0,
                    !.queued = FALSE, !.hung = FALSE]
    BY <1>0, <2>2 DEF PageType
  <2> HIDE DEF p
  <2>6. \A a, b \in BOOLEAN : [p EXCEPT !.queued = a, !.hung = b] \in PageType
    BY <2>4 DEF PageType
  <2> DEFINE q == [p EXCEPT !.queued = FALSE, !.hung = FALSE]
  <2>7. q \in PageType
    BY <2>6
  <2>8. page' = [q EXCEPT !.doc = 1, !.print = page.print + 1, !.gen = page.gen + 1, !.focus = "none", !.open = 0]
    BY <2>4, <2>5 DEF PageType
  <2> HIDE DEF q
  <2>9. page' \in PageType
    BY <2>1, <2>7, <2>8 DEF PageType
  <2> QED BY <2>1, <2>7, <2>8, <2>9 DEF PageType
<1>2. Moves(drv, drv', drv.at) /\ drv'.late = {"focus", "control"} /\ drv'.outcome = drv.outcome /\ drv'.mark = drv.mark
  <2>1. drv.late \cup {"focus", "control"} = {"focus", "control"}
    BY <1>0 DEF DrvType
  <2>2. drv' = [drv EXCEPT !.late = {"focus", "control"}]
    BY <2>1 DEF Commits
  <2>3. drv' \in DrvType
    BY <1>0, <2>2 DEF DrvType
  <2> QED BY <1>0, <2>2, <2>3 DEF DrvType, Moves
<1>3. ActTypeOK' /\ FieldKept'
  BY <1>0, <1>1, <1>2 DEF ActInv, ActTypeOK, FieldKept, Moves
<1>4. RoutesKept' /\ AimKept' /\ ~sent'.leaked
  BY <1>0, <1>2 DEF ActInv, RoutesKept, AimKept, Moves
<1>5. EffectOnce'
  BY <1>0, <1>1, <1>2 DEF ActInv, EffectOnce, Moves
<1>6. SettleKept'
  <2>1. drv.mark \in Nat /\ page.gen \in Nat
    BY <1>0 DEF DrvType, PageType
  <2> QED BY <1>0, <1>1, <1>2, <2>1 DEF ActInv, SettleKept, Moves
<1> QED BY <1>3, <1>4, <1>5, <1>6 DEF ActInv

\* A step that leaves the driver, the control, the focus and the text as they are
\* can only disturb what the settle knows.
LEMMA BesideStep ==
  ASSUME ActInv, UNCHANGED <<scene, drv, sent>>, page' \in PageType,
         page'.doc = page.doc, page'.same = page.same, page'.pos = page.pos, page'.cover = page.cover,
         page'.drop = page.drop, page'.focus = page.focus, page'.text = page.text, SettleKept'
  PROVE  ActInv'
<1>1. HitTest' = HitTest /\ DropTest' = DropTest /\ Reaches' = Reaches
  BY DEF HitTest, Guard, DropTest, Reaches
<1>2. ActTypeOK' /\ FieldKept' /\ RoutesKept' /\ ~sent'.leaked
  BY DEF ActInv, ActTypeOK, FieldKept, RoutesKept
<1>3. EffectOnce'
  BY DEF ActInv, EffectOnce
<1>4. AimKept'
  BY <1>1 DEF ActInv, AimKept
<1> QED BY <1>2, <1>3, <1>4 DEF ActInv

\* Whatever ends a navigation, a load or a request is reported: the mark is passed.
LEMMA AbortsStep == ActInv /\ Aborts => ActInv'
<1> SUFFICES ASSUME ActInv, Aborts PROVE ActInv'
  OBVIOUS
<1>0. drv \in DrvType /\ page \in PageType /\ UNCHANGED <<scene, drv, sent>> /\ page.nav
  BY DEF Aborts, ActInv, ActTypeOK
<1>1. page.gen \in Nat /\ page.downloads \in Nat /\ drv.mark \in Nat
  BY <1>0 DEF PageType, DrvType
<1>2. ASSUME NEW b \in BOOLEAN, NEW m \in Nat, NEW n \in Nat
      PROVE  LET q == [page EXCEPT !.nav = b, !.gen = m, !.downloads = n] IN
             /\ q \in PageType /\ q.gen = m
             /\ q.doc = page.doc /\ q.same = page.same /\ q.pos = page.pos /\ q.cover = page.cover
             /\ q.drop = page.drop /\ q.focus = page.focus /\ q.text = page.text
  BY <1>0 DEF PageType
<1>3. /\ page' \in PageType /\ page'.gen = page.gen + 1
      /\ page'.doc = page.doc /\ page'.same = page.same /\ page'.pos = page.pos /\ page'.cover = page.cover
      /\ page'.drop = page.drop /\ page'.focus = page.focus /\ page'.text = page.text
  <2>1. page' = [page EXCEPT !.nav = FALSE, !.gen = page.gen + 1, !.downloads = page.downloads + 1]
    BY DEF Aborts
  <2>2. page.gen + 1 \in Nat /\ page.downloads + 1 \in Nat
    BY <1>1
  <2> QED BY <1>2, <2>1, <2>2
<1>4. SettleKept'
  BY <1>0, <1>1, <1>3 DEF ActInv, SettleKept
<1> QED BY <1>0, <1>3, <1>4, BesideStep

LEMMA LoadsStep == ActInv /\ Loads => ActInv'
<1> SUFFICES ASSUME ActInv, Loads PROVE ActInv'
  OBVIOUS
<1>0. drv \in DrvType /\ page \in PageType /\ UNCHANGED <<scene, drv, sent>>
  BY DEF Loads, ActInv, ActTypeOK
<1>1. page.gen \in Nat /\ drv.mark \in Nat
  BY <1>0 DEF PageType, DrvType
<1>2. ASSUME NEW b \in BOOLEAN, NEW m \in Nat
      PROVE  LET q == [page EXCEPT !.ready = b, !.gen = m] IN
             /\ q \in PageType /\ q.gen = m /\ q.print = page.print /\ q.open = page.open /\ q.queued = page.queued /\ q.nav = page.nav
             /\ q.doc = page.doc /\ q.same = page.same /\ q.pos = page.pos /\ q.cover = page.cover
             /\ q.drop = page.drop /\ q.focus = page.focus /\ q.text = page.text
  BY <1>0 DEF PageType
<1>3. /\ page' \in PageType /\ page'.gen = page.gen + 1
      /\ page'.print = page.print /\ page'.open = page.open /\ page'.queued = page.queued /\ page'.nav = page.nav
      /\ page'.doc = page.doc /\ page'.same = page.same /\ page'.pos = page.pos /\ page'.cover = page.cover
      /\ page'.drop = page.drop /\ page'.focus = page.focus /\ page'.text = page.text
  <2>1. page' = [page EXCEPT !.ready = TRUE, !.gen = page.gen + 1]
    BY DEF Loads
  <2>2. page.gen + 1 \in Nat
    BY <1>1
  <2> QED BY <1>2, <2>1, <2>2
<1>4. SettleKept'
  BY <1>0, <1>1, <1>3 DEF ActInv, SettleKept
<1> QED BY <1>0, <1>3, <1>4, BesideStep

LEMMA RequestEndsStep == ActInv /\ RequestEnds => ActInv'
<1> SUFFICES ASSUME ActInv, RequestEnds PROVE ActInv'
  OBVIOUS
<1>0. drv \in DrvType /\ page \in PageType /\ UNCHANGED <<scene, drv, sent>> /\ page.open > 0
  BY DEF RequestEnds, ActInv, ActTypeOK
<1>1. page.gen \in Nat /\ drv.mark \in Nat /\ page.open \in Nat
  BY <1>0 DEF PageType, DrvType
<1>2. ASSUME NEW b \in BOOLEAN, NEW m \in Nat, NEW n \in Nat
      PROVE  LET q == [page EXCEPT !.open = n, !.gen = m, !.queued = b] IN
             /\ q \in PageType /\ q.gen = m
             /\ q.doc = page.doc /\ q.same = page.same /\ q.pos = page.pos /\ q.cover = page.cover
             /\ q.drop = page.drop /\ q.focus = page.focus /\ q.text = page.text
  BY <1>0 DEF PageType
<1>3. /\ page' \in PageType /\ page'.gen = page.gen + 1
      /\ page'.doc = page.doc /\ page'.same = page.same /\ page'.pos = page.pos /\ page'.cover = page.cover
      /\ page'.drop = page.drop /\ page'.focus = page.focus /\ page'.text = page.text
  <2>1. page' = [page EXCEPT !.open = page.open - 1, !.gen = page.gen + 1, !.queued = TRUE]
    BY DEF RequestEnds
  <2>2. page.gen + 1 \in Nat /\ page.open - 1 \in Nat
    BY <1>0, <1>1
  <2> QED BY <1>2, <2>1, <2>2
<1>4. SettleKept'
  BY <1>0, <1>1, <1>3 DEF ActInv, SettleKept
<1> QED BY <1>0, <1>3, <1>4, BesideStep

LEMMA QueuedRunsStep == ActInv /\ QueuedRuns => ActInv'
<1> SUFFICES ASSUME ActInv, QueuedRuns PROVE ActInv'
  OBVIOUS
<1>0. page \in PageType /\ UNCHANGED <<scene, drv, sent>> /\ page.queued /\ page' = RunQueued(page)
  BY DEF QueuedRuns, ActInv, ActTypeOK
<1>1. /\ page' \in PageType /\ page'.gen = page.gen
      /\ page'.doc = page.doc /\ page'.same = page.same /\ page'.pos = page.pos /\ page'.cover = page.cover
      /\ page'.drop = page.drop /\ page'.focus = page.focus /\ page'.text = page.text
  BY <1>0, RunQueuedKeeps
<1>2. SettleKept'
  BY <1>0, <1>1 DEF ActInv, SettleKept
<1> QED BY <1>0, <1>1, <1>2, BesideStep

----------------------------------------------------------------------------
(* The theorems.                                                           *)

LEMMA ActStarts == ActInit => ActInv
<1> SUFFICES ASSUME ActInit PROVE ActInv
  OBVIOUS
<1>1. /\ scene \in Scenes /\ scene.cover \in Covers /\ scene.front \in BOOLEAN
  BY ScenesAssumption DEF ActInit
<1>2. (scene.op = "dialog") \in BOOLEAN
  OBVIOUS
<1>3. page \in PageType /\ page.focus \in {"none", "target"}
  BY <1>1, <1>2 DEF ActInit, PageType, Points
<1>4. drv \in DrvType /\ drv.at = "idle" /\ drv.field = "target" /\ ~drv.keyboard
  BY DEF ActInit, DrvType, Places, Points, NoMark
<1>5. sent \in SentType /\ sent.effects = 0 /\ sent.astray = {} /\ ~sent.leaked
  BY DEF ActInit, SentType
<1>6. ActTypeOK /\ FieldKept /\ RoutesKept
  BY <1>1, <1>3, <1>4, <1>5 DEF ActTypeOK, FieldKept, RoutesKept
<1>7. EffectOnce /\ AimKept /\ SettleKept
  BY <1>4, <1>5 DEF EffectOnce, AimKept, SettleKept, Settling
<1> QED BY <1>5, <1>6, <1>7 DEF ActInv

LEMMA ActStutters == ActInv /\ UNCHANGED avars => ActInv'
<1> SUFFICES ASSUME ActInv, UNCHANGED avars PROVE ActInv'
  OBVIOUS
<1>1. page \in PageType
  BY DEF ActInv, ActTypeOK
<1>2. SettleKept'
  BY DEF avars, ActInv, SettleKept
<1> QED BY <1>1, <1>2, BesideStep DEF avars

LEMMA ActPreserves == ActInv /\ [ActNext]_avars => ActInv'
<1> SUFFICES ASSUME ActInv, [ActNext]_avars PROVE ActInv'
  OBVIOUS
<1>1. CASE UNCHANGED avars
  BY <1>1, ActStutters
<1>2. CASE Driver
  BY <1>2, BeginStep, MeasureStep, LeaveStep, MarkStep, DispatchStep, UnansweredStep, RouteAroundStep, UncoverStep,
     CoverAgainStep, GuardHoldsStep, ActivationKeyStep, FocusStep, KeysReachStep, PressKeyStep, MoveToStep, StablePointStep,
     ClickPointStep, HandedFocusStep, FillNativeDateStep, InsertStep, LandedCheckStep, SelectStep, BlurStep, UploadStep,
     PlainStep, DropStep, DropAgainStep, LiftStep, DraggingStep, RestStep, ReleaseStep, AfterStep, SettleLookStep,
     SettleReadStep, SettleJudgeStep, SettleWaitStep, FollowStep
     DEF Driver
<1>3. CASE PageActs
  BY <1>3, PageAloneStep, CommitsStep, AbortsStep, LoadsStep, RequestEndsStep, QueuedRunsStep DEF PageActs
<1> QED BY <1>1, <1>2, <1>3 DEF ActNext

LEMMA ActInvariant == ActSpec => []ActInv
BY ActStarts, ActPreserves, PTL DEF ActSpec

\* On any page, whatever it does and however often: what `act` sends goes to what was
\* observed, a secret stays home, and a result of no change is true.
THEOREM ActIsKept == ActSpec => []ActKept
<1>1. ActInv => ActKept
  <2> SUFFICES ASSUME ActInv PROVE ActKept
    OBVIOUS
  <2>1. ActTypeOK /\ ReachesTheObserved /\ SecretStaysHome
    BY DEF ActInv, AimKept, ReachesTheObserved, SecretStaysHome
  <2>2. NoChangeIsTrue
    BY DEF ActInv, SettleKept, NoChangeIsTrue, At, Op
  <2> QED BY <2>1, <2>2 DEF ActKept
<1> QED BY <1>1, ActInvariant, PTL

----------------------------------------------------------------------------
(* `act` keeps its promise: each of its steps is one of ActPromise's.      *)

\* A step of the call leaves its place, for another one or for the end, and the
\* effect had stays had.
Forward ==
  /\ drv.at \notin {"idle", "done"} /\ drv'.at # "idle"
  /\ drv.at \in Settling \cup {"landed"} => UNCHANGED sent
LEMMA Leaves ==
  ASSUME drv \in DrvType
  PROVE  /\ \A a : Go(a) => drv'.at = a
         /\ \A o : Ends(o).at = "done" /\ \A b : [Ends(o) EXCEPT !.missed = b].at = "done"
         /\ \A o : Returns(o) => drv'.at = "done" /\ UNCHANGED sent
         /\ \A a : Input(a) => drv'.at \in {a, "done"}
<1>1. \A a : Go(a) => drv'.at = a
  BY DEF Go, DrvType
<1>2. \A o, c : LET x == [drv EXCEPT !.at = "done", !.outcome = o, !.changed = c] IN
        x.at = "done" /\ \A b : [x EXCEPT !.missed = b].at = "done"
  BY DEF DrvType
<1>3. \A o : Ends(o).at = "done" /\ \A b : [Ends(o) EXCEPT !.missed = b].at = "done"
  <2> TAKE o
  <2>1. Ends(o) = [drv EXCEPT !.at = "done", !.outcome = o, !.changed = page.dialog]
    BY DEF Ends
  <2> QED BY <1>2, <2>1
<1>4. \A o : Returns(o) => drv'.at = "done" /\ UNCHANGED sent
  BY <1>3 DEF Returns
<1>5. \A a : Input(a) => drv'.at \in {a, "done"}
  <2> TAKE a
  <2>1. CASE drv' = [drv EXCEPT !.at = a]
    BY <1>1, <2>1 DEF Go
  <2>2. CASE drv' = [Ends("error") EXCEPT !.missed = TRUE]
    BY <1>3, <2>2
  <2> QED BY <2>1, <2>2 DEF Input
<1> QED BY <1>1, <1>3, <1>4, <1>5, Zenon

LEMMA DriverForward ==
  ASSUME ActInv, Driver, ~Begin
  PROVE  Forward
<1>0. drv \in DrvType /\ Settling = {"after", "settle", "read", "judge", "waiting", "follow"}
  BY DEF ActInv, ActTypeOK, Settling
<1>1. CASE Measure
  <2>1. \A b : [drv EXCEPT !.drawn = b].at = drv.at
    BY <1>0 DEF DrvType
  <2>2. \A a, v, n : [Looked(drv) EXCEPT !.at = a, !.point = v, !.before = n].at = a
    BY <1>0 DEF DrvType, Looked
  <2>3. \/ drv' = [Ends("error") EXCEPT !.missed = TRUE] \/ drv' = [drv EXCEPT !.drawn = FALSE] \/ Returns("stale")
        \/ \E v, n : \E a \in {"leave", "mark"} : drv' = [Looked(drv) EXCEPT !.at = a, !.point = v, !.before = n]
    BY <1>1 DEF Measure
  <2>4. CASE drv' = [Ends("error") EXCEPT !.missed = TRUE] \/ Returns("stale")
    BY <1>0, <1>1, <2>4, Leaves DEF Measure, At, Forward
  <2>5. CASE drv' = [drv EXCEPT !.drawn = FALSE]
    BY <1>0, <1>1, <2>1, <2>5 DEF Measure, At, Forward
  <2>6. ASSUME NEW v, NEW n, NEW a \in {"leave", "mark"}, drv' = [Looked(drv) EXCEPT !.at = a, !.point = v, !.before = n]
        PROVE  Forward
    BY <1>0, <1>1, <2>2, <2>6 DEF Measure, At, Forward
  <2> QED BY <2>3, <2>4, <2>5, <2>6
<1>2. CASE LeaveSuggestingField
  BY <1>0, <1>2, Leaves DEF LeaveSuggestingField, Forward, At, DrvType
<1>3. CASE Mark
  BY <1>0, <1>3, Leaves DEF Mark, Forward, At, DrvType
<1>4. CASE Dispatch
  BY <1>0, <1>4, Leaves DEF Dispatch, Click, Hover, Key, GoesTo, Forward, At
<1>5. CASE Unanswered
  BY <1>0, <1>5, Leaves, ZenonT(60) DEF Unanswered, Evaluating, Forward, At, DrvType
<1>6. CASE RouteAround
  BY <1>0, <1>6, Leaves DEF RouteAround, Forward, At, Go, DrvType
<1>7. CASE Uncover
  <2>1. \A v, a, b : [drv EXCEPT !.at = a, !.point = v, !.drawn = b].at = a
    BY <1>0 DEF DrvType
  <2>2. \A o, c : [drv EXCEPT !.at = "done", !.outcome = o, !.changed = c].at = "done"
    BY <1>0 DEF DrvType
  <2>3. drv'.at \in {"done", "move", "recover"}
    <3>1. CASE Returns("stale")
      BY <1>0, <3>1, Leaves
    <3>2. CASE ~Returns("stale")
      <4>1. PICK clear \in BOOLEAN : \E p, v : \E gone \in BOOLEAN :
              drv' = IF gone THEN [drv EXCEPT !.at = "done", !.outcome = "stale", !.changed = p.dialog]
                     ELSE [drv EXCEPT !.at = IF clear THEN "move" ELSE "recover", !.point = v, !.drawn = FALSE]
        BY <1>7, <3>2 DEF Uncover
      <4> QED BY <2>1, <2>2, <4>1
    <3> QED BY <3>1, <3>2
  <2> QED BY <1>0, <1>7, <2>3 DEF Uncover, Forward, At
<1>8. CASE CoverAgain
  BY <1>0, <1>8, Leaves DEF CoverAgain, Forward, At
<1>9. CASE GuardHolds
  BY <1>0, <1>9, Leaves DEF GuardHolds, Looked, Forward, At, DrvType
<1>10. CASE ActivationKey
  BY <1>0, <1>10, Leaves DEF ActivationKey, Forward, At
<1>11. CASE Focus
  BY <1>0, <1>11, Leaves, ZenonT(60) DEF Focus, Focused, Forward, At, DrvType
<1>12. CASE KeysReach
  BY <1>0, <1>12, Leaves DEF KeysReach, Looked, Forward, At, DrvType
<1>13. CASE PressKey
  BY <1>0, <1>13, Leaves DEF PressKey, Forward, At
<1>14. CASE MoveTo
  BY <1>0, <1>14, Leaves DEF MoveTo, Forward, At
<1>15. CASE StablePoint
  BY <1>0, <1>15, Leaves DEF StablePoint, Looked, Forward, At, DrvType
<1>16. CASE ClickPoint
  BY <1>0, <1>16, Leaves DEF ClickPoint, Forward, At
<1>17. CASE HandedFocus
  <2>1. \A a, f, b : [drv EXCEPT !.at = a, !.field = f, !.activate = b].at = a
    BY <1>0 DEF DrvType
  <2>2. \A o, c : [drv EXCEPT !.at = "done", !.outcome = o, !.changed = c].at = "done"
    BY <1>0 DEF DrvType
  <2>3. \A f : Looked(Focused([drv EXCEPT !.at = "insert", !.field = f])).at = "insert"
    BY <1>0 DEF DrvType, Looked, Focused
  <2>4. [drv EXCEPT !.at = "native"].at = "native"
    BY <1>0 DEF DrvType
  <2>5. drv'.at \in {"done", "native", "focus", "insert"}
    <3>1. \/ Returns("failed") \/ drv' = [drv EXCEPT !.at = "native"]
          \/ \E f : drv' = [drv EXCEPT !.at = "focus", !.field = f, !.activate = TRUE]
          \/ \E f, p : drv' = IF p.focus # f THEN [drv EXCEPT !.at = "done", !.outcome = "failed", !.changed = p.dialog]
                               ELSE IF p.cover \in {"obstruction", "other"}
                               THEN [drv EXCEPT !.at = "done", !.outcome = "covered", !.changed = p.dialog]
                               ELSE Looked(Focused([drv EXCEPT !.at = "insert", !.field = f]))
      BY <1>17, Zenon DEF HandedFocus
    <3>2. CASE Returns("failed")
      BY <1>0, <3>2, Leaves
    <3>3. ASSUME NEW f, drv' = [drv EXCEPT !.at = "focus", !.field = f, !.activate = TRUE] PROVE drv'.at = "focus"
      BY <2>1, <3>3, Zenon
    <3>4. ASSUME NEW f, NEW p,
                 drv' = IF p.focus # f THEN [drv EXCEPT !.at = "done", !.outcome = "failed", !.changed = p.dialog]
                        ELSE IF p.cover \in {"obstruction", "other"}
                        THEN [drv EXCEPT !.at = "done", !.outcome = "covered", !.changed = p.dialog]
                        ELSE Looked(Focused([drv EXCEPT !.at = "insert", !.field = f]))
          PROVE  drv'.at \in {"done", "insert"}
      BY <2>2, <2>3, <3>4
    <3> QED BY <2>4, <3>1, <3>2, <3>3, <3>4
  <2> QED BY <1>0, <1>17, <2>5 DEF HandedFocus, Forward, At
<1>18. CASE FillNativeDate
  BY <1>0, <1>18, Leaves DEF FillNativeDate, Forward, At, DrvType
<1>19. CASE Insert
  BY <1>0, <1>19, Leaves DEF Insert, Forward, At
<1>20. CASE LandedCheck
  BY <1>0, <1>20, Leaves, ZenonT(60) DEF LandedCheck, Forward, At, Go, DrvType
<1>21. CASE Select
  BY <1>0, <1>21, Leaves DEF Select, Forward, At, DrvType
<1>22. CASE Blur
  BY <1>0, <1>22, Leaves DEF Blur, Forward, At
<1>23. CASE Upload
  BY <1>0, <1>23, Leaves DEF Upload, Forward, At
<1>24. CASE AnswerDialog
  BY <1>0, <1>24, Leaves DEF AnswerDialog, Forward, At
<1>25. CASE Scroll
  BY <1>0, <1>25, Leaves DEF Scroll, Forward, At
<1>26. CASE AwaitChange
  BY <1>0, <1>26, Leaves DEF AwaitChange, Forward, At
<1>27. CASE SwitchTab
  BY <1>0, <1>27, Leaves DEF SwitchTab, Forward, At
<1>28. CASE Back
  BY <1>0, <1>28, Leaves DEF Back, Forward, At
<1>29. CASE Navigate
  BY <1>0, <1>29, Leaves DEF Navigate, Forward, At
<1>30. CASE Drop
  BY <1>0, <1>30, Leaves DEF Drop, Forward, At
<1>31. CASE DropAgain
  BY <1>0, <1>31, Leaves DEF DropAgain, Forward, At, DrvType
<1>32. CASE Lift
  BY <1>0, <1>32, Leaves DEF Lift, Forward, At
<1>33. CASE Dragging
  BY <1>0, <1>33, Leaves DEF Dragging, Looked, Forward, At, DrvType
<1>34. CASE Rest
  BY <1>0, <1>34, Leaves, ZenonT(60) DEF Rest, Looked, Forward, At, DrvType
<1>35. CASE Release
  BY <1>0, <1>35, Leaves DEF Release, Forward, At
<1>36. CASE After
  BY <1>0, <1>36, Leaves DEF After, Forward, At, DrvType
<1>37. CASE SettleLook
  BY <1>0, <1>37, Leaves DEF SettleLook, Settled, Forward, At, DrvType
<1>38. CASE SettleRead
  BY <1>0, <1>38, Leaves DEF SettleRead, Settled, Deadline, Forward, At, DrvType
<1>39. CASE SettleJudge
  BY <1>0, <1>39, Leaves DEF SettleJudge, Settled, Forward, At, DrvType
<1>40. CASE SettleWait
  BY <1>0, <1>40, Leaves DEF SettleWait, Settled, Deadline, Forward, At, DrvType
<1>41. CASE Follow
  BY <1>0, <1>41, Leaves DEF Follow, Forward, At, DrvType
<1> QED BY <1>1, <1>2, <1>3, <1>4, <1>5, <1>6, <1>7, <1>8, <1>9, <1>10, <1>11, <1>12, <1>13, <1>14, <1>15, <1>16, <1>17, <1>18, <1>19, <1>20, <1>21, <1>22, <1>23, <1>24, <1>25, <1>26, <1>27, <1>28, <1>29, <1>30, <1>31, <1>32, <1>33, <1>34, <1>35, <1>36, <1>37, <1>38, <1>39, <1>40, <1>41 DEF Driver

\* The phase the promise sees.
Phase == IF drv.at = "done" THEN drv.outcome ELSE IF drv.at = "idle" THEN "idle" ELSE "asked"

LEMMA BeginAsks ==
  ASSUME ActInv, Begin
  PROVE  drv.at = "idle" /\ UNCHANGED sent /\ (drv'.at \in {"mark", "measure"} \/ (drv'.at = "done" /\ drv'.outcome = "stale"))
<1>0. drv \in DrvType /\ ActTypeOK
  BY DEF ActInv, ActTypeOK
<1>1. CASE Returns("stale")
  BY <1>0, <1>1, EndsType DEF Begin, At, Returns, Moves
<1>2. CASE drv' = [drv EXCEPT !.at = IF page.dialog THEN "mark" ELSE "measure", !.drawn = Op({"click", "fill", "hover"})]
           /\ UNCHANGED <<scene, page, sent>>
  <2>1. \A a, b : [drv EXCEPT !.at = a, !.drawn = b].at = a
    BY <1>0 DEF DrvType
  <2>2. drv'.at = IF page.dialog THEN "mark" ELSE "measure"
    BY <1>2, <2>1, Zenon
  <2> QED BY <1>2, <2>2 DEF Begin, At
<1> QED BY <1>1, <1>2 DEF Begin

\* What the page does is no step of the call.
LEMMA PageActsBeside ==
  ASSUME ActInv, PageActs
  PROVE  UNCHANGED sent /\ drv'.at = drv.at /\ drv'.outcome = drv.outcome
<1>0. drv \in DrvType
  BY DEF ActInv, ActTypeOK
<1> QED BY <1>0 DEF PageActs, PageAlone, Commits, Aborts, Loads, RequestEnds, QueuedRuns, DrvType

\* Each step of `act` is a step of the promise, or none.
LEMMA PromiseStep ==
  ASSUME ActInv, ActInv', [ActNext]_avars
  PROVE  [Promise!PromiseNext]_(Promise!pvars)
<1> DEFINE Step(p, q, e, f) ==
             \/ p = "idle" /\ q = "asked" /\ f = e
             \/ p = "asked" /\ e = 0 /\ f = 1 /\ q \in {"asked", "failed", "error", "executed"}
             \/ p \in {"idle", "asked"} /\ e = 0 /\ q \in {"stale", "covered"} /\ f = e
             \/ p = "asked" /\ q \in {"failed", "error"} /\ f = e
             \/ p = "asked" /\ e = 1 /\ q = "executed" /\ f = e
             \/ q = p /\ f = e
<1>1. SUFFICES Step(Phase, Phase', sent.effects, sent'.effects)
  BY DEF Promise!PromiseNext, Promise!pvars, Promise!Ask, Promise!Effect, Promise!Refuse, Promise!Fail, Promise!Execute, Phase, At
<1>2. drv'.outcome \in {"none", "stale", "covered", "failed", "error", "executed"}
  BY DEF ActInv, ActTypeOK, DrvType
<1>3. CASE UNCHANGED avars
  BY <1>3 DEF avars, Phase
<1>4. CASE PageActs
  BY <1>4, PageActsBeside DEF Phase
<1>5. CASE Begin
  BY <1>5, BeginAsks DEF Phase, ActInv, EffectOnce, Settling
<1>6. CASE Driver /\ ~Begin
  <2>1. Forward
    BY <1>6, DriverForward
  <2>2. sent.effects \in {0, 1} /\ sent'.effects \in {0, 1} /\ (sent.effects = 1 => sent'.effects = 1)
    BY <2>1 DEF Forward, ActInv, EffectOnce
  <2>3. CASE drv'.at # "done"
    BY <2>1, <2>2, <2>3 DEF Forward, Phase
  <2>4. CASE drv'.at = "done"
    <3>1. /\ drv'.outcome # "none"
          /\ drv'.outcome \in {"stale", "covered"} => sent'.effects = 0
          /\ drv'.outcome = "executed" => sent'.effects = 1
      BY <2>4 DEF ActInv, EffectOnce
    <3> QED BY <1>2, <2>1, <2>2, <2>4, <3>1 DEF Forward, Phase
  <2> QED BY <2>3, <2>4
<1> QED BY <1>3, <1>4, <1>5, <1>6 DEF ActNext

\* One call of `act` has its effect at most once, and a refusal means it had none:
\* the detailed driver implements ActPromise.
THEOREM ActKeepsItsPromise == ActSpec => PromiseKept
<1>1. ActInit => Promise!PromiseInit
  BY DEF ActInit, Promise!PromiseInit, At
<1> QED BY <1>1, ActInvariant, PromiseStep, PTL DEF ActSpec, PromiseKept, Promise!PromiseSpec
=============================================================================
