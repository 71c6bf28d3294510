------------------------------ MODULE Recording ------------------------------
(* The video of a run (recording.rs): a cast that follows the active tab, a     *)
(* ticker that writes its latest frame, and the files left at the end.  Chrome  *)
(* sends its frames and its answers down one connection, in order; the run      *)
(* types, looks and switches tabs while the ticker goes on.                     *)
EXTENDS Integers, Sequences, FiniteSets

CONSTANTS
  FilmTabs,     \* the sessions of the tabs
  MaxSent,      \* bound: messages under way from Chrome
  MaxTyped      \* bound: secrets typed and tabs switched

ASSUME FilmAssumption == FilmTabs # {} /\ MaxSent \in Nat \ {0} /\ MaxTyped \in Nat

VARIABLES
  fph,       \* off, on, closing, still, shot, drain, encode, bare, copy1, place1, copy2, place2, done, refused, killed
  ticks,     \* the ticker: look, cast, write, gone
  casting,   \* Frames.casting
  recast,    \* the session a cast is being started on
  casts,     \* the sessions Chrome casts
  quiet,     \* no frame for RECAST_SECONDS
  frame,     \* Frames.frame: none, clean, held
  begun,     \* first_frame_at is set
  film,      \* the frames the lossless video shows
  sent,      \* from Chrome, in order
  showing,   \* the tabs that show a secret the run typed
  active,
  withheld,  \* State.frames_withheld
  agent,     \* idle, typing, looking, switching, left
  typed,
  disk,      \* what stands at the two paths
  outs       \* Recording.outputs

filmVars == <<fph, ticks, casting, recast, casts, quiet, frame, begun, film, sent, showing, active, withheld, agent, typed, disk, outs>>
tickerVars == <<ticks, casting, recast, casts, quiet, film, begun>>
pageVars == <<sent, showing, active, withheld, agent, typed>>
fileVars == <<disk, outs>>

Videos == {"captioned", "plain"}
Going == fph = "on"
\* The picture a frame of this tab is, taken now.
Picture(tab) == IF tab \in showing /\ withheld THEN "held" ELSE "clean"

FilmInit ==
  /\ fph = "off" /\ ticks = "gone" /\ casting = "none" /\ recast = "none" /\ casts = {} /\ quiet = FALSE
  /\ frame = "none" /\ begun = FALSE /\ film = {} /\ sent = <<>> /\ showing = {} /\ withheld = FALSE
  /\ active = (CHOOSE t \in FilmTabs : TRUE) /\ agent = "idle" /\ typed = 0
  /\ disk = [v \in Videos |-> "old"] /\ outs = {}

\* A scoped run, or one without ffmpeg, is not recorded.
StartWithMarks ==
  /\ fph = "off"
  /\ \/ fph' = "on" /\ ticks' = "look"
     \/ fph' = "refused" /\ UNCHANGED ticks
  /\ UNCHANGED <<casting, recast, casts, quiet, frame, begun, film, pageVars, fileVars>>

----------------------------------------------------------------------------
(* The run.                                                                   *)

\* Frames are held back from the keystrokes on; a cancelled run leaves them to land.
RunTypes ==
  /\ Going /\ agent = "idle" /\ typed < MaxTyped /\ typed' = typed + 1
  /\ agent' = "typing" /\ withheld' = TRUE
  /\ UNCHANGED <<fph, tickerVars, frame, sent, showing, active, fileVars>>
KeysLand ==
  /\ agent = "typing" /\ agent' = (IF Going THEN "idle" ELSE "left") /\ showing' = showing \cup {active}
  /\ UNCHANGED <<fph, tickerVars, frame, sent, active, withheld, typed, fileVars>>
\* The page is read: what it shows, answered in the order of the frames.
RunLooks ==
  /\ Going /\ agent = "idle" /\ Len(sent) < MaxSent /\ agent' = "looking"
  /\ sent' = Append(sent, [kind |-> "seen", tab |-> active, reveals |-> active \in showing])
  /\ UNCHANGED <<fph, tickerVars, frame, showing, active, withheld, typed, fileVars>>
Reveals ==
  /\ sent # <<>> /\ Head(sent).kind = "seen" /\ sent' = Tail(sent)
  /\ IF Going THEN withheld' = Head(sent).reveals /\ agent' = "idle" ELSE agent' = "left" /\ UNCHANGED withheld
  /\ UNCHANGED <<fph, tickerVars, frame, showing, active, typed, fileVars>>
\* `act` measures the page before it switches the tab, and the answer too comes in the
\* order of the frames: one taken before it has arrived.
RunSwitches ==
  /\ Going /\ agent = "idle" /\ typed < MaxTyped /\ typed' = typed + 1 /\ Len(sent) < MaxSent
  /\ agent' = "switching" /\ sent' = Append(sent, [kind |-> "measured", tab |-> active])
  /\ UNCHANGED <<fph, tickerVars, frame, showing, active, withheld, fileVars>>
SwitchTab ==
  /\ sent # <<>> /\ Head(sent).kind = "measured" /\ sent' = Tail(sent)
  /\ IF Going THEN active' \in FilmTabs \ {active} /\ agent' = "idle" ELSE agent' = "left" /\ UNCHANGED active
  /\ UNCHANGED <<fph, tickerVars, frame, showing, withheld, typed, fileVars>>

----------------------------------------------------------------------------
(* Chrome.                                                                    *)

PageClears ==
  /\ active \in showing /\ showing' = showing \ {active}
  /\ UNCHANGED <<fph, tickerVars, frame, sent, active, withheld, agent, typed, fileVars>>
Paints ==
  /\ Len(sent) < MaxSent /\ fph \in {"on", "closing", "still", "shot"}
  /\ \E tab \in casts : sent' = Append(sent, [kind |-> "frame", tab |-> tab, picture |-> Picture(tab)])
  /\ UNCHANGED <<fph, tickerVars, frame, showing, active, withheld, agent, typed, fileVars>>
\* A start can go unanswered, and a swap of renderer ends a cast.
CastEnds ==
  /\ Going /\ \E tab \in casts : casts' = casts \ {tab}
  /\ UNCHANGED <<fph, ticks, casting, recast, quiet, film, begun, frame, pageVars, fileVars>>

\* The frame tap: only the active tab's own cast, and its picture only while no
\* frame is held back.
KeepsAny(f) == TRUE
Keeps(f) == ~withheld
FrameArrives ==
  /\ sent # <<>> /\ Head(sent).kind = "frame" /\ sent' = Tail(sent)
  /\ IF Going /\ Head(sent).tab = active
     THEN quiet' = FALSE /\ frame' = (IF Keeps(Head(sent)) THEN Head(sent).picture ELSE frame)
     ELSE UNCHANGED <<quiet, frame>>
  /\ UNCHANGED <<fph, ticks, casting, recast, casts, film, begun, showing, active, withheld, agent, typed, fileVars>>

----------------------------------------------------------------------------
(* The ticker.                                                                *)

GoesQuiet ==
  /\ Going /\ casting # "none" /\ ~quiet /\ quiet' = TRUE
  /\ UNCHANGED <<fph, ticks, casting, recast, casts, film, begun, frame, pageVars, fileVars>>
Tick ==
  /\ Going /\ ticks = "look"
  /\ IF casting # active \/ quiet THEN ticks' = "cast" /\ recast' = active ELSE ticks' = "write" /\ UNCHANGED recast
  /\ UNCHANGED <<fph, casting, casts, quiet, film, begun, frame, pageVars, fileVars>>
Cast ==
  /\ Going /\ ticks = "cast" /\ ticks' = "write" /\ casting' = recast /\ quiet' = FALSE /\ recast' = "none"
  /\ casts' \in {casts \ {casting}, (casts \ {casting}) \cup {recast}}
  /\ UNCHANGED <<fph, film, begun, frame, pageVars, fileVars>>
TickWrites ==
  /\ Going /\ ticks = "write"
  /\ IF frame = "none" THEN ticks' = "look" /\ UNCHANGED <<film, begun>>
     ELSE \/ ticks' = "look" /\ film' = film \cup {frame} /\ begun' = TRUE
          \/ ticks' = "gone" /\ UNCHANGED <<film, begun>>
  /\ UNCHANGED <<fph, casting, recast, casts, quiet, frame, pageVars, fileVars>>

----------------------------------------------------------------------------
(* The end.                                                                   *)

\* The result card replaces the page of the tab; a cancelled run shows none.
ShowResult ==
  /\ Going /\ agent = "idle" /\ showing' = showing \ {active} /\ agent' = "left"
  /\ UNCHANGED <<fph, tickerVars, frame, sent, active, withheld, typed, fileVars>>
\* The ticker is aborted and awaited, and the tap taken off.
Finish ==
  /\ Going /\ fph' = "closing" /\ ticks' = "gone"
  /\ UNCHANGED <<casting, recast, casts, quiet, film, begun, frame, pageVars, fileVars>>
\* A run that ended before its first frame was written: the frame held, or one still.
CloseFilm ==
  /\ fph = "closing"
  /\ \/ begun /\ fph' = "drain" /\ UNCHANGED <<film, begun>>
     \/ ~begun /\ frame # "none"
        /\ \/ fph' = "drain" /\ film' = {frame} /\ begun' = TRUE
           \/ fph' = "done" /\ UNCHANGED <<film, begun>>
     \/ ~begun /\ frame = "none" /\ fph' = (IF withheld THEN "done" ELSE "still") /\ UNCHANGED <<film, begun>>
  /\ UNCHANGED <<ticks, casting, recast, casts, quiet, frame, pageVars, fileVars>>
Still ==
  /\ fph = "still"
  /\ \/ /\ Len(sent) < MaxSent /\ fph' = "shot"
        /\ sent' = Append(sent, [kind |-> "shot", tab |-> active, picture |-> Picture(active)])
     \/ fph' = "done" /\ UNCHANGED sent
  /\ UNCHANGED <<tickerVars, frame, showing, active, withheld, agent, typed, fileVars>>
\* Checked again once the image is there; STILL_SECONDS may pass first.
Shot ==
  /\ \/ /\ sent # <<>> /\ Head(sent).kind = "shot" /\ sent' = Tail(sent)
        /\ IF fph = "shot" /\ Keeps(Head(sent))
           THEN fph' = "drain" /\ film' = {Head(sent).picture} /\ begun' = TRUE
           ELSE fph' = (IF fph = "shot" THEN "done" ELSE fph) /\ UNCHANGED <<film, begun>>
     \/ fph = "shot" /\ fph' = "done" /\ UNCHANGED <<sent, film, begun>>
  /\ UNCHANGED <<ticks, casting, recast, casts, quiet, frame, showing, active, withheld, agent, typed, fileVars>>

\* The lossless pass, then both videos; without captions when they are what failed.
EncodeAll ==
  /\ \/ fph = "drain" /\ fph' \in {"encode", "done"}
     \/ fph = "encode" /\ fph' \in {"copy1", "bare", "done"}
     \/ fph = "bare" /\ fph' \in {"copy1", "done"}
  /\ UNCHANGED <<tickerVars, frame, pageVars, fileVars>>

\* Copied beside the path, then renamed over it; a failure leaves what was there.
VideoAt == IF fph \in {"copy1", "place1"} THEN "captioned" ELSE "plain"
CopyBeside == disk
AfterVideo == IF VideoAt = "captioned" THEN "copy2" ELSE "done"
Replace ==
  /\ \/ fph \in {"copy1", "copy2"} /\ disk' = CopyBeside /\ UNCHANGED outs
        /\ fph' \in {AfterVideo, IF fph = "copy1" THEN "place1" ELSE "place2"}
     \/ /\ fph \in {"place1", "place2"} /\ fph' = AfterVideo
        /\ \/ disk' = [disk EXCEPT ![VideoAt] = "new"] /\ outs' = outs \cup {VideoAt}
           \/ UNCHANGED fileVars
  /\ UNCHANGED <<tickerVars, frame, pageVars>>

\* The process may die at any moment of it.
ProcessKilled ==
  /\ fph \notin {"done", "refused", "killed", "off"} /\ fph' = "killed"
  /\ UNCHANGED <<tickerVars, frame, pageVars, fileVars>>

FilmEnds == CloseFilm \/ Still \/ Shot \/ EncodeAll \/ Replace
FilmNext ==
  \/ StartWithMarks \/ RunTypes \/ KeysLand \/ RunLooks \/ Reveals \/ RunSwitches \/ SwitchTab \/ PageClears \/ Paints \/ CastEnds
  \/ FrameArrives \/ GoesQuiet \/ Tick \/ Cast \/ TickWrites \/ ShowResult \/ Finish \/ ProcessKilled \/ FilmEnds

----------------------------------------------------------------------------
\* The video never shows a secret frames were held back for when the picture was
\* taken: not one that arrives late, not the last frame kept for the ticker, nor
\* the still of a run that ended early (the frame tap, `tick`, `still`).
HeldNeverFilmed == "held" \notin film

\* At every moment, a crash of the process included, each path holds a whole video,
\* the earlier one or the new one, and only new ones are reported (`replace`).
VideosWhole == \A v \in Videos : disk[v] \in {"old", "new"} /\ (v \in outs => disk[v] = "new")
=============================================================================
