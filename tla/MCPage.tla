------------------------------- MODULE MCPage -------------------------------
(* PageAct and PageRead for TLC: the run makes one call at a time, an action   *)
(* or a read.  Each scene is a call, with the things its page may do in answer *)
(* and by itself.                                                              *)
EXTENDS PageAct, PageRead

CONSTANTS f1, f2

VARIABLE part  \* which of the two this behaviour is about

Plainly(op) ==
  [op |-> op, known |-> TRUE, secret |-> FALSE, authorized |-> TRUE, origin |-> "authorized", cover |-> "none", front |-> TRUE,
   timers |-> "fine", suggesting |-> FALSE, key |-> TRUE, native |-> FALSE, fits |-> TRUE, apart |-> TRUE, file |-> FALSE,
   pending |-> FALSE, marked |-> "none", repeated |-> FALSE, reacts |-> {}, alone |-> {}]

Control == {"repurpose", "vanish", "shift", "band", "obstruction", "clear", "navigate", "dialog"}
FocusKinds == {"away", "editor", "behind"}
Effects == {"request", "redraw", "window", "navigate", "dialog", "hang"}

MCScenes ==
  \* Pointer and keyboard routes, under every cover.
  {[Plainly("click") EXCEPT !.cover = c, !.key = k, !.suggesting = c = "other", !.reacts = Control, !.alone = {"repurpose", "navigate"}]
     : c \in {"none", "band", "obstruction", "other"}, k \in BOOLEAN}
  \cup {[Plainly("click") EXCEPT !.cover = "band", !.front = FALSE, !.reacts = {"repurpose", "obstruction", "away", "behind"}, !.alone = FocusKinds]}
  \cup {[Plainly("enter") EXCEPT !.cover = c, !.reacts = {"obstruction", "repurpose", "away", "navigate"}, !.alone = FocusKinds]
     : c \in {"none", "band"}}
  \* Fills: the editor that takes over, the date, the secret.
  \cup {[Plainly("fill") EXCEPT !.cover = c, !.front = f, !.reacts = {"editor", "obstruction", "away", "repurpose", "dialog"}, !.alone = FocusKinds \cup {"repurpose"}]
     : c \in {"none", "band"}, f \in BOOLEAN}
  \cup {[Plainly("fill") EXCEPT !.native = TRUE, !.cover = c, !.reacts = {"navigate", "repurpose"}] : c \in {"none", "band"}}
  \cup {[Plainly("fill") EXCEPT !.secret = TRUE, !.authorized = a, !.origin = o, !.reacts = {"navigate", "editor", "away"}, !.alone = {"navigate", "away", "editor"}]
     : a \in BOOLEAN, o \in {"authorized", "elsewhere"}}
  \* The rest.
  \cup {[Plainly("drag") EXCEPT !.apart = a, !.reacts = {"dropshift", "dropchange", "repurpose", "shift"}, !.alone = {"dropshift", "dialog"}] : a \in BOOLEAN}
  \cup {[Plainly(op) EXCEPT !.reacts = {"repurpose", "navigate", "redraw"}, !.alone = {"navigate", "dialog", "away"}] : op \in {"select", "blur", "upload", "hover"}}
  \cup {[Plainly("select") EXCEPT !.cover = "band"], [Plainly("upload") EXCEPT !.fits = FALSE], [Plainly("click") EXCEPT !.known = FALSE]}
  \cup {[Plainly("hover") EXCEPT !.timers = t] : t \in {"never", "throw"}}
  \cup {[Plainly(op) EXCEPT !.marked = "here", !.reacts = {"navigate", "redraw"}] : op \in {"dialog", "escape", "scroll", "wait", "switch", "back", "navigate"}}
  \* What settles and what does not.
  \cup {[Plainly("click") EXCEPT !.pending = p, !.file = f, !.repeated = f, !.reacts = Effects, !.alone = {"redraw", "request", "hang"}]
     : p \in BOOLEAN, f \in BOOLEAN}

Call(op) ==
  [op |-> op, scoped |-> FALSE, away |-> FALSE, ways |-> {}, frames |-> {}, wedged |-> FALSE, owned |-> TRUE,
   file |-> FALSE, background |-> TRUE, parents |-> [f \in Frames |-> "main"], answers |-> [f \in Frames |-> "answers"]]
MCReadScenes ==
  {[Call(op) EXCEPT !.parents = [Call(op).parents EXCEPT ![f2] = p], !.answers = [Call(op).answers EXCEPT ![f1] = a],
                    !.frames = Frames, !.ways = {"lose"}]
     : op \in {"observe", "capture"}, p \in {"main", f1}, a \in {"answers", "silent", "fails"}}
  \cup {[Call(op) EXCEPT !.ways = w \cup {"push", "ask"}] : op \in {"observe", "glance", "address", "changed", "redrawn"}, w \in {{}, {"replace"}}}
  \cup {[Call(op) EXCEPT !.scoped = TRUE, !.frames = {f1}] : op \in {"observe", "capture", "address", "screenshot"}}
  \cup {[Call("navigate") EXCEPT !.wedged = w, !.owned = o, !.file = TRUE, !.scoped = o, !.away = o /\ w] : w, o \in BOOLEAN}
  \cup {Call("screenshot")}

MCInit == ActInit /\ ReadInit /\ part \in {"act", "read"} /\ (part = "act" => rscene = CHOOSE s \in ReadScenes : TRUE)
                 /\ (part = "read" => scene = CHOOSE s \in Scenes : TRUE)
MCNext ==
  \/ part = "act" /\ ActNext /\ UNCHANGED <<rvars, part>>
  \/ part = "read" /\ ReadNext /\ UNCHANGED <<avars, part>>
  \/ (At("done") \/ In("done")) /\ UNCHANGED <<avars, rvars, part>>
MCSpec == MCInit /\ [][MCNext]_<<avars, rvars, part>> /\ WF_avars(part = "act" /\ Driver) /\ WF_rvars(part = "read" /\ Reads)

----------------------------------------------------------------------------
\* Every call on a page returns, whatever the page does or leaves unanswered.
PageReturns == ActReturns /\ ReadReturns
=============================================================================
