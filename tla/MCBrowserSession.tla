--------------------------- MODULE MCBrowserSession ---------------------------
(* BrowserSession for TLC: one scene per hard part of the session, since their *)
(* events touch disjoint state: windows, the live cast, responses, dialogs.    *)
EXTENDS BrowserSession
CONSTANTS t1, t2, t3, f1, f2

Windows(a, b) == [t \in Targets |-> IF t = t2 THEN a ELSE IF t = t3 THEN b ELSE "none"]
Plain == [attach |-> FALSE, match |-> FALSE, matches |-> {}, scoped |-> FALSE, frames |-> FALSE, faults |-> FALSE,
          commits |-> FALSE, alerts |-> FALSE, windows |-> {}, dies |-> {}, subframes |-> {}, responses |-> {},
          kinds |-> Windows("none", "none")]

MCConfs ==
  \* Windows of the run's own tab, handed over or not, opening and closing.
  {[Plain EXCEPT !.windows = {t2, t3}, !.dies = {t2}],
   [Plain EXCEPT !.windows = {t2}, !.dies = {t1, t2}, !.faults = TRUE, !.commits = TRUE]}
  \* Attached to one of the user's windows, which may open another.
  \cup {[Plain EXCEPT !.attach = TRUE, !.match = m, !.matches = {t2}, !.windows = {t3}, !.dies = {t3},
           !.commits = TRUE, !.kinds = Windows(k, "none")] : m \in BOOLEAN, k \in {"web", "app", "internal", "outside"}}
  \cup {[Plain EXCEPT !.attach = TRUE, !.kinds = Windows(k, "blank")] : k \in {"internal", "web"}}
  \* The live cast, while the run changes tab.
  \cup {[Plain EXCEPT !.frames = TRUE, !.windows = {t2}, !.dies = {t2}],
        [Plain EXCEPT !.frames = TRUE, !.faults = TRUE]}
  \* Responses, with and without a grant.
  \cup {[Plain EXCEPT !.scoped = s, !.faults = TRUE, !.responses = Responses] : s \in BOOLEAN}
  \* Dialogs of the tab and of frames inside it.
  \cup {[Plain EXCEPT !.alerts = TRUE, !.subframes = Subframes]}

\* The session stays closed, or the run rests.
Rests == /\ (At("closed") \/ At("free")) /\ UNCHANGED svars
MCNext == SessionNext \/ Rests
MCSpec == SessionInit /\ [][MCNext]_svars /\ SessionFairness

----------------------------------------------------------------------------
\* Nobody is left waiting: no frame unacked, no response paused, no run that follows
\* a window (session.rs `deliver`, `handle_paused`, `follow_popup`).
NothingWaits == FramesAcked /\ PausedReleased /\ FollowReturns
=============================================================================
