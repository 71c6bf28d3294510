------------------------------ MODULE PageRead ------------------------------
(***************************************************************************)
(* Reading and opening pages (crates/fastbrowse-browser/src/page/mod.rs):  *)
(* observe, glance, capture, screenshot, redrawn, document_changed and     *)
(* navigate.                                                               *)
(*                                                                         *)
(* An observation joins three reads that run at once (the history entry,   *)
(* the frames, the response), each one evaluation, while the page may push *)
(* an address, be replaced, ask, lose a frame or wander off the grant.     *)
(***************************************************************************)
EXTENDS Naturals, FiniteSets, Functions

CONSTANTS
  Frames,           \* child frames in renderers of their own
  ReadScenes,       \* calls, and the pages they meet
  MaxRereads,       \* REREADS
  HistoryRereads,   \* HISTORY_REREADS
  NavigateAttempts, \* NAVIGATE_ATTEMPTS
  MaxTurns          \* bound: what the page does besides replacing itself

ASSUME ReadAssumption ==
  /\ IsFiniteSet(Frames) /\ "main" \notin Frames /\ "none" \notin Frames
  /\ \A s \in ReadScenes : s.frames \subseteq Frames /\ s.parents \in [Frames -> {"main"} \cup Frames]

VARIABLES
  rscene,  \* the call and the page's ways
  site,    \* external: the tab's document, history, frames and dialogs
  kept,    \* PageState: last, status_worlds, unanswered, marked
  rd       \* the call: what it read so far and what it returns

rvars == <<rscene, site, kept, rd>>

Nowhere == [doc |-> 9, addr |-> 9]
Reading == rscene.op \in {"observe", "glance", "capture"}
In(where) == rd.at = where
To(where) == [rd EXCEPT !.at = where]
Gives(result) == [rd EXCEPT !.at = "done", !.result = result]
Steps(d) == rd' = d /\ UNCHANGED <<rscene, site, kept>>

----------------------------------------------------------------------------
(* The tab (external).                                                     *)

Here == [doc |-> site.doc, addr |-> site.addr]

Turn(s) ==
  /\ site.turns < MaxTurns /\ ~In("done")
  /\ site' = [s EXCEPT !.turns = @ + 1]
  /\ UNCHANGED <<rscene, kept, rd>>

\* The document is replaced: a new context, still loading.  A page may do so forever.
Replaces ==
  /\ "replace" \in rscene.ways /\ ~In("done")
  /\ site' = [site EXCEPT !.doc = 1 - @, !.addr = 1 - @, !.ready = FALSE, !.frames = {}]
  /\ UNCHANGED <<rscene, kept, rd>>
Readies == /\ ~site.ready /\ site' = [site EXCEPT !.ready = TRUE] /\ UNCHANGED <<rscene, kept, rd>>
PushesState == "push" \in rscene.ways /\ Turn([site EXCEPT !.addr = 1 - @])
Asks == "ask" \in rscene.ways /\ ~site.dialog /\ Turn([site EXCEPT !.dialog = TRUE])
LosesFrame(f) == "lose" \in rscene.ways /\ f \in site.frames /\ Turn([site EXCEPT !.frames = @ \ {f}])
Wanders(w) == rscene.scoped /\ w \notin site.outside /\ Turn([site EXCEPT !.outside = @ \cup {w}])

\* Frames whose parent is `p`: the main document, or another frame still there.
Parent(f) == IF f \in site.frames THEN rscene.parents[f] ELSE "none"
Children(p) == {f \in site.frames : rscene.parents[f] = p}

----------------------------------------------------------------------------
(* `observe`, `glance` and `capture`.                                      *)

FreshRead(d) == [d EXCEPT !.hist = Nowhere, !.snap = Nowhere, !.resp = Nowhere, !.listedOutside = site.outside, !.got = {}, !.asked = site.frames,
               !.counts = [x \in {"main"} \cup Frames |-> 0], !.unread = {}]

\* `dialog_observation`: a page that asks reads as its dialog alone, and nothing of it
\* can be acted on.
DialogObservation ==
  /\ rd' = Gives("dialog")
  /\ kept' = [kept EXCEPT !.last = IF rscene.op = "observe" THEN Nowhere ELSE @]
  /\ UNCHANGED <<rscene, site>>

\* `observe_once` and `capture_once` up to their reads.
ReadOnce ==
  /\ Reading /\ In("once")
  /\ IF site.dialog THEN DialogObservation ELSE Steps([FreshRead(rd) EXCEPT !.at = "reading"])

\* `until_dialog`.
ReadInterrupted == Reading /\ In("reading") /\ site.dialog /\ DialogObservation

\* `history`: best effort, so a read that fails names no entry.
ReadHistory ==
  /\ rscene.op # "capture" /\ In("reading") /\ ~site.dialog /\ ~rd.hasHist
  /\ \E h \in {Here, Nowhere} : Steps([rd EXCEPT !.hist = h, !.hasHist = TRUE])

\* The main document's script: its address and its text are read in one evaluation,
\* with how many child frames it could not see into.
ReadMain ==
  /\ Reading /\ In("reading") /\ ~site.dialog /\ rd.snap = Nowhere
  /\ IF "main" \in site.outside THEN Steps(Gives("origin"))
     ELSE Steps([rd EXCEPT !.snap = Here, !.counts["main"] = Cardinality(Children("main")),
                           !.unread = @ \cup Children("main")])

\* A read that the replacement of its document destroyed.
ReadLost == Reading /\ In("reading") /\ ~site.ready /\ ~site.dialog /\ Steps(To("lost"))

\* The grant, asked about the address that came back with the text.
Allowed(f) == f \notin site.outside
\* `frame_evaluate` and `read_frame`: a frame that misses its deadline or fails reads
\* as unreadable, one outside the grant too; the rest go on.
ReadFrame(f) ==
  /\ Reading /\ In("reading") /\ ~site.dialog /\ f \in rd.asked
  /\ LET reads == f \in site.frames /\ rscene.answers[f] = "answers" /\ Allowed(f)
         missed == f \in site.frames /\ rscene.answers[f] = "silent"
     IN /\ rd' = [rd EXCEPT !.asked = @ \ {f}, !.got = IF reads THEN @ \cup {f} ELSE @,
                    !.counts[f] = IF reads THEN Cardinality(Children(f)) ELSE 0,
                    !.unread = IF reads THEN @ \cup Children(f) ELSE @,
                    !.outside = @ \/ (reads /\ f \in site.outside)]
        /\ kept' = [kept EXCEPT !.unanswered = IF missed THEN @ \cup {f} ELSE IF reads THEN @ \ {f} ELSE @]
        /\ UNCHANGED <<rscene, site>>

\* `document_response`: read in the world kept for the tab, by its unique id, which
\* names that document's world or nothing; else in a new one.
DocumentResponse ==
  /\ rscene.op # "capture" /\ In("reading") /\ ~site.dialog /\ rd.resp = Nowhere
  /\ rd' = [rd EXCEPT !.resp = Here]
  /\ kept' = [kept EXCEPT !.world = site.doc]
  /\ UNCHANGED <<rscene, site>>

AllRead ==
  /\ rd.snap # Nowhere /\ rd.asked = {}
  /\ rscene.op # "capture" => rd.hasHist /\ rd.resp # Nowhere

\* `inaccessible_frames`: each frame a document could not see into is resolved only by
\* a successful read of a frame of that same document.
Inaccessible ==
  LET left(p) == LET got == Cardinality({f \in rd.got : Parent(f) = p})
                 IN IF rd.counts[p] > got THEN rd.counts[p] - got ELSE 0
  IN SumFunction([p \in {"main"} \cup Frames |-> left(p)])

\* Mutant: the status of whatever document answered.
StatusUnchecked == rd.resp.doc
\* The status counts only when it was read from the snapshot's document and address.
Status == IF rd.resp.doc = rd.snap.doc /\ rd.resp.addr = rd.snap.addr THEN rd.resp.doc ELSE 9

\* The entry and the snapshot are read again until they name one address; a pair that
\* never agrees names no entry.
Assemble ==
  /\ rscene.op \in {"observe", "glance"} /\ In("reading") /\ ~site.dialog /\ AllRead
  /\ LET apart == rd.hist # Nowhere /\ rd.hist.addr # rd.snap.addr
     IN IF apart /\ rd.tries < HistoryRereads
        THEN Steps([rd EXCEPT !.at = "once", !.tries = @ + 1, !.hasHist = FALSE])
        ELSE /\ rd' = [Gives("read") EXCEPT !.entry = IF apart THEN Nowhere ELSE rd.hist, !.status = Status,
                         !.inaccessible = Inaccessible]
             /\ kept' = [kept EXCEPT !.last = IF rscene.op = "observe" THEN rd.snap ELSE @,
                           !.unanswered = @ \cap site.frames]
             /\ UNCHANGED <<rscene, site>>

\* `capture_once`: the blocks of the frames that were read, in their order.
CaptureOnce ==
  /\ rscene.op = "capture" /\ In("reading") /\ ~site.dialog /\ AllRead
  /\ rd' = [Gives("read") EXCEPT !.inaccessible = Inaccessible]
  /\ kept' = [kept EXCEPT !.unanswered = @ \cap site.frames]
  /\ UNCHANGED <<rscene, site>>

\* `address_once`: the address is asked of the document, and then of the grant.
AddressOnce ==
  /\ rscene.op = "address" /\ In("once") /\ ~site.dialog
  /\ \/ ~site.ready /\ Steps(To("lost"))
     \/ "main" \in site.outside /\ Steps(Gives("origin"))
     \/ "main" \notin site.outside /\ Steps([Gives("address") EXCEPT !.snap = Here])
\* A dialog holds the evaluation up until its command's deadline.
AddressUnanswered == rscene.op = "address" /\ In("once") /\ site.dialog /\ Steps(Gives("unresponsive"))

\* Mutant: a page that keeps replacing itself is read again without end.
RereadForever ==
  /\ In("lost") /\ (site.ready \/ site.dialog)
  /\ Steps([rd EXCEPT !.at = "once", !.tries = 0, !.hasHist = FALSE])
\* `reread`: again on the next document, once it is interactive and quiet, has asked
\* or has taken SETTLE_SECONDS.
Reread ==
  /\ In("lost")
  /\ IF rd.rereads = MaxRereads THEN Steps(Gives("lost"))
     ELSE Steps([rd EXCEPT !.at = "once", !.rereads = @ + 1, !.tries = 0, !.hasHist = FALSE])

----------------------------------------------------------------------------
(* `navigate_within`.                                                      *)

\* A hung renderer keeps its navigation waiting: the page is opened in a fresh tab, and
\* the hung one is closed only when the run opened it.
OpensFreshTab == [tabs |-> IF ~rscene.wedged THEN {"active"} ELSE IF rscene.owned THEN {"fresh"} ELSE {"active", "fresh"}]
NavBegin ==
  /\ rscene.op = "navigate" /\ In("once")
  /\ IF rscene.scoped /\ rscene.away THEN Steps(Gives("origin"))
     ELSE /\ rd' = [rd EXCEPT !.at = "attempt"]
          /\ site' = [site EXCEPT !.tabs = OpensFreshTab.tabs]
          /\ kept' = [kept EXCEPT !.marked = FALSE]
          /\ UNCHANGED rscene

\* One Page.navigate: denied on its way, refused, taken as a file, or committed.
NavAttempt ==
  /\ In("attempt")
  /\ \/ rd.attempt = NavigateAttempts /\ Steps(Gives(rd.failure))
     \/ /\ rd.attempt < NavigateAttempts
        /\ \/ rscene.scoped /\ Steps(Gives("origin"))
           \/ \E why \in {"unreachable", "failed"} : Steps([rd EXCEPT !.attempt = @ + 1, !.failure = why])
           \/ Steps(Gives("unresponsive"))
           \/ rscene.file /\ Steps(Gives("file"))
           \/ /\ rd' = [rd EXCEPT !.at = "readying"]
              /\ site' = [site EXCEPT !.doc = 1 - @, !.addr = 0, !.ready = FALSE, !.frames = {}]
              /\ UNCHANGED <<rscene, kept>>

\* `ready`: an interactive document, or the doubled wait is over and it is tried again.
NavReady ==
  /\ In("readying")
  /\ \/ site.ready /\ Steps([Gives("ok") EXCEPT !.usable = site.ready])
     \/ ~site.ready /\ Steps([rd EXCEPT !.at = "attempt", !.attempt = @ + 1, !.failure = "timeout"])

----------------------------------------------------------------------------
(* `screenshot`, `document_changed` and `redrawn`.                         *)

\* A capture that stalls wakes the tab: a foreground run's always draws then, a
\* background run's within SCREENSHOT_STALL_SECONDS or not at all.
Screenshot ==
  /\ rscene.op = "screenshot" /\ In("once")
  /\ \/ rscene.scoped /\ Steps(Gives("unavailable"))
     \/ ~rscene.scoped /\ Steps(Gives("shot"))
     \/ ~rscene.scoped /\ rscene.background /\ Steps(Gives("unavailable"))

\* Whether the observed page is still there: a dialog on either side answers alone, and
\* a context lost while asking is the answer.
DocumentChanged ==
  /\ rscene.op = "changed" /\ In("once")
  /\ \/ site.dialog /\ Steps(Gives("changed"))
     \/ ~site.dialog /\ ~site.ready /\ Steps(Gives("changed"))
     \/ ~site.dialog /\ Steps(Gives(IF site.doc = kept.last.doc /\ site.addr = kept.last.addr THEN "same" ELSE "changed"))

\* The comparison `act` makes, watched until it changes or the time given is over.
Redrawn ==
  /\ rscene.op = "redrawn" /\ In("once")
  /\ \/ (kept.last = Nowhere \/ site.dialog) /\ Steps(Gives("same"))
     \/ kept.last # Nowhere /\ ~site.dialog /\ Steps(Gives(IF site.doc = kept.last.doc THEN "same" ELSE "changed"))
     \/ kept.last # Nowhere /\ ~site.dialog /\ ~site.ready /\ Steps(Gives("same"))

----------------------------------------------------------------------------
ReadInit ==
  /\ rscene \in ReadScenes
  /\ site = [doc |-> 0, addr |-> 0, ready |-> TRUE, dialog |-> FALSE, frames |-> rscene.frames, outside |-> {},
             tabs |-> {"active"}, turns |-> 0]
  /\ kept = [last |-> IF rscene.op \in {"changed", "redrawn"} THEN Here ELSE Nowhere, world |-> 9, unanswered |-> {}, marked |-> TRUE]
  /\ rd = [at |-> "once", result |-> "none", hist |-> Nowhere, hasHist |-> FALSE, snap |-> Nowhere, resp |-> Nowhere, listedOutside |-> {},
           asked |-> {}, got |-> {}, counts |-> [x \in {"main"} \cup Frames |-> 0], unread |-> {}, outside |-> FALSE,
           entry |-> Nowhere, status |-> 9, inaccessible |-> 0, tries |-> 0, rereads |-> 0, attempt |-> 0, failure |-> "failed",
           usable |-> FALSE]

Reads ==
  \/ ReadOnce \/ ReadInterrupted \/ ReadHistory \/ ReadMain \/ ReadLost \/ DocumentResponse \/ Assemble \/ CaptureOnce
  \/ AddressOnce \/ AddressUnanswered \/ Reread
  \/ NavBegin \/ NavAttempt \/ NavReady \/ Screenshot \/ DocumentChanged \/ Redrawn
  \/ \E f \in Frames : ReadFrame(f)
SiteActs ==
  \/ Replaces \/ Readies \/ PushesState \/ Asks \/ \E f \in Frames : LosesFrame(f)
  \/ \E w \in {"main"} \cup Frames : Wanders(w)
ReadNext == Reads \/ SiteActs
ReadSpec == ReadInit /\ [][ReadNext]_rvars

----------------------------------------------------------------------------
(* Properties.                                                             *)

\* What an observation joins is of one page: its HTTP status is its own document's and
\* its history entry has its address, though the three were read at once while the
\* page moved.
ObservationAgrees ==
  rd.result = "read" /\ rscene.op # "capture" =>
    /\ rd.status \in {9, rd.snap.doc}
    /\ rd.entry # Nowhere => rd.entry.addr = rd.snap.addr

\* Nothing is read from a document outside the grant, whichever frame wanders off and
\* when.
OutsideUnread == ~rd.outside

\* Every frame that a read document could not see into, and that is still there and was
\* not read itself, is counted.
UnreadCounted ==
  rd.result = "read" => rd.inaccessible >= Cardinality((rd.unread \cap site.frames) \ rd.got)

\* What is read is of one page, within the grant, and what could not be read is
\* counted (page/mod.rs `observe`, `capture`).
ReadKept == ObservationAgrees /\ OutsideUnread /\ UnreadCounted

\* A read returns though the page replaces itself without end, as a navigation does
\* though the site never answers.
ReadReturns == In("reading") ~> In("done")
=============================================================================
