--------------------------- MODULE CdpConnection ---------------------------
(***************************************************************************)
(* The DevTools connection of crates/fastbrowse-browser/src/cdp.rs: the    *)
(* pending table that routes replies to callers, the reader, writer and    *)
(* keepalive tasks, and the two users of the table, `Cdp::send` (a command *)
(* under a liveness probe and a deadline) and `Cdp::wedged`.  Commands are *)
(* issued from any number of tasks at once.                                *)
(*                                                                         *)
(* Clocks are abstracted to "this wait may expire": a timer of the code    *)
(* may fire whenever its await is pending and its future is not ready.     *)
(* RoundsOf is the number of probe rounds that fit between the first wait  *)
(* and the command deadline (CDP_COMMAND_SECONDS over CDP_PAGE_SECONDS in  *)
(* the code, and one round for an Input command).                          *)
(***************************************************************************)
EXTENDS Naturals, Sequences, FiniteSets

CONSTANTS
  Commands,     \* what is issued on the connection, each once
  WedgeChecks,  \* those of them that are `Cdp::wedged`; the rest are `Cdp::send`
  Sessions,     \* target sessions multiplexed on the connection
  NoSession,    \* the session of a browser-level command
  SessionOf,    \* the session each command addresses
  StopAt,       \* CDP_DEADLINES_BEFORE_STOP
  RoundsOf,     \* probe rounds each command has time for before its deadline
  MaxEvents,    \* bound: events the browser emits
  MaxInFlight,  \* bound: messages sent and not yet read (the socket's buffer)
  MaxMissed     \* bound: deadlines callers count themselves, per session

ASSUME CdpAssumption ==
  /\ IsFiniteSet(Commands)
  /\ NoSession \notin Sessions
  /\ SessionOf \in [Commands -> Sessions \cup {NoSession}]
  /\ WedgeChecks \subseteq Commands
  /\ \A c \in WedgeChecks : SessionOf[c] \in Sessions
  /\ StopAt \in Nat \ {0}
  /\ RoundsOf \in [Commands -> Nat]
  /\ MaxEvents \in Nat /\ MaxInFlight \in Nat /\ MaxMissed \in Nat

VARIABLES
  nextId,     \* State.next_id
  pending,    \* State.pending: which call waits for each id
  closed,     \* State.closed: "open", or why the connection is gone
  writer,     \* the writer task still drains the out queue
  reader,     \* the reader task still reads the socket
  pong,       \* Inner.pong
  answered,   \* Inner.answered
  deadlines,  \* Inner.deadlines
  missed,     \* deadlines callers counted with `missed_deadline`
  asked,      \* external: requests the browser holds unanswered
  socket,     \* external: what the browser sent and the reader has not read
  emitted,    \* external: events the browser has sent
  handled,    \* events `dispatch` took through the handlers (none after `Cdp::close`)
  pc,         \* where each command's future stands
  ids,        \* the id of each command's own call, 0 before it has one
  box,        \* the oneshot channels of a command: its own call's, its probe's
  rounds,     \* probe rounds a command has gone through
  outcome     \* what the command returned

table  == <<nextId, pending, closed>>
loops  == <<writer, reader, pong>>
health == <<answered, deadlines, missed>>
wire   == <<asked, socket, emitted, handled>>
calls  == <<pc, ids, box, rounds, outcome>>
vars   == <<table, loops, health, wire, calls>>

Reasons  == {"ConnectionClosed", "ConnectionError"}
Slots    == {"main", "probe"}
Probing  == {"alive", "page", "last"}
Waiting  == {"waiting"} \cup Probing
Live     == {"inserted"} \cup Waiting
PCs      == {"idle", "checked", "done"} \cup Live
\* A call is one use of `Cdp::call`: whose, what for, and in which probe round.
Calls    == [cmd : Commands, kind : {"main"} \cup Probing, round : Nat]
Entries  == [id : Nat, of : Calls]
NoCall   == [cmd |-> "none", kind |-> "none", round |-> 0]
Main(c)  == [cmd |-> c, kind |-> "main", round |-> 0]
SlotOf(kind) == IF kind = "main" THEN "main" ELSE "probe"
\* What travels from the browser; `after` counts the events sent before it.
Replies  == [type : {"reply"}, id : Nat, of : Calls, res : {"ok", "error"}, after : Nat]
Events   == [type : {"event", "close"}]
\* What a oneshot channel holds: nothing, a reply, or why there is none.
Empty       == [res |-> "empty", of |-> NoCall, why |-> "open", after |-> 0]
Replied(m)  == [res |-> m.res, of |-> m.of, why |-> "open", after |-> m.after]
ClosedBy(w) == [res |-> "closed", of |-> NoCall, why |-> w, after |-> 0]
Contents == {Empty} \cup {ClosedBy(w) : w \in Reasons}
              \cup [res : {"ok", "error"}, of : Calls, why : {"open"}, after : Nat]
Unanswered == {"pageHung", "browserGone", "neverAnswered"}
Results  == {"none", "ok", "failed", "closed", "refused", "dropped", "wedged", "live"}
              \cup Unanswered
NoOutcome == [res |-> "none", why |-> "open"]

TypeOK ==
  /\ nextId \in Nat
  /\ pending \subseteq Entries
  /\ closed \in {"open"} \cup Reasons
  /\ writer \in BOOLEAN /\ reader \in BOOLEAN /\ pong \in BOOLEAN
  /\ answered \in BOOLEAN
  /\ deadlines \in [Sessions -> Nat] /\ missed \in [Sessions -> Nat]
  /\ asked \subseteq Entries
  /\ socket \in Seq(Replies \cup Events)
  /\ emitted \in Nat /\ handled \in Nat
  /\ pc \in [Commands -> PCs]
  /\ ids \in [Commands -> Nat]
  /\ box \in [Commands -> [Slots -> Contents]]
  /\ rounds \in [Commands -> Nat]
  /\ outcome \in [Commands -> [res : Results, why : {"open"} \cup Reasons]]

Init ==
  /\ nextId = 0 /\ pending = {} /\ closed = "open"
  /\ writer = TRUE /\ reader = TRUE /\ pong = TRUE
  /\ answered = FALSE
  /\ deadlines = [s \in Sessions |-> 0] /\ missed = [s \in Sessions |-> 0]
  /\ asked = {} /\ socket = <<>> /\ emitted = 0 /\ handled = 0
  /\ pc = [c \in Commands |-> "idle"]
  /\ ids = [c \in Commands |-> 0]
  /\ box = [c \in Commands |-> [s \in Slots |-> Empty]]
  /\ rounds = [c \in Commands |-> 0]
  /\ outcome = [c \in Commands |-> NoOutcome]

----------------------------------------------------------------------------
(* The table behind `Inner.state`.                                         *)

\* Put v in the channel of every pending call for which Which holds.
Deliver(Which(_), v) ==
  box' = [c \in Commands |-> [s \in Slots |->
            IF \E p \in pending : Which(p) /\ p.of.cmd = c /\ SlotOf(p.of.kind) = s
            THEN v ELSE box[c][s]]]

\* `Inner::close`: the first reason stays, and every pending call fails.
CloseState(why) ==
  LET Any(p) == TRUE IN
  /\ closed' = IF closed = "open" THEN why ELSE closed
  /\ Deliver(Any, ClosedBy(why))
  /\ pending' = {}

\* `PendingGuard::drop` of every call future a command still holds.
DropCalls(c) == {p \in pending : p.of.cmd # c}

\* Mutant: a probe that timed out leaves its entry behind.
LeakProbe(c) == pending
\* `PendingGuard::drop` of the probe a command gave up on.
DropProbe(c) == {p \in pending : p.of.cmd # c \/ p.of.kind = "main"}

\* `closed_error`: the recorded reason, or ConnectionError when none is.
ClosedError == IF closed = "open" THEN "ConnectionError" ELSE closed

----------------------------------------------------------------------------
(* `Cdp::send`, one action per await.                                      *)

\* The command returns: its channels and its entries in the table go with it.
Return(c, res, why) ==
  /\ pc' = [pc EXCEPT ![c] = "done"]
  /\ outcome' = [outcome EXCEPT ![c] = [res |-> res, why |-> why]]
  /\ box' = [box EXCEPT ![c] = [s \in Slots |-> Empty]]
  /\ pending' = DropCalls(c)

Goto(c, at) == pc' = [pc EXCEPT ![c] = at] /\ UNCHANGED outcome

Stopped(c) == SessionOf[c] # NoSession /\ deadlines[SessionOf[c]] >= StopAt

\* A session that met StopAt deadlines refuses the command before it is sent.
Begin(c) ==
  /\ pc[c] = "idle" /\ c \notin WedgeChecks
  /\ \/ Stopped(c) /\ Return(c, "refused", "open")
     \/ ~Stopped(c) /\ Goto(c, "checked") /\ UNCHANGED <<box, pending>>
  /\ UNCHANGED <<nextId, closed, loops, health, wire, ids, rounds>>

\* What a caller makes of a connection that is gone.
ReturnClosed(c, why) == Return(c, IF c \in WedgeChecks THEN "wedged" ELSE "closed", why)

\* Mutant: the lowest id nobody waits for, taken again at once.
CallInsertReusingIds(c) ==
  LET id == Cardinality(pending) + 1 IN
  /\ pc[c] = "checked" /\ closed = "open"
  /\ pending' = pending \cup {[id |-> id, of |-> Main(c)]}
  /\ ids' = [ids EXCEPT ![c] = id]
  /\ Goto(c, "inserted")
  /\ UNCHANGED <<nextId, box, closed, loops, health, wire, rounds>>
\* `Cdp::call` under the state lock: refused once closed, else given an id.
CallInsert(c) ==
  /\ pc[c] = "checked"
  /\ \/ /\ closed # "open" /\ ReturnClosed(c, closed)
        /\ UNCHANGED <<nextId, ids>>
     \/ /\ closed = "open"
        /\ nextId' = nextId + 1
        /\ pending' = pending \cup {[id |-> nextId + 1, of |-> Main(c)]}
        /\ ids' = [ids EXCEPT ![c] = nextId + 1]
        /\ Goto(c, "inserted") /\ UNCHANGED box
  /\ UNCHANGED <<closed, loops, health, wire, rounds>>

\* The message goes on the out queue, even when a close drained the entry
\* meanwhile; a writer that is gone fails the call.
CallEnqueue(c) ==
  /\ pc[c] = "inserted"
  /\ \/ /\ writer
        /\ asked' = asked \cup {[id |-> ids[c], of |-> Main(c)]}
        /\ Goto(c, "waiting") /\ UNCHANGED <<box, pending>>
     \/ /\ ~writer /\ ReturnClosed(c, ClosedError)
        /\ UNCHANGED asked
  /\ UNCHANGED <<nextId, closed, loops, health, socket, emitted, handled, ids, rounds>>

Answer(b) == b.res \in {"ok", "error"}
Landed(c) == box[c]["main"] # Empty

\* `alive` wants a result, `page_answers` takes an error reply as well.
ProbeAnswers(c) ==
  box[c]["probe"].res \in (IF pc[c] = "page" THEN {"ok", "error"} ELSE {"ok"})

\* `alive` notes that the browser answered.
AliveSeen(c) == pc[c] \in {"alive", "last"} /\ ProbeAnswers(c)

\* The command's own reply is what it returns; an error reply is an answer too.
Settle(c) ==
  /\ Landed(c)
  /\ answered' = (answered \/ AliveSeen(c) \/ Answer(box[c]["main"]))
  /\ LET b == box[c]["main"] IN
     Return(c, IF b.res = "error" THEN "failed" ELSE b.res, b.why)

\* The reply came within the wait.
ReplyReady(c) ==
  /\ pc[c] = "waiting" /\ c \notin WedgeChecks
  /\ Settle(c)
  /\ UNCHANGED <<nextId, closed, loops, deadlines, missed, wire, ids, rounds>>

\* `alive` and `page_answers` up to their await: one more call, which fails at
\* once on a connection that is gone.
StartProbe(c, kind, round) ==
  LET entry == [id |-> nextId + 1, of |-> [cmd |-> c, kind |-> kind, round |-> round]] IN
  /\ Goto(c, kind)
  /\ \/ /\ closed = "open" /\ writer
        /\ nextId' = nextId + 1
        /\ pending' = DropProbe(c) \cup {entry}
        /\ asked' = asked \cup {entry}
        /\ box' = [box EXCEPT ![c]["probe"] = Empty]
     \/ /\ closed # "open" \/ ~writer
        /\ box' = [box EXCEPT ![c]["probe"] = ClosedBy(ClosedError)]
        /\ pending' = DropProbe(c)
        /\ UNCHANGED <<nextId, asked>>

\* A wait expired short of the deadline: the browser is asked.
WaitExpires(c) ==
  /\ pc[c] = "waiting" /\ ~Landed(c) /\ c \notin WedgeChecks
  /\ rounds[c] < RoundsOf[c]
  /\ rounds' = [rounds EXCEPT ![c] = @ + 1]
  /\ StartProbe(c, "alive", rounds[c] + 1)
  /\ UNCHANGED <<closed, loops, health, socket, emitted, handled, ids>>

\* `after_deadline`: a reply that has landed is the answer, else the browser
\* is asked once more.
AfterDeadline(c) ==
  \/ Settle(c) /\ UNCHANGED <<nextId, asked>>
  \/ ~Landed(c) /\ StartProbe(c, "last", rounds[c]) /\ UNCHANGED answered

\* Mutant: only the probe runs under the command deadline, not the wait.
NoCommandDeadline(c) ==
  /\ pc[c] = "alive" /\ box[c]["probe"] = Empty
  /\ AfterDeadline(c)
  /\ UNCHANGED <<closed, loops, deadlines, missed, socket, emitted, handled, ids, rounds>>
\* The deadline passed in the wait or inside the probe of the browser.
DeadlinePasses(c) ==
  /\ \/ pc[c] = "waiting" /\ ~Landed(c)
     \/ pc[c] = "alive" /\ box[c]["probe"] = Empty
  /\ c \notin WedgeChecks
  /\ AfterDeadline(c)
  /\ UNCHANGED <<closed, loops, deadlines, missed, socket, emitted, handled, ids, rounds>>

\* A probe that was answered sends the command back to wait for its reply.
KeepWaiting(c) ==
  /\ ~Landed(c) /\ ProbeAnswers(c)
  /\ Goto(c, "waiting")
  /\ answered' = (answered \/ AliveSeen(c))
  /\ pending' = DropProbe(c)
  /\ box' = [box EXCEPT ![c]["probe"] = Empty]

\* `Browser.getVersion` was answered, failed, or timed out inside a round.
\* With a session the page is asked next; a reply that landed while a probe
\* waited counts, however the probe ended.
AliveEnds(c) ==
  /\ pc[c] = "alive"
  /\ \/ /\ ProbeAnswers(c) /\ SessionOf[c] # NoSession
        /\ StartProbe(c, "page", rounds[c])
        /\ answered' = TRUE
     \/ /\ ~ProbeAnswers(c) \/ SessionOf[c] = NoSession
        /\ \/ Settle(c)
           \/ KeepWaiting(c)
           \/ /\ ~Landed(c) /\ ~ProbeAnswers(c)
              /\ Return(c, IF answered THEN "browserGone" ELSE "neverAnswered", "open")
              /\ UNCHANGED answered
        /\ UNCHANGED <<nextId, asked>>
  /\ UNCHANGED <<closed, loops, deadlines, missed, socket, emitted, handled, ids, rounds>>

\* The page answered the trivial evaluation, or did not in time.
PageEnds(c) ==
  /\ pc[c] = "page"
  /\ \/ ~ProbeAnswers(c) /\ AfterDeadline(c)
     \/ ProbeAnswers(c) /\ (Settle(c) \/ KeepWaiting(c)) /\ UNCHANGED <<nextId, asked>>
  /\ UNCHANGED <<closed, loops, deadlines, missed, socket, emitted, handled, ids, rounds>>

\* Mutant: deadlines counted on the connection, not by session.
ChargeAll(c) == deadlines' = [s \in Sessions |-> deadlines[s] + 1]
\* The session of a command that outlived its deadline is charged for it.
Charge(c) ==
  deadlines' = [s \in Sessions |-> deadlines[s] + (IF s = SessionOf[c] THEN 1 ELSE 0)]

\* Mutant: the reply is not looked at again after the last probe.
LastEndsBlindly(c) ==
  /\ pc[c] = "last"
  /\ answered' = (answered \/ ProbeAnswers(c))
  /\ Return(c, IF ProbeAnswers(c) THEN "pageHung" ELSE "browserGone", "open")
  /\ IF ProbeAnswers(c) THEN Charge(c) ELSE UNCHANGED deadlines
  /\ UNCHANGED <<nextId, closed, loops, missed, wire, ids, rounds>>
\* The last probe of `after_deadline`: a late reply is the answer, else the
\* page is blamed only when the browser answered.
LastEnds(c) ==
  /\ pc[c] = "last"
  /\ \/ Settle(c) /\ UNCHANGED deadlines
     \/ /\ ~Landed(c) /\ ProbeAnswers(c)
        /\ answered' = TRUE
        /\ Return(c, "pageHung", "open") /\ Charge(c)
     \/ /\ ~Landed(c) /\ ~ProbeAnswers(c)
        /\ Return(c, "browserGone", "open")
        /\ UNCHANGED <<answered, deadlines>>
  /\ UNCHANGED <<nextId, closed, loops, missed, wire, ids, rounds>>

\* The caller's task is dropped in an await: the guards remove the entries.
DropFuture(c) ==
  /\ pc[c] \in Waiting
  /\ Return(c, "dropped", "open")
  /\ UNCHANGED <<nextId, closed, loops, health, wire, ids, rounds>>

----------------------------------------------------------------------------
(* `missed_deadline` and `wedged`.                                         *)

MissedDeadline(s) ==
  /\ missed[s] < MaxMissed
  /\ missed' = [missed EXCEPT ![s] = @ + 1]
  /\ deadlines' = [deadlines EXCEPT ![s] = @ + 1]
  /\ UNCHANGED <<table, loops, answered, wire, calls>>

\* A session with no deadline is live, one that met StopAt is wedged, and one
\* in between is asked to evaluate once.
WedgedBegin(c) ==
  /\ pc[c] = "idle" /\ c \in WedgeChecks
  /\ \/ deadlines[SessionOf[c]] = 0 /\ Return(c, "live", "open")
     \/ Stopped(c) /\ Return(c, "wedged", "open")
     \/ /\ deadlines[SessionOf[c]] > 0 /\ ~Stopped(c)
        /\ Goto(c, "checked") /\ UNCHANGED <<box, pending>>
  /\ UNCHANGED <<nextId, closed, loops, health, wire, ids, rounds>>

\* An error reply is an answer; a lost connection and a timeout are not.
WedgedEnds(c) ==
  /\ pc[c] = "waiting" /\ c \in WedgeChecks
  /\ Return(c, IF Answer(box[c]["main"]) THEN "live" ELSE "wedged", "open")
  /\ UNCHANGED <<nextId, closed, loops, health, wire, ids, rounds>>

----------------------------------------------------------------------------
(* The reader, writer and keepalive tasks, and `Cdp::close`.               *)

\* `Inner::dispatch` of the next message: an event runs the handlers, a reply
\* goes to the caller its id is filed under, and is discarded when none is.
Dispatch ==
  /\ reader /\ socket # <<>> /\ Head(socket).type # "close"
  /\ socket' = Tail(socket)
  /\ LET m == Head(socket)
         IsFor(p) == p.id = m.id IN
     \/ /\ m.type = "event"
        /\ handled' = handled + 1
        /\ UNCHANGED <<pending, box>>
     \/ /\ m.type = "reply"
        /\ pending' = {p \in pending : ~IsFor(p)}
        /\ Deliver(IsFor, Replied(m))
        /\ UNCHANGED handled
  /\ UNCHANGED <<nextId, closed, loops, health, asked, emitted, pc, ids, rounds, outcome>>

\* The stream ended: the reader fails what is pending and stops.
ReaderEnds ==
  /\ reader /\ socket # <<>> /\ Head(socket).type = "close"
  /\ reader' = FALSE
  /\ CloseState("ConnectionClosed")
  /\ socket' = Tail(socket)
  /\ UNCHANGED <<nextId, writer, pong, health, asked, emitted, handled,
                 pc, ids, rounds, outcome>>

\* The writer task ends: a write failed, or a Close it was sent came up.
\* Nothing has recorded a reason yet.
WriterEnds ==
  /\ writer /\ writer' = FALSE
  /\ UNCHANGED <<table, reader, pong, health, wire, calls>>

\* PING_SECONDS passed: no pong since the last ping ends the connection.
Keepalive ==
  /\ closed = "open"
  /\ \/ pong /\ pong' = FALSE /\ UNCHANGED <<closed, pending, box, writer>>
     \/ ~pong /\ CloseState("ConnectionClosed") /\ writer' = FALSE /\ UNCHANGED pong
  /\ UNCHANGED <<nextId, reader, health, wire, pc, ids, rounds, outcome>>

PongArrives ==
  /\ reader /\ ~pong /\ pong' = TRUE
  /\ UNCHANGED <<table, writer, reader, health, wire, calls>>

\* `Cdp::close`.
CloseConnection ==
  /\ closed = "open" \/ writer
  /\ CloseState("ConnectionError") /\ writer' = FALSE
  /\ UNCHANGED <<nextId, reader, pong, health, wire, pc, ids, rounds, outcome>>

----------------------------------------------------------------------------
(* The browser: answers what it was asked in any order, or never, emits    *)
(* events, and may end the stream.                                         *)

StreamOpen ==
  /\ reader /\ Len(socket) < MaxInFlight
  /\ \A i \in DOMAIN socket : socket[i].type # "close"

BrowserReplies ==
  /\ StreamOpen
  /\ \E r \in asked, res \in {"ok", "error"} :
       /\ asked' = asked \ {r}
       /\ socket' = Append(socket, [type |-> "reply", id |-> r.id, of |-> r.of,
                                    res |-> res, after |-> emitted])
  /\ UNCHANGED <<table, loops, health, emitted, handled, calls>>

BrowserEmits ==
  /\ StreamOpen /\ emitted < MaxEvents
  /\ emitted' = emitted + 1
  /\ socket' = Append(socket, [type |-> "event"])
  /\ UNCHANGED <<table, loops, health, asked, handled, calls>>

BrowserCloses ==
  /\ StreamOpen
  /\ socket' = Append(socket, [type |-> "close"])
  /\ UNCHANGED <<table, loops, health, asked, emitted, handled, calls>>

----------------------------------------------------------------------------
\* Every step of a command's own future.
SendStep(c) ==
  \/ Begin(c) \/ CallInsert(c) \/ CallEnqueue(c) \/ ReplyReady(c)
  \/ WaitExpires(c) \/ DeadlinePasses(c)
  \/ AliveEnds(c) \/ PageEnds(c) \/ LastEnds(c)
  \/ WedgedBegin(c) \/ WedgedEnds(c)

Next ==
  \/ \E c \in Commands : SendStep(c) \/ DropFuture(c)
  \/ \E s \in Sessions : MissedDeadline(s)
  \/ Dispatch \/ ReaderEnds \/ WriterEnds \/ Keepalive \/ PongArrives
  \/ CloseConnection
  \/ BrowserReplies \/ BrowserEmits \/ BrowserCloses

Spec == Init /\ [][Next]_vars

\* The runtime polls a woken future and fires due timers; the browser owes
\* nothing.
FairSpec == Spec /\ \A c \in Commands : WF_vars(SendStep(c))

----------------------------------------------------------------------------
(* Properties.                                                             *)

\* No call is left in the table once its future is gone, and none enters it
\* after the connection closed: `pending` holds exactly calls somebody still
\* awaits, whichever of reply, timeout, drop or close came first.
PendingIsAwaited ==
  /\ closed # "open" => pending = {}
  /\ \A p \in pending :
       /\ pc[p.of.cmd] \in Live
       /\ p.of.kind # "main" => pc[p.of.cmd] = p.of.kind /\ p.of.round = rounds[p.of.cmd]
       /\ box[p.of.cmd][SlotOf(p.of.kind)] = Empty

\* A reply reaches only the call it answers, however late it comes: a reply to
\* a probe that was given up, or to a dropped command, is never another's.
RepliesReachTheirCall ==
  \A c \in Commands : \A s \in Slots :
    Answer(box[c][s]) =>
      /\ box[c][s].of.cmd = c
      /\ SlotOf(box[c][s].of.kind) = s
      /\ s = "probe" /\ pc[c] \in Probing =>
           box[c][s].of.kind = pc[c] /\ box[c][s].of.round = rounds[c]

\* State the event handlers keep is current by the time a caller wakes: every
\* event sent before a reply was handled before that reply was delivered.
EventsBeforeReply ==
  \A c \in Commands : \A s \in Slots : Answer(box[c][s]) => box[c][s].after <= handled

\* A command is reported unanswered only while its reply has not landed: no
\* probe or deadline throws away an answer the reader had already delivered.
NoLandedReplyLost ==
  [][\A c \in Commands :
       outcome'[c].res \in Unanswered /\ outcome[c].res = "none" => ~Landed(c)]_vars

\* The page is blamed, and counted against its session, only when the browser
\* itself had just answered the last probe on this connection.
PageBlamedOnlyIfBrowserAnswers ==
  [][\A c \in Commands :
       outcome'[c].res = "pageHung" /\ outcome[c].res = "none" =>
         /\ box[c]["probe"].res = "ok"
         /\ box[c]["probe"].of.cmd = c /\ box[c]["probe"].of.kind = "last"]_vars

\* What lands late still counts, in the order it was sent: an event is handled
\* before the reply behind it, a reply that landed while a probe waited wins over
\* the timeout, and the page is blamed only on the browser's own word
\* (`Cdp::send`, `dispatch`).
LateAnswersCount == []EventsBeforeReply /\ NoLandedReplyLost /\ PageBlamedOnlyIfBrowserAnswers

\* Deadlines are counted against the session that met them: a session refuses
\* a command only after StopAt of its own were blamed or counted by callers.
Hung(s) == {c \in Commands : SessionOf[c] = s /\ outcome[c].res = "pageHung"}
RefusalNeedsItsOwnDeadlines ==
  \A c \in Commands : outcome[c].res = "refused" =>
    Cardinality(Hung(SessionOf[c])) + missed[SessionOf[c]] >= StopAt

\* Every command returns, though the browser may never answer anything.
EveryCommandReturns == \A c \in Commands : <>(pc[c] = "done")
=============================================================================
