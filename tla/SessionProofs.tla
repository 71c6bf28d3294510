---------------------------- MODULE SessionProofs ----------------------------
(***************************************************************************)
(* Proofs about the DevTools connection and the session that is built on   *)
(* it.                                                                     *)
(*                                                                         *)
(* CdpConnection, for every set of commands and sessions and every value   *)
(* of the bounds: types, the pending table, the routing of replies, the    *)
(* deadlines charged to a session, and late answers.                       *)
(*                                                                         *)
(* BrowserSession, for every set of windows, frames and responses, every   *)
(* connection, and every order in which the run, the socket's reader and   *)
(* the background tasks take their steps.  The invariant has one part per  *)
(* concern: the phases of the run's call, whose windows are whose, the     *)
(* gate on a popup, the live cast, the captures.                           *)
(***************************************************************************)
EXTENDS CdpConnection, BrowserSession, FiniteSetTheorems, SequenceTheorems, WellFoundedInduction, TLAPS

----------------------------------------------------------------------------
(* The connection: the sets its variables are typed by, and each call.     *)

\* The sets the types of a command's variables are drawn from.
LEMMA SetsTyped ==
  /\ Empty \in Contents
  /\ \A w \in Reasons : ClosedBy(w) \in Contents
  /\ \A m \in Replies : Replied(m) \in Contents
  /\ \A c \in Commands : Main(c) \in Calls
  /\ \A c \in Commands, k \in Probing, r \in Nat : [cmd |-> c, kind |-> k, round |-> r] \in Calls
  /\ NoOutcome \in [res : Results, why : {"open"} \cup Reasons]
BY DEF Contents, Empty, ClosedBy, Reasons, Replied, Replies, Calls, Main, Probing, NoOutcome, Results

\* A call that returns leaves the table, its stage and its outcome well typed.
LEMMA ReturnType ==
  ASSUME TypeOK, NEW c \in Commands, NEW res \in Results, NEW why \in {"open"} \cup Reasons,
         Return(c, res, why)
  PROVE  /\ pc' \in [Commands -> PCs]
         /\ outcome' \in [Commands -> [res : Results, why : {"open"} \cup Reasons]]
         /\ box' \in [Commands -> [Slots -> Contents]]
         /\ pending' \subseteq Entries
BY SetsTyped DEF TypeOK, Return, PCs, DropCalls

\* Moving a command to another stage keeps the stages well typed.
LEMMA GotoType ==
  ASSUME TypeOK, NEW c \in Commands, NEW at \in PCs, Goto(c, at)
  PROVE  /\ pc' \in [Commands -> PCs]
         /\ outcome' \in [Commands -> [res : Results, why : {"open"} \cup Reasons]]
BY DEF TypeOK, Goto

\* Settling a command with the reply in its box yields one of the outcomes.
LEMMA SettleType ==
  ASSUME TypeOK, NEW c \in Commands, Settle(c)
  PROVE  /\ pc' \in [Commands -> PCs]
         /\ outcome' \in [Commands -> [res : Results, why : {"open"} \cup Reasons]]
         /\ box' \in [Commands -> [Slots -> Contents]]
         /\ pending' \subseteq Entries
         /\ answered' \in BOOLEAN
<1> DEFINE b == box[c]["main"]
<1>1. b \in Contents /\ b # Empty
  BY DEF TypeOK, Slots, Settle, Landed
<1>2. b.res \in {"ok", "error", "closed"} /\ b.why \in {"open"} \cup Reasons
  BY <1>1 DEF Contents, ClosedBy, Reasons
<1>3. PICK res \in Results : Return(c, res, b.why)
  BY <1>2 DEF Settle, Results
<1>4. answered' \in BOOLEAN
  BY DEF Settle, TypeOK, AliveSeen, Answer, ProbeAnswers
<1> QED BY <1>2, <1>3, <1>4, ReturnType

\* A probe's entry in the table, its message and its empty box are well typed.
LEMMA StartProbeType ==
  ASSUME TypeOK, NEW c \in Commands, NEW kind \in Probing, NEW round \in Nat,
         StartProbe(c, kind, round)
  PROVE  /\ pc' \in [Commands -> PCs]
         /\ outcome' \in [Commands -> [res : Results, why : {"open"} \cup Reasons]]
         /\ box' \in [Commands -> [Slots -> Contents]]
         /\ pending' \subseteq Entries /\ asked' \subseteq Entries
         /\ nextId' \in Nat
<1>1. Goto(c, kind) /\ kind \in PCs
  BY DEF StartProbe, PCs, Live, Waiting
<1>2. ClosedError \in Reasons
  BY DEF ClosedError, TypeOK, Reasons
<1>3. [id |-> nextId + 1, of |-> [cmd |-> c, kind |-> kind, round |-> round]] \in Entries
  BY SetsTyped DEF Entries, TypeOK
<1>4. DropProbe(c) \subseteq Entries
  BY DEF DropProbe, TypeOK
<1>5. \A v \in Contents : [box EXCEPT ![c]["probe"] = v] \in [Commands -> [Slots -> Contents]]
  BY DEF TypeOK, Slots
<1>6. box' \in [Commands -> [Slots -> Contents]]
  BY <1>2, <1>5, SetsTyped DEF StartProbe
<1>7. pending' \subseteq Entries /\ asked' \subseteq Entries /\ nextId' \in Nat
  BY <1>3, <1>4 DEF StartProbe, TypeOK
<1> QED BY <1>1, <1>6, <1>7, GotoType

\* Filling the boxes of a set of calls keeps the boxes well typed.
LEMMA DeliverType ==
  ASSUME TypeOK, NEW Which(_), NEW v \in Contents, Deliver(Which, v)
  PROVE  box' \in [Commands -> [Slots -> Contents]]
BY DEF Deliver, TypeOK

\* `Inner::close` keeps the table and the boxes well typed.
LEMMA CloseStateType ==
  ASSUME TypeOK, NEW why \in Reasons, CloseState(why)
  PROVE  /\ closed' \in {"open"} \cup Reasons
         /\ pending' \subseteq Entries
         /\ box' \in [Commands -> [Slots -> Contents]]
<1>1. ClosedBy(why) \in Contents
  BY SetsTyped
<1>2. box' \in [Commands -> [Slots -> Contents]]
  BY <1>1 DEF CloseState, Deliver, TypeOK
<1> QED BY <1>2 DEF CloseState, TypeOK

\* A command that waits another round stays well typed.
LEMMA KeepWaitingType ==
  ASSUME TypeOK, NEW c \in Commands, KeepWaiting(c)
  PROVE  /\ pc' \in [Commands -> PCs]
         /\ outcome' \in [Commands -> [res : Results, why : {"open"} \cup Reasons]]
         /\ box' \in [Commands -> [Slots -> Contents]]
         /\ pending' \subseteq Entries
         /\ answered' \in BOOLEAN
<1>1. Goto(c, "waiting") /\ "waiting" \in PCs
  BY DEF KeepWaiting, PCs, Live, Waiting
<1>2. box' \in [Commands -> [Slots -> Contents]]
  BY SetsTyped DEF KeepWaiting, TypeOK, Slots
<1>3. pending' \subseteq Entries
  BY DEF KeepWaiting, DropProbe, TypeOK
<1>4. answered' \in BOOLEAN
  BY DEF KeepWaiting, TypeOK, AliveSeen, ProbeAnswers
<1> QED BY <1>1, <1>2, <1>3, <1>4, GotoType

\* A command past its deadline stays well typed, whatever it does next.
LEMMA AfterDeadlineType ==
  ASSUME TypeOK, NEW c \in Commands, AfterDeadline(c)
  PROVE  /\ pc' \in [Commands -> PCs]
         /\ outcome' \in [Commands -> [res : Results, why : {"open"} \cup Reasons]]
         /\ box' \in [Commands -> [Slots -> Contents]]
         /\ pending' \subseteq Entries /\ asked' \subseteq Entries
         /\ nextId' \in Nat /\ answered' \in BOOLEAN
<1>1. CASE Settle(c) /\ UNCHANGED <<nextId, asked>>
  BY <1>1, SettleType DEF TypeOK
<1>2. CASE StartProbe(c, "last", rounds[c]) /\ UNCHANGED answered
  <2>1. "last" \in Probing /\ rounds[c] \in Nat
    BY DEF Probing, TypeOK
  <2> QED BY <1>2, <2>1, StartProbeType DEF TypeOK
<1> QED BY <1>1, <1>2 DEF AfterDeadline

(***************************************************************************)
(* Every step keeps the types.                                             *)
(***************************************************************************)
LEMMA TypeStep == TypeOK /\ [Next]_vars => TypeOK'
<1> SUFFICES ASSUME TypeOK, [Next]_vars PROVE TypeOK'
  OBVIOUS
<1> USE CdpAssumption
<1>p. /\ {"done", "idle", "checked", "inserted", "waiting", "alive", "page", "last"} \subseteq PCs
      /\ {"closed", "wedged", "refused", "live", "browserGone", "neverAnswered",
           "pageHung", "dropped"} \subseteq Results
      /\ {"alive", "page", "last"} \subseteq Probing
      /\ {"ConnectionClosed", "ConnectionError"} \subseteq Reasons
      /\ ClosedError \in Reasons
  BY DEF PCs, Live, Waiting, Probing, Results, Unanswered, Reasons, ClosedError, TypeOK
<1>1. ASSUME NEW c \in Commands, Begin(c) PROVE TypeOK'
  <2>1. Return(c, "refused", "open") \/ (Goto(c, "checked") /\ UNCHANGED <<box, pending>>)
    BY <1>1 DEF Begin
  <2> QED BY <1>1, <2>1, <1>p, ReturnType, GotoType
          DEF Begin, TypeOK, loops, health, wire
<1>2. ASSUME NEW c \in Commands, CallInsert(c) PROVE TypeOK'
  <2>1. CASE closed # "open"
    <3>1. PICK res \in Results : Return(c, res, closed)
      BY <1>2, <2>1, <1>p DEF CallInsert, ReturnClosed
    <3>2. closed \in {"open"} \cup Reasons
      BY DEF TypeOK
    <3> QED BY <1>2, <2>1, <3>1, <3>2, ReturnType
            DEF CallInsert, TypeOK, loops, health, wire
  <2>2. CASE closed = "open"
    <3>1. [id |-> nextId + 1, of |-> Main(c)] \in Entries
      BY SetsTyped DEF Entries, TypeOK
    <3>2. /\ Goto(c, "inserted") /\ UNCHANGED box
          /\ nextId' = nextId + 1 /\ ids' = [ids EXCEPT ![c] = nextId + 1]
          /\ pending' = pending \cup {[id |-> nextId + 1, of |-> Main(c)]}
      BY <1>2, <2>2 DEF CallInsert
    <3>3. nextId' \in Nat /\ ids' \in [Commands -> Nat] /\ pending' \subseteq Entries
      BY <3>1, <3>2 DEF TypeOK
    <3> QED BY <1>2, <3>2, <3>3, <1>p, GotoType DEF CallInsert, TypeOK, loops, health, wire
  <2> QED BY <2>1, <2>2
<1>3. ASSUME NEW c \in Commands, CallEnqueue(c) PROVE TypeOK'
  <2>1. CASE writer
    <3>1. [id |-> ids[c], of |-> Main(c)] \in Entries
      BY SetsTyped DEF Entries, TypeOK
    <3>2. Goto(c, "waiting") /\ asked' \subseteq Entries /\ UNCHANGED <<box, pending>>
      BY <1>3, <2>1, <3>1 DEF CallEnqueue, TypeOK
    <3> QED BY <1>3, <3>2, <1>p, GotoType DEF CallEnqueue, TypeOK, loops, health
  <2>2. CASE ~writer
    <3>1. PICK res \in Results : Return(c, res, ClosedError)
      BY <1>3, <2>2, <1>p DEF CallEnqueue, ReturnClosed
    <3>2. asked' = asked
      BY <1>3, <2>2 DEF CallEnqueue
    <3> QED BY <1>3, <3>1, <3>2, <1>p, ReturnType DEF CallEnqueue, TypeOK, loops, health
  <2> QED BY <2>1, <2>2
<1>4. ASSUME NEW c \in Commands, ReplyReady(c) PROVE TypeOK'
  <2>1. Settle(c)
    BY <1>4 DEF ReplyReady
  <2> QED BY <1>4, <2>1, SettleType DEF ReplyReady, TypeOK, loops, wire
<1>5. ASSUME NEW c \in Commands, WaitExpires(c) PROVE TypeOK'
  <2>1. StartProbe(c, "alive", rounds[c] + 1) /\ rounds[c] + 1 \in Nat
        /\ rounds' \in [Commands -> Nat]
    BY <1>5 DEF WaitExpires, TypeOK
  <2> QED BY <1>5, <2>1, <1>p, StartProbeType DEF WaitExpires, TypeOK, loops, health
<1>6. ASSUME NEW c \in Commands, DeadlinePasses(c) PROVE TypeOK'
  <2>1. AfterDeadline(c)
    BY <1>6 DEF DeadlinePasses
  <2> QED BY <1>6, <2>1, AfterDeadlineType DEF DeadlinePasses, TypeOK, loops
<1>7. ASSUME NEW c \in Commands, AliveEnds(c) PROVE TypeOK'
  <2>1. CASE StartProbe(c, "page", rounds[c]) /\ answered' = TRUE
    <3>1. rounds[c] \in Nat
      BY DEF TypeOK
    <3> QED BY <1>7, <2>1, <3>1, <1>p, StartProbeType DEF AliveEnds, TypeOK, loops
  <2>2. CASE Settle(c) /\ UNCHANGED <<nextId, asked>>
    BY <1>7, <2>2, SettleType DEF AliveEnds, TypeOK, loops
  <2>3. CASE KeepWaiting(c) /\ UNCHANGED <<nextId, asked>>
    BY <1>7, <2>3, KeepWaitingType DEF AliveEnds, TypeOK, loops
  <2>4. CASE /\ Return(c, IF answered THEN "browserGone" ELSE "neverAnswered", "open")
             /\ UNCHANGED answered /\ UNCHANGED <<nextId, asked>>
    <3>1. PICK res \in Results : Return(c, res, "open")
      BY <2>4, <1>p
    <3> QED BY <1>7, <2>4, <3>1, ReturnType DEF AliveEnds, TypeOK, loops
  <2> QED BY <1>7, <2>1, <2>2, <2>3, <2>4 DEF AliveEnds
<1>8. ASSUME NEW c \in Commands, PageEnds(c) PROVE TypeOK'
  <2>1. CASE AfterDeadline(c)
    BY <1>8, <2>1, AfterDeadlineType DEF PageEnds, TypeOK, loops
  <2>2. CASE Settle(c) /\ UNCHANGED <<nextId, asked>>
    BY <1>8, <2>2, SettleType DEF PageEnds, TypeOK, loops
  <2>3. CASE KeepWaiting(c) /\ UNCHANGED <<nextId, asked>>
    BY <1>8, <2>3, KeepWaitingType DEF PageEnds, TypeOK, loops
  <2> QED BY <1>8, <2>1, <2>2, <2>3 DEF PageEnds
<1>9. ASSUME NEW c \in Commands, LastEnds(c) PROVE TypeOK'
  <2>1. CASE Settle(c) /\ UNCHANGED deadlines
    BY <1>9, <2>1, SettleType DEF LastEnds, TypeOK, loops, wire
  <2>2. CASE answered' = TRUE /\ Return(c, "pageHung", "open") /\ Charge(c)
    <3>1. deadlines' \in [Sessions -> Nat]
      BY <2>2 DEF Charge, TypeOK
    <3> QED BY <1>9, <2>2, <3>1, <1>p, ReturnType DEF LastEnds, TypeOK, loops, wire
  <2>3. CASE Return(c, "browserGone", "open") /\ UNCHANGED <<answered, deadlines>>
    BY <1>9, <2>3, <1>p, ReturnType DEF LastEnds, TypeOK, loops, wire
  <2> QED BY <1>9, <2>1, <2>2, <2>3 DEF LastEnds
<1>10. ASSUME NEW c \in Commands, WedgedBegin(c) PROVE TypeOK'
  <2>1. \/ Return(c, "live", "open") \/ Return(c, "wedged", "open")
        \/ Goto(c, "checked") /\ UNCHANGED <<box, pending>>
    BY <1>10 DEF WedgedBegin
  <2> QED BY <1>10, <2>1, <1>p, ReturnType, GotoType DEF WedgedBegin, TypeOK, loops, health, wire
<1>11. ASSUME NEW c \in Commands, WedgedEnds(c) PROVE TypeOK'
  <2>1. PICK res \in Results : Return(c, res, "open")
    BY <1>11, <1>p DEF WedgedEnds
  <2> QED BY <1>11, <2>1, ReturnType DEF WedgedEnds, TypeOK, loops, health, wire
<1>12. ASSUME NEW c \in Commands, DropFuture(c) PROVE TypeOK'
  <2>1. Return(c, "dropped", "open")
    BY <1>12 DEF DropFuture
  <2> QED BY <1>12, <2>1, <1>p, ReturnType DEF DropFuture, TypeOK, loops, health, wire
<1>13. ASSUME NEW s \in Sessions, MissedDeadline(s) PROVE TypeOK'
  BY <1>13 DEF MissedDeadline, TypeOK, table, loops, wire, calls
<1>14. CASE Dispatch
  <2>1. Head(socket) \in Replies \cup Events /\ socket' \in Seq(Replies \cup Events)
    BY <1>14 DEF Dispatch, TypeOK
  <2>2. CASE Head(socket).type = "event"
    BY <1>14, <2>1, <2>2 DEF Dispatch, TypeOK, loops, health
  <2>3. CASE Head(socket).type = "reply"
    <3>1. Head(socket) \in Replies
      BY <2>1, <2>3 DEF Events
    <3>2. Replied(Head(socket)) \in Contents
      BY <3>1, SetsTyped
    <3>3. box' = [c \in Commands |-> [s \in Slots |->
                    IF \E p \in pending : p.id = Head(socket).id /\ p.of.cmd = c
                                              /\ SlotOf(p.of.kind) = s
                    THEN Replied(Head(socket)) ELSE box[c][s]]]
      BY <1>14, <2>3 DEF Dispatch, Deliver
    <3>4. box' \in [Commands -> [Slots -> Contents]]
      BY <3>2, <3>3 DEF TypeOK
    <3> QED BY <1>14, <2>1, <2>3, <3>4 DEF Dispatch, TypeOK, loops, health
  <2> QED BY <1>14, <2>2, <2>3 DEF Dispatch
<1>15. CASE ReaderEnds
  <2>1. socket' \in Seq(Replies \cup Events) /\ CloseState("ConnectionClosed")
    BY <1>15 DEF ReaderEnds, TypeOK
  <2> QED BY <1>15, <2>1, <1>p, CloseStateType DEF ReaderEnds, TypeOK, health
<1>16. CASE WriterEnds
  BY <1>16 DEF WriterEnds, TypeOK, table, health, wire, calls
<1>17. CASE Keepalive
  <2>1. CASE pong
    BY <1>17, <2>1 DEF Keepalive, TypeOK, health, wire
  <2>2. CASE ~pong
    <3>1. CloseState("ConnectionClosed")
      BY <1>17, <2>2 DEF Keepalive
    <3> QED BY <1>17, <2>2, <3>1, <1>p, CloseStateType DEF Keepalive, TypeOK, health, wire
  <2> QED BY <2>1, <2>2
<1>18. CASE PongArrives
  BY <1>18 DEF PongArrives, TypeOK, table, health, wire, calls
<1>19. CASE CloseConnection
  <2>1. CloseState("ConnectionError")
    BY <1>19 DEF CloseConnection
  <2> QED BY <1>19, <2>1, <1>p, CloseStateType DEF CloseConnection, TypeOK, health, wire
<1>20. CASE BrowserReplies
  <2>1. PICK r \in asked, res \in {"ok", "error"} :
          /\ asked' = asked \ {r}
          /\ socket' = Append(socket, [type |-> "reply", id |-> r.id, of |-> r.of,
                                       res |-> res, after |-> emitted])
    BY <1>20 DEF BrowserReplies
  <2>2. [type |-> "reply", id |-> r.id, of |-> r.of, res |-> res, after |-> emitted] \in Replies
    BY DEF TypeOK, Replies, Entries
  <2>3. socket' \in Seq(Replies \cup Events) /\ asked' \subseteq Entries
    BY <2>1, <2>2 DEF TypeOK
  <2> QED BY <1>20, <2>3 DEF BrowserReplies, TypeOK, table, loops, health, calls
<1>21. CASE BrowserEmits \/ BrowserCloses
  <2>1. [type |-> "event"] \in Events /\ [type |-> "close"] \in Events
    BY DEF Events
  <2>2. \E e \in Events : socket' = Append(socket, e)
    BY <1>21, <2>1 DEF BrowserEmits, BrowserCloses
  <2>3. socket' \in Seq(Replies \cup Events)
    BY <2>2 DEF TypeOK
  <2>4. emitted' \in Nat
    BY <1>21 DEF BrowserEmits, BrowserCloses, TypeOK
  <2> QED BY <1>21, <2>3, <2>4 DEF BrowserEmits, BrowserCloses, TypeOK, table, loops, health, calls
<1>22. CASE UNCHANGED vars
  BY <1>22 DEF TypeOK, vars, table, loops, health, wire, calls
<1> QED
  BY <1>1, <1>2, <1>3, <1>4, <1>5, <1>6, <1>7, <1>8, <1>9, <1>10, <1>11, <1>12, <1>13, <1>14,
     <1>15, <1>16, <1>17, <1>18, <1>19, <1>20, <1>21, <1>22 DEF Next, SendStep

\* The connection starts well typed.
LEMMA TypeInit == Init => TypeOK
<1> SUFFICES ASSUME Init PROVE TypeOK
  OBVIOUS
<1>1. box \in [Commands -> [Slots -> Contents]]
  BY SetsTyped DEF Init
<1>2. outcome \in [Commands -> [res : Results, why : {"open"} \cup Reasons]]
  BY SetsTyped DEF Init
<1>3. socket \in Seq(Replies \cup Events)
  BY DEF Init
<1> QED BY <1>1, <1>2, <1>3 DEF Init, TypeOK, PCs

\* Every reachable state of the connection is type correct.
THEOREM TypeCorrect == Spec => []TypeOK
BY TypeInit, TypeStep, PTL DEF Spec

----------------------------------------------------------------------------
(* The routing of replies.  PendingIsAwaited and RepliesReachTheirCall are *)
(* not inductive: a reply is delivered by its id alone, so it has to be    *)
(* known that an id, wherever it travels, stands for one call.             *)

\* An id in the table is in use for one call, in the table, in the requests
\* the browser holds, and in the replies on the socket.
IdNamesOneCall ==
  /\ \A p \in pending : p.id \in 1..nextId
  /\ \A a \in asked : a.id <= nextId
  /\ \A i \in 1..Len(socket) : socket[i].type = "reply" => socket[i].id <= nextId
  /\ \A c \in Commands : ids[c] <= nextId
  /\ \A p \in pending, a \in asked : a.id = p.id => a.of = p.of
  /\ \A p \in pending : \A i \in 1..Len(socket) :
       socket[i].type = "reply" /\ socket[i].id = p.id => socket[i].of = p.of
  /\ \A p \in pending, c \in Commands : ids[c] = p.id => p.of = Main(c)

\* A channel has at most one sender, and none before its call is made.
OneSender ==
  /\ \A p, q \in pending :
       p.of.cmd = q.of.cmd /\ SlotOf(p.of.kind) = SlotOf(q.of.kind) => p = q
  /\ \A c \in Commands : pc[c] \in {"idle", "checked"} =>
       \A s \in Slots : box[c][s] = Empty

Routing == IdNamesOneCall /\ OneSender /\ PendingIsAwaited /\ RepliesReachTheirCall

\* A reply on the socket names the call the browser answered.
LEMMA RepliesOnSocket ==
  ASSUME TypeOK PROVE \A i \in 1..Len(socket) : socket[i].type = "reply" => socket[i] \in Replies
<1>1. \A i \in 1..Len(socket) : socket[i] \in Replies \cup Events
  BY DEF TypeOK
<1> QED BY <1>1 DEF Events

\* A call that returns takes its entries along, so the table stays exact.
LEMMA ReturnKeepsRouting ==
  ASSUME TypeOK, Routing, NEW c \in Commands, NEW res, NEW why, Return(c, res, why),
         UNCHANGED <<nextId, closed, asked, socket, ids, rounds>>
  PROVE  Routing'
<1>1. \A p \in pending' : p \in pending /\ p.of.cmd # c /\ p.of.cmd \in Commands
  BY DEF Return, DropCalls, TypeOK, Entries, Calls
<1>2. \A d \in Commands : d # c => pc'[d] = pc[d] /\ box'[d] = box[d]
  BY DEF Return, TypeOK
<1>3. pc'[c] = "done" /\ \A s \in Slots : box'[c][s] = Empty
  BY DEF Return, TypeOK
<1>4. IdNamesOneCall'
  BY <1>1 DEF Routing, IdNamesOneCall
<1>5. OneSender'
  BY <1>1, <1>2, <1>3 DEF Routing, OneSender
<1>6. PendingIsAwaited'
  BY <1>1, <1>2 DEF Routing, PendingIsAwaited
<1>7. RepliesReachTheirCall'
  BY <1>2, <1>3 DEF Routing, RepliesReachTheirCall, Answer, Empty
<1> QED BY <1>4, <1>5, <1>6, <1>7 DEF Routing

\* A probe is entered under a fresh id and awaited by its command alone.
LEMMA StartProbeKeepsRouting ==
  ASSUME TypeOK, Routing, NEW c \in Commands, NEW kind \in Probing, NEW round \in Nat,
         pc[c] \in Waiting,
         StartProbe(c, kind, round), rounds' = [rounds EXCEPT ![c] = round],
         UNCHANGED <<closed, socket, ids>>
  PROVE  Routing'
<1> DEFINE entry == [id |-> nextId + 1, of |-> [cmd |-> c, kind |-> kind, round |-> round]]
<1>1. \A d \in Commands : d # c => pc'[d] = pc[d] /\ box'[d] = box[d] /\ rounds'[d] = rounds[d]
  BY DEF StartProbe, Goto, TypeOK
<1>2. pc'[c] = kind /\ rounds'[c] = round /\ box'[c]["main"] = box[c]["main"]
  BY DEF StartProbe, Goto, TypeOK, Slots
<1>3. ~Answer(box'[c]["probe"])
  BY DEF StartProbe, TypeOK, Slots, Answer, Empty, ClosedBy
<1>4. kind # "main" /\ kind \in Live /\ kind \notin {"idle", "checked"}
  BY DEF Probing, Live, Waiting
<1>5. CASE closed = "open" /\ writer
  <2>1. /\ nextId' = nextId + 1 /\ pending' = DropProbe(c) \cup {entry}
        /\ asked' = asked \cup {entry} /\ box'[c]["probe"] = Empty
    BY <1>5 DEF StartProbe, TypeOK, Slots
  <2>2. \A p \in pending' : p = entry \/ (p \in pending /\ p.of.cmd \in Commands
                                          /\ (p.of.cmd # c \/ p.of.kind = "main"))
    BY <2>1 DEF DropProbe, TypeOK, Entries, Calls
  <2>3. IdNamesOneCall'
    <3>1. entry.id = nextId + 1 /\ entry.of = [cmd |-> c, kind |-> kind, round |-> round]
      OBVIOUS
    <3>2. \A p \in pending' : p.id \in 1..nextId'
      BY <2>1, <2>2, <3>1 DEF Routing, IdNamesOneCall, TypeOK
    <3>3. /\ \A a \in asked' : a.id <= nextId'
          /\ \A i \in 1..Len(socket') : socket'[i].type = "reply" => socket'[i].id <= nextId'
          /\ \A d \in Commands : ids'[d] <= nextId'
      <4>1. \A a \in asked : a.id \in Nat
        BY DEF TypeOK, Entries
      <4>2. \A i \in 1..Len(socket) : socket[i].type = "reply" => socket[i].id \in Nat
        BY RepliesOnSocket DEF Replies
      <4> QED BY <2>1, <3>1, <4>1, <4>2 DEF Routing, IdNamesOneCall, TypeOK
    <3>4. \A p \in pending', a \in asked' : a.id = p.id => a.of = p.of
      <4>1. \A a \in asked : a.id \in Nat /\ a.id <= nextId
        BY DEF TypeOK, Entries, Routing, IdNamesOneCall
      <4>2. \A p \in pending : p.id \in Nat /\ p.id <= nextId
        BY DEF TypeOK, Entries, Routing, IdNamesOneCall
      <4> QED BY <2>1, <2>2, <3>1, <4>1, <4>2 DEF Routing, IdNamesOneCall, TypeOK
    <3>5. \A p \in pending' : \A i \in 1..Len(socket') :
            socket'[i].type = "reply" /\ socket'[i].id = p.id => socket'[i].of = p.of
      <4>1. \A i \in 1..Len(socket) : socket[i].type = "reply" =>
              socket[i].id \in Nat /\ socket[i].id <= nextId
        BY RepliesOnSocket DEF Replies, Routing, IdNamesOneCall
      <4> SUFFICES ASSUME NEW p \in pending', NEW i \in 1..Len(socket),
                          socket[i].type = "reply", socket[i].id = p.id
                   PROVE  socket[i].of = p.of
        OBVIOUS
      <4>2. p # entry
        BY <3>1, <4>1 DEF TypeOK
      <4> QED BY <2>2, <4>2 DEF Routing, IdNamesOneCall
    <3>6. \A p \in pending', d \in Commands : ids'[d] = p.id => p.of = Main(d)
      <4> SUFFICES ASSUME NEW p \in pending', NEW d \in Commands, ids[d] = p.id
                   PROVE  p.of = Main(d)
        OBVIOUS
      <4>1. ids[d] \in Nat /\ ids[d] <= nextId /\ nextId \in Nat
        BY DEF Routing, IdNamesOneCall, TypeOK
      <4>2. p # entry
        BY <3>1, <4>1
      <4> QED BY <2>2, <4>2 DEF Routing, IdNamesOneCall
    <3> QED BY <3>2, <3>3, <3>4, <3>5, <3>6 DEF IdNamesOneCall
  <2>4. OneSender'
    BY <1>1, <1>2, <1>4, <2>2 DEF Routing, OneSender, SlotOf
  <2>5. PendingIsAwaited'
    <3>1. \A p \in pending' : p # entry =>
            /\ pc'[p.of.cmd] \in Live
            /\ p.of.kind # "main" => pc'[p.of.cmd] = p.of.kind /\ p.of.round = rounds'[p.of.cmd]
            /\ box'[p.of.cmd][SlotOf(p.of.kind)] = Empty
      BY <1>1, <1>2, <1>4, <2>2 DEF Routing, PendingIsAwaited, SlotOf
    <3> QED BY <1>2, <1>4, <1>5, <2>1, <3>1 DEF PendingIsAwaited, SlotOf
  <2>6. RepliesReachTheirCall'
    BY <1>1, <1>2, <1>3 DEF Routing, RepliesReachTheirCall, Slots
  <2> QED BY <2>3, <2>4, <2>5, <2>6 DEF Routing
<1>6. CASE closed # "open" \/ ~writer
  <2>1. nextId' = nextId /\ asked' = asked /\ pending' = DropProbe(c)
    BY <1>6 DEF StartProbe
  <2>2. \A p \in pending' : p \in pending /\ p.of.cmd \in Commands
                               /\ (p.of.cmd # c \/ p.of.kind = "main")
    BY <2>1 DEF DropProbe, TypeOK, Entries, Calls
  <2>3. IdNamesOneCall'
    BY <2>1, <2>2 DEF Routing, IdNamesOneCall
  <2>4. OneSender'
    BY <1>1, <1>2, <1>4, <2>2 DEF Routing, OneSender
  <2>5. PendingIsAwaited'
    BY <1>1, <1>2, <1>4, <2>2 DEF Routing, PendingIsAwaited, SlotOf
  <2>6. RepliesReachTheirCall'
    BY <1>1, <1>2, <1>3 DEF Routing, RepliesReachTheirCall, Slots
  <2> QED BY <2>3, <2>4, <2>5, <2>6 DEF Routing
<1> QED BY <1>5, <1>6

\* Waiting another round drops the probe's entry with its guard.
LEMMA KeepWaitingKeepsRouting ==
  ASSUME TypeOK, Routing, NEW c \in Commands, KeepWaiting(c),
         UNCHANGED <<nextId, closed, asked, socket, ids, rounds>>
  PROVE  Routing'
<1>1. \A p \in pending' : p \in pending /\ p.of.cmd \in Commands
                             /\ (p.of.cmd # c \/ p.of.kind = "main")
  BY DEF KeepWaiting, DropProbe, TypeOK, Entries, Calls
<1>2. \A d \in Commands : d # c => pc'[d] = pc[d] /\ box'[d] = box[d]
  BY DEF KeepWaiting, Goto, TypeOK
<1>3. /\ pc'[c] = "waiting" /\ box'[c]["main"] = box[c]["main"]
      /\ box'[c]["probe"] = Empty
  BY DEF KeepWaiting, Goto, TypeOK, Slots
<1>4. IdNamesOneCall'
  BY <1>1 DEF Routing, IdNamesOneCall
<1>5. OneSender'
  BY <1>1, <1>2, <1>3 DEF Routing, OneSender
<1>6. PendingIsAwaited'
  BY <1>1, <1>2, <1>3 DEF Routing, PendingIsAwaited, SlotOf, Live, Waiting
<1>7. RepliesReachTheirCall'
  BY <1>2, <1>3 DEF Routing, RepliesReachTheirCall, Slots, Answer, Empty
<1> QED BY <1>4, <1>5, <1>6, <1>7 DEF Routing

\* A close empties the table and fails the calls that were in it.
LEMMA CloseKeepsRouting ==
  ASSUME TypeOK, Routing, NEW why \in Reasons, CloseState(why),
         socket' = socket \/ (socket # <<>> /\ socket' = Tail(socket)),
         UNCHANGED <<nextId, asked, pc, ids, rounds>>
  PROVE  Routing'
<1>1. pending' = {}
  BY DEF CloseState
<1>2. \A c \in Commands, s \in Slots : box'[c][s] = ClosedBy(why) \/ box'[c][s] = box[c][s]
  BY DEF CloseState, Deliver
<1>3. \A c \in Commands, s \in Slots : box'[c][s] # box[c][s] => pc[c] \in Live
  <2>1. \A p \in pending : pc[p.of.cmd] \in Live
    BY DEF Routing, PendingIsAwaited
  <2> QED BY <2>1 DEF CloseState, Deliver
<1>4. IdNamesOneCall'
  <2>1. CASE socket' = socket
    BY <1>1, <2>1 DEF Routing, IdNamesOneCall
  <2>2. CASE socket # <<>> /\ socket' = Tail(socket)
    <3>1. \A i \in 1..Len(socket') : i + 1 \in 1..Len(socket) /\ socket'[i] = socket[i + 1]
      BY <2>2 DEF TypeOK
    <3> QED BY <1>1, <3>1 DEF Routing, IdNamesOneCall
  <2> QED BY <2>1, <2>2
<1>5. OneSender'
  BY <1>1, <1>2, <1>3 DEF Routing, OneSender, Live, Waiting, Probing
<1>6. PendingIsAwaited'
  BY <1>1 DEF PendingIsAwaited
<1>7. RepliesReachTheirCall'
  BY <1>2 DEF Routing, RepliesReachTheirCall, Answer, ClosedBy
<1> QED BY <1>4, <1>5, <1>6, <1>7 DEF Routing

\* The turn after a deadline, one more probe or the end, keeps the table exact.
LEMMA AfterDeadlineKeepsRouting ==
  ASSUME TypeOK, Routing, NEW c \in Commands, pc[c] \in Waiting, AfterDeadline(c),
         UNCHANGED <<closed, socket, ids, rounds>>
  PROVE  Routing'
<1>1. CASE Settle(c) /\ UNCHANGED <<nextId, asked>>
  BY <1>1, ReturnKeepsRouting DEF Settle
<1>2. CASE StartProbe(c, "last", rounds[c])
  <2>1. "last" \in Probing /\ rounds[c] \in Nat /\ rounds' = [rounds EXCEPT ![c] = rounds[c]]
    BY DEF Probing, TypeOK
  <2> QED BY <1>2, <2>1, StartProbeKeepsRouting
<1> QED BY <1>1, <1>2 DEF AfterDeadline

\* Every step of the commands, the tasks and the browser preserves Routing.
LEMMA RoutingStep == TypeOK /\ Routing /\ [Next]_vars => Routing'
<1> SUFFICES ASSUME TypeOK, Routing, [Next]_vars PROVE Routing'
  OBVIOUS
<1>r. \A c \in Commands : rounds[c] \in Nat /\ rounds = [rounds EXCEPT ![c] = rounds[c]]
  BY DEF TypeOK
<1>k. {"alive", "page", "last"} \subseteq Probing
  BY DEF Probing
<1>w. {"waiting", "alive", "page", "last"} \subseteq Waiting
  BY DEF Waiting, Probing
<1>1. ASSUME NEW c \in Commands, Begin(c) \/ WedgedBegin(c) PROVE Routing'
  <2>1. CASE \E res : Return(c, res, "open")
    BY <1>1, <2>1, ReturnKeepsRouting DEF Begin, WedgedBegin, wire
  <2>2. CASE Goto(c, "checked") /\ UNCHANGED <<box, pending>>
    <3>1. /\ pc[c] = "idle" /\ pc' = [pc EXCEPT ![c] = "checked"]
          /\ UNCHANGED <<nextId, closed, asked, socket, ids, rounds>>
      BY <1>1, <2>2 DEF Begin, WedgedBegin, Goto, wire
    <3>2. \A p \in pending : p.of.cmd # c /\ p.of.cmd \in Commands
      BY <3>1 DEF Routing, PendingIsAwaited, Live, Waiting, Probing, TypeOK, Entries, Calls
    <3>3. \A d \in Commands : pc'[d] = IF d = c THEN "checked" ELSE pc[d]
      BY <3>1 DEF TypeOK
    <3>4. PendingIsAwaited'
      BY <2>2, <3>1, <3>2, <3>3 DEF Routing, PendingIsAwaited
    <3>5. RepliesReachTheirCall'
      BY <2>2, <3>1, <3>3 DEF Routing, RepliesReachTheirCall, Probing
    <3>6. IdNamesOneCall' /\ OneSender'
      BY <2>2, <3>1, <3>3 DEF Routing, IdNamesOneCall, OneSender
    <3> QED BY <3>4, <3>5, <3>6 DEF Routing
  <2> QED BY <1>1, <2>1, <2>2 DEF Begin, WedgedBegin
<1>2. ASSUME NEW c \in Commands, CallInsert(c) PROVE Routing'
  <2>1. CASE closed # "open"
    <3>1. ReturnClosed(c, closed) /\ UNCHANGED <<nextId, ids, closed, asked, socket, rounds>>
      BY <1>2, <2>1 DEF CallInsert, wire
    <3> QED BY <3>1, ReturnKeepsRouting DEF ReturnClosed
  <2>2. CASE closed = "open"
    <3> DEFINE entry == [id |-> nextId + 1, of |-> Main(c)]
    <3>1. /\ pc[c] = "checked" /\ pc' = [pc EXCEPT ![c] = "inserted"]
          /\ nextId' = nextId + 1 /\ pending' = pending \cup {entry}
          /\ ids' = [ids EXCEPT ![c] = nextId + 1]
          /\ UNCHANGED <<box, closed, asked, socket, rounds>>
      BY <1>2, <2>2 DEF CallInsert, Goto, wire
    <3>2. \A p \in pending : p.of.cmd # c /\ p.of.cmd \in Commands /\ p.id \in Nat /\ p.id <= nextId
      <4>1. \A p \in pending : p.of.cmd \in Commands /\ p.id \in Nat
        BY DEF TypeOK, Entries, Calls
      <4>2. \A p \in pending : p.id <= nextId
        BY DEF Routing, IdNamesOneCall, TypeOK
      <4>3. \A p \in pending : p.of.cmd # c
        BY <3>1 DEF Routing, PendingIsAwaited, Live, Waiting, Probing
      <4> QED BY <4>1, <4>2, <4>3
    <3>3. \A d \in Commands : /\ pc'[d] = IF d = c THEN "inserted" ELSE pc[d]
                              /\ ids'[d] = IF d = c THEN nextId + 1 ELSE ids[d]
      BY <3>1 DEF TypeOK
    <3>4. /\ entry.id = nextId + 1 /\ entry.of = Main(c)
          /\ entry.of.cmd = c /\ entry.of.kind = "main"
      BY DEF Main
    <3>5. \A a \in asked : a.id \in Nat /\ a.id <= nextId
      BY DEF TypeOK, Entries, Routing, IdNamesOneCall
    <3>6. \A i \in 1..Len(socket) : socket[i].type = "reply" =>
            socket[i].id \in Nat /\ socket[i].id <= nextId
      BY RepliesOnSocket DEF Replies, Routing, IdNamesOneCall
    <3>7. \A d \in Commands : ids[d] \in Nat /\ ids[d] <= nextId /\ nextId \in Nat
      BY DEF TypeOK, Routing, IdNamesOneCall
    <3>8. IdNamesOneCall'
      <4>1. \A p \in pending' : p.id \in 1..nextId'
        BY <3>1, <3>4, <3>7 DEF Routing, IdNamesOneCall
      <4>2. /\ \A a \in asked' : a.id <= nextId'
            /\ \A i \in 1..Len(socket') : socket'[i].type = "reply" => socket'[i].id <= nextId'
            /\ \A d \in Commands : ids'[d] <= nextId'
        BY <3>1, <3>3, <3>5, <3>6, <3>7
      <4>3. \A p \in pending', a \in asked' : a.id = p.id => a.of = p.of
        BY <3>1, <3>4, <3>5, <3>7 DEF Routing, IdNamesOneCall
      <4>4. \A p \in pending' : \A i \in 1..Len(socket') :
              socket'[i].type = "reply" /\ socket'[i].id = p.id => socket'[i].of = p.of
        <5> SUFFICES ASSUME NEW p \in pending', NEW i \in 1..Len(socket),
                            socket[i].type = "reply", socket[i].id = p.id
                     PROVE  socket[i].of = p.of
          BY <3>1
        <5>1. p # entry
          BY <3>4, <3>6, <3>7
        <5> QED BY <3>1, <5>1 DEF Routing, IdNamesOneCall
      <4>5. \A p \in pending', d \in Commands : ids'[d] = p.id => p.of = Main(d)
        BY <3>1, <3>2, <3>3, <3>4, <3>7 DEF Routing, IdNamesOneCall
      <4> QED BY <4>1, <4>2, <4>3, <4>4, <4>5 DEF IdNamesOneCall
    <3>9. OneSender'
      BY <3>1, <3>2, <3>3, <3>4 DEF Routing, OneSender
    <3>10. PendingIsAwaited'
      <4>1. box[c]["main"] = Empty
        BY <3>1 DEF Routing, OneSender, Slots
      <4> QED BY <2>2, <3>1, <3>2, <3>3, <3>4, <4>1 DEF Routing, PendingIsAwaited, SlotOf, Live
    <3>11. RepliesReachTheirCall'
      BY <3>1, <3>3 DEF Routing, RepliesReachTheirCall, Probing
    <3> QED BY <3>8, <3>9, <3>10, <3>11 DEF Routing
  <2> QED BY <2>1, <2>2
<1>3. ASSUME NEW c \in Commands, CallEnqueue(c) PROVE Routing'
  <2>1. CASE ~writer
    <3>1. ReturnClosed(c, ClosedError) /\ UNCHANGED <<nextId, ids, closed, asked, socket, rounds>>
      BY <1>3, <2>1 DEF CallEnqueue
    <3> QED BY <3>1, ReturnKeepsRouting DEF ReturnClosed
  <2>2. CASE writer
    <3>1. /\ pc[c] = "inserted" /\ pc' = [pc EXCEPT ![c] = "waiting"]
          /\ asked' = asked \cup {[id |-> ids[c], of |-> Main(c)]}
          /\ UNCHANGED <<nextId, pending, box, closed, socket, ids, rounds>>
      BY <1>3, <2>2 DEF CallEnqueue, Goto
    <3>2. \A d \in Commands : pc'[d] = IF d = c THEN "waiting" ELSE pc[d]
      BY <3>1 DEF TypeOK
    <3>3. \A p \in pending : p.of.cmd \in Commands /\ p.of.kind \in {"main"} \cup Probing
      BY DEF TypeOK, Entries, Calls
    <3>4. IdNamesOneCall'
      BY <3>1 DEF Routing, IdNamesOneCall
    <3>5. OneSender'
      BY <3>1, <3>2 DEF Routing, OneSender
    <3>6. PendingIsAwaited'
      BY <3>1, <3>2, <3>3 DEF Routing, PendingIsAwaited, Live, Waiting, Probing
    <3>7. RepliesReachTheirCall'
      BY <3>1, <3>2 DEF Routing, RepliesReachTheirCall, Probing
    <3> QED BY <3>4, <3>5, <3>6, <3>7 DEF Routing
  <2> QED BY <2>1, <2>2
<1>4. ASSUME NEW c \in Commands, ReplyReady(c) PROVE Routing'
  BY <1>4, ReturnKeepsRouting DEF ReplyReady, Settle, wire
<1>5. ASSUME NEW c \in Commands, WaitExpires(c) PROVE Routing'
  <2>1. /\ pc[c] \in Waiting /\ rounds[c] + 1 \in Nat
        /\ StartProbe(c, "alive", rounds[c] + 1) /\ rounds' = [rounds EXCEPT ![c] = rounds[c] + 1]
        /\ UNCHANGED <<closed, socket, ids>>
    BY <1>5, <1>w, <1>r DEF WaitExpires
  <2> QED BY <2>1, <1>k, StartProbeKeepsRouting
<1>6. ASSUME NEW c \in Commands, DeadlinePasses(c) PROVE Routing'
  BY <1>6, <1>w, AfterDeadlineKeepsRouting DEF DeadlinePasses
<1>7. ASSUME NEW c \in Commands, AliveEnds(c) PROVE Routing'
  <2>1. pc[c] \in Waiting /\ UNCHANGED <<closed, socket, ids, rounds>>
    BY <1>7, <1>w DEF AliveEnds
  <2>2. CASE StartProbe(c, "page", rounds[c])
    BY <2>1, <2>2, <1>r, <1>k, StartProbeKeepsRouting
  <2>3. CASE (\E res, why : Return(c, res, why)) /\ UNCHANGED <<nextId, asked>>
    BY <2>1, <2>3, ReturnKeepsRouting
  <2>4. CASE KeepWaiting(c) /\ UNCHANGED <<nextId, asked>>
    BY <2>1, <2>4, KeepWaitingKeepsRouting
  <2> QED BY <1>7, <2>2, <2>3, <2>4 DEF AliveEnds, Settle
<1>8. ASSUME NEW c \in Commands, PageEnds(c) PROVE Routing'
  <2>1. pc[c] \in Waiting /\ UNCHANGED <<closed, socket, ids, rounds>>
    BY <1>8, <1>w DEF PageEnds
  <2>2. CASE AfterDeadline(c)
    BY <2>1, <2>2, AfterDeadlineKeepsRouting
  <2>3. CASE Settle(c) /\ UNCHANGED <<nextId, asked>>
    BY <2>1, <2>3, ReturnKeepsRouting DEF Settle
  <2>4. CASE KeepWaiting(c) /\ UNCHANGED <<nextId, asked>>
    BY <2>1, <2>4, KeepWaitingKeepsRouting
  <2> QED BY <1>8, <2>2, <2>3, <2>4 DEF PageEnds
<1>9. ASSUME NEW c \in Commands, LastEnds(c) \/ WedgedEnds(c) \/ DropFuture(c) PROVE Routing'
  <2>1. /\ \E res, why : Return(c, res, why)
        /\ UNCHANGED <<nextId, closed, asked, socket, ids, rounds>>
    BY <1>9 DEF LastEnds, WedgedEnds, DropFuture, Settle, wire
  <2> QED BY <2>1, ReturnKeepsRouting
<1>10. CASE Dispatch
  <2> DEFINE m == Head(socket)
  <2>1. /\ socket # <<>> /\ socket' = Tail(socket) /\ m.type # "close"
        /\ UNCHANGED <<nextId, closed, asked, pc, ids, rounds>>
    BY <1>10 DEF Dispatch
  <2>2. \A i \in 1..Len(socket') : i + 1 \in 1..Len(socket) /\ socket'[i] = socket[i + 1]
    BY <2>1 DEF TypeOK
  <2>3. pending' \subseteq pending
    BY <1>10 DEF Dispatch
  <2>4. IdNamesOneCall'
    BY <2>1, <2>2, <2>3 DEF Routing, IdNamesOneCall
  <2>5. CASE m.type = "event"
    <3>1. UNCHANGED <<pending, box>>
      BY <1>10, <2>5 DEF Dispatch
    <3> QED BY <2>1, <2>4, <3>1 DEF Routing, OneSender, PendingIsAwaited, RepliesReachTheirCall
  <2>6. CASE m.type = "reply"
    <3>1. /\ pending' = {p \in pending : p.id # m.id}
          /\ box' = [c \in Commands |-> [s \in Slots |->
               IF \E p \in pending : p.id = m.id /\ p.of.cmd = c /\ SlotOf(p.of.kind) = s
               THEN Replied(m) ELSE box[c][s]]]
      BY <1>10, <2>6 DEF Dispatch, Deliver
    <3>2. \A p \in pending : p.id = m.id => m.of = p.of
      <4>1. 1 \in 1..Len(socket) /\ m = socket[1]
        BY <2>1 DEF TypeOK
      <4> QED BY <4>1, <2>6 DEF Routing, IdNamesOneCall
    <3>3. \A p \in pending : p.of.cmd \in Commands /\ SlotOf(p.of.kind) \in Slots
      BY DEF TypeOK, Entries, Calls, SlotOf, Slots
    <3>4. \A p \in pending' : box'[p.of.cmd][SlotOf(p.of.kind)] = box[p.of.cmd][SlotOf(p.of.kind)]
      BY <3>1, <3>3 DEF Routing, OneSender
    <3>5. PendingIsAwaited'
      BY <2>1, <2>3, <3>4 DEF Routing, PendingIsAwaited
    <3>6. OneSender'
      <4>1. \A c \in Commands : pc[c] \in {"idle", "checked"} => \A p \in pending : p.of.cmd # c
        BY DEF Routing, PendingIsAwaited, Live, Waiting, Probing
      <4> QED BY <2>1, <2>3, <3>1, <4>1 DEF Routing, OneSender
    <3>7. RepliesReachTheirCall'
      <4> SUFFICES ASSUME NEW c \in Commands, NEW s \in Slots, Answer(box'[c][s])
                   PROVE  /\ box'[c][s].of.cmd = c
                          /\ SlotOf(box'[c][s].of.kind) = s
                          /\ s = "probe" /\ pc[c] \in Probing =>
                               box'[c][s].of.kind = pc[c] /\ box'[c][s].of.round = rounds[c]
        BY <2>1 DEF RepliesReachTheirCall
      <4>1. CASE \E p \in pending : p.id = m.id /\ p.of.cmd = c /\ SlotOf(p.of.kind) = s
        <5>1. PICK p \in pending : p.id = m.id /\ p.of.cmd = c /\ SlotOf(p.of.kind) = s
          BY <4>1
        <5>2. box'[c][s].of = p.of
          BY <3>1, <3>2, <4>1, <5>1 DEF Replied
        <5>3. s = "probe" => p.of.kind # "main"
          BY <5>1 DEF SlotOf
        <5> QED BY <5>1, <5>2, <5>3 DEF Routing, PendingIsAwaited
      <4>2. CASE ~ \E p \in pending : p.id = m.id /\ p.of.cmd = c /\ SlotOf(p.of.kind) = s
        <5>1. box'[c][s] = box[c][s]
          BY <3>1, <4>2
        <5> QED BY <5>1 DEF Routing, RepliesReachTheirCall
      <4> QED BY <4>1, <4>2
    <3> QED BY <2>4, <3>5, <3>6, <3>7 DEF Routing
  <2> QED BY <1>10, <2>5, <2>6 DEF Dispatch
<1>11. CASE ReaderEnds \/ CloseConnection \/ Keepalive
  <2>1. CASE \E why \in Reasons : CloseState(why)
    <3>1. /\ socket' = socket \/ (socket # <<>> /\ socket' = Tail(socket))
          /\ UNCHANGED <<nextId, asked, pc, ids, rounds>>
      BY <1>11 DEF ReaderEnds, CloseConnection, Keepalive, wire
    <3> QED BY <2>1, <3>1, CloseKeepsRouting
  <2>2. CASE UNCHANGED <<nextId, pending, closed, box, asked, socket, pc, ids, rounds>>
    BY <2>2 DEF Routing, IdNamesOneCall, OneSender, PendingIsAwaited, RepliesReachTheirCall
  <2> QED BY <1>11, <2>1, <2>2 DEF ReaderEnds, CloseConnection, Keepalive, Reasons, wire
<1>12. CASE BrowserReplies
  <2>1. PICK r \in asked, res \in {"ok", "error"} :
          /\ asked' = asked \ {r}
          /\ socket' = Append(socket, [type |-> "reply", id |-> r.id, of |-> r.of,
                                       res |-> res, after |-> emitted])
    BY <1>12 DEF BrowserReplies
  <2>2. UNCHANGED <<nextId, pending, closed, box, pc, ids, rounds>>
    BY <1>12 DEF BrowserReplies, table, calls
  <2>3. \A i \in 1..Len(socket') :
          \/ i \in 1..Len(socket) /\ socket'[i] = socket[i]
          \/ socket'[i].id = r.id /\ socket'[i].of = r.of
    <3> DEFINE m == [type |-> "reply", id |-> r.id, of |-> r.of, res |-> res, after |-> emitted]
    <3>1. m.id = r.id /\ m.of = r.of
      OBVIOUS
    <3>2. m \in Replies
      BY DEF TypeOK, Replies, Entries
    <3> HIDE DEF m
    <3>3. \A i \in 1..Len(Append(socket, m)) :
            \/ i \in 1..Len(socket) /\ Append(socket, m)[i] = socket[i]
            \/ Append(socket, m)[i] = m
      BY <3>2 DEF TypeOK
    <3>4. socket' = Append(socket, m)
      BY <2>1 DEF m
    <3> QED BY <3>1, <3>3, <3>4
  <2>4. IdNamesOneCall'
    BY <2>1, <2>2, <2>3 DEF Routing, IdNamesOneCall
  <2> QED BY <2>2, <2>4 DEF Routing, OneSender, PendingIsAwaited, RepliesReachTheirCall
<1>13. CASE BrowserEmits \/ BrowserCloses
  <2>1. UNCHANGED <<nextId, pending, closed, box, pc, ids, rounds, asked>>
    BY <1>13 DEF BrowserEmits, BrowserCloses, table, calls
  <2>2. PICK e \in Events : socket' = Append(socket, e)
    BY <1>13 DEF BrowserEmits, BrowserCloses, Events
  <2>3. \A i \in 1..Len(socket') :
          \/ i \in 1..Len(socket) /\ socket'[i] = socket[i]
          \/ socket'[i].type # "reply"
    BY <2>2 DEF TypeOK, Events
  <2>4. IdNamesOneCall'
    BY <2>1, <2>3 DEF Routing, IdNamesOneCall
  <2> QED BY <2>1, <2>4 DEF Routing, OneSender, PendingIsAwaited, RepliesReachTheirCall
<1>14. CASE WriterEnds \/ PongArrives \/ (\E s \in Sessions : MissedDeadline(s)) \/ UNCHANGED vars
  <2>1. UNCHANGED <<nextId, pending, closed, box, asked, socket, pc, ids, rounds>>
    BY <1>14 DEF WriterEnds, PongArrives, MissedDeadline, vars, table, wire, calls
  <2> QED BY <2>1 DEF Routing, IdNamesOneCall, OneSender, PendingIsAwaited, RepliesReachTheirCall
<1> QED
  BY <1>1, <1>2, <1>3, <1>4, <1>5, <1>6, <1>7, <1>8, <1>9, <1>10, <1>11, <1>12, <1>13, <1>14
  DEF Next, SendStep

\* The table starts empty, with every id still to be given out.
LEMMA RoutingInit == Init => Routing
BY DEF Init, Routing, IdNamesOneCall, OneSender, PendingIsAwaited, RepliesReachTheirCall,
       Answer, Empty, Slots

\* The pending table holds only calls somebody still awaits, and none once the
\* connection is closed.
THEOREM TableIsExact == Spec => []PendingIsAwaited
<1>1. TypeOK /\ Routing /\ [Next]_vars => (TypeOK /\ Routing)'
  BY TypeStep, RoutingStep
<1>2. Routing => PendingIsAwaited
  BY DEF Routing
<1> QED BY <1>1, <1>2, TypeInit, RoutingInit, PTL DEF Spec

\* A reply is only ever delivered to the call that was made under its id.
THEOREM RepliesAreRouted == Spec => []RepliesReachTheirCall
<1>1. TypeOK /\ Routing /\ [Next]_vars => (TypeOK /\ Routing)'
  BY TypeStep, RoutingStep
<1>2. Routing => RepliesReachTheirCall
  BY DEF Routing
<1> QED BY <1>1, <1>2, TypeInit, RoutingInit, PTL DEF Spec

----------------------------------------------------------------------------
(* The deadlines charged to a session.                                     *)

\* What a session is charged is exactly what its own commands and callers met.
Charged ==
  /\ \A c \in Commands : pc[c] # "done" => outcome[c].res = "none"
  /\ \A s \in Sessions : deadlines[s] = Cardinality(Hung(s)) + missed[s]
  /\ \A c \in Commands : outcome[c].res = "refused" =>
       SessionOf[c] \in Sessions /\ deadlines[SessionOf[c]] >= StopAt

\* The results that neither charge a session nor refuse a command.
Plain == Results \ {"none", "pageHung", "refused"}

\* The commands a session hung under can be counted.
LEMMA HungFinite == \A s : IsFiniteSet(Hung(s)) /\ Cardinality(Hung(s)) \in Nat
<1>1. ASSUME NEW s PROVE IsFiniteSet(Hung(s))
  <2>1. Hung(s) \subseteq Commands
    BY DEF Hung
  <2> QED BY <2>1, CdpAssumption, FS_Subset
<1> QED BY <1>1, FS_CardinalityType

\* A return that blames no page leaves every session's count earned.
LEMMA PlainReturnKeepsCharged ==
  ASSUME TypeOK, Charged, NEW c \in Commands, NEW res \in Plain, NEW why,
         pc[c] # "done", Return(c, res, why), UNCHANGED <<deadlines, missed>>
  PROVE  Charged'
<1>1. \A d \in Commands : /\ outcome'[d].res = IF d = c THEN res ELSE outcome[d].res
                          /\ pc'[d] = IF d = c THEN "done" ELSE pc[d]
  BY DEF Return, TypeOK
<1>2. outcome[c].res = "none"
  BY DEF Charged
<1>3. \A s : Hung(s)' = Hung(s)
  BY <1>1, <1>2 DEF Hung, Plain
<1> QED BY <1>1, <1>3 DEF Charged, Plain

\* Moving a command to another stage charges nobody.
LEMMA GotoKeepsCharged ==
  ASSUME TypeOK, Charged, NEW c \in Commands, NEW at \in PCs, pc[c] # "done", Goto(c, at),
         UNCHANGED <<deadlines, missed>>
  PROVE  Charged'
<1>1. \A d \in Commands : pc'[d] # "done" => pc[d] # "done"
  BY DEF Goto, TypeOK
<1>2. \A s : Hung(s)' = Hung(s)
  BY DEF Hung, Goto
<1> QED BY <1>1, <1>2 DEF Charged, Goto

\* A reply settles a command without blaming its page.
LEMMA SettleIsPlain ==
  ASSUME TypeOK, NEW c \in Commands, Settle(c)
  PROVE  \E res \in Plain : \E why : Return(c, res, why)
<1>1. box[c]["main"] \in Contents /\ box[c]["main"] # Empty
  BY DEF TypeOK, Slots, Settle, Landed
<1>2. box[c]["main"].res \in {"ok", "error", "closed"}
  BY <1>1 DEF Contents, ClosedBy
<1>3. {"ok", "failed", "closed"} \subseteq Plain
  BY DEF Plain, Results
<1> QED BY <1>2, <1>3 DEF Settle

\* Every step preserves Charged: a session is charged only with deadlines of its own.
LEMMA ChargedStep == TypeOK /\ Charged /\ [Next]_vars => Charged'
<1> SUFFICES ASSUME TypeOK, Charged, [Next]_vars PROVE Charged'
  OBVIOUS
<1>p. {"checked", "inserted", "waiting", "alive", "page", "last"} \subseteq PCs
  BY DEF PCs, Live, Waiting, Probing
<1>q. {"ok", "closed", "wedged", "live", "browserGone", "neverAnswered", "dropped"} \subseteq Plain
  BY DEF Plain, Results, Unanswered
<1>1. ASSUME NEW c \in Commands, Begin(c) PROVE Charged'
  <2>1. CASE Goto(c, "checked")
    BY <1>1, <2>1, <1>p, GotoKeepsCharged DEF Begin, health
  <2>2. CASE Stopped(c) /\ Return(c, "refused", "open")
    <3>1. \A d \in Commands : /\ outcome'[d].res = IF d = c THEN "refused" ELSE outcome[d].res
                              /\ pc'[d] = IF d = c THEN "done" ELSE pc[d]
      BY <2>2 DEF Return, TypeOK
    <3>2. outcome[c].res = "none" /\ UNCHANGED <<deadlines, missed>>
      BY <1>1 DEF Charged, Begin, health
    <3>3. \A s : Hung(s)' = Hung(s)
      BY <3>1, <3>2 DEF Hung
    <3>4. SessionOf[c] \in Sessions /\ deadlines[SessionOf[c]] >= StopAt
      BY <2>2, CdpAssumption DEF Stopped
    <3> QED BY <3>1, <3>2, <3>3, <3>4 DEF Charged
  <2> QED BY <1>1, <2>1, <2>2 DEF Begin
<1>2. ASSUME NEW c \in Commands, CallInsert(c) \/ CallEnqueue(c) PROVE Charged'
  <2>1. pc[c] # "done" /\ UNCHANGED <<deadlines, missed>>
    BY <1>2 DEF CallInsert, CallEnqueue, health
  <2>2. CASE \E at \in PCs : Goto(c, at)
    BY <2>1, <2>2, GotoKeepsCharged
  <2>3. CASE \E why : ReturnClosed(c, why)
    <3>1. \E res \in Plain : \E why : Return(c, res, why)
      BY <2>3, <1>q DEF ReturnClosed
    <3> QED BY <2>1, <3>1, PlainReturnKeepsCharged
  <2> QED BY <1>2, <2>2, <2>3, <1>p DEF CallInsert, CallEnqueue
<1>3. ASSUME NEW c \in Commands,
             ReplyReady(c) \/ WaitExpires(c) \/ DeadlinePasses(c) \/ AliveEnds(c) \/ PageEnds(c)
      PROVE  Charged'
  <2>1. pc[c] # "done" /\ UNCHANGED <<deadlines, missed>>
    BY <1>3 DEF ReplyReady, WaitExpires, DeadlinePasses, AliveEnds, PageEnds, health
  <2>2. CASE \E at \in PCs : Goto(c, at)
    BY <2>1, <2>2, GotoKeepsCharged
  <2>3. CASE Settle(c)
    BY <2>1, <2>3, SettleIsPlain, PlainReturnKeepsCharged
  <2>4. CASE \E res \in Plain : \E why : Return(c, res, why)
    BY <2>1, <2>4, PlainReturnKeepsCharged
  <2> QED BY <1>3, <2>2, <2>3, <2>4, <1>p, <1>q
          DEF ReplyReady, WaitExpires, DeadlinePasses, AliveEnds, PageEnds, AfterDeadline,
              StartProbe, KeepWaiting
<1>4. ASSUME NEW c \in Commands, LastEnds(c) PROVE Charged'
  <2>1. pc[c] # "done" /\ UNCHANGED missed
    BY <1>4 DEF LastEnds
  <2>2. CASE Settle(c) /\ UNCHANGED deadlines
    BY <2>1, <2>2, SettleIsPlain, PlainReturnKeepsCharged
  <2>3. CASE Return(c, "browserGone", "open") /\ UNCHANGED <<answered, deadlines>>
    BY <2>1, <2>3, <1>q, PlainReturnKeepsCharged
  <2>4. CASE Return(c, "pageHung", "open") /\ Charge(c)
    <3>1. \A d \in Commands : /\ outcome'[d].res = IF d = c THEN "pageHung" ELSE outcome[d].res
                              /\ pc'[d] = IF d = c THEN "done" ELSE pc[d]
      BY <2>4 DEF Return, TypeOK
    <3>2. outcome[c].res = "none"
      BY <2>1 DEF Charged
    <3>3. \A s \in Sessions : deadlines'[s] = IF s = SessionOf[c] THEN deadlines[s] + 1 ELSE deadlines[s]
      BY <2>4 DEF Charge, TypeOK
    <3>4. ASSUME NEW s \in Sessions PROVE deadlines'[s] = Cardinality(Hung(s)') + missed'[s]
      <4>1. CASE s = SessionOf[c]
        <5>1. Hung(s)' = Hung(s) \cup {c} /\ c \notin Hung(s)
          BY <3>1, <3>2, <4>1 DEF Hung
        <5>2. Cardinality(Hung(s)') = Cardinality(Hung(s)) + 1
          BY <5>1, HungFinite, FS_AddElement
        <5>3. deadlines[s] = Cardinality(Hung(s)) + missed[s] /\ missed[s] \in Nat
          BY DEF Charged, TypeOK
        <5> QED BY <2>1, <3>3, <4>1, <5>2, <5>3, HungFinite
      <4>2. CASE s # SessionOf[c]
        <5>1. Hung(s)' = Hung(s)
          BY <3>1, <4>2 DEF Hung
        <5> QED BY <2>1, <3>3, <4>2, <5>1 DEF Charged
      <4> QED BY <4>1, <4>2
    <3>5. \A d \in Commands : outcome'[d].res = "refused" =>
            SessionOf[d] \in Sessions /\ deadlines'[SessionOf[d]] >= StopAt
      <4>1. \A s \in Sessions : deadlines[s] \in Nat /\ StopAt \in Nat
        BY CdpAssumption DEF TypeOK
      <4>2. \A s \in Sessions : deadlines[s] >= StopAt => deadlines'[s] >= StopAt
        BY <3>3, <4>1
      <4> QED BY <3>1, <4>2 DEF Charged
    <3> QED BY <3>1, <3>4, <3>5 DEF Charged
  <2> QED BY <1>4, <2>2, <2>3, <2>4 DEF LastEnds
<1>5. ASSUME NEW c \in Commands, WedgedBegin(c) \/ WedgedEnds(c) \/ DropFuture(c) PROVE Charged'
  <2>1. pc[c] # "done" /\ UNCHANGED <<deadlines, missed>>
    BY <1>5 DEF WedgedBegin, WedgedEnds, DropFuture, health, Waiting, Probing
  <2>2. CASE Goto(c, "checked")
    BY <2>1, <2>2, <1>p, GotoKeepsCharged
  <2>3. CASE \E res \in Plain : Return(c, res, "open")
    BY <2>1, <2>3, PlainReturnKeepsCharged
  <2> QED BY <1>5, <2>2, <2>3, <1>q DEF WedgedBegin, WedgedEnds, DropFuture
<1>6. ASSUME NEW t \in Sessions, MissedDeadline(t) PROVE Charged'
  <2>1. /\ UNCHANGED <<pc, outcome>>
        /\ \A s \in Sessions : /\ missed'[s] = IF s = t THEN missed[s] + 1 ELSE missed[s]
                               /\ deadlines'[s] = IF s = t THEN deadlines[s] + 1 ELSE deadlines[s]
    BY <1>6 DEF MissedDeadline, calls, TypeOK
  <2>2. \A s : Hung(s)' = Hung(s)
    BY <2>1 DEF Hung
  <2>3. \A s \in Sessions : deadlines'[s] = Cardinality(Hung(s)') + missed'[s]
    <3>1. \A s \in Sessions : missed[s] \in Nat /\ deadlines[s] = Cardinality(Hung(s)) + missed[s]
      BY DEF Charged, TypeOK
    <3> QED BY <2>1, <2>2, <3>1, HungFinite
  <2>4. \A c \in Commands : outcome'[c].res = "refused" =>
          SessionOf[c] \in Sessions /\ deadlines'[SessionOf[c]] >= StopAt
    <3>1. \A s \in Sessions : deadlines[s] \in Nat /\ StopAt \in Nat
      BY CdpAssumption DEF TypeOK
    <3>2. \A s \in Sessions : deadlines[s] >= StopAt => deadlines'[s] >= StopAt
      BY <2>1, <3>1
    <3> QED BY <2>1, <3>2 DEF Charged
  <2> QED BY <2>1, <2>3, <2>4 DEF Charged
<1>7. CASE Dispatch \/ ReaderEnds \/ WriterEnds \/ Keepalive \/ PongArrives \/ CloseConnection
           \/ BrowserReplies \/ BrowserEmits \/ BrowserCloses \/ UNCHANGED vars
  <2>1. UNCHANGED <<pc, outcome, deadlines, missed>>
    BY <1>7 DEF Dispatch, ReaderEnds, WriterEnds, Keepalive, PongArrives, CloseConnection,
                BrowserReplies, BrowserEmits, BrowserCloses, vars, health, calls
  <2>2. \A s : Hung(s)' = Hung(s)
    BY <2>1 DEF Hung
  <2> QED BY <2>1, <2>2 DEF Charged
<1> QED BY <1>1, <1>2, <1>3, <1>4, <1>5, <1>6, <1>7 DEF Next, SendStep

\* No session starts with a deadline counted.
LEMMA ChargedInit == Init => Charged
<1> SUFFICES ASSUME Init PROVE Charged
  OBVIOUS
<1>1. \A c \in Commands : outcome[c].res = "none"
  BY DEF Init, NoOutcome
<1>2. \A s : Hung(s) = {}
  BY <1>1 DEF Hung
<1>3. \A s \in Sessions : deadlines[s] = Cardinality(Hung(s)) + missed[s]
  <2>1. \A s \in Sessions : Cardinality(Hung(s)) = 0
    BY <1>2, FS_EmptySet
  <2>2. \A s \in Sessions : deadlines[s] = 0 /\ missed[s] = 0
    BY DEF Init
  <2> QED BY <2>1, <2>2
<1> QED BY <1>1, <1>3 DEF Init, Charged

\* A session refuses a command only after its own commands and callers met
\* StopAt deadlines: what hangs on one target never stops another.
THEOREM RefusalIsEarned == Spec => []RefusalNeedsItsOwnDeadlines
<1>1. TypeOK /\ Charged /\ [Next]_vars => (TypeOK /\ Charged)'
  BY TypeStep, ChargedStep
<1>2. Charged => RefusalNeedsItsOwnDeadlines
  BY DEF Charged, RefusalNeedsItsOwnDeadlines
<1> QED BY <1>1, <1>2, TypeInit, ChargedInit, PTL DEF Spec

----------------------------------------------------------------------------
(* Late answers, in the order they were sent.                              *)

\* The events ahead of a position of a queue of messages.
EventsAhead(q, i) == {j \in 1..(i - 1) : q[j].type = "event"}

\* A reply still on the socket was sent after no more events than were handled
\* or lie ahead of it; those emitted were handled or are on the socket.
SocketOrdered ==
  /\ \A i \in 1..Len(socket) : socket[i].type = "reply" =>
       socket[i].after <= handled + Cardinality(EventsAhead(socket, i))
  /\ emitted = handled + Cardinality(EventsAhead(socket, Len(socket) + 1))
Ordered == EventsBeforeReply /\ SocketOrdered

Messages == Replies \cup Events

\* The events ahead of a position can be counted, and none is ahead of the first.
LEMMA AheadIsCounted ==
  ASSUME NEW q, NEW i \in Nat \ {0}
  PROVE  /\ IsFiniteSet(EventsAhead(q, i)) /\ Cardinality(EventsAhead(q, i)) \in Nat
         /\ i = 1 => Cardinality(EventsAhead(q, i)) = 0
<1>1. i - 1 \in Nat
  OBVIOUS
<1>2. IsFiniteSet(1..(i - 1))
  BY <1>1, FS_Interval
<1>3. EventsAhead(q, i) \in SUBSET (1..(i - 1))
  BY DEF EventsAhead
<1>4. IsFiniteSet(EventsAhead(q, i))
  BY <1>2, <1>3, FS_Subset
<1>5. i = 1 => EventsAhead(q, i) = {}
  BY <1>3
<1> QED BY <1>4, <1>5, FS_CardinalityType, FS_EmptySet

\* Reading the first message takes an event away from those ahead, if it is one.
LEMMA ReadingShifts ==
  ASSUME NEW q \in Seq(Messages), q # <<>>, NEW i \in 1..Len(q)
  PROVE  Cardinality(EventsAhead(q, i + 1)) =
           Cardinality(EventsAhead(Tail(q), i)) + (IF Head(q).type = "event" THEN 1 ELSE 0)
<1> DEFINE t == Tail(q)
           S == EventsAhead(t, i)
           T == EventsAhead(q, i + 1) \ {1}
           f == [j \in S |-> j + 1]
<1>1. /\ Len(q) \in Nat \ {0} /\ Len(t) = Len(q) - 1 /\ Head(q) = q[1]
      /\ \A j \in 1..Len(t) : t[j] = q[j + 1]
  OBVIOUS
<1>2. S = {j \in 1..(i - 1) : q[j + 1].type = "event"}
  BY <1>1 DEF EventsAhead
<1>3. T = {j \in 2..i : q[j].type = "event"}
  BY <1>1 DEF EventsAhead
<1> HIDE DEF S, T
<1>4. f \in [S -> T] /\ \A u \in T : \E n \in S : f[n] = u
  <2>1. \A j \in S : j + 1 \in T
    BY <1>2, <1>3
  <2>2. ASSUME NEW u \in T PROVE u - 1 \in S /\ (u - 1) + 1 = u
    BY <1>2, <1>3, <2>2
  <2> QED BY <2>1, <2>2
<1>5. \A m, n \in S : f[m] = f[n] => m = n
  BY <1>2
<1>6. ExistsBijection(S, T)
  <2>1. f \in Bijection(S, T)
    BY <1>4, <1>5 DEF Bijection, Injection, Surjection, IsInjective
  <2> QED BY <2>1 DEF ExistsBijection
<1>7. IsFiniteSet(S) /\ Cardinality(S) \in Nat
  BY AheadIsCounted DEF S
<1>8. Cardinality(T) = Cardinality(S)
  BY <1>6, <1>7, FS_Bijection
<1>9. IsFiniteSet(EventsAhead(q, i + 1)) /\ Cardinality(EventsAhead(q, i + 1)) \in Nat
  BY AheadIsCounted
<1>10. 1 \in EventsAhead(q, i + 1) <=> Head(q).type = "event"
  BY <1>1 DEF EventsAhead
<1>11. Cardinality(T) = IF 1 \in EventsAhead(q, i + 1) THEN Cardinality(EventsAhead(q, i + 1)) - 1
                        ELSE Cardinality(EventsAhead(q, i + 1))
  BY <1>9, FS_RemoveElement DEF T
<1> QED BY <1>7, <1>8, <1>9, <1>10, <1>11 DEF S

\* A message at the end is ahead of no other; if an event, it is one more in all.
LEMMA SendingAppends ==
  ASSUME NEW q \in Seq(Messages), NEW m \in Messages
  PROVE  LET r == Append(q, m) IN
         /\ \A i \in 1..(Len(q) + 1) : EventsAhead(r, i) = EventsAhead(q, i)
         /\ Cardinality(EventsAhead(r, Len(q) + 2)) =
              Cardinality(EventsAhead(q, Len(q) + 1)) + (IF m.type = "event" THEN 1 ELSE 0)
<1> DEFINE r == Append(q, m)
           k == Len(q) + 1
<1>1. /\ Len(q) \in Nat /\ r[k] = m
      /\ \A j \in 1..Len(q) : r[j] = q[j]
  OBVIOUS
<1> HIDE DEF r
<1>2. ASSUME NEW i \in 1..k PROVE EventsAhead(r, i) = EventsAhead(q, i)
  BY <1>1 DEF EventsAhead
<1>3. EventsAhead(r, Len(q) + 2) = IF m.type = "event" THEN EventsAhead(q, k) \cup {k} ELSE EventsAhead(q, k)
  <2>1. (Len(q) + 2) - 1 = k /\ k - 1 = Len(q) /\ 1..k = (1..Len(q)) \cup {k}
    BY <1>1
  <2>2. EventsAhead(r, Len(q) + 2) = {j \in (1..Len(q)) \cup {k} : r[j].type = "event"}
    BY <2>1 DEF EventsAhead
  <2>3. EventsAhead(q, k) = {j \in 1..Len(q) : r[j].type = "event"}
    BY <1>1, <2>1 DEF EventsAhead
  <2> HIDE DEF k
  <2> QED BY <1>1, <2>2, <2>3
<1>4. k \notin EventsAhead(q, k) /\ IsFiniteSet(EventsAhead(q, k)) /\ Cardinality(EventsAhead(q, k)) \in Nat
  <2>1. k \in Nat \ {0} /\ k \notin 1..(k - 1)
    BY <1>1
  <2> QED BY <2>1, AheadIsCounted DEF EventsAhead
<1>5. Cardinality(EventsAhead(r, Len(q) + 2)) = Cardinality(EventsAhead(q, k)) + (IF m.type = "event" THEN 1 ELSE 0)
  <2>1. Cardinality(EventsAhead(q, k) \cup {k}) = Cardinality(EventsAhead(q, k)) + 1
    <3> HIDE DEF k
    <3> QED BY <1>4, FS_AddElement
  <2> QED BY <1>3, <1>4, <2>1
<1> QED BY <1>1, <1>2, <1>5 DEF r

\* Reading a message, with its event handled, keeps the rest in order.
LEMMA ReadingKeepsOrder ==
  ASSUME TypeOK, SocketOrdered, socket # <<>>, socket' = Tail(socket), emitted' = emitted,
         handled' = handled + (IF Head(socket).type = "event" THEN 1 ELSE 0)
  PROVE  SocketOrdered'
<1>1. socket \in Seq(Messages) /\ handled \in Nat
  BY DEF TypeOK, Messages
<1>2. /\ Len(socket) \in Nat \ {0} /\ Len(socket') = Len(socket) - 1
      /\ \A j \in 1..Len(socket') : socket'[j] = socket[j + 1]
  BY <1>1
<1>3. ASSUME NEW i \in 1..Len(socket)
      PROVE  handled + Cardinality(EventsAhead(socket, i + 1)) = handled' + Cardinality(EventsAhead(socket', i))
  <2>1. Cardinality(EventsAhead(socket, i + 1)) = Cardinality(EventsAhead(socket', i)) + (IF Head(socket).type = "event" THEN 1 ELSE 0)
    BY <1>1, ReadingShifts
  <2>2. Cardinality(EventsAhead(socket', i)) \in Nat
    BY <1>2, AheadIsCounted
  <2> QED BY <1>1, <2>1, <2>2
<1>4. ASSUME NEW i \in 1..Len(socket'), socket'[i].type = "reply"
      PROVE  socket'[i].after <= handled' + Cardinality(EventsAhead(socket', i))
  <2>1. i \in 1..Len(socket) /\ i + 1 \in 1..Len(socket) /\ socket'[i] = socket[i + 1]
    BY <1>2, <1>4
  <2>2. socket[i + 1].after <= handled + Cardinality(EventsAhead(socket, i + 1))
    BY <1>4, <2>1 DEF SocketOrdered
  <2> QED BY <1>3, <2>1, <2>2
<1>5. emitted' = handled' + Cardinality(EventsAhead(socket', Len(socket') + 1))
  <2>1. Len(socket') + 1 = Len(socket) /\ Len(socket) \in 1..Len(socket)
    BY <1>2
  <2> QED BY <1>3, <2>1 DEF SocketOrdered
<1> QED BY <1>4, <1>5 DEF SocketOrdered

\* A message that is sent is behind all events emitted so far.
LEMMA SendingKeepsOrder ==
  ASSUME TypeOK, SocketOrdered, NEW m \in Messages, socket' = Append(socket, m), handled' = handled,
         m.type = "reply" => m.after = emitted,
         emitted' = emitted + (IF m.type = "event" THEN 1 ELSE 0)
  PROVE  SocketOrdered'
<1> DEFINE r == Append(socket, m)
           k == Len(socket) + 1
<1>1. socket \in Seq(Messages) /\ handled \in Nat /\ emitted \in Nat
  BY DEF TypeOK, Messages
<1>2. /\ Len(socket) \in Nat /\ Len(r) = k /\ r[k] = m
      /\ \A j \in 1..Len(socket) : r[j] = socket[j]
  BY <1>1
<1>3. /\ \A i \in 1..k : EventsAhead(r, i) = EventsAhead(socket, i)
      /\ Cardinality(EventsAhead(r, Len(socket) + 2)) = Cardinality(EventsAhead(socket, k)) + (IF m.type = "event" THEN 1 ELSE 0)
  BY <1>1, SendingAppends
<1>4. Cardinality(EventsAhead(socket, k)) \in Nat /\ emitted = handled + Cardinality(EventsAhead(socket, k))
  BY <1>2, AheadIsCounted DEF SocketOrdered
<1> HIDE DEF r
<1>5. ASSUME NEW i \in 1..Len(r), r[i].type = "reply"
      PROVE  r[i].after <= handled + Cardinality(EventsAhead(r, i))
  <2>1. CASE i = k
    <3>1. r[i].after = emitted /\ EventsAhead(r, i) = EventsAhead(socket, k)
      BY <1>2, <1>3, <1>5, <2>1
    <3> QED BY <1>1, <1>4, <3>1
  <2>2. CASE i \in 1..Len(socket)
    <3>1. r[i] = socket[i] /\ EventsAhead(r, i) = EventsAhead(socket, i)
      BY <1>2, <1>3, <2>2
    <3> QED BY <1>5, <2>2, <3>1 DEF SocketOrdered
  <2> QED BY <1>2, <2>1, <2>2
<1>6. emitted' = handled + Cardinality(EventsAhead(r, Len(r) + 1))
  <2>1. Len(r) + 1 = Len(socket) + 2
    BY <1>2
  <2> QED BY <1>1, <1>3, <1>4, <2>1
<1>7. socket' = r
  BY DEF r
<1> QED BY <1>5, <1>6, <1>7 DEF SocketOrdered

\* No channel gets an answer.
NothingDelivered ==
  \A c \in Commands : \A s \in Slots : Answer(box'[c][s]) => box'[c][s] = box[c][s]

\* What is kept of a channel that is emptied, or told why there is no reply, is no answer.
LEMMA NoAnswers == ~Answer(Empty) /\ \A w : ~Answer(ClosedBy(w))
BY DEF Answer, Empty, ClosedBy

\* A command that returns empties its channels.
LEMMA ReturnDelivers ==
  ASSUME TypeOK, NEW c \in Commands, NEW res, NEW why, Return(c, res, why)
  PROVE  NothingDelivered
<1>1. \A d \in Commands : \A s \in Slots : box'[d][s] = IF d = c THEN Empty ELSE box[d][s]
  BY DEF Return, TypeOK
<1> QED BY <1>1, NoAnswers DEF NothingDelivered

\* Starting a probe or giving one up answers nobody.
LEMMA ProbeDelivers ==
  ASSUME TypeOK, NEW c \in Commands,
         \/ box' = box
         \/ \E v \in {Empty} \cup {ClosedBy(w) : w \in Reasons} : box' = [box EXCEPT ![c]["probe"] = v]
  PROVE  NothingDelivered
<1>1. CASE box' = box
  BY <1>1 DEF NothingDelivered
<1>2. ASSUME NEW v \in {Empty} \cup {ClosedBy(w) : w \in Reasons}, box' = [box EXCEPT ![c]["probe"] = v]
      PROVE  NothingDelivered
  <2>1. \A d \in Commands : \A s \in Slots : box'[d][s] = IF d = c /\ s = "probe" THEN v ELSE box[d][s]
    BY <1>2 DEF TypeOK, Slots
  <2>2. ~Answer(v)
    BY NoAnswers
  <2> QED BY <2>1, <2>2 DEF NothingDelivered
<1> QED BY <1>1, <1>2

\* `Inner::close` answers nobody.
LEMMA CloseDelivers ==
  ASSUME TypeOK, NEW why \in Reasons, CloseState(why)
  PROVE  NothingDelivered
<1>1. \A d \in Commands : \A s \in Slots : box'[d][s] = ClosedBy(why) \/ box'[d][s] = box[d][s]
  BY DEF CloseState, Deliver
<1> QED BY <1>1, NoAnswers DEF NothingDelivered

\* A step of a command's own future reads answers and delivers none.
LEMMA CommandsDeliverNothing ==
  ASSUME TypeOK, NEW c \in Commands, SendStep(c) \/ DropFuture(c)
  PROVE  NothingDelivered /\ UNCHANGED <<socket, emitted, handled>>
<1>0. UNCHANGED <<socket, emitted, handled>>
  BY DEF SendStep, DropFuture, Begin, CallInsert, CallEnqueue, ReplyReady, WaitExpires, DeadlinePasses, AliveEnds,
         PageEnds, LastEnds, WedgedBegin, WedgedEnds, wire
<1>1. ClosedError \in Reasons
  BY DEF ClosedError, TypeOK, Reasons
<1>2. ASSUME NEW kind, NEW round, StartProbe(c, kind, round) PROVE NothingDelivered
  <2>1. \E v \in {Empty} \cup {ClosedBy(w) : w \in Reasons} : box' = [box EXCEPT ![c]["probe"] = v]
    BY <1>1, <1>2 DEF StartProbe
  <2> QED BY <2>1, ProbeDelivers
<1>3. ASSUME KeepWaiting(c) PROVE NothingDelivered
  <2>1. \E v \in {Empty} \cup {ClosedBy(w) : w \in Reasons} : box' = [box EXCEPT ![c]["probe"] = v]
    BY <1>3 DEF KeepWaiting
  <2> QED BY <2>1, ProbeDelivers
<1>4. UNCHANGED box => NothingDelivered
  BY ProbeDelivers
<1>5. (\E res, why : Return(c, res, why)) => NothingDelivered
  BY ReturnDelivers
<1>6. Settle(c) => NothingDelivered
  BY <1>5 DEF Settle
<1>7. AfterDeadline(c) => NothingDelivered
  BY <1>2, <1>6 DEF AfterDeadline
<1>8. CASE Begin(c)
  BY <1>0, <1>4, <1>5, <1>8 DEF Begin
<1>9. CASE CallInsert(c)
  BY <1>0, <1>4, <1>5, <1>9 DEF CallInsert, ReturnClosed
<1>10. CASE CallEnqueue(c)
  BY <1>0, <1>4, <1>5, <1>10 DEF CallEnqueue, ReturnClosed
<1>11. CASE WedgedBegin(c)
  BY <1>0, <1>4, <1>5, <1>11 DEF WedgedBegin
<1>12. CASE WedgedEnds(c)
  BY <1>0, <1>4, <1>5, <1>12 DEF WedgedEnds
<1>13. CASE DropFuture(c)
  BY <1>0, <1>4, <1>5, <1>13 DEF DropFuture
<1>14. CASE ReplyReady(c)
  BY <1>0, <1>6, <1>14 DEF ReplyReady
<1>15. CASE WaitExpires(c)
  BY <1>0, <1>2, <1>15 DEF WaitExpires
<1>16. CASE DeadlinePasses(c)
  BY <1>0, <1>7, <1>16 DEF DeadlinePasses
<1>17. CASE AliveEnds(c)
  BY <1>0, <1>2, <1>3, <1>5, <1>6, <1>17 DEF AliveEnds
<1>18. CASE PageEnds(c)
  BY <1>0, <1>3, <1>6, <1>7, <1>18 DEF PageEnds
<1>19. CASE LastEnds(c)
  BY <1>0, <1>5, <1>6, <1>19 DEF LastEnds
<1> QED BY <1>0, <1>8, <1>9, <1>10, <1>11, <1>12, <1>13, <1>14, <1>15, <1>16, <1>17, <1>18, <1>19 DEF SendStep

\* A step that delivers nothing and leaves the socket alone keeps the order.
LEMMA QuietKeepsOrder ==
  ASSUME Ordered, NothingDelivered, UNCHANGED <<socket, emitted, handled>>
  PROVE  Ordered'
<1>1. SocketOrdered'
  BY DEF Ordered, SocketOrdered
<1>2. EventsBeforeReply'
  BY DEF Ordered, EventsBeforeReply, NothingDelivered
<1> QED BY <1>1, <1>2 DEF Ordered

\* Every step keeps Ordered: a reply is delivered once all that was sent before it was handled.
LEMMA OrderedStep == TypeOK /\ Ordered /\ [Next]_vars => Ordered'
<1> SUFFICES ASSUME TypeOK, Ordered, [Next]_vars PROVE Ordered'
  OBVIOUS
<1>0. /\ socket \in Seq(Messages) /\ emitted \in Nat /\ handled \in Nat
      /\ EventsBeforeReply /\ SocketOrdered
      /\ UNCHANGED box => NothingDelivered
  BY DEF TypeOK, Ordered, Messages, NothingDelivered
<1>1. ASSUME NEW c \in Commands, SendStep(c) \/ DropFuture(c) PROVE Ordered'
  BY <1>1, CommandsDeliverNothing, QuietKeepsOrder
<1>2. CASE (\E s \in Sessions : MissedDeadline(s)) \/ WriterEnds \/ PongArrives \/ UNCHANGED vars
  <2>1. UNCHANGED <<box, socket, emitted, handled>>
    BY <1>2 DEF MissedDeadline, WriterEnds, PongArrives, vars, wire, calls
  <2> QED BY <1>0, <2>1, QuietKeepsOrder
<1>3. CASE Keepalive \/ CloseConnection
  <2>1. UNCHANGED <<socket, emitted, handled>>
    BY <1>3 DEF Keepalive, CloseConnection, wire
  <2>2. UNCHANGED box \/ (\E why \in Reasons : CloseState(why))
    BY <1>3 DEF Keepalive, CloseConnection, Reasons
  <2> QED BY <1>0, <2>1, <2>2, CloseDelivers, QuietKeepsOrder
<1>4. CASE ReaderEnds
  <2>1. /\ socket # <<>> /\ Head(socket).type = "close" /\ socket' = Tail(socket)
        /\ UNCHANGED <<emitted, handled>> /\ CloseState("ConnectionClosed")
    BY <1>4 DEF ReaderEnds
  <2>2. handled' = handled + (IF Head(socket).type = "event" THEN 1 ELSE 0)
    BY <1>0, <2>1
  <2>3. SocketOrdered'
    BY <1>0, <2>1, <2>2, ReadingKeepsOrder
  <2>4. NothingDelivered
    BY <2>1, CloseDelivers DEF Reasons
  <2>5. EventsBeforeReply'
    BY <1>0, <2>1, <2>4 DEF EventsBeforeReply, NothingDelivered
  <2> QED BY <2>3, <2>5 DEF Ordered
<1>5. CASE Dispatch
  <2>1. socket # <<>> /\ socket' = Tail(socket) /\ emitted' = emitted
    BY <1>5 DEF Dispatch
  <2>2. CASE Head(socket).type = "event" /\ handled' = handled + 1 /\ UNCHANGED box
    <3>1. SocketOrdered'
      BY <1>0, <2>1, <2>2, ReadingKeepsOrder
    <3>2. \A c \in Commands : \A s \in Slots : Answer(box[c][s]) => box[c][s].after \in Nat
      <4>1. \A b \in Contents : Answer(b) => b.after \in Nat
        BY DEF Contents, Answer, Empty, ClosedBy
      <4>2. \A c \in Commands : \A s \in Slots : box[c][s] \in Contents
        BY DEF TypeOK
      <4> QED BY <4>1, <4>2
    <3>3. EventsBeforeReply'
      <4> SUFFICES ASSUME NEW c \in Commands, NEW s \in Slots, Answer(box[c][s])
                   PROVE  box[c][s].after <= handled'
        BY <2>2 DEF EventsBeforeReply
      <4>1. box[c][s].after \in Nat /\ box[c][s].after <= handled
        BY <1>0, <3>2 DEF EventsBeforeReply
      <4> QED BY <1>0, <2>2, <4>1
    <3> QED BY <3>1, <3>3 DEF Ordered
  <2>3. CASE /\ Head(socket).type = "reply" /\ UNCHANGED handled
             /\ \A c \in Commands : \A s \in Slots : box'[c][s] \in {box[c][s], Replied(Head(socket))}
    <3>1. handled' = handled + (IF Head(socket).type = "event" THEN 1 ELSE 0)
      BY <1>0, <2>3
    <3>2. SocketOrdered'
      BY <1>0, <2>1, <3>1, ReadingKeepsOrder
    <3>3. 1 \in 1..Len(socket) /\ Head(socket) = socket[1]
      BY <1>0, <2>1
    <3>4. Cardinality(EventsAhead(socket, 1)) = 0
      BY AheadIsCounted
    <3>5. Head(socket).after <= handled
      BY <1>0, <2>3, <3>3, <3>4 DEF SocketOrdered
    <3>6. Replied(Head(socket)).after = Head(socket).after
      BY DEF Replied
    <3>7. EventsBeforeReply'
      BY <1>0, <2>3, <3>5, <3>6 DEF EventsBeforeReply
    <3> QED BY <3>2, <3>7 DEF Ordered
  <2> QED BY <1>5, <2>2, <2>3 DEF Dispatch, Deliver
<1>6. CASE BrowserReplies
  <2>1. UNCHANGED <<box, emitted, handled>>
    BY <1>6 DEF BrowserReplies, calls
  <2>2. PICK r \in asked, res \in {"ok", "error"} :
          socket' = Append(socket, [type |-> "reply", id |-> r.id, of |-> r.of, res |-> res, after |-> emitted])
    BY <1>6 DEF BrowserReplies
  <2>3. [type |-> "reply", id |-> r.id, of |-> r.of, res |-> res, after |-> emitted] \in Messages
    BY <1>0 DEF TypeOK, Entries, Messages, Replies
  <2>4. emitted' = emitted + 0
    BY <1>0, <2>1
  <2>5. SocketOrdered'
    BY <1>0, <2>1, <2>2, <2>3, <2>4, SendingKeepsOrder
  <2> QED BY <1>0, <2>1, <2>5 DEF Ordered, EventsBeforeReply
<1>7. CASE BrowserEmits \/ BrowserCloses
  <2>1. UNCHANGED <<box, handled>>
    BY <1>7 DEF BrowserEmits, BrowserCloses, calls
  <2>2. PICK type \in {"event", "close"} :
          socket' = Append(socket, [type |-> type]) /\ emitted' = emitted + (IF type = "event" THEN 1 ELSE 0)
    BY <1>0, <1>7 DEF BrowserEmits, BrowserCloses
  <2>3. [type |-> type] \in Messages
    BY DEF Messages, Events
  <2>4. SocketOrdered'
    BY <1>0, <2>1, <2>2, <2>3, SendingKeepsOrder
  <2> QED BY <1>0, <2>1, <2>4 DEF Ordered, EventsBeforeReply
<1> QED BY <1>1, <1>2, <1>3, <1>4, <1>5, <1>6, <1>7 DEF Next

\* Nothing is sent or handled at first.
LEMMA OrderedInit == Init => Ordered
<1> SUFFICES ASSUME Init PROVE Ordered
  OBVIOUS
<1>1. socket = <<>> /\ Len(socket) = 0 /\ emitted = 0 /\ handled = 0
  BY DEF Init
<1>2. Cardinality(EventsAhead(socket, 1)) = 0
  BY AheadIsCounted
<1>3. SocketOrdered
  BY <1>1, <1>2 DEF SocketOrdered
<1>4. EventsBeforeReply
  BY NoAnswers DEF Init, EventsBeforeReply
<1> QED BY <1>3, <1>4 DEF Ordered

\* How a command comes to be reported unanswered: by its own probe, with no reply
\* landed, and its page is blamed by the last probe alone, once that was answered.
LEMMA ReportedUnanswered ==
  ASSUME TypeOK, [Next]_vars, NEW c \in Commands, outcome[c].res = "none", outcome'[c].res \in Unanswered
  PROVE  ~Landed(c) /\ (outcome'[c].res = "pageHung" => pc[c] = "last" /\ ProbeAnswers(c))
<1> DEFINE Claim == ~Landed(c) /\ (outcome'[c].res = "pageHung" => pc[c] = "last" /\ ProbeAnswers(c))
<1>0. "none" \notin Unanswered
  BY DEF Unanswered
<1>1. outcome' # outcome
  BY <1>0
<1>2. ASSUME NEW d \in Commands, NEW res, NEW why, Return(d, res, why)
      PROVE  d = c /\ outcome'[c].res = res /\ res \in Unanswered
  BY <1>0, <1>2 DEF Return, TypeOK
<1>3. ASSUME NEW d \in Commands PROVE ~Settle(d)
  <2> SUFFICES ASSUME Settle(d) PROVE FALSE
    OBVIOUS
  <2>1. PICK res \in {"ok", "failed", "closed"} : \E why : Return(d, res, why)
    <3>1. box[d]["main"] \in Contents /\ box[d]["main"] # Empty
      BY DEF TypeOK, Slots, Settle, Landed
    <3>2. box[d]["main"].res \in {"ok", "error", "closed"}
      BY <3>1 DEF Contents, ClosedBy
    <3> QED BY <3>2 DEF Settle
  <2>2. res \in Unanswered
    BY <1>2, <2>1
  <2> QED BY <2>2 DEF Unanswered
<1>4. ASSUME NEW d \in Commands, NEW at PROVE ~Goto(d, at)
  BY <1>1 DEF Goto
<1>5. ASSUME NEW d \in Commands, NEW res \in {"refused", "dropped", "wedged", "live", "closed"}, NEW why
      PROVE  ~Return(d, res, why)
  BY <1>2 DEF Unanswered
<1>6. ASSUME NEW d \in Commands PROVE ~AfterDeadline(d) /\ ~KeepWaiting(d) /\ \A kind, round : ~StartProbe(d, kind, round)
  BY <1>3, <1>4 DEF AfterDeadline, KeepWaiting, StartProbe
<1>7. ASSUME NEW d \in Commands, AliveEnds(d) PROVE Claim
  <2>1. ~Landed(d) /\ Return(d, IF answered THEN "browserGone" ELSE "neverAnswered", "open")
    BY <1>3, <1>6, <1>7 DEF AliveEnds
  <2> QED BY <1>2, <2>1
<1>8. ASSUME NEW d \in Commands, LastEnds(d) PROVE Claim
  <2>1. /\ pc[d] = "last" /\ ~Landed(d)
        /\ (ProbeAnswers(d) /\ Return(d, "pageHung", "open")) \/ Return(d, "browserGone", "open")
    BY <1>3, <1>8 DEF LastEnds
  <2> QED BY <1>2, <2>1
<1>9. ASSUME NEW d \in Commands
      PROVE  /\ ~Begin(d) /\ ~CallInsert(d) /\ ~CallEnqueue(d) /\ ~ReplyReady(d) /\ ~WaitExpires(d)
             /\ ~DeadlinePasses(d) /\ ~PageEnds(d) /\ ~WedgedBegin(d) /\ ~WedgedEnds(d) /\ ~DropFuture(d)
  <2>1. ~Begin(d) /\ ~WedgedBegin(d) /\ ~WedgedEnds(d) /\ ~DropFuture(d)
    BY <1>4, <1>5 DEF Begin, WedgedBegin, WedgedEnds, DropFuture
  <2>2. ~CallInsert(d) /\ ~CallEnqueue(d)
    BY <1>4, <1>5 DEF CallInsert, CallEnqueue, ReturnClosed
  <2>3. ~ReplyReady(d) /\ ~WaitExpires(d) /\ ~DeadlinePasses(d) /\ ~PageEnds(d)
    BY <1>3, <1>6 DEF ReplyReady, WaitExpires, DeadlinePasses, PageEnds
  <2> QED BY <2>1, <2>2, <2>3
<1>10. /\ ~Dispatch /\ ~ReaderEnds /\ ~WriterEnds /\ ~Keepalive /\ ~PongArrives /\ ~CloseConnection
       /\ ~BrowserReplies /\ ~BrowserEmits /\ ~BrowserCloses /\ ~UNCHANGED vars
       /\ \A s \in Sessions : ~MissedDeadline(s)
  BY <1>1 DEF Dispatch, ReaderEnds, WriterEnds, Keepalive, PongArrives, CloseConnection, BrowserReplies, BrowserEmits,
              BrowserCloses, MissedDeadline, vars, calls
<1> QED BY <1>7, <1>8, <1>9, <1>10 DEF Next, SendStep

\* What lands late still counts, in the order it was sent: a caller woken by a reply
\* finds every earlier event handled, no reply that landed is thrown away for a
\* timeout, and the page is blamed only on the browser's own word (`Cdp::send`,
\* `dispatch` of cdp.rs).
THEOREM LateAnswersDoCount == Spec => LateAnswersCount
<1> DEFINE Inv == TypeOK /\ Routing /\ Ordered
<1>1. Init => Inv
  BY TypeInit, RoutingInit, OrderedInit
<1>2. Inv /\ [Next]_vars => Inv'
  BY TypeStep, RoutingStep, OrderedStep
<1>3. Inv => EventsBeforeReply
  BY DEF Ordered
<1>4. Inv /\ [Next]_vars =>
        [\A c \in Commands : outcome'[c].res \in Unanswered /\ outcome[c].res = "none" => ~Landed(c)]_vars
  BY ReportedUnanswered
<1>5. Inv /\ [Next]_vars =>
        [\A c \in Commands : outcome'[c].res = "pageHung" /\ outcome[c].res = "none" =>
           /\ box[c]["probe"].res = "ok"
           /\ box[c]["probe"].of.cmd = c /\ box[c]["probe"].of.kind = "last"]_vars
  <2> SUFFICES ASSUME Inv, [Next]_vars, NEW c \in Commands, outcome'[c].res = "pageHung", outcome[c].res = "none"
               PROVE  /\ box[c]["probe"].res = "ok"
                      /\ box[c]["probe"].of.cmd = c /\ box[c]["probe"].of.kind = "last"
    OBVIOUS
  <2>1. pc[c] = "last" /\ ProbeAnswers(c)
    BY ReportedUnanswered DEF Unanswered
  <2>2. box[c]["probe"].res = "ok" /\ Answer(box[c]["probe"])
    BY <2>1 DEF ProbeAnswers, Answer
  <2>3. "probe" \in Slots /\ pc[c] \in Probing
    BY <2>1 DEF Slots, Probing
  <2> QED BY <2>1, <2>2, <2>3 DEF Routing, RepliesReachTheirCall
<1> HIDE DEF Inv
<1> QED BY <1>1, <1>2, <1>3, <1>4, <1>5, PTL DEF Spec, LateAnswersCount, NoLandedReplyLost, PageBlamedOnlyIfBrowserAnswers

----------------------------------------------------------------------------
(* Facts about queues and lists.                                           *)

\* An element joins at the back, of a sequence that has each once and not this one.
LEMMA JoinQueue ==
  ASSUME NEW S, NEW q \in Seq(S), NEW c \in S, \A i, j \in DOMAIN q : q[i] = q[j] => i = j, c \notin Range(q)
  PROVE  /\ Append(q, c) \in Seq(S)
         /\ \A i \in DOMAIN Append(q, c) : Append(q, c)[i] = c \/ \E j \in DOMAIN q : q[j] = Append(q, c)[i]
         /\ \A i, j \in DOMAIN Append(q, c) : Append(q, c)[i] = Append(q, c)[j] => i = j
<1>1. \A j \in DOMAIN q : q[j] # c
  BY DEF Range
<1>2. /\ Append(q, c) \in Seq(S) /\ DOMAIN Append(q, c) = 1..(Len(q) + 1) /\ DOMAIN q = 1..Len(q) /\ Len(q) \in Nat
      /\ \A i \in 1..Len(q) : Append(q, c)[i] = q[i]
      /\ Append(q, c)[Len(q) + 1] = c
  OBVIOUS
<1> QED BY <1>1, <1>2

\* The one at p leaves, and nobody else.
LEMMA LeaveQueue ==
  ASSUME NEW S, NEW q \in Seq(S), \A i, j \in DOMAIN q : q[i] = q[j] => i = j, NEW p \in DOMAIN q
  PROVE  /\ RemoveAt(q, p) \in Seq(S)
         /\ \A j \in DOMAIN q : j # p => \E i \in DOMAIN RemoveAt(q, p) : RemoveAt(q, p)[i] = q[j]
         /\ \A i \in DOMAIN RemoveAt(q, p) : RemoveAt(q, p)[i] # q[p] /\ \E j \in DOMAIN q : q[j] = RemoveAt(q, p)[i]
         /\ \A i, j \in DOMAIN RemoveAt(q, p) : RemoveAt(q, p)[i] = RemoveAt(q, p)[j] => i = j
<1> DEFINE a == SubSeq(q, 1, p - 1)
           b == SubSeq(q, p + 1, Len(q))
           r == RemoveAt(q, p)
<1>1. Len(q) \in Nat /\ DOMAIN q = 1..Len(q) /\ p \in 1..Len(q) /\ p \in Nat
  OBVIOUS
<1>2. a \in Seq(S) /\ Len(a) = p - 1 /\ \A i \in 1..(p - 1) : a[i] = q[i]
  BY <1>1, SubSeqProperties
<1>3. b \in Seq(S) /\ Len(b) = Len(q) - p /\ \A i \in 1..(Len(q) - p) : b[i] = q[p + i]
  <2>1. p + 1 \in Int /\ Len(q) \in Int /\ \A i \in (p + 1)..Len(q) : q[i] \in S
    BY <1>1
  <2>2. /\ b \in Seq(S) /\ Len(b) = IF p + 1 <= Len(q) THEN Len(q) - (p + 1) + 1 ELSE 0
        /\ \A i \in 1..(Len(q) - (p + 1) + 1) : b[i] = q[(p + 1) + i - 1]
    BY <2>1, SubSeqProperties
  <2> HIDE DEF b
  <2>3. \A i \in 1..(Len(q) - p) : (p + 1) + i - 1 = p + i /\ i \in 1..(Len(q) - (p + 1) + 1)
    BY <1>1
  <2>4. \A i \in 1..(Len(q) - p) : b[i] = q[p + i]
    BY <2>2, <2>3
  <2>5. Len(b) = Len(q) - p
    <3>1. (IF p + 1 <= Len(q) THEN Len(q) - (p + 1) + 1 ELSE 0) = Len(q) - p
      BY <1>1
    <3> QED BY <2>2, <3>1
  <2> QED BY <2>2, <2>4, <2>5
<1>4. r = a \o b
  BY DEF RemoveAt
<1> HIDE DEF a, b, r
<1>9. /\ r \in Seq(S) /\ Len(r) = Len(a) + Len(b)
      /\ \A i \in 1..(Len(a) + Len(b)) : r[i] = IF i <= Len(a) THEN a[i] ELSE b[i - Len(a)]
  <2>1. a \in Seq(S) /\ b \in Seq(S)
    BY <1>2, <1>3
  <2> QED BY <2>1, <1>4, ConcatProperties, ZenonT(20)
<1>5. r \in Seq(S) /\ Len(r) = Len(q) - 1 /\ DOMAIN r = 1..(Len(q) - 1)
  BY <1>1, <1>2, <1>3, <1>9
<1>6. \A i \in 1..(Len(q) - 1) : r[i] = IF i < p THEN q[i] ELSE q[i + 1]
  <2> SUFFICES ASSUME NEW i \in 1..(Len(q) - 1) PROVE r[i] = IF i < p THEN q[i] ELSE q[i + 1]
    OBVIOUS
  <2>1. CASE i < p
    <3>1. i \in 1..(Len(a) + Len(b)) /\ i <= Len(a) /\ i \in 1..(p - 1)
      BY <1>1, <1>2, <1>3, <2>1
    <3>2. r[i] = a[i]
      BY <1>9, <3>1
    <3> QED BY <1>2, <2>1, <3>1, <3>2
  <2>2. CASE ~(i < p)
    <3>1. i - (p - 1) \in 1..(Len(q) - p) /\ p + (i - (p - 1)) = i + 1
      BY <1>1, <2>2
    <3>2. r[i] = b[i - (p - 1)]
      <4>1. i \in 1..(Len(a) + Len(b)) /\ ~(i <= Len(a)) /\ Len(a) = p - 1
        BY <1>1, <1>2, <1>3, <2>2
      <4> QED BY <1>9, <4>1
    <3> QED BY <1>3, <2>2, <3>1, <3>2
  <2> QED BY <2>1, <2>2
<1>7. \A i \in DOMAIN r : \E j \in DOMAIN q : j # p /\ r[i] = q[j] /\ j = IF i < p THEN i ELSE i + 1
  BY <1>1, <1>5, <1>6
<1>8. \A i, j \in DOMAIN r : r[i] = r[j] => i = j
  BY <1>1, <1>5, <1>7
<1>10. \A j \in DOMAIN q : j # p => \E i \in DOMAIN r : r[i] = q[j]
  <2> SUFFICES ASSUME NEW j \in DOMAIN q, j # p PROVE \E i \in DOMAIN r : r[i] = q[j]
    OBVIOUS
  <2>1. CASE j < p
    <3>1. j \in 1..(Len(q) - 1)
      BY <1>1, <2>1
    <3>2. r[j] = q[j]
      BY <1>6, <2>1, <3>1
    <3> QED BY <1>5, <3>1, <3>2
  <2>2. CASE ~(j < p)
    <3>1. j - 1 \in 1..(Len(q) - 1) /\ ~(j - 1 < p) /\ (j - 1) + 1 = j
      BY <1>1, <2>2
    <3>2. r[j - 1] = q[(j - 1) + 1]
      BY <1>6, <3>1
    <3> QED BY <1>5, <3>1, <3>2
  <2> QED BY <2>1, <2>2
<1> QED BY <1>5, <1>7, <1>8, <1>10 DEF r

\* A set of positions that is not empty has a greatest, which Max is.
LEMMA MaxIsIn ==
  ASSUME NEW n \in Nat, NEW P, P \subseteq 1..n, P # {}
  PROVE  Max(P) \in P /\ \A i \in P : Max(P) >= i
<1> DEFINE T == {n - i : i \in P}
<1>1. T \subseteq Nat /\ T # {}
  <2>1. \A i \in P : i \in 1..n /\ n - i \in Nat
    OBVIOUS
  <2>2. PICK e : e \in P
    OBVIOUS
  <2>3. n - e \in T
    BY <2>2
  <2> QED BY <2>1, <2>3
<1>2. PICK m \in T : \A k \in T : ~(<<k, m>> \in OpToRel(<, Nat))
  BY <1>1, NatLessThanWellFounded, WFMin, Zenon
<1>3. \A k \in T : ~(k < m)
  BY <1>1, <1>2 DEF OpToRel
<1>4. PICK x \in P : m = n - x
  OBVIOUS
<1>5. \A y \in P : x >= y
  <2> SUFFICES ASSUME NEW y \in P PROVE x >= y
    OBVIOUS
  <2>1. n - y \in T /\ y \in 1..n /\ x \in 1..n
    OBVIOUS
  <2>2. ~(n - y < n - x)
    BY <1>3, <1>4, <2>1
  <2> QED BY <2>1, <2>2
<1> QED BY <1>5 DEF Max

Somewhere == Targets \cup {NoTarget}
Opening == {"unopened", "listing", "making", "made", "attaching", "listening"}
Closing == {"aborting", "releasing", "shutting", "disconnecting", "closed"}
WindowStates == {"none", "waiting", "open", "gone"}

ChromeType ==
  [window : [Targets -> WindowStates], opener : [Targets -> Somewhere], kind : {chrome.kind}, gate : SUBSET Targets,
   alerts : SUBSET TabSessions, asked : Nat, casting : SUBSET Targets, flying : SUBSET [n : 1..MaxFrames, of : Targets], sent : Nat,
   mine : SUBSET Targets, late : SUBSET Targets, shut : SUBSET Targets,
   response : [Responses -> [st : {"none", "asked", "sent", "failed", "answered", "released"}, inside : BOOLEAN, file : BOOLEAN]]]
PopupType == [id : Targets, opener : Somewhere, adopted : {"unknown", "joined", "lost"}]
TabType ==
  [list : Seq(Targets), activated : Seq(Targets), owned : SUBSET Targets, openBefore : SUBSET Targets, handedOver : SUBSET Somewhere,
   popups : Seq(PopupType), active : Somewhere]
FrameType == [n : Nat, of : Somewhere]
CastType == [session : Somewhere, pending : FrameType, scheduled : BOOLEAN, task : {"none", "looking", "handing", "ending"}, held : FrameType]
FileType == [paused : SUBSET Responses, settled : Seq(Responses), kept : Nat, refused : Nat]
LifeType ==
  [closing : BOOLEAN, connected : BOOLEAN, listening : BOOLEAN, dialogs : SUBSET TabSessions, frames : {life.frames}, handover : Seq(Somewhere)]
TaskOK(x) ==
  /\ x \in [what : {"adopt", "let", "ack", "cast", "gate", "paused"}, of : {x.of},
            at : {"start", "gated", "running", "stopping", "starting", "started", "captured"}]
  /\ x.what \in {"adopt", "let"} => x.of \in Targets
  /\ x.what \in {"gate", "paused"} => x.of \in Responses
  /\ x.what = "gate" => x.at = "start"
RunType == [at : Opening \cup Working \cup Closing, t : {run.t}, known : {run.known}, since : {run.since}, release : SUBSET Responses, moves : Nat]

Types ==
  /\ chrome \in ChromeType /\ tab \in TabType /\ cast \in CastType /\ file \in FileType /\ life \in LifeType /\ run \in RunType
  /\ \A x \in tasks : TaskOK(x)
  /\ IsInjective(tab.list) /\ IsInjective(tab.activated)

\* Where the run's call stands is what it has done so far.
Phases ==
  /\ life.closing <=> run.at \in Closing
  /\ life.listening => run.at \notin Opening \cup {"failed"}
  /\ ~life.listening => tab.popups = <<>> /\ \A x \in tasks : x.what # "adopt"
  /\ run.at \in {"attaching", "switching"} => run.t \in Targets

\* Whose the windows are.
Owners ==
  /\ \A t \in chrome.mine : chrome.window[t] # "none"
  /\ \A i \in DOMAIN tab.popups : chrome.window[tab.popups[i].id] # "none"
  /\ tab.owned \subseteq chrome.mine
  /\ run.at = "made" => Root \in chrome.mine
  /\ run.at \in {"unopened", "listing", "making", "made"} => tab.owned = {}
  /\ conf.attach => /\ run.at = "attaching" => tab.owned \subseteq {run.t}
                    /\ run.at = "listening" \/ life.listening => tab.owned = {}
  /\ chrome.late # {} => life.closing \/ run.at = "failed"
Debts ==
  /\ chrome.shut # {} => run.at \in {"disconnecting", "closed"}
  /\ chrome.shut \subseteq chrome.mine \ tab.handedOver /\ (conf.attach /\ life.listening => chrome.shut = {})
  /\ ~conf.attach =>
       \A t \in chrome.mine :
         chrome.window[t] = "gone" \/ t \in chrome.late
           \/ IF run.at \in {"disconnecting", "closed"} THEN t \in tab.handedOver ELSE t \in tab.owned \/ (run.at = "made" /\ t = Root)

\* A popup meets its gate first.
Gated ==
  /\ life.connected => \A i \in DOMAIN tab.popups : chrome.window[tab.popups[i].id] = "open" => tab.popups[i].id \in chrome.gate
  /\ life.connected => \A x \in tasks : x.what = "adopt" /\ x.at \in {"gated", "running"} => x.of \in chrome.gate
  /\ \A x \in tasks : x.what \in {"adopt", "let"} => chrome.window[x.of] # "none"
  /\ \A x \in tasks : x.what = "let" => \A i \in DOMAIN tab.popups : tab.popups[i].id # x.of

\* What the run is on, or may soon be: no window still to be adopted is among it.
Seen == ToSet(tab.list) \cup {tab.active} \cup ToSet(life.handover) \cup (IF run.at \in {"attaching", "switching"} THEN {run.t} ELSE {})
Adopting ==
  /\ \A t \in Seen : t \in Targets => chrome.window[t] # "none"
  /\ \A x \in tasks : x.what = "adopt" => x.of \notin Seen
  /\ \A x, y \in tasks : x.what = y.what /\ x.what \in {"adopt", "paused"} /\ x.of = y.of => x = y
CastRight ==
  (/\ conf.frames /\ run.at \in (Working \ {"failed"}) \cup {"listening"} /\ life.handover = <<>>
   /\ \A x \in tasks : x.what = "cast" => x.at = "started") => cast.session = ActiveSession

Captures ==
  /\ Len(file.settled) = file.kept + file.refused
  /\ ~life.closing =>
       /\ \A r \in Responses : (chrome.response[r].file /\ chrome.response[r].st \in {"answered", "released"})
            => r \in file.paused \/ r \in ToSet(file.settled)
       /\ \A x \in tasks : x.what = "gate" => chrome.response[x.of].st = "asked"
       /\ \A x \in tasks : x.what = "paused" => chrome.response[x.of].st = "answered"
       /\ \A x \in tasks : x.what = "paused" /\ x.at = "captured" /\ chrome.response[x.of].file => x.of \in ToSet(file.settled)

SessionInv == Types /\ Phases /\ Owners /\ Debts /\ Gated /\ Adopting /\ CastRight /\ Captures

----------------------------------------------------------------------------
(* Tasks.                                                                  *)

\* A task that moves on is the one task that changed; one that ends, the one that left.
LEMMA MovesOne ==
  ASSUME \A x \in tasks : TaskOK(x), NEW x \in tasks, x.what # "gate",
         NEW a \in {"start", "gated", "running", "stopping", "starting", "started", "captured"}, Moves(x, a)
  PROVE  /\ \A y \in tasks' : TaskOK(y)
         /\ \A y \in tasks' : (y \in tasks /\ y # x) \/ (y.what = x.what /\ y.of = x.of /\ y.at = a)
<1> DEFINE z == [x EXCEPT !.at = a]
<1>1. TaskOK(x)
  OBVIOUS
<1>2. z.what = x.what /\ z.of = x.of /\ z.at = a /\ z \in [what : {x.what}, of : {x.of}, at : {a}]
  BY <1>1 DEF TaskOK
<1>3. tasks' = (tasks \ {x}) \cup {z}
  BY DEF Moves
<1> HIDE DEF z
<1>4. TaskOK(z)
  BY <1>1, <1>2 DEF TaskOK
<1> QED BY <1>2, <1>3, <1>4

LEMMA EndsOne ==
  ASSUME \A x \in tasks : TaskOK(x), NEW x \in tasks, Ends(x)
  PROVE  (\A y \in tasks' : TaskOK(y)) /\ (\A y \in tasks' : y \in tasks /\ y # x) /\ (\A y \in tasks : y # x => y \in tasks')
BY DEF Ends

\* Nothing is spawned but what is asked for, and that only while the session is open.
LEMMA SpawnedOnly ==
  ASSUME NEW new, tasks' = Spawned(new)
  PROVE  /\ \A y \in tasks' : y \in tasks \/ y \in new
         /\ \A y \in tasks : y \in tasks'
         /\ ~life.closing => \A y \in new : y \in tasks'
         /\ life.closing => tasks' = tasks
BY DEF Spawned

LEMMA TaskFields ==
  ASSUME NEW w \in {"adopt", "let", "ack", "cast", "gate", "paused"}, NEW o
  PROVE  /\ Task(w, o).what = w /\ Task(w, o).of = o /\ Task(w, o).at = "start"
         /\ (w \in {"adopt", "let"} => o \in Targets) /\ (w \in {"gate", "paused"} => o \in Responses) => TaskOK(Task(w, o))
BY DEF Task, TaskOK

LEMMA AcksOnly ==
  ASSUME NEW f, NEW y \in Ack(f)
  PROVE  y.what = "ack" /\ TaskOK(y)
<1>1. y = Task("ack", f.n)
  BY DEF Ack
<1> QED BY <1>1, TaskFields

----------------------------------------------------------------------------
(* Steps beside the windows.                                               *)

\* The run goes from one of its calls to another, or stays.
RunBeside ==
  \/ run'.at = run.at /\ run'.t = run.t
  \/ /\ run.at \in Working \ {"failed"} /\ run'.at \in Working \ {"failed"}
     /\ run'.at = "switching" => run'.t \in ToSet(tab.list)

\* A step that leaves alone the tabs, the windows, the gate and where the session
\* stands, and starts no adoption.
BesideWindows ==
  /\ conf' = conf /\ tab' = tab
  /\ chrome'.window = chrome.window /\ chrome'.gate = chrome.gate /\ chrome'.mine = chrome.mine
  /\ chrome'.late = chrome.late /\ chrome'.shut = chrome.shut
  /\ life'.closing = life.closing /\ life'.connected = life.connected /\ life'.listening = life.listening
  /\ life'.handover = life.handover
  /\ \A y \in tasks' : y \in tasks
       \/ y.what \in {"ack", "cast", "gate", "paused"}
       \/ \E x \in tasks : y.what = x.what /\ y.of = x.of /\ y.at = x.at
  /\ RunBeside

LEMMA WindowsBeside ==
  ASSUME SessionInv, BesideWindows,
         chrome' \in ChromeType', cast' \in CastType, file' \in FileType, life' \in LifeType', run' \in RunType', \A y \in tasks' : TaskOK(y)
  PROVE  Types' /\ Phases' /\ Owners' /\ Debts' /\ Gated'
<1>1. Types'
  BY DEF SessionInv, Types, BesideWindows, TabType, CastType, FileType, PopupType, FrameType, TaskOK
<1>2. Phases'
  <2>1. run'.at = run.at \/ (run.at \in Working \ {"failed"} /\ run'.at \in Working \ {"failed"})
    BY DEF BesideWindows, RunBeside
  <2>2. (run'.at \in Closing <=> run.at \in Closing) /\ (run'.at \in Opening \cup {"failed"} <=> run.at \in Opening \cup {"failed"})
    BY <2>1 DEF Working, Closing, Opening
  <2>3. \A x \in tasks' : x.what # "adopt" \/ \E y \in tasks : y.what = "adopt"
    BY DEF BesideWindows
  <2>4. run'.at \in {"attaching", "switching"} => run'.t \in Targets
    <3>1. ToSet(tab.list) \subseteq Targets
      BY DEF SessionInv, Types, TabType, ToSet
    <3> QED BY <3>1 DEF BesideWindows, RunBeside, Working, SessionInv, Phases
  <2> QED BY <2>2, <2>3, <2>4 DEF SessionInv, Phases, BesideWindows
<1>3. Owners'
  BY DEF SessionInv, Owners, BesideWindows, RunBeside, Working
<1>4. Debts'
  BY DEF SessionInv, Debts, BesideWindows, RunBeside, Working
<1>5. Gated'
  BY DEF SessionInv, Gated, BesideWindows
<1> QED BY <1>1, <1>2, <1>3, <1>4, <1>5

LEMMA AdoptingBeside ==
  ASSUME SessionInv, BesideWindows,
         \A x, y \in tasks' : x.what = y.what /\ x.what \in {"adopt", "paused"} /\ x.of = y.of => x = y
  PROVE  Adopting'
<1>1. Seen' \subseteq Seen
  BY DEF Seen, BesideWindows, RunBeside, Working, ToSet
<1> QED BY <1>1 DEF SessionInv, Adopting, BesideWindows

LEMMA UniqueTasks ==
  ASSUME SessionInv, \A y \in tasks' : y \in tasks \/ y.what \notin {"adopt", "paused"}
  PROVE  \A x, y \in tasks' : x.what = y.what /\ x.what \in {"adopt", "paused"} /\ x.of = y.of => x = y
BY DEF SessionInv, Adopting

LEMMA CapturesBeside ==
  ASSUME SessionInv, file' = file, chrome'.response = chrome.response, life'.closing = life.closing,
         \A y \in tasks' : y \in tasks \/ y.what \notin {"gate", "paused"}
  PROVE  Captures'
BY DEF SessionInv, Captures

\* The cast is as right as before when nothing of it changed but that it may have more to do.
LEMMA CastBeside ==
  ASSUME SessionInv, conf' = conf, tab' = tab, cast'.session = cast.session, life'.handover = life.handover,
         run'.at \in (Working \ {"failed"}) \cup {"listening"} => run.at \in (Working \ {"failed"}) \cup {"listening"},
         \A x \in tasks : x.what = "cast" => x \in tasks'
  PROVE  CastRight'
<1>1. ActiveSession' = ActiveSession
  BY DEF ActiveSession, HasTab
<1> QED BY <1>1 DEF SessionInv, CastRight

LEMMA BesideKeeps ==
  ASSUME SessionInv, BesideWindows, Captures', CastRight',
         \A x, y \in tasks' : x.what = y.what /\ x.what \in {"adopt", "paused"} /\ x.of = y.of => x = y,
         chrome' \in ChromeType', cast' \in CastType, file' \in FileType, life' \in LifeType', run' \in RunType', \A y \in tasks' : TaskOK(y)
  PROVE  SessionInv'
<1>1. Types' /\ Phases' /\ Owners' /\ Debts' /\ Gated'
  BY WindowsBeside
<1>2. Adopting'
  BY AdoptingBeside
<1> QED BY <1>1, <1>2 DEF SessionInv

----------------------------------------------------------------------------
(* The live cast, dialogs and the run's calls: beside the windows.         *)

\* What every step of these needs of the types.
LEMMA Typed ==
  ASSUME SessionInv
  PROVE  /\ chrome \in ChromeType /\ tab \in TabType /\ cast \in CastType /\ file \in FileType /\ life \in LifeType /\ run \in RunType
         /\ \A x \in tasks : TaskOK(x)
BY DEF SessionInv, Types

LEMMA AckFrameKeeps ==
  ASSUME SessionInv, NEW x \in tasks, AckFrame(x)
  PROVE  SessionInv'
<1>1. conf' = conf /\ tab' = tab /\ cast' = cast /\ file' = file /\ life' = life /\ run' = run /\ x.what = "ack" /\ Ends(x)
  BY DEF AckFrame
<1>2. /\ chrome' \in ChromeType' /\ chrome'.window = chrome.window /\ chrome'.gate = chrome.gate /\ chrome'.mine = chrome.mine
      /\ chrome'.late = chrome.late /\ chrome'.shut = chrome.shut /\ chrome'.response = chrome.response
  BY Typed DEF AckFrame, ChromeType
<1>3. (\A y \in tasks' : TaskOK(y) /\ y \in tasks) /\ (\A y \in tasks : y.what = "cast" => y \in tasks')
  BY <1>1, EndsOne, Typed
<1>4. BesideWindows
  BY <1>1, <1>2, <1>3 DEF BesideWindows, RunBeside
<1>5. Captures' /\ CastRight'
  BY <1>1, <1>2, <1>3, CapturesBeside, CastBeside
<1>6. life' \in LifeType' /\ run' \in RunType' /\ cast' \in CastType /\ file' \in FileType
  BY <1>1, Typed DEF LifeType, RunType
<1> QED BY <1>2, <1>3, <1>4, <1>5, <1>6, UniqueTasks, BesideKeeps

\* One task of the cast at a time reads the active tab; the others wait for it.
LEMMA CastStepKeeps ==
  ASSUME SessionInv, NEW x \in tasks, CastLook(x) \/ CastStop(x) \/ CastStart(x) \/ CastStarted(x)
  PROVE  SessionInv'
<1>1. conf' = conf /\ tab' = tab /\ file' = file /\ life' = life /\ run' = run /\ x.what = "cast"
  BY DEF CastLook, CastStop, CastStart, CastStarted
<1>2. /\ chrome' \in ChromeType' /\ chrome'.window = chrome.window /\ chrome'.gate = chrome.gate /\ chrome'.mine = chrome.mine
      /\ chrome'.late = chrome.late /\ chrome'.shut = chrome.shut /\ chrome'.response = chrome.response
  <2>1. CASE chrome' = chrome
    BY <2>1, Typed DEF ChromeType
  <2>2. CASE \E c \in SUBSET Targets : chrome' = [chrome EXCEPT !.casting = c]
    BY <2>2, Typed DEF ChromeType
  <2>3. chrome.casting \in SUBSET Targets /\ cast.session \in Somewhere
    BY Typed DEF ChromeType, CastType
  <2>4. CASE CastLook(x) \/ CastStart(x)
    BY <2>1, <2>4 DEF CastLook, CastStart
  <2>5. CASE CastStop(x)
    BY <2>2, <2>3, <2>5 DEF CastStop
  <2>6. CASE CastStarted(x)
    <3> DEFINE c == chrome.casting \cup {t \in {cast.session} : t # NoTarget /\ chrome.window[t] = "open"}
    <3>1. c \in SUBSET Targets
      BY <2>3 DEF Somewhere
    <3>2. chrome' = [chrome EXCEPT !.casting = c]
      BY <2>6 DEF CastStarted
    <3> QED BY <2>2, <3>1, <3>2
  <2> QED BY <2>4, <2>5, <2>6
<1>3. ActiveSession' = ActiveSession /\ ActiveSession \in Somewhere
  BY <1>1, Typed DEF ActiveSession, HasTab, TabType, Somewhere
<1>4. cast' \in CastType
  <2>1. CASE cast' = cast
    BY <2>1, Typed
  <2>2. CASE \E s \in Somewhere : cast' = [cast EXCEPT !.session = s]
    BY <2>2, Typed DEF CastType
  <2> QED BY <1>3, <2>1, <2>2 DEF CastLook, CastStop, CastStart, CastStarted, Somewhere
<1>5. \/ Ends(x)
      \/ \E a \in {"stopping", "starting", "started"} : Moves(x, a)
  BY DEF CastLook, CastStop, CastStart, CastStarted
<1>6. \A y \in tasks' : TaskOK(y) /\ (y \in tasks \/ y.what = "cast")
  BY <1>1, <1>5, EndsOne, MovesOne, Typed
<1>7. BesideWindows
  BY <1>1, <1>2, <1>6 DEF BesideWindows, RunBeside
<1>8. Captures'
  BY <1>1, <1>2, <1>6, CapturesBeside
<1>9. CastRight'
  <2> SUFFICES ASSUME conf.frames, run.at \in (Working \ {"failed"}) \cup {"listening"}, life.handover = <<>>,
                      \A y \in tasks' : y.what = "cast" => y.at = "started"
               PROVE  cast'.session = ActiveSession
    BY <1>1, <1>3 DEF CastRight
  <2>1. ~life.closing
    BY DEF SessionInv, Phases, Working, Closing
  <2>2. CASE CastLook(x)
    <3>1. CASE Ends(x)
      <4>1. ActiveSession = cast.session
        <5>1. CASE ActiveSession # cast.session
          <6>1. Moves(x, IF cast.session # NoTarget THEN "stopping" ELSE "starting")
            BY <2>1, <2>2, <5>1 DEF CastLook
          <6>2. PICK a \in {"stopping", "starting"} : Moves(x, a)
            BY <6>1
          <6>3. x \notin tasks'
            BY <3>1 DEF Ends
          <6>4. [x EXCEPT !.at = a] \in tasks'
            BY <6>2 DEF Moves
          <6>5. TaskOK(x)
            BY Typed
          <6>6. [x EXCEPT !.at = a].what = "cast" /\ [x EXCEPT !.at = a].at = a
            BY <1>1, <6>5 DEF TaskOK
          <6> QED BY <6>2, <6>4, <6>6
        <5> QED BY <5>1
      <4> QED BY <2>2, <4>1 DEF CastLook
    <3>2. CASE \E a \in {"stopping", "starting"} : Moves(x, a)
      <4>1. PICK a \in {"stopping", "starting"} : Moves(x, a)
        BY <3>2
      <4>2. [x EXCEPT !.at = a] \in tasks'
        BY <4>1 DEF Moves
      <4>3. TaskOK(x)
        BY Typed
      <4>4. [x EXCEPT !.at = a].what = "cast" /\ [x EXCEPT !.at = a].at = a
        BY <1>1, <4>3 DEF TaskOK
      <4> QED BY <4>1, <4>2, <4>4
    <3> QED BY <2>2, <3>1, <3>2 DEF CastLook
  <2>3. CASE CastStop(x)
    <3>1. [x EXCEPT !.at = "starting"] \in tasks'
      BY <2>3 DEF CastStop, Moves
    <3>2. TaskOK(x)
      BY Typed
    <3>3. [x EXCEPT !.at = "starting"].what = "cast" /\ [x EXCEPT !.at = "starting"].at = "starting"
      BY <1>1, <3>2 DEF TaskOK
    <3> QED BY <3>1, <3>3
  <2>4. CASE CastStart(x)
    BY <2>1, <2>4, Typed DEF CastStart, CastType
  <2>5. CASE CastStarted(x)
    <3>1. \A y \in tasks : y # x => y \in tasks'
      BY <2>5, Typed, EndsOne DEF CastStarted
    <3>2. \A y \in tasks : y.what = "cast" => y.at = "started"
      BY <2>5, <3>1 DEF CastStarted
    <3> QED BY <2>5, <3>2 DEF CastStarted, SessionInv, CastRight
  <2> QED BY <2>2, <2>3, <2>4, <2>5
<1>10. life' \in LifeType' /\ run' \in RunType' /\ file' \in FileType
  BY <1>1, Typed DEF LifeType, RunType
<1>11. \A y, z \in tasks' : y.what = z.what /\ y.what \in {"adopt", "paused"} /\ y.of = z.of => y = z
  BY <1>6, UniqueTasks
<1>12. \A y \in tasks' : TaskOK(y)
  BY <1>6
<1> QED BY <1>2, <1>4, <1>7, <1>8, <1>9, <1>10, <1>11, <1>12, BesideKeeps

\* The delivery hands over frames and acks them.
LEMMA DeliveryKeeps ==
  ASSUME SessionInv, DeliverySteps
  PROVE  SessionInv'
<1>1. conf' = conf /\ tab' = tab /\ file' = file /\ life' = life /\ run' = run /\ chrome' = chrome
  BY DEF DeliverySteps, DeliverTake, DeliverHanded, DeliverEnd
<1>2. NoFrame \in FrameType /\ cast.pending \in FrameType
  BY Typed DEF NoFrame, FrameType, CastType, Somewhere
<1>3. cast' \in CastType /\ cast'.session = cast.session
  <2>1. CASE DeliverTake
    BY <1>2, <2>1, Typed DEF DeliverTake, CastType
  <2>2. CASE DeliverHanded
    BY <1>2, <2>2, Typed DEF DeliverHanded, CastType
  <2>3. CASE DeliverEnd
    <3>1. \A b \in BOOLEAN : LET c == [cast EXCEPT !.task = "none", !.scheduled = b, !.pending = NoFrame] IN c \in CastType /\ c.session = cast.session
      BY <1>2, Typed DEF CastType
    <3>2. FALSE \in BOOLEAN
      OBVIOUS
    <3> QED BY <2>3, <3>1, <3>2 DEF DeliverEnd
  <2> QED BY <2>1, <2>2, <2>3 DEF DeliverySteps
<1>4. tasks' = tasks \/ \E f : tasks' = Spawned(Ack(f))
  BY DEF DeliverySteps, DeliverTake, DeliverHanded, DeliverEnd
<1>5. (\A y \in tasks' : TaskOK(y) /\ (y \in tasks \/ y.what = "ack")) /\ (\A y \in tasks : y \in tasks')
  BY <1>4, AcksOnly, SpawnedOnly, Typed
<1>6. BesideWindows
  BY <1>1, <1>5 DEF BesideWindows, RunBeside
<1>7. Captures' /\ CastRight'
  BY <1>1, <1>3, <1>5, CapturesBeside, CastBeside
<1>8. chrome' \in ChromeType' /\ life' \in LifeType' /\ run' \in RunType' /\ file' \in FileType
  BY <1>1, Typed DEF LifeType, RunType, ChromeType
<1>9. \A y, z \in tasks' : y.what = z.what /\ y.what \in {"adopt", "paused"} /\ y.of = z.of => y = z
  BY <1>5, UniqueTasks
<1>10. \A y \in tasks' : TaskOK(y)
  BY <1>5
<1> QED BY <1>3, <1>6, <1>7, <1>8, <1>9, <1>10, BesideKeeps

\* Chrome's events that touch neither tabs nor responses: a frame cast, a subframe, a dialog.
LEMMA FrameCastKeeps ==
  ASSUME SessionInv, NEW t \in Targets, FrameCast(t)
  PROVE  SessionInv'
<1> DEFINE f == [n |-> chrome.sent + 1, of |-> t]
<1>1. conf' = conf /\ tab' = tab /\ file' = file /\ life' = life /\ run' = run
  BY DEF FrameCast
<1>2. chrome.sent \in Nat /\ chrome.sent < MaxFrames /\ MaxFrames \in Nat
  BY Typed, SessionAssumption DEF FrameCast, ChromeType
<1>3. f \in [n : 1..MaxFrames, of : Targets] /\ f \in FrameType
  BY <1>2 DEF FrameType, Somewhere
<1>4. chrome' = [chrome EXCEPT !.sent = @ + 1, !.flying = @ \cup {f}] /\ OnScreencastFrame(f)
  BY DEF FrameCast
<1> HIDE DEF f
<1>5. /\ chrome' \in ChromeType' /\ chrome'.window = chrome.window /\ chrome'.gate = chrome.gate /\ chrome'.mine = chrome.mine
      /\ chrome'.late = chrome.late /\ chrome'.shut = chrome.shut /\ chrome'.response = chrome.response
  <2> DEFINE F == [n : 1..MaxFrames, of : Targets]
             g == chrome.flying \cup {f}
             n == chrome.sent + 1
  <2>1. chrome.flying \in SUBSET F
    BY Typed DEF ChromeType
  <2>2. g \in SUBSET F /\ n \in Nat
    BY <1>2, <1>3, <2>1
  <2>3. chrome' = [chrome EXCEPT !.sent = n, !.flying = g]
    BY <1>4
  <2> HIDE DEF g, n, F
  <2> QED BY <2>2, <2>3, Typed DEF ChromeType, F
<1>6. cast' \in CastType /\ cast'.session = cast.session
  <2>1. CASE cast' = cast
    BY <2>1, Typed
  <2>2. CASE cast' = Pend(f)
    <3>1. \A b \in BOOLEAN : \A k \in {"none", "looking", "handing", "ending"} :
            LET c == [cast EXCEPT !.pending = f, !.scheduled = b, !.task = k] IN c \in CastType /\ c.session = cast.session
      BY <1>3, Typed DEF CastType
    <3>2. TRUE \in BOOLEAN /\ cast.task \in {"none", "looking", "handing", "ending"}
      BY Typed DEF CastType
    <3> DEFINE k == IF cast.scheduled THEN cast.task ELSE "looking"
    <3>3. k \in {"none", "looking", "handing", "ending"} /\ cast' = [cast EXCEPT !.pending = f, !.scheduled = TRUE, !.task = k]
      BY <2>2, <3>2 DEF Pend
    <3> HIDE DEF k
    <3> QED BY <3>1, <3>2, <3>3
  <2> QED BY <1>4, <2>1, <2>2 DEF OnScreencastFrame
<1>7. \E g : tasks' = Spawned(Ack(g))
  BY <1>4 DEF OnScreencastFrame
<1>8. (\A y \in tasks' : TaskOK(y) /\ (y \in tasks \/ y.what = "ack")) /\ (\A y \in tasks : y \in tasks')
  BY <1>7, AcksOnly, SpawnedOnly, Typed
<1>9. BesideWindows
  BY <1>1, <1>5, <1>8 DEF BesideWindows, RunBeside
<1>10. Captures' /\ CastRight'
  BY <1>1, <1>5, <1>6, <1>8, CapturesBeside, CastBeside
<1>11. life' \in LifeType' /\ run' \in RunType' /\ file' \in FileType
  BY <1>1, Typed DEF LifeType, RunType
<1>12. \A y, z \in tasks' : y.what = z.what /\ y.what \in {"adopt", "paused"} /\ y.of = z.of => y = z
  BY <1>8, UniqueTasks
<1>13. \A y \in tasks' : TaskOK(y)
  BY <1>8
<1> QED BY <1>5, <1>6, <1>9, <1>10, <1>11, <1>12, <1>13, BesideKeeps

LEMMA DialogsBeside ==
  ASSUME SessionInv, conf' = conf, tab' = tab, cast' = cast, file' = file, tasks' = tasks, run' = run,
         \/ \E a \in SUBSET TabSessions : chrome' = [chrome EXCEPT !.alerts = a]
         \/ \E a \in SUBSET TabSessions, n \in Nat : chrome' = [chrome EXCEPT !.alerts = a, !.asked = n],
         NEW g, NEW d \in SUBSET TabSessions, life' = [life EXCEPT !.frames = g, !.dialogs = d]
  PROVE  SessionInv'
<1>1. /\ chrome' \in ChromeType' /\ chrome'.window = chrome.window /\ chrome'.gate = chrome.gate /\ chrome'.mine = chrome.mine
      /\ chrome'.late = chrome.late /\ chrome'.shut = chrome.shut /\ chrome'.response = chrome.response
  <2>1. CASE \E a \in SUBSET TabSessions : chrome' = [chrome EXCEPT !.alerts = a]
    BY <2>1, Typed DEF ChromeType
  <2>2. CASE \E a \in SUBSET TabSessions, n \in Nat : chrome' = [chrome EXCEPT !.alerts = a, !.asked = n]
    BY <2>2, Typed DEF ChromeType
  <2> QED BY <2>1, <2>2
<1>2. /\ life' \in LifeType' /\ life'.closing = life.closing /\ life'.connected = life.connected
      /\ life'.listening = life.listening /\ life'.handover = life.handover
  BY Typed DEF LifeType
<1>3. BesideWindows
  BY <1>1, <1>2 DEF BesideWindows, RunBeside
<1>4. Captures' /\ CastRight'
  BY <1>1, <1>2, CapturesBeside, CastBeside
<1>5. run' \in RunType' /\ cast' \in CastType /\ file' \in FileType
  BY Typed DEF RunType
<1> QED BY <1>1, <1>2, <1>3, <1>4, <1>5, UniqueTasks, BesideKeeps, Typed

LEMMA SubframeKeeps ==
  ASSUME SessionInv, NEW f \in Subframes, FrameComesAndGoes(f)
  PROVE  SessionInv'
<1>1. conf' = conf /\ tab' = tab /\ cast' = cast /\ file' = file /\ tasks' = tasks /\ run' = run
  BY DEF FrameComesAndGoes
<1>2. PICK a \in SUBSET TabSessions : chrome' = [chrome EXCEPT !.alerts = a]
  <2>1. chrome.alerts \in SUBSET TabSessions /\ chrome = [chrome EXCEPT !.alerts = chrome.alerts]
    BY Typed DEF ChromeType
  <2> QED BY <2>1 DEF FrameComesAndGoes
<1>3. PICK g : \E d \in SUBSET TabSessions : life' = [life EXCEPT !.frames = g, !.dialogs = d]
  <2>1. life.dialogs \in SUBSET TabSessions /\ \A g : [life EXCEPT !.frames = g] = [life EXCEPT !.frames = g, !.dialogs = life.dialogs]
    BY Typed DEF LifeType
  <2>2. CASE \E g : life' = [life EXCEPT !.frames = g]
    BY <2>1, <2>2
  <2>3. CASE \E g : life' = [life EXCEPT !.frames = g, !.dialogs = life.dialogs \ {f}]
    <3>1. life.dialogs \ {f} \in SUBSET TabSessions
      BY <2>1
    <3> QED BY <2>3, <3>1
  <2> QED BY <2>2, <2>3 DEF FrameComesAndGoes
<1> QED BY <1>1, <1>2, <1>3, DialogsBeside

LEMMA DialogKeeps ==
  ASSUME SessionInv, NEW s \in TabSessions, DialogOpens(s) \/ DialogCloses(s)
  PROVE  SessionInv'
<1>1. conf' = conf /\ tab' = tab /\ cast' = cast /\ file' = file /\ tasks' = tasks /\ run' = run
  BY DEF DialogOpens, DialogCloses
<1>2. chrome.alerts \in SUBSET TabSessions /\ life.dialogs \in SUBSET TabSessions /\ chrome.asked \in Nat
  BY Typed DEF ChromeType, LifeType
<1>3. PICK g : \E d \in SUBSET TabSessions : life' = [life EXCEPT !.frames = g, !.dialogs = d]
  <2>1. \A d : [life EXCEPT !.dialogs = d] = [life EXCEPT !.frames = life.frames, !.dialogs = d]
    BY Typed DEF LifeType
  <2>2. life.dialogs \cup {s} \in SUBSET TabSessions /\ life.dialogs \ {s} \in SUBSET TabSessions
    BY <1>2
  <2>3. \E d \in SUBSET TabSessions : life' = [life EXCEPT !.dialogs = d]
    BY <2>2 DEF DialogOpens, DialogCloses
  <2> QED BY <2>1, <2>3
<1>4. chrome.alerts \cup {s} \in SUBSET TabSessions /\ chrome.alerts \ {s} \in SUBSET TabSessions /\ chrome.asked + 1 \in Nat
  BY <1>2
<1>5. \/ \E a \in SUBSET TabSessions : chrome' = [chrome EXCEPT !.alerts = a]
      \/ \E a \in SUBSET TabSessions, n \in Nat : chrome' = [chrome EXCEPT !.alerts = a, !.asked = n]
  BY <1>4 DEF DialogOpens, DialogCloses
<1> QED BY <1>1, <1>3, <1>5, DialogsBeside

\* The run's calls that read State, and the answer to a dialog.
LEMMA CallsBesideKeep ==
  ASSUME SessionInv, SwitchTab \/ Acts \/ FollowFinds \/ FollowGivesUp \/ FollowLearns \/ DownloadSettled
  PROVE  SessionInv'
<1>1. conf' = conf /\ chrome' = chrome /\ tab' = tab /\ cast' = cast /\ file' = file /\ life' = life /\ tasks' = tasks
  BY DEF SwitchTab, Acts, FollowFinds, FollowGivesUp, FollowLearns, DownloadSettled
<1>2. run.at \in Working \ {"failed"}
  BY DEF SwitchTab, Acts, FollowFinds, FollowGivesUp, FollowLearns, DownloadSettled, At, Working
<1>3. /\ run' \in RunType' /\ run'.at \in Working \ {"failed"} /\ (run'.at = "switching" => run'.t \in ToSet(tab.list))
  <2> DEFINE n == run.moves + 1
  <2>1. run \in RunType /\ n \in Nat
    BY Typed DEF RunType
  <2>2. CASE SwitchTab
    <3>1. PICK t \in ToSet(tab.list) : run' = [run EXCEPT !.at = "switching", !.moves = n, !.t = t]
      BY <2>2 DEF SwitchTab
    <3> HIDE DEF n
    <3> QED BY <2>1, <3>1 DEF RunType, Working
  <2>3. CASE Acts
    <3>1. PICK t, s, k : run' = [run EXCEPT !.at = "acted", !.moves = n, !.t = t, !.since = s, !.known = k]
      BY <2>3 DEF Acts
    <3> HIDE DEF n
    <3> QED BY <2>1, <3>1 DEF RunType, Working
  <2>4. CASE FollowFinds
    <3>1. PICK t : run' = [run EXCEPT !.at = "adopting", !.t = t]
      BY <2>4 DEF FollowFinds
    <3> QED BY <2>1, <3>1 DEF RunType, Working
  <2>5. CASE FollowGivesUp
    BY <2>1, <2>5 DEF FollowGivesUp, Go, RunType, Working
  <2>6. CASE DownloadSettled
    BY <2>1, <2>6 DEF DownloadSettled, Go, RunType, Working
  <2>7. CASE FollowLearns
    <3>1. CASE run.t \in ToSet(tab.list) /\ run' = [run EXCEPT !.at = "switching"]
      BY <2>1, <3>1 DEF RunType, Working
    <3>2. CASE run' = [run EXCEPT !.at = "free"]
      BY <2>1, <3>2 DEF RunType, Working
    <3> QED BY <2>7, <3>1, <3>2 DEF FollowLearns, Go, HasTab
  <2> QED BY <2>2, <2>3, <2>4, <2>5, <2>6, <2>7
<1>4. BesideWindows
  BY <1>1, <1>2, <1>3 DEF BesideWindows, RunBeside
<1>5. Captures' /\ CastRight'
  BY <1>1, <1>2, CapturesBeside, CastBeside
<1>6. chrome' \in ChromeType' /\ life' \in LifeType' /\ cast' \in CastType /\ file' \in FileType
  BY <1>1, Typed DEF LifeType, ChromeType
<1> QED BY <1>1, <1>3, <1>4, <1>5, <1>6, UniqueTasks, BesideKeeps, Typed

LEMMA HandleDialogKeeps ==
  ASSUME SessionInv, HandleDialog
  PROVE  SessionInv'
<1>1. conf' = conf /\ tab' = tab /\ cast' = cast /\ file' = file /\ life' = life /\ tasks' = tasks /\ run.at = "free"
  BY DEF HandleDialog, At
<1>2. /\ chrome' \in ChromeType' /\ chrome'.window = chrome.window /\ chrome'.gate = chrome.gate /\ chrome'.mine = chrome.mine
      /\ chrome'.late = chrome.late /\ chrome'.shut = chrome.shut /\ chrome'.response = chrome.response
  <2>1. PICK a \in SUBSET TabSessions : chrome' = [chrome EXCEPT !.alerts = a]
    BY Typed DEF HandleDialog, ChromeType
  <2> QED BY <2>1, Typed DEF ChromeType
<1>3. run' \in RunType' /\ run'.at = "handled"
  <2>1. PICK t : run' = [run EXCEPT !.at = "handled", !.t = t]
    BY DEF HandleDialog
  <2> QED BY <2>1, Typed DEF RunType, Working
<1>4. BesideWindows
  BY <1>1, <1>2, <1>3 DEF BesideWindows, RunBeside, Working
<1>5. Captures' /\ CastRight'
  BY <1>1, <1>2, CapturesBeside, CastBeside DEF Working
<1>6. life' \in LifeType' /\ cast' \in CastType /\ file' \in FileType
  BY <1>1, Typed DEF LifeType
<1> QED BY <1>1, <1>2, <1>3, <1>4, <1>5, <1>6, UniqueTasks, BesideKeeps, Typed

LEMMA DialogHandledKeeps ==
  ASSUME SessionInv, DialogHandled
  PROVE  SessionInv'
<1>1. conf' = conf /\ tab' = tab /\ cast' = cast /\ file' = file /\ chrome' = chrome /\ tasks' = tasks /\ run.at = "handled"
  BY DEF DialogHandled, At
<1>2. /\ life' \in LifeType' /\ life'.closing = life.closing /\ life'.connected = life.connected
      /\ life'.listening = life.listening /\ life'.handover = life.handover
  <2>1. PICK d \in SUBSET TabSessions : life' = [life EXCEPT !.dialogs = d]
    BY Typed DEF DialogHandled, LifeType
  <2> QED BY <2>1, Typed DEF LifeType
<1>3. run' \in RunType' /\ run'.at = "free"
  BY Typed DEF DialogHandled, Go, RunType, Working
<1>4. BesideWindows
  BY <1>1, <1>2, <1>3 DEF BesideWindows, RunBeside, Working
<1>5. Captures' /\ CastRight'
  BY <1>1, <1>2, CapturesBeside, CastBeside DEF Working
<1>6. chrome' \in ChromeType' /\ cast' \in CastType /\ file' \in FileType
  BY <1>1, Typed DEF ChromeType
<1> QED BY <1>1, <1>2, <1>3, <1>4, <1>5, <1>6, UniqueTasks, BesideKeeps, Typed

----------------------------------------------------------------------------
(* Responses.                                                              *)

ResponseType == [st : {"none", "asked", "sent", "failed", "answered", "released"}, inside : BOOLEAN, file : BOOLEAN]

\* A step that moves one response on.
LEMMA ResponseMoves ==
  ASSUME SessionInv, NEW r \in Responses, NEW v \in ResponseType, chrome' = [chrome EXCEPT !.response[r] = v]
  PROVE  /\ chrome' \in ChromeType' /\ chrome'.window = chrome.window /\ chrome'.gate = chrome.gate /\ chrome'.mine = chrome.mine
         /\ chrome'.late = chrome.late /\ chrome'.shut = chrome.shut
         /\ chrome'.response[r] = v /\ \A q \in Responses : q # r => chrome'.response[q] = chrome.response[q]
<1> DEFINE f == [chrome.response EXCEPT ![r] = v]
<1>1. chrome.response \in [Responses -> ResponseType]
  BY Typed DEF ChromeType, ResponseType
<1>2. f \in [Responses -> ResponseType] /\ f[r] = v /\ \A q \in Responses : q # r => f[q] = chrome.response[q]
  BY <1>1
<1>3. chrome' = [chrome EXCEPT !.response = f]
  OBVIOUS
<1> HIDE DEF f
<1>4. chrome' \in ChromeType' /\ chrome'.response = f
  BY <1>2, <1>3, Typed DEF ChromeType, ResponseType
<1>5. /\ chrome'.window = chrome.window /\ chrome'.gate = chrome.gate /\ chrome'.mine = chrome.mine
      /\ chrome'.late = chrome.late /\ chrome'.shut = chrome.shut
  BY <1>3, Typed DEF ChromeType
<1> QED BY <1>2, <1>4, <1>5

LEMMA GateRequestKeeps ==
  ASSUME SessionInv, NEW x \in tasks, GateRequest(x)
  PROVE  SessionInv'
<1>1. conf' = conf /\ tab' = tab /\ cast' = cast /\ file' = file /\ life' = life /\ run' = run /\ x.what = "gate" /\ Ends(x)
  BY DEF GateRequest
<1>2. x.of \in Responses
  BY <1>1, Typed DEF TaskOK
<1>3. chrome.response[x.of] \in ResponseType
  BY <1>2, Typed DEF ChromeType, ResponseType
<1>4. PICK s \in {"sent", "failed"} : chrome' = [chrome EXCEPT !.response[x.of] = [chrome.response[x.of] EXCEPT !.st = s]]
  BY DEF GateRequest, Respond
<1> DEFINE v == [chrome.response[x.of] EXCEPT !.st = s]
<1>5. v \in ResponseType /\ v.st = s
  BY <1>3 DEF ResponseType
<1>6. chrome' = [chrome EXCEPT !.response[x.of] = v]
  BY <1>4
<1> HIDE DEF v
<1>7. /\ chrome' \in ChromeType' /\ chrome'.window = chrome.window /\ chrome'.gate = chrome.gate /\ chrome'.mine = chrome.mine
      /\ chrome'.late = chrome.late /\ chrome'.shut = chrome.shut
      /\ chrome'.response[x.of] = v /\ \A q \in Responses : q # x.of => chrome'.response[q] = chrome.response[q]
  BY <1>2, <1>5, <1>6, ResponseMoves
<1>8. (\A y \in tasks' : TaskOK(y) /\ y \in tasks /\ y # x) /\ (\A y \in tasks : y.what = "cast" => y \in tasks')
  BY <1>1, EndsOne, Typed
<1>9. BesideWindows
  BY <1>1, <1>7, <1>8 DEF BesideWindows, RunBeside
<1>10. Captures'
  <2> SUFFICES ASSUME ~life.closing PROVE Captures'
    BY <1>1 DEF SessionInv, Captures
  <2>1. \A y \in tasks' : y.what = "gate" => y.of # x.of
    <3> SUFFICES ASSUME NEW y \in tasks', y.what = "gate", y.of = x.of PROVE FALSE
      OBVIOUS
    <3>1. TaskOK(x) /\ TaskOK(y) /\ y # x
      BY <1>8, Typed
    <3> QED BY <1>1, <3>1 DEF TaskOK
  <2>2. \A y \in tasks' : y.what = "paused" => y.of # x.of
    <3>1. chrome.response[x.of].st = "asked"
      BY <1>1 DEF SessionInv, Captures
    <3> QED BY <1>8, <3>1 DEF SessionInv, Captures
  <2>3. \A y \in tasks' : y.what \in {"gate", "paused"} => y \in tasks /\ y.of \in Responses /\ chrome'.response[y.of] = chrome.response[y.of]
    BY <1>7, <1>8, <2>1, <2>2 DEF TaskOK
  <2>4. v.st \notin {"answered", "released"}
    BY <1>5
  <2> QED BY <1>1, <1>7, <2>3, <2>4 DEF SessionInv, Captures
<1>11. CastRight'
  BY <1>1, <1>8, CastBeside
<1>12. life' \in LifeType' /\ run' \in RunType' /\ cast' \in CastType /\ file' \in FileType
  BY <1>1, Typed DEF LifeType, RunType
<1> QED BY <1>7, <1>8, <1>9, <1>10, <1>11, <1>12, UniqueTasks, BesideKeeps

\* The file is settled before its response is let go.
LEMMA CaptureDownloadKeeps ==
  ASSUME SessionInv, NEW x \in tasks, CaptureDownload(x)
  PROVE  SessionInv'
<1>1. conf' = conf /\ chrome' = chrome /\ tab' = tab /\ cast' = cast /\ life' = life /\ run' = run /\ x.what = "paused" /\ x.at = "start"
  BY DEF CaptureDownload
<1>2. x.of \in Responses
  BY <1>1, Typed DEF TaskOK
<1>3. \A y \in tasks' : TaskOK(y) /\ ((y \in tasks /\ y # x) \/ (y.what = "paused" /\ y.of = x.of /\ y.at = "captured"))
  BY <1>1, MovesOne, Typed DEF CaptureDownload
<1>4. \A y \in tasks : y.what # "paused" => y \in tasks'
  BY <1>1 DEF CaptureDownload, Moves
<1>5. \/ file' = file /\ ~chrome.response[x.of].file
      \/ file' = Keep(x.of) \/ file' = Refuse(x.of)
  BY DEF CaptureDownload
<1>6. /\ file' \in FileType /\ file'.paused = file.paused /\ ToSet(file.settled) \subseteq ToSet(file'.settled)
      /\ Len(file'.settled) = file'.kept + file'.refused
      /\ chrome.response[x.of].file => x.of \in ToSet(file'.settled)
  <2>1. /\ file \in FileType /\ file.settled \in Seq(Responses) /\ file.kept \in Nat /\ file.refused \in Nat
        /\ Len(file.settled) = file.kept + file.refused
    BY Typed DEF FileType, SessionInv, Captures
  <2>2. CASE file' = file /\ ~chrome.response[x.of].file
    BY <2>1, <2>2
  <2> DEFINE s == Append(file.settled, x.of)
  <2>3. s \in Seq(Responses) /\ Len(s) = Len(file.settled) + 1 /\ ToSet(file.settled) \subseteq ToSet(s) /\ x.of \in ToSet(s)
    <3>1. /\ s \in Seq(Responses) /\ Len(s) = Len(file.settled) + 1 /\ DOMAIN s = 1..Len(s) /\ DOMAIN file.settled = 1..Len(file.settled)
          /\ Len(file.settled) \in Nat
          /\ (\A i \in 1..Len(file.settled) : s[i] = file.settled[i]) /\ s[Len(file.settled) + 1] = x.of
      BY <1>2, <2>1
    <3> HIDE DEF s
    <3>2. Len(file.settled) + 1 \in DOMAIN s /\ \A i \in DOMAIN file.settled : i \in DOMAIN s /\ s[i] = file.settled[i]
      BY <3>1
    <3>3. ToSet(file.settled) \subseteq ToSet(s)
      BY <3>2 DEF ToSet
    <3>4. x.of \in ToSet(s)
      BY <3>1, <3>2 DEF ToSet
    <3> QED BY <3>1, <3>3, <3>4
  <2>4. CASE file' = Keep(x.of)
    <3> DEFINE n == file.kept + 1
    <3>1. file' = [file EXCEPT !.settled = s, !.kept = n] /\ n \in Nat
      BY <2>1, <2>4 DEF Keep
    <3>2. n = file.kept + 1
      OBVIOUS
    <3> HIDE DEF s, n
    <3>3. file' \in FileType /\ file'.paused = file.paused /\ file'.settled = s /\ file'.kept = n /\ file'.refused = file.refused
      BY <2>1, <2>3, <3>1 DEF FileType
    <3> QED BY <2>1, <2>3, <3>2, <3>3
  <2>5. CASE file' = Refuse(x.of)
    <3> DEFINE n == file.refused + 1
    <3>1. file' = [file EXCEPT !.settled = s, !.refused = n] /\ n \in Nat
      BY <2>1, <2>5 DEF Refuse
    <3>2. n = file.refused + 1
      OBVIOUS
    <3> HIDE DEF s, n
    <3>3. file' \in FileType /\ file'.paused = file.paused /\ file'.settled = s /\ file'.kept = file.kept /\ file'.refused = n
      BY <2>1, <2>3, <3>1 DEF FileType
    <3> QED BY <2>1, <2>3, <3>2, <3>3
  <2> QED BY <1>5, <2>2, <2>4, <2>5
<1>7. BesideWindows
  BY <1>1, <1>3 DEF BesideWindows, RunBeside
<1>8. Captures'
  <2>1. ~life.closing => chrome.response[x.of].st = "answered"
    BY <1>1 DEF SessionInv, Captures
  <2> QED BY <1>1, <1>3, <1>6, <2>1 DEF SessionInv, Captures
<1>9. CastRight'
  BY <1>1, <1>4, CastBeside
<1>10. \A y, z \in tasks' : y.what = z.what /\ y.what \in {"adopt", "paused"} /\ y.of = z.of => y = z
  <2> SUFFICES ASSUME NEW y \in tasks', NEW z \in tasks', y.what = z.what, y.what \in {"adopt", "paused"}, y.of = z.of PROVE y = z
    OBVIOUS
  <2>1. CASE y \in tasks /\ y # x /\ z \in tasks /\ z # x
    BY <2>1 DEF SessionInv, Adopting
  <2>2. CASE y.what = "paused" /\ y.of = x.of /\ y.at = "captured" /\ z.what = "paused" /\ z.of = x.of /\ z.at = "captured"
    BY <1>3, <2>2 DEF TaskOK
  <2>3. CASE y \in tasks /\ y # x /\ z.what = "paused" /\ z.of = x.of
    BY <1>1, <2>3 DEF SessionInv, Adopting
  <2>4. CASE z \in tasks /\ z # x /\ y.what = "paused" /\ y.of = x.of
    BY <1>1, <2>4 DEF SessionInv, Adopting
  <2> QED BY <1>3, <2>1, <2>2, <2>3, <2>4
<1>11. chrome' \in ChromeType' /\ life' \in LifeType' /\ run' \in RunType' /\ cast' \in CastType
  BY <1>1, Typed DEF ChromeType, LifeType, RunType
<1>12. \A y \in tasks' : TaskOK(y)
  BY <1>3
<1> QED BY <1>6, <1>7, <1>8, <1>9, <1>10, <1>11, <1>12, BesideKeeps

LEMMA HandlePausedKeeps ==
  ASSUME SessionInv, NEW x \in tasks, HandlePaused(x)
  PROVE  SessionInv'
<1>1. conf' = conf /\ tab' = tab /\ cast' = cast /\ life' = life /\ run' = run /\ x.what = "paused" /\ x.at = "captured" /\ Ends(x)
  BY DEF HandlePaused
<1>2. x.of \in Responses
  BY <1>1, Typed DEF TaskOK
<1>3. chrome.response[x.of] \in ResponseType
  BY <1>2, Typed DEF ChromeType, ResponseType
<1> DEFINE v == [chrome.response[x.of] EXCEPT !.st = "released"]
<1>4. chrome' = [chrome EXCEPT !.response[x.of] = v]
  BY DEF HandlePaused, Respond
<1>5. v \in ResponseType /\ v.st = "released" /\ v.file = chrome.response[x.of].file
  BY <1>3 DEF ResponseType
<1> HIDE DEF v
<1>6. /\ chrome' \in ChromeType' /\ chrome'.window = chrome.window /\ chrome'.gate = chrome.gate /\ chrome'.mine = chrome.mine
      /\ chrome'.late = chrome.late /\ chrome'.shut = chrome.shut
      /\ chrome'.response[x.of] = v /\ \A q \in Responses : q # x.of => chrome'.response[q] = chrome.response[q]
  BY <1>2, <1>4, <1>5, ResponseMoves
<1>7. (\A y \in tasks' : TaskOK(y) /\ y \in tasks /\ y # x) /\ (\A y \in tasks : y.what = "cast" => y \in tasks')
  BY <1>1, EndsOne, Typed
<1>8. /\ file' \in FileType /\ file'.paused = file.paused \ {x.of} /\ file'.settled = file.settled
      /\ file'.kept = file.kept /\ file'.refused = file.refused
  <2>1. file.paused \ {x.of} \in SUBSET Responses /\ file' = [file EXCEPT !.paused = file.paused \ {x.of}]
    BY Typed DEF FileType, HandlePaused
  <2> QED BY <2>1, Typed DEF FileType
<1>9. BesideWindows
  BY <1>1, <1>6, <1>7 DEF BesideWindows, RunBeside
<1>10. Captures'
  <2>1. Len(file'.settled) = file'.kept + file'.refused
    BY <1>8 DEF SessionInv, Captures
  <2> SUFFICES ASSUME ~life.closing PROVE Captures'
    BY <1>1, <2>1 DEF Captures
  <2>2. \A y \in tasks' : y.what = "paused" => y.of # x.of
    BY <1>1, <1>7 DEF SessionInv, Adopting
  <2>3. \A y \in tasks' : y.what = "gate" => y.of # x.of
    <3>1. chrome.response[x.of].st = "answered"
      BY <1>1 DEF SessionInv, Captures
    <3> QED BY <1>7, <3>1 DEF SessionInv, Captures
  <2>4. \A y \in tasks' : y.what \in {"gate", "paused"} => y \in tasks /\ y.of \in Responses /\ chrome'.response[y.of] = chrome.response[y.of]
    BY <1>6, <1>7, <2>2, <2>3 DEF TaskOK
  <2>5. chrome.response[x.of].file => x.of \in ToSet(file.settled)
    BY <1>1 DEF SessionInv, Captures
  <2>6. \A r \in Responses : (chrome'.response[r].file /\ chrome'.response[r].st \in {"answered", "released"})
            => r \in file'.paused \/ r \in ToSet(file'.settled)
    <3> SUFFICES ASSUME NEW r \in Responses, chrome'.response[r].file, chrome'.response[r].st \in {"answered", "released"}
                 PROVE  r \in file'.paused \/ r \in ToSet(file'.settled)
      OBVIOUS
    <3>1. CASE r = x.of
      BY <1>5, <1>6, <1>8, <2>5, <3>1
    <3>2. CASE r # x.of
      BY <1>6, <1>8, <3>2 DEF SessionInv, Captures
    <3> QED BY <3>1, <3>2
  <2> QED BY <1>1, <1>8, <2>1, <2>4, <2>6 DEF SessionInv, Captures
<1>11. CastRight'
  BY <1>1, <1>7, CastBeside
<1>12. life' \in LifeType' /\ run' \in RunType' /\ cast' \in CastType
  BY <1>1, Typed DEF LifeType, RunType
<1> QED BY <1>6, <1>7, <1>8, <1>9, <1>10, <1>11, <1>12, UniqueTasks, BesideKeeps

LEMMA RequestPausedKeeps ==
  ASSUME SessionInv, NEW r \in Responses, RequestPaused(r)
  PROVE  SessionInv'
<1>1. conf' = conf /\ tab' = tab /\ cast' = cast /\ file' = file /\ life' = life /\ run' = run /\ chrome.response[r].st = "none"
  BY DEF RequestPaused
<1>2. chrome.response[r] \in ResponseType
  BY Typed DEF ChromeType, ResponseType
<1>3. PICK b \in BOOLEAN : chrome' = [chrome EXCEPT !.response[r].st = "asked", !.response[r].inside = b]
  BY DEF RequestPaused
<1> DEFINE v == [chrome.response[r] EXCEPT !.st = "asked", !.inside = b]
<1>4. v \in ResponseType /\ v.st = "asked"
  BY <1>2 DEF ResponseType
<1>5. chrome' = [chrome EXCEPT !.response[r] = v]
  BY <1>3, Typed DEF ChromeType
<1> HIDE DEF v
<1>6. /\ chrome' \in ChromeType' /\ chrome'.window = chrome.window /\ chrome'.gate = chrome.gate /\ chrome'.mine = chrome.mine
      /\ chrome'.late = chrome.late /\ chrome'.shut = chrome.shut
      /\ chrome'.response[r] = v /\ \A q \in Responses : q # r => chrome'.response[q] = chrome.response[q]
  BY <1>4, <1>5, ResponseMoves
<1>7. /\ \A y \in tasks' : TaskOK(y) /\ (y \in tasks \/ (y.what = "gate" /\ y.of = r))
      /\ \A y \in tasks : y \in tasks'
  <2>1. tasks' = Spawned({Task("gate", r)})
    BY DEF RequestPaused
  <2>2. TaskOK(Task("gate", r)) /\ Task("gate", r).what = "gate" /\ Task("gate", r).of = r
    BY TaskFields
  <2> QED BY <2>1, <2>2, SpawnedOnly, Typed
<1>8. BesideWindows
  BY <1>1, <1>6, <1>7 DEF BesideWindows, RunBeside
<1>9. Captures'
  <2> SUFFICES ASSUME ~life.closing PROVE Captures'
    BY <1>1 DEF SessionInv, Captures
  <2>1. \A y \in tasks : y.what \in {"gate", "paused"} => y.of \in Responses /\ y.of # r
    BY <1>1, Typed DEF SessionInv, Captures, TaskOK
  <2>2. \A y \in tasks : y.what \in {"gate", "paused"} => chrome'.response[y.of] = chrome.response[y.of]
    BY <1>6, <2>1
  <2>3. \A y \in tasks' : y.what = "gate" => chrome'.response[y.of].st = "asked"
    BY <1>4, <1>6, <1>7, <2>2 DEF SessionInv, Captures
  <2>4. \A y \in tasks' : y.what = "paused" => y \in tasks /\ chrome'.response[y.of] = chrome.response[y.of]
    BY <1>7, <2>2
  <2>5. v.st \notin {"answered", "released"}
    BY <1>4
  <2> QED BY <1>1, <1>6, <2>3, <2>4, <2>5 DEF SessionInv, Captures
<1>10. CastRight'
  BY <1>1, <1>7, CastBeside
<1>11. life' \in LifeType' /\ run' \in RunType' /\ cast' \in CastType /\ file' \in FileType
  BY <1>1, Typed DEF LifeType, RunType
<1>12. \A y, z \in tasks' : y.what = z.what /\ y.what \in {"adopt", "paused"} /\ y.of = z.of => y = z
  BY <1>7, UniqueTasks
<1>13. \A y \in tasks' : TaskOK(y)
  BY <1>7
<1> QED BY <1>6, <1>8, <1>9, <1>10, <1>11, <1>12, <1>13, BesideKeeps

LEMMA ResponsePausedKeeps ==
  ASSUME SessionInv, NEW r \in Responses, ResponsePaused(r)
  PROVE  SessionInv'
<1>1. conf' = conf /\ tab' = tab /\ cast' = cast /\ life' = life /\ run' = run /\ chrome.response[r].st \in {"none", "sent"}
  BY DEF ResponsePaused
<1>2. chrome.response[r] \in ResponseType
  BY Typed DEF ChromeType, ResponseType
<1>3. PICK b \in BOOLEAN : chrome' = [chrome EXCEPT !.response[r].st = "answered", !.response[r].file = b]
  BY DEF ResponsePaused
<1> DEFINE v == [chrome.response[r] EXCEPT !.st = "answered", !.file = b]
<1>4. v \in ResponseType /\ v.st = "answered"
  BY <1>2 DEF ResponseType
<1>5. chrome' = [chrome EXCEPT !.response[r] = v]
  BY <1>3, Typed DEF ChromeType
<1> HIDE DEF v
<1>6. /\ chrome' \in ChromeType' /\ chrome'.window = chrome.window /\ chrome'.gate = chrome.gate /\ chrome'.mine = chrome.mine
      /\ chrome'.late = chrome.late /\ chrome'.shut = chrome.shut
      /\ chrome'.response[r] = v /\ \A q \in Responses : q # r => chrome'.response[q] = chrome.response[q]
  BY <1>4, <1>5, ResponseMoves
<1>7. /\ \A y \in tasks' : TaskOK(y) /\ (y \in tasks \/ (y = Task("paused", r) /\ y.what = "paused" /\ y.of = r /\ y.at = "start" /\ ~life.closing))
      /\ \A y \in tasks : y \in tasks'
  <2>1. tasks' = Spawned({Task("paused", r)})
    BY DEF ResponsePaused
  <2>2. TaskOK(Task("paused", r)) /\ Task("paused", r).what = "paused" /\ Task("paused", r).of = r /\ Task("paused", r).at = "start"
    BY TaskFields
  <2> QED BY <2>1, <2>2, SpawnedOnly, Typed
<1>8. /\ file' \in FileType /\ file'.paused = file.paused \cup {r} /\ file'.settled = file.settled
      /\ file'.kept = file.kept /\ file'.refused = file.refused
  <2>1. file.paused \cup {r} \in SUBSET Responses /\ file' = [file EXCEPT !.paused = file.paused \cup {r}]
    BY Typed DEF FileType, ResponsePaused, Paused
  <2> QED BY <2>1, Typed DEF FileType
<1>9. BesideWindows
  BY <1>1, <1>6, <1>7 DEF BesideWindows, RunBeside
<1>10. ~life.closing => \A y \in tasks : y.what \in {"gate", "paused"} => y.of \in Responses /\ y.of # r
  BY <1>1, Typed DEF SessionInv, Captures, TaskOK
<1>11. Captures'
  <2>1. Len(file'.settled) = file'.kept + file'.refused
    BY <1>8 DEF SessionInv, Captures
  <2> SUFFICES ASSUME ~life.closing PROVE Captures'
    BY <1>1, <2>1 DEF Captures
  <2>2. \A y \in tasks : y.what \in {"gate", "paused"} => chrome'.response[y.of] = chrome.response[y.of]
    BY <1>6, <1>10
  <2>3. \A y \in tasks' : y.what = "paused" => chrome'.response[y.of].st = "answered"
    BY <1>4, <1>6, <1>7, <2>2 DEF SessionInv, Captures
  <2>4. \A y \in tasks' : y.what = "gate" \/ (y.what = "paused" /\ y.at = "captured") => y \in tasks /\ chrome'.response[y.of] = chrome.response[y.of]
    BY <1>7, <2>2
  <2>5. \A q \in Responses : (chrome'.response[q].file /\ chrome'.response[q].st \in {"answered", "released"})
            => q \in file'.paused \/ q \in ToSet(file'.settled)
    BY <1>6, <1>8 DEF SessionInv, Captures
  <2> QED BY <1>1, <1>8, <2>1, <2>3, <2>4, <2>5 DEF SessionInv, Captures
<1>12. CastRight'
  BY <1>1, <1>7, CastBeside
<1>13. life' \in LifeType' /\ run' \in RunType' /\ cast' \in CastType
  BY <1>1, Typed DEF LifeType, RunType
<1>14. \A y, z \in tasks' : y.what = z.what /\ y.what \in {"adopt", "paused"} /\ y.of = z.of => y = z
  <2>1. \A y, z \in tasks : y.what = z.what /\ y.what \in {"adopt", "paused"} /\ y.of = z.of => y = z
    BY DEF SessionInv, Adopting
  <2> QED BY <1>7, <1>10, <2>1
<1>15. \A y \in tasks' : TaskOK(y)
  BY <1>7
<1> QED BY <1>6, <1>8, <1>9, <1>11, <1>12, <1>13, <1>14, <1>15, BesideKeeps

----------------------------------------------------------------------------
(* The lists of tabs.                                                      *)

LEMMA WithoutSet ==
  ASSUME NEW s \in Seq(Targets), IsInjective(s), NEW t
  PROVE  Without(s, t) \in Seq(Targets) /\ IsInjective(Without(s, t)) /\ ToSet(Without(s, t)) = ToSet(s) \ {t}
<1>1. CASE t \in ToSet(s)
  <2> DEFINE p == CHOOSE i \in DOMAIN s : s[i] = t
             r == RemoveAt(s, p)
  <2>1. p \in DOMAIN s /\ s[p] = t
    BY <1>1 DEF ToSet
  <2> HIDE DEF p
  <2>2. \A i, j \in DOMAIN s : s[i] = s[j] => i = j
    BY DEF IsInjective
  <2>3. /\ r \in Seq(Targets)
        /\ \A j \in DOMAIN s : j # p => \E i \in DOMAIN r : r[i] = s[j]
        /\ \A i \in DOMAIN r : r[i] # s[p] /\ \E j \in DOMAIN s : s[j] = r[i]
        /\ \A i, j \in DOMAIN r : r[i] = r[j] => i = j
    BY <2>1, <2>2, LeaveQueue
  <2>4. Without(s, t) = r
    BY <1>1 DEF Without, p
  <2> HIDE DEF r
  <2>5. ToSet(r) = ToSet(s) \ {t}
    BY <2>1, <2>2, <2>3 DEF ToSet
  <2>6. IsInjective(r)
    BY <2>3 DEF IsInjective
  <2> QED BY <2>3, <2>4, <2>5, <2>6
<1>2. CASE t \notin ToSet(s)
  BY <1>2 DEF Without
<1> QED BY <1>1, <1>2

LEMMA AppendedSet ==
  ASSUME NEW s \in Seq(Targets), IsInjective(s), NEW t \in Targets, t \notin ToSet(s)
  PROVE  Append(s, t) \in Seq(Targets) /\ IsInjective(Append(s, t)) /\ ToSet(Append(s, t)) = ToSet(s) \cup {t}
<1> DEFINE r == Append(s, t)
<1>1. \A i, j \in DOMAIN s : s[i] = s[j] => i = j
  BY DEF IsInjective
<1>2. t \notin Range(s)
  BY DEF Range, ToSet
<1>3. /\ r \in Seq(Targets)
      /\ \A i \in DOMAIN r : r[i] = t \/ \E j \in DOMAIN s : s[j] = r[i]
      /\ \A i, j \in DOMAIN r : r[i] = r[j] => i = j
  BY <1>1, <1>2, JoinQueue
<1>4. /\ DOMAIN r = 1..(Len(s) + 1) /\ DOMAIN s = 1..Len(s) /\ Len(s) \in Nat
      /\ (\A i \in 1..Len(s) : r[i] = s[i]) /\ r[Len(s) + 1] = t
  OBVIOUS
<1> HIDE DEF r
<1>5. Len(s) + 1 \in DOMAIN r /\ \A i \in DOMAIN s : i \in DOMAIN r /\ r[i] = s[i]
  BY <1>4
<1>6. ToSet(r) = ToSet(s) \cup {t}
  BY <1>3, <1>4, <1>5 DEF ToSet
<1>7. IsInjective(r)
  BY <1>3 DEF IsInjective
<1> QED BY <1>3, <1>6, <1>7 DEF r

LEMMA InsertedSet ==
  ASSUME NEW s \in Seq(Targets), IsInjective(s), NEW t \in Targets
  PROVE  Inserted(s, t) \in Seq(Targets) /\ IsInjective(Inserted(s, t)) /\ ToSet(Inserted(s, t)) = ToSet(s) \cup {t}
BY AppendedSet DEF Inserted

\* A tab takes the closed one's place, or none does.
LEMMA SuccessorAmong ==
  ASSUME NEW t, NEW left \in Seq(Targets), NEW recent \in Seq(Targets)
  PROVE  Successor(t, left, recent) \in ToSet(left) \cup {NoTarget}
<1> DEFINE live == {i \in DOMAIN recent : recent[i] \in ToSet(left)}
<1>1. CASE TabOpener(t) \in ToSet(left)
  BY <1>1 DEF Successor
<1>2. CASE TabOpener(t) \notin ToSet(left) /\ live # {}
  <2>1. live \subseteq 1..Len(recent) /\ Len(recent) \in Nat
    OBVIOUS
  <2>2. Max(live) \in live
    BY <1>2, <2>1, MaxIsIn
  <2>3. Successor(t, left, recent) = recent[Max(live)]
    BY <1>2 DEF Successor
  <2> QED BY <2>2, <2>3
<1>3. CASE TabOpener(t) \notin ToSet(left) /\ live = {}
  <2>1. left # <<>> => 1 \in DOMAIN left
    OBVIOUS
  <2>2. Successor(t, left, recent) = IF left # <<>> THEN left[1] ELSE NoTarget
    BY <1>3 DEF Successor
  <2> QED BY <2>1, <2>2 DEF ToSet
<1> QED BY <1>1, <1>2, <1>3

\* Settling an adoption changes no popup's id.
LEMMA SettledIds ==
  ASSUME NEW popups \in Seq(PopupType), NEW ended, NEW list
  PROVE  LET r == AdoptionSettled(popups, ended, list) IN
           /\ r \in Seq(PopupType) /\ DOMAIN r = DOMAIN popups /\ (popups = <<>> => r = <<>>)
           /\ \A i \in DOMAIN popups : r[i].id = popups[i].id /\ r[i].opener = popups[i].opener
<1> DEFINE r == AdoptionSettled(popups, ended, list)
<1>1. DOMAIN popups = 1..Len(popups) /\ Len(popups) \in Nat
  OBVIOUS
<1>2. DOMAIN r = 1..Len(popups) /\ r = [i \in 1..Len(popups) |-> r[i]]
  BY <1>1 DEF AdoptionSettled
<1>3. \A i \in DOMAIN popups : r[i] \in PopupType /\ r[i].id = popups[i].id /\ r[i].opener = popups[i].opener
  <2> SUFFICES ASSUME NEW i \in DOMAIN popups PROVE r[i] \in PopupType /\ r[i].id = popups[i].id /\ r[i].opener = popups[i].opener
    OBVIOUS
  <2>1. popups[i] \in PopupType
    OBVIOUS
  <2>2. r[i] = popups[i] \/ \E a \in {"joined", "lost"} : r[i] = [popups[i] EXCEPT !.adopted = a]
    BY DEF AdoptionSettled
  <2> HIDE DEF r
  <2> QED BY <2>1, <2>2 DEF PopupType
<1> HIDE DEF r
<1>4. r \in Seq(PopupType)
  BY <1>1, <1>2, <1>3, IsASeq
<1>5. popups = <<>> => r = <<>>
  BY <1>1, <1>2, <1>4
<1> QED BY <1>1, <1>2, <1>3, <1>4, <1>5 DEF r

\* A tab is made active: the run is on it, and the cast has something to do.
LEMMA MadeActive ==
  ASSUME SessionInv, NEW T \in TabType, IsInjective(T.activated), NEW t \in Somewhere, SetActiveTarget(T, t)
  PROVE  /\ tab' \in TabType /\ tab'.list = T.list /\ tab'.owned = T.owned /\ tab'.handedOver = T.handedOver
         /\ tab'.popups = T.popups /\ tab'.active = t /\ IsInjective(tab'.activated)
         /\ cast' \in CastType /\ cast'.session = cast.session
         /\ \A y \in tasks' : TaskOK(y) /\ (y \in tasks \/ y.what \in {"ack", "cast"})
         /\ \A y \in tasks : y \in tasks'
         /\ conf.frames /\ ~life.closing => \E y \in tasks' : y.what = "cast" /\ y.at = "start"
<1> DEFINE a == IF t = NoTarget THEN T.activated ELSE Append(Without(T.activated, t), t)
<1>1. a \in Seq(Targets) /\ IsInjective(a)
  <2>1. T.activated \in Seq(Targets)
    BY DEF TabType
  <2>2. CASE t = NoTarget
    BY <2>1, <2>2
  <2>3. CASE t # NoTarget
    <3>1. t \in Targets
      BY <2>3 DEF Somewhere
    <3>2. Without(T.activated, t) \in Seq(Targets) /\ IsInjective(Without(T.activated, t)) /\ t \notin ToSet(Without(T.activated, t))
      BY <2>1, WithoutSet
    <3> QED BY <2>3, <3>1, <3>2, AppendedSet
  <2> QED BY <2>2, <2>3
<1>2. tab' = [T EXCEPT !.active = t, !.activated = a]
  BY DEF SetActiveTarget, Activated
<1> HIDE DEF a
<1>3. /\ tab' \in TabType /\ tab'.list = T.list /\ tab'.owned = T.owned /\ tab'.handedOver = T.handedOver
      /\ tab'.popups = T.popups /\ tab'.active = t /\ tab'.activated = a
  BY <1>1, <1>2 DEF TabType
<1>4. NoFrame \in FrameType
  BY DEF NoFrame, FrameType, Somewhere
<1>5. cast' \in CastType /\ cast'.session = cast.session
  BY <1>4, Typed DEF SetActiveTarget, CastType
<1> DEFINE new == Ack(cast.pending) \cup (IF conf.frames THEN {Task("cast", t)} ELSE {})
<1>6. tasks' = Spawned(new)
  BY DEF SetActiveTarget
<1>7. \A y \in new : TaskOK(y) /\ y.what \in {"ack", "cast"}
  BY AcksOnly, TaskFields
<1>8. conf.frames => Task("cast", t) \in new /\ Task("cast", t).what = "cast" /\ Task("cast", t).at = "start"
  BY TaskFields
<1> HIDE DEF new
<1>9. /\ \A y \in tasks' : y \in tasks \/ y \in new
      /\ \A y \in tasks : y \in tasks'
      /\ ~life.closing => \A y \in new : y \in tasks'
  BY <1>6, SpawnedOnly
<1> QED BY <1>1, <1>3, <1>5, <1>7, <1>8, <1>9, Typed

----------------------------------------------------------------------------
(* Adoptions.                                                              *)

\* An adoption that moves on stays the one adoption of its window.
LEMMA AdoptMoves ==
  ASSUME SessionInv, NEW x \in tasks, x.what = "adopt", NEW a \in {"gated", "running"}, Moves(x, a)
  PROVE  /\ \A y \in tasks' : TaskOK(y) /\ ((y \in tasks /\ y # x) \/ (y.what = "adopt" /\ y.of = x.of /\ y.at = a))
         /\ \A y \in tasks : y.what # "adopt" => y \in tasks'
         /\ \A y, z \in tasks' : y.what = z.what /\ y.what \in {"adopt", "paused"} /\ y.of = z.of => y = z
<1>1. \A y \in tasks' : TaskOK(y) /\ ((y \in tasks /\ y # x) \/ (y.what = "adopt" /\ y.of = x.of /\ y.at = a))
  BY MovesOne, Typed
<1>2. \A y \in tasks : y.what # "adopt" => y \in tasks'
  BY DEF Moves
<1>3. \A y, z \in tasks' : y.what = z.what /\ y.what \in {"adopt", "paused"} /\ y.of = z.of => y = z
  <2> SUFFICES ASSUME NEW y \in tasks', NEW z \in tasks', y.what = z.what, y.what \in {"adopt", "paused"}, y.of = z.of PROVE y = z
    OBVIOUS
  <2>1. CASE y \in tasks /\ y # x /\ z \in tasks /\ z # x
    BY <2>1 DEF SessionInv, Adopting
  <2>2. CASE y.what = "adopt" /\ y.of = x.of /\ y.at = a /\ z.what = "adopt" /\ z.of = x.of /\ z.at = a
    BY <1>1, <2>2 DEF TaskOK
  <2>3. CASE y \in tasks /\ y # x /\ z.what = "adopt" /\ z.of = x.of
    BY <2>3 DEF SessionInv, Adopting
  <2>4. CASE z \in tasks /\ z # x /\ y.what = "adopt" /\ y.of = x.of
    BY <2>4 DEF SessionInv, Adopting
  <2> QED BY <1>1, <2>1, <2>2, <2>3, <2>4
<1> QED BY <1>1, <1>2, <1>3

\* The cast is as right as before while the run is on the same session.
LEMMA CastUnmoved ==
  ASSUME SessionInv, conf' = conf, ActiveSession' = ActiveSession, cast'.session = cast.session, life'.handover = life.handover,
         run'.at \in (Working \ {"failed"}) \cup {"listening"} => run.at \in (Working \ {"failed"}) \cup {"listening"},
         \A x \in tasks : x.what = "cast" => x \in tasks'
  PROVE  CastRight'
BY DEF SessionInv, CastRight

\* The windows the state names are windows.
LEMMA WindowsNamed ==
  ASSUME SessionInv
  PROVE  /\ chrome.window \in [Targets -> WindowStates] /\ chrome.mine \subseteq Targets /\ tab.popups \in Seq(PopupType)
         /\ \A i \in DOMAIN tab.popups : tab.popups[i] \in PopupType /\ tab.popups[i].id \in Targets
<1>1. chrome.window \in [Targets -> WindowStates] /\ chrome.mine \subseteq Targets
  BY Typed DEF ChromeType
<1>2. tab.popups \in Seq(PopupType)
  BY Typed DEF TabType
<1>3. \A i \in DOMAIN tab.popups : tab.popups[i] \in PopupType
  BY <1>2
<1>4. \A p \in PopupType : p.id \in Targets
  BY DEF PopupType
<1> QED BY <1>1, <1>2, <1>3, <1>4

LEMMA AdoptGateKeeps ==
  ASSUME SessionInv, NEW x \in tasks, AdoptGate(x)
  PROVE  SessionInv'
<1>1. conf' = conf /\ tab' = tab /\ cast' = cast /\ file' = file /\ life' = life /\ run' = run /\ x.what = "adopt" /\ Moves(x, "gated")
  BY DEF AdoptGate
<1>2. x.of \in Targets
  BY <1>1, Typed DEF TaskOK
<1>3. /\ chrome' \in ChromeType' /\ chrome'.window = chrome.window /\ chrome'.gate = chrome.gate \cup {x.of} /\ chrome'.mine = chrome.mine
      /\ chrome'.late = chrome.late /\ chrome'.shut = chrome.shut /\ chrome'.response = chrome.response
  <2> DEFINE g == chrome.gate \cup {x.of}
  <2>1. g \in SUBSET Targets /\ chrome' = [chrome EXCEPT !.gate = g]
    BY <1>2, Typed DEF AdoptGate, PrepareGate, ChromeType
  <2> HIDE DEF g
  <2>2. chrome' \in ChromeType' /\ chrome'.window = chrome.window /\ chrome'.gate = g /\ chrome'.mine = chrome.mine
      /\ chrome'.late = chrome.late /\ chrome'.shut = chrome.shut /\ chrome'.response = chrome.response
    BY <2>1, Typed DEF ChromeType
  <2> QED BY <2>2 DEF g
<1>4. /\ \A y \in tasks' : TaskOK(y) /\ ((y \in tasks /\ y # x) \/ (y.what = "adopt" /\ y.of = x.of /\ y.at = "gated"))
      /\ \A y \in tasks : y.what # "adopt" => y \in tasks'
      /\ \A y, z \in tasks' : y.what = z.what /\ y.what \in {"adopt", "paused"} /\ y.of = z.of => y = z
  BY <1>1, AdoptMoves
<1>5. Types'
  BY <1>1, <1>3, <1>4, Typed DEF LifeType, RunType, SessionInv, Types
<1>6. Phases'
  BY <1>1, <1>4 DEF SessionInv, Phases
<1>7. Owners' /\ Debts'
  BY <1>1, <1>3 DEF SessionInv, Owners, Debts
<1>8. Gated'
  BY <1>1, <1>3, <1>4 DEF SessionInv, Gated
<1>9. Adopting'
  <2>1. Seen' = Seen
    BY <1>1 DEF Seen
  <2> QED BY <1>1, <1>3, <1>4, <2>1 DEF SessionInv, Adopting
<1>10. Captures' /\ CastRight'
  BY <1>1, <1>3, <1>4, CapturesBeside, CastBeside
<1> QED BY <1>5, <1>6, <1>7, <1>8, <1>9, <1>10 DEF SessionInv

\* A window that stays one is as it was for its owner and for those who saw it.
LEMMA WindowStill ==
  ASSUME SessionInv, NEW t \in Targets, chrome.window[t] # "none", NEW w \in WindowStates \ {"none", "gone"},
         chrome' = [chrome EXCEPT !.window[t] = w], chrome.window[t] # "gone"
  PROVE  /\ chrome' \in ChromeType' /\ chrome'.gate = chrome.gate /\ chrome'.mine = chrome.mine
         /\ chrome'.late = chrome.late /\ chrome'.shut = chrome.shut /\ chrome'.response = chrome.response
         /\ chrome'.window[t] = w /\ \A u \in Targets : u # t => chrome'.window[u] = chrome.window[u]
         /\ \A u \in Targets : (chrome'.window[u] = "none" <=> chrome.window[u] = "none") /\ (chrome'.window[u] = "gone" <=> chrome.window[u] = "gone")
<1>1. chrome' \in ChromeType' /\ chrome'.gate = chrome.gate /\ chrome'.mine = chrome.mine
         /\ chrome'.late = chrome.late /\ chrome'.shut = chrome.shut /\ chrome'.response = chrome.response
         /\ chrome'.window = [chrome.window EXCEPT ![t] = w]
  <2> DEFINE W == [chrome.window EXCEPT ![t] = w]
  <2>1. W \in [Targets -> WindowStates] /\ chrome' = [chrome EXCEPT !.window = W]
    BY Typed DEF ChromeType
  <2> HIDE DEF W
  <2>2. chrome' \in ChromeType' /\ chrome'.gate = chrome.gate /\ chrome'.mine = chrome.mine
         /\ chrome'.late = chrome.late /\ chrome'.shut = chrome.shut /\ chrome'.response = chrome.response /\ chrome'.window = W
    BY <2>1, Typed DEF ChromeType
  <2> QED BY <2>2 DEF W
<1>2. chrome.window \in [Targets -> WindowStates]
  BY Typed DEF ChromeType
<1>3. chrome'.window[t] = w /\ \A u \in Targets : u # t => chrome'.window[u] = chrome.window[u]
  BY <1>1, <1>2
<1>4. \A u \in Targets : (chrome'.window[u] = "none" <=> chrome.window[u] = "none") /\ (chrome'.window[u] = "gone" <=> chrome.window[u] = "gone")
  BY <1>3
<1> QED BY <1>1, <1>3, <1>4

LEMMA AdoptResumeKeeps ==
  ASSUME SessionInv, NEW x \in tasks, AdoptResume(x)
  PROVE  SessionInv'
<1>1. /\ conf' = conf /\ tab' = tab /\ cast' = cast /\ file' = file /\ life' = life /\ run' = run
      /\ x.what = "adopt" /\ x.at = "gated" /\ Moves(x, "running") /\ chrome.window[x.of] # "gone"
  BY DEF AdoptResume
<1>2. x.of \in Targets /\ chrome.window[x.of] # "none"
  BY <1>1, Typed DEF TaskOK, SessionInv, Gated
<1>3. /\ chrome' \in ChromeType' /\ chrome'.gate = chrome.gate /\ chrome'.mine = chrome.mine
      /\ chrome'.late = chrome.late /\ chrome'.shut = chrome.shut /\ chrome'.response = chrome.response
      /\ \A u \in Targets : u # x.of => chrome'.window[u] = chrome.window[u]
      /\ \A u \in Targets : (chrome'.window[u] = "none" <=> chrome.window[u] = "none") /\ (chrome'.window[u] = "gone" <=> chrome.window[u] = "gone")
  <2>1. chrome' = [chrome EXCEPT !.window[x.of] = "open"] /\ "open" \in WindowStates \ {"none", "gone"}
    BY DEF AdoptResume, WindowStates
  <2> QED BY <1>1, <1>2, <2>1, WindowStill
<1>4. /\ \A y \in tasks' : TaskOK(y) /\ ((y \in tasks /\ y # x) \/ (y.what = "adopt" /\ y.of = x.of /\ y.at = "running"))
      /\ \A y \in tasks : y.what # "adopt" => y \in tasks'
      /\ \A y, z \in tasks' : y.what = z.what /\ y.what \in {"adopt", "paused"} /\ y.of = z.of => y = z
  BY <1>1, AdoptMoves
<1>5. Types'
  BY <1>1, <1>3, <1>4, Typed DEF LifeType, RunType, SessionInv, Types
<1>6. Phases'
  BY <1>1, <1>4 DEF SessionInv, Phases
<1>7. Owners' /\ Debts' /\ Gated' /\ Adopting'
  <2>1. chrome.mine \subseteq Targets /\ \A i \in DOMAIN tab.popups : tab.popups[i].id \in Targets
    BY WindowsNamed
  <2>2. life.connected => x.of \in chrome.gate
    BY <1>1 DEF SessionInv, Gated
  <2>3. Seen' = Seen
    BY <1>1 DEF Seen
  <2>4. \A y \in tasks' : y.what \in {"adopt", "let"} => y.of \in Targets
    BY <1>4 DEF TaskOK
  <2>5. Owners'
    BY <1>1, <1>3, <2>1 DEF SessionInv, Owners
  <2>6. Debts'
    BY <1>1, <1>3, <2>1 DEF SessionInv, Debts
  <2>7. Gated'
    BY <1>1, <1>2, <1>3, <1>4, <2>1, <2>2, <2>4 DEF SessionInv, Gated
  <2>8. Adopting'
    BY <1>1, <1>3, <1>4, <2>3 DEF SessionInv, Adopting
  <2> QED BY <2>5, <2>6, <2>7, <2>8
<1>8. Captures' /\ CastRight'
  BY <1>1, <1>3, <1>4, CapturesBeside, CastBeside
<1> QED BY <1>5, <1>6, <1>7, <1>8 DEF SessionInv

LEMMA LetStartKeeps ==
  ASSUME SessionInv, NEW x \in tasks, LetStart(x)
  PROVE  SessionInv'
<1>1. conf' = conf /\ tab' = tab /\ cast' = cast /\ file' = file /\ life' = life /\ run' = run /\ x.what = "let" /\ Ends(x)
  BY DEF LetStart
<1>2. x.of \in Targets /\ chrome.window[x.of] # "none"
  BY <1>1, Typed DEF TaskOK, SessionInv, Gated
<1>3. /\ chrome' \in ChromeType' /\ chrome'.gate = chrome.gate /\ chrome'.mine = chrome.mine
      /\ chrome'.late = chrome.late /\ chrome'.shut = chrome.shut /\ chrome'.response = chrome.response
      /\ \A u \in Targets : u # x.of => chrome'.window[u] = chrome.window[u]
      /\ \A u \in Targets : (chrome'.window[u] = "none" <=> chrome.window[u] = "none") /\ (chrome'.window[u] = "gone" <=> chrome.window[u] = "gone")
  <2>1. chrome' = [chrome EXCEPT !.window[x.of] = IF chrome.window[x.of] = "waiting" THEN "open" ELSE chrome.window[x.of]]
    BY Typed DEF LetStart, ChromeType
  <2>2. CASE chrome.window[x.of] = "waiting"
    <3>1. chrome' = [chrome EXCEPT !.window[x.of] = "open"] /\ "open" \in WindowStates \ {"none", "gone"}
      BY <2>1, <2>2 DEF WindowStates
    <3> QED BY <1>2, <2>2, <3>1, WindowStill
  <2>3. CASE chrome.window[x.of] # "waiting"
    <3>1. chrome' = chrome
      BY <2>1, <2>3, Typed DEF ChromeType
    <3> QED BY <3>1, Typed DEF ChromeType
  <2> QED BY <2>2, <2>3
<1>4. /\ \A y \in tasks' : TaskOK(y) /\ y \in tasks
      /\ \A y \in tasks : y.what = "cast" => y \in tasks'
  BY <1>1, EndsOne, Typed
<1>5. Types'
  BY <1>1, <1>3, <1>4, Typed DEF LifeType, RunType, SessionInv, Types
<1>6. Phases'
  BY <1>1, <1>4 DEF SessionInv, Phases
<1>7. Owners' /\ Debts' /\ Gated' /\ Adopting'
  <2>1. chrome.mine \subseteq Targets /\ \A i \in DOMAIN tab.popups : tab.popups[i].id \in Targets /\ tab.popups[i].id # x.of
    BY <1>1, WindowsNamed DEF SessionInv, Gated
  <2>3. Seen' = Seen
    BY <1>1 DEF Seen
  <2>4. \A y \in tasks' : y.what \in {"adopt", "let"} => y.of \in Targets
    BY <1>4 DEF TaskOK
  <2>5. Owners'
    BY <1>1, <1>3, <2>1 DEF SessionInv, Owners
  <2>6. Debts'
    BY <1>1, <1>3, <2>1 DEF SessionInv, Debts
  <2>7. Gated'
    BY <1>1, <1>2, <1>3, <1>4, <2>1, <2>4 DEF SessionInv, Gated
  <2>8. Adopting'
    BY <1>1, <1>3, <1>4, <2>3 DEF SessionInv, Adopting
  <2> QED BY <2>5, <2>6, <2>7, <2>8
<1>8. Captures' /\ CastRight'
  BY <1>1, <1>3, <1>4, CapturesBeside, CastBeside
<1> QED BY <1>5, <1>6, <1>7, <1>8 DEF SessionInv

LEMMA AdoptEndsKeeps ==
  ASSUME SessionInv, NEW x \in tasks, AdoptJoin(x) \/ AdoptFails(x)
  PROVE  SessionInv'
<1>1. conf' = conf /\ chrome' = chrome /\ cast' = cast /\ file' = file /\ life' = life /\ run' = run /\ x.what = "adopt" /\ Ends(x)
  BY DEF AdoptJoin, AdoptFails
<1>2. x.of \in Targets /\ chrome.window[x.of] # "none" /\ x.of \notin Seen
  BY <1>1, Typed DEF TaskOK, SessionInv, Gated, Adopting
<1>3. tab.list \in Seq(Targets) /\ IsInjective(tab.list) /\ IsInjective(tab.activated)
  BY Typed DEF TabType, SessionInv, Types
<1>4. PICK list \in Seq(Targets) :
        /\ tab' = [tab EXCEPT !.list = list, !.popups = AdoptionSettled(tab.popups, {x.of}, list)]
        /\ IsInjective(list) /\ (ToSet(list) = ToSet(tab.list) \/ ToSet(list) = ToSet(tab.list) \cup {x.of})
  <2>1. CASE AdoptJoin(x)
    <3>1. tab' = [tab EXCEPT !.list = Inserted(tab.list, x.of), !.popups = AdoptionSettled(tab.popups, {x.of}, Inserted(tab.list, x.of))]
      BY <2>1 DEF AdoptJoin
    <3> QED BY <1>2, <1>3, <3>1, InsertedSet
  <2>2. CASE AdoptFails(x)
    <3>1. tab' = [tab EXCEPT !.list = tab.list, !.popups = AdoptionSettled(tab.popups, {x.of}, tab.list)]
      BY <2>2, Typed DEF AdoptFails, TabType
    <3> QED BY <1>3, <3>1
  <2> QED BY <2>1, <2>2
<1> DEFINE r == AdoptionSettled(tab.popups, {x.of}, list)
<1>5. /\ r \in Seq(PopupType) /\ DOMAIN r = DOMAIN tab.popups /\ (tab.popups = <<>> => r = <<>>)
      /\ \A i \in DOMAIN tab.popups : r[i].id = tab.popups[i].id
  BY WindowsNamed, SettledIds
<1>6. tab' = [tab EXCEPT !.list = list, !.popups = r]
  BY <1>4
<1> HIDE DEF r
<1>7. /\ tab' \in TabType /\ tab'.list = list /\ tab'.activated = tab.activated /\ tab'.owned = tab.owned
      /\ tab'.handedOver = tab.handedOver /\ tab'.popups = r /\ tab'.active = tab.active
  BY <1>5, <1>6, Typed DEF TabType
<1>8. /\ \A y \in tasks' : TaskOK(y) /\ y \in tasks /\ y # x
      /\ \A y \in tasks : y # x => y \in tasks'
  BY <1>1, EndsOne, Typed
<1>9. Types'
  BY <1>1, <1>3, <1>4, <1>7, <1>8, Typed DEF ChromeType, LifeType, RunType, Types
<1>10. Phases'
  BY <1>1, <1>5, <1>7, <1>8 DEF SessionInv, Phases
<1>11. Owners' /\ Debts'
  BY <1>1, <1>5, <1>7 DEF SessionInv, Owners, Debts
<1>12. Gated'
  BY <1>1, <1>5, <1>7, <1>8 DEF SessionInv, Gated
<1>13. Seen' \subseteq Seen \cup {x.of}
  BY <1>1, <1>4, <1>7 DEF Seen
<1>14. Adopting'
  <2>1. \A y \in tasks' : y.what = "adopt" => y.of \notin Seen \cup {x.of}
    BY <1>1, <1>8 DEF SessionInv, Adopting
  <2> QED BY <1>1, <1>2, <1>8, <1>13, <2>1 DEF SessionInv, Adopting
<1>15. ActiveSession' = ActiveSession
  <2>1. tab.active # x.of
    BY <1>2 DEF Seen
  <2> QED BY <1>4, <1>7, <2>1 DEF ActiveSession, HasTab
<1>16. Captures' /\ CastRight'
  BY <1>1, <1>8, <1>15, CapturesBeside, CastUnmoved
<1> QED BY <1>9, <1>10, <1>11, <1>12, <1>14, <1>16 DEF SessionInv

----------------------------------------------------------------------------
(* Windows open.                                                           *)

\* What a window that opens changes of the browser.
LEMMA WindowComes ==
  ASSUME SessionInv, NEW t \in Targets, NEW from \in Somewhere, WindowOpens(t, from)
  PROVE  /\ chrome' \in ChromeType' /\ chrome'.gate = chrome.gate /\ chrome'.shut = chrome.shut /\ chrome'.response = chrome.response
         /\ chrome'.mine = (IF from \in chrome.mine THEN chrome.mine \cup {t} ELSE chrome.mine)
         /\ chrome'.late = (IF life.closing THEN chrome.late \cup {t} ELSE chrome.late)
         /\ chrome'.window[t] = "waiting" /\ \A u \in Targets : u # t => chrome'.window[u] = chrome.window[u]
<1> DEFINE W == [chrome.window EXCEPT ![t] = "waiting"]
           O == [chrome.opener EXCEPT ![t] = from]
           M == IF from \in chrome.mine THEN chrome.mine \cup {t} ELSE chrome.mine
           L == IF life.closing THEN chrome.late \cup {t} ELSE chrome.late
<1>1. W \in [Targets -> WindowStates] /\ O \in [Targets -> Somewhere] /\ M \in SUBSET Targets /\ L \in SUBSET Targets
  BY Typed DEF ChromeType, WindowStates
<1>2. chrome' = [chrome EXCEPT !.window = W, !.opener = O, !.mine = M, !.late = L]
  BY Typed DEF WindowOpens, ChromeType
<1>3. W[t] = "waiting" /\ \A u \in Targets : u # t => W[u] = chrome.window[u]
  BY WindowsNamed
<1> HIDE DEF W, O, M, L
<1>4. /\ chrome' \in ChromeType' /\ chrome'.gate = chrome.gate /\ chrome'.shut = chrome.shut /\ chrome'.response = chrome.response
      /\ chrome'.mine = M /\ chrome'.late = L /\ chrome'.window = W
  BY <1>1, <1>2, Typed DEF ChromeType
<1> QED BY <1>3, <1>4 DEF M, L

\* Who owns a window that opens: the run, if the page that opened it is the run's,
\* and then it is no attached run.
LEMMA OpenerOwns ==
  ASSUME SessionInv, NEW t \in Targets, NEW from \in Somewhere, WindowOpens(t, from)
  PROVE  /\ PopupOpener(t, from) \in Somewhere
         /\ life.closing => PopupOpener(t, from) = NoTarget
         /\ PopupOpener(t, from) \in tab.owned => from \in chrome.mine /\ ~conf.attach
         /\ ~life.closing /\ ~conf.attach /\ from \in chrome.mine => PopupOpener(t, from) \in tab.owned
<1>1. life.listening /\ run.at \notin Opening \cup {"failed"} /\ (from # NoTarget => chrome.window[from] = "open")
  BY DEF WindowOpens, SessionInv, Phases
<1>2. tab.active \in Somewhere /\ tab.owned \subseteq Targets /\ NoTarget \in Somewhere
  BY Typed DEF TabType, Somewhere
<1>3. PopupOpener(t, from) \in Somewhere /\ (life.closing => PopupOpener(t, from) = NoTarget)
  BY <1>2 DEF PopupOpener
<1>4. conf.attach => tab.owned = {}
  BY <1>1 DEF SessionInv, Owners
<1>5. PopupOpener(t, from) \in tab.owned => from \in tab.owned
  <2>1. NoTarget \notin tab.owned
    BY <1>2, SessionAssumption
  <2> QED BY <1>4, <2>1 DEF PopupOpener
<1>6. ~life.closing /\ ~conf.attach /\ from \in chrome.mine => from \in tab.owned
  <2> SUFFICES ASSUME ~life.closing, ~conf.attach, from \in chrome.mine PROVE from \in tab.owned
    OBVIOUS
  <2>1. from # NoTarget
    BY WindowsNamed, SessionAssumption
  <2>2. chrome.late = {}
    BY <1>1 DEF SessionInv, Owners
  <2>3. run.at \notin {"disconnecting", "closed", "made"}
    BY <1>1 DEF SessionInv, Phases, Closing, Opening
  <2> QED BY <1>1, <2>1, <2>2, <2>3 DEF SessionInv, Debts
<1>7. ~life.closing /\ from \in tab.owned => PopupOpener(t, from) = from
  BY DEF PopupOpener
<1> QED BY <1>3, <1>4, <1>5, <1>6, <1>7 DEF SessionInv, Owners

\* What a window that opens changes of the tabs and the tasks.
LEMMA PopupBegins ==
  ASSUME SessionInv, NEW t \in Targets, NEW from \in Somewhere, WindowOpens(t, from)
  PROVE  /\ tab' \in TabType /\ tab'.list = tab.list /\ tab'.activated = tab.activated /\ tab'.handedOver = tab.handedOver
         /\ tab'.active = tab.active
         /\ tab'.owned = (IF PopupOpener(t, from) \in tab.owned THEN tab.owned \cup {t} ELSE tab.owned)
         /\ \A i \in DOMAIN tab'.popups : \/ i \in DOMAIN tab.popups /\ tab'.popups[i] = tab.popups[i]
                                          \/ tab'.popups[i].id = t /\ PopupOpener(t, from) # NoTarget
         /\ \A y \in tasks' : TaskOK(y) /\ (y \in tasks \/ (/\ y.of = t /\ y.at = "start" /\ ~life.closing
                                                            /\ y.what = IF PopupOpener(t, from) = NoTarget THEN "let" ELSE "adopt"))
         /\ \A y, z \in tasks' : y = z \/ y \in tasks \/ z \in tasks
         /\ \A y \in tasks : y \in tasks'
<1> DEFINE o == PopupOpener(t, from)
           w == IF o = NoTarget THEN "let" ELSE "adopt"
<1>1. o \in Somewhere /\ OnNewPage(t, o)
  BY OpenerOwns DEF WindowOpens
<1>2. ~KnownPopup(t)
  BY DEF WindowOpens, SessionInv, Owners, KnownPopup, Popups, ToSet
<1>3. NoTarget \notin tab.owned
  BY Typed, SessionAssumption DEF TabType
<1> HIDE DEF o
<1>4. tasks' = Spawned({Task(w, t)})
  BY <1>1, <1>2 DEF OnNewPage, BeginPopup
<1>5. TaskOK(Task(w, t)) /\ Task(w, t).what = w /\ Task(w, t).of = t /\ Task(w, t).at = "start"
  BY TaskFields
<1>6. /\ \A y \in tasks' : TaskOK(y) /\ (y \in tasks \/ (y = Task(w, t) /\ ~life.closing))
      /\ \A y \in tasks : y \in tasks'
  BY <1>4, <1>5, SpawnedOnly, Typed
<1>7. CASE o = NoTarget
  <2>1. tab' = tab
    BY <1>1, <1>7 DEF OnNewPage
  <2>2. tab' \in TabType
    BY <2>1, Typed
  <2> QED BY <1>3, <1>5, <1>6, <1>7, <2>1, <2>2 DEF o
<1>8. CASE o # NoTarget
  <2> DEFINE p == [id |-> t, opener |-> o, adopted |-> "unknown"]
             O == IF o \in tab.owned THEN tab.owned \cup {t} ELSE tab.owned
             r == Append(tab.popups, p)
  <2>1. p \in PopupType /\ p.id = t
    BY <1>1 DEF PopupType
  <2>2. tab' = [tab EXCEPT !.owned = O, !.popups = r]
    BY <1>1, <1>2, <1>8 DEF OnNewPage, BeginPopup
  <2>3. O \in SUBSET Targets
    BY Typed DEF TabType
  <2> HIDE DEF p
  <2>4. r \in Seq(PopupType) /\ \A i \in DOMAIN r : (i \in DOMAIN tab.popups /\ r[i] = tab.popups[i]) \/ r[i] = p
    BY <2>1, WindowsNamed
  <2> HIDE DEF O, r
  <2>5. /\ tab' \in TabType /\ tab'.list = tab.list /\ tab'.activated = tab.activated /\ tab'.handedOver = tab.handedOver
        /\ tab'.active = tab.active /\ tab'.owned = O /\ tab'.popups = r
    BY <2>2, <2>3, <2>4, Typed DEF TabType
  <2> QED BY <1>5, <1>6, <1>8, <2>1, <2>4, <2>5 DEF o, O
<1> QED BY <1>7, <1>8

LEMMA WindowOpensKeeps ==
  ASSUME SessionInv, NEW t \in Targets, NEW from \in Somewhere, WindowOpens(t, from)
  PROVE  SessionInv'
<1> DEFINE o == PopupOpener(t, from)
<1>1. /\ conf' = conf /\ cast' = cast /\ file' = file /\ life' = life /\ run' = run
      /\ life.listening /\ run.at \notin Opening \cup {"failed"} /\ chrome.window[t] = "none"
  BY DEF WindowOpens, SessionInv, Phases
<1>2. /\ chrome' \in ChromeType' /\ chrome'.gate = chrome.gate /\ chrome'.shut = chrome.shut /\ chrome'.response = chrome.response
      /\ chrome'.mine = (IF from \in chrome.mine THEN chrome.mine \cup {t} ELSE chrome.mine)
      /\ chrome'.late = (IF life.closing THEN chrome.late \cup {t} ELSE chrome.late)
      /\ chrome'.window[t] = "waiting" /\ \A u \in Targets : u # t => chrome'.window[u] = chrome.window[u]
  BY WindowComes
<1>3. /\ tab' \in TabType /\ tab'.list = tab.list /\ tab'.activated = tab.activated /\ tab'.handedOver = tab.handedOver
      /\ tab'.active = tab.active
      /\ tab'.owned = (IF o \in tab.owned THEN tab.owned \cup {t} ELSE tab.owned)
      /\ \A i \in DOMAIN tab'.popups : \/ i \in DOMAIN tab.popups /\ tab'.popups[i] = tab.popups[i]
                                       \/ tab'.popups[i].id = t /\ o # NoTarget
      /\ \A y \in tasks' : TaskOK(y) /\ (y \in tasks \/ (/\ y.of = t /\ y.at = "start" /\ ~life.closing
                                                         /\ y.what = IF o = NoTarget THEN "let" ELSE "adopt"))
      /\ \A y, z \in tasks' : y = z \/ y \in tasks \/ z \in tasks
      /\ \A y \in tasks : y \in tasks'
  BY PopupBegins
<1>4. /\ life.closing => o = NoTarget
      /\ o \in tab.owned => from \in chrome.mine /\ ~conf.attach
      /\ ~life.closing /\ ~conf.attach /\ from \in chrome.mine => o \in tab.owned
  BY OpenerOwns
<1> HIDE DEF o
<1>5. chrome.mine \subseteq Targets /\ \A i \in DOMAIN tab.popups : tab.popups[i].id \in Targets
  BY WindowsNamed
<1>6. t \notin chrome.mine /\ \A i \in DOMAIN tab.popups : tab.popups[i].id # t
  BY <1>1 DEF SessionInv, Owners
<1>7. \A y \in tasks : y.what \in {"adopt", "let"} => y.of # t /\ y.of \in Targets
  BY <1>1, Typed DEF SessionInv, Gated, TaskOK
<1>8. Types'
  <2>1. IsInjective(tab.list) /\ IsInjective(tab.activated)
    BY DEF SessionInv, Types
  <2> QED BY <1>1, <1>2, <1>3, <2>1, Typed DEF LifeType, RunType, Types
<1>9. Phases'
  BY <1>1, <1>3 DEF SessionInv, Phases
<1>10. Owners'
  <2>1. \A u \in chrome'.mine : chrome'.window[u] # "none"
    BY <1>2, <1>5, <1>6 DEF SessionInv, Owners
  <2>2. \A i \in DOMAIN tab'.popups : chrome'.window[tab'.popups[i].id] # "none"
    BY <1>2, <1>3, <1>5, <1>6 DEF SessionInv, Owners
  <2>3. tab'.owned \subseteq chrome'.mine
    BY <1>2, <1>3, <1>4 DEF SessionInv, Owners
  <2>4. conf.attach => tab'.owned = tab.owned
    BY <1>3, <1>4
  <2> QED BY <1>1, <1>2, <2>1, <2>2, <2>3, <2>4 DEF SessionInv, Owners, Opening
<1>11. Debts'
  <2>1. ~conf.attach => \A u \in chrome.mine : \/ chrome'.window[u] = "gone" \/ u \in chrome'.late
         \/ IF run.at \in {"disconnecting", "closed"} THEN u \in tab.handedOver ELSE u \in tab'.owned \/ (run.at = "made" /\ u = Root)
    BY <1>2, <1>3, <1>5, <1>6 DEF SessionInv, Debts
  <2>2. ~conf.attach /\ t \in chrome'.mine => \/ t \in chrome'.late
                                              \/ run.at \notin {"disconnecting", "closed"} /\ t \in tab'.owned
    <3>1. CASE life.closing
      BY <1>2, <3>1
    <3>2. CASE ~life.closing
      BY <1>2, <1>3, <1>4, <1>6, <3>2 DEF SessionInv, Phases, Closing
    <3> QED BY <3>1, <3>2
  <2>3. chrome'.mine \subseteq chrome.mine \cup {t}
    BY <1>2
  <2> QED BY <1>1, <1>2, <1>3, <2>1, <2>2, <2>3 DEF SessionInv, Debts
<1>12. Gated'
  <2>1. life.connected => \A i \in DOMAIN tab'.popups : chrome'.window[tab'.popups[i].id] = "open" => tab'.popups[i].id \in chrome'.gate
    BY <1>2, <1>3, <1>5, <1>6 DEF SessionInv, Gated
  <2>2. \A y \in tasks' : y.what \in {"adopt", "let"} => chrome'.window[y.of] # "none"
    BY <1>2, <1>3, <1>7 DEF SessionInv, Gated
  <2>3. life.connected => \A y \in tasks' : y.what = "adopt" /\ y.at \in {"gated", "running"} => y.of \in chrome'.gate
    BY <1>2, <1>3 DEF SessionInv, Gated
  <2>4. \A y \in tasks' : y.what = "let" => \A i \in DOMAIN tab'.popups : tab'.popups[i].id # y.of
    BY <1>3, <1>6, <1>7 DEF SessionInv, Gated
  <2> QED BY <1>1, <2>1, <2>2, <2>3, <2>4 DEF Gated
<1>13. Adopting'
  <2>1. Seen' = Seen /\ t \notin Seen
    BY <1>1, <1>3 DEF Seen, SessionInv, Adopting
  <2>2. \A u \in Seen : u \in Targets => chrome'.window[u] # "none"
    BY <1>2, <2>1 DEF SessionInv, Adopting
  <2>3. \A y \in tasks' : y.what = "adopt" => y.of \notin Seen
    BY <1>3, <2>1 DEF SessionInv, Adopting
  <2>4. \A y, z \in tasks' : y.what = z.what /\ y.what \in {"adopt", "paused"} /\ y.of = z.of => y = z
    BY <1>3, <1>7 DEF SessionInv, Adopting
  <2> QED BY <2>1, <2>2, <2>3, <2>4 DEF Adopting
<1>14. ActiveSession' = ActiveSession
  BY <1>3 DEF ActiveSession, HasTab
<1>15. Captures' /\ CastRight'
  <2>1. \A y \in tasks' : y \in tasks \/ y.what \notin {"gate", "paused"}
    BY <1>3
  <2> QED BY <1>1, <1>2, <1>3, <1>14, <2>1, CapturesBeside, CastUnmoved
<1> QED BY <1>8, <1>9, <1>10, <1>11, <1>12, <1>13, <1>15 DEF SessionInv

----------------------------------------------------------------------------
(* Windows close, and another is made active.                              *)

LEMMA WindowGoes ==
  ASSUME SessionInv, NEW t \in Targets, WindowCloses(t)
  PROVE  /\ chrome' \in ChromeType' /\ chrome'.gate = chrome.gate /\ chrome'.shut = chrome.shut /\ chrome'.response = chrome.response
         /\ chrome'.mine = chrome.mine /\ chrome'.late = chrome.late
         /\ chrome'.window[t] = "gone" /\ \A u \in Targets : u # t => chrome'.window[u] = chrome.window[u]
<1> DEFINE W == [chrome.window EXCEPT ![t] = "gone"]
           C == chrome.casting \ {t}
           A == chrome.alerts \ {t}
<1>1. W \in [Targets -> WindowStates] /\ C \in SUBSET Targets /\ A \in SUBSET TabSessions
  BY Typed DEF ChromeType, WindowStates
<1>2. chrome' = [chrome EXCEPT !.window = W, !.casting = C, !.alerts = A]
  BY Typed DEF WindowCloses, ChromeType
<1>3. W[t] = "gone" /\ \A u \in Targets : u # t => W[u] = chrome.window[u]
  BY WindowsNamed
<1> HIDE DEF W, C, A
<1>4. /\ chrome' \in ChromeType' /\ chrome'.gate = chrome.gate /\ chrome'.shut = chrome.shut /\ chrome'.response = chrome.response
      /\ chrome'.mine = chrome.mine /\ chrome'.late = chrome.late /\ chrome'.window = W
  BY <1>1, <1>2, Typed DEF ChromeType
<1> QED BY <1>3, <1>4

LEMMA TabGoes ==
  ASSUME SessionInv, NEW t \in Targets, WindowCloses(t)
  PROVE  /\ tab' \in TabType /\ ToSet(tab'.list) = ToSet(tab.list) \ {t} /\ IsInjective(tab'.list) /\ IsInjective(tab'.activated)
         /\ tab'.owned = tab.owned \ {t} /\ tab'.handedOver = tab.handedOver /\ tab'.popups = tab.popups /\ tab'.active = tab.active
         /\ life' \in LifeType' /\ life'.closing = life.closing /\ life'.connected = life.connected /\ life'.listening = life.listening
         /\ ToSet(life'.handover) \subseteq ToSet(tab.list) \cup {NoTarget}
         /\ t = tab.active => life'.handover # <<>>
         /\ t # tab.active => life'.handover = life.handover
<1> DEFINE left == Without(tab.list, t)
           recent == Without(tab.activated, t)
           O == tab.owned \ {t}
           s == Successor(t, left, recent)
           H == IF t = tab.active THEN <<s>> ELSE <<>>
           D == life.dialogs \ {t}
<1>1. tab.list \in Seq(Targets) /\ tab.activated \in Seq(Targets) /\ IsInjective(tab.list) /\ IsInjective(tab.activated) /\ O \in SUBSET Targets
  BY Typed DEF TabType, SessionInv, Types
<1>2. /\ left \in Seq(Targets) /\ IsInjective(left) /\ ToSet(left) = ToSet(tab.list) \ {t}
      /\ recent \in Seq(Targets) /\ IsInjective(recent)
  BY <1>1, WithoutSet
<1>3. tab' = [tab EXCEPT !.list = left, !.owned = O, !.activated = recent]
  BY DEF WindowCloses
<1>4. life' = [life EXCEPT !.dialogs = D, !.handover = H]
  BY DEF WindowCloses
<1> HIDE DEF left, recent, O
<1>5. s \in ToSet(left) \cup {NoTarget}
  BY <1>2, SuccessorAmong
<1> HIDE DEF s
<1>6. s \in Somewhere
  <2>1. ToSet(tab.list) \subseteq Targets
    BY <1>1 DEF ToSet
  <2> QED BY <1>2, <1>5, <2>1 DEF Somewhere
<1>7. H \in Seq(Somewhere) /\ (t = tab.active => H # <<>>) /\ (t # tab.active => H = <<>>) /\ ToSet(H) \subseteq {s}
  <2>1. CASE t = tab.active
    <3>1. H = <<s>>
      BY <2>1
    <3> QED BY <1>6, <2>1, <3>1 DEF ToSet
  <2>2. CASE t # tab.active
    <3>1. H = <<>>
      BY <2>2
    <3> QED BY <2>2, <3>1 DEF ToSet
  <2> QED BY <2>1, <2>2
<1>8. D \in SUBSET TabSessions /\ life.handover = <<>>
  BY Typed DEF LifeType, WindowCloses, ReaderFree
<1> HIDE DEF H, D
<1>9. /\ tab' \in TabType /\ tab'.list = left /\ tab'.activated = recent /\ tab'.owned = O /\ tab'.handedOver = tab.handedOver
      /\ tab'.popups = tab.popups /\ tab'.active = tab.active
  BY <1>1, <1>2, <1>3, Typed DEF TabType
<1>10. /\ life' \in LifeType' /\ life'.closing = life.closing /\ life'.connected = life.connected /\ life'.listening = life.listening
       /\ life'.handover = H
  BY <1>4, <1>7, <1>8, Typed DEF LifeType
<1> QED BY <1>2, <1>5, <1>7, <1>8, <1>9, <1>10 DEF O

LEMMA WindowClosesKeeps ==
  ASSUME SessionInv, NEW t \in Targets, WindowCloses(t)
  PROVE  SessionInv'
<1>1. conf' = conf /\ cast' = cast /\ file' = file /\ tasks' = tasks /\ run' = run /\ chrome.window[t] # "none"
  BY DEF WindowCloses
<1>2. /\ chrome' \in ChromeType' /\ chrome'.gate = chrome.gate /\ chrome'.shut = chrome.shut /\ chrome'.response = chrome.response
      /\ chrome'.mine = chrome.mine /\ chrome'.late = chrome.late
      /\ chrome'.window[t] = "gone" /\ \A u \in Targets : u # t => chrome'.window[u] = chrome.window[u]
  BY WindowGoes
<1>3. /\ tab' \in TabType /\ ToSet(tab'.list) = ToSet(tab.list) \ {t} /\ IsInjective(tab'.list) /\ IsInjective(tab'.activated)
      /\ tab'.owned = tab.owned \ {t} /\ tab'.handedOver = tab.handedOver /\ tab'.popups = tab.popups /\ tab'.active = tab.active
      /\ life' \in LifeType' /\ life'.closing = life.closing /\ life'.connected = life.connected /\ life'.listening = life.listening
      /\ ToSet(life'.handover) \subseteq ToSet(tab.list) \cup {NoTarget}
      /\ t = tab.active => life'.handover # <<>>
      /\ t # tab.active => life'.handover = life.handover
  BY TabGoes
<1>4. chrome.mine \subseteq Targets /\ \A i \in DOMAIN tab.popups : tab.popups[i].id \in Targets
  BY WindowsNamed
<1>5. \A y \in tasks : TaskOK(y) /\ (y.what \in {"adopt", "let"} => y.of \in Targets)
  BY Typed DEF TaskOK
<1>6. Types'
  BY <1>1, <1>2, <1>3, <1>5, Typed DEF RunType, Types
<1>7. Phases'
  BY <1>1, <1>3 DEF SessionInv, Phases
<1>8. Owners'
  BY <1>1, <1>2, <1>3, <1>4 DEF SessionInv, Owners
<1>9. Debts'
  BY <1>1, <1>2, <1>3, <1>4 DEF SessionInv, Debts
<1>10. Gated'
  BY <1>1, <1>2, <1>3, <1>4, <1>5 DEF SessionInv, Gated
<1>11. Adopting'
  <2>1. Seen' \subseteq Seen \cup {NoTarget}
    BY <1>1, <1>3 DEF Seen
  <2>2. NoTarget \notin Targets
    BY SessionAssumption
  <2> QED BY <1>1, <1>2, <1>5, <2>1, <2>2 DEF SessionInv, Adopting
<1>12. CastRight'
  <2>1. CASE t = tab.active
    BY <1>3, <2>1 DEF CastRight
  <2>2. CASE t # tab.active
    <3>1. ActiveSession' = ActiveSession
      BY <1>3, <2>2 DEF ActiveSession, HasTab
    <3> QED BY <1>1, <1>3, <2>2, <3>1, CastUnmoved
  <2> QED BY <2>1, <2>2
<1>13. Captures'
  BY <1>1, <1>2, <1>3, CapturesBeside
<1> QED BY <1>6, <1>7, <1>8, <1>9, <1>10, <1>11, <1>12, <1>13 DEF SessionInv

\* Whatever the run is on after a switch, the cast has yet to look at it.
LEMMA CastLooksAgain ==
  ASSUME SessionInv, conf' = conf, life'.closing = life.closing, run'.at \in Working \cup {"listening"} => ~life.closing,
         conf.frames /\ ~life.closing => \E y \in tasks' : y.what = "cast" /\ y.at = "start"
  PROVE  CastRight'
BY DEF CastRight

LEMMA RunGoes ==
  ASSUME SessionInv, NEW w \in Opening \cup Working \cup Closing, Go(w)
  PROVE  run' \in RunType' /\ run'.at = w /\ run'.t = run.t /\ run'.release = run.release
BY Typed DEF Go, RunType

LEMMA HandsOverKeeps ==
  ASSUME SessionInv, HandsOver
  PROVE  SessionInv'
<1> DEFINE t == life.handover[1]
<1>1. conf' = conf /\ chrome' = chrome /\ file' = file /\ run' = run /\ SetActiveTarget(tab, t)
  BY DEF HandsOver
<1>2. life.handover \in Seq(Somewhere) /\ life.handover # <<>>
  BY Typed DEF LifeType, HandsOver
<1>3. t \in Somewhere /\ t \in ToSet(life.handover)
  BY <1>2 DEF ToSet
<1> HIDE DEF t
<1>4. tab \in TabType /\ IsInjective(tab.activated) /\ IsInjective(tab.list)
  BY DEF SessionInv, Types
<1>5. /\ tab' \in TabType /\ tab'.list = tab.list /\ tab'.owned = tab.owned /\ tab'.handedOver = tab.handedOver
      /\ tab'.popups = tab.popups /\ tab'.active = t /\ IsInjective(tab'.activated)
      /\ cast' \in CastType /\ cast'.session = cast.session
      /\ \A y \in tasks' : TaskOK(y) /\ (y \in tasks \/ y.what \in {"ack", "cast"})
      /\ \A y \in tasks : y \in tasks'
      /\ conf.frames /\ ~life.closing => \E y \in tasks' : y.what = "cast" /\ y.at = "start"
  BY <1>1, <1>3, <1>4, MadeActive
<1>6. /\ life' \in LifeType' /\ life'.closing = life.closing /\ life'.connected = life.connected /\ life'.listening = life.listening
      /\ life'.handover = <<>>
  <2>1. <<>> \in Seq(Somewhere) /\ life' = [life EXCEPT !.handover = <<>>]
    BY DEF HandsOver
  <2> QED BY <2>1, Typed DEF LifeType
<1>7. Types'
  BY <1>1, <1>4, <1>5, <1>6, Typed DEF ChromeType, RunType, Types
<1>8. Phases'
  BY <1>1, <1>5, <1>6 DEF SessionInv, Phases
<1>9. Owners' /\ Debts'
  BY <1>1, <1>5, <1>6 DEF SessionInv, Owners, Debts
<1>10. Gated'
  BY <1>1, <1>5, <1>6 DEF SessionInv, Gated
<1>11. Adopting'
  <2>1. ToSet(<<>>) = {}
    BY DEF ToSet
  <2>2. Seen' \subseteq Seen
    BY <1>1, <1>3, <1>5, <1>6, <2>1 DEF Seen
  <2>3. \A y, z \in tasks' : y.what = z.what /\ y.what \in {"adopt", "paused"} /\ y.of = z.of => y = z
    BY <1>5, UniqueTasks
  <2> QED BY <1>1, <1>5, <2>2, <2>3 DEF SessionInv, Adopting
<1>12. CastRight'
  <2>1. run'.at \in Working \cup {"listening"} => ~life.closing
    BY <1>1 DEF SessionInv, Phases, Working, Closing
  <2> QED BY <1>1, <1>5, <1>6, <2>1, CastLooksAgain
<1>13. Captures'
  <2>1. \A y \in tasks' : y \in tasks \/ y.what \notin {"gate", "paused"}
    BY <1>5
  <2> QED BY <1>1, <1>6, <2>1, CapturesBeside
<1> QED BY <1>7, <1>8, <1>9, <1>10, <1>11, <1>12, <1>13 DEF SessionInv

LEMMA SwitchedKeeps ==
  ASSUME SessionInv, Switched
  PROVE  SessionInv'
<1>1. conf' = conf /\ chrome' = chrome /\ file' = file /\ life' = life /\ run.at = "switching" /\ SetActiveTarget(tab, run.t)
  BY DEF Switched, At
<1>2. run' \in RunType' /\ run'.at = "free" /\ run'.t = run.t
  BY RunGoes DEF Switched, Working
<1>3. run.t \in Somewhere /\ run.t \in Seen
  BY <1>1 DEF SessionInv, Phases, Somewhere, Seen
<1>4. tab \in TabType /\ IsInjective(tab.activated) /\ IsInjective(tab.list)
  BY DEF SessionInv, Types
<1>5. /\ tab' \in TabType /\ tab'.list = tab.list /\ tab'.owned = tab.owned /\ tab'.handedOver = tab.handedOver
      /\ tab'.popups = tab.popups /\ tab'.active = run.t /\ IsInjective(tab'.activated)
      /\ cast' \in CastType /\ cast'.session = cast.session
      /\ \A y \in tasks' : TaskOK(y) /\ (y \in tasks \/ y.what \in {"ack", "cast"})
      /\ \A y \in tasks : y \in tasks'
      /\ conf.frames /\ ~life.closing => \E y \in tasks' : y.what = "cast" /\ y.at = "start"
  BY <1>1, <1>3, <1>4, MadeActive
<1>6. Types'
  BY <1>1, <1>2, <1>4, <1>5, Typed DEF ChromeType, LifeType, Types
<1>7. Phases'
  BY <1>1, <1>2, <1>5 DEF SessionInv, Phases, Closing, Opening
<1>8. Owners' /\ Debts'
  BY <1>1, <1>2, <1>5 DEF SessionInv, Owners, Debts
<1>9. Gated'
  BY <1>1, <1>5 DEF SessionInv, Gated
<1>10. Adopting'
  <2>1. Seen' \subseteq Seen
    BY <1>1, <1>2, <1>3, <1>5 DEF Seen
  <2>2. \A y, z \in tasks' : y.what = z.what /\ y.what \in {"adopt", "paused"} /\ y.of = z.of => y = z
    BY <1>5, UniqueTasks
  <2> QED BY <1>1, <1>5, <2>1, <2>2 DEF SessionInv, Adopting
<1>11. CastRight'
  <2>1. ~life.closing
    BY <1>1 DEF SessionInv, Phases, Closing
  <2> QED BY <1>1, <1>5, <2>1, CastLooksAgain
<1>12. Captures'
  <2>1. \A y \in tasks' : y \in tasks \/ y.what \notin {"gate", "paused"}
    BY <1>5
  <2> QED BY <1>1, <2>1, CapturesBeside
<1> QED BY <1>6, <1>7, <1>8, <1>9, <1>10, <1>11, <1>12 DEF SessionInv

----------------------------------------------------------------------------
(* The run opens.                                                          *)

\* Until the run listens, no window is adopted and the session is not closing.
LEMMA OpeningIsEarly ==
  ASSUME SessionInv, run.at \in Opening \cup {"failed"}
  PROVE  ~life.listening /\ ~life.closing /\ tab.popups = <<>> /\ DOMAIN tab.popups = {} /\ \A x \in tasks : x.what # "adopt"
<1>1. run.at \notin Closing
  BY DEF Opening, Closing
<1>2. ~life.listening /\ ~life.closing /\ tab.popups = <<>> /\ \A x \in tasks : x.what # "adopt"
  BY <1>1, Typed DEF SessionInv, Phases, LifeType
<1>3. DOMAIN <<>> = {}
  OBVIOUS
<1> QED BY <1>2, <1>3

LEMMA JoinsTabKeeps ==
  ASSUME SessionInv, JoinsTab
  PROVE  SessionInv'
<1> DEFINE L == Inserted(tab.list, run.t)
           O == IF conf.attach THEN tab.owned \ {run.t} ELSE tab.owned
           T == [tab EXCEPT !.list = L, !.owned = O]
<1>1. conf' = conf /\ file' = file /\ life' = life /\ run.at = "attaching" /\ PrepareGate(run.t) /\ SetActiveTarget(T, run.t)
  BY DEF JoinsTab, At
<1>2. run' \in RunType' /\ run'.at = "listening" /\ run'.t = run.t
  BY RunGoes DEF JoinsTab, Opening
<1>3. run.t \in Targets /\ run.t \in Somewhere /\ run.t \in Seen
  BY <1>1 DEF SessionInv, Phases, Somewhere, Seen
<1>4. tab \in TabType /\ IsInjective(tab.activated) /\ IsInjective(tab.list) /\ tab.list \in Seq(Targets) /\ O \in SUBSET Targets
  BY DEF SessionInv, Types, TabType
<1>5. L \in Seq(Targets) /\ IsInjective(L) /\ ToSet(L) = ToSet(tab.list) \cup {run.t}
  BY <1>3, <1>4, InsertedSet
<1> HIDE DEF L, O
<1>6. /\ T \in TabType /\ T.list = L /\ T.owned = O /\ T.activated = tab.activated /\ T.popups = tab.popups
      /\ T.handedOver = tab.handedOver
  BY <1>4, <1>5 DEF TabType
<1> HIDE DEF T
<1>7. /\ tab' \in TabType /\ tab'.list = L /\ tab'.owned = O /\ tab'.handedOver = tab.handedOver
      /\ tab'.popups = tab.popups /\ tab'.active = run.t /\ IsInjective(tab'.activated)
      /\ cast' \in CastType /\ cast'.session = cast.session
      /\ \A y \in tasks' : TaskOK(y) /\ (y \in tasks \/ y.what \in {"ack", "cast"})
      /\ \A y \in tasks : y \in tasks'
      /\ conf.frames /\ ~life.closing => \E y \in tasks' : y.what = "cast" /\ y.at = "start"
  <2>1. IsInjective(T.activated)
    BY <1>4, <1>6
  <2> QED BY <1>1, <1>3, <1>6, <2>1, MadeActive
<1>8. /\ chrome' \in ChromeType' /\ chrome'.window = chrome.window /\ chrome'.mine = chrome.mine
      /\ chrome'.late = chrome.late /\ chrome'.shut = chrome.shut /\ chrome'.response = chrome.response
  <2>1. PICK g \in SUBSET Targets : chrome' = [chrome EXCEPT !.gate = g]
    BY <1>1, <1>3, Typed DEF PrepareGate, ChromeType
  <2> QED BY <2>1, Typed DEF ChromeType
<1>9. ~life.listening /\ ~life.closing /\ tab.popups = <<>> /\ DOMAIN tab.popups = {} /\ \A x \in tasks : x.what # "adopt"
  BY <1>1, OpeningIsEarly DEF Opening
<1>10. Types'
  BY <1>1, <1>2, <1>5, <1>7, <1>8, Typed DEF LifeType, Types
<1>11. Phases'
  BY <1>1, <1>2, <1>7, <1>9 DEF SessionInv, Phases, Closing
<1>12. Owners'
  BY <1>1, <1>2, <1>7, <1>8, <1>9 DEF SessionInv, Owners, O
<1>13. Debts'
  BY <1>1, <1>2, <1>7, <1>8, <1>9 DEF SessionInv, Debts, O
<1>14. Gated'
  BY <1>1, <1>7, <1>8, <1>9 DEF SessionInv, Gated
<1>15. Adopting'
  <2>1. Seen' \subseteq Seen
    BY <1>1, <1>2, <1>3, <1>5, <1>7 DEF Seen
  <2>2. \A y, z \in tasks' : y.what = z.what /\ y.what \in {"adopt", "paused"} /\ y.of = z.of => y = z
    BY <1>7, UniqueTasks
  <2> QED BY <1>1, <1>7, <1>8, <1>9, <2>1, <2>2 DEF SessionInv, Adopting
<1>16. CastRight'
  BY <1>1, <1>7, <1>9, CastLooksAgain
<1>17. Captures'
  <2>1. \A y \in tasks' : y \in tasks \/ y.what \notin {"gate", "paused"}
    BY <1>7
  <2> QED BY <1>1, <1>8, <2>1, CapturesBeside
<1> QED BY <1>10, <1>11, <1>12, <1>13, <1>14, <1>15, <1>16, <1>17 DEF SessionInv

LEMMA OpenConnectsKeeps ==
  ASSUME SessionInv, OpenConnects
  PROVE  SessionInv'
<1>1. conf' = conf /\ chrome' = chrome /\ tab' = tab /\ cast' = cast /\ file' = file /\ tasks' = tasks /\ run.at = "unopened"
  BY DEF OpenConnects, At
<1>2. run' \in RunType' /\ run'.at \in {"listing", "making"} /\ run'.t = run.t
  <2>1. PICK w \in {"listing", "making"} : Go(w)
    BY DEF OpenConnects
  <2>2. w \in Opening
    BY DEF Opening
  <2> QED BY <2>1, <2>2, RunGoes
<1>3. ~life.listening /\ ~life.closing /\ tab.popups = <<>> /\ DOMAIN tab.popups = {} /\ \A x \in tasks : x.what # "adopt"
  BY <1>1, OpeningIsEarly DEF Opening
<1>4. life' \in LifeType' /\ ~life'.closing /\ life'.listening = life.listening /\ life'.handover = life.handover
  <2>1. PICK b, c \in BOOLEAN : life' = [life EXCEPT !.connected = b, !.closing = c] /\ ~c
    BY DEF OpenConnects
  <2> QED BY <2>1, Typed DEF LifeType
<1>5. Types'
  BY <1>1, <1>2, <1>4, Typed DEF SessionInv, Types, ChromeType
<1>6. Phases'
  BY <1>1, <1>2, <1>3, <1>4 DEF SessionInv, Phases, Closing
<1>7. Owners' /\ Debts'
  BY <1>1, <1>2, <1>3, <1>4 DEF SessionInv, Owners, Debts
<1>8. Gated'
  BY <1>1, <1>3 DEF SessionInv, Gated
<1>9. Adopting'
  <2>1. Seen' = Seen
    BY <1>1, <1>2, <1>4 DEF Seen
  <2> QED BY <1>1, <2>1 DEF SessionInv, Adopting
<1>10. CastRight'
  BY <1>2 DEF CastRight, Working
<1>11. Captures'
  BY <1>1, <1>3, <1>4 DEF SessionInv, Captures
<1> QED BY <1>5, <1>6, <1>7, <1>8, <1>9, <1>10, <1>11 DEF SessionInv

\* A window the run attaches to is open.
LEMMA ChoiceIsOpen ==
  ASSUME NEW t \in AttachChoice
  PROVE  t \in Targets /\ chrome.window[t] = "open"
BY DEF AttachChoice, OfKind, Open

LEMMA AttachListsKeeps ==
  ASSUME SessionInv, AttachLists
  PROVE  SessionInv'
<1>1. conf' = conf /\ chrome' = chrome /\ cast' = cast /\ file' = file /\ life' = life /\ tasks' = tasks /\ run.at = "listing"
  BY DEF AttachLists, At
<1>2. /\ run' \in RunType' /\ run'.at \in {"attaching", "making", "failed"}
      /\ run'.at = "attaching" => run'.t \in Targets /\ chrome.window[run'.t] = "open"
  <2>1. CASE \E t \in AttachChoice : run' = [run EXCEPT !.at = "attaching", !.t = t]
    <3>1. PICK t \in AttachChoice : run' = [run EXCEPT !.at = "attaching", !.t = t]
      BY <2>1
    <3>2. run' \in RunType' /\ run'.at = "attaching" /\ run'.t = t
      BY <3>1, Typed DEF RunType, Opening
    <3> QED BY <3>2, ChoiceIsOpen
  <2>2. CASE Go("making") \/ Go("failed")
    <3>1. PICK w \in {"making", "failed"} : Go(w)
      BY <2>2
    <3>2. w \in Opening \cup Working
      BY DEF Opening, Working
    <3> QED BY <3>1, <3>2, RunGoes
  <2> QED BY <2>1, <2>2 DEF AttachLists
<1>3. ~life.listening /\ ~life.closing /\ tab.popups = <<>> /\ DOMAIN tab.popups = {} /\ \A x \in tasks : x.what # "adopt"
  BY <1>1, OpeningIsEarly DEF Opening
<1>4. /\ tab' \in TabType /\ tab'.list = tab.list /\ tab'.activated = tab.activated /\ tab'.owned = tab.owned
      /\ tab'.handedOver = tab.handedOver /\ tab'.popups = tab.popups /\ tab'.active = tab.active
  <2>1. PICK b \in SUBSET Targets : tab' = [tab EXCEPT !.openBefore = b]
    BY DEF AttachLists
  <2> QED BY <2>1, Typed DEF TabType
<1>5. Types'
  BY <1>1, <1>2, <1>4, Typed DEF SessionInv, Types, ChromeType, LifeType
<1>6. Phases'
  BY <1>1, <1>2, <1>3, <1>4 DEF SessionInv, Phases, Closing
<1>7. Owners'
  BY <1>1, <1>2, <1>3, <1>4 DEF SessionInv, Owners
<1>8. Debts'
  BY <1>1, <1>2, <1>3, <1>4 DEF SessionInv, Debts
<1>9. Gated'
  BY <1>1, <1>3, <1>4 DEF SessionInv, Gated
<1>10. Adopting'
  <2>1. \A t \in Seen' : t \in Seen \/ chrome.window[t] = "open"
    BY <1>1, <1>2, <1>4 DEF Seen
  <2> QED BY <1>1, <1>3, <2>1 DEF SessionInv, Adopting
<1>11. CastRight'
  BY <1>2 DEF CastRight, Working
<1>12. Captures'
  BY <1>1, CapturesBeside
<1> QED BY <1>5, <1>6, <1>7, <1>8, <1>9, <1>10, <1>11, <1>12 DEF SessionInv

LEMMA MakesTabKeeps ==
  ASSUME SessionInv, MakesTab
  PROVE  SessionInv'
<1>1. conf' = conf /\ tab' = tab /\ cast' = cast /\ file' = file /\ life' = life /\ tasks' = tasks /\ run.at = "making"
  BY DEF MakesTab, At
<1>2. run' \in RunType' /\ run'.at = "made" /\ run'.t = run.t
  BY RunGoes DEF MakesTab, Opening
<1>3. ~life.listening /\ ~life.closing /\ tab.popups = <<>> /\ DOMAIN tab.popups = {} /\ \A x \in tasks : x.what # "adopt"
  BY <1>1, OpeningIsEarly DEF Opening
<1>4. /\ chrome' \in ChromeType' /\ chrome'.gate = chrome.gate /\ chrome'.late = chrome.late /\ chrome'.shut = chrome.shut
      /\ chrome'.response = chrome.response /\ chrome'.mine = chrome.mine \cup {Root}
      /\ chrome'.window[Root] = "open" /\ \A u \in Targets : u # Root => chrome'.window[u] = chrome.window[u]
  <2> DEFINE W == [chrome.window EXCEPT ![Root] = "open"]
             M == chrome.mine \cup {Root}
  <2>1. W \in [Targets -> WindowStates] /\ M \in SUBSET Targets
    BY SessionAssumption, Typed DEF ChromeType, WindowStates
  <2>2. chrome' = [chrome EXCEPT !.window = W, !.mine = M]
    BY Typed DEF MakesTab, ChromeType
  <2>3. W[Root] = "open" /\ \A u \in Targets : u # Root => W[u] = chrome.window[u]
    BY SessionAssumption, WindowsNamed
  <2> HIDE DEF W, M
  <2>4. /\ chrome' \in ChromeType' /\ chrome'.gate = chrome.gate /\ chrome'.late = chrome.late /\ chrome'.shut = chrome.shut
        /\ chrome'.response = chrome.response /\ chrome'.mine = M /\ chrome'.window = W
    BY <2>1, <2>2, Typed DEF ChromeType
  <2> QED BY <2>3, <2>4 DEF M
<1>5. chrome.mine \subseteq Targets /\ Root \in Targets /\ \A y \in tasks : y.what = "let" => y.of \in Targets
  BY SessionAssumption, WindowsNamed, Typed DEF TaskOK
<1>6. Types'
  BY <1>1, <1>2, <1>4, Typed DEF SessionInv, Types, LifeType
<1>7. Phases'
  BY <1>1, <1>2, <1>3 DEF SessionInv, Phases, Closing
<1>8. Owners'
  BY <1>1, <1>2, <1>3, <1>4, <1>5 DEF SessionInv, Owners
<1>9. Debts'
  BY <1>1, <1>2, <1>3, <1>4, <1>5 DEF SessionInv, Debts
<1>10. Gated'
  BY <1>1, <1>3, <1>4, <1>5 DEF SessionInv, Gated
<1>11. Adopting'
  <2>1. Seen' = Seen
    BY <1>1, <1>2 DEF Seen
  <2> QED BY <1>1, <1>3, <1>4, <2>1 DEF SessionInv, Adopting
<1>12. CastRight'
  BY <1>2 DEF CastRight, Working
<1>13. Captures'
  BY <1>1, <1>4, CapturesBeside
<1> QED BY <1>6, <1>7, <1>8, <1>9, <1>10, <1>11, <1>12, <1>13 DEF SessionInv

LEMMA LearnsTabKeeps ==
  ASSUME SessionInv, LearnsTab
  PROVE  SessionInv'
<1>1. conf' = conf /\ chrome' = chrome /\ cast' = cast /\ file' = file /\ life' = life /\ tasks' = tasks /\ run.at = "made"
  BY DEF LearnsTab, At
<1>2. run' \in RunType' /\ run'.at = "attaching" /\ run'.t = Root
  BY Typed DEF LearnsTab, RunType, Opening
<1>3. ~life.listening /\ ~life.closing /\ tab.popups = <<>> /\ DOMAIN tab.popups = {} /\ \A x \in tasks : x.what # "adopt"
  BY <1>1, OpeningIsEarly DEF Opening
<1>4. Root \in chrome.mine /\ Root \in Targets /\ tab.owned = {} /\ chrome.window[Root] # "none"
  BY <1>1, SessionAssumption DEF SessionInv, Owners
<1>5. /\ tab' \in TabType /\ tab'.list = tab.list /\ tab'.activated = tab.activated /\ tab'.owned = {Root}
      /\ tab'.handedOver = tab.handedOver /\ tab'.popups = tab.popups /\ tab'.active = tab.active
  <2> DEFINE O == tab.owned \cup {Root}
  <2>1. O \in SUBSET Targets /\ tab' = [tab EXCEPT !.owned = O] /\ O = {Root}
    BY <1>4 DEF LearnsTab
  <2> HIDE DEF O
  <2> QED BY <2>1, Typed DEF TabType
<1>6. Types'
  BY <1>1, <1>2, <1>5, Typed DEF SessionInv, Types, ChromeType, LifeType
<1>7. Phases'
  BY <1>1, <1>2, <1>3, <1>4, <1>5 DEF SessionInv, Phases, Closing
<1>8. Owners'
  BY <1>1, <1>2, <1>3, <1>4, <1>5 DEF SessionInv, Owners
<1>9. Debts'
  BY <1>1, <1>2, <1>3, <1>4, <1>5 DEF SessionInv, Debts
<1>10. Gated'
  BY <1>1, <1>3, <1>5 DEF SessionInv, Gated
<1>11. Adopting'
  <2>1. Seen' \subseteq Seen \cup {Root}
    BY <1>1, <1>2, <1>5 DEF Seen
  <2> QED BY <1>1, <1>3, <1>4, <2>1 DEF SessionInv, Adopting
<1>12. CastRight'
  BY <1>2 DEF CastRight, Working
<1>13. Captures'
  BY <1>1, CapturesBeside
<1> QED BY <1>6, <1>7, <1>8, <1>9, <1>10, <1>11, <1>12, <1>13 DEF SessionInv

LEMMA ListensKeeps ==
  ASSUME SessionInv, Listens
  PROVE  SessionInv'
<1>1. conf' = conf /\ chrome' = chrome /\ tab' = tab /\ cast' = cast /\ file' = file /\ tasks' = tasks /\ run.at = "listening"
  BY DEF Listens, At
<1>2. run' \in RunType' /\ run'.at = "free" /\ run'.t = run.t
  BY RunGoes DEF Listens, Working
<1>3. /\ life' \in LifeType' /\ life'.closing = life.closing /\ life'.connected = life.connected /\ life'.listening
      /\ life'.handover = life.handover
  <2>1. PICK b \in BOOLEAN : life' = [life EXCEPT !.listening = b] /\ b
    BY DEF Listens
  <2> QED BY <2>1, Typed DEF LifeType
<1>4. Types'
  BY <1>1, <1>2, <1>3, Typed DEF SessionInv, Types, ChromeType
<1>5. Phases'
  BY <1>1, <1>2, <1>3 DEF SessionInv, Phases, Closing, Opening
<1>6. Owners' /\ Debts'
  BY <1>1, <1>2, <1>3 DEF SessionInv, Owners, Debts
<1>7. Gated'
  BY <1>1, <1>3 DEF SessionInv, Gated
<1>8. Adopting'
  <2>1. Seen' = Seen
    BY <1>1, <1>2, <1>3 DEF Seen
  <2> QED BY <1>1, <2>1 DEF SessionInv, Adopting
<1>9. Captures' /\ CastRight'
  BY <1>1, <1>3, CapturesBeside, CastBeside
<1> QED BY <1>4, <1>5, <1>6, <1>7, <1>8, <1>9 DEF SessionInv

LEMMA HandOverKeeps ==
  ASSUME SessionInv, HandOver
  PROVE  SessionInv'
<1>1. conf' = conf /\ chrome' = chrome /\ cast' = cast /\ file' = file /\ life' = life /\ tasks' = tasks /\ run.at = "free"
  BY DEF HandOver, Move, At
<1>2. run' \in RunType' /\ run'.at = "free" /\ run'.t = run.t
  <2> DEFINE n == run.moves + 1
  <2>1. n \in Nat /\ run' = [run EXCEPT !.at = "free", !.moves = n]
    BY Typed DEF HandOver, Move, RunType
  <2> HIDE DEF n
  <2> QED BY <2>1, Typed DEF RunType, Working
<1>3. /\ tab' \in TabType /\ tab'.list = tab.list /\ tab'.activated = tab.activated /\ tab'.owned = tab.owned
      /\ tab'.popups = tab.popups /\ tab'.active = tab.active
  <2>1. tab.handedOver \cup {tab.active} \in SUBSET Somewhere
    BY Typed DEF TabType
  <2>2. PICK h \in SUBSET Somewhere : tab' = [tab EXCEPT !.handedOver = h]
    BY <2>1 DEF HandOver
  <2> QED BY <2>2, Typed DEF TabType
<1>4. Types'
  BY <1>1, <1>2, <1>3, Typed DEF SessionInv, Types, ChromeType, LifeType
<1>5. Phases'
  BY <1>1, <1>2, <1>3 DEF SessionInv, Phases
<1>6. Owners'
  BY <1>1, <1>2, <1>3 DEF SessionInv, Owners
<1>7. Debts'
  BY <1>1, <1>2, <1>3 DEF SessionInv, Debts
<1>8. Gated'
  BY <1>1, <1>3 DEF SessionInv, Gated
<1>9. Adopting'
  <2>1. Seen' = Seen
    BY <1>1, <1>2, <1>3 DEF Seen
  <2> QED BY <1>1, <2>1 DEF SessionInv, Adopting
<1>10. ActiveSession' = ActiveSession
  BY <1>3 DEF ActiveSession, HasTab
<1>11. Captures' /\ CastRight'
  BY <1>1, <1>2, <1>10, CapturesBeside, CastUnmoved
<1> QED BY <1>4, <1>5, <1>6, <1>7, <1>8, <1>9, <1>11 DEF SessionInv

LEMMA OpenFailsKeeps ==
  ASSUME SessionInv, OpenFails
  PROVE  SessionInv'
<1>1. /\ conf' = conf /\ tab' = tab /\ cast' = cast /\ file' = file /\ life' = life /\ tasks' = tasks
      /\ run.at \in {"listing", "making", "made", "attaching", "listening"}
  BY DEF OpenFails
<1>2. run' \in RunType' /\ run'.at = "failed" /\ run'.t = run.t
  BY RunGoes DEF OpenFails, Working
<1>3. ~life.listening /\ ~life.closing
  BY <1>1, OpeningIsEarly DEF Opening
<1>4. /\ chrome' \in ChromeType' /\ chrome'.window = chrome.window /\ chrome'.gate = chrome.gate /\ chrome'.mine = chrome.mine
      /\ chrome'.shut = chrome.shut /\ chrome'.response = chrome.response
      /\ chrome.late \subseteq chrome'.late /\ (run.at = "made" => Root \in chrome'.late)
  <2>1. CASE run.at # "made"
    <3>1. chrome' = chrome
      BY <2>1 DEF OpenFails, At
    <3> QED BY <2>1, <3>1, Typed DEF ChromeType
  <2>2. CASE run.at = "made"
    <3> DEFINE L == chrome.late \cup {Root}
    <3>1. L \in SUBSET Targets /\ chrome' = [chrome EXCEPT !.late = L] /\ chrome.late \subseteq L /\ Root \in L
      BY <2>2, SessionAssumption, Typed DEF OpenFails, At, ChromeType
    <3> HIDE DEF L
    <3>2. /\ chrome' \in ChromeType' /\ chrome'.window = chrome.window /\ chrome'.gate = chrome.gate /\ chrome'.mine = chrome.mine
          /\ chrome'.shut = chrome.shut /\ chrome'.response = chrome.response /\ chrome'.late = L
      BY <3>1, Typed DEF ChromeType
    <3> QED BY <3>1, <3>2
  <2> QED BY <2>1, <2>2
<1>5. Types'
  BY <1>1, <1>2, <1>4, Typed DEF SessionInv, Types, LifeType
<1>6. Phases'
  BY <1>1, <1>2, <1>3 DEF SessionInv, Phases, Closing
<1>7. Owners'
  BY <1>1, <1>2, <1>3, <1>4 DEF SessionInv, Owners
<1>8. Debts'
  BY <1>1, <1>2, <1>3, <1>4 DEF SessionInv, Debts
<1>9. Gated'
  BY <1>1, <1>4 DEF SessionInv, Gated
<1>10. Adopting'
  <2>1. Seen' \subseteq Seen
    BY <1>1, <1>2 DEF Seen
  <2> QED BY <1>1, <1>4, <2>1 DEF SessionInv, Adopting
<1>11. CastRight'
  BY <1>2 DEF CastRight
<1>12. Captures'
  BY <1>1, <1>4, CapturesBeside
<1> QED BY <1>5, <1>6, <1>7, <1>8, <1>9, <1>10, <1>11, <1>12 DEF SessionInv

----------------------------------------------------------------------------
(* The run closes.                                                         *)

LEMMA CloseBeginsKeeps ==
  ASSUME SessionInv, CloseBegins
  PROVE  SessionInv'
<1>1. conf' = conf /\ chrome' = chrome /\ tab' = tab /\ cast' = cast /\ tasks' = tasks /\ run.at \in Working
  BY DEF CloseBegins
<1>2. run' \in RunType' /\ run'.at = "aborting" /\ run'.t = run.t
  <2>1. file.paused \in SUBSET Responses
    BY Typed DEF FileType
  <2> QED BY <2>1, Typed DEF CloseBegins, RunType, Closing
<1>3. /\ life' \in LifeType' /\ life'.closing /\ life'.connected = life.connected /\ life'.listening = life.listening
      /\ life'.handover = life.handover
  <2>1. PICK b \in BOOLEAN : life' = [life EXCEPT !.closing = b] /\ b
    BY DEF CloseBegins
  <2> QED BY <2>1, Typed DEF LifeType
<1>4. file' \in FileType /\ file'.settled = file.settled /\ file'.kept = file.kept /\ file'.refused = file.refused
  <2>1. PICK none \in SUBSET Responses : file' = [file EXCEPT !.paused = none]
    BY DEF CloseBegins
  <2> QED BY <2>1, Typed DEF FileType
<1>5. Types'
  BY <1>1, <1>2, <1>3, <1>4, Typed DEF SessionInv, Types, ChromeType
<1>6. Phases'
  BY <1>1, <1>2, <1>3 DEF SessionInv, Phases, Closing, Opening
<1>7. run.at \notin {"made", "disconnecting", "closed"}
  BY <1>1 DEF Working
<1>8. Owners'
  BY <1>1, <1>2, <1>3 DEF SessionInv, Owners
<1>9. Debts'
  BY <1>1, <1>2, <1>3, <1>7 DEF SessionInv, Debts
<1>10. Gated'
  BY <1>1, <1>3 DEF SessionInv, Gated
<1>11. Adopting'
  <2>1. Seen' \subseteq Seen
    BY <1>1, <1>2, <1>3 DEF Seen
  <2> QED BY <1>1, <2>1 DEF SessionInv, Adopting
<1>12. CastRight'
  BY <1>2 DEF CastRight, Working
<1>13. Captures'
  BY <1>3, <1>4 DEF SessionInv, Captures
<1> QED BY <1>5, <1>6, <1>8, <1>9, <1>10, <1>11, <1>12, <1>13 DEF SessionInv

LEMMA CloseAbortsKeeps ==
  ASSUME SessionInv, CloseAborts
  PROVE  SessionInv'
<1>1. conf' = conf /\ chrome' = chrome /\ file' = file /\ life' = life /\ tasks' = {} /\ run.at = "aborting"
  BY DEF CloseAborts, At
<1>2. run' \in RunType' /\ run'.at = "releasing" /\ run'.t = run.t
  BY RunGoes DEF CloseAborts, Closing
<1>3. PICK ended : tab' = [tab EXCEPT !.popups = AdoptionSettled(tab.popups, ended, tab.list)]
  BY DEF CloseAborts
<1> DEFINE r == AdoptionSettled(tab.popups, ended, tab.list)
<1>4. /\ r \in Seq(PopupType) /\ DOMAIN r = DOMAIN tab.popups /\ (tab.popups = <<>> => r = <<>>)
      /\ \A i \in DOMAIN tab.popups : r[i].id = tab.popups[i].id
  BY WindowsNamed, SettledIds
<1> HIDE DEF r
<1>5. /\ tab' \in TabType /\ tab'.list = tab.list /\ tab'.activated = tab.activated /\ tab'.owned = tab.owned
      /\ tab'.handedOver = tab.handedOver /\ tab'.popups = r /\ tab'.active = tab.active
  <2>1. tab' = [tab EXCEPT !.popups = r]
    BY <1>3 DEF r
  <2> QED BY <1>4, <2>1, Typed DEF TabType
<1>6. cast' \in CastType
  <2>1. NoFrame \in FrameType
    BY DEF NoFrame, FrameType, Somewhere
  <2>2. PICK b \in BOOLEAN : cast' = [cast EXCEPT !.pending = NoFrame, !.scheduled = b, !.task = "none", !.held = NoFrame]
    BY DEF CloseAborts
  <2> QED BY <2>1, <2>2, Typed DEF CastType
<1>7. life.closing
  BY <1>1 DEF SessionInv, Phases, Closing
<1>8. Types'
  BY <1>1, <1>2, <1>5, <1>6, Typed DEF SessionInv, Types, ChromeType, LifeType
<1>9. Phases'
  BY <1>1, <1>2, <1>4, <1>5, <1>7 DEF SessionInv, Phases, Closing, Opening
<1>10. Owners'
  BY <1>1, <1>2, <1>4, <1>5, <1>7 DEF SessionInv, Owners
<1>11. Debts'
  BY <1>1, <1>2, <1>5 DEF SessionInv, Debts
<1>12. Gated'
  BY <1>1, <1>4, <1>5 DEF SessionInv, Gated
<1>13. Adopting'
  <2>1. Seen' \subseteq Seen
    BY <1>1, <1>2, <1>5 DEF Seen
  <2> QED BY <1>1, <2>1 DEF SessionInv, Adopting
<1>14. CastRight'
  BY <1>2 DEF CastRight, Working
<1>15. Captures'
  BY <1>1, <1>7 DEF SessionInv, Captures
<1> QED BY <1>8, <1>9, <1>10, <1>11, <1>12, <1>13, <1>14, <1>15 DEF SessionInv

LEMMA ReleasedType ==
  ASSUME SessionInv, NEW these
  PROVE  Released(these) \in [Responses -> ResponseType]
<1>1. chrome.response \in [Responses -> ResponseType]
  BY Typed DEF ChromeType, ResponseType
<1>2. \A r \in Responses : [chrome.response[r] EXCEPT !.st = "released"] \in ResponseType
  <2> SUFFICES ASSUME NEW r \in Responses PROVE [chrome.response[r] EXCEPT !.st = "released"] \in ResponseType
    OBVIOUS
  <2>1. chrome.response[r] \in ResponseType
    BY <1>1
  <2> QED BY <2>1 DEF ResponseType
<1> QED BY <1>1, <1>2 DEF Released

LEMMA CloseReleasesKeeps ==
  ASSUME SessionInv, CloseReleases
  PROVE  SessionInv'
<1>1. conf' = conf /\ tab' = tab /\ file' = file /\ life' = life /\ tasks' = tasks /\ run.at = "releasing"
  BY DEF CloseReleases, At
<1>2. run' \in RunType' /\ run'.at = "shutting" /\ run'.t = run.t
  BY RunGoes DEF CloseReleases, Closing
<1>3. /\ chrome' \in ChromeType' /\ chrome'.window = chrome.window /\ chrome'.gate = chrome.gate /\ chrome'.mine = chrome.mine
      /\ chrome'.late = chrome.late /\ chrome'.shut = chrome.shut
  <2>1. chrome.casting \ {cast.session} \in SUBSET Targets /\ Released(run.release) \in [Responses -> ResponseType]
    BY Typed, ReleasedType DEF ChromeType
  <2>2. PICK R \in [Responses -> ResponseType], c \in SUBSET Targets : chrome' = [chrome EXCEPT !.response = R, !.casting = c]
    BY <2>1 DEF CloseReleases
  <2> QED BY <2>2, Typed DEF ChromeType, ResponseType
<1>4. cast' \in CastType
  <2>1. NoTarget \in Somewhere
    BY DEF Somewhere
  <2> QED BY <2>1, Typed DEF CloseReleases, CastType
<1>5. life.closing
  BY <1>1 DEF SessionInv, Phases, Closing
<1>6. Types'
  BY <1>1, <1>2, <1>3, <1>4, Typed DEF SessionInv, Types, LifeType
<1>7. Phases'
  BY <1>1, <1>2, <1>5 DEF SessionInv, Phases, Closing, Opening
<1>8. Owners'
  BY <1>1, <1>2, <1>3, <1>5 DEF SessionInv, Owners
<1>9. Debts'
  BY <1>1, <1>2, <1>3 DEF SessionInv, Debts
<1>10. Gated'
  BY <1>1, <1>3 DEF SessionInv, Gated
<1>11. Adopting'
  <2>1. Seen' \subseteq Seen
    BY <1>1, <1>2 DEF Seen
  <2> QED BY <1>1, <1>3, <2>1 DEF SessionInv, Adopting
<1>12. CastRight'
  BY <1>2 DEF CastRight, Working
<1>13. Captures'
  BY <1>1, <1>5 DEF SessionInv, Captures
<1> QED BY <1>6, <1>7, <1>8, <1>9, <1>10, <1>11, <1>12, <1>13 DEF SessionInv

LEMMA CloseShutsKeeps ==
  ASSUME SessionInv, CloseShuts
  PROVE  SessionInv'
<1> DEFINE W == [t \in Targets |-> IF t \in ToClose /\ chrome.window[t] # "none" THEN "gone" ELSE chrome.window[t]]
<1>1. conf' = conf /\ tab' = tab /\ cast' = cast /\ file' = file /\ life' = life /\ tasks' = tasks /\ run.at = "shutting"
  BY DEF CloseShuts, At
<1>2. run' \in RunType' /\ run'.at = "disconnecting" /\ run'.t = run.t
  BY RunGoes DEF CloseShuts, Closing
<1>3. ToClose \in SUBSET Targets
  BY Typed DEF ToClose, TabType
<1>4. W \in [Targets -> WindowStates] /\ \A t \in Targets : W[t] = IF t \in ToClose /\ chrome.window[t] # "none" THEN "gone" ELSE chrome.window[t]
  BY WindowsNamed DEF WindowStates
<1>5. /\ chrome' \in ChromeType' /\ chrome'.window = W /\ chrome'.gate = chrome.gate /\ chrome'.mine = chrome.mine
      /\ chrome'.late = chrome.late /\ chrome'.shut = ToClose /\ chrome'.response = chrome.response
  <2>1. chrome' = [chrome EXCEPT !.shut = ToClose, !.window = W]
    BY DEF CloseShuts
  <2> HIDE DEF W
  <2> QED BY <1>3, <1>4, <2>1, Typed DEF ChromeType
<1> HIDE DEF W
<1>6. life.closing
  BY <1>1 DEF SessionInv, Phases, Closing
<1>7. /\ chrome.mine \subseteq Targets /\ \A i \in DOMAIN tab.popups : tab.popups[i].id \in Targets
      /\ \A y \in tasks : y.what \in {"adopt", "let"} => y.of \in Targets
  BY WindowsNamed, Typed DEF TaskOK
<1>8. \A t \in Targets : (chrome.window[t] # "none" => chrome'.window[t] # "none") /\ (chrome'.window[t] = "open" => chrome.window[t] = "open")
  BY <1>4, <1>5
<1>9. \A t \in chrome.mine : (t \in ToClose => chrome'.window[t] = "gone") /\ (chrome.window[t] = "gone" => chrome'.window[t] = "gone")
  BY <1>4, <1>5, <1>7 DEF SessionInv, Owners
<1>10. Types'
  BY <1>1, <1>2, <1>5, Typed DEF SessionInv, Types, LifeType
<1>11. Phases'
  BY <1>1, <1>2, <1>6 DEF SessionInv, Phases, Closing, Opening
<1>12. Owners'
  BY <1>1, <1>2, <1>5, <1>6, <1>7, <1>8 DEF SessionInv, Owners
<1>13. Debts'
  <2>1. ToClose \subseteq chrome.mine \ tab.handedOver /\ (conf.attach /\ life.listening => ToClose = {})
    BY DEF ToClose, SessionInv, Owners
  <2>2. ~conf.attach => \A t \in chrome.mine : chrome.window[t] = "gone" \/ t \in chrome.late \/ t \in tab.owned
    BY <1>1 DEF SessionInv, Debts
  <2> QED BY <1>1, <1>2, <1>5, <1>9, <2>1, <2>2 DEF Debts, ToClose
<1>14. Gated'
  BY <1>1, <1>5, <1>7, <1>8 DEF SessionInv, Gated
<1>15. Adopting'
  <2>1. Seen' \subseteq Seen
    BY <1>1, <1>2 DEF Seen
  <2> QED BY <1>1, <1>8, <2>1 DEF SessionInv, Adopting
<1>16. CastRight'
  BY <1>2 DEF CastRight, Working
<1>17. Captures'
  BY <1>1, <1>6 DEF SessionInv, Captures
<1> QED BY <1>10, <1>11, <1>12, <1>13, <1>14, <1>15, <1>16, <1>17 DEF SessionInv

LEMMA DisconnectsKeeps ==
  ASSUME SessionInv, Disconnects
  PROVE  SessionInv'
<1> DEFINE W == [t \in Targets |-> IF chrome.window[t] = "waiting" THEN "open" ELSE chrome.window[t]]
           R == Released(Responses)
<1>1. conf' = conf /\ cast' = cast /\ file' = file /\ tasks' = tasks /\ run.at = "disconnecting"
  BY DEF Disconnects, At
<1>2. run' \in RunType' /\ run'.at = "closed" /\ run'.t = run.t
  BY RunGoes DEF Disconnects, Closing
<1>3. W \in [Targets -> WindowStates] /\ \A t \in Targets : W[t] = IF chrome.window[t] = "waiting" THEN "open" ELSE chrome.window[t]
  BY WindowsNamed DEF WindowStates
<1>4. R \in [Responses -> ResponseType]
  BY ReleasedType
<1>5. /\ chrome' \in ChromeType' /\ chrome'.window = W /\ chrome'.mine = chrome.mine
      /\ chrome'.late = chrome.late /\ chrome'.shut = chrome.shut
  <2>1. chrome' = [chrome EXCEPT !.response = R, !.gate = {}, !.casting = {}, !.flying = {}, !.window = W]
    BY DEF Disconnects
  <2> HIDE DEF W, R
  <2> QED BY <1>3, <1>4, <2>1, Typed DEF ChromeType, ResponseType
<1> HIDE DEF W
<1>6. /\ tab' \in TabType /\ tab'.list = <<>> /\ tab'.activated = tab.activated /\ tab'.owned = {}
      /\ tab'.handedOver = tab.handedOver /\ tab'.popups = tab.popups /\ tab'.active = tab.active
  <2>1. <<>> \in Seq(Targets) /\ tab' = [tab EXCEPT !.owned = {}, !.list = <<>>]
    BY DEF Disconnects
  <2> QED BY <2>1, Typed DEF TabType
<1>7. /\ life' \in LifeType' /\ ~life'.connected /\ life'.closing = life.closing /\ life'.listening = life.listening
      /\ life'.handover = <<>>
  <2>1. <<>> \in Seq(Somewhere)
    OBVIOUS
  <2>2. PICK b \in BOOLEAN : life' = [life EXCEPT !.connected = b, !.handover = <<>>] /\ ~b
    BY DEF Disconnects
  <2> QED BY <2>1, <2>2, Typed DEF LifeType
<1>8. life.closing
  BY <1>1 DEF SessionInv, Phases, Closing
<1>9. /\ chrome.mine \subseteq Targets /\ \A i \in DOMAIN tab.popups : tab.popups[i].id \in Targets
      /\ \A y \in tasks : y.what \in {"adopt", "let"} => y.of \in Targets
  BY WindowsNamed, Typed DEF TaskOK
<1>10. \A t \in Targets : (chrome.window[t] # "none" => chrome'.window[t] # "none") /\ (chrome.window[t] = "gone" => chrome'.window[t] = "gone")
  BY <1>3, <1>5
<1>11. Types'
  <2>1. IsInjective(<<>>) /\ IsInjective(tab.activated)
    BY DEF SessionInv, Types, IsInjective
  <2> QED BY <1>1, <1>2, <1>5, <1>6, <1>7, <2>1, Typed DEF Types
<1>12. Phases'
  BY <1>1, <1>2, <1>6, <1>7, <1>8 DEF SessionInv, Phases, Closing, Opening
<1>13. Owners'
  BY <1>1, <1>2, <1>5, <1>6, <1>7, <1>8, <1>9, <1>10 DEF SessionInv, Owners
<1>14. Debts'
  BY <1>1, <1>2, <1>5, <1>6, <1>7, <1>9, <1>10 DEF SessionInv, Debts
<1>15. Gated'
  BY <1>1, <1>6, <1>7, <1>9, <1>10 DEF SessionInv, Gated
<1>16. Adopting'
  <2>1. ToSet(<<>>) = {}
    BY DEF ToSet
  <2>2. Seen' \subseteq Seen
    BY <1>1, <1>2, <1>6, <1>7, <2>1 DEF Seen
  <2> QED BY <1>1, <1>10, <2>2 DEF SessionInv, Adopting
<1>17. CastRight'
  BY <1>2 DEF CastRight, Working
<1>18. Captures'
  BY <1>1, <1>7, <1>8 DEF SessionInv, Captures
<1> QED BY <1>11, <1>12, <1>13, <1>14, <1>15, <1>16, <1>17, <1>18 DEF SessionInv

----------------------------------------------------------------------------
(* The session keeps its promises.                                         *)

LEMMA SessionStarts ==
  ASSUME SessionInit
  PROVE  SessionInv
<1>1. /\ tab.list = <<>> /\ tab.activated = <<>> /\ tab.owned = {} /\ tab.handedOver = {} /\ tab.popups = <<>> /\ tab.active = NoTarget
      /\ life.closing = FALSE /\ life.connected = FALSE /\ life.listening = FALSE /\ life.handover = <<>> /\ tasks = {}
      /\ run.at = "unopened" /\ file.settled = <<>> /\ file.kept = 0 /\ file.refused = 0
      /\ chrome.mine = {} /\ chrome.late = {} /\ chrome.shut = {}
  BY DEF SessionInit
<1>2. \A r \in Responses : chrome.response[r].file = FALSE
  BY DEF SessionInit
<1>3. DOMAIN tab.popups = {} /\ ToSet(<<>>) = {} /\ IsInjective(<<>>) /\ Len(<<>>) = 0
  BY <1>1 DEF ToSet, IsInjective
<1>4. Types
  <2>1. chrome \in ChromeType
    <3> DEFINE W == [t \in Targets |-> IF conf.kinds[t] = "none" THEN "none" ELSE "open"]
               O == [t \in Targets |-> NoTarget]
               R == [r \in Responses |-> [st |-> "none", inside |-> TRUE, file |-> FALSE]]
    <3>1. W \in [Targets -> WindowStates] /\ O \in [Targets -> Somewhere]
      BY DEF WindowStates, Somewhere
    <3>2. R \in [Responses -> ResponseType]
      BY DEF ResponseType
    <3>3. chrome = [window |-> W, opener |-> O, kind |-> conf.kinds, gate |-> {}, alerts |-> {}, asked |-> 0,
                    casting |-> {}, flying |-> {}, sent |-> 0, mine |-> {}, late |-> {}, shut |-> {}, response |-> R]
      BY DEF SessionInit
    <3> HIDE DEF W, O, R
    <3> QED BY <3>1, <3>2, <3>3 DEF ChromeType, ResponseType
  <2>2. tab \in TabType
    <3>1. <<>> \in Seq(Targets) /\ <<>> \in Seq(PopupType) /\ NoTarget \in Somewhere
      BY DEF Somewhere
    <3> QED BY <3>1 DEF SessionInit, TabType
  <2>3. cast \in CastType
    <3>1. NoFrame \in FrameType /\ NoTarget \in Somewhere
      BY DEF NoFrame, FrameType, Somewhere
    <3> QED BY <3>1 DEF SessionInit, CastType
  <2>4. file \in FileType
    BY DEF SessionInit, FileType
  <2>5. life \in LifeType
    BY DEF SessionInit, LifeType
  <2>6. run \in RunType
    BY DEF SessionInit, RunType, Opening
  <2> QED BY <1>1, <1>3, <2>1, <2>2, <2>3, <2>4, <2>5, <2>6 DEF Types
<1>5. Phases
  BY <1>1 DEF Phases, Opening, Closing
<1>6. Owners /\ Debts
  BY <1>1, <1>3 DEF Owners, Debts
<1>7. Gated
  BY <1>1 DEF Gated
<1>8. Adopting
  BY <1>1, <1>3, SessionAssumption DEF Adopting, Seen
<1>9. CastRight
  BY <1>1 DEF CastRight, Working
<1>10. Captures
  BY <1>1, <1>2, <1>3 DEF Captures
<1> QED BY <1>4, <1>5, <1>6, <1>7, <1>8, <1>9, <1>10 DEF SessionInv

LEMMA SessionStutters ==
  ASSUME SessionInv, UNCHANGED svars
  PROVE  SessionInv'
<1>1. /\ conf' = conf /\ chrome' = chrome /\ tab' = tab /\ cast' = cast /\ file' = file /\ life' = life /\ tasks' = tasks /\ run' = run
  BY DEF svars
<1>2. Types'
  BY <1>1 DEF SessionInv, Types, ChromeType, LifeType, RunType
<1>3. Seen' = Seen /\ ActiveSession' = ActiveSession
  BY <1>1 DEF Seen, ActiveSession, HasTab
<1> QED BY <1>1, <1>2, <1>3 DEF SessionInv, Phases, Owners, Debts, Gated, Adopting, CastRight, Captures

\* One step of the session, whoever takes it.
LEMMA SessionSteps ==
  ASSUME SessionInv, SessionNext
  PROVE  SessionInv'
<1>1. CASE TaskSteps
  <2> PICK x \in tasks :
        \/ AdoptGate(x) \/ AdoptResume(x) \/ AdoptJoin(x) \/ AdoptFails(x) \/ LetStart(x)
        \/ AckFrame(x) \/ CastLook(x) \/ CastStop(x) \/ CastStart(x) \/ CastStarted(x)
        \/ GateRequest(x) \/ CaptureDownload(x) \/ HandlePaused(x)
    BY <1>1 DEF TaskSteps
  <2> QED BY AdoptGateKeeps, AdoptResumeKeeps, AdoptEndsKeeps, LetStartKeeps, AckFrameKeeps, CastStepKeeps, GateRequestKeeps,
             CaptureDownloadKeeps, HandlePausedKeeps
<1>2. CASE DeliverySteps
  BY <1>2, DeliveryKeeps
<1>3. CASE ReaderSteps
  <2>1. CASE \E t \in Targets, from \in Targets \cup {NoTarget} : WindowOpens(t, from)
    BY <2>1, WindowOpensKeeps DEF Somewhere
  <2>2. CASE \E t \in Targets : WindowCloses(t) \/ FrameCast(t)
    BY <2>2, WindowClosesKeeps, FrameCastKeeps
  <2>3. CASE \E f \in Subframes : FrameComesAndGoes(f)
    BY <2>3, SubframeKeeps
  <2>4. CASE \E s \in TabSessions : DialogOpens(s) \/ DialogCloses(s)
    BY <2>4, DialogKeeps
  <2>5. CASE \E r \in Responses : RequestPaused(r) \/ ResponsePaused(r)
    BY <2>5, RequestPausedKeeps, ResponsePausedKeeps
  <2> QED BY <1>3, <2>1, <2>2, <2>3, <2>4, <2>5 DEF ReaderSteps
<1>4. CASE HandsOver
  BY <1>4, HandsOverKeeps
<1>5. CASE RunGoesOn
  <2>1. CASE OpenConnects \/ AttachLists \/ MakesTab \/ LearnsTab \/ JoinsTab \/ Listens
    BY <2>1, OpenConnectsKeeps, AttachListsKeeps, MakesTabKeeps, LearnsTabKeeps, JoinsTabKeeps, ListensKeeps
  <2>2. CASE Switched \/ FollowFinds \/ FollowGivesUp \/ FollowLearns \/ DownloadSettled \/ DialogHandled
    BY <2>2, SwitchedKeeps, CallsBesideKeep, DialogHandledKeeps
  <2>3. CASE CloseSteps
    BY <2>3, CloseAbortsKeeps, CloseReleasesKeeps, CloseShutsKeeps, DisconnectsKeeps DEF CloseSteps
  <2> QED BY <1>5, <2>1, <2>2, <2>3 DEF RunGoesOn
<1>6. CASE RunMoves
  BY <1>6, HandOverKeeps, CallsBesideKeep, HandleDialogKeeps, OpenFailsKeeps, CloseBeginsKeeps DEF RunMoves
<1> QED BY <1>1, <1>2, <1>3, <1>4, <1>5, <1>6 DEF SessionNext

LEMMA SessionAlways ==
  SessionSpec => []SessionInv
<1>1. SessionInit => SessionInv
  BY SessionStarts
<1>2. SessionInv /\ [SessionNext]_svars => SessionInv'
  BY SessionSteps, SessionStutters
<1> QED BY <1>1, <1>2, PTL DEF SessionSpec

LEMMA SessionPromises ==
  ASSUME SessionInv
  PROVE  SessionKept
<1>1. SessionTypeOK
  <2>1. /\ chrome.window \in [Targets -> {"none", "waiting", "open", "gone"}] /\ chrome.opener \in [Targets -> Targets \cup {NoTarget}]
        /\ chrome.gate \subseteq Targets /\ chrome.casting \subseteq Targets /\ chrome.alerts \subseteq TabSessions
    BY Typed DEF ChromeType, WindowStates, Somewhere
  <2>2. \A f \in chrome.flying : f.n \in 1..MaxFrames /\ f.of \in Targets
    <3>1. chrome.flying \subseteq [n : 1..MaxFrames, of : Targets]
      BY Typed DEF ChromeType
    <3> QED BY <3>1
  <2>3. /\ tab.list \in Seq(Targets) /\ tab.activated \in Seq(Targets) /\ tab.owned \subseteq Targets /\ tab.openBefore \subseteq Targets
        /\ tab.active \in Targets \cup {NoTarget} /\ tab.handedOver \subseteq Targets \cup {NoTarget}
    BY Typed DEF TabType, Somewhere
  <2>4. \A p \in Popups : p.id \in Targets /\ p.adopted \in {"unknown", "joined", "lost"}
    <3>1. \A p \in Popups : p \in PopupType
      BY WindowsNamed DEF Popups, ToSet
    <3>2. \A p \in PopupType : p.id \in Targets /\ p.adopted \in {"unknown", "joined", "lost"}
      BY DEF PopupType
    <3> QED BY <3>1, <3>2
  <2>5. cast.session \in Targets \cup {NoTarget} /\ life.dialogs \subseteq TabSessions
    BY Typed DEF CastType, LifeType, Somewhere
  <2>6. file.paused \subseteq Responses /\ file.kept \in Nat /\ file.refused \in Nat
    BY Typed DEF FileType
  <2>7. IsInjective(tab.list) /\ IsInjective(tab.activated)
    BY DEF SessionInv, Types
  <2> QED BY <2>1, <2>2, <2>3, <2>4, <2>5, <2>6, <2>7 DEF SessionTypeOK
<1>2. UserWindowsStay
  BY DEF SessionInv, Debts, UserWindowsStay
<1>3. NothingLeftOpen
  BY DEF SessionInv, Debts, NothingLeftOpen, At
<1>4. CastFollowsRun
  BY DEF SessionInv, CastRight, CastFollowsRun
<1>5. CapturesCounted
  BY DEF SessionInv, Captures, CapturesCounted, DownloadsSettled
<1> QED BY <1>1, <1>2, <1>3, <1>4, <1>5 DEF SessionKept

\* What the run and the user are owed holds in every state, for any number of
\* windows, frames and responses: `close` shuts the run's own windows and only
\* those, none in a browser the run attached to, the live cast is of the tab the run
\* is on, and every captured file is counted (session.rs `close`, `own_popup`,
\* `follow_cast`, `capture_download`).
THEOREM SessionIsKept ==
  SessionSpec => []SessionKept
<1>1. SessionInv => SessionKept
  BY SessionPromises
<1> QED BY <1>1, SessionAlways, PTL

\* A popup of the run never runs before the run's Fetch gate is on its session,
\* however its adoption falls between the other steps (session.rs `adopt_popup`,
\* `prepare_session`).
THEOREM GateComesFirst ==
  SessionSpec => []GateBeforeDocument
<1>1. SessionInv => GateBeforeDocument
  BY DEF SessionInv, Gated, GateBeforeDocument, Popups, ToSet
<1> QED BY <1>1, SessionAlways, PTL
=============================================================================
