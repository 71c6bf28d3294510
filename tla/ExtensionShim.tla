---------------------------- MODULE ExtensionShim ----------------------------
(***************************************************************************)
(* One run's end of the extension (fastbrowse-browser: extension/shim.rs): *)
(* a browser-level CDP endpoint made from the extension's relay.  Every    *)
(* CDP command is a task of its own; one reader takes the extension's      *)
(* lines in order, replies and events alike, and ends with the reason the  *)
(* connection closed.                                                      *)
(***************************************************************************)
EXTENDS Naturals, Sequences, FiniteSets

CONSTANTS
  ShimTabs,      \* the tabs the extension may name
  MaxCommands,   \* bound: CDP commands the session sends
  MaxEvents      \* bound: events the extension sends

ASSUME ShimAssumption == MaxCommands \in Nat /\ MaxEvents \in Nat

VARIABLES
  commands,   \* the commands sent, in order: [kind, tab, at, ok]
  attached,   \* the tabs the run holds an attachment to
  autoAttach, \* whether browser-level auto-attach was asked for
  foreign,    \* tabs that hold another extension's frame
  inbox,      \* lines from the extension the reader has not taken
  chromeTabs, \* external: whether the extension holds the tab for this run
  events,     \* how many events the extension has sent
  told,       \* what CDP was last told of each tab
  closed      \* why the connection closed, "no" while it is open

shimVars == <<commands, attached, autoAttach, foreign, inbox, chromeTabs, events, told, closed>>

Kinds == {"ping", "create", "attach", "cdp", "autoAttach", "unknown"}
Ats == {"asked", "got", "replied"}
ShimTypeOK ==
  /\ \A i \in DOMAIN commands : commands[i].kind \in Kinds /\ commands[i].at \in Ats /\ commands[i].tab \in ShimTabs
  /\ attached \subseteq ShimTabs /\ foreign \subseteq ShimTabs /\ autoAttach \in BOOLEAN
  /\ chromeTabs \in [ShimTabs -> {"new", "held", "loose", "gone"}]
  /\ events \in 0..MaxEvents /\ told \in [ShimTabs -> {"unknown", "known", "gone", "gone_again"}]
  /\ closed \in {"no", "lost", "cancelled", "foreign_frame"}

ShimInit ==
  /\ commands = <<>> /\ attached = {} /\ autoAttach = FALSE /\ foreign = {} /\ inbox = <<>> /\ events = 0 /\ chromeTabs = [t \in ShimTabs |-> "new"]
  /\ told = [t \in ShimTabs |-> "unknown"] /\ closed = "no"

----------------------------------------------------------------------------
(* Commands: `Relay::command` on a task of its own.                         *)

\* Answered in place: what needs no tab, and what the extension cannot do.
InPlace(kind, tab) == kind \in {"autoAttach", "unknown"} \/ (kind = "attach" /\ tab \in attached)
Reply(kind, tab, ok) == [kind |-> kind, tab |-> tab, at |-> "replied", ok |-> ok]
\* The tab is reported attached, or destroyed.
Known(tab) == [told EXCEPT ![tab] = IF @ = "unknown" THEN "known" ELSE @]
Destroyed(tab) == [told EXCEPT ![tab] = IF @ \in {"gone", "gone_again"} THEN "gone_again" ELSE "gone"]

Command(kind, tab) ==
  /\ closed = "no" /\ Len(commands) < MaxCommands
  /\ IF InPlace(kind, tab)
     THEN /\ commands' = Append(commands, Reply(kind, tab, kind # "unknown"))
          /\ told' = IF kind = "attach" THEN Known(tab) ELSE told
          /\ autoAttach' = (autoAttach \/ kind = "autoAttach")
     ELSE /\ commands' = Append(commands, [kind |-> kind, tab |-> tab, at |-> "asked", ok |-> FALSE])
          /\ UNCHANGED <<told, autoAttach>>
  /\ UNCHANGED <<attached, foreign, inbox, chromeTabs, events, closed>>

\* The reply reached the task: `createTarget` and `attachToTarget` keep the tab,
\* and the latter reports it attached before it answers.
CommandEnds(i) ==
  /\ commands[i].at = "got" /\ commands' = [commands EXCEPT ![i].at = "replied"]
  /\ LET c == commands[i] IN
     IF c.ok /\ c.kind \in {"create", "attach"}
     THEN attached' = attached \cup {c.tab} /\ told' = IF c.kind = "attach" THEN Known(c.tab) ELSE told
     ELSE UNCHANGED <<attached, told>>
  /\ UNCHANGED <<autoAttach, foreign, inbox, chromeTabs, events, closed>>

----------------------------------------------------------------------------
(* The extension, external: it answers a command or never does, and tells   *)
(* of tabs; the host keeps its lines in order.                              *)

Line(event, tab, i, ok) == [event |-> event, tab |-> tab, id |-> i, ok |-> ok]
Waiting(i) == commands[i].at = "asked" /\ \A k \in DOMAIN inbox : inbox[k].id # i
\* A tab comes to the run once, opened, adopted or as a popup.
Comes(i, ok) == ok /\ commands[i].kind \in {"create", "attach"}
Answers(i, ok) ==
  /\ closed = "no" /\ Waiting(i) /\ (ok \/ commands[i].kind \in {"create", "attach"}) /\ (Comes(i, ok) => chromeTabs[commands[i].tab] = "new")
  /\ chromeTabs' = IF Comes(i, ok) THEN [chromeTabs EXCEPT ![commands[i].tab] = "held"] ELSE chromeTabs
  /\ inbox' = Append(inbox, Line("reply", commands[i].tab, i, ok))
  /\ UNCHANGED <<commands, attached, autoAttach, foreign, events, told, closed>>

\* Where a tab must be for an event, and where the event leaves it.
TabEvents ==
  {<<"popup", "new", "held">>, <<"frame", "held", "held">>, <<"frame_gone", "held", "held">>, <<"detached", "held", "loose">>,
   <<"target_closed", "held", "loose">>, <<"removed", "held", "gone">>, <<"removed", "loose", "gone">>}
Tells(event, tab) ==
  /\ closed = "no" /\ events < MaxEvents /\ chromeTabs[tab] = event[2]
  /\ events' = events + 1 /\ chromeTabs' = [chromeTabs EXCEPT ![tab] = event[3]]
  /\ inbox' = Append(inbox, Line(event[1], tab, 0, TRUE))
  /\ UNCHANGED <<commands, attached, autoAttach, foreign, told, closed>>
\* The user stops the run from the browser.
TellsStop(tab) ==
  /\ closed = "no" /\ \A k \in DOMAIN inbox : inbox[k].event # "stop"
  /\ inbox' = Append(inbox, Line("stop", tab, 0, TRUE))
  /\ UNCHANGED <<commands, attached, autoAttach, foreign, chromeTabs, events, told, closed>>

----------------------------------------------------------------------------
(* The reader.                                                              *)

Ends(why) ==
  /\ closed' = why
  /\ commands' = [i \in DOMAIN commands |-> IF commands[i].at = "asked" THEN [commands[i] EXCEPT !.at = "got", !.ok = FALSE] ELSE commands[i]]
Open == UNCHANGED <<commands, closed>>

\* A detached tab is gone for the run, destroyed too when it closed; its removal
\* says so only of a tab still in the table.
TakeGone(line) ==
  /\ attached' = attached \ {line.tab}
  /\ told' = IF line.tab \in attached /\ line.event # "detached" THEN Destroyed(line.tab) ELSE told
  /\ foreign' = IF line.event = "removed" THEN foreign ELSE foreign \ {line.tab}
  /\ UNCHANGED autoAttach /\ Open

TakePopup(line) ==
  /\ attached' = attached \cup {line.tab}
  /\ told' = IF autoAttach THEN Known(line.tab) ELSE told
  /\ UNCHANGED <<autoAttach, foreign>> /\ Open
\* `track_frame`.
TakeFrame(line) ==
  /\ foreign' = IF line.event = "frame" THEN foreign \cup {line.tab} ELSE foreign \ {line.tab}
  /\ UNCHANGED <<attached, autoAttach, told>> /\ Open
\* Chrome takes a tab away for another extension's frame: the run ends, told why.
TakeForeign(line) ==
  /\ foreign' = foreign \ {line.tab} /\ Ends("foreign_frame")
  /\ UNCHANGED <<attached, autoAttach, told>>
TakeReply(line) ==
  /\ commands' = [commands EXCEPT ![line.id].at = "got", ![line.id].ok = line.ok]
  /\ UNCHANGED <<attached, autoAttach, foreign, told, closed>>
TakeStop == Ends("cancelled") /\ UNCHANGED <<attached, autoAttach, foreign, told>>

ReaderTakes ==
  /\ closed = "no" /\ inbox # <<>> /\ inbox' = Tail(inbox) /\ UNCHANGED <<chromeTabs, events>>
  /\ LET line == Head(inbox) IN
     \/ line.event = "reply" /\ TakeReply(line)
     \/ line.event = "popup" /\ TakePopup(line)
     \/ line.event \in {"frame", "frame_gone"} /\ TakeFrame(line)
     \/ line.event = "target_closed" /\ line.tab \in foreign /\ TakeForeign(line)
     \/ line.event \in {"detached", "removed"} /\ TakeGone(line)
     \/ line.event = "target_closed" /\ line.tab \notin foreign /\ TakeGone(line)
     \/ line.event = "stop" /\ TakeStop
ReaderLoses ==
  /\ closed = "no" /\ Ends("lost") /\ UNCHANGED <<attached, autoAttach, foreign, inbox, chromeTabs, events, told>>

----------------------------------------------------------------------------

\* What the code and a living extension do on their own.
ShimWork ==
  \/ ReaderTakes
  \/ \E i \in DOMAIN commands : CommandEnds(i) \/ (commands[i].kind = "ping" /\ Answers(i, TRUE))
ShimNext ==
  \/ ShimWork \/ ReaderLoses
  \/ \E kind \in Kinds, tab \in ShimTabs : Command(kind, tab)
  \/ \E i \in DOMAIN commands, ok \in BOOLEAN : Answers(i, ok)
  \/ \E tab \in ShimTabs : (\E event \in TabEvents : Tells(event, tab)) \/ TellsStop(tab)

----------------------------------------------------------------------------
(* Properties.                                                              *)

\* A tab is reported destroyed at most once, though its end is told twice, as a
\* detach and as a removal, and commands that name it may be in flight.
DestroyedOnce == \A tab \in ShimTabs : told[tab] # "gone_again"

\* "A hung one must not hold back a liveness probe": a ping is answered, or the
\* connection known to be closed, whatever other commands wait for.
ProbesAnswered == \A i \in 1..MaxCommands :
  (i \in DOMAIN commands /\ commands[i].kind = "ping") ~> (closed # "no" \/ (i \in DOMAIN commands /\ commands[i].at = "replied"))
=============================================================================
