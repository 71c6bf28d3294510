---------------------------- MODULE ExtensionTabs ----------------------------
(***************************************************************************)
(* The extension's service worker (fastbrowse-browser: extension/          *)
(* background.js): which tabs each connected run owns, and how they are    *)
(* released when it ends.                                                  *)
(*                                                                         *)
(* The worker runs one callback at a time; every await gives way to other  *)
(* callbacks.  A task is an operation between two awaits: what it awaits   *)
(* from Chrome has happened when its next step is taken.                   *)
(***************************************************************************)
EXTENDS Naturals, FiniteSets, FiniteSetsExt

CONSTANTS
  Conns,      \* the runs the host has connected, by connection id
  UserTabs,   \* tabs open before any run
  FreshTabs,  \* ids of the tabs opened later: bounds `newTab` and popups
  MaxAsked    \* bound: operations the runs ask for

VARIABLES
  runs,       \* the connections in `runs`: said hello and not released
  released,   \* those whose `run.released` is set
  held,       \* run.tabs: the tabs of each run
  adopted,    \* run.adopted: those that are the user's
  owners,     \* tab -> conn
  closing,    \* tabs a run asked to close
  stopped,    \* the runs told their last tab was closed by the user
  open,       \* external: the tabs Chrome has open
  debugged,   \* external: the run whose debugger each tab has, or 0
  made,       \* history: the run each fresh tab was opened for
  asked,      \* how many operations were asked for
  tasks       \* operations at an await: [op, conn, tab, at, left]

tabVars == <<runs, released, held, adopted, owners, closing, stopped, open, debugged, made, asked, tasks>>

AllTabs == UserTabs \cup FreshTabs
Nobody == 0
Ask == asked < MaxAsked /\ asked' = asked + 1
Task(op, conn, tab, at, left) == [op |-> op, conn |-> conn, tab |-> tab, at |-> at, left |-> left]
NoTab == "none"

ASSUME TabsAssumption == Nobody \notin Conns /\ UserTabs \cap FreshTabs = {}

TabsTypeOK ==
  /\ runs \subseteq Conns /\ released \subseteq Conns
  /\ held \in [Conns -> SUBSET AllTabs] /\ adopted \in [Conns -> SUBSET UserTabs]
  /\ owners \in [AllTabs -> Conns \cup {Nobody}] /\ closing \subseteq AllTabs
  /\ stopped \subseteq Conns /\ open \subseteq AllTabs
  /\ debugged \in [AllTabs -> Conns \cup {Nobody}] /\ made \in [FreshTabs -> Conns \cup {Nobody}]
  /\ \A t \in tasks : t.conn \in Conns

TabsInit ==
  /\ runs = {} /\ released = {} /\ held = [c \in Conns |-> {}] /\ adopted = [c \in Conns |-> {}]
  /\ owners = [t \in AllTabs |-> Nobody] /\ closing = {} /\ stopped = {} /\ open = UserTabs
  /\ debugged = [t \in AllTabs |-> Nobody] /\ made = [t \in FreshTabs |-> Nobody] /\ asked = 0 /\ tasks = {}

Replace1(task, next) == tasks' = (tasks \ {task}) \cup next
Goes(task, at) == Replace1(task, {[task EXCEPT !.at = at]})
Own(conn, tab) == held' = [held EXCEPT ![conn] = @ \cup {tab}] /\ owners' = [owners EXCEPT ![tab] = conn]

----------------------------------------------------------------------------
(* Operations a run asks for.  One that throws answers with the error.      *)

Hello(c) ==
  /\ c \notin runs \cup released /\ runs' = runs \cup {c}
  /\ UNCHANGED <<released, held, adopted, owners, closing, stopped, open, debugged, made, tasks, asked>>

\* `newTab` awaits `chrome.tabs.create`.
NewTab(c) ==
  /\ c \in runs /\ Ask
  /\ Cardinality({t \in FreshTabs : made[t] = Nobody}) > Cardinality({t \in tasks : t.at = "create"})
  /\ tasks' = tasks \cup {Task("newTab", c, NoTab, "create", {})}
  /\ UNCHANGED <<runs, released, held, adopted, owners, closing, stopped, open, debugged, made>>
TabCreated(task, tab) ==
  /\ task.at = "create" /\ tab \in FreshTabs /\ made[tab] = Nobody
  /\ open' = open \cup {tab} /\ made' = [made EXCEPT ![tab] = task.conn]
  /\ Own(task.conn, tab) /\ Replace1(task, {Task("newTab", task.conn, tab, "group", {})})
  /\ UNCHANGED <<runs, released, adopted, closing, stopped, debugged, asked>>

\* `adopt` of a tab the user has, which no run may own.
Adopt(c, tab) ==
  /\ c \in runs /\ Ask /\ tab \in UserTabs \cap open /\ owners[tab] = Nobody
  /\ tasks' = tasks \cup {Task("adopt", c, tab, "get", {})}
  /\ UNCHANGED <<runs, released, held, adopted, owners, closing, stopped, open, debugged, made>>
TabGot(task) ==
  /\ task.at = "get"
  /\ IF task.tab \in open
     THEN /\ adopted' = [adopted EXCEPT ![task.conn] = @ \cup {task.tab}]
          /\ Own(task.conn, task.tab) /\ Goes(task, "group")
     ELSE Replace1(task, {}) /\ UNCHANGED <<adopted, held, owners>>
  /\ UNCHANGED <<runs, released, closing, stopped, open, debugged, made, asked>>

\* Mutant: a run stopped meanwhile is not undone.
FinallyKept(task) == Replace1(task, {})
\* `adoptTab`'s finally: stopped meanwhile, the release may have passed this tab.
Finally(task) ==
  IF task.conn \in released
  THEN Replace1(task, {Task("teardown", task.conn, task.tab, "detach", {})})
  ELSE Replace1(task, {})

\* `addToGroup`, then `chrome.debugger.attach`; either throws on a tab that is
\* gone, and Chrome attaches one debugger of an extension to a tab.
Grouped(task) ==
  /\ task.at = "group"
  /\ IF task.tab \in open THEN Goes(task, "attach") ELSE Finally(task)
  /\ UNCHANGED <<runs, released, held, adopted, owners, closing, stopped, open, debugged, made, asked>>
Attached(task) ==
  /\ task.at = "attach" /\ task.op # "popup"
  /\ debugged' = IF task.tab \in open /\ debugged[task.tab] = Nobody
                 THEN [debugged EXCEPT ![task.tab] = task.conn] ELSE debugged
  /\ Finally(task)
  /\ UNCHANGED <<runs, released, held, adopted, owners, closing, stopped, open, made, asked>>

\* `closeTab`: `ownedTab`, then the tab is closed as the run's own doing.
CloseTab(c, tab) ==
  /\ owners[tab] = c /\ Ask /\ tab \in open
  /\ closing' = closing \cup {tab} /\ tasks' = tasks \cup {Task("close", c, tab, "remove", {})}
  /\ UNCHANGED <<runs, released, held, adopted, owners, stopped, open, debugged, made>>

----------------------------------------------------------------------------
(* What Chrome tells the worker.                                            *)

\* A page of the run's tab opened another.  A run that is being released is not
\* told of it.
PopupOpens(opener, tab) ==
  /\ opener \in open /\ tab \in FreshTabs /\ made[tab] = Nobody /\ owners[opener] # Nobody
  /\ Cardinality({t \in FreshTabs : made[t] = Nobody}) > Cardinality({t \in tasks : t.at = "create"})
  /\ open' = open \cup {tab}
  /\ LET c == owners[opener] IN
     IF c \in runs
     THEN /\ made' = [made EXCEPT ![tab] = c] /\ Own(c, tab)
          /\ tasks' = tasks \cup {Task("popup", c, tab, "attach", {})}
     ELSE made' = [made EXCEPT ![tab] = c] /\ UNCHANGED <<held, owners, tasks>>
  /\ UNCHANGED <<runs, released, adopted, closing, stopped, debugged, asked>>
PopupAttached(task) ==
  /\ task.op = "popup" /\ task.at = "attach"
  /\ debugged' = IF task.tab \in open /\ debugged[task.tab] = Nobody
                 THEN [debugged EXCEPT ![task.tab] = task.conn] ELSE debugged
  /\ Replace1(task, {})
  /\ UNCHANGED <<runs, released, held, adopted, owners, closing, stopped, open, made, asked>>

\* `onRemoved`: the last of a run's tabs, closed by the user, stops the run.
Removed(tab) ==
  /\ owners' = [owners EXCEPT ![tab] = Nobody]
  /\ LET c == owners[tab] IN
     IF c = Nobody THEN UNCHANGED <<held, closing, stopped>>
     ELSE /\ held' = IF c \in runs THEN [held EXCEPT ![c] = @ \ {tab}] ELSE held
          /\ closing' = closing \ {tab}
          /\ stopped' = IF tab \notin closing /\ c \in runs /\ held[c] \subseteq {tab}
                        THEN stopped \cup {c} ELSE stopped
Gone(tab) == open' = open \ {tab} /\ debugged' = [debugged EXCEPT ![tab] = Nobody] /\ Removed(tab)

UserCloses(tab) ==
  /\ tab \in open /\ tab \notin closing /\ Gone(tab)
  /\ UNCHANGED <<runs, released, adopted, made, tasks, asked>>
TabClosed(task) ==
  /\ task.op = "close" /\ Replace1(task, {})
  /\ IF task.tab \in open THEN Gone(task.tab) ELSE UNCHANGED <<open, debugged, owners, held, closing, stopped>>
  /\ UNCHANGED <<runs, released, adopted, made, asked>>

----------------------------------------------------------------------------
(* `releaseRun`: from the run's end, Stop in the popup, or a lost host.     *)

Release(c) ==
  /\ c \in runs /\ runs' = runs \ {c} /\ released' = released \cup {c}
  /\ tasks' = tasks \cup {Task("release", c, NoTab, "remember", {})}
  /\ UNCHANGED <<held, adopted, owners, closing, stopped, open, debugged, made, asked>>
\* The tabs are those held once the run is remembered, torn down one by one.
Remembered(task) ==
  /\ task.at = "remember"
  /\ Replace1(task, {Task("release", task.conn, NoTab, "next", held[task.conn])})
  /\ UNCHANGED <<runs, released, held, adopted, owners, closing, stopped, open, debugged, made, asked>>
NextTab(task) ==
  /\ task.at = "next"
  /\ IF task.left = {} THEN Replace1(task, {})
     ELSE \E tab \in task.left : Replace1(task, {[task EXCEPT !.tab = tab, !.left = @ \ {tab}, !.at = "detach"]})
  /\ UNCHANGED <<runs, released, held, adopted, owners, closing, stopped, open, debugged, made, asked>>

\* `releaseTab`: detach, then ungroup a user's tab or close the run's own, and
\* only then disown it.
Detached(task) ==
  /\ task.at = "detach"
  /\ debugged' = [debugged EXCEPT ![task.tab] = Nobody]
  /\ IF task.tab \in adopted[task.conn] THEN Goes(task, "disown") /\ UNCHANGED closing
     ELSE Goes(task, "close") /\ closing' = closing \cup {task.tab}
  /\ UNCHANGED <<runs, released, held, adopted, owners, stopped, open, made, asked>>
TornDown(task) ==
  /\ task.at = "close" /\ Goes(task, "closed")
  /\ IF task.tab \in open THEN Gone(task.tab) ELSE UNCHANGED <<open, debugged, owners, held, closing, stopped>>
  /\ UNCHANGED <<runs, released, adopted, made, asked>>
Disowned(task) ==
  /\ task.at \in {"closed", "disown"}
  /\ closing' = IF task.at = "closed" THEN closing \ {task.tab} ELSE closing
  /\ owners' = IF owners[task.tab] = task.conn THEN [owners EXCEPT ![task.tab] = Nobody] ELSE owners
  /\ IF task.op = "release" THEN Goes(task, "next") ELSE Replace1(task, {})
  /\ UNCHANGED <<runs, released, held, adopted, stopped, open, debugged, made, asked>>

----------------------------------------------------------------------------

Step1(task) ==
  \/ (\E tab \in FreshTabs : TabCreated(task, tab)) \/ TabGot(task) \/ Grouped(task) \/ Attached(task)
  \/ PopupAttached(task) \/ TabClosed(task) \/ Remembered(task) \/ NextTab(task) \/ Detached(task) \/ TornDown(task) \/ Disowned(task)
TabsWork == \E task \in tasks : Step1(task)
TabsNext ==
  \/ TabsWork
  \/ \E c \in Conns : Hello(c) \/ NewTab(c) \/ Release(c)
                      \/ \E tab \in AllTabs : Adopt(c, tab) \/ CloseTab(c, tab)
  \/ \E tab \in AllTabs : UserCloses(tab) \/ \E opener \in AllTabs : PopupOpens(opener, tab)

----------------------------------------------------------------------------
(* Properties.                                                              *)

\* Once a run is released and its operations have ended, it owns no tab and
\* debugs none, and the tabs it opened are closed (a popup its page opened while
\* it was being released is left to the user).
ReleasedClean ==
  \A c \in released : (\A t \in tasks : t.conn # c) =>
    /\ \A tab \in AllTabs : owners[tab] # c /\ debugged[tab] # c
    /\ held[c] \cap open \subseteq UserTabs

\* A run is not stopped because it closed its own last tab.
OwnClosingIsNoStop ==
  [][\A c \in Conns : c \in stopped' \ stopped =>
       \E tab \in open \ open' : owners[tab] = c /\ ~\E t \in tasks : t.tab = tab /\ t.op = "close"]_tabVars

=============================================================================
