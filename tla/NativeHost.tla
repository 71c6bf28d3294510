----------------------------- MODULE NativeHost -----------------------------
(***************************************************************************)
(* `fastbrowse native-host` (fastbrowse-browser: extension/host.rs,        *)
(* protocol.rs): the process Chrome starts when the extension connects.    *)
(* It lists itself in a per-user directory, relays each run's lines to the *)
(* extension tagged with a connection id, and asks for the run's tabs back *)
(* when its connection ends.  A change of label makes the extension close  *)
(* one host and start another for the same browser at once.                *)
(***************************************************************************)
EXTENDS Naturals, Sequences, FiniteSets

CONSTANTS
  Hosts,      \* the processes Chrome starts for one browser, in order of start
  HostRuns,   \* the runs that connect to a host
  MaxLines    \* bound: lines a run sends

ASSUME HostAssumption == Hosts \subseteq Nat \ {0} /\ MaxLines \in Nat

VARIABLES
  hosts,      \* where each host is
  record,     \* the host the browser's record names, 0 for no record
  socket,     \* the host listening behind the socket's path, 0 for no file
  conns,      \* each run's connection: [at, sent, relayed]
  toChrome    \* what the extension was sent: <<run, what>>

hostVars == <<hosts, record, socket, conns, toChrome>>

HostTypeOK ==
  /\ hosts \in [Hosts -> {"unstarted", "greeted", "listening", "serving", "ending", "owns", "gone", "refused"}]
  /\ record \in Hosts \cup {0} /\ socket \in Hosts \cup {0}
  /\ conns \in [HostRuns -> [at : {"none", "open", "hung_up", "ended"}, sent : 0..MaxLines, relayed : 0..MaxLines]]

HostInit ==
  /\ hosts = [h \in Hosts |-> "unstarted"] /\ record = 0 /\ socket = 0
  /\ conns = [r \in HostRuns |-> [at |-> "none", sent |-> 0, relayed |-> 0]] /\ toChrome = <<>>

Moves(h, at) == hosts' = [hosts EXCEPT ![h] = at]

----------------------------------------------------------------------------
(* `run`.                                                                   *)

\* A successor starts once the earlier host listed itself and is ending, or is gone.
\* Refused: another origin, or a hello that names no safe id.
Greet(h) ==
  /\ hosts[h] = "unstarted" /\ \A other \in Hosts : other < h => hosts[other] \in {"ending", "owns", "gone", "refused"}
  /\ Moves(h, "greeted") /\ UNCHANGED <<record, socket, conns, toChrome>>
Refuse(h) ==
  /\ hosts[h] = "unstarted" /\ \A other \in Hosts : other < h => hosts[other] \in {"ending", "owns", "gone", "refused"}
  /\ Moves(h, "refused") /\ UNCHANGED <<record, socket, conns, toChrome>>

\* `listen` replaces the socket file another host left.
Listen(h) ==
  /\ hosts[h] = "greeted" /\ Moves(h, "listening") /\ socket' = h
  /\ UNCHANGED <<record, conns, toChrome>>
\* The record is renamed into place once the socket listens.
ListRecord(h) ==
  /\ hosts[h] = "listening" /\ Moves(h, "serving") /\ record' = h
  /\ UNCHANGED <<socket, conns, toChrome>>

\* Chrome closed stdin, or kills the host, which then removes nothing.
StdinEnds(h) ==
  /\ hosts[h] = "serving" /\ Moves(h, "ending") /\ UNCHANGED <<record, socket, conns, toChrome>>
HostKilled(h) ==
  /\ hosts[h] \in {"greeted", "listening", "serving"} /\ Moves(h, "gone")
  /\ UNCHANGED <<record, socket, conns, toChrome>>

\* `Listing::drop`: the files are this host's while the record names it.
DropListing(h) ==
  /\ hosts[h] = "ending" /\ Moves(h, IF record = h THEN "owns" ELSE "gone")
  /\ UNCHANGED <<record, socket, conns, toChrome>>
RemoveListing(h) ==
  /\ hosts[h] = "owns" /\ Moves(h, "gone") /\ record' = 0 /\ socket' = 0
  /\ UNCHANGED <<conns, toChrome>>

----------------------------------------------------------------------------
(* A run: `pick_host` and `dial`, then `serve_run` for it.                  *)

\* A record whose process has exited is not a connected browser.
Connected1 == record # 0 /\ hosts[record] \notin {"gone", "unstarted", "refused"}
Dial(r) ==
  /\ conns[r].at = "none" /\ Connected1 /\ socket # 0 /\ hosts[socket] \in {"listening", "serving"}
  /\ conns' = [conns EXCEPT ![r].at = "open"] /\ UNCHANGED <<hosts, record, socket, toChrome>>
Say(r) ==
  /\ conns[r].at = "open" /\ conns[r].sent < MaxLines
  /\ conns' = [conns EXCEPT ![r].sent = @ + 1] /\ UNCHANGED <<hosts, record, socket, toChrome>>
HangUp(r) ==
  /\ conns[r].at = "open" /\ conns' = [conns EXCEPT ![r].at = "hung_up"]
  /\ UNCHANGED <<hosts, record, socket, toChrome>>
\* Lines are read in order, tagged and queued for Chrome.
RelayLine(r) ==
  /\ conns[r].at \in {"open", "hung_up"} /\ conns[r].relayed < conns[r].sent
  /\ conns' = [conns EXCEPT ![r].relayed = @ + 1] /\ toChrome' = Append(toChrome, <<r, "line">>)
  /\ UNCHANGED <<hosts, record, socket>>
\* The lines have ended: the run is forgotten, then its tabs are asked back.
ReleaseConn(r) ==
  /\ conns[r].at = "hung_up" /\ conns[r].relayed = conns[r].sent
  /\ conns' = [conns EXCEPT ![r].at = "ended"] /\ toChrome' = Append(toChrome, <<r, "release">>)
  /\ UNCHANGED <<hosts, record, socket>>

HostNext ==
  \/ \E h \in Hosts : Greet(h) \/ Refuse(h) \/ Listen(h) \/ ListRecord(h) \/ StdinEnds(h) \/ HostKilled(h)
                      \/ DropListing(h) \/ RemoveListing(h)
  \/ \E r \in HostRuns : Dial(r) \/ Say(r) \/ HangUp(r) \/ RelayLine(r) \/ ReleaseConn(r)

----------------------------------------------------------------------------
(* Properties.                                                              *)

\* The extension hears of a run's end once, after everything the run said: an
\* operation that came later would open a tab nobody takes back.
ReleaseLast ==
  \A i, j \in DOMAIN toChrome :
    toChrome[i][2] = "release" /\ toChrome[j][1] = toChrome[i][1] /\ i # j => j < i
=============================================================================
