----------------------------- MODULE LocalChrome -----------------------------
(***************************************************************************)
(* Chrome on this machine (fastbrowse-browser: adapters/local_chrome.rs).  *)
(*                                                                         *)
(* Each owner is a fastbrowse process that launches one Chrome, with a     *)
(* throwaway profile of its own or with a profile the user keeps.  A       *)
(* process that is killed cleans nothing up, so every launch with a        *)
(* throwaway profile also sweeps the shared temporary directory of         *)
(* profiles whose owner and Chrome have both exited, concurrently with     *)
(* other processes' launches.                                              *)
(***************************************************************************)
EXTENDS Naturals, FiniteSets

CONSTANT
  Owners      \* the fastbrowse processes sharing one temporary directory

ASSUME OwnersAssumption == Owners \cap {"none", "kept"} = {}

VARIABLES
  contained,  \* the owners in a PID namespace of their own
  step,       \* where each owner's `launch` or `close` is
  keeps,      \* whether it was given a profile to keep
  chrome,     \* its Chrome process
  profiles,   \* the throwaway profiles on disk, by the owner their name carries
  locks,      \* the Chrome each profile's SingletonLock names
  ports,      \* the Chrome whose address each profile's DevToolsActivePort holds
  found,      \* the Chrome whose address the launch returned
  sweeps,     \* each owner's sweep: what it has listed, and how far each is judged
  earlier     \* history: the Chromes listening when the owner cleared the port file

chromeVars == <<contained, step, keeps, chrome, profiles, locks, ports, found, sweeps, earlier>>

None == "none"
Alive(c) == chrome[c] \in {"starting", "locked", "listening"}
OwnerAlive(o) == step[o] \notin {"killed", "gone"}
\* A kept profile is one directory whoever launches with it.
Profile(o) == IF keeps[o] THEN "kept" ELSE o
Dirs == Owners \cup {"kept"}
Launched == {"made", "cleared", "waiting", "ready"}

ChromeTypeOK ==
  /\ contained \subseteq Owners
  /\ step \in [Owners -> {"idle", "closing", "closed", "failing", "failed", "killed", "gone"} \cup Launched]
  /\ keeps \in [Owners -> BOOLEAN]
  /\ chrome \in [Owners -> {"none", "starting", "locked", "listening", "exited"}]
  /\ profiles \subseteq Owners
  /\ locks \in [Dirs -> Owners \cup {None}] /\ ports \in [Dirs -> Owners \cup {None}]
  /\ found \in [Owners -> Owners \cup {None}]
  /\ sweeps \in [Owners -> SUBSET (Owners \X {"list", "listed", "dead", "orphan"})]
  /\ earlier \in [Owners -> SUBSET Owners]

ChromeInit ==
  /\ contained \in SUBSET Owners
  /\ step = [o \in Owners |-> "idle"] /\ keeps = [o \in Owners |-> FALSE]
  /\ chrome = [o \in Owners |-> "none"] /\ profiles = {}
  /\ locks = [d \in Dirs |-> None] /\ ports = [d \in Dirs |-> None]
  /\ found = [o \in Owners |-> None] /\ sweeps = [o \in Owners |-> {}] /\ earlier = [o \in Owners |-> {}]

----------------------------------------------------------------------------
(* `launch` and `start`.                                                    *)

\* `find_chrome` found nothing.
NotInstalled(o) ==
  /\ step[o] = "idle" /\ step' = [step EXCEPT ![o] = "failed"]
  /\ UNCHANGED <<contained, keeps, chrome, profiles, locks, ports, found, sweeps, earlier>>

\* A throwaway profile: the sweep is started behind the launch, which does not
\* wait for it.
MakeProfile(o) ==
  /\ step[o] = "idle" /\ step' = [step EXCEPT ![o] = "made"]
  /\ profiles' = profiles \cup {o} /\ sweeps' = [sweeps EXCEPT ![o] = {<<o, "list">>}]
  /\ UNCHANGED <<contained, keeps, chrome, locks, ports, found, earlier>>
KeepProfile(o) ==
  /\ step[o] = "idle" /\ step' = [step EXCEPT ![o] = "made"] /\ keeps' = [keeps EXCEPT ![o] = TRUE]
  /\ UNCHANGED <<contained, chrome, profiles, locks, ports, found, sweeps, earlier>>

\* The log is opened, the address an earlier Chrome left is removed, and the
\* password manager is turned off in the profile's preferences.
ClearPort(o) ==
  /\ step[o] = "made" /\ step' = [step EXCEPT ![o] = "cleared"]
  /\ ports' = [ports EXCEPT ![Profile(o)] = None]
  /\ earlier' = [earlier EXCEPT ![o] = {c \in Owners : chrome[c] = "listening"}]
  /\ UNCHANGED <<contained, keeps, chrome, profiles, locks, found, sweeps>>

Spawn(o) ==
  /\ step[o] = "cleared" /\ step' = [step EXCEPT ![o] = "waiting"]
  /\ chrome' = [chrome EXCEPT ![o] = "starting"]
  /\ UNCHANGED <<contained, keeps, profiles, locks, ports, found, sweeps, earlier>>

\* A file that cannot be opened or written, preferences that are not JSON, a
\* binary that cannot be run: `launch` closes what there is.
StartFails(o) ==
  /\ step[o] \in {"made", "cleared"} /\ step' = [step EXCEPT ![o] = "failing"]
  /\ UNCHANGED <<contained, keeps, chrome, profiles, locks, ports, found, sweeps, earlier>>

\* `wait_for_ws`: the child's exit is looked at before the file.
PollExited(o) ==
  /\ step[o] = "waiting" /\ chrome[o] = "exited" /\ step' = [step EXCEPT ![o] = "failing"]
  /\ UNCHANGED <<contained, keeps, chrome, profiles, locks, ports, found, sweeps, earlier>>
PollAnswered(o) ==
  /\ step[o] = "waiting" /\ chrome[o] # "exited"
  /\ ports[Profile(o)] # None /\ chrome[ports[Profile(o)]] = "listening"
  /\ found' = [found EXCEPT ![o] = ports[Profile(o)]] /\ step' = [step EXCEPT ![o] = "ready"]
  /\ UNCHANGED <<contained, keeps, chrome, profiles, locks, ports, sweeps, earlier>>
\* DEVTOOLS_TIMEOUT, or an answer that names no address.
PollGivesUp(o) ==
  /\ step[o] = "waiting" /\ chrome[o] # "exited" /\ step' = [step EXCEPT ![o] = "failing"]
  /\ UNCHANGED <<contained, keeps, chrome, profiles, locks, ports, found, sweeps, earlier>>

----------------------------------------------------------------------------
(* `close`, and Drop.                                                       *)

Close(o) ==
  /\ step[o] = "ready" /\ step' = [step EXCEPT ![o] = "closing"]
  /\ UNCHANGED <<contained, keeps, chrome, profiles, locks, ports, found, sweeps, earlier>>

\* SIGTERM, ten seconds, SIGKILL, then the files: what Chrome does meanwhile is
\* interleaved before this step.
CloseWithin(o) ==
  /\ step[o] \in {"closing", "failing"}
  /\ step' = [step EXCEPT ![o] = IF step[o] = "closing" THEN "closed" ELSE "failed"]
  /\ chrome' = [chrome EXCEPT ![o] = IF Alive(o) THEN "exited" ELSE @]
  /\ profiles' = IF keeps[o] THEN profiles ELSE profiles \ {o}
  /\ UNCHANGED <<contained, keeps, locks, ports, found, sweeps, earlier>>

\* The future or the value is dropped, at any await.
DropChrome(o) ==
  /\ step[o] \in Launched \cup {"closing", "failing"} /\ step' = [step EXCEPT ![o] = "failed"]
  /\ chrome' = [chrome EXCEPT ![o] = IF Alive(o) THEN "exited" ELSE @]
  /\ profiles' = IF keeps[o] THEN profiles ELSE profiles \ {o}
  /\ UNCHANGED <<contained, keeps, locks, ports, found, sweeps, earlier>>

\* The process is killed, its sweep with it, or exits once it is done.
Killed(o) ==
  /\ step[o] \notin {"killed", "gone", "idle"}
  /\ step' = [step EXCEPT ![o] = IF @ \in {"closed", "failed"} THEN "gone" ELSE "killed"]
  /\ sweeps' = [sweeps EXCEPT ![o] = {}]
  /\ UNCHANGED <<contained, keeps, chrome, profiles, locks, ports, found, earlier>>

----------------------------------------------------------------------------
(* Chrome itself, external: it takes the profile's lock and writes its port, *)
(* hands over to a Chrome that holds the profile already, or exits.          *)

ChromeLocks(o) ==
  /\ chrome[o] = "starting"
  /\ LET holder == locks[Profile(o)] IN
     IF holder # None /\ Alive(holder)
     THEN chrome' = [chrome EXCEPT ![o] = "exited"] /\ UNCHANGED locks
     ELSE chrome' = [chrome EXCEPT ![o] = "locked"] /\ locks' = [locks EXCEPT ![Profile(o)] = o]
  /\ UNCHANGED <<contained, step, keeps, profiles, ports, found, sweeps, earlier>>
ChromeListens(o) ==
  /\ chrome[o] = "locked" /\ chrome' = [chrome EXCEPT ![o] = "listening"]
  /\ ports' = [ports EXCEPT ![Profile(o)] = o]
  /\ UNCHANGED <<contained, step, keeps, profiles, locks, found, sweeps, earlier>>
ChromeExits(o) ==
  /\ Alive(o) /\ chrome' = [chrome EXCEPT ![o] = "exited"]
  /\ UNCHANGED <<contained, step, keeps, profiles, locks, ports, found, sweeps, earlier>>

----------------------------------------------------------------------------
(* `sweep_orphaned_profiles`, one file operation at a time.                 *)

SweepAdvance(o, d, from, to) == sweeps' = [sweeps EXCEPT ![o] = (@ \ {<<d, from>>}) \cup {<<e, to>> : e \in {d} \cap profiles}]
SweepSpares(o, d, from) == sweeps' = [sweeps EXCEPT ![o] = @ \ {<<d, from>>}]

\* Mutant: the namespace in a profile's name is not looked at.
SweepListEverywhere(o) ==
  /\ <<o, "list">> \in sweeps[o] /\ sweeps' = [sweeps EXCEPT ![o] = {<<d, "listed">> : d \in profiles}]
  /\ UNCHANGED <<contained, step, keeps, chrome, profiles, locks, ports, found, earlier>>
\* Only profiles of this PID namespace are judged.
SweepList(o) ==
  /\ <<o, "list">> \in sweeps[o]
  /\ sweeps' = [sweeps EXCEPT ![o] =
       {<<d, "listed">> : d \in IF o \in contained THEN profiles \cap {o} ELSE profiles \ contained}]
  /\ UNCHANGED <<contained, step, keeps, chrome, profiles, locks, ports, found, earlier>>

\* `process_alive`: a pid of another namespace names no process in this one.
SweepOwner(o, d) ==
  /\ <<d, "listed">> \in sweeps[o]
  /\ IF OwnerAlive(d) /\ (d = o \/ {d, o} \cap contained = {}) THEN SweepSpares(o, d, "listed") ELSE SweepAdvance(o, d, "listed", "dead")
  /\ UNCHANGED <<contained, step, keeps, chrome, profiles, locks, ports, found, earlier>>
\* `SingletonLock`: a Chrome that outlived its owner keeps the profile.
SweepLock(o, d) ==
  /\ <<d, "dead">> \in sweeps[o]
  /\ IF locks[d] # None /\ Alive(locks[d]) THEN SweepSpares(o, d, "dead") ELSE SweepAdvance(o, d, "dead", "orphan")
  /\ UNCHANGED <<contained, step, keeps, chrome, profiles, locks, ports, found, earlier>>
SweepRemoves(o, d) ==
  /\ <<d, "orphan">> \in sweeps[o]
  /\ profiles' = profiles \ {d} /\ SweepSpares(o, d, "orphan")
  /\ UNCHANGED <<contained, step, keeps, chrome, locks, ports, found, earlier>>

----------------------------------------------------------------------------

ChromeNext == \E o \in Owners :
  \/ NotInstalled(o) \/ MakeProfile(o) \/ KeepProfile(o) \/ ClearPort(o) \/ Spawn(o) \/ StartFails(o)
  \/ PollExited(o) \/ PollAnswered(o) \/ PollGivesUp(o)
  \/ Close(o) \/ CloseWithin(o) \/ DropChrome(o) \/ Killed(o)
  \/ ChromeLocks(o) \/ ChromeListens(o) \/ ChromeExits(o)
  \/ SweepList(o) \/ \E d \in Owners : SweepOwner(o, d) \/ SweepLock(o, d) \/ SweepRemoves(o, d)

----------------------------------------------------------------------------
(* Properties.                                                              *)

\* A profile is never swept from under the process that launched with it, nor
\* from under a Chrome that held its lock when the sweep looked.
InUseNotSwept ==
  \A o \in Owners : ~keeps[o] =>
    /\ step[o] \in Launched \cup {"closing", "failing"} => o \in profiles
    /\ \A s \in Owners : <<o, "orphan">> \in sweeps[s] => ~OwnerAlive(o)

\* "A launch that fails leaves no process and no throwaway profile behind", and
\* neither does one that was closed or dropped.
NothingLeftBehind ==
  \A o \in Owners : step[o] \in {"failed", "closed", "gone"} =>
    chrome[o] \in {"none", "exited"} /\ (~keeps[o] => o \notin profiles)

\* A launch never returns the address of a Chrome that was there before it.
NotAnEarlierChrome == \A o \in Owners : found[o] \notin earlier[o]

=============================================================================
