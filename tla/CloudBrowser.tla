---------------------------- MODULE CloudBrowser ----------------------------
(***************************************************************************)
(* One BrowserUseCloudBrowser: a browser another company's service creates *)
(* on a POST, meters while it runs and stops on a PATCH.                   *)
(*                                                                         *)
(* The value's owner awaits `start` and `stop`, and may drop either future *)
(* at any await, or the value itself.  Two kinds of spawned task outlive   *)
(* the future that spawned them: `create`, which sends the POST and keeps  *)
(* the id, and `finish`, which waits for a creation still in flight and    *)
(* sends the PATCH.  The hazard throughout is money: a browser nobody      *)
(* stops bills until its timeout.                                          *)
(***************************************************************************)
EXTENDS Naturals, Sequences

CONSTANTS
  StopAttempts,   \* STOP_ATTEMPTS: PATCHes one `finish` sends at most
  MaxStops        \* bound: `finish` tasks the owner may spawn with `stop`

ASSUME StopAttemptsAssumption == StopAttempts \in Nat \ {0}
ASSUME MaxStopsAssumption == MaxStops \in Nat

VARIABLES
  at,          \* where the owner is: an await of `start` or `stop`, or between
  connection,  \* whether `self.connection` is set
  creating,    \* whether `self.creating` holds the `create` task
  stopping,    \* the `finish` task `self.stopping` holds, 0 for none
  post,        \* the `create` task: not sent, in flight, or how it ended
  finishers,   \* every `finish` task spawned, in order
  id,          \* whether the shared state holds the browser's id
  cost,        \* the reading the shared state holds
  service,     \* the service's own browser
  kept,        \* whether `keep` let the browser go
  ended        \* how the last `start` and `stop` that returned ended

cloudVars == <<at, connection, creating, stopping, post, finishers, id, cost,
               service, kept, ended>>

(* A `create` that ended: with a readable browser; with an id and nothing   *)
(* else readable; answered or timed out without an id, though the service   *)
(* made the browser; or refused.                                           *)
PostEnds == {"ok", "bare", "lost", "refused"}

FinisherPhases == {"reading", "patching", "ok", "failed"}

CloudTypeOK ==
  /\ at \in {"new", "starting", "probing", "rollback", "idle", "stopping",
             "dropped"}
  /\ connection \in BOOLEAN
  /\ creating \in BOOLEAN
  /\ post \in {"unsent", "flying"} \cup PostEnds
  /\ finishers \in Seq([phase : FinisherPhases, awaits : BOOLEAN,
                        tries : 0..(StopAttempts - 1)])
  /\ stopping \in 0..Len(finishers)
  /\ id \in BOOLEAN
  /\ cost \in {"none", "early", "final"}
  /\ service \in {"none", "running", "stopped"}
  /\ kept \in BOOLEAN
  /\ ended \in [start : {"none", "ok", "err"}, stop : {"none", "ok", "err"}]

CloudInit ==
  /\ at = "new"
  /\ connection = FALSE
  /\ creating = FALSE
  /\ stopping = 0
  /\ post = "unsent"
  /\ finishers = <<>>
  /\ id = FALSE
  /\ cost = "none"
  /\ service = "none"
  /\ kept = FALSE
  /\ ended = [start |-> "none", stop |-> "none"]

-----------------------------------------------------------------------------
(* The tasks that outlive the owner.                                       *)

Living(f) == finishers[f].phase \in {"reading", "patching"}

(* A `finish` task takes the `create` handle with it, if the value had one. *)
Finisher(handle) == [phase |-> "reading", awaits |-> handle, tries |-> 0]

(* The POST's answer reaches the `create` task.  The id is kept before the  *)
(* rest of the answer is read.                                             *)
CreateAnswered ==
  /\ post = "flying"
  /\ \E answer \in PostEnds :
       /\ post' = answer
       /\ service' = IF answer = "refused" THEN service ELSE "running"
       /\ id' = (answer \in {"ok", "bare"})
       /\ cost' = IF answer = "ok" THEN "early" ELSE cost
  /\ UNCHANGED <<at, connection, creating, stopping, finishers, kept, ended>>

(* `finish` waits for the creation it was handed, then reads the id: with   *)
(* none there is nothing to stop.                                          *)
FinishReads(f) ==
  /\ finishers[f].phase = "reading"
  /\ finishers[f].awaits => post # "flying"
  /\ finishers' = [finishers EXCEPT ![f].phase = IF id THEN "patching"
                                                       ELSE "ok"]
  /\ UNCHANGED <<at, connection, creating, stopping, post, id, cost, service,
                 kept, ended>>

(* A PATCH is answered: the id is forgotten once the stop succeeded, the    *)
(* reading is replaced if the answer can be read.                          *)
FinishStopped(f) ==
  /\ finishers[f].phase = "patching"
  /\ service' = "stopped"
  /\ id' = FALSE
  /\ \E readable \in BOOLEAN :
       /\ finishers' = [finishers EXCEPT ![f].phase = IF readable
                                                      THEN "ok" ELSE "failed"]
       /\ cost' = IF readable THEN "final" ELSE cost
  /\ UNCHANGED <<at, connection, creating, stopping, post, kept, ended>>

(* A PATCH that the service throttled, or whose answer was lost after it    *)
(* may have acted: tried again until the attempts or the wait run out.      *)
FinishRetries(f) ==
  /\ finishers[f].phase = "patching"
  /\ finishers[f].tries + 1 < StopAttempts
  /\ service' \in {service, "stopped"}
  /\ finishers' = [finishers EXCEPT ![f].tries = @ + 1]
  /\ UNCHANGED <<at, connection, creating, stopping, post, id, cost, kept,
                 ended>>

(* The last attempt, the wait's end or a refusal: the id stays, so that the *)
(* stop can be tried again.                                                *)
FinishGivesUp(f) ==
  /\ finishers[f].phase = "patching"
  /\ service' \in {service, "stopped"}
  /\ finishers' = [finishers EXCEPT ![f].phase = "failed"]
  /\ UNCHANGED <<at, connection, creating, stopping, post, id, cost, kept,
                 ended>>

CloudTasks ==
  \/ CreateAnswered
  \/ \E f \in 1..Len(finishers) :
       FinishReads(f) \/ FinishStopped(f) \/ FinishRetries(f)
         \/ FinishGivesUp(f)

-----------------------------------------------------------------------------
(* The owner.                                                              *)

(* `stop` awaits the `finish` task a dropped `stop` left, or spawns one.    *)
AwaitFinish(handle) ==
  IF stopping # 0
    THEN UNCHANGED <<finishers, stopping>>
    ELSE /\ finishers' = Append(finishers, Finisher(handle))
         /\ stopping' = Len(finishers) + 1

(* `start` spawns the POST and waits for it.                                *)
Start ==
  /\ at = "new"
  /\ at' = "starting"
  /\ creating' = TRUE
  /\ post' = "flying"
  /\ UNCHANGED <<connection, stopping, finishers, id, cost, service, kept,
                 ended>>

(* `connect` has its browser and asks it for the DevTools address.          *)
Created ==
  /\ at = "starting"
  /\ post = "ok"
  /\ creating' = FALSE
  /\ at' = "probing"
  /\ UNCHANGED <<connection, stopping, post, finishers, id, cost, service,
                 kept, ended>>

Connected ==
  /\ at = "probing"
  /\ at' = "idle"
  /\ connection' = TRUE
  /\ ended' = [ended EXCEPT !.start = "ok"]
  /\ UNCHANGED <<creating, stopping, post, finishers, id, cost, service, kept>>

(* Nothing was created, or it has no DevTools address: `start` stops what   *)
(* there is before it returns the error.                                   *)
ConnectFails ==
  /\ \/ at = "starting" /\ post \in PostEnds \ {"ok"}
     \/ at = "probing"
  /\ creating' = FALSE
  /\ AwaitFinish(FALSE)
  /\ at' = "rollback"
  /\ connection' = FALSE
  /\ UNCHANGED <<post, id, cost, service, kept, ended>>

Stop ==
  /\ at = "idle"
  /\ at' = "stopping"
  /\ connection' = FALSE
  /\ AwaitFinish(creating)
  /\ creating' = IF stopping # 0 THEN creating ELSE FALSE
  /\ UNCHANGED <<post, id, cost, service, kept, ended>>

(* The `finish` task being awaited ended: `stop` returns what it returned,  *)
(* or `start` returns the error it was rolling back for.                   *)
StopReturns ==
  /\ at \in {"rollback", "stopping"}
  /\ ~Living(stopping)
  /\ stopping' = 0
  /\ at' = "idle"
  /\ ended' = IF at = "rollback"
                THEN [ended EXCEPT !.start = "err"]
                ELSE [ended EXCEPT !.stop = IF finishers[stopping].phase = "ok"
                                              THEN "ok" ELSE "err"]
  /\ UNCHANGED <<connection, creating, post, finishers, id, cost, service,
                 kept>>

(* The future of `start` or `stop` is dropped where it waits.               *)
LetGo ==
  /\ at \in {"starting", "probing", "rollback", "stopping"}
  /\ at' = "idle"
  /\ UNCHANGED <<connection, creating, stopping, post, finishers, id, cost,
                 service, kept, ended>>

(* Mutant: a destructor that stops only a browser whose id it knows.        *)
DropKnownOnly ==
  /\ at \in {"new", "idle"}
  /\ at' = "dropped"
  /\ IF stopping # 0 \/ ~id
       THEN UNCHANGED finishers
       ELSE finishers' = Append(finishers, Finisher(creating))
  /\ UNCHANGED <<connection, creating, stopping, post, id, cost, service, kept,
                 ended>>

(* The value is dropped: a browser it may still have is stopped behind it,  *)
(* unless a `finish` task already sees to that.                            *)
Drop ==
  /\ at \in {"new", "idle"}
  /\ at' = "dropped"
  /\ IF stopping # 0 \/ (~id /\ ~creating)
       THEN UNCHANGED <<finishers, creating>>
       ELSE /\ finishers' = Append(finishers, Finisher(creating))
            /\ creating' = FALSE
  /\ UNCHANGED <<connection, stopping, post, id, cost, service, kept, ended>>

(* `keep` hands a started browser to whoever holds its id.                  *)
Keep ==
  /\ at = "idle"
  /\ connection
  /\ connection' = FALSE
  /\ id' = FALSE
  /\ kept' = TRUE
  /\ UNCHANGED <<at, creating, stopping, post, finishers, cost, service, ended>>

(* An owner free to call, drop and keep in any order; `stop` is bounded.    *)
CloudOwner ==
  \/ Start \/ Created \/ Connected \/ ConnectFails
  \/ (Len(finishers) < MaxStops /\ Stop)
  \/ StopReturns \/ LetGo \/ Drop \/ Keep

CloudNext == CloudTasks \/ CloudOwner

-----------------------------------------------------------------------------
(* Properties.                                                             *)

GaveUp == \E f \in 1..Len(finishers) : finishers[f].phase = "failed"

(* However `start`, `stop` and drops interleave, at most one `finish` task  *)
(* lives: a dropped `stop` leaves one that the next `stop` must await and   *)
(* the destructor must not double (browser_use_cloud.rs, stop and Drop).    *)
OneFinisher ==
  \A f, g \in 1..Len(finishers) : Living(f) /\ Living(g) => f = g

(* "A browser created by a start that then fails is stopped before the     *)
(* error returns": whenever start has returned an error, a browser whose    *)
(* id was learnt no longer runs, or its stop was given up on.              *)
FailedStartStopped ==
  ended.start = "err" /\ post \in {"ok", "bare"}
    => service = "stopped" \/ GaveUp

(* `keep` means kept: no task the value ever spawned stops the browser      *)
(* after it.                                                               *)
KeptStaysUp == [][kept => service' = service]_cloudVars

(* Whatever was in flight when the value was dropped, a browser whose id    *)
(* reached the process is stopped, or a `finish` task said that it gave up. *)
NotAbandoned ==
  (at = "dropped" /\ ~kept /\ service = "running" /\ post \in {"ok", "bare"})
    ~> (service = "stopped" \/ GaveUp)

=============================================================================
