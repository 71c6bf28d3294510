-------------------------- MODULE CloudBrowserProofs --------------------------
(***************************************************************************)
(* The inductive invariant of CloudBrowser, for any number of attempts and *)
(* stops.  It is kept by every step an owner may take, so it holds of the  *)
(* browser on its own (BrowsersProofs) and of the one a run owns           *)
(* (RunTaskProofs).  Both also use its lemma of induction over naturals.   *)
(***************************************************************************)
EXTENDS CloudBrowser, WellFoundedInduction, TLAPS

\* Induction over the naturals, on the set of the numbers shown so far.
LEMMA NatsFromZero ==
  ASSUME NEW T \in SUBSET Nat, 0 \in T, \A n \in T : n + 1 \in T
  PROVE  T = Nat
<1> SUFFICES ASSUME Nat \ T # {} PROVE FALSE
  OBVIOUS
<1>1. PICK n \in Nat \ T : \A k \in Nat \ T : ~(<<k, n>> \in OpToRel(<, Nat))
  BY NatLessThanWellFounded, WFMin, Zenon
<1>2. n # 0 /\ n - 1 \in Nat
  OBVIOUS
<1>3. <<n - 1, n>> \in OpToRel(<, Nat)
  BY <1>2 DEF OpToRel
<1>4. n - 1 \in T
  BY <1>1, <1>2, <1>3
<1> QED BY <1>2, <1>4

Finishing == [phase : FinisherPhases, awaits : BOOLEAN, tries : 0..(StopAttempts - 1)]

\* A `finish` task that lives is the last one spawned, and `stop` awaits it or
\* the value is gone.
LastFinishes ==
  /\ \A f \in 1..Len(finishers) : Living(f) => f = Len(finishers) /\ (stopping = f \/ at = "dropped")
  /\ stopping # 0 => stopping = Len(finishers)
  /\ at \in {"rollback", "stopping"} => stopping # 0
  /\ at \in {"new", "starting", "probing"} \/ connection => stopping = 0

\* What the process knows of the browser, and of how its start ended.
Learnt ==
  /\ post \in {"unsent", "flying"} => service = "none" /\ ~id
  /\ id => post \in {"ok", "bare"}
  /\ post \in {"ok", "bare"} => id \/ service = "stopped" \/ kept
  /\ \A f \in 1..Len(finishers) : finishers[f].phase = "patching" => post \in {"ok", "bare"} /\ ~kept
  /\ kept => ~id /\ post = "ok"
  /\ post = "unsent" => at \in {"new", "dropped"}
  /\ at = "new" => post = "unsent"
  /\ at = "probing" \/ connection => post = "ok"

StartEnds ==
  /\ at \in {"new", "starting", "probing", "rollback"} => ended.start = "none" /\ ~kept /\ ~connection
  /\ connection \/ kept => ended.start = "ok"
  /\ at = "rollback" => post \in PostEnds
  /\ at = "rollback" /\ post \in {"ok", "bare"} /\ finishers[stopping].phase = "ok" => service = "stopped"
  /\ ended.start = "err" => post \in PostEnds
  /\ FailedStartStopped

CloudInv == CloudTypeOK /\ LastFinishes /\ Learnt /\ StartEnds

LEMMA CloudBegins ==
  ASSUME CloudInit
  PROVE  CloudInv
<1>1. finishers = <<>> /\ Len(finishers) = 0 /\ <<>> \in Seq(Finishing)
  BY DEF CloudInit
<1>2. CloudTypeOK
  <2>1. finishers \in Seq(Finishing) /\ stopping \in 0..Len(finishers)
    BY <1>1 DEF CloudInit
  <2>2. [start |-> "none", stop |-> "none"] \in [start : {"none", "ok", "err"}, stop : {"none", "ok", "err"}]
    OBVIOUS
  <2>3. creating \in BOOLEAN /\ connection \in BOOLEAN /\ id \in BOOLEAN /\ kept \in BOOLEAN
    BY DEF CloudInit
  <2> QED BY <2>1, <2>2, <2>3 DEF CloudInit, CloudTypeOK, Finishing, PostEnds
<1>3. LastFinishes
  BY <1>1 DEF CloudInit, LastFinishes
<1>4. Learnt
  BY <1>1 DEF CloudInit, Learnt
<1>5. StartEnds
  BY <1>1 DEF CloudInit, StartEnds, FailedStartStopped
<1> QED BY <1>2, <1>3, <1>4, <1>5 DEF CloudInv

LEMMA FinisherOfSeq ==
  ASSUME NEW S, NEW q \in Seq(S), NEW i \in 1..Len(q)
  PROVE  q[i] \in S
OBVIOUS

\* One `finish` task moves on; the others stay as they were.
LEMMA OneMoves ==
  ASSUME CloudInv, NEW f \in 1..Len(finishers), NEW t \in Finishing, finishers' = [finishers EXCEPT ![f] = t]
  PROVE  /\ finishers' \in Seq(Finishing) /\ Len(finishers') = Len(finishers) /\ finishers'[f] = t
         /\ \A g \in 1..Len(finishers) : g # f => finishers'[g] = finishers[g]
<1>1. finishers \in Seq(Finishing)
  BY DEF CloudInv, CloudTypeOK, Finishing
<1> HIDE DEF Finishing
<1> QED BY <1>1

\* A living task's step: it stays the last; what it did to the browser it was
\* entitled to.
LEMMA TaskMoves ==
  ASSUME CloudInv, NEW f \in 1..Len(finishers), NEW t \in Finishing, finishers' = [finishers EXCEPT ![f] = t], Living(f),
         UNCHANGED <<at, connection, creating, stopping, post, kept, ended>>,
         cost' \in {"none", "early", "final"}, service' \in {service, "stopped"}, id' \in {id, FALSE},
         finishers[f].phase # "patching" => UNCHANGED <<service, id>>,
         id' # id => service' = "stopped",
         t.phase = "patching" => id \/ finishers[f].phase = "patching",
         t.phase = "ok" => service' = "stopped" \/ ~id
  PROVE  CloudInv'
<1>0. CloudTypeOK /\ LastFinishes /\ Learnt /\ StartEnds
  BY DEF CloudInv
<1>1. /\ finishers' \in Seq(Finishing) /\ Len(finishers') = Len(finishers) /\ finishers'[f] = t
      /\ \A g \in 1..Len(finishers) : g # f => finishers'[g] = finishers[g]
  BY OneMoves
<1>2. f = Len(finishers) /\ Len(finishers) \in Nat
  <2>1. finishers \in Seq(Finishing)
    BY <1>0 DEF CloudTypeOK, Finishing
  <2>2. Len(finishers) \in Nat
    BY <2>1
  <2> QED BY <1>0, <2>2 DEF LastFinishes
<1>3. CloudTypeOK'
  <2>1. stopping' \in 0..Len(finishers') /\ id' \in BOOLEAN /\ service' \in {"none", "running", "stopped"}
    BY <1>0, <1>1 DEF CloudTypeOK
  <2> QED BY <1>0, <1>1, <2>1 DEF CloudTypeOK, Finishing
<1> HIDE DEF Finishing
<1>4. LastFinishes'
  BY <1>0, <1>1, <1>2 DEF LastFinishes, Living
<1>5. finishers[f].phase = "patching" => post \in {"ok", "bare"} /\ ~kept
  BY <1>0 DEF Learnt
<1>6. Learnt'
  <2>1. id /\ kept => FALSE
    BY <1>0 DEF Learnt
  <2>2. \A g \in 1..Len(finishers') : finishers'[g].phase = "patching" => post' \in {"ok", "bare"} /\ ~kept'
    BY <1>0, <1>1, <1>5, <2>1 DEF Learnt
  <2>3. /\ post' \in {"unsent", "flying"} => service' = "none" /\ ~id'
        /\ id' => post' \in {"ok", "bare"}
        /\ post' \in {"ok", "bare"} => id' \/ service' = "stopped" \/ kept'
        /\ kept' => ~id' /\ post' = "ok"
    BY <1>0, <1>5 DEF Learnt, CloudTypeOK
  <2> QED BY <1>0, <2>2, <2>3 DEF Learnt
<1>7. service = "stopped" => service' = "stopped"
  OBVIOUS
<1>8. StartEnds'
  <2>1. GaveUp => GaveUp'
    BY <1>1 DEF GaveUp, Living
  <2>2. FailedStartStopped'
    BY <1>0, <1>7, <2>1 DEF StartEnds, FailedStartStopped
  <2>3. at' = "rollback" /\ post' \in {"ok", "bare"} /\ finishers'[stopping'].phase = "ok" => service' = "stopped"
    <3> SUFFICES ASSUME at = "rollback", post \in {"ok", "bare"}, finishers'[stopping].phase = "ok"
                 PROVE  service' = "stopped"
      OBVIOUS
    <3>1. stopping = f
      BY <1>0, <1>2 DEF LastFinishes
    <3>2. t.phase = "ok" /\ ~kept
      BY <1>0, <1>1, <3>1 DEF StartEnds
    <3> QED BY <1>0, <1>7, <3>2 DEF Learnt
  <2> QED BY <1>0, <2>2, <2>3 DEF StartEnds
<1> QED BY <1>3, <1>4, <1>6, <1>8 DEF CloudInv

LEMMA FinishersKeep ==
  ASSUME CloudInv, NEW f \in 1..Len(finishers), FinishReads(f) \/ FinishStopped(f) \/ FinishRetries(f) \/ FinishGivesUp(f)
  PROVE  CloudInv'
<1>1. finishers \in Seq(Finishing) /\ finishers[f] \in Finishing
  <2>1. finishers \in Seq(Finishing)
    BY DEF CloudInv, CloudTypeOK, Finishing
  <2> HIDE DEF Finishing
  <2> QED BY <2>1
<1>2. cost \in {"none", "early", "final"} /\ service \in {"none", "running", "stopped"} /\ id \in BOOLEAN
  BY DEF CloudInv, CloudTypeOK
<1>3. \A p \in FinisherPhases : [finishers[f] EXCEPT !.phase = p] \in Finishing /\ [finishers[f] EXCEPT !.phase = p].phase = p
  BY <1>1 DEF Finishing
<1>4. Living(f)
  BY DEF FinishReads, FinishStopped, FinishRetries, FinishGivesUp, Living
<1>5. CASE FinishReads(f)
  <2>1. PICK p \in {"patching", "ok"} : finishers' = [finishers EXCEPT ![f] = [finishers[f] EXCEPT !.phase = p]] /\ (p = "patching" <=> id)
    BY <1>1, <1>2, <1>5 DEF FinishReads
  <2> DEFINE t == [finishers[f] EXCEPT !.phase = p]
  <2>2. t \in Finishing /\ t.phase = p
    BY <1>3, <2>1 DEF FinisherPhases
  <2> HIDE DEF t
  <2>3. finishers' = [finishers EXCEPT ![f] = t]
    BY <2>1 DEF t
  <2>4. UNCHANGED <<at, connection, creating, stopping, post, kept, ended, service, id, cost>>
    BY <1>5 DEF FinishReads
  <2> QED BY <1>2, <1>4, <2>1, <2>2, <2>3, <2>4, TaskMoves
<1>6. CASE FinishStopped(f)
  <2>1. PICK p \in {"ok", "failed"} : finishers' = [finishers EXCEPT ![f] = [finishers[f] EXCEPT !.phase = p]] /\ cost' \in {cost, "final"}
    BY <1>1, <1>2, <1>6 DEF FinishStopped
  <2> DEFINE t == [finishers[f] EXCEPT !.phase = p]
  <2>2. t \in Finishing /\ t.phase = p
    BY <1>3, <2>1 DEF FinisherPhases
  <2> HIDE DEF t
  <2>3. finishers' = [finishers EXCEPT ![f] = t]
    BY <2>1 DEF t
  <2>4. UNCHANGED <<at, connection, creating, stopping, post, kept, ended>> /\ service' = "stopped" /\ id' = FALSE /\ finishers[f].phase = "patching"
    BY <1>6 DEF FinishStopped
  <2> QED BY <1>2, <1>4, <2>1, <2>2, <2>3, <2>4, TaskMoves
<1>7. CASE FinishRetries(f)
  <2> DEFINE k == finishers[f].tries + 1
             t == [finishers[f] EXCEPT !.tries = k]
  <2>1. k \in 0..(StopAttempts - 1)
    BY <1>1, <1>7, StopAttemptsAssumption DEF FinishRetries, Finishing
  <2>2. finishers' = [finishers EXCEPT ![f] = t]
    BY <1>7 DEF FinishRetries
  <2> HIDE DEF k
  <2>3. t \in Finishing /\ t.phase = finishers[f].phase
    BY <1>1, <2>1 DEF Finishing
  <2> HIDE DEF t
  <2>4. UNCHANGED <<at, connection, creating, stopping, post, kept, ended, id, cost>> /\ service' \in {service, "stopped"} /\ finishers[f].phase = "patching"
    BY <1>7 DEF FinishRetries
  <2> QED BY <1>2, <1>4, <2>2, <2>3, <2>4, TaskMoves
<1>8. CASE FinishGivesUp(f)
  <2> DEFINE t == [finishers[f] EXCEPT !.phase = "failed"]
  <2>2. t \in Finishing /\ t.phase = "failed"
    BY <1>3 DEF FinisherPhases
  <2>3. finishers' = [finishers EXCEPT ![f] = t]
    BY <1>8 DEF FinishGivesUp
  <2> HIDE DEF t
  <2>4. UNCHANGED <<at, connection, creating, stopping, post, kept, ended, id, cost>> /\ service' \in {service, "stopped"} /\ finishers[f].phase = "patching"
    BY <1>8 DEF FinishGivesUp
  <2> QED BY <1>2, <1>4, <2>2, <2>3, <2>4, TaskMoves
<1> QED BY <1>5, <1>6, <1>7, <1>8

\* A `finish` task is spawned: none lives beside it.
LEMMA OneJoins ==
  ASSUME CloudInv, NEW handle \in BOOLEAN, finishers' = Append(finishers, Finisher(handle))
  PROVE  /\ finishers' \in Seq(Finishing) /\ Len(finishers') = Len(finishers) + 1 /\ Len(finishers) \in Nat
         /\ finishers'[Len(finishers) + 1].phase = "reading"
         /\ \A g \in 1..Len(finishers) : finishers'[g] = finishers[g]
<1>1. finishers \in Seq(Finishing)
  BY DEF CloudInv, CloudTypeOK, Finishing
<1> DEFINE t == Finisher(handle)
<1>2. t \in Finishing /\ t.phase = "reading"
  BY StopAttemptsAssumption DEF Finisher, Finishing, FinisherPhases
<1> HIDE DEF t, Finishing
<1>3. finishers' = Append(finishers, t)
  BY DEF t
<1> QED BY <1>1, <1>2, <1>3

\* The owner's steps that spawn no task.
LEMMA OwnerMoves ==
  ASSUME CloudInv, UNCHANGED finishers, CloudTypeOK',
         Start \/ Created \/ Connected \/ StopReturns \/ LetGo \/ Drop \/ Keep \/ Stop \/ CreateAnswered \/ UNCHANGED cloudVars
  PROVE  CloudInv'
<1>0. CloudTypeOK /\ LastFinishes /\ Learnt /\ StartEnds
  BY DEF CloudInv
<1>1. finishers \in Seq(Finishing) /\ Len(finishers) \in Nat
  <2>1. finishers \in Seq(Finishing)
    BY <1>0 DEF CloudTypeOK, Finishing
  <2> HIDE DEF Finishing
  <2> QED BY <2>1
<1>2. \A f : Living(f)' <=> Living(f)
  BY DEF Living
<1>3. GaveUp' <=> GaveUp
  BY DEF GaveUp
<1>4. CASE Start
  BY <1>0, <1>1, <1>2, <1>3, <1>4 DEF Start, CloudInv, LastFinishes, Learnt, StartEnds, FailedStartStopped, PostEnds
<1>5. CASE Created
  BY <1>0, <1>1, <1>2, <1>3, <1>5 DEF Created, CloudInv, LastFinishes, Learnt, StartEnds, FailedStartStopped, PostEnds
<1>6. CASE Connected
  <2>1. ended'.start = "ok"
    BY <1>0, <1>6 DEF Connected, CloudTypeOK
  <2>2. LastFinishes'
    BY <1>0, <1>2, <1>6 DEF Connected, LastFinishes
  <2>3. Learnt'
    BY <1>0, <1>6 DEF Connected, Learnt
  <2>4. StartEnds'
    BY <1>0, <1>6, <2>1 DEF Connected, StartEnds, FailedStartStopped
  <2> QED BY <2>2, <2>3, <2>4 DEF CloudInv
<1>7. CASE StopReturns
  <2>0. stopping # 0 /\ stopping = Len(finishers) /\ ~Living(stopping) /\ stopping \in 1..Len(finishers) /\ finishers[stopping].phase \in {"ok", "failed"}
    <3>1. stopping # 0 /\ stopping = Len(finishers) /\ ~Living(stopping) /\ stopping \in 1..Len(finishers)
      BY <1>0, <1>1, <1>7 DEF StopReturns, LastFinishes
    <3>2. finishers[stopping].phase \in FinisherPhases
      <4>1. finishers[stopping] \in Finishing
        BY <1>1, <3>1, FinisherOfSeq
      <4> QED BY <4>1 DEF Finishing
    <3> QED BY <3>1, <3>2 DEF FinisherPhases, Living
  <2>1. /\ at = "rollback" => ended'.start = "err"
        /\ at = "stopping" => ended'.start = ended.start
    BY <1>0, <1>7 DEF StopReturns, CloudTypeOK
  <2>2. LastFinishes'
    BY <1>0, <1>2, <1>7, <2>0 DEF StopReturns, LastFinishes, StartEnds
  <2>3. Learnt'
    BY <1>0, <1>7 DEF StopReturns, Learnt
  <2>4. FailedStartStopped'
    <3>1. CASE at = "stopping"
      BY <1>0, <1>3, <1>7, <2>1, <3>1 DEF StopReturns, StartEnds, FailedStartStopped
    <3>2. CASE at = "rollback"
      <4>1. finishers[stopping].phase = "failed" => GaveUp
        BY <2>0 DEF GaveUp
      <4> QED BY <1>0, <1>3, <1>7, <2>0, <3>2, <4>1 DEF StopReturns, StartEnds, FailedStartStopped
    <3> QED BY <1>7, <3>1, <3>2 DEF StopReturns
  <2>5. StartEnds'
    BY <1>0, <1>7, <2>1, <2>4 DEF StopReturns, StartEnds
  <2> QED BY <2>2, <2>3, <2>5 DEF CloudInv
<1>8. CASE LetGo
  BY <1>0, <1>1, <1>2, <1>3, <1>8 DEF LetGo, CloudInv, LastFinishes, Learnt, StartEnds, FailedStartStopped
<1>9. CASE Drop
  <2>1. at' = "dropped" /\ UNCHANGED <<connection, stopping, post, id, cost, service, kept, ended>>
    BY <1>9 DEF Drop
  <2>2. LastFinishes'
    BY <1>0, <1>2, <2>1 DEF LastFinishes
  <2>3. Learnt' /\ StartEnds'
    BY <1>0, <1>3, <2>1 DEF Learnt, StartEnds, FailedStartStopped
  <2> QED BY <2>2, <2>3 DEF CloudInv
<1>10. CASE Keep
  <2>1. \A f \in 1..Len(finishers) : ~Living(f)
    BY <1>0, <1>10 DEF Keep, LastFinishes
  <2>2. LastFinishes'
    BY <1>0, <1>2, <1>10 DEF Keep, LastFinishes
  <2>3. Learnt'
    BY <1>0, <1>10, <2>1 DEF Keep, Learnt, Living
  <2>4. StartEnds'
    BY <1>0, <1>3, <1>10 DEF Keep, StartEnds, FailedStartStopped
  <2> QED BY <2>2, <2>3, <2>4 DEF CloudInv
<1>11. CASE Stop
  <2>1. /\ at = "idle" /\ at' = "stopping" /\ connection' = FALSE /\ UNCHANGED <<stopping, post, id, cost, service, kept, ended>>
        /\ stopping # 0
    <3>1. finishers' # Append(finishers, Finisher(creating))
      <4>1. creating \in BOOLEAN
        BY <1>0 DEF CloudTypeOK
      <4>2. finishers' = Append(finishers, Finisher(creating)) => Len(finishers') = Len(finishers) + 1
        BY <4>1, OneJoins
      <4> QED BY <1>1, <4>2
    <3> QED BY <1>11, <3>1 DEF Stop, AwaitFinish
  <2>2. LastFinishes'
    BY <1>0, <1>2, <2>1 DEF LastFinishes
  <2>3. Learnt' /\ StartEnds'
    BY <1>0, <1>3, <2>1 DEF Learnt, StartEnds, FailedStartStopped
  <2> QED BY <2>2, <2>3 DEF CloudInv
<1>12. CASE CreateAnswered
  <2>1. PICK answer \in PostEnds :
          /\ post = "flying" /\ post' = answer /\ service' = (IF answer = "refused" THEN service ELSE "running")
          /\ id' = (answer \in {"ok", "bare"}) /\ UNCHANGED <<at, connection, creating, stopping, kept, ended>>
    BY <1>12 DEF CreateAnswered
  <2>2. LastFinishes'
    BY <1>0, <1>2, <2>1 DEF LastFinishes
  <2>3. Learnt'
    BY <1>0, <2>1 DEF Learnt, PostEnds
  <2>4. StartEnds'
    BY <1>0, <1>3, <2>1 DEF StartEnds, FailedStartStopped, PostEnds
  <2> QED BY <2>2, <2>3, <2>4 DEF CloudInv
<1>13. CASE UNCHANGED cloudVars
  BY <1>0, <1>2, <1>3, <1>13 DEF cloudVars, CloudInv, LastFinishes, Learnt, StartEnds, FailedStartStopped
<1> QED BY <1>4, <1>5, <1>6, <1>7, <1>8, <1>9, <1>10, <1>11, <1>12, <1>13

\* The owner's steps that spawn one.
LEMMA SpawnMoves ==
  ASSUME CloudInv, NEW handle \in BOOLEAN, finishers' = Append(finishers, Finisher(handle)), CloudTypeOK',
         stopping = 0, at # "dropped", UNCHANGED <<post, id, service, kept, ended>>,
         connection' => connection,
         \/ at' = "dropped" /\ stopping' = 0
         \/ at' = "rollback" /\ at \in {"starting", "probing"} /\ post \in PostEnds /\ stopping' = Len(finishers) + 1 /\ ~connection'
         \/ at' = "stopping" /\ at = "idle" /\ stopping' = Len(finishers) + 1 /\ ~connection'
  PROVE  CloudInv'
<1>0. CloudTypeOK /\ LastFinishes /\ Learnt /\ StartEnds
  BY DEF CloudInv
<1> DEFINE n == Len(finishers) + 1
<1>1. /\ Len(finishers') = n /\ n \in Nat \ {0} /\ finishers'[n].phase = "reading"
      /\ \A g \in 1..Len(finishers) : finishers'[g] = finishers[g]
      /\ \A g \in 1..n : g = n \/ g \in 1..Len(finishers)
      /\ \A g \in 1..Len(finishers) : g \in 1..n
  BY OneJoins
<1>2. \A g \in 1..Len(finishers) : finishers[g].phase \notin {"reading", "patching"}
  BY <1>0 DEF LastFinishes, Living
<1> HIDE DEF n
<1>3. LastFinishes'
  BY <1>0, <1>1, <1>2 DEF LastFinishes, Living, n
<1>4. Learnt'
  BY <1>0, <1>1 DEF Learnt
<1>5. GaveUp => GaveUp'
  BY <1>1 DEF GaveUp
<1>6. StartEnds'
  <2>1. at' = "rollback" => finishers'[stopping'].phase = "reading"
    BY <1>1 DEF n
  <2>2. FailedStartStopped'
    BY <1>0, <1>5 DEF StartEnds, FailedStartStopped
  <2> QED BY <1>0, <2>1, <2>2 DEF StartEnds
<1> QED BY <1>3, <1>4, <1>6 DEF CloudInv


LEMMA CloudStep ==
  ASSUME CloudInv, [CloudNext \/ Stop]_cloudVars
  PROVE  CloudInv'
<1>0. CloudTypeOK /\ LastFinishes /\ Learnt /\ StartEnds
  BY DEF CloudInv
<1>1. finishers \in Seq(Finishing) /\ Len(finishers) \in Nat
  <2>1. finishers \in Seq(Finishing)
    BY <1>0 DEF CloudTypeOK, Finishing
  <2> HIDE DEF Finishing
  <2> QED BY <2>1
<1>2. ASSUME NEW handle \in BOOLEAN, finishers' = Append(finishers, Finisher(handle))
      PROVE  finishers' \in Seq(Finishing) /\ Len(finishers') = Len(finishers) + 1
  BY <1>2, OneJoins
<1>3. CASE \E f \in 1..Len(finishers) : FinishReads(f) \/ FinishStopped(f) \/ FinishRetries(f) \/ FinishGivesUp(f)
  BY <1>3, FinishersKeep
<1>4. CASE CreateAnswered \/ Start \/ Created \/ Connected \/ StopReturns \/ LetGo \/ Keep \/ UNCHANGED cloudVars
  <2>1. UNCHANGED finishers
    BY <1>4 DEF CreateAnswered, Start, Created, Connected, StopReturns, LetGo, Keep, cloudVars
  <2>2. ended' \in [start : {"none", "ok", "err"}, stop : {"none", "ok", "err"}]
    <3>1. /\ ended \in [start : {"none", "ok", "err"}, stop : {"none", "ok", "err"}]
          /\ \A e \in {"none", "ok", "err"} : /\ [ended EXCEPT !.start = e] \in [start : {"none", "ok", "err"}, stop : {"none", "ok", "err"}]
                                              /\ [ended EXCEPT !.stop = e] \in [start : {"none", "ok", "err"}, stop : {"none", "ok", "err"}]
      BY <1>0 DEF CloudTypeOK
    <3>2. \/ ended' = ended
          \/ \E e \in {"none", "ok", "err"} : ended' = [ended EXCEPT !.start = e] \/ ended' = [ended EXCEPT !.stop = e]
      <4>1. CASE StopReturns
        BY <4>1 DEF StopReturns
      <4>2. CASE ~StopReturns
        BY <1>4, <4>2 DEF CreateAnswered, Start, Created, Connected, LetGo, Keep, cloudVars
      <4> QED BY <4>1, <4>2
    <3> HIDE <3>1
    <3> QED BY <3>1, <3>2
  <2>3. stopping' \in 0..Len(finishers') /\ connection' \in BOOLEAN /\ creating' \in BOOLEAN /\ kept' \in BOOLEAN
    <3>1. stopping' \in {stopping, 0}
      BY <1>4 DEF CreateAnswered, Start, Created, Connected, StopReturns, LetGo, Keep, cloudVars
    <3>2. connection' \in {connection, TRUE, FALSE} /\ creating' \in {creating, TRUE, FALSE} /\ kept' \in {kept, TRUE}
      BY <1>4 DEF CreateAnswered, Start, Created, Connected, StopReturns, LetGo, Keep, cloudVars
    <3>3. connection' \in BOOLEAN /\ creating' \in BOOLEAN /\ kept' \in BOOLEAN
      BY <1>0, <3>2 DEF CloudTypeOK
    <3> QED BY <1>0, <1>1, <2>1, <3>1, <3>3 DEF CloudTypeOK
  <2>4. id' \in BOOLEAN
    <3>1. CASE CreateAnswered
      BY <3>1 DEF CreateAnswered
    <3>2. CASE ~CreateAnswered
      BY <1>0, <1>4, <3>2 DEF Start, Created, Connected, StopReturns, LetGo, Keep, cloudVars, CloudTypeOK
    <3> QED BY <3>1, <3>2
  <2>5. /\ at' \in {"new", "starting", "probing", "rollback", "idle", "stopping", "dropped"}
        /\ post' \in {"unsent", "flying"} \cup PostEnds /\ cost' \in {"none", "early", "final"} /\ service' \in {"none", "running", "stopped"}
    BY <1>0, <1>4 DEF CreateAnswered, Start, Created, Connected, StopReturns, LetGo, Keep, cloudVars, CloudTypeOK
  <2>6. CloudTypeOK'
    BY <1>1, <2>1, <2>2, <2>3, <2>4, <2>5 DEF CloudTypeOK, Finishing
  <2> QED BY <1>4, <2>1, <2>6, OwnerMoves
<1>5. CASE ConnectFails \/ Stop \/ Drop
  <2>1. /\ UNCHANGED <<post, id, cost, service, kept, ended>> /\ at # "dropped"
        /\ at' \in {"rollback", "stopping", "dropped"} /\ connection' \in {connection, FALSE} /\ creating' \in {creating, FALSE}
    BY <1>5 DEF ConnectFails, Stop, Drop
  <2>2. \/ UNCHANGED <<finishers, stopping>>
        \/ \E handle \in BOOLEAN : /\ finishers' = Append(finishers, Finisher(handle)) /\ stopping = 0
                                   /\ \/ stopping' = 0 /\ at' = "dropped"
                                      \/ stopping' = Len(finishers) + 1 /\ at' # "dropped"
    BY <1>0, <1>5 DEF ConnectFails, Stop, Drop, AwaitFinish, CloudTypeOK
  <2>3. CloudTypeOK'
    <3>1. finishers' \in Seq(Finishing) /\ stopping' \in 0..Len(finishers')
      BY <1>0, <1>1, <1>2, <2>2 DEF CloudTypeOK
    <3>2. connection' \in BOOLEAN /\ creating' \in BOOLEAN
      BY <1>0, <2>1 DEF CloudTypeOK
    <3> QED BY <1>0, <2>1, <3>1, <3>2 DEF CloudTypeOK, Finishing
  <2>4. CASE UNCHANGED <<finishers, stopping>>
    <3>1. ~ConnectFails
      <4>1. ConnectFails => \E handle \in BOOLEAN : finishers' = Append(finishers, Finisher(handle))
        BY <1>0 DEF ConnectFails, LastFinishes, AwaitFinish
      <4>2. ConnectFails => Len(finishers') = Len(finishers) + 1
        BY <1>2, <4>1
      <4> QED BY <1>1, <2>4, <4>2
    <3> QED BY <1>5, <2>3, <2>4, <3>1, OwnerMoves
  <2>5. CASE \E handle \in BOOLEAN : /\ finishers' = Append(finishers, Finisher(handle)) /\ stopping = 0
                                     /\ \/ stopping' = 0 /\ at' = "dropped"
                                        \/ stopping' = Len(finishers) + 1 /\ at' # "dropped"
    <3>1. /\ at' = "rollback" => at \in {"starting", "probing"} /\ post \in PostEnds /\ connection' = FALSE
          /\ at' = "stopping" => at = "idle" /\ connection' = FALSE
      <4>1. at = "probing" => post \in PostEnds
        BY <1>0 DEF Learnt, PostEnds
      <4> QED BY <1>5, <4>1 DEF ConnectFails, Stop, Drop
    <3>2. connection' => connection
      BY <1>5 DEF ConnectFails, Stop, Drop
    <3>5. \/ stopping' = 0 /\ at' = "dropped"
          \/ stopping' = Len(finishers) + 1 /\ at' # "dropped"
      BY <2>5
    <3>6. \/ at' = "dropped" /\ stopping' = 0
          \/ at' = "rollback" /\ at \in {"starting", "probing"} /\ post \in PostEnds /\ stopping' = Len(finishers) + 1 /\ ~connection'
          \/ at' = "stopping" /\ at = "idle" /\ stopping' = Len(finishers) + 1 /\ ~connection'
      BY <2>1, <3>1, <3>5
    <3>3. PICK handle \in BOOLEAN : finishers' = Append(finishers, Finisher(handle))
      BY <2>5
    <3>4. stopping = 0 /\ at # "dropped" /\ UNCHANGED <<post, id, service, kept, ended>>
      BY <2>1, <2>5
    <3> QED BY <2>3, <3>2, <3>3, <3>4, <3>6, SpawnMoves
  <2> QED BY <2>2, <2>4, <2>5
<1> QED BY <1>3, <1>4, <1>5 DEF CloudNext, CloudTasks, CloudOwner

\* What the invariant says of the three promises.
LEMMA CloudPromises ==
  ASSUME CloudInv
  PROVE  /\ CloudTypeOK /\ OneFinisher /\ FailedStartStopped
         /\ [CloudNext]_cloudVars => (kept => service' = service)
<1>1. OneFinisher
  BY DEF CloudInv, LastFinishes, OneFinisher
<1>2. ASSUME [CloudNext]_cloudVars, kept
      PROVE  service' = service
  <2>1. post = "ok" /\ \A f \in 1..Len(finishers) : finishers[f].phase # "patching"
    BY <1>2 DEF CloudInv, Learnt
  <2>2. CASE CloudTasks
    BY <2>1, <2>2 DEF CloudTasks, CreateAnswered, FinishReads, FinishStopped, FinishRetries, FinishGivesUp
  <2>3. CASE CloudOwner \/ UNCHANGED cloudVars
    BY <2>3 DEF CloudOwner, cloudVars, Start, Created, Connected, ConnectFails, Stop, StopReturns, LetGo, Drop, Keep
  <2> QED BY <1>2, <2>2, <2>3 DEF CloudNext
<1> QED BY <1>1, <1>2 DEF CloudInv, StartEnds
=============================================================================
