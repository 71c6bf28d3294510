---------------------------- MODULE RunTaskProofs ----------------------------
(***************************************************************************)
(* What RunTask promises of a run, for every set of tasks, every limit and *)
(* every number of stop attempts: what it opened is closed inside out      *)
(* before it replies, its reply accounts for all of it, and with a dollar  *)
(* cap nothing is sent past an unpriced call.  None of the three is        *)
(* inductive; the parts below say who holds what at each await.  The last  *)
(* part is about the recipe a run follows and the one it leaves behind.    *)
(***************************************************************************)
EXTENDS RunTask, Recipes, CloudBrowserProofs, FiniteSetTheorems, SequenceTheorems

Before == {"gate", "fetching", "key", "access"}
Driving == {"announcing", "opening", "filming", "agent", "card"}

\* Who holds the browser: the join's half, then `owned`, then nobody.
Held ==
  /\ pc \in Before => half.browser = "waiting"
  /\ pc \in Before \cup {"assembling", "metering", "done"} => ~owned
  /\ pc \in Driving => owned
  /\ owned => half.browser = "held"
  /\ pc = "stopping" => used = owned
  /\ used => half.browser = "held" /\ pc \in {"stopping", "metering", "done"}
  /\ chrome = "up" => task.via = "local" /\ half.browser = "held" /\ (pc = "assembling" \/ owned)
  /\ chrome = "down" => ~owned /\ pc \in TeardownPoints \cup {"done"}

\* Who answers for the cloud browser: the start in `starting`, then whoever
\* holds the browser, then the report that drops it.
CloudHeld ==
  /\ starting => task.via = "cloud" /\ pc \in {"assembling", "unwinding"} /\ half.browser # "held" /\ at # "new"
  /\ at \notin {"new", "dropped"} =>
       \/ starting
       \/ task.via = "cloud" /\ half.browser = "held" /\ (pc = "assembling" \/ owned)
       \/ task.via = "cloud" /\ used /\ pc = "metering"
  /\ at = "dropped" => /\ pc \in TeardownPoints \cup {"done"}
                       /\ pc = "unwinding" => half.browser = "held"
  /\ ended.stop # "none" => pc \in {"metering", "done"}

\* What the session carries, and until when.
Carried ==
  /\ session = "open" => owned /\ pc \in {"opening", "filming", "agent", "card", "unwinding", "wrapping", "quieting", "closing"}
  /\ pc \in {"opening", "filming", "agent", "card"} => session = "open"
  /\ filming => session = "open" /\ pc \in {"agent", "card", "unwinding", "wrapping"}
  /\ feedback => pc \in {"filming", "agent", "card", "unwinding", "wrapping", "quieting"}

\* The model calls of a list of lines.
N(lines) == Cardinality(ModelLines(lines))

\* A call in flight is one the agent, or the consent question, waits for.
Flight ==
  /\ ledger.flying => pc \in {"fetching", "agent"} \/ (pc = "assembling" /\ half.consent = "asked")
  /\ pc = "assembling" /\ half.consent = "asked" => ledger.flying
  /\ half.consent = "asked" /\ task.via = "extension" => half.browser = "held"

\* What was sent against what was reserved and what is written down.
Spends ==
  /\ made + limit = CallLimit + ledger.calls
  /\ made = N(fetchSpent) + N(ledger.lines) + (IF ledger.flying THEN 1 ELSE 0) \/ Done
  /\ pc \in {"gate", "fetching"} => limit = CallLimit /\ fetchSpent = <<>>
  /\ pc \in {"gate", "key", "access"} => ledger = NewLedger
  /\ task.dollars => ~HasUnknown(fetchSpent)
  /\ ModelLines(browserCost) = {}
  /\ Done => made = N(reply.lines)

\* A browser line, and one that is not final.
Charged(lines) == \E n \in 1..Len(lines) : lines[n].of = "browser"
LeftOpen(lines) == \E n \in 1..Len(lines) : lines[n].of = "browser" /\ lines[n].basis # "metered"

\* What is known of the cloud browser's cost, and where it is owed.
Charges ==
  /\ post = "ok" => cost # "none"
  /\ ended.start = "ok" => post = "ok"
  /\ half.browser = "held" /\ task.via = "cloud" => post = "ok"
  /\ outcome = "cancelled" => pc \in TeardownPoints \cup {"done"}
  /\ outcome = "cancelled" /\ half.browser = "waiting" /\ post # "unsent" =>
       /\ pc \in TeardownPoints \ {"unwinding"} => LeftOpen(browserCost)
       /\ Done => LeftOpen(reply.lines)
  /\ Done /\ used /\ task.via = "cloud" => Charged(reply.lines)

\* The steps owed to the caller.
Steps ==
  /\ heard = told
  /\ Done /\ reply.kind \in {"cancelled", "error"} => reply.steps = told

RunInv == TypeOK /\ CloudInv /\ Held /\ CloudHeld /\ Carried /\ Flight /\ Spends /\ Charges /\ Steps
-----------------------------------------------------------------------------
\* Counting model lines.

LEMMA CostLines ==
  /\ \A of \in {"model", "browser"}, basis \in Bases :
       Line(of, basis) \in CostLine /\ Line(of, basis).of = of /\ Line(of, basis).basis = basis
BY DEF Line, CostLine, Bases

LEMMA ModelLinesFinite ==
  ASSUME NEW lines \in Seq(CostLine)
  PROVE  /\ IsFiniteSet(ModelLines(lines)) /\ N(lines) \in Nat
         /\ ModelLines(lines) = {} => N(lines) = 0
<1>1. Len(lines) \in Nat
  OBVIOUS
<1>2. IsFiniteSet(1..Len(lines))
  BY <1>1, FS_Interval
<1>3. ModelLines(lines) \in SUBSET (1..Len(lines))
  BY DEF ModelLines
<1>4. IsFiniteSet(ModelLines(lines))
  BY <1>2, <1>3, FS_Subset
<1> QED BY <1>4, FS_CardinalityType, FS_EmptySet DEF N

LEMMA NoLines ==
  ModelLines(<<>>) = {} /\ N(<<>>) = 0 /\ <<>> \in Seq(CostLine) /\ ~HasUnknown(<<>>)
<1>1. ModelLines(<<>>) = {} /\ <<>> \in Seq(CostLine)
  BY DEF ModelLines
<1>2. ~HasUnknown(<<>>)
  BY DEF HasUnknown
<1> QED BY <1>1, <1>2, FS_EmptySet DEF N

LEMMA OneLineMore ==
  ASSUME NEW lines \in Seq(CostLine), NEW of \in {"model", "browser"}, NEW basis \in Bases
  PROVE  LET more == Append(lines, Line(of, basis))
         IN  /\ more \in Seq(CostLine)
             /\ of = "model" => N(more) = N(lines) + 1
             /\ of = "browser" => ModelLines(more) = ModelLines(lines)
             /\ LeftOpen(lines) => LeftOpen(more)
             /\ of = "browser" => Charged(more)
             /\ of = "browser" /\ basis # "metered" => LeftOpen(more)
<1> DEFINE l == Line(of, basis)
           more == Append(lines, l)
           k == Len(lines) + 1
<1>1. l \in CostLine /\ l.of = of /\ l.basis = basis
  BY CostLines
<1> HIDE DEF l
<1>2. /\ more \in Seq(CostLine) /\ Len(more) = k /\ more[k] = l /\ Len(lines) \in Nat
      /\ \A n \in 1..Len(lines) : more[n] = lines[n]
  BY <1>1
<1> HIDE DEF more
<1>3. of = "model" => ModelLines(more) = ModelLines(lines) \cup {k}
  BY <1>1, <1>2 DEF ModelLines
<1>4. of = "browser" => ModelLines(more) = ModelLines(lines)
  BY <1>1, <1>2 DEF ModelLines
<1>5. k \notin ModelLines(lines) /\ k \in 1..Len(more) /\ 1..Len(lines) \subseteq 1..Len(more)
  BY <1>2 DEF ModelLines
<1> HIDE DEF k
<1>6. of = "model" => N(more) = N(lines) + 1
  BY <1>3, <1>5, ModelLinesFinite, FS_AddElement DEF N
<1>7. /\ LeftOpen(lines) => LeftOpen(more)
      /\ of = "browser" => Charged(more)
      /\ of = "browser" /\ basis # "metered" => LeftOpen(more)
  BY <1>1, <1>2, <1>5 DEF LeftOpen, Charged
<1> QED BY <1>2, <1>4, <1>6, <1>7 DEF more, l

LEMMA TwoLists ==
  ASSUME NEW s \in Seq(CostLine), NEW t \in Seq(CostLine)
  PROVE  /\ s \o t \in Seq(CostLine)
         /\ N(s \o t) = N(s) + N(t)
         /\ LeftOpen(t) => LeftOpen(s \o t)
         /\ Charged(t) => Charged(s \o t)
         /\ HasUnknown(s \o t) => HasUnknown(s) \/ HasUnknown(t)
<1> DEFINE a == Len(s)
           b == Len(t)
           st == s \o t
           S == ModelLines(s)
           T == ModelLines(t)
           U == {a + n : n \in T}
           f == [n \in T |-> a + n]
<1>1. /\ a \in Nat /\ b \in Nat /\ st \in Seq(CostLine) /\ Len(st) = a + b
      /\ \A n \in 1..a : st[n] = s[n]
      /\ \A n \in 1..b : st[a + n] = t[n]
  <2>1. a \in Nat /\ b \in Nat /\ st \in Seq(CostLine) /\ Len(st) = a + b
    OBVIOUS
  <2>2. \A n \in 1..(a + b) : st[n] = IF n <= a THEN s[n] ELSE t[n - a]
    OBVIOUS
  <2>3. \A n \in 1..a : n \in 1..(a + b) /\ n <= a
    BY <2>1
  <2>4. \A n \in 1..b : a + n \in 1..(a + b) /\ ~(a + n <= a) /\ (a + n) - a = n
    BY <2>1
  <2> HIDE DEF a, b, st
  <2> QED BY <2>1, <2>2, <2>3, <2>4
<1>2. \A n \in 1..(a + b) : n \in 1..a \/ \E m \in 1..b : n = a + m
  <2> SUFFICES ASSUME NEW n \in 1..(a + b), n \notin 1..a
               PROVE  \E m \in 1..b : n = a + m
    OBVIOUS
  <2>1. n - a \in 1..b /\ n = a + (n - a)
    BY <1>1
  <2> QED BY <2>1
<1>3. \A n \in 1..b : a + n \in 1..(a + b) /\ a + n \notin 1..a
  BY <1>1
<1>4. \A n \in 1..a : n \in 1..(a + b)
  BY <1>1
<1>5. /\ S = {n \in 1..a : s[n].of = "model"} /\ T = {n \in 1..b : t[n].of = "model"}
      /\ ModelLines(st) = {n \in 1..(a + b) : st[n].of = "model"}
  BY <1>1 DEF ModelLines
<1> HIDE DEF a, b, st, S, T
<1>6. ModelLines(st) = S \cup U
  <2>1. ASSUME NEW n \in 1..(a + b), st[n].of = "model"
        PROVE  n \in S \cup U
    <3>1. CASE n \in 1..a
      BY <1>1, <1>5, <2>1, <3>1
    <3>2. CASE \E m \in 1..b : n = a + m
      BY <1>1, <1>5, <2>1, <3>2
    <3> QED BY <1>2, <3>1, <3>2
  <2>2. S \subseteq ModelLines(st)
    BY <1>1, <1>4, <1>5
  <2>3. \A m \in T : a + m \in ModelLines(st)
    BY <1>1, <1>3, <1>5
  <2> QED BY <1>5, <2>1, <2>2, <2>3
<1>7. S \cap U = {}
  BY <1>3, <1>5
<1>8. IsFiniteSet(S) /\ IsFiniteSet(T)
  BY ModelLinesFinite DEF S, T
<1>9. IsFiniteSet(U) /\ Cardinality(U) = Cardinality(T)
  <2>1. T \subseteq Nat /\ a \in Nat
    BY <1>1, <1>5
  <2>2. f \in [T -> U] /\ \A u \in U : \E n \in T : f[n] = u
    OBVIOUS
  <2>3. \A m, n \in T : f[m] = f[n] => m = n
    BY <2>1
  <2>4. f \in Bijection(T, U)
    BY <2>2, <2>3 DEF Bijection, Injection, Surjection, IsInjective
  <2>5. ExistsBijection(T, U)
    BY <2>4 DEF ExistsBijection
  <2> QED BY <1>8, <2>5, FS_Bijection
<1> HIDE DEF U
<1>10. Cardinality(S \cup U) = Cardinality(S) + Cardinality(U)
  <2>1. Cardinality(S \cup U) = Cardinality(S) + Cardinality(U) - Cardinality(S \cap U)
    BY <1>8, <1>9, FS_Union
  <2>2. Cardinality(S) \in Nat /\ Cardinality(U) \in Nat /\ Cardinality(S \cap U) = 0
    BY <1>7, <1>8, <1>9, FS_CardinalityType, FS_EmptySet
  <2> QED BY <2>1, <2>2
<1>11. N(st) = N(s) + N(t)
  BY <1>6, <1>9, <1>10 DEF N, S, T
<1>12. LeftOpen(t) => LeftOpen(st)
  BY <1>1, <1>3 DEF LeftOpen, b
<1>13. Charged(t) => Charged(st)
  BY <1>1, <1>3 DEF Charged, b
<1>14. HasUnknown(st) => HasUnknown(s) \/ HasUnknown(t)
  <2> SUFFICES ASSUME NEW n \in 1..(a + b), st[n].basis # "metered"
               PROVE  HasUnknown(s) \/ HasUnknown(t)
    BY <1>1 DEF HasUnknown
  <2>1. CASE n \in 1..a
    BY <1>1, <2>1 DEF HasUnknown, a
  <2>2. CASE \E m \in 1..b : n = a + m
    BY <1>1, <2>2 DEF HasUnknown, b
  <2> QED BY <1>2, <2>1, <2>2
<1> QED BY <1>1, <1>11, <1>12, <1>13, <1>14 DEF st
-----------------------------------------------------------------------------
\* The ledger's two steps, and the call dropped in flight.

LEMMA LedgerSends ==
  ASSUME ledger \in Ledger
  PROVE  Sent \in Ledger /\ Sent.calls = ledger.calls + 1 /\ Sent.lines = ledger.lines /\ Sent.flying = TRUE
<1> DEFINE k == ledger.calls + 1
<1>1. k \in Nat
  BY DEF Ledger
<1>2. Sent = [ledger EXCEPT !.calls = k, !.flying = TRUE]
  BY DEF Sent
<1> HIDE DEF k
<1>3. PICK b \in BOOLEAN : b = TRUE
  OBVIOUS
<1>4. Sent = [ledger EXCEPT !.calls = k, !.flying = b]
  BY <1>2, <1>3
<1>5. Sent \in Ledger /\ Sent.calls = k /\ Sent.lines = ledger.lines /\ Sent.flying = b
  BY <1>1, <1>4 DEF Ledger
<1> QED BY <1>3, <1>5 DEF k

LEMMA LedgerSettles ==
  ASSUME ledger \in Ledger, NEW basis \in Bases
  PROVE  /\ Settled(basis) \in Ledger /\ Settled(basis).calls = ledger.calls /\ Settled(basis).flying = FALSE
         /\ N(Settled(basis).lines) = N(ledger.lines) + 1
<1> DEFINE q == Append(ledger.lines, Line("model", basis))
<1>1. ledger.lines \in Seq(CostLine) /\ ledger.calls \in Nat
  BY DEF Ledger
<1>2. q \in Seq(CostLine) /\ N(q) = N(ledger.lines) + 1
  BY <1>1, OneLineMore
<1>3. Settled(basis) = [ledger EXCEPT !.flying = FALSE, !.lines = q]
  BY DEF Settled
<1> HIDE DEF q
<1>4. PICK b \in BOOLEAN : b = FALSE
  OBVIOUS
<1>5. Settled(basis) = [ledger EXCEPT !.flying = b, !.lines = q]
  BY <1>3, <1>4
<1>6. Settled(basis) \in Ledger /\ Settled(basis).calls = ledger.calls /\ Settled(basis).lines = q /\ Settled(basis).flying = b
  BY <1>1, <1>2, <1>5 DEF Ledger
<1> QED BY <1>2, <1>4, <1>6

LEMMA LedgerDrops ==
  ASSUME ledger \in Ledger
  PROVE  /\ Dropped \in Ledger /\ Dropped.calls = ledger.calls /\ Dropped.flying = FALSE
         /\ N(Dropped.lines) = N(ledger.lines) + (IF ledger.flying THEN 1 ELSE 0)
         /\ Dropped.lines \in Seq(CostLine) /\ ledger.lines \in Seq(CostLine)
         /\ N(ledger.lines) \in Nat /\ ledger.calls \in Nat
<1>1. ledger.flying \in BOOLEAN /\ ledger.lines \in Seq(CostLine) /\ ledger.calls \in Nat
  BY DEF Ledger
<1>2. N(ledger.lines) \in Nat
  BY <1>1, ModelLinesFinite
<1>3. CASE ledger.flying
  <2>1. Dropped = Settled("unknown") /\ "unknown" \in Bases
    BY <1>3 DEF Dropped, Bases
  <2>2. Dropped \in Ledger /\ Dropped.calls = ledger.calls /\ Dropped.flying = FALSE /\ N(Dropped.lines) = N(ledger.lines) + 1
    BY <2>1, LedgerSettles
  <2>3. Dropped.lines \in Seq(CostLine)
    BY <2>2 DEF Ledger
  <2> QED BY <1>1, <1>2, <1>3, <2>2, <2>3
<1>4. CASE ~ledger.flying
  <2>1. Dropped = ledger /\ ledger.flying = FALSE
    BY <1>1, <1>4 DEF Dropped
  <2> QED BY <1>1, <1>2, <1>4, <2>1
<1> QED BY <1>3, <1>4

LEMMA LedgerIsNew ==
  NewLedger \in Ledger /\ NewLedger.calls = 0 /\ NewLedger.lines = <<>> /\ NewLedger.flying = FALSE
BY DEF NewLedger, Ledger

\* The join of the browser and the consent question.
Halves == [browser : {"waiting", "held", "refused"}, consent : {"waiting", "asked", "done"}]

LEMMA HalvesMove ==
  ASSUME half \in Halves
  PROVE  /\ \A b \in {"waiting", "held", "refused"} :
              /\ [half EXCEPT !.browser = b] \in Halves
              /\ [half EXCEPT !.browser = b].browser = b /\ [half EXCEPT !.browser = b].consent = half.consent
         /\ \A c \in {"waiting", "asked", "done"} :
              /\ [half EXCEPT !.consent = c] \in Halves
              /\ [half EXCEPT !.consent = c].consent = c /\ [half EXCEPT !.consent = c].browser = half.browser
BY DEF Halves

-----------------------------------------------------------------------------
\* The cloud browser keeps its own invariant, whatever the run does.

LEMMA CloudKeeps ==
  ASSUME [Next]_vars
  PROVE  [CloudNext \/ Stop]_cloudVars
<1>1. CASE UNCHANGED vars
  BY <1>1 DEF vars
<1>2. CASE Unguarded
  BY <1>2 DEF Unguarded, Gate, AssemblyFails, WorkBegins, Return
<1>3. CASE Trip \/ FetchCancelled
  BY <1>3 DEF Trip, FetchCancelled, Return
<1>4. CASE GuardTrips
  BY <1>4 DEF GuardTrips, CloudNext, CloudOwner
<1>5. CASE Behind
  BY <1>5 DEF Behind, CloudNext
<1>6. CASE TakeStarting
  BY <1>6 DEF TakeStarting, CloudNext, CloudOwner
<1>7. CASE StopCloud
  BY <1>7 DEF StopCloud, CloudNext, CloudOwner
<1>8. CASE Report
  BY <1>8 DEF Report, CloudNext, CloudOwner
<1>9. CASE FinishRecording \/ CloseFeedback \/ CloseSession \/ StopBrowser
  BY <1>9 DEF FinishRecording, CloseFeedback, CloseSession, StopBrowser
<1>10. CASE CloudStarts \/ CloudStartSteps
  BY <1>10 DEF CloudStarts, CloudStartSteps, CloudNext, CloudOwner
<1>11. CASE FetchAnswers \/ FetchOutOfBudget \/ Escalate \/ AgentCalls \/ AgentAnswered \/ Tell \/ Handled
  BY <1>11 DEF FetchAnswers, FetchOutOfBudget, Escalate, AgentCalls, AgentAnswered, Tell, Handled, Return
<1>12. CASE Refused \/ AccessGranted \/ BrowserFound \/ ChromeLaunched \/ CloudRefused \/ CloudStarted \/ ConsentAsked \/ ConsentAnswered
  BY <1>12 DEF Refused, AccessGranted, BrowserFound, ChromeLaunched, CloudRefused, CloudStarted, ConsentAsked, ConsentAnswered
<1>13. CASE Assembled \/ Announced \/ Opened \/ RecordingStarts \/ AgentReturns \/ CardShown
  BY <1>13 DEF Assembled, Announced, Opened, RecordingStarts, AgentReturns, CardShown
<1> QED BY <1>1, <1>2, <1>3, <1>4, <1>5, <1>6, <1>7, <1>8, <1>9, <1>10, <1>11, <1>12, <1>13 DEF Next, Guarded, Teardown
\* What the cloud browser's own steps tell the run.
LEMMA CloudTells ==
  ASSUME CloudInv, [CloudNext \/ Stop]_cloudVars,
         post = "ok" => cost # "none",
         ended.start = "ok" => post = "ok"
  PROVE  /\ post' = "ok" => cost' # "none"
         /\ ended'.start = "ok" => post' = "ok"
         /\ post = "ok" => post' = "ok"
         /\ post' = "unsent" => post = "unsent"
<1>1. /\ at = "new" => post = "unsent" /\ ended.start = "none"
      /\ at = "probing" => post = "ok"
      /\ ended \in [start : {"none", "ok", "err"}, stop : {"none", "ok", "err"}]
  BY DEF CloudInv, Learnt, StartEnds, CloudTypeOK
<1>2. CASE CreateAnswered
  BY <1>1, <1>2 DEF CreateAnswered, PostEnds
<1>3. ASSUME NEW f \in 1..Len(finishers), FinishReads(f) \/ FinishStopped(f) \/ FinishRetries(f) \/ FinishGivesUp(f)
      PROVE  UNCHANGED <<post, ended>> /\ cost' \in {cost, "final"}
  BY <1>3 DEF FinishReads, FinishStopped, FinishRetries, FinishGivesUp
<1>4. CASE Start \/ Created \/ LetGo \/ Keep \/ UNCHANGED cloudVars
  BY <1>1, <1>4 DEF Start, Created, LetGo, Keep, cloudVars
<1>5. CASE ConnectFails \/ Stop \/ Drop
  <2>1. UNCHANGED <<post, cost, ended>>
    BY <1>5 DEF ConnectFails, Stop, Drop
  <2> QED BY <2>1
<1>6. CASE Connected
  <2>1. ended'.start = "ok" /\ UNCHANGED <<post, cost>> /\ at = "probing"
    BY <1>1, <1>6 DEF Connected
  <2> QED BY <1>1, <2>1
<1>7. CASE StopReturns
  <2>1. ended'.start \in {ended.start, "err"} /\ UNCHANGED <<post, cost>>
    BY <1>1, <1>7 DEF StopReturns
  <2> QED BY <2>1
<1> QED BY <1>2, <1>3, <1>4, <1>5, <1>6, <1>7 DEF CloudNext, CloudTasks, CloudOwner

\* What a task behind the run leaves alone.
LEMMA BehindLeaves ==
  ASSUME Behind
  PROVE  UNCHANGED <<runVars, at, ended>> /\ (post = "unsent" => post' = "unsent")
<1>1. UNCHANGED runVars /\ CloudTasks
  BY DEF Behind
<1>2. CASE CreateAnswered
  BY <1>1, <1>2 DEF CreateAnswered
<1>3. CASE \E f \in 1..Len(finishers) : FinishReads(f) \/ FinishStopped(f) \/ FinishRetries(f) \/ FinishGivesUp(f)
  BY <1>1, <1>3 DEF FinishReads, FinishStopped, FinishRetries, FinishGivesUp
<1> QED BY <1>1, <1>2, <1>3 DEF CloudTasks

-----------------------------------------------------------------------------
\* How a step changes what was spent.

LEMMA SpendSteps ==
  ASSUME [Next]_vars
  PROVE  \/ UNCHANGED spending
         \/ MayCall /\ ledger' = Sent /\ made' = made + 1 /\ UNCHANGED <<limit, fetchSpent, pc>>
         \/ /\ ledger.flying \/ (pc = "assembling" /\ half.consent = "asked")
            /\ \E basis \in Bases : ledger' = Settled(basis)
            /\ UNCHANGED <<limit, fetchSpent, made, pc>>
         \/ ledger' = Dropped /\ UNCHANGED <<limit, fetchSpent, made>>
         \/ Escalate
<1>1. CASE UNCHANGED vars
  BY <1>1 DEF vars, runVars
<1>2. CASE Unguarded
  BY <1>2 DEF Unguarded, Gate, AssemblyFails, WorkBegins, Return, spending
<1>3. CASE Trip \/ FetchCancelled \/ GuardTrips
  BY <1>3 DEF Trip, FetchCancelled, GuardTrips, Return, spending
<1>4. CASE Behind
  BY <1>4 DEF Behind, runVars, spending
<1>5. CASE Teardown
  BY <1>5 DEF Teardown, TakeStarting, FinishRecording, CloseFeedback, CloseSession, StopBrowser, StopCloud, Report, spending
<1>6. CASE CloudStarts \/ CloudStartSteps
  BY <1>6 DEF CloudStarts, CloudStartSteps, runVars, spending
<1>7. CASE FetchAnswers \/ FetchOutOfBudget \/ Escalate \/ AgentReturns
  BY <1>7 DEF FetchAnswers, FetchOutOfBudget, AgentReturns, Return
<1>8. CASE AgentCalls \/ AgentAnswered
  BY <1>8 DEF AgentCalls, AgentAnswered, Bases
<1>9. CASE ConsentAsked
  BY <1>9 DEF ConsentAsked, spending
<1>10. CASE ConsentAnswered
  BY <1>10 DEF ConsentAnswered, Bases
<1>11. CASE Refused \/ AccessGranted \/ BrowserFound \/ ChromeLaunched \/ CloudRefused \/ CloudStarted \/ Tell \/ Handled
  BY <1>11 DEF Refused, AccessGranted, BrowserFound, ChromeLaunched, CloudRefused, CloudStarted, BrowserHalf, Tell, Handled
<1>12. CASE Assembled \/ Announced \/ Opened \/ RecordingStarts \/ CardShown
  BY <1>12 DEF Assembled, Announced, Opened, RecordingStarts, CardShown
<1> QED BY <1>1, <1>2, <1>3, <1>4, <1>5, <1>6, <1>7, <1>8, <1>9, <1>10, <1>11, <1>12 DEF Next, Guarded

LEMMA TaskStays ==
  ASSUME [Next]_vars
  PROVE  task' = task
BY DEF Next, Unguarded, Guarded, Teardown, Gate, AssemblyFails, WorkBegins, Return, FetchAnswers, FetchOutOfBudget, Escalate, Refused,
   AccessGranted, BrowserFound, ChromeLaunched, CloudRefused, CloudStarts, CloudStartSteps, CloudStarted, ConsentAsked, ConsentAnswered,
   Assembled, Announced, Opened, RecordingStarts, AgentReturns, CardShown, AgentCalls, AgentAnswered, Tell, Handled, Trip, FetchCancelled,
   GuardTrips, TakeStarting, FinishRecording, CloseFeedback, CloseSession, StopBrowser, StopCloud, Report, Behind, runVars, vars, BrowserHalf

LEMMA HalfSteps ==
  ASSUME half \in Halves, [Next]_vars
  PROVE  /\ half' \in Halves
         /\ \/ half'.browser = half.browser
            \/ pc = "assembling" /\ pc' = pc /\ half.browser = "waiting" /\ half'.browser \in {"held", "refused"}
<1>0. /\ \A b \in {"waiting", "held", "refused"} :
           /\ [half EXCEPT !.browser = b] \in Halves
           /\ [half EXCEPT !.browser = b].browser = b /\ [half EXCEPT !.browser = b].consent = half.consent
      /\ \A c \in {"waiting", "asked", "done"} :
           /\ [half EXCEPT !.consent = c] \in Halves
           /\ [half EXCEPT !.consent = c].consent = c /\ [half EXCEPT !.consent = c].browser = half.browser
  BY HalvesMove
<1> HIDE DEF Halves
<1>1. CASE UNCHANGED vars
  BY <1>1 DEF vars, runVars
<1>2. CASE Unguarded
  BY <1>2 DEF Unguarded, Gate, AssemblyFails, WorkBegins, Return
<1>3. CASE Trip \/ FetchCancelled \/ GuardTrips
  BY <1>3 DEF Trip, FetchCancelled, GuardTrips, Return
<1>4. CASE Behind
  BY <1>4 DEF Behind, runVars
<1>5. CASE Teardown
  BY <1>5 DEF Teardown, TakeStarting, FinishRecording, CloseFeedback, CloseSession, StopBrowser, StopCloud, Report
<1>6. CASE CloudStarts \/ CloudStartSteps
  BY <1>6 DEF CloudStarts, CloudStartSteps, runVars
<1>7. CASE FetchAnswers \/ FetchOutOfBudget \/ Escalate \/ AgentReturns
  BY <1>7 DEF FetchAnswers, FetchOutOfBudget, Escalate, AgentReturns, Return
<1>8. CASE AgentCalls \/ AgentAnswered \/ Refused \/ Tell \/ Handled
  BY <1>8 DEF AgentCalls, AgentAnswered, Refused, Tell, Handled
<1>9. CASE ConsentAsked \/ ConsentAnswered \/ AccessGranted
  <2>1. \E c \in {"waiting", "asked", "done"} : half' = [half EXCEPT !.consent = c]
    BY <1>9 DEF ConsentAsked, ConsentAnswered, AccessGranted
  <2> QED BY <1>0, <2>1
<1>12. CASE BrowserFound \/ ChromeLaunched \/ CloudRefused \/ CloudStarted
  <2>1. \E b \in {"held", "refused"} : BrowserHalf(b)
    BY <1>12 DEF BrowserFound, ChromeLaunched, CloudRefused, CloudStarted
  <2>2. PICK b \in {"held", "refused"} : pc = "assembling" /\ pc' = pc /\ half.browser = "waiting" /\ half' = [half EXCEPT !.browser = b] /\ UNCHANGED ledger
    BY <2>1 DEF BrowserHalf, spending
  <2> QED BY <1>0, <2>2
<1>13. CASE Assembled \/ Announced \/ Opened \/ RecordingStarts \/ CardShown
  BY <1>13 DEF Assembled, Announced, Opened, RecordingStarts, CardShown
<1> QED BY <1>1, <1>2, <1>3, <1>4, <1>5, <1>6, <1>7, <1>8, <1>9, <1>12, <1>13 DEF Next, Guarded
-----------------------------------------------------------------------------
\* Who holds the browser.

LEMMA HeldKeeps ==
  ASSUME RunInv, [Next]_vars
  PROVE  Held'
<1>0. Held /\ half \in Halves /\ used \in BOOLEAN /\ owned \in BOOLEAN
  BY DEF RunInv, TypeOK, Halves
<1>h. \/ half'.browser = half.browser
      \/ pc = "assembling" /\ pc' = pc /\ half.browser = "waiting" /\ half'.browser \in {"held", "refused"}
  BY <1>0, HalfSteps
<1>1. CASE UNCHANGED vars
  BY <1>0, <1>1 DEF vars, runVars, opened, ending, Held
<1>2. CASE Unguarded
  BY <1>0, <1>2 DEF Unguarded, Gate, AssemblyFails, WorkBegins, Return, opened, ending, Held, Before, Driving, TeardownPoints
<1>3. CASE Trip \/ FetchCancelled
  BY <1>0, <1>3 DEF Trip, FetchCancelled, Return, opened, ending, Held, Before, Driving, TeardownPoints
<1>4. CASE GuardTrips
  <2>1. /\ pc \in WorkPoints /\ pc' = "unwinding" /\ half' = half /\ UNCHANGED <<task, owned, used>>
        /\ chrome' = chrome \/ (pc = "assembling" /\ chrome' = "down")
        /\ pc = "assembling" /\ half.browser = "held" /\ task.via # "cloud" => chrome' # "up"
    BY <1>4 DEF GuardTrips, WorkEnds
  <2> QED BY <1>0, <2>1 DEF Held, Before, Driving, TeardownPoints, WorkPoints
<1>5. CASE Behind
  BY <1>0, <1>5 DEF Behind, runVars, opened, ending, Held
<1>6. CASE TakeStarting \/ FinishRecording \/ CloseFeedback
  BY <1>0, <1>6 DEF TakeStarting, FinishRecording, CloseFeedback, ending, Held, Before, Driving, TeardownPoints
<1>7. CASE CloseSession
  BY <1>0, <1>7 DEF CloseSession, Held, Before, Driving, TeardownPoints
<1>8. CASE StopBrowser
  BY <1>0, <1>8 DEF StopBrowser, ending, Held, Before, Driving, TeardownPoints
<1>9. CASE StopCloud
  <2>1. /\ pc = "stopping" /\ owned /\ task.via = "cloud" /\ half' = half /\ UNCHANGED <<task, used, chrome>>
        /\ \/ owned' = TRUE /\ pc' = pc
           \/ owned' = FALSE /\ pc' = "metering"
    BY <1>9 DEF StopCloud, ending, Stop, StopReturns
  <2> QED BY <1>0, <2>1 DEF Held, Before, Driving, TeardownPoints
<1>10. CASE Report
  <2>1. pc = "metering" /\ pc' = "done" /\ half' = half /\ UNCHANGED <<task, used, chrome, owned>>
    BY <1>10 DEF Report, opened
  <2> QED BY <1>0, <2>1 DEF Held, Before, Driving, TeardownPoints
<1>11. CASE CloudStarts \/ CloudStartSteps
  BY <1>0, <1>11 DEF CloudStarts, CloudStartSteps, runVars, opened, ending, Held
<1>12. CASE FetchAnswers \/ FetchOutOfBudget \/ Escalate
  BY <1>0, <1>12 DEF FetchAnswers, FetchOutOfBudget, Escalate, Return, opened, ending, Held, Before, Driving, TeardownPoints
<1>13. CASE AgentCalls \/ AgentAnswered \/ Tell \/ Handled
  BY <1>0, <1>13 DEF AgentCalls, AgentAnswered, Tell, Handled, opened, ending, Held
<1>14. CASE AgentReturns
  <2>1. pc = "agent" /\ pc' \in {"card", "unwinding"} /\ half' = half /\ UNCHANGED <<task, used, chrome, owned>>
    BY <1>14 DEF AgentReturns, WorkEnds, opened
  <2> QED BY <1>0, <2>1 DEF Held, Before, Driving, TeardownPoints
<1>15. CASE ConsentAsked \/ ConsentAnswered \/ AccessGranted
  <2>1. /\ half'.browser = half.browser /\ UNCHANGED <<task, used, chrome, owned>>
        /\ pc' = pc \/ (pc = "access" /\ pc' = "assembling")
    <3>1. CASE pc' = "assembling" /\ half'.browser \in {"held", "refused"} /\ half.browser = "waiting"
      <4>1. half \in Halves /\ \E c \in {"waiting", "asked", "done"} : half' = [half EXCEPT !.consent = c]
        BY <1>0, <1>15 DEF ConsentAsked, ConsentAnswered, AccessGranted
      <4>2. half'.browser = half.browser
        BY <4>1, HalvesMove
      <4> QED BY <3>1, <4>2
    <3> QED BY <1>h, <1>15, <3>1 DEF ConsentAsked, ConsentAnswered, AccessGranted, opened, ending
  <2> QED BY <1>0, <2>1 DEF Held, Before, Driving, TeardownPoints
<1>16. CASE BrowserFound \/ CloudRefused \/ CloudStarted
  <2>1. pc = "assembling" /\ pc' = pc /\ half.browser = "waiting" /\ UNCHANGED <<task, used, chrome, owned>>
    BY <1>16 DEF BrowserFound, CloudRefused, CloudStarted, BrowserHalf, ending
  <2> QED BY <1>0, <1>h, <2>1 DEF Held, Before, Driving, TeardownPoints
<1>17. CASE ChromeLaunched
  <2>1. \E b \in {"held", "refused"} :
          /\ pc = "assembling" /\ pc' = pc /\ half.browser = "waiting" /\ UNCHANGED <<task, used, owned>> /\ task.via = "local"
          /\ half' = [half EXCEPT !.browser = b]
          /\ chrome' = chrome \/ (chrome' = "up" /\ b = "held")
    BY <1>17 DEF ChromeLaunched, BrowserHalf, ending
  <2>2. /\ pc = "assembling" /\ pc' = pc /\ half.browser = "waiting" /\ UNCHANGED <<task, used, owned>> /\ task.via = "local"
        /\ chrome' = chrome \/ (chrome' = "up" /\ half'.browser = "held")
    BY <1>0, <2>1, HalvesMove
  <2> QED BY <1>0, <1>h, <2>2 DEF Held, Before, Driving, TeardownPoints
<1>18. CASE Assembled
  <2>1. /\ pc = "assembling" /\ half' = half /\ UNCHANGED <<task, used, chrome>>
        /\ \/ half.browser = "held" /\ owned' = TRUE /\ pc' = "announcing"
           \/ half.browser = "refused" /\ owned' = owned /\ pc' = "unwinding"
    BY <1>0, <1>18 DEF Assembled, WorkEnds, Halves
  <2> QED BY <1>0, <2>1 DEF Held, Before, Driving, TeardownPoints
<1>19. CASE Refused \/ Announced \/ Opened \/ RecordingStarts \/ CardShown
  <2>1. /\ half' = half /\ UNCHANGED <<task, used, chrome, owned>>
        /\ pc \in Driving \cup {"access"} /\ pc' \in Driving \cup {"unwinding"}
        /\ pc = "access" => pc' = "unwinding"
    BY <1>19 DEF Refused, Announced, Opened, RecordingStarts, CardShown, WorkEnds, opened, ending, Driving
  <2> QED BY <1>0, <2>1 DEF Held, Before, Driving, TeardownPoints
<1> QED BY <1>1, <1>2, <1>3, <1>4, <1>5, <1>6, <1>7, <1>8, <1>9, <1>10, <1>11, <1>12, <1>13, <1>14, <1>15, <1>16, <1>17, <1>18, <1>19 DEF Next, Guarded, Unguarded, Teardown

\* What the session carries.
LEMMA CarriedKeeps ==
  ASSUME RunInv, [Next]_vars
  PROVE  Carried'
<1>0. Carried /\ Held
  BY DEF RunInv
<1>1. CASE UNCHANGED vars
  BY <1>0, <1>1 DEF vars, runVars, opened, Carried
<1>2. CASE Unguarded
  BY <1>0, <1>2 DEF Unguarded, Gate, AssemblyFails, WorkBegins, Return, opened, Carried
<1>3. CASE Trip \/ FetchCancelled
  BY <1>0, <1>3 DEF Trip, FetchCancelled, Return, opened, Carried
<1>4. CASE GuardTrips
  <2>1. /\ pc \in WorkPoints /\ pc' = "unwinding" /\ UNCHANGED <<owned, session, filming, feedback>>
    BY <1>4 DEF GuardTrips, WorkEnds
  <2> QED BY <1>0, <2>1 DEF Carried, WorkPoints
<1>5. CASE Behind
  BY <1>0, <1>5 DEF Behind, runVars, opened, Carried
<1>6. CASE TakeStarting \/ FinishRecording \/ CloseFeedback \/ CloseSession
  BY <1>0, <1>6 DEF TakeStarting, FinishRecording, CloseFeedback, CloseSession, Carried
<1>8. CASE StopBrowser \/ StopCloud
  BY <1>0, <1>8 DEF StopBrowser, StopCloud, Carried
<1>10. CASE Report
  <2>1. pc = "metering" /\ pc' = "done" /\ UNCHANGED <<owned, session, filming, feedback>>
    BY <1>10 DEF Report, opened
  <2> QED BY <1>0, <2>1 DEF Carried
<1>11. CASE CloudStarts \/ CloudStartSteps
  BY <1>0, <1>11 DEF CloudStarts, CloudStartSteps, runVars, opened, Carried
<1>12. CASE FetchAnswers \/ FetchOutOfBudget \/ Escalate
  BY <1>0, <1>12 DEF FetchAnswers, FetchOutOfBudget, Escalate, Return, opened, Carried
<1>13. CASE AgentCalls \/ AgentAnswered \/ Tell \/ Handled
  BY <1>0, <1>13 DEF AgentCalls, AgentAnswered, Tell, Handled, opened, Carried
<1>14. CASE AgentReturns
  <2>1. pc = "agent" /\ pc' \in {"card", "unwinding"} /\ UNCHANGED <<owned, session, filming, feedback>>
    BY <1>14 DEF AgentReturns, WorkEnds, opened
  <2> QED BY <1>0, <2>1 DEF Carried
<1>15. CASE ConsentAsked \/ ConsentAnswered \/ AccessGranted \/ BrowserFound \/ CloudRefused \/ CloudStarted \/ ChromeLaunched
  <2>1. pc \in {"access", "assembling"} /\ pc' = "assembling" /\ UNCHANGED <<owned, session, filming, feedback>>
    BY <1>15 DEF ConsentAsked, ConsentAnswered, AccessGranted, BrowserFound, CloudRefused, CloudStarted, ChromeLaunched, BrowserHalf, opened
  <2> QED BY <1>0, <2>1 DEF Carried
<1>18. CASE Assembled
  <2>1. pc = "assembling" /\ pc' \in {"announcing", "unwinding"} /\ UNCHANGED <<session, filming, feedback>>
    BY <1>18 DEF Assembled, WorkEnds
  <2> QED BY <1>0, <2>1 DEF Carried
<1>19. CASE Refused \/ CardShown
  BY <1>0, <1>19 DEF Refused, CardShown, WorkEnds, opened, Carried
<1>20. CASE Announced \/ Opened \/ RecordingStarts
  <2>1. pc \in Driving => owned
    BY <1>0 DEF Held
  <2>2. CASE Announced
    BY <1>0, <2>1, <2>2 DEF Announced, Carried, Driving
  <2>3. CASE Opened
    <3>1. pc = "opening" /\ pc' \in {"filming", "agent"} /\ UNCHANGED <<owned, session, filming>>
      BY <2>3 DEF Opened
    <3> QED BY <1>0, <2>1, <3>1 DEF Carried, Driving
  <2>4. CASE RecordingStarts
    <3>1. /\ pc = "filming" /\ UNCHANGED <<owned, session, feedback>>
          /\ pc' = "agent" \/ (pc' = "unwinding" /\ filming' = filming)
      BY <2>4 DEF RecordingStarts, WorkEnds
    <3> QED BY <1>0, <2>1, <3>1 DEF Carried, Driving
  <2> QED BY <1>20, <2>2, <2>3, <2>4
<1> QED BY <1>1, <1>2, <1>3, <1>4, <1>5, <1>6, <1>8, <1>10, <1>11, <1>12, <1>13, <1>14, <1>15, <1>18, <1>19, <1>20 DEF Next, Guarded, Unguarded, Teardown
\* Who answers for the cloud browser.
LEMMA CloudHeldKeeps ==
  ASSUME RunInv, [Next]_vars
  PROVE  CloudHeld'
<1>0. CloudHeld /\ Held /\ half \in Halves /\ CloudInv /\ ended \in [start : {"none", "ok", "err"}, stop : {"none", "ok", "err"}]
  BY DEF RunInv, TypeOK, Halves, CloudTypeOK
<1>h. \/ half'.browser = half.browser
      \/ pc = "assembling" /\ pc' = pc /\ half.browser = "waiting" /\ half'.browser \in {"held", "refused"}
  BY <1>0, HalfSteps
<1>1. CASE UNCHANGED vars
  BY <1>0, <1>1 DEF vars, runVars, cloudVars, opened, ending, CloudHeld
<1>2. CASE Unguarded \/ Trip \/ FetchCancelled
  <2>1. /\ UNCHANGED <<starting, task, half, owned, used, at, ended>>
        /\ pc' = pc \/ (pc \in Before /\ pc' \in Before \cup {"done"})
    BY <1>2 DEF Unguarded, Gate, AssemblyFails, WorkBegins, Trip, FetchCancelled, Return, opened, ending, cloudVars, Before
  <2> QED BY <1>0, <2>1 DEF CloudHeld, Held, Before, TeardownPoints
<1>4. CASE GuardTrips
  <2>1. /\ pc \in WorkPoints /\ pc' = "unwinding" /\ half' = half /\ UNCHANGED <<task, owned, used, starting, ended>>
        /\ \/ pc = "assembling" /\ half.browser = "held" /\ at' = at /\ task.via # "cloud"
           \/ pc = "assembling" /\ half.browser = "held" /\ at' = "dropped"
           \/ ~(pc = "assembling" /\ half.browser = "held") /\ (at' = at \/ (starting /\ at' = "idle"))
    BY <1>4 DEF GuardTrips, WorkEnds, Drop, LetGo, cloudVars
  <2> QED BY <1>0, <2>1 DEF CloudHeld, Held, WorkPoints, TeardownPoints
<1>5. CASE Behind
  <2>1. UNCHANGED <<starting, task, half, owned, used, at, ended, pc>>
    BY <1>5, BehindLeaves DEF runVars, opened, ending
  <2> QED BY <1>0, <2>1 DEF CloudHeld
<1>6. CASE TakeStarting
  <2>1. /\ pc = "unwinding" /\ pc' = "wrapping" /\ starting' = FALSE /\ half' = half /\ UNCHANGED <<task, owned, used, ended>>
        /\ \/ starting /\ at' = "dropped"
           \/ ~starting /\ at' = at
    BY <1>6 DEF TakeStarting, Drop, cloudVars
  <2> QED BY <1>0, <2>1 DEF CloudHeld, TeardownPoints
<1>7. CASE FinishRecording \/ CloseFeedback \/ CloseSession
  <2>1. /\ UNCHANGED <<starting, task, half, owned, at, ended>>
        /\ pc \in {"wrapping", "quieting", "closing"} /\ pc' \in {"quieting", "closing", "stopping"}
    BY <1>7 DEF FinishRecording, CloseFeedback, CloseSession, cloudVars
  <2> QED BY <1>0, <2>1 DEF CloudHeld, TeardownPoints
<1>8. CASE StopBrowser
  <2>1. /\ pc = "stopping" /\ pc' = "metering" /\ ~(owned /\ task.via = "cloud") /\ UNCHANGED <<starting, task, half, used, at, ended>>
    BY <1>8 DEF StopBrowser, cloudVars, ending
  <2> QED BY <1>0, <2>1 DEF CloudHeld, TeardownPoints
<1>9. CASE StopCloud
  <2>1. /\ pc = "stopping" /\ owned /\ task.via = "cloud" /\ UNCHANGED <<starting, task, half, used>>
        /\ \/ owned' = TRUE /\ pc' = pc /\ at' = "stopping" /\ ended' = ended
           \/ owned' = FALSE /\ pc' = "metering"
    BY <1>9 DEF StopCloud, ending, Stop, StopReturns
  <2>2. at' # "dropped"
    BY <1>9 DEF StopCloud, Stop, StopReturns
  <2> QED BY <1>0, <2>1, <2>2 DEF CloudHeld, Held, TeardownPoints
<1>10. CASE Report
  <2>1. /\ pc = "metering" /\ pc' = "done" /\ UNCHANGED <<starting, task, half, used, owned, ended>>
        /\ at' = "dropped" \/ (at' = at /\ ~(used /\ task.via = "cloud"))
    BY <1>10 DEF Report, opened, Drop, cloudVars
  <2> QED BY <1>0, <2>1 DEF CloudHeld, Held, TeardownPoints
<1>11. CASE CloudStarts
  <2>1. /\ pc = "assembling" /\ half.browser = "waiting" /\ task.via = "cloud" /\ starting' = TRUE
        /\ at' = "starting" /\ UNCHANGED <<task, pc, half, owned, used, ended>>
    BY <1>11 DEF CloudStarts, Start, ending
  <2> QED BY <1>0, <2>1 DEF CloudHeld
<1>12. CASE CloudStartSteps
  <2>1. starting /\ at' \notin {"dropped", "new"} /\ ended'.stop = ended.stop /\ UNCHANGED <<task, pc, half, owned, used, starting>>
    BY <1>0, <1>12 DEF CloudStartSteps, Created, Connected, ConnectFails, StopReturns, runVars, opened, ending
  <2> QED BY <1>0, <2>1 DEF CloudHeld
<1>13. CASE FetchAnswers \/ FetchOutOfBudget \/ Escalate
  <2>1. /\ UNCHANGED <<starting, task, half, owned, used, at, ended>> /\ pc = "fetching" /\ pc' \in {"key", "done"}
    BY <1>13 DEF FetchAnswers, FetchOutOfBudget, Escalate, Return, opened, ending, cloudVars
  <2> QED BY <1>0, <2>1 DEF CloudHeld, Held, Before, TeardownPoints
<1>14. CASE AgentCalls \/ AgentAnswered \/ Tell \/ Handled
  BY <1>0, <1>14 DEF AgentCalls, AgentAnswered, Tell, Handled, opened, ending, cloudVars, CloudHeld
<1>15. CASE AgentReturns
  <2>1. pc = "agent" /\ pc' \in {"card", "unwinding"} /\ UNCHANGED <<starting, task, half, owned, used, at, ended>>
    BY <1>15 DEF AgentReturns, WorkEnds, opened, cloudVars
  <2> QED BY <1>0, <2>1 DEF CloudHeld, TeardownPoints
<1>16. CASE ConsentAsked \/ ConsentAnswered \/ AccessGranted
  <2>1. UNCHANGED <<starting, task, owned, used, at, ended>> /\ (pc' = pc \/ (pc = "access" /\ pc' = "assembling"))
    BY <1>16 DEF ConsentAsked, ConsentAnswered, AccessGranted, opened, ending, cloudVars
  <2>2. half'.browser = half.browser
    <3>1. \E c \in {"waiting", "asked", "done"} : half' = [half EXCEPT !.consent = c]
      BY <1>16 DEF ConsentAsked, ConsentAnswered, AccessGranted
    <3> QED BY <1>0, <3>1, HalvesMove
  <2> QED BY <1>0, <2>1, <2>2 DEF CloudHeld, TeardownPoints
<1>17. CASE BrowserFound \/ CloudRefused \/ ChromeLaunched
  <2>1. /\ pc = "assembling" /\ pc' = pc /\ UNCHANGED <<starting, task, owned, used, at, ended>> /\ half.browser = "waiting"
        /\ task.via # "cloud" \/ at = "new"
    BY <1>17 DEF BrowserFound, CloudRefused, ChromeLaunched, BrowserHalf, cloudVars, ending
  <2> QED BY <1>0, <1>h, <2>1 DEF CloudHeld
<1>18. CASE CloudStarted
  <2>1. \E b \in {"held", "refused"} :
           /\ half' = [half EXCEPT !.browser = b] /\ pc = "assembling" /\ pc' = pc /\ UNCHANGED <<task, owned, used, at, ended>> /\ at = "idle" /\ starting
           /\ \/ b = "held" /\ starting' = FALSE
              \/ b = "refused" /\ starting' = starting
    BY <1>18 DEF CloudStarted, BrowserHalf, cloudVars, ending
  <2>2. /\ pc = "assembling" /\ pc' = pc /\ UNCHANGED <<task, owned, used, at, ended>> /\ at = "idle" /\ starting
        /\ \/ half'.browser = "held" /\ starting' = FALSE
           \/ half'.browser = "refused" /\ starting' = starting
    BY <1>0, <2>1, HalvesMove
  <2> QED BY <1>0, <2>2 DEF CloudHeld
<1>19. CASE Assembled
  <2>1. /\ pc = "assembling" /\ half' = half /\ UNCHANGED <<starting, task, used, at, ended>>
        /\ \/ half.browser = "held" /\ owned' = TRUE /\ pc' = "announcing"
           \/ half.browser = "refused" /\ owned' = owned /\ pc' = "unwinding"
    BY <1>0, <1>19 DEF Assembled, WorkEnds, Halves, cloudVars
  <2> QED BY <1>0, <2>1 DEF CloudHeld, TeardownPoints
<1>20. CASE Refused \/ Announced \/ Opened \/ RecordingStarts \/ CardShown
  <2>1. /\ half' = half /\ UNCHANGED <<starting, task, used, owned, at, ended>>
        /\ pc \in Driving \cup {"access"} /\ pc' \in Driving \cup {"unwinding"}
    BY <1>20 DEF Refused, Announced, Opened, RecordingStarts, CardShown, WorkEnds, opened, ending, Driving, cloudVars
  <2> QED BY <1>0, <2>1 DEF CloudHeld, TeardownPoints, Driving
<1> QED BY <1>1, <1>2, <1>4, <1>5, <1>6, <1>7, <1>8, <1>9, <1>10, <1>11, <1>12, <1>13, <1>14, <1>15, <1>16, <1>17, <1>18, <1>19, <1>20 DEF Next, Guarded, Teardown

\* A call in flight.
LEMMA FlightKeeps ==
  ASSUME RunInv, [Next]_vars
  PROVE  Flight'
<1>0. Flight /\ Held /\ half \in Halves /\ ledger \in Ledger
  BY DEF RunInv, TypeOK, Halves
<1>1. /\ Sent.flying = TRUE /\ Dropped.flying = FALSE /\ NewLedger.flying = FALSE
      /\ \A basis \in Bases : Settled(basis).flying = FALSE
  BY <1>0, LedgerSends, LedgerSettles, LedgerDrops, LedgerIsNew
<1> HIDE DEF Sent, Dropped, NewLedger, Settled, Halves, Ledger
<1>t. task' = task
  BY TaskStays
<1>3. CASE AccessGranted
  <2>1. pc = "access" /\ pc' = "assembling" /\ ledger' = ledger /\ \E c \in {"waiting", "done"} : half' = [half EXCEPT !.consent = c]
    BY <1>3 DEF AccessGranted, spending
  <2>2. half'.consent \in {"waiting", "done"}
    BY <1>0, <2>1, HalvesMove
  <2> QED BY <1>0, <2>1, <2>2 DEF Flight
<1>4. CASE Assembled
  <2>1. /\ pc = "assembling" /\ (half.consent = "done" \/ (task.via = "extension" /\ half.browser = "refused"))
        /\ half' = half /\ ledger' = ledger /\ pc' # "assembling"
    BY <1>4 DEF Assembled, WorkEnds, spending
  <2> QED BY <1>0, <1>t, <2>1 DEF Flight
<1>5. CASE ConsentAsked
  <2>1. /\ pc = "assembling" /\ pc' = pc /\ half.consent = "waiting" /\ (task.via = "extension" => half.browser = "held")
        /\ \/ half' = [half EXCEPT !.consent = "asked"] /\ ledger' = Sent
           \/ half' = [half EXCEPT !.consent = "done"] /\ ledger' = ledger
    BY <1>5 DEF ConsentAsked
  <2>2. /\ half'.browser = half.browser
        /\ (half'.consent = "asked" /\ ledger'.flying) \/ (half'.consent = "done" /\ ledger' = ledger)
    BY <1>0, <1>1, <2>1, HalvesMove
  <2> QED BY <1>0, <1>t, <2>1, <2>2 DEF Flight
<1>6. CASE ConsentAnswered
  <2>1. pc' = pc /\ half' = [half EXCEPT !.consent = "done"] /\ \E basis \in Bases : ledger' = Settled(basis)
    BY <1>6 DEF ConsentAnswered, Bases
  <2>2. half'.consent = "done" /\ ~ledger'.flying
    BY <1>0, <1>1, <2>1, HalvesMove
  <2> QED BY <2>2 DEF Flight
<1>7. CASE BrowserFound \/ ChromeLaunched \/ CloudRefused \/ CloudStarted
  <2>1. \E b \in {"held", "refused"} : half' = [half EXCEPT !.browser = b] /\ half.browser = "waiting" /\ UNCHANGED <<pc, ledger>>
    BY <1>7 DEF BrowserFound, ChromeLaunched, CloudRefused, CloudStarted, BrowserHalf, spending
  <2>2. half.browser = "waiting" /\ UNCHANGED <<pc, ledger>> /\ half'.consent = half.consent
    BY <1>0, <2>1, HalvesMove
  <2> QED BY <1>0, <1>t, <2>2 DEF Flight
<1>8. CASE AgentCalls \/ AgentAnswered
  <2>1. pc \in {"fetching", "agent"} /\ UNCHANGED <<pc, half>>
    BY <1>8 DEF AgentCalls, AgentAnswered
  <2> QED BY <1>0, <1>t, <2>1 DEF Flight
<1>9. CASE Tell \/ Handled \/ Trip \/ Behind \/ CloudStarts \/ CloudStartSteps \/ UNCHANGED vars
  <2>1. UNCHANGED <<pc, half, ledger>>
    BY <1>9 DEF Tell, Handled, Trip, Behind, CloudStarts, CloudStartSteps, vars, runVars, spending
  <2> QED BY <1>0, <1>t, <2>1 DEF Flight
<1>10. CASE FetchCancelled \/ FetchAnswers \/ FetchOutOfBudget \/ Escalate \/ AgentReturns \/ GuardTrips
  <2>1. pc' # "assembling" /\ half' = half /\ ledger' \in {Dropped, NewLedger}
    BY <1>10 DEF FetchCancelled, FetchAnswers, FetchOutOfBudget, Escalate, AgentReturns, GuardTrips, Return, WorkEnds
  <2> QED BY <1>0, <1>1, <1>t, <2>1 DEF Flight
<1>11. CASE Unguarded \/ Refused \/ Announced \/ Opened \/ RecordingStarts \/ CardShown
  <2>1. pc \notin {"fetching", "agent", "assembling"} /\ pc' # "assembling" /\ UNCHANGED <<half, ledger>>
    BY <1>11 DEF Unguarded, Gate, AssemblyFails, WorkBegins, Return, Refused, Announced, Opened, RecordingStarts, CardShown, WorkEnds, spending
  <2> QED BY <1>0, <1>t, <2>1 DEF Flight
<1>12. CASE Teardown
  <2>1. pc \notin {"fetching", "agent", "assembling"} /\ pc' # "assembling" /\ UNCHANGED <<half, ledger>>
    BY <1>12 DEF Teardown, TakeStarting, FinishRecording, CloseFeedback, CloseSession, StopBrowser, StopCloud, Report, spending
  <2> QED BY <1>0, <1>t, <2>1 DEF Flight
<1> QED BY <1>3, <1>4, <1>5, <1>6, <1>7, <1>8, <1>9, <1>10, <1>11, <1>12 DEF Next, Guarded
-----------------------------------------------------------------------------
\* What was spent.

LEMMA UnpricedIsRefused ==
  ASSUME RunInv, MayCall, task.dollars
  PROVE  ~HasUnknown(fetchSpent \o ledger.lines)
<1>1. fetchSpent \in Seq(CostLine) /\ ledger.lines \in Seq(CostLine)
  BY DEF RunInv, TypeOK, Ledger
<1>2. ~HasUnknown(fetchSpent) /\ ~HasUnknown(ledger.lines)
  BY DEF RunInv, Spends, MayCall
<1> QED BY <1>1, <1>2, TwoLists

\* The lists and counts stay lists and counts; the two sums stay true.
LEMMA SumsKeep ==
  ASSUME RunInv, [Next]_vars
  PROVE  /\ ledger' \in Ledger /\ fetchSpent' \in Seq(CostLine) /\ made' \in Nat /\ limit' \in 0..CallLimit /\ ledger'.calls <= limit'
         /\ made' + limit' = CallLimit + ledger'.calls
         /\ ~Done => made' = N(fetchSpent') + N(ledger'.lines) + (IF ledger'.flying THEN 1 ELSE 0)
         /\ task'.dollars => ~HasUnknown(fetchSpent')
<1>0. /\ ledger \in Ledger /\ fetchSpent \in Seq(CostLine) /\ made \in Nat /\ limit \in 0..CallLimit /\ ledger.calls <= limit
      /\ made + limit = CallLimit + ledger.calls
      /\ ~Done => made = N(fetchSpent) + N(ledger.lines) + (IF ledger.flying THEN 1 ELSE 0)
      /\ task.dollars => ~HasUnknown(fetchSpent)
      /\ pc = "fetching" => limit = CallLimit /\ fetchSpent = <<>>
      /\ pc = "assembling" /\ half.consent = "asked" => ledger.flying
      /\ CallLimit \in Nat /\ task' = task
  BY TaskStays, CallLimitAssumption DEF RunInv, TypeOK, Spends, Flight
<1>1. /\ Dropped \in Ledger /\ Dropped.calls = ledger.calls /\ Dropped.flying = FALSE
      /\ N(Dropped.lines) = N(ledger.lines) + (IF ledger.flying THEN 1 ELSE 0)
      /\ Dropped.lines \in Seq(CostLine) /\ N(ledger.lines) \in Nat /\ ledger.calls \in Nat
  BY <1>0, LedgerDrops
<1>2. N(fetchSpent) \in Nat
  BY <1>0, ModelLinesFinite
<1>3. CASE UNCHANGED spending
  BY <1>0, <1>3 DEF spending
<1>4. CASE MayCall /\ ledger' = Sent /\ made' = made + 1 /\ UNCHANGED <<limit, fetchSpent, pc>>
  <2>1. Sent \in Ledger /\ Sent.calls = ledger.calls + 1 /\ Sent.lines = ledger.lines /\ Sent.flying = TRUE
    BY <1>0, LedgerSends
  <2>2. ledger.calls < limit /\ ~ledger.flying
    BY <1>4 DEF MayCall
  <2>3. ledger' \in Ledger /\ ledger'.calls = ledger.calls + 1 /\ ledger'.lines = ledger.lines /\ ledger'.flying = TRUE
    BY <1>4, <2>1
  <2>4. made' = made + 1 /\ limit' = limit /\ fetchSpent' = fetchSpent
    BY <1>4
  <2> HIDE DEF Ledger, N
  <2>5. ledger'.calls <= limit' /\ made' + limit' = CallLimit + ledger'.calls
    <3>1. made \in Nat /\ limit \in Nat /\ CallLimit \in Nat /\ ledger.calls \in Nat
      BY <1>0, <1>1
    <3>2. made + limit = CallLimit + ledger.calls
      BY <1>0
    <3> QED BY <2>2, <2>3, <2>4, <3>1, <3>2
  <2>6. ~Done => made = N(fetchSpent) + N(ledger.lines)
    BY <1>0, <1>1, <1>2, <2>2
  <2>7. N(fetchSpent') = N(fetchSpent) /\ N(ledger'.lines) = N(ledger.lines)
    BY <2>3, <2>4
  <2>8. ~Done => made' = N(fetchSpent') + N(ledger'.lines) + (IF ledger'.flying THEN 1 ELSE 0)
    <3>1. (IF ledger'.flying THEN 1 ELSE 0) = 1
      BY <2>3
    <3> QED BY <1>1, <1>2, <2>4, <2>6, <2>7, <3>1
  <2> QED BY <1>0, <2>3, <2>4, <2>5, <2>8
<1>5. CASE /\ ledger.flying \/ (pc = "assembling" /\ half.consent = "asked")
           /\ \E basis \in Bases : ledger' = Settled(basis)
           /\ UNCHANGED <<limit, fetchSpent, made, pc>>
  <2>1. PICK basis \in Bases : ledger' = Settled(basis)
    BY <1>5
  <2>2. Settled(basis) \in Ledger /\ Settled(basis).calls = ledger.calls /\ Settled(basis).flying = FALSE /\ N(Settled(basis).lines) = N(ledger.lines) + 1
    BY <1>0, LedgerSettles
  <2>3. ledger.flying
    BY <1>0, <1>5
  <2> HIDE DEF Settled, Ledger
  <2> QED BY <1>0, <1>1, <1>2, <1>5, <2>1, <2>2, <2>3
<1>6. CASE ledger' = Dropped /\ UNCHANGED <<limit, fetchSpent, made>>
  <2>1. /\ ledger' \in Ledger /\ ledger'.calls = ledger.calls /\ ledger'.flying = FALSE
        /\ N(ledger'.lines) = N(ledger.lines) + (IF ledger.flying THEN 1 ELSE 0)
    BY <1>1, <1>6
  <2>2. made' = made /\ limit' = limit /\ fetchSpent' = fetchSpent
    BY <1>6
  <2>3. N(fetchSpent') = N(fetchSpent)
    BY <2>2
  <2> HIDE DEF Dropped, Ledger, N
  <2>4. ~Done => made' = N(fetchSpent') + N(ledger'.lines) + (IF ledger'.flying THEN 1 ELSE 0)
    <3>1. (IF ledger'.flying THEN 1 ELSE 0) = 0
      BY <2>1
    <3> QED BY <1>0, <1>1, <1>2, <2>1, <2>2, <2>3, <3>1
  <2> QED BY <1>0, <2>1, <2>2, <2>4
<1>7. CASE Escalate
  <2>1. /\ pc = "fetching" /\ limit' \in Remaining(Dropped) /\ fetchSpent' = Dropped.lines /\ ledger' = NewLedger /\ made' = made
    BY <1>7 DEF Escalate
  <2>2. limit' = CallLimit - ledger.calls /\ ledger.calls < CallLimit /\ (task.dollars => ~HasUnknown(Dropped.lines))
    BY <1>0, <1>1, <2>1 DEF Remaining
  <2>3. NewLedger \in Ledger /\ NewLedger.calls = 0 /\ NewLedger.lines = <<>> /\ NewLedger.flying = FALSE
    BY LedgerIsNew
  <2>4. N(<<>>) = 0
    BY NoLines
  <2>5. made = N(ledger.lines) + (IF ledger.flying THEN 1 ELSE 0) /\ made = ledger.calls
    BY <1>0, <1>1, <2>1, <2>4 DEF Done
  <2> HIDE DEF Dropped, Ledger, NewLedger
  <2> QED BY <1>0, <1>1, <2>1, <2>2, <2>3, <2>4, <2>5
<1> QED BY <1>3, <1>4, <1>5, <1>6, <1>7, SpendSteps
-----------------------------------------------------------------------------
\* What is replied.

Replies == [kind : {"none", "result", "cancelled", "error"}, status : {"none", "complete", "ended", "refused", "budget"},
            lines : Seq(CostLine), steps : 0..MaxTold]

LEMMA RepliesAreMade ==
  ASSUME NEW lines \in Seq(CostLine), told \in 0..MaxTold
  PROVE  /\ \A kind \in {"cancelled", "error"} :
              Receipt(kind, lines) \in Replies /\ Receipt(kind, lines).lines = lines /\ Receipt(kind, lines).steps = told
         /\ \A status \in {"none", "complete", "ended", "refused", "budget"} :
              Result(status, lines) \in Replies /\ Result(status, lines).lines = lines /\ Result(status, lines).kind = "result"
BY MaxToldAssumption DEF Receipt, Result, Replies

\* A run that returns before its work: what it made is what it lists.
Returning == Gate \/ AssemblyFails \/ FetchCancelled \/ FetchAnswers \/ FetchOutOfBudget

LEMMA ReturnLists ==
  ASSUME RunInv, Returning, pc' = "done"
  PROVE  /\ reply' \in Replies /\ made' = N(reply'.lines)
         /\ reply'.kind \in {"cancelled", "error"} => reply'.steps = told
         /\ pc \in Before /\ UNCHANGED <<half, outcome, browserCost, used, told, heard>>
<1>0. /\ ledger \in Ledger /\ fetchSpent \in Seq(CostLine) /\ made \in Nat /\ told \in 0..MaxTold
      /\ pc # "done" => made = N(fetchSpent) + N(ledger.lines) + (IF ledger.flying THEN 1 ELSE 0)
      /\ pc \in {"gate", "fetching"} => fetchSpent = <<>>
      /\ pc \in {"gate", "key"} => ledger = NewLedger
  BY DEF RunInv, TypeOK, Spends, Done
<1>1. /\ N(Dropped.lines) = N(ledger.lines) + (IF ledger.flying THEN 1 ELSE 0)
      /\ Dropped.lines \in Seq(CostLine) /\ N(ledger.lines) \in Nat
  BY <1>0, LedgerDrops
<1>2. N(fetchSpent) \in Nat
  BY <1>0, ModelLinesFinite
<1>3. N(<<>>) = 0 /\ <<>> \in Seq(CostLine)
  BY NoLines
<1>4. NewLedger.lines = <<>> /\ NewLedger.flying = FALSE
  BY LedgerIsNew
<1>5. made' = made /\ UNCHANGED <<half, outcome, browserCost, used, told, heard>>
  BY DEF Returning, Gate, AssemblyFails, FetchCancelled, FetchAnswers, FetchOutOfBudget, Return, spending, ending, telling
<1>6. \E lines \in Seq(CostLine) :
        /\ made = N(lines) /\ pc \in Before
        /\ \/ \E kind \in {"cancelled", "error"} : reply' = Receipt(kind, lines)
           \/ \E status \in {"none", "complete", "ended", "refused", "budget"} : reply' = Result(status, lines)
  <2> HIDE DEF Dropped, NewLedger, Ledger, Receipt, Result
  <2>1. CASE Gate
    <3>1. pc = "gate" /\ reply' = Result("refused", <<>>)
      BY <2>1 DEF Gate, Return
    <3>2. made = N(<<>>)
      BY <1>0, <1>3, <1>4, <3>1
    <3> QED BY <1>3, <3>1, <3>2 DEF Before
  <2>2. CASE AssemblyFails
    <3>1. pc = "key" /\ reply' = Receipt("error", fetchSpent)
      BY <2>2 DEF AssemblyFails, Return
    <3>2. made = N(fetchSpent)
      BY <1>0, <1>2, <1>3, <1>4, <3>1
    <3> QED BY <1>0, <3>1, <3>2 DEF Before
  <2>3. CASE FetchCancelled \/ FetchAnswers \/ FetchOutOfBudget
    <3>1. /\ pc = "fetching"
          /\ \/ \E kind \in {"cancelled", "error"} : reply' = Receipt(kind, Dropped.lines)
             \/ \E status \in {"none", "complete", "ended", "refused", "budget"} : reply' = Result(status, Dropped.lines)
      BY <2>3 DEF FetchCancelled, FetchAnswers, FetchOutOfBudget, Return
    <3>2. made = N(Dropped.lines)
      BY <1>0, <1>1, <1>3, <3>1
    <3> QED BY <1>1, <3>1, <3>2 DEF Before
  <2> QED BY <2>1, <2>2, <2>3 DEF Returning
<1>7. PICK lines \in Seq(CostLine) :
        /\ made = N(lines) /\ pc \in Before
        /\ \/ \E kind \in {"cancelled", "error"} : reply' = Receipt(kind, lines)
           \/ \E status \in {"none", "complete", "ended", "refused", "budget"} : reply' = Result(status, lines)
  BY <1>6
<1>8. /\ \A kind \in {"cancelled", "error"} :
           Receipt(kind, lines) \in Replies /\ Receipt(kind, lines).lines = lines /\ Receipt(kind, lines).steps = told
      /\ \A status \in {"none", "complete", "ended", "refused", "budget"} :
           Result(status, lines) \in Replies /\ Result(status, lines).lines = lines /\ Result(status, lines).kind = "result"
  BY <1>0, RepliesAreMade
<1> HIDE DEF Receipt, Result, Replies
<1> QED BY <1>5, <1>7, <1>8

\* A run that tears down lists the fetched attempt, the work and the browser.
LEMMA ReportLists ==
  ASSUME RunInv, Report
  PROVE  /\ reply' \in Replies /\ made' = N(reply'.lines)
         /\ reply'.kind \in {"cancelled", "error"} => reply'.steps = told
         /\ browserCost' \in Seq(CostLine) /\ ModelLines(browserCost') = {}
         /\ LeftOpen(browserCost) => LeftOpen(reply'.lines)
         /\ used /\ task.via = "cloud" => Charged(reply'.lines)
<1>0. /\ ledger \in Ledger /\ fetchSpent \in Seq(CostLine) /\ made \in Nat /\ told \in 0..MaxTold /\ browserCost \in Seq(CostLine)
      /\ made = N(fetchSpent) + N(ledger.lines)
      /\ ModelLines(browserCost) = {} /\ pc = "metering" /\ ledger.lines \in Seq(CostLine)
      /\ outcome \in {"none", "cancelled", "refused", "complete", "ended"}
      /\ used /\ task.via = "cloud" => cost # "none"
  <2>1. pc = "metering"
    BY DEF Report
  <2>2. ~ledger.flying
    BY <2>1 DEF RunInv, Flight
  <2>3. N(fetchSpent) \in Nat /\ N(ledger.lines) \in Nat /\ ledger \in Ledger /\ ledger.lines \in Seq(CostLine)
    BY ModelLinesFinite, LedgerDrops DEF RunInv, TypeOK
  <2>4. made = N(fetchSpent) + N(ledger.lines)
    BY <2>1, <2>2, <2>3 DEF RunInv, Spends, Done
  <2>5. used /\ task.via = "cloud" => cost # "none"
    BY DEF RunInv, Held, Charges
  <2>6. ModelLines(browserCost) = {}
    BY DEF RunInv, Spends
  <2> QED BY <2>1, <2>3, <2>4, <2>5, <2>6 DEF RunInv, TypeOK
<1> DEFINE b == Append(browserCost, Line("browser", "metered"))
<1>1. /\ b \in Seq(CostLine) /\ ModelLines(b) = {} /\ Charged(b) /\ (LeftOpen(browserCost) => LeftOpen(b))
      /\ b = browserCost \o <<Line("browser", "metered")>>
  <2>1. "metered" \in Bases /\ Line("browser", "metered") \in CostLine
    BY CostLines DEF Bases
  <2>2. b = browserCost \o <<Line("browser", "metered")>>
    BY <1>0, <2>1, AppendIsConcat
  <2> QED BY <1>0, <2>1, <2>2, OneLineMore
<1>2. browserCost \o <<>> = browserCost
  BY <1>0, ConcatEmptySeq
<1>3. \E last \in Seq(CostLine) :
        /\ ModelLines(last) = {} /\ (LeftOpen(browserCost) => LeftOpen(last)) /\ (used /\ task.via = "cloud" => Charged(last))
        /\ browserCost' = last /\ made' = made
        /\ \/ \E kind \in {"cancelled", "error"} : reply' = Receipt(kind, Lines(last))
           \/ outcome # "cancelled" /\ reply' = Result(outcome, Lines(last))
  <2> HIDE DEF b
  <2>1. CASE used /\ task.via = "cloud"
    <3>1. /\ browserCost' = b /\ made' = made
          /\ \/ \E kind \in {"cancelled", "error"} : reply' = Receipt(kind, Lines(b))
             \/ outcome # "cancelled" /\ reply' = Result(outcome, Lines(b))
      BY <1>0, <1>1, <2>1 DEF Report, spending, b
    <3> QED BY <1>1, <3>1
  <2>2. CASE ~(used /\ task.via = "cloud")
    <3>1. /\ browserCost' = browserCost /\ made' = made
          /\ \/ \E kind \in {"cancelled", "error"} : reply' = Receipt(kind, Lines(browserCost))
             \/ outcome # "cancelled" /\ reply' = Result(outcome, Lines(browserCost))
      BY <1>2, <2>2 DEF Report, spending
    <3> QED BY <1>0, <2>2, <3>1
  <2> QED BY <2>1, <2>2
<1>4. PICK last \in Seq(CostLine) :
        /\ ModelLines(last) = {} /\ (LeftOpen(browserCost) => LeftOpen(last)) /\ (used /\ task.via = "cloud" => Charged(last))
        /\ browserCost' = last /\ made' = made
        /\ \/ \E kind \in {"cancelled", "error"} : reply' = Receipt(kind, Lines(last))
           \/ outcome # "cancelled" /\ reply' = Result(outcome, Lines(last))
  BY <1>3
<1> DEFINE all == Lines(last)
<1>5. /\ all \in Seq(CostLine) /\ N(all) = N(fetchSpent) + N(ledger.lines)
      /\ (LeftOpen(last) => LeftOpen(all)) /\ (Charged(last) => Charged(all))
  <2>1. fetchSpent \o ledger.lines \in Seq(CostLine) /\ N(fetchSpent \o ledger.lines) = N(fetchSpent) + N(ledger.lines)
    BY <1>0, TwoLists
  <2>2. N(last) = 0 /\ N(fetchSpent \o ledger.lines) \in Nat
    BY <1>4, <2>1, ModelLinesFinite
  <2>3. all = (fetchSpent \o ledger.lines) \o last
    BY DEF Lines
  <2> DEFINE front == fetchSpent \o ledger.lines
  <2> HIDE DEF all, front
  <2>4. front \in Seq(CostLine) /\ all = front \o last /\ N(front) \in Nat /\ N(front) = N(fetchSpent) + N(ledger.lines)
    BY <2>1, <2>2, <2>3 DEF front
  <2>5. /\ front \o last \in Seq(CostLine) /\ N(front \o last) = N(front) + N(last)
        /\ (LeftOpen(last) => LeftOpen(front \o last)) /\ (Charged(last) => Charged(front \o last))
    BY <2>4, TwoLists
  <2> QED BY <2>2, <2>4, <2>5
<1> HIDE DEF all
<1>6. /\ \A kind \in {"cancelled", "error"} :
           Receipt(kind, all) \in Replies /\ Receipt(kind, all).lines = all /\ Receipt(kind, all).steps = told
      /\ \A status \in {"none", "complete", "ended", "refused", "budget"} :
           Result(status, all) \in Replies /\ Result(status, all).lines = all /\ Result(status, all).kind = "result"
  BY <1>0, <1>5, RepliesAreMade
<1>7. \/ \E kind \in {"cancelled", "error"} : reply' = Receipt(kind, all)
      \/ outcome # "cancelled" /\ reply' = Result(outcome, all)
  BY <1>4 DEF all
<1> HIDE DEF Receipt, Result, Replies
<1>8. reply' \in Replies /\ reply'.lines = all /\ (reply'.kind \in {"cancelled", "error"} => reply'.steps = told)
  BY <1>0, <1>6, <1>7
<1> QED BY <1>0, <1>4, <1>5, <1>8
\* Which steps reply, and which write a browser's cost.
LEMMA ReplySteps ==
  ASSUME [Next]_vars
  PROVE  \/ reply' = reply /\ (pc' = "done" => pc = "done") /\ (browserCost' = browserCost \/ TakeStarting)
         \/ Report
         \/ Returning /\ pc' = "done"
<1>1. CASE UNCHANGED vars
  BY <1>1 DEF vars, runVars, ending
<1>2. CASE Gate
  <2>1. pc' = "done" \/ (pc' = "fetching" /\ UNCHANGED ending)
    BY <1>2 DEF Gate, Return
  <2> QED BY <1>2, <2>1 DEF Returning, ending
<1>3. CASE AssemblyFails \/ FetchCancelled \/ FetchAnswers \/ FetchOutOfBudget
  BY <1>3 DEF AssemblyFails, FetchCancelled, FetchAnswers, FetchOutOfBudget, Return, Returning
<1>4. CASE WorkBegins \/ Trip \/ GuardTrips \/ Escalate
  BY <1>4 DEF WorkBegins, Trip, GuardTrips, WorkEnds, Escalate, ending
<1>5. CASE Behind
  BY <1>5 DEF Behind, runVars, ending
<1>6. CASE FinishRecording \/ CloseFeedback \/ CloseSession \/ StopBrowser \/ TakeStarting
  BY <1>6 DEF FinishRecording, CloseFeedback, CloseSession, StopBrowser, TakeStarting, ending
<1>7. CASE StopCloud
  BY <1>7 DEF StopCloud, ending
<1>8. CASE CloudStarts \/ CloudStartSteps
  BY <1>8 DEF CloudStarts, CloudStartSteps, runVars, ending
<1>9. CASE AgentCalls \/ AgentAnswered \/ Tell \/ Handled \/ Refused \/ AgentReturns
  BY <1>9 DEF AgentCalls, AgentAnswered, Tell, Handled, Refused, AgentReturns, WorkEnds, ending
<1>10. CASE ConsentAsked \/ ConsentAnswered \/ AccessGranted \/ BrowserFound \/ ChromeLaunched \/ CloudRefused \/ CloudStarted
  BY <1>10 DEF ConsentAsked, ConsentAnswered, AccessGranted, BrowserFound, ChromeLaunched, CloudRefused, CloudStarted, BrowserHalf, ending
<1>11. CASE Assembled \/ Announced \/ Opened \/ RecordingStarts \/ CardShown
  BY <1>11 DEF Assembled, Announced, Opened, RecordingStarts, CardShown, WorkEnds, ending
<1> QED BY <1>1, <1>2, <1>3, <1>4, <1>5, <1>6, <1>7, <1>8, <1>9, <1>10, <1>11 DEF Next, Guarded, Unguarded, Teardown

\* A run that has replied is over.
LEMMA DoneStays ==
  ASSUME [Next]_vars, pc = "done"
  PROVE  UNCHANGED runVars
<1>1. ~Unguarded
  BY DEF Unguarded, Gate, AssemblyFails, WorkBegins
<1>2. ~Teardown
  BY DEF Teardown, TakeStarting, FinishRecording, CloseFeedback, CloseSession, StopBrowser, StopCloud, Report
<1>3. ~Trip /\ ~FetchCancelled /\ ~GuardTrips
  BY DEF Trip, FetchCancelled, GuardTrips, WorkPoints
<1>4. ~Guarded
  BY DEF Guarded, FetchAnswers, FetchOutOfBudget, Escalate, Refused, AccessGranted, BrowserFound, ChromeLaunched, CloudRefused, CloudStarts,
         CloudStartSteps, CloudStarted, ConsentAsked, ConsentAnswered, Assembled, Announced, Opened, RecordingStarts, AgentReturns, CardShown,
         AgentCalls, AgentAnswered, Tell, Handled, BrowserHalf
<1> QED BY <1>1, <1>2, <1>3, <1>4 DEF Next, Behind, vars

LEMMA UnwindingWaits ==
  ASSUME [Next]_vars, pc = "unwinding", ~TakeStarting
  PROVE  pc' = "unwinding"
<1>1. ~Unguarded /\ ~FetchCancelled /\ ~GuardTrips
  BY DEF Unguarded, Gate, AssemblyFails, WorkBegins, FetchCancelled, GuardTrips, WorkPoints
<1>2. ~Teardown
  BY DEF Teardown, FinishRecording, CloseFeedback, CloseSession, StopBrowser, StopCloud, Report
<1>3. ~Guarded
  BY DEF Guarded, FetchAnswers, FetchOutOfBudget, Escalate, Refused, AccessGranted, BrowserFound, ChromeLaunched, CloudRefused, CloudStarts,
         CloudStartSteps, CloudStarted, ConsentAsked, ConsentAnswered, Assembled, Announced, Opened, RecordingStarts, AgentReturns, CardShown,
         AgentCalls, AgentAnswered, Tell, Handled, BrowserHalf
<1> QED BY <1>1, <1>2, <1>3 DEF Next, Trip, Behind, vars, runVars

\* The reading kept of a start that did not finish.
LEMMA StartIsRead ==
  ASSUME RunInv, TakeStarting
  PROVE  /\ browserCost' \in Seq(CostLine) /\ ModelLines(browserCost') = {}
         /\ starting /\ outcome = "cancelled" => LeftOpen(browserCost')
<1>1. browserCost \in Seq(CostLine) /\ ModelLines(browserCost) = {}
  BY DEF RunInv, TypeOK, Spends
<1>2. <<>> \in Seq(CostLine) /\ ModelLines(<<>>) = {}
  BY NoLines
<1>3. ASSUME NEW basis \in Bases
      PROVE  /\ <<Line("browser", basis)>> \in Seq(CostLine) /\ ModelLines(<<Line("browser", basis)>>) = {}
             /\ basis # "metered" => LeftOpen(<<Line("browser", basis)>>)
  <2> DEFINE one == Append(<<>>, Line("browser", basis))
  <2>1. one \in Seq(CostLine) /\ ModelLines(one) = {} /\ (basis # "metered" => LeftOpen(one))
    BY <1>2, OneLineMore
  <2>2. one = <<Line("browser", basis)>>
    OBVIOUS
  <2> QED BY <2>1, <2>2
<1>4. CASE ~starting
  BY <1>1, <1>4 DEF TakeStarting
<1>5. CASE starting
  <2>1. browserCost' = UnfinishedStart(outcome = "cancelled")
    BY <1>5 DEF TakeStarting
  <2>2. \/ browserCost' = <<>> /\ outcome # "cancelled"
        \/ \E basis \in Bases : browserCost' = <<Line("browser", basis)>> /\ (outcome = "cancelled" => basis # "metered")
    BY <2>1 DEF UnfinishedStart, Bases
  <2> QED BY <1>2, <1>3, <2>2
<1> QED BY <1>4, <1>5

\* The steps before the work's browser.
LEMMA EarlySteps ==
  ASSUME [Next]_vars, pc' \in Before
  PROVE  \/ pc' = pc /\ (pc # "fetching" => ledger' = ledger)
         \/ pc = "gate" /\ pc' = "fetching" /\ ledger' = ledger
         \/ pc = "key" /\ pc' = "access" /\ ledger' = ledger
         \/ pc = "fetching" /\ pc' = "key" /\ ledger' = NewLedger
<1> USE DEF Before
<1>1. CASE UNCHANGED vars \/ Behind \/ CloudStartSteps
  BY <1>1 DEF vars, runVars, spending, Behind, CloudStartSteps
<1>2. CASE Unguarded
  BY <1>2 DEF Unguarded, Gate, AssemblyFails, WorkBegins, Return, spending
<1>3. CASE Trip \/ Tell \/ Handled \/ AgentCalls \/ AgentAnswered \/ Escalate
  BY <1>3 DEF Trip, Tell, Handled, AgentCalls, AgentAnswered, Escalate, spending
<1>4. CASE FetchCancelled \/ FetchAnswers \/ FetchOutOfBudget \/ GuardTrips \/ AgentReturns \/ Refused
  BY <1>4 DEF FetchCancelled, FetchAnswers, FetchOutOfBudget, GuardTrips, AgentReturns, Refused, Return, WorkEnds
<1>5. CASE Teardown
  BY <1>5 DEF Teardown, TakeStarting, FinishRecording, CloseFeedback, CloseSession, StopBrowser, StopCloud, Report
<1>6. CASE ConsentAsked \/ ConsentAnswered \/ AccessGranted \/ BrowserFound \/ ChromeLaunched \/ CloudRefused \/ CloudStarted \/ CloudStarts
  BY <1>6 DEF ConsentAsked, ConsentAnswered, AccessGranted, BrowserFound, ChromeLaunched, CloudRefused, CloudStarted, CloudStarts, BrowserHalf
<1>7. CASE Assembled \/ Announced \/ Opened \/ RecordingStarts \/ CardShown
  BY <1>7 DEF Assembled, Announced, Opened, RecordingStarts, CardShown, WorkEnds
<1> QED BY <1>1, <1>2, <1>3, <1>4, <1>5, <1>6, <1>7 DEF Next, Guarded

LEMMA SpendsKeep ==
  ASSUME RunInv, [Next]_vars
  PROVE  Spends' /\ reply' \in Replies /\ browserCost' \in Seq(CostLine)
<1>0. Spends /\ reply \in Replies /\ browserCost \in Seq(CostLine)
  BY DEF RunInv, TypeOK, Replies
<1>1. /\ made' + limit' = CallLimit + ledger'.calls
      /\ ~Done => made' = N(fetchSpent') + N(ledger'.lines) + (IF ledger'.flying THEN 1 ELSE 0)
      /\ task'.dollars => ~HasUnknown(fetchSpent')
  BY SumsKeep
<1>2. pc = "done" => UNCHANGED runVars
  BY DoneStays
<1>3. pc' \in {"gate", "fetching"} => limit' = CallLimit /\ fetchSpent' = <<>>
  <2> SUFFICES ASSUME pc' \in {"gate", "fetching"}
               PROVE  limit' = CallLimit /\ fetchSpent' = <<>>
    OBVIOUS
  <2>1. pc \in {"gate", "fetching"}
    BY EarlySteps DEF Before
  <2>2. ~Escalate
    BY DEF Escalate
  <2>3. UNCHANGED <<limit, fetchSpent>>
    BY <2>2, SpendSteps DEF spending
  <2> QED BY <1>0, <2>1, <2>3 DEF Spends
<1>4. pc' \in {"gate", "key", "access"} => ledger' = NewLedger
  BY <1>0, EarlySteps DEF Spends, Before
<1>5. /\ ModelLines(browserCost') = {} /\ (Done' => made' = N(reply'.lines)) /\ reply' \in Replies /\ browserCost' \in Seq(CostLine)
  <2>1. CASE Report
    BY <2>1, ReportLists
  <2>2. CASE Returning /\ pc' = "done"
    BY <1>0, <2>2, ReturnLists DEF Spends
  <2>3. CASE reply' = reply /\ (pc' = "done" => pc = "done") /\ (browserCost' = browserCost \/ TakeStarting)
    <3>1. pc = "done" => made' = made
      BY <1>2 DEF runVars, spending
    <3>2. ModelLines(browserCost') = {} /\ browserCost' \in Seq(CostLine)
      BY <1>0, <2>3, StartIsRead DEF Spends
    <3> QED BY <1>0, <2>3, <3>1, <3>2 DEF Spends, Done
  <2> QED BY <2>1, <2>2, <2>3, ReplySteps
<1>6. made' = N(fetchSpent') + N(ledger'.lines) + (IF ledger'.flying THEN 1 ELSE 0) \/ Done'
  BY <1>1, <1>2 DEF Done, runVars
<1> QED BY <1>1, <1>3, <1>4, <1>5, <1>6 DEF Spends
-----------------------------------------------------------------------------
\* What the cloud browser costs.

LEMMA CancelSteps ==
  ASSUME RunInv, [Next]_vars, outcome' = "cancelled"
  PROVE  \/ pc' = "unwinding"
         \/ outcome = "cancelled" /\ pc \in TeardownPoints \cup {"done"} /\ pc' \in TeardownPoints \cup {"done"} /\ (post = "unsent" => post' = "unsent")
<1>0. outcome = "cancelled" => pc \in TeardownPoints \cup {"done"}
  BY DEF RunInv, Charges
<1>1. CASE UNCHANGED vars
  BY <1>0, <1>1 DEF vars, runVars, cloudVars, ending
<1>2. CASE Behind
  BY <1>0, <1>2, BehindLeaves DEF runVars, ending
<1>3. CASE Unguarded \/ FetchCancelled \/ FetchAnswers \/ FetchOutOfBudget \/ Escalate
  <2>1. outcome' = outcome /\ pc \in {"gate", "fetching", "key"}
    BY <1>3 DEF Unguarded, Gate, AssemblyFails, WorkBegins, FetchCancelled, FetchAnswers, FetchOutOfBudget, Escalate, Return, ending
  <2> QED BY <1>0, <2>1 DEF TeardownPoints
<1>4. CASE GuardTrips \/ Refused \/ RecordingStarts
  BY <1>0, <1>4 DEF GuardTrips, Refused, RecordingStarts, WorkEnds, TeardownPoints
<1>5. CASE Trip
  <2>1. outcome' = outcome /\ pc' = pc /\ post' = post
    BY <1>5 DEF Trip, ending, cloudVars
  <2> QED BY <1>0, <2>1
<1>6. CASE Teardown
  <2>1. outcome' = outcome /\ post' = post /\ pc \in TeardownPoints /\ pc' \in TeardownPoints \cup {"done"}
    BY <1>6 DEF Teardown, TakeStarting, FinishRecording, CloseFeedback, CloseSession, StopBrowser, StopCloud, Report, ending, cloudVars,
                TeardownPoints, Drop, Stop, StopReturns
  <2> QED BY <1>0, <2>1
<1>7. CASE CloudStarts \/ CloudStartSteps \/ ConsentAsked \/ ConsentAnswered \/ AccessGranted \/ BrowserFound \/ ChromeLaunched \/ CloudRefused \/ CloudStarted
  <2>1. outcome' = outcome /\ pc \in {"access", "assembling"}
    BY <1>7 DEF CloudStarts, CloudStartSteps, ConsentAsked, ConsentAnswered, AccessGranted, BrowserFound, ChromeLaunched, CloudRefused, CloudStarted,
                BrowserHalf, runVars, ending
  <2> QED BY <1>0, <2>1 DEF TeardownPoints
<1>8. CASE AgentCalls \/ AgentAnswered \/ Tell \/ Handled \/ Announced \/ Opened
  <2>1. outcome' = outcome /\ pc \in {"fetching", "agent", "announcing", "opening"}
    BY <1>8 DEF AgentCalls, AgentAnswered, Tell, Handled, Announced, Opened, ending
  <2> QED BY <1>0, <2>1 DEF TeardownPoints
<1>9. CASE Assembled \/ CardShown \/ AgentReturns
  <2>1. pc' = "unwinding" \/ (outcome' = outcome /\ pc = "assembling") \/ outcome' \in {"complete", "ended"}
    BY <1>9 DEF Assembled, CardShown, AgentReturns, WorkEnds
  <2> QED BY <1>0, <2>1 DEF TeardownPoints
<1> QED BY <1>1, <1>2, <1>3, <1>4, <1>5, <1>6, <1>7, <1>8, <1>9 DEF Next, Guarded

LEMMA ChargesKeep ==
  ASSUME RunInv, [Next]_vars
  PROVE  Charges'
<1>0. Charges /\ CloudInv /\ CloudHeld /\ Held /\ half \in Halves /\ task' = task
  BY TaskStays DEF RunInv, TypeOK, Halves
<1>1. /\ post' = "ok" => cost' # "none"
      /\ ended'.start = "ok" => post' = "ok"
      /\ post = "ok" => post' = "ok"
      /\ post' = "unsent" => post = "unsent"
  BY <1>0, CloudKeeps, CloudTells DEF Charges
<1>2. half'.browser = "held" /\ task'.via = "cloud" => post' = "ok"
  <2> SUFFICES ASSUME half'.browser = "held", task.via = "cloud", half.browser # "held"
               PROVE  post' = "ok"
    BY <1>0, <1>1 DEF Charges
  <2>1. half'.browser # half.browser
    OBVIOUS
  <2>2. ~(ConsentAsked \/ ConsentAnswered \/ AccessGranted)
    <3>1. ConsentAsked \/ ConsentAnswered \/ AccessGranted => \E c \in {"waiting", "asked", "done"} : half' = [half EXCEPT !.consent = c]
      BY DEF ConsentAsked, ConsentAnswered, AccessGranted
    <3>2. ConsentAsked \/ ConsentAnswered \/ AccessGranted => half'.browser = half.browser
      BY <1>0, <3>1, HalvesMove
    <3> QED BY <2>1, <3>2
  <2>3. ~CloudRefused
    <3>1. CloudRefused => half' = [half EXCEPT !.browser = "refused"]
      BY DEF CloudRefused, BrowserHalf
    <3>2. CloudRefused => half'.browser = "refused"
      BY <1>0, <3>1, HalvesMove
    <3> QED BY <3>2
  <2>4. CloudStarted
    <3>1. half' # half
      BY <2>1
    <3>2. ~UNCHANGED vars /\ ~Unguarded /\ ~Trip /\ ~FetchCancelled /\ ~GuardTrips /\ ~Behind
      BY <3>1 DEF vars, runVars, Unguarded, Gate, AssemblyFails, WorkBegins, Return, Trip, FetchCancelled, GuardTrips, Behind
    <3>3. ~Teardown
      BY <3>1 DEF Teardown, TakeStarting, FinishRecording, CloseFeedback, CloseSession, StopBrowser, StopCloud, Report
    <3>4. ~(FetchAnswers \/ FetchOutOfBudget \/ Escalate \/ Refused \/ CloudStarts \/ CloudStartSteps \/ Assembled \/ Announced \/ Opened
             \/ RecordingStarts \/ AgentReturns \/ CardShown \/ AgentCalls \/ AgentAnswered \/ Tell \/ Handled)
      BY <3>1 DEF FetchAnswers, FetchOutOfBudget, Escalate, Refused, CloudStarts, CloudStartSteps, Assembled, Announced, Opened,
                  RecordingStarts, AgentReturns, CardShown, AgentCalls, AgentAnswered, Tell, Handled, Return, runVars
    <3>5. ~(BrowserFound \/ ChromeLaunched)
      BY DEF BrowserFound, ChromeLaunched
    <3> QED BY <2>2, <2>3, <3>2, <3>3, <3>4, <3>5 DEF Next, Guarded
  <2>5. ended.start = "ok"
    <3>1. CASE ended.start = "err" /\ BrowserHalf("refused")
      <4>1. half' = [half EXCEPT !.browser = "refused"]
        BY <3>1 DEF BrowserHalf
      <4>2. half'.browser = "refused"
        BY <1>0, <4>1, HalvesMove
      <4> QED BY <4>2
    <3> QED BY <2>4, <3>1 DEF CloudStarted
  <2> QED BY <1>0, <1>1, <2>5 DEF Charges
<1>3. outcome' = "cancelled" => pc' \in TeardownPoints \cup {"done"}
  BY CancelSteps DEF TeardownPoints
<1>4. ASSUME outcome' = "cancelled", half'.browser = "waiting", post' # "unsent"
      PROVE  /\ pc' \in TeardownPoints \ {"unwinding"} => LeftOpen(browserCost')
             /\ pc' = "done" => LeftOpen(reply'.lines)
  <2>1. CASE pc' = "unwinding"
    BY <2>1
  <2>2. CASE outcome = "cancelled" /\ pc \in TeardownPoints \cup {"done"} /\ pc' \in TeardownPoints \cup {"done"} /\ post # "unsent"
    <3>1. half.browser = "waiting"
      BY <1>0, <1>4, <2>2, HalfSteps DEF TeardownPoints
    <3>2. /\ pc \in TeardownPoints \ {"unwinding"} => LeftOpen(browserCost)
          /\ pc = "done" => LeftOpen(reply.lines)
      BY <1>0, <2>2, <3>1 DEF Charges, Done
    <3>3. CASE Report
      <4>1. pc = "metering" /\ pc' = "done"
        BY <3>3 DEF Report
      <4>2. LeftOpen(reply'.lines)
        BY <3>2, <3>3, <4>1, ReportLists DEF TeardownPoints
      <4> QED BY <4>1, <4>2 DEF TeardownPoints
    <3>4. CASE Returning /\ pc' = "done"
      <4>1. pc \in Before
        BY <3>4, ReturnLists
      <4> QED BY <2>2, <4>1 DEF Before, TeardownPoints
    <3>5. CASE TakeStarting
      <4>1. pc = "unwinding" /\ pc' = "wrapping"
        BY <3>5 DEF TakeStarting
      <4>2. at \notin {"new", "dropped"}
        BY <1>0, <2>2, <3>1, <4>1 DEF CloudInv, Learnt, CloudHeld
      <4>3. starting
        BY <1>0, <3>1, <4>1, <4>2 DEF CloudHeld
      <4> QED BY <2>2, <3>5, <4>1, <4>3, StartIsRead
    <3>6. CASE reply' = reply /\ (pc' = "done" => pc = "done") /\ browserCost' = browserCost /\ ~TakeStarting
      <4>1. pc = "unwinding" /\ ~TakeStarting => pc' = "unwinding"
        BY UnwindingWaits
      <4>2. pc = "done" => pc' = "done"
        BY DoneStays DEF runVars
      <4>3. LeftOpen(browserCost') <=> LeftOpen(browserCost)
        BY <3>6
      <4>4. LeftOpen(reply'.lines) <=> LeftOpen(reply.lines)
        BY <3>6
      <4> QED BY <2>2, <3>2, <3>6, <4>1, <4>2, <4>3, <4>4 DEF TeardownPoints
    <3> QED BY <3>3, <3>4, <3>5, <3>6, ReplySteps
  <2> QED BY <1>4, <2>1, <2>2, CancelSteps
<1>5. pc' = "done" /\ used' /\ task'.via = "cloud" => Charged(reply'.lines)
  <2> SUFFICES ASSUME pc' = "done", used', task.via = "cloud"
               PROVE  Charged(reply'.lines)
    BY <1>0
  <2>1. CASE Report
    <3>1. used' = used
      BY <2>1 DEF Report
    <3> QED BY <2>1, <3>1, ReportLists
  <2>2. CASE Returning /\ pc' = "done"
    <3>1. pc \in Before /\ used' = used
      BY <2>2, ReturnLists
    <3> QED BY <1>0, <3>1 DEF Held, Before
  <2>3. CASE reply' = reply /\ pc = "done"
    <3>1. used' = used
      BY <2>3, DoneStays DEF runVars, ending
    <3> QED BY <1>0, <2>3, <3>1 DEF Charges, Done
  <2> QED BY <2>1, <2>2, <2>3, ReplySteps
<1> QED BY <1>1, <1>2, <1>3, <1>4, <1>5 DEF Charges, Done
-----------------------------------------------------------------------------
\* The steps told, and the types.

LEMMA StepsKeep ==
  ASSUME RunInv, [Next]_vars
  PROVE  Steps' /\ told' \in 0..MaxTold /\ heard' \in 0..MaxTold
<1>0. Steps /\ told \in 0..MaxTold /\ MaxTold \in Nat
  BY MaxToldAssumption DEF RunInv, TypeOK
<1>1. UNCHANGED <<told, heard>> \/ Tell
  <2>1. CASE Unguarded \/ FetchCancelled \/ FetchAnswers \/ FetchOutOfBudget \/ Escalate
    BY <2>1 DEF Unguarded, Gate, AssemblyFails, WorkBegins, FetchCancelled, FetchAnswers, FetchOutOfBudget, Escalate, Return, telling
  <2>2. CASE Trip \/ GuardTrips \/ Behind \/ UNCHANGED vars
    BY <2>2 DEF Trip, GuardTrips, Behind, vars, runVars, telling
  <2>3. CASE Teardown
    BY <2>3 DEF Teardown, TakeStarting, FinishRecording, CloseFeedback, CloseSession, StopBrowser, StopCloud, Report, telling
  <2>4. CASE ConsentAsked \/ ConsentAnswered \/ AccessGranted \/ BrowserFound \/ ChromeLaunched \/ CloudRefused \/ CloudStarted \/ CloudStarts \/ CloudStartSteps
    BY <2>4 DEF ConsentAsked, ConsentAnswered, AccessGranted, BrowserFound, ChromeLaunched, CloudRefused, CloudStarted, CloudStarts, CloudStartSteps,
                BrowserHalf, runVars, telling
  <2>5. CASE Refused \/ Assembled \/ Announced \/ Opened \/ RecordingStarts \/ AgentReturns \/ CardShown \/ AgentCalls \/ AgentAnswered \/ Handled
    BY <2>5 DEF Refused, Assembled, Announced, Opened, RecordingStarts, AgentReturns, CardShown, AgentCalls, AgentAnswered, Handled, telling
  <2> QED BY <2>1, <2>2, <2>3, <2>4, <2>5 DEF Next, Guarded
<1>2. CASE Tell
  <2>1. told' = told + 1 /\ heard' = heard + 1 /\ told < MaxTold /\ pc' = pc /\ pc # "done"
    BY <1>2 DEF Tell
  <2> QED BY <1>0, <2>1 DEF Steps, Done
<1>3. CASE UNCHANGED <<told, heard>>
  <2>1. CASE Report
    BY <1>0, <1>3, <2>1, ReportLists DEF Steps
  <2>2. CASE Returning /\ pc' = "done"
    BY <1>0, <1>3, <2>2, ReturnLists DEF Steps
  <2>3. CASE reply' = reply /\ (pc' = "done" => pc = "done")
    BY <1>0, <1>3, <2>3 DEF Steps, Done
  <2> QED BY <2>1, <2>2, <2>3, ReplySteps
<1> QED BY <1>1, <1>2, <1>3

LEMMA TypesKeep ==
  ASSUME RunInv, [Next]_vars
  PROVE  TypeOK'
<1>0. TypeOK
  BY DEF RunInv
<1>1. CloudInv' /\ CloudTypeOK'
  BY CloudKeeps, CloudStep DEF RunInv, CloudInv
<1>2. /\ ledger' \in Ledger /\ fetchSpent' \in Seq(CostLine) /\ made' \in Nat /\ limit' \in 0..CallLimit /\ ledger'.calls <= limit'
      /\ reply' \in Replies /\ browserCost' \in Seq(CostLine) /\ told' \in 0..MaxTold /\ heard' \in 0..MaxTold
      /\ half' \in Halves /\ task' \in Tasks
  BY <1>0, SumsKeep, SpendsKeep, StepsKeep, HalfSteps, TaskStays DEF TypeOK, Halves
<1> DEFINE Points == {"gate", "fetching", "key", "access", "assembling", "announcing", "opening", "filming", "agent", "card", "done"} \cup TeardownPoints
           Outcomes == {"none", "cancelled", "refused", "complete", "ended"}
<1>3. pc' \in Points /\ chrome' \in {"off", "up", "down"} /\ session' \in {"none", "open", "closed"} /\ outcome' \in Outcomes
  <2>0. pc \in Points /\ chrome \in {"off", "up", "down"} /\ session \in {"none", "open", "closed"} /\ outcome \in Outcomes
    BY <1>0 DEF TypeOK
  <2>1. CASE Unguarded \/ FetchCancelled \/ FetchAnswers \/ FetchOutOfBudget \/ Escalate
    BY <2>0, <2>1 DEF Unguarded, Gate, AssemblyFails, WorkBegins, FetchCancelled, FetchAnswers, FetchOutOfBudget, Escalate, Return, opened, ending
  <2>2. CASE Trip \/ GuardTrips \/ Behind \/ UNCHANGED vars
    BY <2>0, <2>2 DEF Trip, GuardTrips, WorkEnds, Behind, vars, runVars, opened, ending, TeardownPoints
  <2>3. CASE Teardown
    BY <2>0, <2>3 DEF Teardown, TakeStarting, FinishRecording, CloseFeedback, CloseSession, StopBrowser, StopCloud, Report, opened, ending, TeardownPoints
  <2>4. CASE ConsentAsked \/ ConsentAnswered \/ AccessGranted \/ BrowserFound \/ ChromeLaunched \/ CloudRefused \/ CloudStarted \/ CloudStarts \/ CloudStartSteps
    BY <2>0, <2>4 DEF ConsentAsked, ConsentAnswered, AccessGranted, BrowserFound, ChromeLaunched, CloudRefused, CloudStarted, CloudStarts, CloudStartSteps,
                BrowserHalf, runVars, opened, ending
  <2>5. CASE Refused \/ Assembled \/ Announced \/ Opened \/ RecordingStarts \/ CardShown
    BY <2>0, <2>5 DEF Refused, Assembled, Announced, Opened, RecordingStarts, CardShown, WorkEnds, opened, ending, TeardownPoints
  <2>6. CASE AgentReturns \/ AgentCalls \/ AgentAnswered \/ Tell \/ Handled
    BY <2>0, <2>6 DEF AgentReturns, AgentCalls, AgentAnswered, Tell, Handled, WorkEnds, opened, ending, TeardownPoints
  <2> QED BY <2>1, <2>2, <2>3, <2>4, <2>5, <2>6 DEF Next, Guarded
<1>4. /\ tripped' \in {tripped, TRUE} /\ starting' \in {starting, TRUE, FALSE} /\ owned' \in {owned, TRUE, FALSE}
      /\ filming' \in {filming, TRUE, FALSE} /\ feedback' \in {feedback, TRUE, FALSE} /\ handling' \in {handling, TRUE, FALSE}
      /\ recordingFailed' \in {recordingFailed, TRUE} /\ used' \in {used, owned}
  <2>1. CASE Unguarded \/ FetchCancelled \/ FetchAnswers \/ FetchOutOfBudget \/ Escalate
    BY <2>1 DEF Unguarded, Gate, AssemblyFails, WorkBegins, FetchCancelled, FetchAnswers, FetchOutOfBudget, Escalate, Return, opened, ending, telling
  <2>2. CASE Trip \/ GuardTrips \/ Behind \/ UNCHANGED vars
    BY <2>2 DEF Trip, GuardTrips, WorkEnds, Behind, vars, runVars, opened, ending, telling
  <2>3. CASE TakeStarting \/ FinishRecording \/ CloseFeedback \/ CloseSession \/ StopBrowser \/ Report
    BY <2>3 DEF TakeStarting, FinishRecording, CloseFeedback, CloseSession, StopBrowser, Report, opened, ending, telling
  <2>7. CASE StopCloud
    BY <2>7 DEF StopCloud, ending, telling
  <2>4. CASE ConsentAsked \/ ConsentAnswered \/ AccessGranted \/ BrowserFound \/ ChromeLaunched \/ CloudRefused \/ CloudStarted \/ CloudStarts \/ CloudStartSteps
    BY <2>4 DEF ConsentAsked, ConsentAnswered, AccessGranted, BrowserFound, ChromeLaunched, CloudRefused, CloudStarted, CloudStarts, CloudStartSteps,
                BrowserHalf, runVars, opened, ending, telling
  <2>8. CASE Opened
    <3>1. feedback' = FALSE \/ feedback' = (task.via \in {"handed", "local"})
      BY <2>8 DEF Opened
    <3>2. (task.via \in {"handed", "local"}) \in BOOLEAN
      OBVIOUS
    <3>3. feedback' \in {feedback, TRUE, FALSE}
      BY <3>1, <3>2
    <3> QED BY <2>8, <3>3 DEF Opened, ending, telling
  <2>5. CASE Refused \/ Assembled \/ Announced \/ RecordingStarts \/ CardShown
    BY <2>5 DEF Refused, Assembled, Announced, RecordingStarts, CardShown, WorkEnds, opened, ending, telling
  <2>6. CASE AgentReturns \/ AgentCalls \/ AgentAnswered \/ Tell \/ Handled
    BY <2>6 DEF AgentReturns, AgentCalls, AgentAnswered, Tell, Handled, WorkEnds, opened, ending, telling
  <2> QED BY <2>1, <2>2, <2>3, <2>4, <2>5, <2>6, <2>7, <2>8 DEF Next, Guarded, Teardown
<1>5. /\ tripped \in BOOLEAN /\ starting \in BOOLEAN /\ owned \in BOOLEAN /\ filming \in BOOLEAN /\ feedback \in BOOLEAN
      /\ handling \in BOOLEAN /\ recordingFailed \in BOOLEAN /\ used \in BOOLEAN
  BY <1>0 DEF TypeOK
<1>6. /\ tripped' \in BOOLEAN /\ starting' \in BOOLEAN /\ owned' \in BOOLEAN /\ filming' \in BOOLEAN /\ feedback' \in BOOLEAN
      /\ handling' \in BOOLEAN /\ recordingFailed' \in BOOLEAN /\ used' \in BOOLEAN
  <2>1. tripped' \in BOOLEAN /\ starting' \in BOOLEAN /\ owned' \in BOOLEAN
    BY <1>4, <1>5
  <2>2. filming' \in BOOLEAN /\ feedback' \in BOOLEAN /\ handling' \in BOOLEAN
    BY <1>4, <1>5
  <2>3. recordingFailed' \in BOOLEAN
    BY <1>4, <1>5
  <2>4. used' \in BOOLEAN
    BY <1>4, <1>5
  <2> QED BY <2>1, <2>2, <2>3, <2>4
<1> QED BY <1>1, <1>2, <1>3, <1>6 DEF TypeOK, Replies, Halves

-----------------------------------------------------------------------------
\* The invariant.

LEMMA RunBegins ==
  ASSUME Init
  PROVE  RunInv
<1>1. CloudInv /\ CloudTypeOK
  BY CloudBegins DEF Init, CloudInv
<1>2. NewLedger \in Ledger /\ NewLedger.calls = 0 /\ NewLedger.lines = <<>> /\ NewLedger.flying = FALSE
  BY LedgerIsNew
<1>3. ModelLines(<<>>) = {} /\ N(<<>>) = 0 /\ <<>> \in Seq(CostLine) /\ ~HasUnknown(<<>>)
  BY NoLines
<1>4. half \in Halves /\ half.browser = "waiting" /\ half.consent = "waiting"
  BY DEF Init, Halves
<1>5. NoReply \in Replies /\ NoReply.kind = "none"
  BY <1>3, MaxToldAssumption DEF NoReply, Replies
<1>6. pc \in {"gate", "key"} /\ CallLimit \in Nat /\ MaxTold \in Nat
  BY CallLimitAssumption, MaxToldAssumption DEF Init
<1>7. /\ tripped \in BOOLEAN /\ starting \in BOOLEAN /\ owned \in BOOLEAN /\ filming \in BOOLEAN /\ feedback \in BOOLEAN
      /\ handling \in BOOLEAN /\ recordingFailed \in BOOLEAN /\ used \in BOOLEAN
  BY DEF Init
<1>8. at = "new" /\ post = "unsent" /\ ended.stop = "none" /\ ended.start = "none"
  BY DEF Init, CloudInit
<1>9. TypeOK
  BY <1>1, <1>2, <1>3, <1>4, <1>5, <1>6, <1>7 DEF Init, TypeOK, Halves, Replies
<1>10. Held /\ CloudHeld /\ Carried
  BY <1>4, <1>6, <1>8 DEF Init, Held, CloudHeld, Carried, Before, Driving, TeardownPoints
<1>11. Flight /\ Steps
  BY <1>2, <1>4, <1>6 DEF Init, Flight, Steps, Done
<1>12. Spends
  BY <1>2, <1>3, <1>6 DEF Init, Spends, Done
<1>13. Charges
  BY <1>4, <1>6, <1>8 DEF Init, Charges, Done
<1> QED BY <1>1, <1>9, <1>10, <1>11, <1>12, <1>13 DEF RunInv

LEMMA RunKeeps ==
  ASSUME RunInv, [Next]_vars
  PROVE  RunInv'
<1>1. CloudInv'
  BY CloudKeeps, CloudStep DEF RunInv
<1> QED BY <1>1, TypesKeep, HeldKeeps, CloudHeldKeeps, CarriedKeeps, FlightKeeps, SpendsKeep, ChargesKeep, StepsKeep DEF RunInv

LEMMA RunPromises ==
  ASSUME RunInv
  PROVE  RunCloses /\ ReplyAccounts
<1>1. TypeOK /\ Held /\ CloudHeld /\ Carried /\ Spends /\ Charges /\ Steps
  BY DEF RunInv
<1>2. ClosedInsideOut
  BY <1>1 DEF ClosedInsideOut, Held, CloudHeld, Carried
<1>3. NothingLeftOpen
  BY <1>1 DEF NothingLeftOpen, Done, Held, CloudHeld, Carried
<1>4. EveryCallIsOneLine
  BY <1>1 DEF EveryCallIsOneLine, Spends, N
<1>5. BudgetHandedOver
  <2>1. made + limit = CallLimit + ledger.calls /\ ledger.calls <= limit /\ made \in Nat /\ limit \in 0..CallLimit /\ ledger.calls \in Nat /\ CallLimit \in Nat
    BY <1>1, CallLimitAssumption DEF Spends, TypeOK, Ledger
  <2> QED BY <2>1 DEF BudgetHandedOver
<1>6. StepsOwed
  BY <1>1 DEF StepsOwed, Steps
<1>7. BrowserCharged
  BY <1>1 DEF BrowserCharged, Charges, LeftOpen, Charged
<1> QED BY <1>1, <1>2, <1>3, <1>4, <1>5, <1>6, <1>7 DEF RunCloses, ReplyAccounts

\* However a run ends, what it opened is closed, each thing inside what it was
\* opened on, before its reply; a cloud browser is stopped, or its stop handed to
\* a task behind the run (`run_unboxed`'s teardown in fastbrowse-run/src/lib.rs).
THEOREM RunsClose ==
  Spec => []RunCloses
<1>1. Init => RunInv
  BY RunBegins
<1>2. RunInv /\ [Next]_vars => RunInv'
  BY RunKeeps
<1>3. RunInv => RunCloses
  BY RunPromises
<1> QED BY <1>1, <1>2, <1>3, PTL DEF Spec

\* However a run ends, its reply lists each model call once, over both attempts,
\* which stay within one limit, every step its handler was told, and the cloud
\* browser's charge (`finish`, `cancelled`, `remaining`, `unfinished_start`).
THEOREM RepliesAccount ==
  Spec => []ReplyAccounts
<1>1. Init => RunInv
  BY RunBegins
<1>2. RunInv /\ [Next]_vars => RunInv'
  BY RunKeeps
<1>3. RunInv => ReplyAccounts
  BY RunPromises
<1> QED BY <1>1, <1>2, <1>3, PTL DEF Spec

\* With a dollar cap no model call is sent once an unpriced one was made, whether
\* in the fetched attempt or in the browser run (`Ledger::reserve`, `remaining`).
THEOREM UnpricedStops ==
  Spec => NothingPastUnpriced
<1>1. Init => RunInv
  BY RunBegins
<1>2. RunInv /\ [Next]_vars => RunInv'
  BY RunKeeps
<1>3. RunInv /\ [Next]_vars => [made' # made /\ task.dollars => ~HasUnknown(fetchSpent \o ledger.lines)]_vars
  <2> SUFFICES ASSUME RunInv, [Next]_vars, made' # made, task.dollars
               PROVE  ~HasUnknown(fetchSpent \o ledger.lines)
    OBVIOUS
  <2>1. MayCall
    BY SpendSteps DEF spending, Escalate
  <2> QED BY <2>1, UnpricedIsRefused
<1> QED BY <1>1, <1>2, <1>3, PTL DEF Spec, NothingPastUnpriced

----------------------------------------------------------------------------
(* Recipes: a saved step is handed out for the decision that is the step,  *)
(* and what is written shows no secret.                                    *)

\* The first of a set of steps is one of them.
LEMMA FirstOfAll ==
  ASSUME NEW X \in SUBSET Nat, X # {}
  PROVE  (CHOOSE k \in X : \A j \in X : k <= j) \in X
<1>1. PICK n \in X : \A k \in X : ~(<<k, n>> \in OpToRel(<, Nat))
  BY NatLessThanWellFounded, WFMin, Zenon
<1>2. \A j \in X : n <= j
  <2> SUFFICES ASSUME NEW j \in X PROVE n <= j
    OBVIOUS
  <2>1. ~(j < n)
    BY <1>1 DEF OpToRel
  <2> QED BY <2>1
<1> QED BY <1>2, Zenon

\* The steps left of a log are steps of it, and safe: by induction along the log.
LEMMA SafeStepsAreSafe ==
  ASSUME NEW S, NEW log \in Seq(S)
  PROVE  SafeSteps(log) \in Seq({s \in S : IsSafe(s)})
<1> DEFINE loglen == Len(log)
           Good == {s \in S : IsSafe(s)}
           Body(f) == [n \in 0..loglen |-> IF n = 0 THEN <<>> ELSE IF IsSafe(log[n]) THEN Append(f[n - 1], log[n]) ELSE f[n - 1]]
           F == CHOOSE f : f = Body(f)
           Found == {m \in Nat : \E f : \A n \in 0..loglen : n < m => f[n] = Body(f)[n]}
           Kept == {m \in Nat : m <= loglen => F[m] \in Seq(Good)}
<1>1. loglen \in Nat /\ \A n \in 1..loglen : log[n] \in S
  OBVIOUS
<1> HIDE DEF loglen
<1>2. Found = Nat
  <2>1. 0 \in Found
    BY <1>1
  <2>2. ASSUME NEW m \in Found PROVE m + 1 \in Found
    <3>1. PICK f : \A n \in 0..loglen : n < m => f[n] = Body(f)[n]
      OBVIOUS
    <3> DEFINE g == Body(f)
    <3>2. ASSUME NEW n \in 0..loglen, n < m + 1 PROVE g[n] = Body(g)[n]
      <4>1. CASE n = 0
        BY <4>1
      <4>2. CASE n # 0
        <5>1. n - 1 \in 0..loglen /\ n - 1 < m
          BY <1>1, <3>2, <4>2
        <5>2. f[n - 1] = g[n - 1]
          BY <3>1, <5>1
        <5>3. /\ g[n] = IF IsSafe(log[n]) THEN Append(f[n - 1], log[n]) ELSE f[n - 1]
              /\ Body(g)[n] = IF IsSafe(log[n]) THEN Append(g[n - 1], log[n]) ELSE g[n - 1]
          BY <4>2
        <5> HIDE DEF g, Body
        <5> QED BY <5>2, <5>3
      <4> QED BY <4>1, <4>2
    <3>3. m + 1 \in Nat /\ \A n \in 0..loglen : n < m + 1 => g[n] = Body(g)[n]
      BY <3>2
    <3> HIDE DEF g, Body
    <3> QED BY <3>3, Zenon
  <2> QED BY <2>1, <2>2, NatsFromZero
<1>3. F = Body(F)
  <2>0. loglen + 1 \in Nat
    BY <1>1
  <2>1. loglen + 1 \in Found
    BY <1>2, <2>0, Zenon
  <2>2. PICK f : \A n \in 0..loglen : n < loglen + 1 => f[n] = Body(f)[n]
    BY <2>1
  <2> DEFINE g == Body(f)
  <2>3. \A n \in 0..loglen : g[n] = f[n]
    <3>1. \A n \in 0..loglen : n < loglen + 1
      BY <1>1
    <3> HIDE DEF Body
    <3> QED BY <2>2, <3>1, Zenon
  <2>4. ASSUME NEW n \in 0..loglen PROVE g[n] = Body(g)[n]
    <3>1. CASE n = 0
      BY <3>1
    <3>2. CASE n # 0
      <4>1. n - 1 \in 0..loglen
        BY <1>1, <3>2
      <4>2. f[n - 1] = g[n - 1]
        BY <2>3, <4>1
      <4>3. /\ g[n] = IF IsSafe(log[n]) THEN Append(f[n - 1], log[n]) ELSE f[n - 1]
            /\ Body(g)[n] = IF IsSafe(log[n]) THEN Append(g[n - 1], log[n]) ELSE g[n - 1]
        BY <3>2
      <4> HIDE DEF g, Body
      <4> QED BY <4>2, <4>3
    <3> QED BY <3>1, <3>2
  <2>5. g = Body(g)
    BY <2>4
  <2> HIDE DEF g, Body
  <2> QED BY <2>5, Zenon
<1> HIDE DEF F
<1>4. Kept = Nat
  <2>1. 0 \in Kept
    <3>1. 0 \in 0..loglen
      BY <1>1
    <3>2. F[0] = <<>>
      BY <1>3, <3>1
    <3>3. <<>> \in Seq(Good)
      OBVIOUS
    <3> QED BY <3>2, <3>3
  <2>2. ASSUME NEW m \in Kept, m + 1 <= loglen PROVE F[m + 1] \in Seq(Good)
    <3>1. m + 1 \in 0..loglen /\ m + 1 # 0 /\ (m + 1) - 1 = m /\ m <= loglen /\ m + 1 \in 1..loglen
      BY <1>1, <2>2
    <3>2. F[m + 1] = Body(F)[m + 1]
      BY <1>3
    <3>3. F[m + 1] = IF IsSafe(log[m + 1]) THEN Append(F[m], log[m + 1]) ELSE F[m]
      BY <3>1, <3>2
    <3>4. F[m] \in Seq(Good) /\ log[m + 1] \in S
      BY <1>1, <3>1
    <3>5. IsSafe(log[m + 1]) => log[m + 1] \in Good
      BY <3>4
    <3> HIDE DEF Good
    <3> QED BY <3>3, <3>4, <3>5
  <2>3. \A m \in Kept : m + 1 \in Kept
    BY <2>2
  <2> HIDE DEF Good
  <2> QED BY <2>1, <2>3, NatsFromZero
<1>5. F[loglen] \in Seq(Good)
  BY <1>1, <1>4
<1>6. SafeSteps(log) = F[loglen]
  BY Zenon DEF SafeSteps, F, Body, loglen
<1> QED BY <1>5, <1>6

\* What names one control names it alone.
LEMMA TargetsAreOne ==
  ASSUME NEW page, IsFiniteSet(page.controls), NEW step, NEW c \in TargetsOn(step, page)
  PROVE  /\ c.name = step.target
         /\ step.target # "none" => c \in page.controls
         /\ \A d \in TargetsOn(step, page) : d = c
<1>1. CASE step.target = "none"
  BY <1>1 DEF TargetsOn, NoTarget
<1>2. CASE step.target # "none"
  <2> DEFINE all == {x \in page.controls : x.name = step.target}
  <2>1. IsFiniteSet(all)
    BY FS_Subset
  <2>2. \A x \in TargetsOn(step, page) : x \in all
    BY <1>2 DEF TargetsOn, Find
  <2>3. Cardinality(all) = 1
    BY <1>2 DEF TargetsOn, Find
  <2>4. \E x : all = {x}
    BY <2>1, <2>3, FS_Singleton
  <2> QED BY <2>2, <2>4
<1> QED BY <1>1, <1>2

\* A saved step that can be taken here and whose text the field takes.
LEMMA StepGivesText ==
  ASSUME NEW page \in RpPages, NEW step, IsReplayable(step), NEW c \in TargetsOn(step, page),
         NEW d \in TargetsOn(step, page), step.op = "fill" => TextFor(step, d)
  PROVE  step.op = "fill" => c.kind # "password" /\ (step.text.from = "literal" => c.kind = "plain")
<1>1. IsFiniteSet(page.controls) /\ \A x \in page.controls : x.kind \in {"plain", "sensitive", "password"}
  BY RpAssumption
<1>2. c = d /\ (step.target # "none" => c \in page.controls)
  BY <1>1, TargetsAreOne
<1> QED BY <1>1, <1>2 DEF IsReplayable, TextFor, RpTargeted

SavingPhases == {"saving", "written", "synced", "saved"}

\* A step offered alone is certain where it is offered, and the one handed out; the
\* log is of safe steps from the moment it is made ready.
RpInv ==
  /\ saved \in RpRecipes /\ rpage \in RpPages /\ nxt \in Nat \ {0}
  /\ rph = "decide" /\ alone => pend = nxt /\ Certain(rpage)
  /\ ReplayIsTheStep
  /\ \E S : rlog \in Seq(S)
  /\ rph \in SavingPhases => \A k \in 1..Len(rlog) : IsSafe(rlog[k])
  /\ rfile \in {"old", "new"} /\ (rfile = "new" => rph = "saved")

LEMMA RpBegins == RpInit => RpInv
<1>1. <<>> \in Seq({})
  OBVIOUS
<1> QED BY <1>1 DEF RpInit, RpInv, NoDeed, ReplayIsTheStep, SavingPhases

\* The step a choice of Jev's is taken for.
LEMMA MatchingStepMatches ==
  ASSUME RpInv, NEW op, NEW target, MatchingStep(op, target) # 0
  PROVE  /\ MatchingStep(op, target) \in nxt..Len(saved)
         /\ LET step == saved[MatchingStep(op, target)] IN
            IsReplayable(step) /\ step.page = rpage.url /\ step.op = op /\ target \in TargetsOn(step, rpage)
<1>1. Matching(op, target) \in SUBSET Nat /\ Matching(op, target) # {}
  BY RpAssumption DEF RpInv, Matching, MatchingStep
<1>2. MatchingStep(op, target) \in Matching(op, target)
  BY <1>1, FirstOfAll, Zenon DEF MatchingStep
<1> QED BY <1>2 DEF Matching

\* The log grows by the step an action becomes.
LEMMA LogGrows ==
  ASSUME RpInv, NEW src, NEW typed, NEW secrets
  PROVE  \E S : rlog \o StepOf(src, typed, secrets) \in Seq(S)
<1>1. PICK S : rlog \in Seq(S)
  BY DEF RpInv
<1>2. PICK x : StepOf(src, typed, secrets) = <<>> \/ StepOf(src, typed, secrets) = <<x>>
  BY Zenon DEF StepOf
<1> DEFINE T == S \cup {x}
<1>3. rlog \in Seq(T) /\ <<>> \in Seq(T) /\ <<x>> \in Seq(T)
  <2>1. x \in T /\ \A y \in S : y \in T
    OBVIOUS
  <2> HIDE DEF T
  <2> QED BY <1>1, <2>1
<1>4. StepOf(src, typed, secrets) \in Seq(T)
  BY <1>2, <1>3
<1> QED BY <1>3, <1>4

LEMMA RpStep ==
  ASSUME RpInv, RpNext
  PROVE  RpInv'
<1> USE DEF Follows, SavingPhases
<1>1. CASE Sees
  BY <1>1 DEF Sees, RpInv, ReplayIsTheStep, Certain, TargetsOn
<1>2. CASE TakesThePick
  BY <1>2 DEF TakesThePick, RpInv, ReplayIsTheStep
<1>3. CASE JevAgrees
  <2>1. PICK d \in OnOffer : Agrees(d) /\ deed' = [op |-> d.op, target |-> d.target, replayed |-> TRUE]
    BY <1>3 DEF JevAgrees
  <2> DEFINE step == saved[nxt]
  <2>2. /\ pend = nxt /\ nxt <= Len(saved) /\ Len(saved) \in Nat /\ nxt \in Nat
        /\ IsReplayable(step) /\ step.page = rpage.url
        /\ d.op = step.op /\ d.target \in TargetsOn(step, rpage)
    BY <1>3, <2>1, RpAssumption DEF JevAgrees, RpInv, Certain, Agrees
  <2>3. PICK c \in TargetsOn(step, rpage) : step.op = "fill" => TextFor(step, c)
    BY <1>3 DEF JevAgrees, RpInv, Certain
  <2>4. step.op = "fill" => d.target.kind # "password" /\ (step.text.from = "literal" => d.target.kind = "plain")
    BY <2>2, <2>3, StepGivesText DEF RpInv
  <2>5. d.target.name = step.target
    BY <2>2, TargetsAreOne, RpAssumption DEF RpInv
  <2>6. /\ deed'.op = d.op /\ deed'.target = d.target
        /\ UNCHANGED <<saved, nxt, pend, rpage, alone, rlog, known, rfile>> /\ rph' = "act" /\ rph = "decide"
    BY <1>3, <2>1 DEF JevAgrees
  <2>7. ReplayIsTheStep'
    BY <2>2, <2>4, <2>5, <2>6 DEF ReplayIsTheStep
  <2> QED BY <2>6, <2>7 DEF RpInv
<1>4. CASE JevDeclines
  <2>1. rph' \in {"see", "ended", "act"} /\ (rph' = "act" => ~deed'.replayed) /\ rph = "decide"
    BY <1>4 DEF JevDeclines
  <2> QED BY <1>4, <2>1 DEF JevDeclines, RpInv, ReplayIsTheStep
<1>5. CASE Confirms
  <2>1. PICK d \in OnOffer :
          /\ \/ /\ pend' = 0 /\ deed' = [op |-> d.op, target |-> d.target, replayed |-> FALSE]
             \/ /\ MatchingStep(d.op, d.target) # 0
                /\ d.op = "fill" => TextFor(saved[MatchingStep(d.op, d.target)], d.target)
                /\ pend' = MatchingStep(d.op, d.target)
                /\ deed' = [op |-> d.op, target |-> d.target, replayed |-> TRUE]
          /\ rph' \in {"ended", "act"}
    BY <1>5, Zenon DEF Confirms
  <2>2. UNCHANGED <<saved, nxt, rpage, alone, rlog, known, rfile>> /\ rph = "decide"
    BY <1>5 DEF Confirms
  <2>3. CASE ~deed'.replayed
    BY <2>1, <2>2, <2>3 DEF RpInv, ReplayIsTheStep
  <2>4. CASE deed'.replayed
    <3> DEFINE k == MatchingStep(d.op, d.target)
               step == saved[k]
    <3>1. /\ k # 0 /\ (d.op = "fill" => TextFor(step, d.target)) /\ pend' = k
          /\ deed'.op = d.op /\ deed'.target = d.target
      BY <2>1, <2>4
    <3>2. /\ k \in nxt..Len(saved) /\ IsReplayable(step) /\ step.page = rpage.url /\ step.op = d.op
          /\ d.target \in TargetsOn(step, rpage)
      BY <3>1, MatchingStepMatches
    <3>3. step.op = "fill" => d.target.kind # "password" /\ (step.text.from = "literal" => d.target.kind = "plain")
      BY <3>1, <3>2, StepGivesText DEF RpInv
    <3>4. d.target.name = step.target
      BY <3>2, TargetsAreOne, RpAssumption DEF RpInv
    <3> HIDE DEF k
    <3>5. ReplayIsTheStep'
      BY <2>2, <3>1, <3>2, <3>3, <3>4 DEF ReplayIsTheStep
    <3> QED BY <2>1, <2>2, <3>5 DEF RpInv
  <2> QED BY <2>3, <2>4
<1>6. CASE RedrawnDeciding \/ NotBuilt \/ Fails
  BY <1>6 DEF RedrawnDeciding, NotBuilt, Fails, RpInv, ReplayIsTheStep, NoDeed
<1>7. CASE Executes
  <2>1. nxt' \in Nat \ {0}
    <3>1. CASE deed.replayed
      BY <1>7, <3>1, RpAssumption DEF Executes, Settle, RpInv, ReplayIsTheStep
    <3>2. CASE ~deed.replayed
      <4> DEFINE took == FollowedSteps(deed.op, deed.target)
                 k == CHOOSE k \in took : \A j \in took : k <= j
      <4>1. took \in SUBSET Nat
        BY RpAssumption DEF FollowedSteps, RpInv
      <4>2. nxt' = IF took = {} THEN nxt ELSE k + 1
        BY <1>7, <3>2 DEF Executes
      <4> HIDE DEF took
      <4>3. took # {} => k \in Nat
        BY <4>1, FirstOfAll, Zenon
      <4> HIDE DEF k
      <4> QED BY <4>2, <4>3 DEF RpInv
    <3> QED BY <3>1, <3>2
  <2>2. \E S : rlog' \in Seq(S)
    <3>1. PICK s \in Sources : rlog' = rlog \o StepOf(s.source, s.typed, known')
      BY <1>7, Zenon DEF Executes
    <3> QED BY <3>1, LogGrows
  <2>3. rph = "act" /\ rph' = "see" /\ UNCHANGED <<saved, rpage, alone, rfile>>
    BY <1>7 DEF Executes
  <2> QED BY <2>1, <2>2, <2>3 DEF RpInv, ReplayIsTheStep
<1>8. CASE Completes
  <2>1. PICK S : rlog \in Seq(S)
    BY DEF RpInv
  <2>2. rlog' \in Seq({s \in S : IsSafe(s)})
    BY <1>8, <2>1, SafeStepsAreSafe DEF Completes
  <2>3. \A k \in 1..Len(rlog') : IsSafe(rlog'[k])
    BY <2>2
  <2>4. rph = "ended" /\ rph' = "saving" /\ UNCHANGED <<saved, nxt, rpage, known, rfile>>
    BY <1>8 DEF Completes
  <2> QED BY <2>2, <2>3, <2>4 DEF RpInv, ReplayIsTheStep, IsSafe, Reveals
<1>9. CASE Saves
  BY <1>9 DEF Saves, RpInv, ReplayIsTheStep, IsSafe, Reveals
<1> QED BY <1>1, <1>2, <1>3, <1>4, <1>5, <1>6, <1>7, <1>8, <1>9 DEF RpNext

\* For any recipes, any site and any answers of Jev's: a decision counted as the
\* recipe's is the saved step handed out for it, with a text its field may take, and
\* the recipe written shows nothing that was a secret by the end of the run
\* (replay.rs, recipe.rs).
THEOREM RecipesAreKept == RpSpec => []RecipesKept
<1>1. RpInv /\ [RpNext]_rpVars => RpInv'
  <2> SUFFICES ASSUME RpInv, [RpNext]_rpVars PROVE RpInv'
    OBVIOUS
  <2>1. CASE RpNext
    BY <2>1, RpStep
  <2>2. CASE UNCHANGED rpVars
    BY <2>2 DEF rpVars, RpInv, ReplayIsTheStep, Certain, IsSafe, Reveals
  <2> QED BY <2>1, <2>2
<1>2. RpInv => RecipesKept
  BY DEF RpInv, RecipesKept, RecipeOnDisk, SavingPhases, IsSafe
<1> QED BY <1>1, <1>2, RpBegins, PTL DEF RpSpec
=============================================================================
