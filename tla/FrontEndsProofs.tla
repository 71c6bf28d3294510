--------------------------- MODULE FrontEndsProofs ---------------------------
(***************************************************************************)
(* Proofs about the two servers.  ServeSession, for every set of requests,  *)
(* every naming of them and every value of the bounds: what `serve` keeps   *)
(* at every step, and what a busy refusal means.  McpServer, for every      *)
(* setup the operator may give, every list of calls, every id they come     *)
(* under and every request on the wire.                                     *)
(***************************************************************************)
EXTENDS ServeSession, McpServer, SequencesExt, SequenceTheorems, FiniteSetTheorems, TLAPS

----------------------------------------------------------------------------
(* Facts about queues and lists.                                           *)

\* An element joins at the back, of a sequence that has each once and not this one.
LEMMA JoinQueue ==
  ASSUME NEW S, NEW q \in Seq(S), NEW c \in S, \A i, j \in DOMAIN q : q[i] = q[j] => i = j, c \notin Range(q)
  PROVE  /\ Append(q, c) \in Seq(S)
         /\ \A i \in DOMAIN Append(q, c) : Append(q, c)[i] = c \/ \E j \in DOMAIN q : q[j] = Append(q, c)[i]
         /\ \A i, j \in DOMAIN Append(q, c) : Append(q, c)[i] = Append(q, c)[j] => i = j
<1>1. \A j \in DOMAIN q : q[j] # c
  BY DEF Range
<1>2. /\ Append(q, c) \in Seq(S) /\ DOMAIN Append(q, c) = 1..(Len(q) + 1) /\ DOMAIN q = 1..Len(q) /\ Len(q) \in Nat
      /\ \A i \in 1..Len(q) : Append(q, c)[i] = q[i]
      /\ Append(q, c)[Len(q) + 1] = c
  OBVIOUS
<1> QED BY <1>1, <1>2

\* The first leaves.
LEMMA HeadLeaves ==
  ASSUME NEW S, NEW q \in Seq(S), q # <<>>, \A i, j \in DOMAIN q : q[i] = q[j] => i = j
  PROVE  /\ Tail(q) \in Seq(S)
         /\ \A i \in DOMAIN Tail(q) : Tail(q)[i] # Head(q) /\ \E j \in DOMAIN q : q[j] = Tail(q)[i]
         /\ \A i, j \in DOMAIN Tail(q) : Tail(q)[i] = Tail(q)[j] => i = j
<1>1. /\ Tail(q) \in Seq(S) /\ Len(q) \in Nat /\ Len(q) >= 1 /\ DOMAIN q = 1..Len(q) /\ DOMAIN Tail(q) = 1..(Len(q) - 1)
      /\ \A i \in 1..(Len(q) - 1) : Tail(q)[i] = q[i + 1]
      /\ Head(q) = q[1]
  OBVIOUS
<1>2. \A i \in DOMAIN Tail(q) : Tail(q)[i] = q[i + 1] /\ i + 1 \in DOMAIN q /\ 1 \in DOMAIN q /\ i + 1 # 1
  BY <1>1
<1>3. \A i, j \in DOMAIN Tail(q) : i + 1 = j + 1 => i = j
  BY <1>1
<1>4. \A i \in DOMAIN Tail(q) : Tail(q)[i] # Head(q) /\ \E j \in DOMAIN q : q[j] = Tail(q)[i]
  BY <1>1, <1>2
<1>5. \A i, j \in DOMAIN Tail(q) : Tail(q)[i] = Tail(q)[j] => i = j
  BY <1>2, <1>3
<1> QED BY <1>1, <1>4, <1>5

\* The one at p leaves, and nobody else.
LEMMA LeaveQueue ==
  ASSUME NEW S, NEW q \in Seq(S), \A i, j \in DOMAIN q : q[i] = q[j] => i = j, NEW p \in DOMAIN q
  PROVE  /\ RemoveAt(q, p) \in Seq(S)
         /\ \A j \in DOMAIN q : j # p => \E i \in DOMAIN RemoveAt(q, p) : RemoveAt(q, p)[i] = q[j]
         /\ \A i \in DOMAIN RemoveAt(q, p) : RemoveAt(q, p)[i] # q[p] /\ \E j \in DOMAIN q : q[j] = RemoveAt(q, p)[i]
         /\ \A i, j \in DOMAIN RemoveAt(q, p) : RemoveAt(q, p)[i] = RemoveAt(q, p)[j] => i = j
<1> DEFINE a == SubSeq(q, 1, p - 1)
           b == SubSeq(q, p + 1, Len(q))
           r == RemoveAt(q, p)
<1>1. Len(q) \in Nat /\ DOMAIN q = 1..Len(q) /\ p \in 1..Len(q) /\ p \in Nat
  OBVIOUS
<1>2. a \in Seq(S) /\ Len(a) = p - 1 /\ \A i \in 1..(p - 1) : a[i] = q[i]
  BY <1>1, SubSeqProperties
<1>3. b \in Seq(S) /\ Len(b) = Len(q) - p /\ \A i \in 1..(Len(q) - p) : b[i] = q[p + i]
  <2>1. p + 1 \in Int /\ Len(q) \in Int /\ \A i \in (p + 1)..Len(q) : q[i] \in S
    BY <1>1
  <2>2. /\ b \in Seq(S) /\ Len(b) = IF p + 1 <= Len(q) THEN Len(q) - (p + 1) + 1 ELSE 0
        /\ \A i \in 1..(Len(q) - (p + 1) + 1) : b[i] = q[(p + 1) + i - 1]
    BY <2>1, SubSeqProperties
  <2> HIDE DEF b
  <2>3. \A i \in 1..(Len(q) - p) : (p + 1) + i - 1 = p + i /\ i \in 1..(Len(q) - (p + 1) + 1)
    BY <1>1
  <2>4. \A i \in 1..(Len(q) - p) : b[i] = q[p + i]
    BY <2>2, <2>3
  <2>5. Len(b) = Len(q) - p
    <3>1. (IF p + 1 <= Len(q) THEN Len(q) - (p + 1) + 1 ELSE 0) = Len(q) - p
      BY <1>1
    <3> QED BY <2>2, <3>1
  <2> QED BY <2>2, <2>4, <2>5
<1>4. r = a \o b
  BY DEF RemoveAt
<1> HIDE DEF a, b, r
<1>9. /\ r \in Seq(S) /\ Len(r) = Len(a) + Len(b)
      /\ \A i \in 1..(Len(a) + Len(b)) : r[i] = IF i <= Len(a) THEN a[i] ELSE b[i - Len(a)]
  <2>1. a \in Seq(S) /\ b \in Seq(S)
    BY <1>2, <1>3
  <2> QED BY <2>1, <1>4, ConcatProperties, ZenonT(20)
<1>5. r \in Seq(S) /\ Len(r) = Len(q) - 1 /\ DOMAIN r = 1..(Len(q) - 1)
  BY <1>1, <1>2, <1>3, <1>9
<1>6. \A i \in 1..(Len(q) - 1) : r[i] = IF i < p THEN q[i] ELSE q[i + 1]
  <2> SUFFICES ASSUME NEW i \in 1..(Len(q) - 1) PROVE r[i] = IF i < p THEN q[i] ELSE q[i + 1]
    OBVIOUS
  <2>1. CASE i < p
    <3>1. i \in 1..(Len(a) + Len(b)) /\ i <= Len(a) /\ i \in 1..(p - 1)
      BY <1>1, <1>2, <1>3, <2>1
    <3>2. r[i] = a[i]
      BY <1>9, <3>1
    <3> QED BY <1>2, <2>1, <3>1, <3>2
  <2>2. CASE ~(i < p)
    <3>1. i - (p - 1) \in 1..(Len(q) - p) /\ p + (i - (p - 1)) = i + 1
      BY <1>1, <2>2
    <3>2. r[i] = b[i - (p - 1)]
      <4>1. i \in 1..(Len(a) + Len(b)) /\ ~(i <= Len(a)) /\ Len(a) = p - 1
        BY <1>1, <1>2, <1>3, <2>2
      <4> QED BY <1>9, <4>1
    <3> QED BY <1>3, <2>2, <3>1, <3>2
  <2> QED BY <2>1, <2>2
<1>7. \A i \in DOMAIN r : \E j \in DOMAIN q : j # p /\ r[i] = q[j] /\ j = IF i < p THEN i ELSE i + 1
  BY <1>1, <1>5, <1>6
<1>8. \A i, j \in DOMAIN r : r[i] = r[j] => i = j
  BY <1>1, <1>5, <1>7
<1>10. \A j \in DOMAIN q : j # p => \E i \in DOMAIN r : r[i] = q[j]
  <2> SUFFICES ASSUME NEW j \in DOMAIN q, j # p PROVE \E i \in DOMAIN r : r[i] = q[j]
    OBVIOUS
  <2>1. CASE j < p
    <3>1. j \in 1..(Len(q) - 1)
      BY <1>1, <2>1
    <3>2. r[j] = q[j]
      BY <1>6, <2>1, <3>1
    <3> QED BY <1>5, <3>1, <3>2
  <2>2. CASE ~(j < p)
    <3>1. j - 1 \in 1..(Len(q) - 1) /\ ~(j - 1 < p) /\ (j - 1) + 1 = j
      BY <1>1, <2>2
    <3>2. r[j - 1] = q[(j - 1) + 1]
      BY <1>6, <3>1
    <3> QED BY <1>5, <3>1, <3>2
  <2> QED BY <2>1, <2>2
<1> QED BY <1>5, <1>7, <1>8, <1>10 DEF r

----------------------------------------------------------------------------
(* `serve`: the inductive invariant.                                        *)

\* A run line waits for a request that is sent and not started, and no request
\* has two.
LinesWait ==
  /\ \A i \in 1..Len(input) : input[i].type = "run" => phase[input[i].req] = "sent"
  /\ \A i, j \in 1..Len(input) :
       input[i].type = "run" /\ input[j].type = "run" /\ input[i].req = input[j].req => i = j

\* A request that has not been started was never stopped, and failed nothing.
FreshUntouched ==
  \A r \in Requests : phase[r] \in {"unsent", "sent"} => stops[r] = 0 /\ ~failure[r]

\* A stop is counted once, and not while the run's Cancel is still to be taken.
StopsCounted ==
  /\ \A r \in Requests : stops[r] <= 1
  /\ running # NoRun => stops[running] = 0

\* A Cancel is tripped by a stop or by a callback the client failed.
TrippedBy ==
  \A r \in Requests :
    /\ tripped[r] => failure[r] \/ stops[r] > 0
    /\ failure[r] => tripped[r]

\* A run that has stopped working was cancelled, or ended with no failure behind it.
EndedAs ==
  \A r \in Requests : phase[r] \in {"closing", "returned"} =>
    \/ outcome[r] = "cancelled" /\ tripped[r]
    \/ outcome[r] \in {"result", "error"} /\ ~failure[r]

\* The client has every question that is out, under an id of its own, and answers
\* under the id of a question it has.
Asked(qs, id, r) == \E x \in qs : x.q.id = id /\ x.q.req = r
QuestionsKnown ==
  /\ \A x \in questions : x.q.id <= lastId
  /\ \A x, y \in questions : x.q.id = y.q.id => x.q.req = y.q.req
  /\ \A q \in pending : Asked(questions, q.id, q.req)
  /\ \A i \in 1..Len(input) : input[i].type = "answer" => Asked(questions, input[i].id, input[i].of)

\* A request has a reply exactly when its run is over.
RepliesMatch ==
  /\ \A i \in 1..Len(replies) : phase[replies[i].req] = "answered"
  /\ \A r \in Requests : phase[r] = "answered" => Answered(r)

\* The process has exited only over answered runs.
ExitAnswered == loop = "exited" => \A r \in answering : phase[r] = "answered"

IInv ==
  /\ TypeOK /\ ActiveIsTheRun /\ LinesWait /\ FreshUntouched /\ StopsCounted /\ TrippedBy
  /\ EndedAs /\ QuestionsKnown /\ AnswersReachTheirQuestion /\ RepliesMatch /\ RepliesTellWhy
  /\ ExitAnswered

----------------------------------------------------------------------------
(* The two wires, step by step.                                            *)

\* A line read is the first there is; the others move up.
LEMMA ReadsFirst ==
  ASSUME TypeOK, NEW type, Reads(type)
  PROVE  /\ 1 \in 1..Len(input) /\ Head(input) = input[1] /\ Head(input) \in Line
         /\ Head(input).type = type
         /\ input' \in Seq(Line)
         /\ \A i \in 1..Len(input') : i + 1 \in 1..Len(input) /\ input'[i] = input[i + 1]
BY DEF TypeOK, Reads

\* A line sent comes after the others.
LEMMA SendsLast ==
  ASSUME TypeOK, NEW line \in Line, Send(line)
  PROVE  /\ input' \in Seq(Line) /\ Len(input') = Len(input) + 1
         /\ \A i \in 1..Len(input') :
              IF i = Len(input') THEN input'[i] = line ELSE i \in 1..Len(input) /\ input'[i] = input[i]
BY DEF TypeOK, Send

\* A reply comes after the others.
LEMMA ReplyAppended ==
  ASSUME TypeOK, NEW r \in Requests, NEW what \in Replies, Reply(r, what)
  PROVE  /\ replies' \in Seq([req : Requests, what : Replies]) /\ Len(replies') = Len(replies) + 1
         /\ replies'[Len(replies')] = [req |-> r, what |-> what]
         /\ \A i \in 1..Len(replies) : i \in 1..Len(replies') /\ replies'[i] = replies[i]
         /\ \A i \in 1..Len(replies') : i \in 1..Len(replies) \/ i = Len(replies')
BY DEF TypeOK, Reply

\* The lines there are, and what they hold.
LEMMA Lines ==
  /\ \A r \in Requests : [type |-> "run", req |-> r] \in Line
  /\ \A id \in RunIds : [type |-> "cancel", run |-> id] \in Line
  /\ \A id \in Nat, ok \in BOOLEAN, r \in Requests : [type |-> "answer", id |-> id, ok |-> ok, of |-> r] \in Line
  /\ \A type \in {"shutdown", "eof"} : [type |-> type] \in Line
BY DEF Line
LEMMA LineParts ==
  ASSUME NEW m \in Line
  PROVE  /\ m.type = "run" => m.req \in Requests
         /\ m.type = "answer" => m.id \in Nat /\ m.ok \in BOOLEAN /\ m.of \in Requests
BY DEF Line

----------------------------------------------------------------------------
(* Every step keeps the invariant, part by part.                           *)

\* The types; a run that returned has an outcome, so its reply is one.
LEMMA TypeStep == TypeOK /\ EndedAs /\ [Next]_vars => TypeOK'
<1> SUFFICES ASSUME TypeOK, EndedAs, [Next]_vars PROVE TypeOK'
  OBVIOUS
<1> USE ServeAssumption
<1>p. /\ {"sent", "working", "closing", "returned", "answered"} \subseteq Phases
      /\ {"result", "error", "cancelled", "failed", "busy", "refused"} \subseteq Replies
      /\ {"result", "error", "cancelled"} \subseteq Outcomes
      /\ NoAnswer \in [id : Nat, ok : BOOLEAN, of : Requests \cup {NoRun}]
  BY DEF Phases, Replies, Outcomes, NoAnswer
<1>1. ASSUME NEW r \in Requests, ClientRuns(r) PROVE TypeOK'
  BY <1>1, <1>p, Lines, SendsLast DEF ClientRuns, TypeOK, server
<1>2. ASSUME NEW id \in RunIds, ClientCancels(id) PROVE TypeOK'
  <2>1. input' \in Seq(Line)
    BY <1>2, Lines, SendsLast DEF ClientCancels
  <2>2. sent' \in [cancels : Nat, ended : BOOLEAN]
    <3>1. sent \in [cancels : Nat, ended : BOOLEAN] /\ sent' = [sent EXCEPT !.cancels = @ + 1]
      BY <1>2 DEF ClientCancels, TypeOK
    <3> QED BY <3>1
  <2> QED BY <1>2, <2>1, <2>2 DEF ClientCancels, TypeOK, server, runs
<1>3. CASE ClientAnswers
  <2>1. PICK x \in questions, ok \in BOOLEAN :
          /\ Send([type |-> "answer", id |-> x.q.id, ok |-> ok, of |-> x.q.req])
          /\ questions' = (questions \ {x}) \cup {[x EXCEPT !.open = FALSE]}
    BY <1>3 DEF ClientAnswers
  <2>2. x \in [q : Question, open : BOOLEAN] /\ x.q.id \in Nat /\ x.q.req \in Requests
    BY DEF TypeOK, Question
  <2>3. input' \in Seq(Line)
    BY <2>1, <2>2, Lines, SendsLast
  <2>4. questions' \subseteq [q : Question, open : BOOLEAN]
    BY <2>1, <2>2 DEF TypeOK
  <2> QED BY <1>3, <2>3, <2>4 DEF ClientAnswers, TypeOK, server, runs
<1>4. CASE ClientEnds
  BY <1>4, Lines, SendsLast DEF ClientEnds, TypeOK, server, runs
<1>5. CASE StartRun
  <2> DEFINE r == Head(input).req
  <2>1. input' \in Seq(Line) /\ r \in Requests
    <3>1. input' \in Seq(Line) /\ Head(input) \in Line /\ Head(input).type = "run"
      BY <1>5, ReadsFirst DEF StartRun
    <3> QED BY <3>1, LineParts
  <2>2. /\ phase' \in [Requests -> Phases] /\ answering' \subseteq Requests
        /\ active' \in RunIds \cup {NoRun} /\ running' \in Requests \cup {NoRun}
    <3>1. \A at \in Phases : [phase EXCEPT ![r] = at] \in [Requests -> Phases]
      BY DEF TypeOK
    <3>2. RunIdOf[r] \in RunIds /\ answering \cup {r} \subseteq Requests
      BY <2>1 DEF TypeOK
    <3>3. \/ phase' = [phase EXCEPT ![r] = "answered"] /\ answering' = answering
          \/ phase' = [phase EXCEPT ![r] = "working"] /\ answering' = answering \cup {r}
      BY <1>5 DEF StartRun
    <3>4. \/ active' = active /\ running' = running
          \/ active' = NoRun /\ running' = NoRun
          \/ active' = RunIdOf[r] /\ running' = r
      BY <1>5 DEF StartRun, FinishRun
    <3>5. phase' \in [Requests -> Phases] /\ answering' \subseteq Requests
      <4> HIDE DEF r
      <4>1. answering \subseteq Requests /\ "answered" \in Phases /\ "working" \in Phases
        BY <1>p DEF TypeOK
      <4> QED BY <4>1, <3>1, <3>2, <3>3
    <3>6. active' \in RunIds \cup {NoRun} /\ running' \in Requests \cup {NoRun}
      BY <2>1, <3>2, <3>4 DEF TypeOK
    <3> QED BY <3>5, <3>6
  <2>3. replies' \in Seq([req : Requests, what : Replies])
    BY <1>5, <2>1, <1>p, ReplyAppended DEF StartRun, TypeOK
  <2> QED BY <1>5, <2>1, <2>2, <2>3 DEF StartRun, TypeOK
<1>6. CASE HandleCancel
  <2>1. input' \in Seq(Line)
    BY <1>6, ReadsFirst DEF HandleCancel
  <2>2. /\ running' \in Requests \cup {NoRun} /\ tripped' \in [Requests -> BOOLEAN]
        /\ stops' \in [Requests -> Nat]
    <3>1. CASE CancelRun
      BY <3>1 DEF CancelRun, TypeOK
    <3>2. CASE UNCHANGED <<running, tripped, stops>>
      BY <3>2 DEF TypeOK
    <3> QED BY <1>6, <3>1, <3>2 DEF HandleCancel
  <2> QED BY <1>6, <2>1, <2>2 DEF HandleCancel, TypeOK
<1>7. CASE HandleAnswer
  <2>1. input' \in Seq(Line) /\ Head(input).id \in Nat /\ Head(input).ok \in BOOLEAN /\ Head(input).of \in Requests
    BY <1>7, ReadsFirst, LineParts DEF HandleAnswer
  <2>2. pending' \subseteq Question
    BY <1>7 DEF HandleAnswer, TypeOK
  <2>3. given' \in [Requests -> [id : Nat, ok : BOOLEAN, of : Requests \cup {NoRun}]]
    BY <1>7, <2>1 DEF HandleAnswer, TypeOK
  <2> QED BY <1>7, <2>1, <2>2, <2>3 DEF HandleAnswer, TypeOK
<1>8. CASE HandleShutdown
  BY <1>8, ReadsFirst DEF HandleShutdown, TypeOK, runs
<1>9. CASE LoopEnds
  BY <1>9, ReadsFirst DEF LoopEnds, CancelRun, TypeOK
<1>10. CASE Exit
  BY <1>10 DEF Exit, TypeOK, runs, client
<1>11. ASSUME NEW r \in Requests, Ask(r) PROVE TypeOK'
  <2>1. [id |-> lastId + 1, req |-> r] \in Question
    BY DEF TypeOK, Question
  <2>2. pending' \subseteq Question
    BY <1>11, <2>1 DEF Ask, TypeOK
  <2>3. [q |-> [id |-> lastId + 1, req |-> r], open |-> TRUE] \in [q : Question, open : BOOLEAN]
    BY <2>1
  <2>4. questions' \subseteq [q : Question, open : BOOLEAN]
    BY <1>11, <2>3 DEF Ask, TypeOK
  <2> QED BY <1>11, <1>p, <2>2, <2>4, SMTT(30) DEF Ask, TypeOK
<1>12. ASSUME NEW r \in Requests, TakeAnswer(r) PROVE TypeOK'
  BY <1>12 DEF TakeAnswer, TypeOK, client
<1>13. ASSUME NEW r \in Requests, WorkEnds(r) PROVE TypeOK'
  BY <1>13, <1>p DEF WorkEnds, TypeOK, client, server
<1>14. ASSUME NEW r \in Requests, WorkStopped(r) PROVE TypeOK'
  BY <1>14, <1>p DEF WorkStopped, TypeOK, client, server
<1>15. ASSUME NEW r \in Requests, RunReturns(r) PROVE TypeOK'
  BY <1>15, <1>p DEF RunReturns, FinishRun, TypeOK, client
<1>16. ASSUME NEW r \in Requests, AnswerRun(r) PROVE TypeOK'
  <2>1. ReplyOf(r) \in Replies
    BY <1>16 DEF ReplyOf, AnswerRun, EndedAs, Replies
  <2> QED BY <1>16, <1>p, <2>1, ReplyAppended DEF AnswerRun, TypeOK, client, server
<1>17. CASE UNCHANGED vars
  BY <1>17 DEF TypeOK, vars, server, runs, client
<1> QED BY <1>1, <1>2, <1>3, <1>4, <1>5, <1>6, <1>7, <1>8, <1>9, <1>10, <1>11, <1>12, <1>13,
           <1>14, <1>15, <1>16, <1>17 DEF Next, LoopStep, RunStep

\* The request a run line is for waits to be started.
LEMMA StartsSent ==
  ASSUME TypeOK, LinesWait, StartRun
  PROVE  Head(input).req \in Requests /\ phase[Head(input).req] = "sent"
<1>1. Head(input) \in Line /\ Head(input).type = "run" /\ Head(input) = input[1] /\ 1 \in 1..Len(input)
  BY ReadsFirst DEF StartRun
<1>2. Head(input).req \in Requests
  BY <1>1, LineParts
<1>3. phase[input[1].req] = "sent"
  BY <1>1 DEF LinesWait
<1> QED BY <1>1, <1>2, <1>3

\* One run at a time, from the line that starts it to its browser's end.
LEMMA ActiveStep == TypeOK /\ LinesWait /\ ActiveIsTheRun /\ [Next]_vars => ActiveIsTheRun'
<1> SUFFICES ASSUME TypeOK, LinesWait, ActiveIsTheRun, [Next]_vars PROVE ActiveIsTheRun'
  OBVIOUS
<1> USE ServeAssumption
<1>1. CASE UNCHANGED <<phase, active, running>>
  BY <1>1 DEF ActiveIsTheRun, Under
<1>2. ASSUME NEW r \in Requests, ClientRuns(r) PROVE ActiveIsTheRun'
  BY <1>2 DEF ClientRuns, ActiveIsTheRun, Under, TypeOK, server
<1>3. CASE StartRun
  <2> DEFINE r == Head(input).req
  <2>1. r \in Requests /\ phase[r] = "sent"
    BY <1>3, StartsSent
  <2> HIDE DEF r
  <2>2. CASE phase' = [phase EXCEPT ![r] = "answered"] /\ active' = active /\ running' = running
    BY <2>1, <2>2 DEF ActiveIsTheRun, Under, TypeOK
  <2>3. CASE phase' = [phase EXCEPT ![r] = "answered"] /\ active = NoRun /\ active' = NoRun /\ running' = NoRun
    BY <2>1, <2>3 DEF ActiveIsTheRun, Under, TypeOK
  <2>4. CASE phase' = [phase EXCEPT ![r] = "working"] /\ active = NoRun /\ active' = RunIdOf[r] /\ running' = r
    <3>1. \A s \in Requests : ~Under(s)
      BY <2>4 DEF ActiveIsTheRun
    <3>2. \A s \in Requests : Under(s)' <=> s = r
      BY <2>1, <2>4, <3>1 DEF Under, TypeOK
    <3> QED BY <2>1, <2>4, <3>2 DEF ActiveIsTheRun, Under
  <2> QED BY <1>3, <2>2, <2>3, <2>4 DEF StartRun, FinishRun, r
<1>4. CASE UNCHANGED <<phase, active>> /\ running' = NoRun
  BY <1>4 DEF ActiveIsTheRun, Under
<1>5. ASSUME NEW r \in Requests, phase[r] \in {"working", "closing"}, phase' = [phase EXCEPT ![r] = "closing"],
             UNCHANGED <<active, running>>
      PROVE  ActiveIsTheRun'
  <2>1. \A s \in Requests : Under(s)' <=> Under(s)
    BY <1>5 DEF Under, TypeOK
  <2> QED BY <1>5, <2>1 DEF ActiveIsTheRun, Under, TypeOK
<1>6. ASSUME NEW r \in Requests, RunReturns(r) PROVE ActiveIsTheRun'
  <2>1. \A s \in Requests : ~Under(s)'
    BY <1>6 DEF RunReturns, ActiveIsTheRun, Under, TypeOK
  <2> QED BY <1>6, <2>1 DEF RunReturns, FinishRun, ActiveIsTheRun
<1>7. ASSUME NEW r \in Requests, AnswerRun(r) PROVE ActiveIsTheRun'
  <2>1. \A s \in Requests : Under(s)' <=> Under(s)
    BY <1>7 DEF AnswerRun, Under, TypeOK
  <2> QED BY <1>7, <2>1 DEF AnswerRun, ActiveIsTheRun, Under, TypeOK, server
<1>8. ASSUME NEW r \in Requests, RunStep(r) PROVE ActiveIsTheRun'
  BY <1>8, <1>1, <1>5, <1>6, <1>7 DEF RunStep, Ask, TakeAnswer, WorkEnds, WorkStopped, Free, Working, server
<1>9. CASE LoopStep
  BY <1>9, <1>1, <1>3, <1>4 DEF LoopStep, HandleCancel, HandleAnswer, HandleShutdown, LoopEnds, Exit, CancelRun, runs
<1> QED BY <1>1, <1>2, <1>8, <1>9 DEF Next, ClientCancels, ClientAnswers, ClientEnds, vars, server, runs

\* A run line waits until it is read, for a request that waits with it.
LEMMA LinesStep == TypeOK /\ LinesWait /\ [Next]_vars => LinesWait'
<1> SUFFICES ASSUME TypeOK, LinesWait, [Next]_vars PROVE LinesWait'
  OBVIOUS
<1>0. \A i \in 1..Len(input) : input[i] \in Line
  BY DEF TypeOK
<1>1. ASSUME UNCHANGED phase, \A i \in 1..Len(input') : i + 1 \in 1..Len(input) /\ input'[i] = input[i + 1]
      PROVE  LinesWait'
  <2>1. ASSUME NEW i \in 1..Len(input'), NEW j \in 1..Len(input'),
               input'[i].type = "run", input'[j].type = "run", input'[i].req = input'[j].req
        PROVE  i = j
    <3>1. i + 1 \in 1..Len(input) /\ j + 1 \in 1..Len(input) /\ input'[i] = input[i + 1] /\ input'[j] = input[j + 1]
      BY <1>1
    <3>2. i + 1 = j + 1
      BY <2>1, <3>1 DEF LinesWait
    <3> QED BY <3>2
  <2>2. ASSUME NEW i \in 1..Len(input'), input'[i].type = "run" PROVE phase'[input'[i].req] = "sent"
    BY <1>1, <2>2 DEF LinesWait
  <2> QED BY <2>1, <2>2 DEF LinesWait
<1>2. ASSUME NEW r \in Requests, ClientRuns(r) PROVE LinesWait'
  <2> DEFINE line == [type |-> "run", req |-> r]
  <2>1. /\ phase[r] = "unsent" /\ phase' = [phase EXCEPT ![r] = "sent"]
        /\ \A i \in 1..Len(input') :
              IF i = Len(input') THEN input'[i] = line ELSE i \in 1..Len(input) /\ input'[i] = input[i]
    BY <1>2, Lines, SendsLast DEF ClientRuns
  <2>2. ASSUME NEW i \in 1..Len(input), input[i].type = "run" PROVE input[i].req \in Requests /\ input[i].req # r
    BY <1>0, <2>1, <2>2, LineParts DEF LinesWait
  <2>3. phase'[r] = "sent" /\ \A s \in Requests : phase[s] = "sent" => phase'[s] = "sent"
    BY <2>1 DEF TypeOK
  <2>4. ASSUME NEW i \in 1..Len(input'), input'[i].type = "run" PROVE phase'[input'[i].req] = "sent"
    BY <2>1, <2>2, <2>3, <2>4 DEF LinesWait
  <2>5. ASSUME NEW i \in 1..Len(input'), NEW j \in 1..Len(input'),
               input'[i].type = "run", input'[j].type = "run", input'[i].req = input'[j].req
        PROVE  i = j
    BY <2>1, <2>2, <2>5 DEF LinesWait
  <2> QED BY <2>4, <2>5 DEF LinesWait
<1>3. ASSUME NEW line \in Line, line.type # "run", Send(line), UNCHANGED phase PROVE LinesWait'
  <2>1. \A i \in 1..Len(input') :
          IF i = Len(input') THEN input'[i] = line ELSE i \in 1..Len(input) /\ input'[i] = input[i]
    BY <1>3, SendsLast
  <2> QED BY <1>3, <2>1 DEF LinesWait
<1>4. CASE ClientAnswers
  <2>1. PICK x \in questions, ok \in BOOLEAN :
          Send([type |-> "answer", id |-> x.q.id, ok |-> ok, of |-> x.q.req])
    BY <1>4 DEF ClientAnswers
  <2>2. x.q.id \in Nat /\ x.q.req \in Requests
    BY DEF TypeOK, Question
  <2> QED BY <1>3, <1>4, <2>1, <2>2, Lines DEF ClientAnswers, runs
<1>5. CASE StartRun
  <2> DEFINE r == Head(input).req
  <2>1. /\ r \in Requests
        /\ input[1].type = "run" /\ input[1].req = r /\ 1 \in 1..Len(input)
        /\ \A i \in 1..Len(input') : i + 1 \in 1..Len(input) /\ input'[i] = input[i + 1]
    BY <1>5, StartsSent, ReadsFirst DEF StartRun
  <2>2. \A s \in Requests \ {r} : phase'[s] = phase[s]
    BY <1>5, <2>1 DEF StartRun, TypeOK
  <2> HIDE DEF r
  <2>3. ASSUME NEW i \in 1..Len(input), input[i].type = "run", i # 1 PROVE input[i].req \in Requests \ {r}
    BY <1>0, <2>1, <2>3, LineParts DEF LinesWait
  <2>4. ASSUME NEW i \in 1..Len(input'), input'[i].type = "run" PROVE phase'[input'[i].req] = "sent"
    <3>1. i + 1 \in 1..Len(input) /\ input'[i] = input[i + 1] /\ i + 1 # 1
      BY <2>1
    <3>2. input[i + 1].req \in Requests \ {r} /\ phase[input[i + 1].req] = "sent"
      BY <2>3, <2>4, <3>1 DEF LinesWait
    <3> QED BY <2>2, <3>1, <3>2
  <2>5. ASSUME NEW i \in 1..Len(input'), NEW j \in 1..Len(input'),
               input'[i].type = "run", input'[j].type = "run", input'[i].req = input'[j].req
        PROVE  i = j
    <3>1. i + 1 \in 1..Len(input) /\ j + 1 \in 1..Len(input) /\ input'[i] = input[i + 1] /\ input'[j] = input[j + 1]
      BY <2>1
    <3>2. i + 1 = j + 1
      BY <2>5, <3>1 DEF LinesWait
    <3> QED BY <3>2
  <2> QED BY <2>4, <2>5 DEF LinesWait
<1>6. CASE UNCHANGED <<phase, input>>
  BY <1>6 DEF LinesWait
<1>7. ASSUME NEW type, Reads(type), UNCHANGED phase PROVE LinesWait'
  BY <1>1, <1>7, ReadsFirst
<1>8. CASE LoopStep
  BY <1>8, <1>5, <1>6, <1>7 DEF LoopStep, HandleCancel, HandleAnswer, HandleShutdown, LoopEnds, Exit, runs, client
<1>9. ASSUME NEW r \in Requests, NEW at \in Phases, phase[r] # "sent", phase' = [phase EXCEPT ![r] = at],
             UNCHANGED input
      PROVE  LinesWait'
  <2>1. ASSUME NEW i \in 1..Len(input), input[i].type = "run" PROVE phase'[input[i].req] = "sent"
    <3>1. input[i].req \in Requests /\ phase[input[i].req] = "sent"
      BY <1>0, <2>1, LineParts DEF LinesWait
    <3> QED BY <1>9, <3>1 DEF TypeOK
  <2> QED BY <1>9, <2>1 DEF LinesWait
<1>10. ASSUME NEW r \in Requests, RunStep(r) PROVE LinesWait'
  BY <1>6, <1>9, <1>10
     DEF RunStep, Ask, TakeAnswer, WorkEnds, WorkStopped, RunReturns, AnswerRun, Free, Working, client, Phases
<1>11. CASE ClientEnds
  BY <1>3, <1>11, Lines DEF ClientEnds, runs
<1>12. ASSUME NEW id \in RunIds, ClientCancels(id) PROVE LinesWait'
  BY <1>3, <1>12, Lines DEF ClientCancels, runs
<1> QED BY <1>2, <1>4, <1>6, <1>8, <1>10, <1>11, <1>12 DEF Next, vars, runs, client

\* Only `cancel_run` counts a stop, and it leaves everything else of a run alone.
LEMMA StopsChange ==
  ASSUME [Next]_vars
  PROVE  \/ UNCHANGED stops
         \/ CancelRun /\ UNCHANGED <<phase, failure, outcome, replies>>
BY DEF Next, LoopStep, RunStep, ClientRuns, ClientCancels, ClientAnswers, ClientEnds, StartRun, HandleCancel,
       HandleAnswer, HandleShutdown, LoopEnds, Exit, Ask, TakeAnswer, WorkEnds, WorkStopped, RunReturns,
       AnswerRun, vars, runs

\* A request is first touched by the line that starts it.
LEMMA FreshStep == TypeOK /\ ActiveIsTheRun /\ FreshUntouched /\ [Next]_vars => FreshUntouched'
<1> SUFFICES ASSUME TypeOK, ActiveIsTheRun, FreshUntouched, [Next]_vars,
                    NEW r \in Requests, phase'[r] \in {"unsent", "sent"}
             PROVE  stops'[r] = 0 /\ ~failure'[r]
  BY DEF FreshUntouched
<1>1. phase[r] \in {"unsent", "sent"}
  BY DEF Next, LoopStep, RunStep, ClientRuns, ClientCancels, ClientAnswers, ClientEnds, StartRun, HandleCancel,
         HandleAnswer, HandleShutdown, LoopEnds, Exit, Ask, TakeAnswer, WorkEnds, WorkStopped, RunReturns,
         AnswerRun, vars, runs, TypeOK
<1>2. stops[r] = 0 /\ ~failure[r] /\ ~Under(r)
  BY <1>1 DEF FreshUntouched, Under
<1>3. running # r
  BY <1>2, ServeAssumption DEF ActiveIsTheRun
<1>4. failure'[r] = failure[r]
  BY <1>1 DEF Next, LoopStep, RunStep, ClientRuns, ClientCancels, ClientAnswers, ClientEnds, StartRun, HandleCancel,
         HandleAnswer, HandleShutdown, LoopEnds, Exit, Ask, TakeAnswer, WorkEnds, WorkStopped, RunReturns,
         AnswerRun, Working, vars, runs, TypeOK
<1>5. stops'[r] = stops[r]
  BY <1>3, StopsChange DEF CancelRun, TypeOK
<1> QED BY <1>2, <1>4, <1>5

\* `cancel_run` takes the Cancel it trips.
LEMMA StopsStep ==
  TypeOK /\ LinesWait /\ FreshUntouched /\ StopsCounted /\ [Next]_vars => StopsCounted'
<1> SUFFICES ASSUME TypeOK, LinesWait, FreshUntouched, StopsCounted, [Next]_vars PROVE StopsCounted'
  OBVIOUS
<1> USE ServeAssumption
<1>1. CASE CancelRun
  <2>1. \A r \in Requests : stops'[r] <= 1
    BY <1>1 DEF CancelRun, StopsCounted, TypeOK
  <2> QED BY <1>1, <2>1 DEF CancelRun, StopsCounted
<1>2. CASE UNCHANGED stops /\ (running' = running \/ running' = NoRun)
  BY <1>2 DEF StopsCounted
<1>3. CASE StartRun
  <2>1. stops[Head(input).req] = 0 /\ UNCHANGED stops
    BY <1>3, StartsSent DEF StartRun, FreshUntouched
  <2>2. running' = running \/ running' = NoRun \/ running' = Head(input).req
    BY <1>3 DEF StartRun, FinishRun
  <2> QED BY <2>1, <2>2 DEF StopsCounted
<1>4. CASE ~StartRun /\ UNCHANGED stops
  <2>1. running' = running \/ running' = NoRun
    BY <1>4 DEF Next, LoopStep, RunStep, ClientRuns, ClientCancels, ClientAnswers, ClientEnds, HandleCancel,
           HandleAnswer, HandleShutdown, LoopEnds, Exit, Ask, TakeAnswer, WorkEnds, WorkStopped, RunReturns,
           AnswerRun, CancelRun, FinishRun, vars, server
  <2> QED BY <1>2, <1>4, <2>1
<1> QED BY <1>1, <1>3, <1>4, StopsChange

\* A Cancel is tripped in two places only.
LEMMA TrippedStep == TypeOK /\ TrippedBy /\ [Next]_vars => TrippedBy'
<1> SUFFICES ASSUME TypeOK, TrippedBy, [Next]_vars PROVE TrippedBy'
  OBVIOUS
<1>1. CASE CancelRun /\ UNCHANGED failure
  BY <1>1 DEF CancelRun, TrippedBy, TypeOK
<1>2. CASE UNCHANGED <<tripped, failure, stops>>
  BY <1>2 DEF TrippedBy
<1>3. ASSUME NEW r \in Requests, TakeAnswer(r) PROVE TrippedBy'
  <2>1. UNCHANGED stops /\ (UNCHANGED <<failure, tripped>> \/ (failure' = [failure EXCEPT ![r] = TRUE] /\ tripped' = [tripped EXCEPT ![r] = TRUE]))
    BY <1>3 DEF TakeAnswer
  <2> QED BY <2>1 DEF TrippedBy, TypeOK
<1> QED BY <1>1, <1>2, <1>3
        DEF Next, LoopStep, RunStep, ClientRuns, ClientCancels, ClientAnswers, ClientEnds, StartRun, HandleCancel,
            HandleAnswer, HandleShutdown, LoopEnds, Exit, Ask, WorkEnds, WorkStopped, RunReturns, AnswerRun, vars, runs

\* What a run returned stands once it has stopped working.
LEMMA EndedStep == TypeOK /\ TrippedBy /\ EndedAs /\ [Next]_vars => EndedAs'
<1> SUFFICES ASSUME TypeOK, TrippedBy, EndedAs, [Next]_vars,
                    NEW r \in Requests, phase'[r] \in {"closing", "returned"}
             PROVE  \/ outcome'[r] = "cancelled" /\ tripped'[r]
                    \/ outcome'[r] \in {"result", "error"} /\ ~failure'[r]
  BY DEF EndedAs
<1>1. CASE WorkEnds(r)
  <2>1. outcome'[r] \in {"result", "error"} /\ ~tripped[r] /\ UNCHANGED failure
    BY <1>1 DEF WorkEnds, Free, TypeOK
  <2> QED BY <2>1 DEF TrippedBy
<1>2. CASE WorkStopped(r)
  BY <1>2 DEF WorkStopped, TypeOK
<1>3. CASE ~WorkEnds(r) /\ ~WorkStopped(r)
  <2>1. phase[r] \in {"closing", "returned"}
    BY <1>3, ZenonT(60) DEF Next, LoopStep, RunStep, ClientRuns, ClientCancels, ClientAnswers, ClientEnds, StartRun, HandleCancel,
           HandleAnswer, HandleShutdown, LoopEnds, Exit, Ask, TakeAnswer, WorkEnds, WorkStopped, RunReturns,
           AnswerRun, vars, runs, TypeOK
  <2>2. outcome'[r] = outcome[r] /\ failure'[r] = failure[r]
    BY <1>3, <2>1, ZenonT(60)
       DEF Next, LoopStep, RunStep, ClientRuns, ClientCancels, ClientAnswers, ClientEnds, StartRun, HandleCancel,
           HandleAnswer, HandleShutdown, LoopEnds, Exit, Ask, TakeAnswer, WorkEnds, WorkStopped, RunReturns,
           AnswerRun, Working, Free, vars, runs, TypeOK
  <2>3. tripped[r] => tripped'[r]
    <3>1. UNCHANGED tripped \/ CancelRun \/ \E x \in Requests : tripped' = [tripped EXCEPT ![x] = TRUE]
      BY DEF Next, LoopStep, RunStep, ClientRuns, ClientCancels, ClientAnswers, ClientEnds, StartRun, HandleCancel,
             HandleAnswer, HandleShutdown, LoopEnds, Exit, Ask, TakeAnswer, WorkEnds, WorkStopped, RunReturns,
             AnswerRun, vars, runs
    <3> QED BY <3>1 DEF CancelRun, TypeOK
  <2> QED BY <2>1, <2>2, <2>3 DEF EndedAs
<1> QED BY <1>1, <1>2, <1>3

\* A question keeps its id and its run, and no id is given out twice.
LEMMA QuestionsStep == TypeOK /\ QuestionsKnown /\ [Next]_vars => QuestionsKnown'
<1> SUFFICES ASSUME TypeOK, QuestionsKnown, [Next]_vars PROVE QuestionsKnown'
  OBVIOUS
<1>1. ASSUME NEW r \in Requests, Ask(r) PROVE QuestionsKnown'
  <2> DEFINE q == [id |-> lastId + 1, req |-> r]
  <2>0. lastId \in Nat /\ \A x \in questions : x.q.id \in Nat
    BY DEF TypeOK, Question
  <2>1. /\ lastId' = lastId + 1 /\ pending' = pending \cup {q} /\ input' = input
        /\ questions' = questions \cup {[q |-> q, open |-> TRUE]}
    BY <1>1 DEF Ask
  <2>2. \A x \in questions' : x.q.id <= lastId'
    BY <2>0, <2>1 DEF QuestionsKnown
  <2>3. \A x, y \in questions' : x.q.id = y.q.id => x.q.req = y.q.req
    BY <2>0, <2>1 DEF QuestionsKnown
  <2>4. \A id, s : Asked(questions, id, s) => Asked(questions', id, s)
    BY <2>1 DEF Asked
  <2>5. Asked(questions', q.id, q.req)
    <3> DEFINE x == [q |-> q, open |-> TRUE]
    <3>1. x \in questions' /\ x.q = q
      BY <2>1
    <3> HIDE DEF x, q
    <3> QED BY <3>1 DEF Asked
  <2>6. \A p \in pending' : Asked(questions', p.id, p.req)
    BY <2>1, <2>4, <2>5 DEF QuestionsKnown
  <2>7. \A i \in 1..Len(input') : input'[i].type = "answer" => Asked(questions', input'[i].id, input'[i].of)
    BY <2>1, <2>4 DEF QuestionsKnown
  <2> QED BY <2>2, <2>3, <2>6, <2>7 DEF QuestionsKnown
<1>2. CASE ClientAnswers
  <2>1. PICK x \in questions, ok \in BOOLEAN :
          /\ Send([type |-> "answer", id |-> x.q.id, ok |-> ok, of |-> x.q.req])
          /\ questions' = (questions \ {x}) \cup {[x EXCEPT !.open = FALSE]}
    BY <1>2 DEF ClientAnswers
  <2>2. x \in [q : Question, open : BOOLEAN] /\ x.q.id \in Nat /\ x.q.req \in Requests
    BY DEF TypeOK, Question
  <2> DEFINE line == [type |-> "answer", id |-> x.q.id, ok |-> ok, of |-> x.q.req]
             y == [x EXCEPT !.open = FALSE]
  <2>3. y.q = x.q /\ y \in questions'
    BY <2>1, <2>2
  <2>4. \A z \in questions' : \E w \in questions : z.q = w.q
    BY <2>1, <2>3
  <2>5. \A w \in questions : \E z \in questions' : z.q = w.q
    BY <2>1, <2>3
  <2>6. \A id, s : Asked(questions', id, s) <=> Asked(questions, id, s)
    BY <2>4, <2>5 DEF Asked
  <2>7. UNCHANGED <<lastId, pending>>
    BY <1>2 DEF ClientAnswers, server
  <2>8. line \in Line /\ line.id = x.q.id /\ line.of = x.q.req
    BY <2>2, Lines
  <2>9. \A i \in 1..Len(input') :
          IF i = Len(input') THEN input'[i] = line ELSE i \in 1..Len(input) /\ input'[i] = input[i]
    BY <2>1, <2>8, SendsLast
  <2>10. Asked(questions, x.q.id, x.q.req)
    BY DEF Asked
  <2> HIDE DEF line, y
  <2>11. \A i \in 1..Len(input') : input'[i].type = "answer" => Asked(questions', input'[i].id, input'[i].of)
    BY <2>6, <2>8, <2>9, <2>10 DEF QuestionsKnown
  <2>12. \A z \in questions' : z.q.id <= lastId'
    BY <2>4, <2>7 DEF QuestionsKnown
  <2>13. \A z, w \in questions' : z.q.id = w.q.id => z.q.req = w.q.req
    BY <2>4 DEF QuestionsKnown
  <2>14. \A p \in pending' : Asked(questions', p.id, p.req)
    BY <2>6, <2>7 DEF QuestionsKnown
  <2> QED BY <2>11, <2>12, <2>13, <2>14 DEF QuestionsKnown
<1>3. ASSUME NEW line \in Line, line.type # "answer", Send(line), UNCHANGED <<questions, pending, lastId>>
      PROVE  QuestionsKnown'
  <2>1. \A i \in 1..Len(input') :
          IF i = Len(input') THEN input'[i] = line ELSE i \in 1..Len(input) /\ input'[i] = input[i]
    BY <1>3, SendsLast
  <2> QED BY <1>3, <2>1 DEF QuestionsKnown, Asked
<1>4. ASSUME NEW type, Reads(type), UNCHANGED <<questions, lastId>>, pending' \subseteq pending PROVE QuestionsKnown'
  <2>1. \A i \in 1..Len(input') : i + 1 \in 1..Len(input) /\ input'[i] = input[i + 1]
    BY <1>4, ReadsFirst
  <2> QED BY <1>4, <2>1 DEF QuestionsKnown, Asked
<1>5. CASE UNCHANGED <<questions, lastId, input>> /\ pending' \subseteq pending
  BY <1>5 DEF QuestionsKnown, Asked
<1>6. CASE LoopStep
  BY <1>4, <1>5, <1>6
     DEF LoopStep, StartRun, HandleCancel, HandleAnswer, HandleShutdown, LoopEnds, Exit, client
<1>7. ASSUME NEW r \in Requests, RunStep(r) PROVE QuestionsKnown'
  BY <1>1, <1>5, <1>7 DEF RunStep, TakeAnswer, WorkEnds, WorkStopped, RunReturns, AnswerRun, client, server
<1>8. ASSUME NEW r \in Requests, ClientRuns(r) PROVE QuestionsKnown'
  BY <1>3, <1>8, Lines DEF ClientRuns, server
<1>9. CASE ClientEnds
  BY <1>3, <1>9, Lines DEF ClientEnds, server
<1>10. ASSUME NEW id \in RunIds, ClientCancels(id) PROVE QuestionsKnown'
  BY <1>3, <1>10, Lines DEF ClientCancels, server
<1>11. CASE UNCHANGED vars
  BY <1>5, <1>11 DEF vars, server, client
<1> QED BY <1>2, <1>6, <1>7, <1>8, <1>9, <1>10, <1>11 DEF Next

\* An answer is handed to the run whose question has its id, and that run asked it.
LEMMA GivenStep ==
  TypeOK /\ QuestionsKnown /\ AnswersReachTheirQuestion /\ [Next]_vars => AnswersReachTheirQuestion'
<1> SUFFICES ASSUME TypeOK, QuestionsKnown, AnswersReachTheirQuestion, [Next]_vars,
                    NEW r \in Requests, given'[r].id # 0
             PROVE  given'[r].of = r
  BY DEF AnswersReachTheirQuestion
<1>1. CASE given'[r] = given[r]
  BY <1>1 DEF AnswersReachTheirQuestion
<1>2. CASE HandleAnswer /\ given'[r] # given[r]
  <2> DEFINE m == Head(input)
  <2>1. m = input[1] /\ 1 \in 1..Len(input) /\ m.type = "answer" /\ m.of \in Requests
    BY <1>2, ReadsFirst, LineParts DEF HandleAnswer
  <2>2. given'[r] = [id |-> m.id, ok |-> m.ok, of |-> m.of] /\ \E q \in pending : q.id = m.id /\ q.req = r
    BY <1>2 DEF HandleAnswer, TypeOK
  <2>3. Asked(questions, m.id, r)
    BY <2>2 DEF QuestionsKnown
  <2>4. Asked(questions, m.id, m.of)
    BY <2>1 DEF QuestionsKnown
  <2>5. m.of = r
    BY <2>3, <2>4 DEF QuestionsKnown, Asked
  <2> QED BY <2>2, <2>5
<1>3. ASSUME NEW s \in Requests, Ask(s) PROVE given'[r] = given[r]
  BY <1>3 DEF Ask, NoAnswer, TypeOK
<1>4. CASE UNCHANGED given
  BY <1>1, <1>4
<1> QED BY <1>1, <1>2, <1>3, <1>4
        DEF Next, LoopStep, RunStep, ClientRuns, ClientCancels, ClientAnswers, ClientEnds, StartRun, HandleCancel,
            HandleShutdown, LoopEnds, Exit, TakeAnswer, WorkEnds, WorkStopped, RunReturns, AnswerRun, vars, runs

\* Every reply is to a request.
LEMMA RepliesTo ==
  ASSUME TypeOK
  PROVE  \A i \in 1..Len(replies) : replies[i] \in [req : Requests, what : Replies]
<1> DEFINE R == [req : Requests, what : Replies]
<1>1. replies \in Seq(R)
  BY DEF TypeOK
<1> HIDE DEF R
<1>2. \A i \in 1..Len(replies) : replies[i] \in R
  BY <1>1
<1> QED BY <1>2 DEF R

\* A request's reply goes out with the step that ends it.
LEMMA RepliesStep ==
  TypeOK /\ LinesWait /\ EndedAs /\ RepliesMatch /\ [Next]_vars => RepliesMatch'
<1> SUFFICES ASSUME TypeOK, LinesWait, EndedAs, RepliesMatch, [Next]_vars PROVE RepliesMatch'
  OBVIOUS
<1>0. \A i \in 1..Len(replies) : replies[i].req \in Requests
  BY RepliesTo
<1>1. ASSUME UNCHANGED replies, \A r \in Requests : phase'[r] = "answered" <=> phase[r] = "answered"
      PROVE  RepliesMatch'
  BY <1>0, <1>1 DEF RepliesMatch, Answered
<1>2. ASSUME NEW r \in Requests, NEW what \in Replies, Reply(r, what), phase' = [phase EXCEPT ![r] = "answered"]
      PROVE  RepliesMatch'
  <2>1. /\ Len(replies') \in 1..Len(replies') /\ replies'[Len(replies')].req = r
        /\ \A i \in 1..Len(replies) : i \in 1..Len(replies') /\ replies'[i] = replies[i]
        /\ \A i \in 1..Len(replies') : i \in 1..Len(replies) \/ i = Len(replies')
    <3>1. Len(replies) \in Nat
      BY DEF TypeOK
    <3>2. /\ Len(replies') = Len(replies) + 1 /\ replies'[Len(replies')] = [req |-> r, what |-> what]
          /\ \A i \in 1..Len(replies) : i \in 1..Len(replies') /\ replies'[i] = replies[i]
          /\ \A i \in 1..Len(replies') : i \in 1..Len(replies) \/ i = Len(replies')
      BY <1>2, ReplyAppended
    <3>3. Len(replies') \in 1..Len(replies') /\ replies'[Len(replies')].req = r
      BY <3>1, <3>2
    <3> QED BY <3>2, <3>3
  <2>2. phase'[r] = "answered" /\ \A s \in Requests \ {r} : phase'[s] = phase[s]
    BY <1>2 DEF TypeOK
  <2>3. \A i \in 1..Len(replies') : phase'[replies'[i].req] = "answered"
    BY <1>0, <2>1, <2>2 DEF RepliesMatch
  <2>4. ASSUME NEW s \in Requests, phase'[s] = "answered"
        PROVE  \E i \in 1..Len(replies') : replies'[i].req = s
    <3>1. CASE s = r
      BY <2>1, <3>1
    <3>2. CASE s # r
      <4>1. PICK i \in 1..Len(replies) : replies[i].req = s
        BY <2>2, <2>4, <3>2 DEF RepliesMatch, Answered
      <4> QED BY <2>1, <4>1
    <3> QED BY <3>1, <3>2
  <2> QED BY <2>3, <2>4 DEF RepliesMatch, Answered
<1>3. CASE StartRun
  <2> DEFINE r == Head(input).req
  <2>1. r \in Requests /\ phase[r] = "sent"
    BY <1>3, StartsSent
  <2>2. \/ (Reply(r, "busy") \/ Reply(r, "refused")) /\ phase' = [phase EXCEPT ![r] = "answered"]
        \/ UNCHANGED replies /\ phase' = [phase EXCEPT ![r] = "working"]
    BY <1>3 DEF StartRun
  <2> HIDE DEF r
  <2>3. "busy" \in Replies /\ "refused" \in Replies
    BY DEF Replies
  <2>4. CASE UNCHANGED replies /\ phase' = [phase EXCEPT ![r] = "working"]
    BY <1>1, <2>1, <2>4 DEF TypeOK
  <2> QED BY <1>2, <2>1, <2>2, <2>3, <2>4
<1>4. ASSUME NEW r \in Requests, AnswerRun(r) PROVE RepliesMatch'
  <2>1. ReplyOf(r) \in Replies
    BY <1>4 DEF ReplyOf, AnswerRun, EndedAs, Replies
  <2> QED BY <1>2, <1>4, <2>1 DEF AnswerRun
<1>5. ASSUME NEW r \in Requests, NEW at \in Phases \ {"answered"}, phase[r] # "answered",
             phase' = [phase EXCEPT ![r] = at], UNCHANGED replies
      PROVE  RepliesMatch'
  BY <1>1, <1>5 DEF TypeOK
<1>6. CASE UNCHANGED <<phase, replies>>
  BY <1>1, <1>6
<1>7. ASSUME NEW r \in Requests, RunStep(r) \/ ClientRuns(r) PROVE RepliesMatch'
  BY <1>4, <1>5, <1>6, <1>7
     DEF RunStep, Ask, TakeAnswer, WorkEnds, WorkStopped, RunReturns, ClientRuns, Free, Working, Phases
<1> QED BY <1>3, <1>6, <1>7
        DEF Next, LoopStep, ClientCancels, ClientAnswers, ClientEnds, HandleCancel, HandleAnswer, HandleShutdown,
            LoopEnds, Exit, vars, runs

\* A reply says what ended its run, and nothing that happens later makes it untrue.
LEMMA TellsStep ==
  IInv /\ [Next]_vars => RepliesTellWhy'
<1> SUFFICES ASSUME IInv, [Next]_vars PROVE RepliesTellWhy'
  OBVIOUS
<1> USE DEF IInv
<1>0. \A i \in 1..Len(replies) : replies[i].req \in Requests /\ phase[replies[i].req] = "answered"
  BY RepliesTo DEF RepliesMatch
\* Of an answered request, only the count of its stops may change, and it grows.
<1>1. ASSUME NEW r \in Requests, phase[r] = "answered" PROVE failure'[r] = failure[r] /\ stops'[r] >= stops[r]
  <2>1. failure'[r] = failure[r]
    BY <1>1, ZenonT(60) DEF Next, LoopStep, RunStep, ClientRuns, ClientCancels, ClientAnswers, ClientEnds, StartRun, HandleCancel,
         HandleAnswer, HandleShutdown, LoopEnds, Exit, Ask, TakeAnswer, WorkEnds, WorkStopped, RunReturns,
         AnswerRun, Working, vars, runs, TypeOK
  <2>2. stops'[r] >= stops[r]
    <3>1. stops[r] \in Nat
      BY DEF TypeOK
    <3>2. CASE CancelRun
      <4>1. stops'[r] = stops[r] \/ stops'[r] = stops[r] + 1
        BY <3>1, <3>2 DEF CancelRun
      <4> QED BY <3>1, <4>1
    <3>3. CASE UNCHANGED stops
      BY <3>1, <3>3
    <3> QED BY <3>2, <3>3, StopsChange
  <2> QED BY <2>1, <2>2
<1>2. ASSUME NEW i \in 1..Len(replies), i \in 1..Len(replies'), replies'[i] = replies[i]
      PROVE  LET r == replies'[i].req IN
             /\ replies'[i].what = "failed" => failure'[r]
             /\ replies'[i].what = "cancelled" => stops'[r] > 0 /\ ~failure'[r]
             /\ failure'[r] => replies'[i].what = "failed"
  <2> DEFINE r == replies[i].req
  <2>1. r \in Requests /\ failure'[r] = failure[r] /\ stops'[r] >= stops[r]
    BY <1>0, <1>1
  <2>2. stops[r] \in Nat /\ stops'[r] \in Nat
    BY <2>1, TypeStep DEF TypeOK
  <2> QED BY <1>2, <2>1, <2>2 DEF RepliesTellWhy
<1>3. ASSUME NEW r \in Requests, NEW what \in Replies, Reply(r, what), UNCHANGED <<failure, stops>>,
             what = "failed" => failure[r],
             what = "cancelled" => stops[r] > 0 /\ ~failure[r],
             failure[r] => what = "failed"
      PROVE  RepliesTellWhy'
  <2>1. /\ replies'[Len(replies')] = [req |-> r, what |-> what]
        /\ \A i \in 1..Len(replies) : i \in 1..Len(replies') /\ replies'[i] = replies[i]
        /\ \A i \in 1..Len(replies') : i \in 1..Len(replies) \/ i = Len(replies')
    BY <1>3, ReplyAppended
  <2> QED BY <1>2, <1>3, <2>1 DEF RepliesTellWhy
<1>4. CASE UNCHANGED replies
  BY <1>2, <1>4 DEF RepliesTellWhy
<1>5. CASE StartRun
  <2> DEFINE r == Head(input).req
  <2>1. r \in Requests /\ phase[r] = "sent"
    BY <1>5, StartsSent
  <2>2. (Reply(r, "busy") \/ Reply(r, "refused") \/ UNCHANGED replies) /\ UNCHANGED <<failure, stops>>
    BY <1>5 DEF StartRun
  <2> HIDE DEF r
  <2>3. "busy" \in Replies /\ "refused" \in Replies /\ ~failure[r]
    BY <2>1 DEF Replies, FreshUntouched
  <2> QED BY <1>3, <1>4, <2>1, <2>2, <2>3
<1>6. ASSUME NEW r \in Requests, AnswerRun(r) PROVE RepliesTellWhy'
  <2>1. /\ \/ outcome[r] = "cancelled" /\ tripped[r]
           \/ outcome[r] \in {"result", "error"} /\ ~failure[r]
        /\ Reply(r, ReplyOf(r)) /\ UNCHANGED <<failure, stops>>
    BY <1>6 DEF AnswerRun, EndedAs
  <2>2. tripped[r] => failure[r] \/ stops[r] > 0
    BY DEF TrippedBy
  <2>3. /\ ReplyOf(r) \in Replies
        /\ ReplyOf(r) = "failed" => failure[r]
        /\ ReplyOf(r) = "cancelled" => stops[r] > 0 /\ ~failure[r]
        /\ failure[r] => ReplyOf(r) = "failed"
    BY <2>1, <2>2 DEF ReplyOf, Replies
  <2> QED BY <1>3, <2>1, <2>3
<1> QED BY <1>4, <1>5, <1>6
        DEF Next, LoopStep, RunStep, ClientRuns, ClientCancels, ClientAnswers, ClientEnds, HandleCancel, HandleAnswer,
            HandleShutdown, LoopEnds, Exit, Ask, TakeAnswer, WorkEnds, WorkStopped, RunReturns, vars

\* After the exit no run is taken on, and none of those taken on moves.
LEMMA ExitStep == TypeOK /\ ExitAnswered /\ [Next]_vars => ExitAnswered'
<1> SUFFICES ASSUME TypeOK, ExitAnswered, [Next]_vars, loop' = "exited" PROVE \A r \in answering' : phase'[r] = "answered"
  BY DEF ExitAnswered
<1>1. CASE Exit
  BY <1>1 DEF Exit, runs
<1>2. CASE ~Exit
  <2>1. loop = "exited"
    BY <1>2 DEF Next, LoopStep, RunStep, ClientRuns, ClientCancels, ClientAnswers, ClientEnds, StartRun, HandleCancel,
           HandleAnswer, HandleShutdown, LoopEnds, Ask, TakeAnswer, WorkEnds, WorkStopped, RunReturns,
           AnswerRun, vars, server
  <2>2. answering' = answering /\ \A r \in Requests : phase[r] = "answered" => phase'[r] = "answered"
    BY <1>2, <2>1
       DEF Next, LoopStep, RunStep, ClientRuns, ClientCancels, ClientAnswers, ClientEnds, StartRun, HandleCancel,
           HandleAnswer, HandleShutdown, LoopEnds, Ask, TakeAnswer, WorkEnds, WorkStopped, RunReturns,
           AnswerRun, Reads, Free, Working, vars, server, runs, TypeOK
  <2> QED BY <2>1, <2>2 DEF ExitAnswered, TypeOK
<1> QED BY <1>1, <1>2

----------------------------------------------------------------------------
(* The theorems.                                                           *)

LEMMA Initially == Init => IInv
<1> SUFFICES ASSUME Init PROVE IInv
  OBVIOUS
<1> USE ServeAssumption
<1>1. TypeOK
  <2>1. NoAnswer \in [id : Nat, ok : BOOLEAN, of : Requests \cup {NoRun}] /\ "unsent" \in Phases /\ "none" \in Outcomes
    BY DEF NoAnswer, Phases, Outcomes
  <2>2. input \in Seq(Line) /\ replies \in Seq([req : Requests, what : Replies])
    BY DEF Init
  <2>3. sent \in [cancels : Nat, ended : BOOLEAN]
    BY DEF Init
  <2> QED BY <2>1, <2>2, <2>3 DEF Init, TypeOK
<1>2. ActiveIsTheRun /\ LinesWait /\ FreshUntouched /\ StopsCounted /\ TrippedBy /\ EndedAs /\ ExitAnswered
  BY DEF Init, ActiveIsTheRun, LinesWait, FreshUntouched, StopsCounted, TrippedBy, EndedAs, ExitAnswered, Under
<1>3. QuestionsKnown /\ AnswersReachTheirQuestion /\ RepliesMatch /\ RepliesTellWhy
  BY DEF Init, QuestionsKnown, AnswersReachTheirQuestion, RepliesMatch, RepliesTellWhy, NoAnswer
<1> QED BY <1>1, <1>2, <1>3 DEF IInv

LEMMA Inductive == IInv /\ [Next]_vars => IInv'
BY TypeStep, ActiveStep, LinesStep, FreshStep, StopsStep, TrippedStep, EndedStep, QuestionsStep, GivenStep,
   RepliesStep, TellsStep, ExitStep DEF IInv

LEMMA Enough == IInv => ServeKept
<1> SUFFICES ASSUME IInv PROVE ServeKept
  OBVIOUS
<1>1. AnsweredBeforeExit
  BY DEF IInv, AnsweredBeforeExit, ExitAnswered, RepliesMatch
<1> QED BY <1>1 DEF IInv, ServeKept, StoppedOnce, StopsCounted

\* `serve` (serve.rs), for any number of requests under any names: one run at a
\* time, stopped once, each answer handed to the run that asked, each reply true
\* to what ended its run, and no exit over a run that has no reply.
THEOREM ServeIsKept == Spec => []ServeKept
<1>1. Spec => []IInv
  BY Initially, Inductive, PTL DEF Spec
<1> QED BY <1>1, Enough, PTL

\* A run is refused as busy only while the run it lost out to has no reply
\* (serve.rs: `start_run` against `finish_run`, which comes before the reply).
THEOREM BusyIsEarned == Spec => BusyMeansUnanswered
<1> DEFINE Earned ==
      \A r \in Requests :
        Len(replies') > Len(replies) /\ replies'[Len(replies')] = [req |-> r, what |-> "busy"] =>
          \E s \in Requests : Under(s) /\ ~Answered(s)
<1>1. IInv /\ [Next]_vars => Earned
  <2> SUFFICES ASSUME IInv, [Next]_vars, NEW r \in Requests,
                      Len(replies') > Len(replies), replies'[Len(replies')] = [req |-> r, what |-> "busy"]
               PROVE  \E s \in Requests : Under(s) /\ ~Answered(s)
    OBVIOUS
  <2> USE DEF IInv
  <2>1. \A s \in Requests, what \in Replies : Reply(s, what) => what = "busy"
    <3> SUFFICES ASSUME NEW s \in Requests, NEW what \in Replies, Reply(s, what) PROVE what = "busy"
      OBVIOUS
    <3>1. [req |-> s, what |-> what] = [req |-> r, what |-> "busy"]
      BY ReplyAppended
    <3> QED BY <3>1
  <2>2. ASSUME NEW s \in Requests PROVE ~AnswerRun(s)
    <3> SUFFICES ASSUME AnswerRun(s) PROVE FALSE
      OBVIOUS
    <3>1. ReplyOf(s) \in Replies \ {"busy"}
      BY DEF ReplyOf, AnswerRun, EndedAs, Replies
    <3> QED BY <2>1, <3>1 DEF AnswerRun
  <2>3. replies' # replies
    BY DEF TypeOK
  <2>4. StartRun
    BY <2>2, <2>3
       DEF Next, LoopStep, RunStep, ClientRuns, ClientCancels, ClientAnswers, ClientEnds, HandleCancel, HandleAnswer,
           HandleShutdown, LoopEnds, Exit, Ask, TakeAnswer, WorkEnds, WorkStopped, RunReturns, vars
  <2>5. ~Reply(Head(input).req, "refused")
    BY <2>1, <2>4, StartsSent DEF Replies
  <2>6. active # NoRun
    BY <2>3, <2>4, <2>5 DEF StartRun
  <2>7. PICK s \in Requests : Under(s)
    BY <2>6 DEF ActiveIsTheRun
  <2>8. ~Answered(s)
    BY <2>7 DEF RepliesMatch, Answered, Under
  <2> QED BY <2>7, <2>8
<1>2. Spec => []IInv
  BY Initially, Inductive, PTL DEF Spec
<1> QED BY <1>1, <1>2, PTL DEF Spec, BusyMeansUnanswered

----------------------------------------------------------------------------
(* The MCP server.  A step of a call changes that call alone, moves it in   *)
(* or out of the queue or of a slot, and may take its id out of in_flight:  *)
(* the invariant is proved once for such a step (CallStep) and each action  *)
(* is shown to be one.                                                      *)

Ids == {Browses[i].id : i \in DOMAIN Browses}
Waiting == {"spawned", "winding"}
Unanswered == {"spawned", "returned"}
Live == {c \in DOMAIN call : call[c].live}

CallType(Offers) ==
  [at : {"spawned", "winding", "returned", "gone"}, id : Ids, cancel : BOOLEAN, stop : BOOLEAN, open : BOOLEAN, live : BOOLEAN,
   outcome : {"none", "result", "cancelled", "failed", "refused"}, grace : BOOLEAN,
   told : Seq({"waiting", "progress", "reply"}), offered : Offers]
CallOK(k) == k \in CallType({k.offered})
SesOK(m) ==
  /\ m \in [known : BOOLEAN, initialized : BOOLEAN, inFlight : {m.inFlight}]
  /\ m.inFlight \in [DOMAIN m.inFlight -> Nat]

McpTypeOK ==
  /\ conf \in Setups /\ Configure(conf)
  /\ posted \in Nat
  /\ call \in Seq(Range(call)) /\ \A c \in DOMAIN call : CallOK(call[c])
  /\ slots \in [free : Nat, waiting : Seq(Nat)]
  /\ SesOK(mses)

\* A call is open until its reply, which is the last thing told; only a call that
\* runs or waits holds a slot.
CallRight(k) ==
  /\ k.open <=> k.at \in Unanswered
  /\ \A i \in DOMAIN k.told : k.told[i] = "reply" <=> ~k.open /\ i = Len(k.told)
  /\ ~k.open => k.told # <<>>
  /\ k.live => k.at \in Waiting
CallsRight == \A c \in DOMAIN call : CallRight(call[c])

\* The queue holds calls that wait, each once.
QueueRight ==
  /\ \A i \in DOMAIN slots.waiting :
       LET c == slots.waiting[i] IN c \in DOMAIN call /\ ~call[c].live /\ call[c].at \in Waiting
  /\ \A i, j \in DOMAIN slots.waiting : slots.waiting[i] = slots.waiting[j] => i = j

\* in_flight holds every unanswered call under its id.
FlightRight ==
  \A c \in DOMAIN call : call[c].at \in Unanswered => call[c].id \in DOMAIN mses.inFlight /\ mses.inFlight[call[c].id] = c

SlotsCount == Cardinality(Live) + slots.free = conf.concurrent

McpInv == McpTypeOK /\ CallsRight /\ QueueRight /\ FlightRight /\ SlotsCount
----------------------------------------------------------------------------
(* The queue.                                                              *)

\* A call that is dropped is in the queue no more, and nobody else left it.
LEMMA LeavingRight ==
  ASSUME NEW c, slots.waiting \in Seq(Nat), \A i, j \in DOMAIN slots.waiting : slots.waiting[i] = slots.waiting[j] => i = j
  PROVE  /\ Leaving(c) \in Seq(Nat)
         /\ \A i \in DOMAIN Leaving(c) : Leaving(c)[i] # c /\ \E j \in DOMAIN slots.waiting : slots.waiting[j] = Leaving(c)[i]
         /\ \A i, j \in DOMAIN Leaving(c) : Leaving(c)[i] = Leaving(c)[j] => i = j
<1> DEFINE q == slots.waiting
<1>1. CASE c \in Range(q)
  <2> DEFINE p == CHOOSE i \in DOMAIN q : q[i] = c
  <2>1. p \in DOMAIN q /\ q[p] = c
    BY <1>1 DEF Range
  <2>2. Leaving(c) = RemoveAt(q, p)
    BY <1>1 DEF Leaving
  <2> HIDE DEF p, q
  <2> QED BY <2>1, <2>2, LeaveQueue DEF q
<1>2. CASE c \notin Range(q)
  BY <1>2 DEF Leaving, Range
<1> QED BY <1>1, <1>2

----------------------------------------------------------------------------
(* A step of one call.                                                     *)

\* What a step makes of the queue and the slots (the Semaphore's permits).
Parked(c, k) == slots' = slots /\ (k.live <=> call[c].live) /\ (call[c].at \in Waiting => k.at \in Waiting)
Refused(c, k) == slots' = slots /\ ~k.live /\ ~call[c].live /\ c \notin Range(slots.waiting)
Queued(c, k) ==
  /\ slots' = [slots EXCEPT !.waiting = Append(@, c)] /\ c \notin Range(slots.waiting)
  /\ ~k.live /\ ~call[c].live /\ k.at \in Waiting
Acquired(c, k) ==
  /\ slots.waiting # <<>> /\ Head(slots.waiting) = c /\ slots.free > 0
  /\ slots' = [free |-> slots.free - 1, waiting |-> Tail(slots.waiting)]
  /\ k.live
Released(c, k) == slots' = Release(c) /\ ~k.live

\* What it makes of in_flight.
StaysKnown(c, k) == mses' = mses /\ (k.at \in Unanswered => call[c].at \in Unanswered)
Forgotten(c, k) == mses' = Forget(c) /\ call[c].at \in Unanswered /\ k.at \notin Unanswered

\* A task touches its own call, its permit and its id only (browse in mcp/mod.rs).
CallStep(c, k) ==
  /\ c \in DOMAIN call /\ call' = [call EXCEPT ![c] = k]
  /\ CallOK(k) /\ CallRight(k) /\ k.id = call[c].id
  /\ conf' = conf /\ posted' = posted
  /\ Parked(c, k) \/ Refused(c, k) \/ Queued(c, k) \/ Acquired(c, k) \/ Released(c, k)
  /\ StaysKnown(c, k) \/ Forgotten(c, k)

\* The other calls are as they were.
LEMMA OthersAsBefore ==
  ASSUME McpTypeOK, NEW c, NEW k, CallStep(c, k)
  PROVE  /\ DOMAIN call' = DOMAIN call /\ call'[c] = k /\ c \in Nat
         /\ \A d \in DOMAIN call : d # c => call'[d] = call[d]
         /\ call' \in Seq(Range(call)') /\ \A d \in DOMAIN call' : CallOK(call'[d])
<1>1. call \in Seq(Range(call)) /\ c \in DOMAIN call /\ call' = [call EXCEPT ![c] = k]
  BY DEF McpTypeOK, CallStep
<1>2. DOMAIN call = 1..Len(call) /\ Len(call) \in Nat
  BY <1>1
<1>3. DOMAIN call' = DOMAIN call /\ call'[c] = k /\ \A d \in DOMAIN call : d # c => call'[d] = call[d]
  BY <1>1, <1>2
<1>4. call' = [d \in 1..Len(call) |-> call'[d]]
  BY <1>1, <1>2
<1>5. \A d \in 1..Len(call) : call'[d] \in Range(call)'
  BY <1>2, <1>3 DEF Range
<1>6. call' \in Seq(Range(call)')
  BY <1>2, <1>4, <1>5, IsASeq
<1>7. \A d \in DOMAIN call' : CallOK(call'[d])
  BY <1>3 DEF McpTypeOK, CallStep
<1> QED BY <1>1, <1>2, <1>3, <1>6, <1>7

LEMMA CallsStayRight ==
  ASSUME McpTypeOK, CallsRight, NEW c, NEW k, CallStep(c, k)
  PROVE  CallsRight'
<1>1. \A d \in DOMAIN call : d # c => call'[d] = call[d]
  BY OthersAsBefore
<1>2. DOMAIN call' = DOMAIN call /\ call'[c] = k
  BY OthersAsBefore
<1> QED BY <1>1, <1>2 DEF CallsRight, CallStep

\* Forget takes out the id of its own call only: two unanswered calls never share one.
LEMMA FlightStaysRight ==
  ASSUME McpTypeOK, FlightRight, NEW c, NEW k, CallStep(c, k)
  PROVE  FlightRight' /\ SesOK(mses')
<1>1. DOMAIN call' = DOMAIN call /\ call'[c] = k /\ \A d \in DOMAIN call : d # c => call'[d] = call[d]
  BY OthersAsBefore
<1>2. SesOK(mses) /\ c \in DOMAIN call /\ k.id = call[c].id
  BY DEF McpTypeOK, CallStep
<1>3. CASE StaysKnown(c, k)
  <2>1. mses' = mses /\ (k.at \in Unanswered => call[c].at \in Unanswered)
    BY <1>3 DEF StaysKnown
  <2> QED BY <1>1, <1>2, <2>1 DEF FlightRight
<1>4. CASE Forgotten(c, k)
  <2>1. mses' = Forget(c) /\ call[c].at \in Unanswered /\ k.at \notin Unanswered
    BY <1>4 DEF Forgotten
  <2> DEFINE f == mses.inFlight
             g == [i \in DOMAIN f \ {call[c].id} |-> f[i]]
  <2>2. mses' = [mses EXCEPT !.inFlight = g]
    BY <2>1 DEF Forget
  <2>3. g \in [DOMAIN g -> Nat]
    BY <1>2 DEF SesOK
  <2>4. f[call[c].id] = c
    BY <1>2, <2>1 DEF FlightRight
  <2>5. \A d \in DOMAIN call : d # c /\ call[d].at \in Unanswered => call[d].id \in DOMAIN g /\ g[call[d].id] = d
    BY <2>4 DEF FlightRight
  <2> HIDE DEF g
  <2>6. mses'.inFlight = g /\ SesOK(mses')
    BY <1>2, <2>2, <2>3 DEF SesOK
  <2>7. \A d \in DOMAIN call' : call'[d].at \in Unanswered => d # c /\ call'[d] = call[d] /\ d \in DOMAIN call
    BY <1>1, <2>1
  <2> QED BY <2>5, <2>6, <2>7 DEF FlightRight
<1> QED BY <1>3, <1>4 DEF CallStep

LEMMA QueueStaysRight ==
  ASSUME McpTypeOK, CallsRight, QueueRight, NEW c, NEW k, CallStep(c, k)
  PROVE  QueueRight' /\ slots' \in [free : Nat, waiting : Seq(Nat)]
<1>1. DOMAIN call' = DOMAIN call /\ call'[c] = k /\ c \in Nat /\ \A d \in DOMAIN call : d # c => call'[d] = call[d]
  BY OthersAsBefore
<1>2. slots \in [free : Nat, waiting : Seq(Nat)] /\ c \in DOMAIN call
  BY DEF McpTypeOK, CallStep
<1> DEFINE q == slots.waiting
           Good(d) == d \in DOMAIN call /\ ~call[d].live /\ call[d].at \in Waiting
           Good2(d) == d \in DOMAIN call' /\ ~call'[d].live /\ call'[d].at \in Waiting
<1>3. q \in Seq(Nat) /\ (\A i \in DOMAIN q : Good(q[i])) /\ (\A i, j \in DOMAIN q : q[i] = q[j] => i = j)
  BY <1>2 DEF QueueRight
<1>4. \A d : Good(d) /\ d # c => Good2(d)
  BY <1>1
<1>5. ASSUME NEW r, r \in Seq(Nat), \A i \in DOMAIN r : Good2(r[i]), \A i, j \in DOMAIN r : r[i] = r[j] => i = j,
             slots'.waiting = r
      PROVE  QueueRight'
  BY <1>5 DEF QueueRight
<1>6. CASE Parked(c, k)
  <2>1. slots' = slots /\ (k.live <=> call[c].live) /\ (call[c].at \in Waiting => k.at \in Waiting)
    BY <1>6 DEF Parked
  <2>2. Good(c) => Good2(c)
    BY <1>1, <1>2, <2>1
  <2>3. \A i \in DOMAIN q : Good2(q[i])
    BY <1>3, <1>4, <2>2
  <2> HIDE DEF Good2
  <2> QED BY <1>2, <1>3, <1>5, <2>1, <2>3
<1>7. CASE Refused(c, k)
  <2>1. slots' = slots /\ \A i \in DOMAIN q : q[i] # c
    BY <1>7 DEF Refused, Range
  <2>2. \A i \in DOMAIN q : Good2(q[i])
    BY <1>3, <1>4, <2>1
  <2> HIDE DEF Good2
  <2> QED BY <1>2, <1>3, <1>5, <2>1, <2>2
<1>8. CASE Queued(c, k)
  <2>1. slots' = [slots EXCEPT !.waiting = Append(q, c)] /\ c \notin Range(q) /\ Good2(c)
    BY <1>1, <1>2, <1>8 DEF Queued
  <2>2. /\ Append(q, c) \in Seq(Nat)
        /\ \A i \in DOMAIN Append(q, c) : Append(q, c)[i] = c \/ \E j \in DOMAIN q : q[j] = Append(q, c)[i]
        /\ \A i, j \in DOMAIN Append(q, c) : Append(q, c)[i] = Append(q, c)[j] => i = j
    BY <1>1, <1>3, <2>1, JoinQueue
  <2> DEFINE r == Append(q, c)
  <2> HIDE DEF r
  <2>3. \A i \in DOMAIN r : Good2(r[i])
    BY <1>3, <1>4, <2>1, <2>2 DEF r
  <2>4. slots'.waiting = r /\ slots' \in [free : Nat, waiting : Seq(Nat)]
    BY <1>2, <2>1, <2>2 DEF r
  <2> HIDE DEF Good2
  <2> QED BY <1>5, <2>2, <2>3, <2>4 DEF r
<1>9. CASE Acquired(c, k)
  <2>1. q # <<>> /\ Head(q) = c /\ slots.free > 0 /\ slots' = [free |-> slots.free - 1, waiting |-> Tail(q)]
    BY <1>9 DEF Acquired
  <2> DEFINE r == Tail(q)
  <2>2. /\ r \in Seq(Nat)
        /\ \A i \in DOMAIN r : r[i] # c /\ \E j \in DOMAIN q : q[j] = r[i]
        /\ \A i, j \in DOMAIN r : r[i] = r[j] => i = j
    BY <1>3, <2>1, HeadLeaves
  <2> HIDE DEF r
  <2>3. \A i \in DOMAIN r : Good2(r[i])
    BY <1>3, <1>4, <2>2
  <2>4. slots'.waiting = r /\ slots' \in [free : Nat, waiting : Seq(Nat)]
    BY <1>2, <2>1, <2>2 DEF r
  <2> HIDE DEF Good2
  <2> QED BY <1>5, <2>2, <2>3, <2>4
<1>10. CASE Released(c, k)
  <2> DEFINE r == Leaving(c)
  <2>1. slots' = [free |-> slots.free + (IF call[c].live THEN 1 ELSE 0), waiting |-> r]
    BY <1>10 DEF Released, Release
  <2>2. /\ r \in Seq(Nat)
        /\ \A i \in DOMAIN r : r[i] # c /\ \E j \in DOMAIN q : q[j] = r[i]
        /\ \A i, j \in DOMAIN r : r[i] = r[j] => i = j
    BY <1>3, LeavingRight
  <2> HIDE DEF r
  <2>3. \A i \in DOMAIN r : Good2(r[i])
    BY <1>3, <1>4, <2>2
  <2>4. slots'.waiting = r /\ slots' \in [free : Nat, waiting : Seq(Nat)]
    BY <1>2, <2>1, <2>2
  <2> HIDE DEF Good2
  <2> QED BY <1>5, <2>2, <2>3, <2>4
<1> QED BY <1>6, <1>7, <1>8, <1>9, <1>10 DEF CallStep

\* A slot is held by each live call and by nobody else: none is lost.
LEMMA SlotsStayCounted ==
  ASSUME McpTypeOK, QueueRight, SlotsCount, NEW c, NEW k, CallStep(c, k)
  PROVE  SlotsCount'
<1>1. DOMAIN call' = DOMAIN call /\ call'[c] = k /\ c \in DOMAIN call /\ \A d \in DOMAIN call : d # c => call'[d] = call[d]
  BY OthersAsBefore DEF CallStep
<1>2. slots \in [free : Nat, waiting : Seq(Nat)] /\ conf' = conf /\ conf.concurrent \in Nat
  BY McpAssumption DEF McpTypeOK, CallStep
<1>3. IsFiniteSet(Live)
  <2>1. DOMAIN call = 1..Len(call) /\ Len(call) \in Nat
    BY DEF McpTypeOK
  <2>2. IsFiniteSet(DOMAIN call)
    BY <2>1, FS_Interval
  <2> QED BY <2>2, FS_Subset DEF Live
<1>4. Cardinality(Live) \in Nat
  BY <1>3, FS_CardinalityType
<1>5. Live' = IF k.live THEN Live \cup {c} ELSE Live \ {c}
  BY <1>1 DEF Live
<1>6. c \in Live <=> call[c].live
  BY <1>1 DEF Live
<1>7. CASE (k.live <=> call[c].live) /\ slots'.free = slots.free
  <2>1. Live' = Live
    BY <1>5, <1>6, <1>7
  <2> QED BY <1>2, <1>7, <2>1 DEF SlotsCount
<1>8. CASE k.live /\ ~call[c].live /\ slots'.free = slots.free - 1
  <2>1. Cardinality(Live') = Cardinality(Live) + 1
    BY <1>3, <1>5, <1>6, <1>8, FS_AddElement
  <2> QED BY <1>2, <1>4, <1>8, <2>1 DEF SlotsCount
<1>9. CASE ~k.live /\ call[c].live /\ slots'.free = slots.free + 1
  <2>1. Cardinality(Live') = Cardinality(Live) - 1
    BY <1>3, <1>5, <1>6, <1>9, FS_RemoveElement
  <2> QED BY <1>2, <1>4, <1>9, <2>1 DEF SlotsCount
<1>10. CASE Parked(c, k) \/ Refused(c, k)
  BY <1>7, <1>10 DEF Parked, Refused
<1>11. CASE Queued(c, k)
  <2>1. slots'.free = slots.free
    BY <1>2, <1>11 DEF Queued
  <2> QED BY <1>7, <1>11, <2>1 DEF Queued
<1>12. CASE Acquired(c, k)
  <2>1. slots'.free = slots.free - 1 /\ k.live /\ slots.waiting # <<>> /\ Head(slots.waiting) = c
    BY <1>12 DEF Acquired
  <2>2. 1 \in DOMAIN slots.waiting /\ slots.waiting[1] = c
    BY <1>2, <2>1
  <2>3. ~call[c].live
    BY <2>2 DEF QueueRight
  <2> QED BY <1>8, <2>1, <2>3
<1>13. CASE Released(c, k)
  <2>1. slots'.free = slots.free + (IF call[c].live THEN 1 ELSE 0) /\ ~k.live
    BY <1>13 DEF Released, Release
  <2>2. ~call[c].live => slots'.free = slots.free
    BY <1>2, <2>1
  <2>3. call[c].live => slots'.free = slots.free + 1
    BY <2>1
  <2> QED BY <1>7, <1>9, <2>1, <2>2, <2>3
<1> QED BY <1>10, <1>11, <1>12, <1>13 DEF CallStep

LEMMA CallStepKeeps ==
  ASSUME McpInv, NEW c, NEW k, CallStep(c, k)
  PROVE  McpInv'
<1>1. CallsRight' /\ SlotsCount'
  BY CallsStayRight, SlotsStayCounted DEF McpInv
<1>2. FlightRight' /\ SesOK(mses')
  BY FlightStaysRight DEF McpInv
<1>3. QueueRight' /\ slots' \in [free : Nat, waiting : Seq(Nat)]
  BY QueueStaysRight DEF McpInv
<1>4. call' \in Seq(Range(call)') /\ \A d \in DOMAIN call' : CallOK(call'[d])
  BY OthersAsBefore DEF McpInv
<1>5. conf' = conf /\ posted' = posted /\ conf \in Setups /\ Configure(conf) /\ posted \in Nat
  BY DEF McpInv, McpTypeOK, CallStep
<1>6. Configure(conf')
  BY <1>5
<1> QED BY <1>1, <1>2, <1>3, <1>4, <1>5, <1>6 DEF McpInv, McpTypeOK

----------------------------------------------------------------------------
(* What a step makes of its call.                                          *)

\* An answered call is dropped.
LEMMA GoneRight ==
  ASSUME NEW k, CallOK(k), k.told # <<>>, \A i \in DOMAIN k.told : k.told[i] = "reply" <=> i = Len(k.told)
  PROVE  CallOK(Gone(k)) /\ CallRight(Gone(k)) /\ Gone(k).id = k.id /\ Gone(k).at = "gone" /\ ~Gone(k).live
<1> DEFINE g == Gone(k)
<1>1. /\ g \in CallType({{}}) /\ g.offered = {} /\ g.at = "gone" /\ g.live = FALSE /\ g.open = FALSE /\ g.told = k.told /\ g.id = k.id
  BY DEF Gone, CallOK, CallType
<1> HIDE DEF g
<1>2. CallOK(g)
  BY <1>1 DEF CallOK
<1>3. CallRight(g)
  BY <1>1 DEF CallRight, Unanswered, Waiting
<1> QED BY <1>1, <1>2, <1>3 DEF g

\* The reply goes last.
LEMMA ReplyLast ==
  ASSUME NEW s \in Seq({"waiting", "progress", "reply"}), \A i \in DOMAIN s : s[i] # "reply"
  PROVE  /\ Append(s, "reply") \in Seq({"waiting", "progress", "reply"}) /\ Append(s, "reply") # <<>>
         /\ \A i \in DOMAIN Append(s, "reply") : Append(s, "reply")[i] = "reply" <=> i = Len(Append(s, "reply"))
OBVIOUS

\* Anything else is told before it.
LEMMA ToldBefore ==
  ASSUME NEW s \in Seq({"waiting", "progress", "reply"}), \A i \in DOMAIN s : s[i] # "reply", NEW w \in {"waiting", "progress"}
  PROVE  /\ Append(s, w) \in Seq({"waiting", "progress", "reply"})
         /\ \A i \in DOMAIN Append(s, w) : Append(s, w)[i] # "reply"
OBVIOUS

\* The outcome of a call still open is kept for its reply; a cancelled call's is lost.
LEMMA OutcomeRight ==
  ASSUME NEW c \in DOMAIN call, CallOK(call[c]), CallRight(call[c]), call[c].at \in Waiting,
         NEW what \in {"none", "result", "cancelled", "failed", "refused"}
  PROVE  LET k == CallOutcome(c, what) IN
           CallOK(k) /\ CallRight(k) /\ k.id = call[c].id /\ ~k.live /\ (k.at \in Unanswered <=> call[c].at \in Unanswered)
<1> DEFINE k == CallOutcome(c, what)
<1>1. CASE call[c].at = "winding"
  <2>1. call[c].told # <<>> /\ \A i \in DOMAIN call[c].told : call[c].told[i] = "reply" <=> i = Len(call[c].told)
    BY <1>1 DEF CallRight, Unanswered
  <2>2. k = Gone(call[c])
    BY <1>1 DEF CallOutcome, In2
  <2> HIDE DEF k
  <2>3. CallOK(k) /\ CallRight(k) /\ k.id = call[c].id /\ k.at = "gone" /\ ~k.live
    BY <2>1, <2>2, GoneRight
  <2> QED BY <1>1, <2>3 DEF k, Unanswered
<1>2. CASE call[c].at # "winding"
  <2>1. k = [call[c] EXCEPT !.outcome = what, !.at = "returned", !.live = FALSE] /\ call[c].at = "spawned"
    BY <1>2 DEF CallOutcome, In2, Waiting
  <2> HIDE DEF k
  <2>2. /\ k \in CallType({call[c].offered}) /\ k.offered = call[c].offered /\ k.at = "returned" /\ k.live = FALSE /\ k.open = call[c].open
        /\ k.told = call[c].told /\ k.id = call[c].id
    BY <2>1 DEF CallOK, CallType
  <2>3. CallOK(k)
    BY <2>2 DEF CallOK
  <2>4. CallRight(k)
    BY <2>1, <2>2 DEF CallRight, Unanswered, Waiting
  <2> QED BY <2>1, <2>2, <2>3, <2>4 DEF k, Unanswered
<1> QED BY <1>1, <1>2

----------------------------------------------------------------------------
(* The actions.                                                            *)

LEMMA CallChecksKeeps ==
  ASSUME McpInv, NEW c \in DOMAIN call, CallChecks(c)
  PROVE  McpInv'
<1>1. CallOK(call[c]) /\ CallRight(call[c]) /\ call[c].at \in Waiting /\ ~call[c].live /\ c \notin Range(slots.waiting)
  BY DEF McpInv, McpTypeOK, CallsRight, CallChecks, In2, Waiting
<1>2. mses' = mses /\ conf' = conf /\ posted' = posted
  BY DEF CallChecks
<1>3. PICK o, t : \/ /\ Set2(c, [call[c] EXCEPT !.offered = o, !.told = t])
                     /\ t = call[c].told \/ (call[c].open /\ t = Append(call[c].told, "waiting"))
                     /\ slots' = [slots EXCEPT !.waiting = Append(@, c)]
                  \/ Set2(c, CallOutcome(c, "refused")) /\ slots' = slots
  <2> DEFINE b == Browsed(c)
             o == IF b.start \in {"none", "bad"} THEN {} ELSE CallSecrets(b.origin)
             t == IF slots.free = 0 /\ call[c].open THEN Append(call[c].told, "waiting") ELSE call[c].told
  <2>1. \/ /\ Set2(c, [call[c] EXCEPT !.offered = o, !.told = t])
           /\ slots' = [slots EXCEPT !.waiting = Append(@, c)]
        \/ Set2(c, CallOutcome(c, "refused")) /\ slots' = slots
    <3> HIDE DEF b
    <3>1. CASE Readable(b) /\ ~Clash(b, o)
      BY <3>1 DEF CallChecks, b
    <3>2. CASE ~(Readable(b) /\ ~Clash(b, o))
      BY <3>2 DEF CallChecks, b
    <3> QED BY <3>1, <3>2
  <2>2. t = call[c].told \/ (call[c].open /\ t = Append(call[c].told, "waiting"))
    OBVIOUS
  <2> HIDE DEF o, t
  <2> QED BY <2>1, <2>2
<1>4. CASE Set2(c, CallOutcome(c, "refused")) /\ slots' = slots
  <2> DEFINE k == CallOutcome(c, "refused")
  <2>1. CallOK(k) /\ CallRight(k) /\ k.id = call[c].id /\ ~k.live /\ (k.at \in Unanswered <=> call[c].at \in Unanswered)
    BY <1>1, OutcomeRight
  <2> HIDE DEF k
  <2>2. CallStep(c, k)
    BY <1>1, <1>2, <1>4, <2>1 DEF CallStep, Refused, StaysKnown, Set2, k
  <2> QED BY <2>2, CallStepKeeps
<1>5. CASE /\ Set2(c, [call[c] EXCEPT !.offered = o, !.told = t])
           /\ t = call[c].told \/ (call[c].open /\ t = Append(call[c].told, "waiting"))
           /\ slots' = [slots EXCEPT !.waiting = Append(@, c)]
  <2> DEFINE k == [call[c] EXCEPT !.offered = o, !.told = t]
  <2>1. call[c].told \in Seq({"waiting", "progress", "reply"})
    BY <1>1 DEF CallOK, CallType
  <2>2. /\ t \in Seq({"waiting", "progress", "reply"})
        /\ \A i \in DOMAIN t : t[i] = "reply" <=> ~call[c].open /\ i = Len(t)
        /\ ~call[c].open => t # <<>>
    <3>1. CASE t = call[c].told
      BY <1>1, <2>1, <3>1 DEF CallRight
    <3>2. CASE call[c].open /\ t = Append(call[c].told, "waiting")
      <4>1. \A i \in DOMAIN call[c].told : call[c].told[i] # "reply"
        BY <1>1, <3>2 DEF CallRight
      <4> QED BY <2>1, <3>2, <4>1, ToldBefore
    <3> QED BY <1>5, <3>1, <3>2
  <2>3. /\ k \in CallType({o}) /\ k.offered = o /\ k.at = call[c].at /\ k.live = call[c].live /\ k.open = call[c].open
        /\ k.told = t /\ k.id = call[c].id
    BY <1>1, <2>2 DEF CallOK, CallType
  <2> HIDE DEF k
  <2>4. CallOK(k)
    BY <2>3 DEF CallOK
  <2>5. CallRight(k)
    BY <1>1, <2>2, <2>3 DEF CallRight
  <2>6. Queued(c, k) /\ StaysKnown(c, k)
    BY <1>1, <1>2, <1>5, <2>3 DEF Queued, StaysKnown
  <2>7. CallStep(c, k)
    BY <1>2, <1>5, <2>3, <2>4, <2>5, <2>6 DEF CallStep, Set2, k
  <2> QED BY <2>7, CallStepKeeps
<1> QED BY <1>3, <1>4, <1>5

LEMMA AcquireKeeps ==
  ASSUME McpInv, NEW c \in DOMAIN call, Acquire(c)
  PROVE  McpInv'
<1> DEFINE k == [call[c] EXCEPT !.live = TRUE]
<1>1. slots.waiting \in Seq(Nat) /\ slots.waiting # <<>> /\ Head(slots.waiting) = c
  BY DEF McpInv, McpTypeOK, Acquire
<1>2. 1 \in DOMAIN slots.waiting /\ slots.waiting[1] = c
  BY <1>1
<1>3. CallOK(call[c]) /\ CallRight(call[c]) /\ call[c].at \in Waiting
  BY <1>2 DEF McpInv, McpTypeOK, CallsRight, QueueRight
<1>4. /\ k \in CallType({call[c].offered}) /\ k.offered = call[c].offered /\ k.at = call[c].at /\ k.live = TRUE /\ k.open = call[c].open
      /\ k.told = call[c].told /\ k.id = call[c].id
  BY <1>3 DEF CallOK, CallType
<1> HIDE DEF k
<1>5. CallOK(k) /\ CallRight(k)
  BY <1>3, <1>4 DEF CallOK, CallRight
<1>6. CallStep(c, k)
  BY <1>4, <1>5 DEF Acquire, CallStep, Acquired, StaysKnown, Set2, k
<1> QED BY <1>6, CallStepKeeps

LEMMA ProgressKeeps ==
  ASSUME McpInv, NEW c \in DOMAIN call, Progress(c)
  PROVE  McpInv'
<1>1. CallOK(call[c]) /\ CallRight(call[c])
  BY DEF McpInv, McpTypeOK, CallsRight
<1> DEFINE t == Append(call[c].told, "progress")
           k == IF call[c].open THEN [call[c] EXCEPT !.told = t] ELSE call[c]
<1>2. /\ CallOK(k) /\ CallRight(k) /\ k.id = call[c].id /\ k.live = call[c].live /\ k.at = call[c].at
  <2>1. CASE call[c].open
    <3>1. call[c].told \in Seq({"waiting", "progress", "reply"}) /\ \A i \in DOMAIN call[c].told : call[c].told[i] # "reply"
      BY <1>1, <2>1 DEF CallOK, CallType, CallRight
    <3>2. t \in Seq({"waiting", "progress", "reply"}) /\ \A i \in DOMAIN t : t[i] # "reply"
      BY <3>1, ToldBefore
    <3> HIDE DEF t
    <3>3. k = [call[c] EXCEPT !.told = t]
      BY <2>1
    <3> HIDE DEF k
    <3>4. /\ k \in CallType({call[c].offered}) /\ k.offered = call[c].offered /\ k.at = call[c].at /\ k.live = call[c].live
          /\ k.open = call[c].open /\ k.told = t /\ k.id = call[c].id
      BY <1>1, <3>2, <3>3 DEF CallOK, CallType
    <3> QED BY <1>1, <2>1, <3>2, <3>4 DEF CallOK, CallRight
  <2> QED BY <1>1, <2>1
<1>3. call' = [call EXCEPT ![c] = k] /\ conf' = conf /\ mses' = mses /\ slots' = slots /\ posted' = posted
  BY DEF Progress, Set2
<1> HIDE DEF k
<1>4. CallStep(c, k)
  BY <1>2, <1>3 DEF CallStep, Parked, StaysKnown
<1> QED BY <1>4, CallStepKeeps

LEMMA RunEndsKeeps ==
  ASSUME McpInv, NEW c \in DOMAIN call, RunEnds(c) \/ Abandon(c)
  PROVE  McpInv'
<1>1. CallOK(call[c]) /\ CallRight(call[c]) /\ call[c].at \in Waiting
  BY DEF McpInv, McpTypeOK, CallsRight, CallRight, RunEnds, Abandon
<1>2. PICK what \in {"none", "result", "cancelled", "failed", "refused"} : Set2(c, CallOutcome(c, what))
  BY DEF RunEnds, Abandon
<1>3. slots' = Release(c) /\ conf' = conf /\ mses' = mses /\ posted' = posted
  BY DEF RunEnds, Abandon
<1> DEFINE k == CallOutcome(c, what)
<1>4. CallOK(k) /\ CallRight(k) /\ k.id = call[c].id /\ ~k.live /\ (k.at \in Unanswered <=> call[c].at \in Unanswered)
  BY <1>1, OutcomeRight
<1> HIDE DEF k
<1>5. CallStep(c, k)
  BY <1>2, <1>3, <1>4 DEF CallStep, Released, StaysKnown, Set2, k
<1> QED BY <1>5, CallStepKeeps

LEMMA DeadlineKeeps ==
  ASSUME McpInv, NEW c \in DOMAIN call, Deadline2(c)
  PROVE  McpInv'
<1>1. CallOK(call[c]) /\ CallRight(call[c])
  BY DEF McpInv, McpTypeOK, CallsRight
<1> DEFINE k == [call[c] EXCEPT !.stop = TRUE, !.grace = TRUE]
<1>2. /\ k \in CallType({call[c].offered}) /\ k.offered = call[c].offered /\ k.at = call[c].at /\ k.live = call[c].live
      /\ k.open = call[c].open /\ k.told = call[c].told /\ k.id = call[c].id
  BY <1>1 DEF CallOK, CallType
<1> HIDE DEF k
<1>3. CallOK(k) /\ CallRight(k)
  BY <1>1, <1>2 DEF CallOK, CallRight
<1>4. CallStep(c, k)
  BY <1>2, <1>3 DEF Deadline2, CallStep, Parked, StaysKnown, Set2, k
<1> QED BY <1>4, CallStepKeeps

LEMMA CancelAnswersKeeps ==
  ASSUME McpInv, NEW c \in DOMAIN call, CancelAnswers(c)
  PROVE  McpInv'
<1>1. CallOK(call[c]) /\ CallRight(call[c]) /\ call[c].at = "spawned"
  BY DEF McpInv, McpTypeOK, CallsRight, CancelAnswers, In2
<1> DEFINE t == Append(call[c].told, "reply")
           k == [call[c] EXCEPT !.at = "winding", !.open = FALSE, !.stop = TRUE, !.told = t]
<1>2. call[c].told \in Seq({"waiting", "progress", "reply"}) /\ \A i \in DOMAIN call[c].told : call[c].told[i] # "reply"
  BY <1>1 DEF CallOK, CallType, CallRight, Unanswered
<1>3. t \in Seq({"waiting", "progress", "reply"}) /\ t # <<>> /\ \A i \in DOMAIN t : t[i] = "reply" <=> i = Len(t)
  BY <1>2, ReplyLast
<1>4. call' = [call EXCEPT ![c] = k] /\ mses' = Forget(c) /\ conf' = conf /\ slots' = slots /\ posted' = posted
  BY DEF CancelAnswers, Set2
<1> HIDE DEF t
<1>5. /\ k \in CallType({call[c].offered}) /\ k.offered = call[c].offered /\ k.at = "winding" /\ k.live = call[c].live
      /\ k.open = FALSE /\ k.told = t /\ k.id = call[c].id
  BY <1>1, <1>3 DEF CallOK, CallType
<1> HIDE DEF k
<1>6. CallOK(k) /\ CallRight(k)
  BY <1>1, <1>3, <1>5 DEF CallOK, CallRight, Unanswered, Waiting
<1>7. Parked(c, k) /\ Forgotten(c, k)
  BY <1>1, <1>4, <1>5 DEF Parked, Forgotten, Unanswered, Waiting
<1>8. CallStep(c, k)
  BY <1>4, <1>5, <1>6, <1>7 DEF CallStep
<1> QED BY <1>8, CallStepKeeps

LEMMA CancelGraceEndsKeeps ==
  ASSUME McpInv, NEW c \in DOMAIN call, CancelGraceEnds(c)
  PROVE  McpInv'
<1>1. CallOK(call[c]) /\ CallRight(call[c]) /\ call[c].at = "winding"
  BY DEF McpInv, McpTypeOK, CallsRight, CancelGraceEnds, In2
<1> DEFINE k == Gone(call[c])
<1>2. call[c].told # <<>> /\ \A i \in DOMAIN call[c].told : call[c].told[i] = "reply" <=> i = Len(call[c].told)
  BY <1>1 DEF CallRight, Unanswered
<1>3. CallOK(k) /\ CallRight(k) /\ k.id = call[c].id /\ k.at = "gone" /\ ~k.live
  BY <1>1, <1>2, GoneRight
<1> HIDE DEF k
<1>4. CallStep(c, k)
  BY <1>3 DEF CancelGraceEnds, CallStep, Released, StaysKnown, Set2, Unanswered, k
<1> QED BY <1>4, CallStepKeeps

LEMMA CallReplyKeeps ==
  ASSUME McpInv, NEW c \in DOMAIN call, CallReply(c) \/ ReplyCancelled(c)
  PROVE  McpInv'
<1>1. CallOK(call[c]) /\ CallRight(call[c]) /\ call[c].at = "returned"
  BY DEF McpInv, McpTypeOK, CallsRight, CallReply, ReplyCancelled, In2
<1> DEFINE t == Append(call[c].told, "reply")
           j == [call[c] EXCEPT !.told = t]
           k == Gone(j)
<1>2. call[c].told \in Seq({"waiting", "progress", "reply"}) /\ (\A i \in DOMAIN call[c].told : call[c].told[i] # "reply") /\ ~call[c].live
  BY <1>1 DEF CallOK, CallType, CallRight, Unanswered, Waiting
<1>3. t \in Seq({"waiting", "progress", "reply"}) /\ t # <<>> /\ \A i \in DOMAIN t : t[i] = "reply" <=> i = Len(t)
  BY <1>2, ReplyLast
<1>4. call' = [call EXCEPT ![c] = k] /\ mses' = Forget(c) /\ conf' = conf /\ slots' = slots /\ posted' = posted
  BY DEF CallReply, ReplyCancelled, Set2
<1> HIDE DEF t
<1>5. j \in CallType({call[c].offered}) /\ j.offered = call[c].offered /\ j.told = t /\ j.id = call[c].id
  BY <1>1, <1>3 DEF CallOK, CallType
<1> HIDE DEF j
<1>6. CallOK(k) /\ CallRight(k) /\ k.id = j.id /\ k.at = "gone" /\ ~k.live
  <2>1. CallOK(j)
    BY <1>5 DEF CallOK
  <2> QED BY <1>3, <1>5, <2>1, GoneRight
<1> HIDE DEF k
<1>7. Parked(c, k) /\ Forgotten(c, k)
  BY <1>1, <1>2, <1>4, <1>6 DEF Parked, Forgotten, Unanswered, Waiting
<1>8. CallStep(c, k)
  BY <1>4, <1>5, <1>6, <1>7 DEF CallStep
<1> QED BY <1>8, CallStepKeeps

LEMMA SessionStepKeeps ==
  ASSUME McpInv, Initialize \/ Initialized \/ DeleteSession
  PROVE  McpInv'
<1>1. conf' = conf /\ call' = call /\ slots' = slots /\ posted' = posted
  BY DEF Initialize, Initialized, DeleteSession
<1>2. SesOK(mses)
  BY DEF McpInv, McpTypeOK
<1>3. PICK a \in BOOLEAN, b \in BOOLEAN : mses' = [mses EXCEPT !.known = a, !.initialized = b]
  <2>1. mses \in [known : BOOLEAN, initialized : BOOLEAN, inFlight : {mses.inFlight}]
    BY <1>2 DEF SesOK
  <2>2. CASE Initialize
    <3>1. PICK ok \in BOOLEAN : mses' = [mses EXCEPT !.known = TRUE, !.initialized = ok]
      BY <2>2 DEF Initialize
    <3>2. TRUE \in BOOLEAN
      OBVIOUS
    <3> QED BY <3>1, <3>2, Zenon
  <2>3. CASE Initialized
    <3>1. \A b \in BOOLEAN : [mses EXCEPT !.initialized = b] = [mses EXCEPT !.known = mses.known, !.initialized = b]
      BY <2>1
    <3>2. mses' = [mses EXCEPT !.initialized = TRUE]
      BY <2>3 DEF Initialized
    <3>3. TRUE \in BOOLEAN /\ mses.known \in BOOLEAN
      BY <2>1
    <3> QED BY <3>1, <3>2, <3>3, Zenon
  <2>4. CASE DeleteSession
    <3>1. \A b \in BOOLEAN : [mses EXCEPT !.known = b] = [mses EXCEPT !.known = b, !.initialized = mses.initialized]
      BY <2>1
    <3>2. mses' = [mses EXCEPT !.known = FALSE]
      BY <2>4 DEF DeleteSession
    <3>3. FALSE \in BOOLEAN /\ mses.initialized \in BOOLEAN
      BY <2>1
    <3> QED BY <3>1, <3>2, <3>3, Zenon
  <2> QED BY <2>2, <2>3, <2>4
<1>4. mses'.inFlight = mses.inFlight /\ SesOK(mses')
  BY <1>2, <1>3 DEF SesOK
<1>5. McpTypeOK'
  BY <1>1, <1>4 DEF McpInv, McpTypeOK, CallOK, CallType, Ids, Configure, OnCloud, CheckOperator, SecretFlags, Environment, Range
<1>6. CallsRight' /\ QueueRight' /\ SlotsCount'
  BY <1>1 DEF McpInv, CallsRight, CallRight, QueueRight, SlotsCount, Live
<1>7. FlightRight'
  BY <1>1, <1>4 DEF McpInv, FlightRight
<1> QED BY <1>5, <1>6, <1>7 DEF McpInv

LEMMA McpStutters ==
  ASSUME McpInv, conf' = conf, mses' = mses, call' = call, slots' = slots, posted' = posted
  PROVE  McpInv'
BY DEF McpInv, McpTypeOK, CallOK, CallType, SesOK, Ids, Configure, OnCloud, CheckOperator, SecretFlags, Environment,
            Range, CallsRight, CallRight, QueueRight, SlotsCount, Live, FlightRight

LEMMA CancelledKeeps ==
  ASSUME McpInv, NEW id, Cancelled(id)
  PROVE  McpInv'
<1> DEFINE c == mses.inFlight[id]
           k == [call[c] EXCEPT !.cancel = TRUE]
<1>1. conf' = conf /\ mses' = mses /\ slots' = slots /\ posted' = posted /\ call' = [call EXCEPT ![c] = k]
  BY DEF Cancelled
<1>2. CASE c \in DOMAIN call
  <2>1. CallOK(call[c]) /\ CallRight(call[c])
    BY <1>2 DEF McpInv, McpTypeOK, CallsRight
  <2>2. /\ k \in CallType({call[c].offered}) /\ k.offered = call[c].offered /\ k.at = call[c].at /\ k.live = call[c].live
        /\ k.open = call[c].open /\ k.told = call[c].told /\ k.id = call[c].id
    BY <2>1 DEF CallOK, CallType
  <2> HIDE DEF k, c
  <2>3. CallOK(k) /\ CallRight(k)
    BY <2>1, <2>2 DEF CallOK, CallRight
  <2>4. CallStep(c, k)
    BY <1>1, <1>2, <2>2, <2>3 DEF CallStep, Parked, StaysKnown
  <2> QED BY <2>4, CallStepKeeps
<1>3. CASE c \notin DOMAIN call
  <2>1. call \in Seq(Range(call))
    BY DEF McpInv, McpTypeOK
  <2> HIDE DEF k, c
  <2>2. call' = call
    BY <1>1, <1>3, <2>1
  <2> QED BY <1>1, <2>2, McpStutters
<1> QED BY <1>2, <1>3

\* A new call under an id of before: the earlier one was answered, so in_flight may
\* take the id for the new one.
LEMMA ToolsCallKeeps ==
  ASSUME McpInv, ToolsCall
  PROVE  McpInv'
<1> DEFINE n == Len(call) + 1
           b == Browses[posted + 1]
           k == NewCall(b)
           f == mses.inFlight
           g == [i \in DOMAIN f \cup {b.id} |-> IF i = b.id THEN n ELSE f[i]]
<1>1. /\ call' = Append(call, k) /\ mses' = [mses EXCEPT !.inFlight = g] /\ posted' = posted + 1
      /\ conf' = conf /\ slots' = slots /\ Reusable(b.id) /\ posted < Len(Browses)
  BY DEF ToolsCall
<1>2. call \in Seq(Range(call)) /\ posted \in Nat /\ SesOK(mses) /\ slots \in [free : Nat, waiting : Seq(Nat)]
  BY DEF McpInv, McpTypeOK
<1>3. b.id \in Ids
  BY <1>1, <1>2, McpAssumption DEF Ids
<1>4. /\ CallOK(k) /\ k.id = b.id /\ k.at = "spawned" /\ k.open = TRUE /\ k.live = FALSE /\ k.told = <<>>
  <2>1. <<>> \in Seq({"waiting", "progress", "reply"})
    OBVIOUS
  <2> HIDE DEF b
  <2> QED BY <1>3, <2>1 DEF NewCall, CallOK, CallType
<1>5. CallRight(k)
  BY <1>4 DEF CallRight, Unanswered
<1> HIDE DEF b, k
<1>6. /\ DOMAIN call = 1..Len(call) /\ Len(call) \in Nat /\ n \in Nat /\ n \notin DOMAIN call
      /\ DOMAIN call' = DOMAIN call \cup {n} /\ call'[n] = k /\ \A d \in DOMAIN call : call'[d] = call[d]
  <2>1. DOMAIN call = 1..Len(call) /\ Len(call) \in Nat
    BY <1>2
  <2>2. call \in Seq(Range(call) \cup {k}) /\ k \in Range(call) \cup {k}
    BY <1>2, SeqMonotonic
  <2>3. Len(call') = n /\ \A i \in 1..n : call'[i] = IF i <= Len(call) THEN call[i] ELSE k
    BY <1>1, <2>2, AppendProperties
  <2>4. DOMAIN call' = 1..n
    BY <1>1, <2>2, <2>3
  <2> HIDE DEF n
  <2>5. n = Len(call) + 1
    BY DEF n
  <2>6. 1..n = 1..Len(call) \cup {n} /\ n \notin 1..Len(call) /\ n \in Nat /\ n \in 1..n
    BY <2>1, <2>5
  <2>7. \A d \in 1..Len(call) : d \in 1..n /\ d <= Len(call)
    BY <2>1, <2>5
  <2>8. ~(n <= Len(call))
    BY <2>1, <2>5
  <2> QED BY <2>1, <2>3, <2>4, <2>6, <2>7, <2>8
<1> HIDE DEF n
<1>7. call' \in Seq(Range(call)') /\ \A d \in DOMAIN call' : CallOK(call'[d])
  <2>1. \A d \in DOMAIN call' : CallOK(call'[d])
    BY <1>4, <1>6 DEF McpInv, McpTypeOK
  <2>2. call \in Seq(Range(call) \cup {k}) /\ k \in Range(call) \cup {k}
    BY <1>2, SeqMonotonic
  <2>3. call' \in Seq(Range(call) \cup {k})
    BY <1>1, <2>2
  <2>4. call' \in Seq(Range(call'))
    BY <2>3, SeqOfRange
  <2> QED BY <2>1, <2>4
<1>8. CallsRight'
  BY <1>5, <1>6 DEF McpInv, CallsRight
<1>9. QueueRight'
  BY <1>1, <1>6 DEF McpInv, QueueRight
<1>10. SlotsCount'
  <2>1. Live' = Live
    BY <1>4, <1>6 DEF Live
  <2> QED BY <1>1, <2>1 DEF McpInv, SlotsCount
<1>11. g \in [DOMAIN g -> Nat] /\ DOMAIN g = DOMAIN f \cup {b.id}
  BY <1>2, <1>6 DEF SesOK
<1>12. FlightRight'
  <2>1. \A d \in DOMAIN call : call[d].at \in Unanswered => call[d].id # b.id
    <3> SUFFICES ASSUME NEW d \in DOMAIN call, call[d].at \in Unanswered, call[d].id = b.id PROVE FALSE
      OBVIOUS
    <3>1. "reply" \in Range(call[d].told)
      BY <1>1 DEF Reusable
    <3>2. PICK i \in DOMAIN call[d].told : call[d].told[i] = "reply"
      BY <3>1 DEF Range
    <3> QED BY <3>2 DEF McpInv, CallsRight, CallRight
  <2>2. \A d \in DOMAIN call : call[d].at \in Unanswered => call[d].id \in DOMAIN g /\ g[call[d].id] = d
    BY <2>1, <1>11 DEF McpInv, FlightRight
  <2>3. b.id \in DOMAIN g /\ g[b.id] = n
    BY <1>11
  <2> HIDE DEF g
  <2>4. mses'.inFlight = g
    BY <1>1, <1>2 DEF SesOK
  <2> QED BY <1>4, <1>6, <2>2, <2>3, <2>4 DEF FlightRight
<1>13. SesOK(mses')
  <2> HIDE DEF g
  <2> QED BY <1>1, <1>2, <1>11 DEF SesOK
<1>14. McpTypeOK'
  <2>1. conf' \in Setups /\ Configure(conf')
    BY <1>1 DEF McpInv, McpTypeOK
  <2>2. posted' \in Nat /\ slots' \in [free : Nat, waiting : Seq(Nat)]
    BY <1>1, <1>2
  <2> QED BY <1>7, <1>13, <2>1, <2>2 DEF McpTypeOK
<1> QED BY <1>8, <1>9, <1>10, <1>12, <1>14 DEF McpInv

----------------------------------------------------------------------------
(* The specification.                                                      *)

LEMMA McpStarts == McpInit => McpInv
<1> SUFFICES ASSUME McpInit PROVE McpInv
  OBVIOUS
<1>1. conf \in Setups /\ Configure(conf) /\ conf.concurrent \in Nat
  BY McpAssumption DEF McpInit
<1>2. /\ mses = [known |-> ~conf.http, initialized |-> FALSE, inFlight |-> <<>>] /\ call = <<>> /\ posted = 0
      /\ slots = [free |-> conf.concurrent, waiting |-> <<>>]
  BY DEF McpInit
<1>3. DOMAIN call = {} /\ call \in Seq(Range(call))
  BY <1>2
<1>4. slots.waiting = <<>> /\ DOMAIN slots.waiting = {} /\ slots.free = conf.concurrent /\ slots \in [free : Nat, waiting : Seq(Nat)]
  BY <1>1, <1>2
<1>5. SesOK(mses)
  <2>1. \A e : DOMAIN e = {} /\ e = [i \in DOMAIN e |-> e[i]] => e \in [DOMAIN e -> Nat]
    OBVIOUS
  <2>2. <<>> \in [DOMAIN <<>> -> Nat]
    OBVIOUS
  <2>3. \A h \in BOOLEAN : \A e : [known |-> h, initialized |-> FALSE, inFlight |-> e] \in [known : BOOLEAN, initialized : BOOLEAN, inFlight : {e}]
    OBVIOUS
  <2>4. (~conf.http) \in BOOLEAN
    OBVIOUS
  <2>5. mses.inFlight = <<>>
    BY <1>2
  <2>6. mses \in [known : BOOLEAN, initialized : BOOLEAN, inFlight : {<<>>}]
    BY <1>2, <2>3, <2>4, Zenon
  <2> QED BY <2>2, <2>5, <2>6 DEF SesOK
<1>6. SlotsCount
  <2>1. Live = {}
    BY <1>3 DEF Live
  <2>2. Cardinality(Live) = 0
    BY <2>1, FS_EmptySet
  <2> QED BY <1>1, <1>4, <2>2 DEF SlotsCount
<1>7. posted \in Nat
  BY <1>2
<1> QED BY <1>1, <1>3, <1>4, <1>5, <1>6, <1>7 DEF McpInv, McpTypeOK, CallsRight, QueueRight, FlightRight

LEMMA McpStays == McpInv /\ [McpNext]_mvars => McpInv'
<1> SUFFICES ASSUME McpInv, [McpNext]_mvars PROVE McpInv'
  OBVIOUS
<1>1. ASSUME NEW c \in DOMAIN call, CallChecks(c) PROVE McpInv'
  BY <1>1, CallChecksKeeps
<1>2. ASSUME NEW c \in DOMAIN call, Acquire(c) PROVE McpInv'
  BY <1>2, AcquireKeeps
<1>3. ASSUME NEW c \in DOMAIN call, RunEnds(c) \/ Abandon(c) PROVE McpInv'
  BY <1>3, RunEndsKeeps
<1>4. ASSUME NEW c \in DOMAIN call, CancelAnswers(c) PROVE McpInv'
  BY <1>4, CancelAnswersKeeps
<1>5. ASSUME NEW c \in DOMAIN call, CancelGraceEnds(c) PROVE McpInv'
  BY <1>5, CancelGraceEndsKeeps
<1>6. ASSUME NEW c \in DOMAIN call, CallReply(c) \/ ReplyCancelled(c) PROVE McpInv'
  BY <1>6, CallReplyKeeps
<1>7. ASSUME NEW c \in DOMAIN call, Deadline2(c) PROVE McpInv'
  BY <1>7, DeadlineKeeps
<1>8. ASSUME NEW c \in DOMAIN call, Progress(c) PROVE McpInv'
  BY <1>8, ProgressKeeps
<1>9. CASE ServerStep
  BY <1>1, <1>2, <1>3, <1>4, <1>5, <1>6, <1>7, <1>9 DEF ServerStep
<1>10. CASE ClientStep
  BY <1>10, SessionStepKeeps, ToolsCallKeeps, CancelledKeeps DEF ClientStep
<1>11. CASE UNCHANGED mvars
  BY <1>11, McpStutters DEF mvars
<1> QED BY <1>8, <1>9, <1>10, <1>11 DEF McpNext

LEMMA McpInvSuffices == McpInv => McpKept
<1> SUFFICES ASSUME McpInv PROVE McpKept
  OBVIOUS
<1>1. NothingAfterReply
  BY DEF McpInv, CallsRight, CallRight, NothingAfterReply
<1>2. CancelFindsItsCall
  <2> SUFFICES ASSUME NEW c \in DOMAIN call, ~Replied(c) PROVE call[c].at \in Unanswered
    BY DEF CancelFindsItsCall, McpInv, FlightRight
  <2>1. call[c].told \in Seq({"waiting", "progress", "reply"}) /\ CallRight(call[c])
    BY DEF McpInv, McpTypeOK, CallOK, CallType, CallsRight
  <2>2. CASE ~call[c].open
    <3>1. Len(call[c].told) \in DOMAIN call[c].told
      BY <2>1, <2>2 DEF CallRight
    <3>2. call[c].told[Len(call[c].told)] = "reply"
      BY <2>1, <2>2, <3>1 DEF CallRight
    <3> QED BY <3>1, <3>2 DEF Replied, Range
  <2> QED BY <2>1, <2>2 DEF CallRight
<1>3. RunsWithinSlots
  <2>1. IsFiniteSet(Live) /\ Cardinality(Live) \in Nat
    <3>1. DOMAIN call = 1..Len(call) /\ Len(call) \in Nat
      BY DEF McpInv, McpTypeOK
    <3>2. IsFiniteSet(DOMAIN call)
      BY <3>1, FS_Interval
    <3> QED BY <3>2, FS_Subset, FS_CardinalityType DEF Live
  <2>2. slots.free \in Nat /\ conf.concurrent \in Nat /\ Cardinality(Live) + slots.free = conf.concurrent
    BY McpAssumption DEF McpInv, McpTypeOK, SlotsCount
  <2>3. conf.profile /\ ~OnCloud(conf) => ~(conf.concurrent > 1)
    BY DEF McpInv, McpTypeOK, Configure
  <2>4. conf.profile /\ ~OnCloud(conf) => Cardinality(Live) <= 1
    BY <2>1, <2>2, <2>3
  <2> QED BY <2>2, <2>4 DEF RunsWithinSlots, Live
<1> QED BY <1>1, <1>2, <1>3 DEF McpKept

\* The MCP server, whatever its setup and whatever its client sends: nothing is told
\* of a call after its reply, a cancel finds the call its id names now, no slot is lost
\* and no more runs are live than there are slots (mcp/mod.rs: browse, in_flight, slots).
THEOREM McpIsKept == McpSpec => []McpKept
<1>1. McpInit => McpInv
  BY McpStarts
<1>2. McpInv /\ [McpNext]_mvars => McpInv'
  BY McpStays
<1>3. McpInv => McpKept
  BY McpInvSuffices
<1> QED BY <1>1, <1>2, <1>3, PTL DEF McpSpec
=============================================================================
