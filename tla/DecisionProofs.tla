--------------------------- MODULE DecisionProofs ---------------------------
(***************************************************************************)
(* Proofs about how a step is read, decided and paid for: the receipts of  *)
(* Jev passes and of generations, the prompts of a decision, the action    *)
(* made of it, the reading of the page, and what is made of what was read: *)
(* the answer composed at the end, the record copied for a caller, and the *)
(* notes both are made from.                                               *)
(*                                                                         *)
(* The receipts are sums over calls and generations of what each still     *)
(* holds; the invariants say where every request and every dollar is.      *)
(***************************************************************************)
EXTENDS JevSpend, LlmClients, Policy, Acting, PageRead, Composing, Extract, Functions,
        FiniteSetTheorems, SequenceTheorems, WellFoundedInduction, TLAPS

----------------------------------------------------------------------------
(* Induction over the naturals, and sums over finite sets.                 *)

\* Induction over the naturals, on the set of the numbers shown so far.
LEMMA NatsFromZero ==
  ASSUME NEW T \in SUBSET Nat, 0 \in T, \A n \in T : n + 1 \in T
  PROVE  T = Nat
<1> SUFFICES ASSUME Nat \ T # {} PROVE FALSE
  OBVIOUS
<1>1. PICK n \in Nat \ T : \A k \in Nat \ T : ~(<<k, n>> \in OpToRel(<, Nat))
  BY NatLessThanWellFounded, WFMin, Zenon
<1>2. n # 0 /\ n - 1 \in Nat
  OBVIOUS
<1>3. <<n - 1, n>> \in OpToRel(<, Nat)
  BY <1>2 DEF OpToRel
<1>4. n - 1 \in T
  BY <1>1, <1>2, <1>3
<1> QED BY <1>2, <1>4

\* Some element of a set, and one step of a sum over the subsets of S.
One(s) == CHOOSE x \in s : TRUE
Adding(fun, S, sum) == [s \in SUBSET S |-> IF s = {} THEN 0 ELSE fun[One(s)] + sum[s \ {One(s)}]]
Adds(fun, S) == CHOOSE sum : sum = Adding(fun, S, sum)

LEMMA OneIsIn ==
  ASSUME NEW S, IsFiniteSet(S), NEW s \in SUBSET S, s # {}
  PROVE  /\ One(s) \in s /\ s \ {One(s)} \in SUBSET S
         /\ IsFiniteSet(s) /\ Cardinality(s) \in Nat /\ Cardinality(s \ {One(s)}) = Cardinality(s) - 1
<1>1. One(s) \in s
  BY Zenon DEF One
<1>2. IsFiniteSet(s)
  BY FS_Subset
<1> QED BY <1>1, <1>2, FS_RemoveElement, FS_CardinalityType

\* The recursion over subsets has a solution.
LEMMA AddsUp ==
  ASSUME NEW S, IsFiniteSet(S), NEW fun
  PROVE  Adds(fun, S) = Adding(fun, S, Adds(fun, S))
<1> DEFINE Solved == {k \in Nat : \E sum : \A s \in SUBSET S : Cardinality(s) < k => sum[s] = Adding(fun, S, sum)[s]}
<1>1. \A s \in SUBSET S : IsFiniteSet(s) /\ Cardinality(s) \in Nat /\ Cardinality(s) < Cardinality(S) + 1
  BY FS_Subset, FS_CardinalityType
<1>2. Cardinality(S) + 1 \in Nat
  BY FS_CardinalityType
<1>3. Solved = Nat
  <2>1. 0 \in Solved
    BY <1>1
  <2>2. ASSUME NEW k \in Solved PROVE k + 1 \in Solved
    <3>1. PICK sum : \A s \in SUBSET S : Cardinality(s) < k => sum[s] = Adding(fun, S, sum)[s]
      OBVIOUS
    <3> DEFINE more == Adding(fun, S, sum)
    <3>2. ASSUME NEW s \in SUBSET S, Cardinality(s) < k + 1
          PROVE  more[s] = Adding(fun, S, more)[s]
      <4>1. CASE s = {}
        BY <4>1 DEF Adding
      <4>2. CASE s # {}
        <5>1. s \ {One(s)} \in SUBSET S /\ Cardinality(s \ {One(s)}) < k
          BY <3>2, <4>2, OneIsIn, <1>1
        <5>2. sum[s \ {One(s)}] = more[s \ {One(s)}]
          BY <3>1, <5>1
        <5>3. more[s] = fun[One(s)] + sum[s \ {One(s)}]
          BY <4>2 DEF Adding
        <5>4. Adding(fun, S, more)[s] = fun[One(s)] + more[s \ {One(s)}]
          BY <4>2 DEF Adding
        <5> QED BY <5>2, <5>3, <5>4
      <4> QED BY <4>1, <4>2
    <3>3. k + 1 \in Nat
      OBVIOUS
    <3> HIDE DEF more
    <3> QED BY <3>2, <3>3, Zenon
  <2> QED BY <2>1, <2>2, NatsFromZero
<1>4. PICK sum : \A s \in SUBSET S : Cardinality(s) < Cardinality(S) + 1 => sum[s] = Adding(fun, S, sum)[s]
  <2>1. Cardinality(S) + 1 \in Solved
    BY <1>2, <1>3, Zenon
  <2> QED BY <2>1, Zenon
<1> DEFINE full == Adding(fun, S, sum)
<1>5. \A s \in SUBSET S : full[s] = sum[s]
  BY <1>1, <1>4
<1>6. full = Adding(fun, S, full)
  <2>1. \A s \in SUBSET S : s # {} => full[s \ {One(s)}] = sum[s \ {One(s)}]
    BY <1>5
  <2> QED BY <2>1 DEF Adding
<1> HIDE DEF full
<1> QED BY <1>6, Zenon DEF Adds

LEMMA AddsByOne ==
  ASSUME NEW S, IsFiniteSet(S), NEW fun, NEW s \in SUBSET S, s # {}
  PROVE  Adds(fun, S)[s] = fun[One(s)] + Adds(fun, S)[s \ {One(s)}]
<1> DEFINE sum == Adds(fun, S)
<1>1. sum = Adding(fun, S, sum)
  BY AddsUp
<1> HIDE DEF sum
<1>2. sum[s] = fun[One(s)] + sum[s \ {One(s)}]
  BY <1>1, Zenon DEF Adding
<1> QED BY <1>2 DEF sum

\* What the sum over a set is, taken over a larger one.
LEMMA AddsAgree ==
  ASSUME NEW S, IsFiniteSet(S), NEW T \in SUBSET S, NEW fun
  PROVE  Adds(fun, S)[T] = Adds(fun, T)[T]
<1>0. IsFiniteSet(T)
  BY FS_Subset
<1>1. \A s \in SUBSET T : IsFiniteSet(s) /\ Cardinality(s) \in Nat
  BY <1>0, FS_Subset, FS_CardinalityType
<1> DEFINE Same == {k \in Nat : \A s \in SUBSET T : Cardinality(s) < k => Adds(fun, S)[s] = Adds(fun, T)[s]}
<1>2. Same = Nat
  <2>1. 0 \in Same
    BY <1>1
  <2>2. ASSUME NEW k \in Same PROVE k + 1 \in Same
    <3>1. ASSUME NEW s \in SUBSET T, Cardinality(s) < k + 1
          PROVE  Adds(fun, S)[s] = Adds(fun, T)[s]
      <4>0. s \in SUBSET S
        OBVIOUS
      <4>1. CASE s = {}
        BY <4>0, <4>1, <1>0, AddsUp DEF Adding
      <4>2. CASE s # {}
        <5>1. s \ {One(s)} \in SUBSET T /\ Cardinality(s \ {One(s)}) < k
          BY <3>1, <4>2, <1>0, <1>1, OneIsIn
        <5>2. Adds(fun, S)[s \ {One(s)}] = Adds(fun, T)[s \ {One(s)}]
          BY <5>1
        <5>3. Adds(fun, S)[s] = fun[One(s)] + Adds(fun, S)[s \ {One(s)}]
          BY <4>0, <4>2, AddsByOne
        <5>4. Adds(fun, T)[s] = fun[One(s)] + Adds(fun, T)[s \ {One(s)}]
          BY <1>0, <4>2, AddsByOne
        <5> QED BY <5>2, <5>3, <5>4
      <4> QED BY <4>1, <4>2
    <3> QED BY <3>1
  <2> QED BY <2>1, <2>2, NatsFromZero
<1>3. Cardinality(T) + 1 \in Same
  <2>1. Cardinality(T) + 1 \in Nat
    BY <1>1
  <2> QED BY <1>2, <2>1, Zenon
<1> QED BY <1>1, <1>3

LEMMA SumIsAdds ==
  ASSUME NEW fun, NEW S
  PROVE  SumFunctionOnSet(fun, S) = Adds(fun, S)[S]
BY DEF SumFunctionOnSet, FoldFunctionOnSet, MapThenFoldSet, Adds, Adding, One

\* A sum over nothing, and over a set by one element of it.
LEMMA SumOfNone ==
  ASSUME NEW fun PROVE SumFunctionOnSet(fun, {}) = 0
<1>1. IsFiniteSet({})
  BY FS_EmptySet
<1> QED BY <1>1, SumIsAdds, AddsUp DEF Adding

LEMMA SumByOne ==
  ASSUME NEW fun, NEW S, IsFiniteSet(S), S # {}
  PROVE  SumFunctionOnSet(fun, S) = fun[One(S)] + SumFunctionOnSet(fun, S \ {One(S)})
<1>1. Adds(fun, S)[S] = fun[One(S)] + Adds(fun, S)[S \ {One(S)}]
  BY AddsByOne
<1>2. Adds(fun, S)[S \ {One(S)}] = Adds(fun, S \ {One(S)})[S \ {One(S)}]
  BY AddsAgree
<1> QED BY <1>1, <1>2, SumIsAdds

\* A sum of integers is one, and of naturals another.
LEMMA SumIsInt ==
  ASSUME NEW S, IsFiniteSet(S), NEW fun, \A x \in S : fun[x] \in Int
  PROVE  SumFunctionOnSet(fun, S) \in Int
<1>1. \A s \in SUBSET S : IsFiniteSet(s) /\ Cardinality(s) \in Nat
  BY FS_Subset, FS_CardinalityType
<1> DEFINE Typed == {k \in Nat : \A s \in SUBSET S : Cardinality(s) < k => SumFunctionOnSet(fun, s) \in Int}
<1>2. Typed = Nat
  <2>1. 0 \in Typed
    BY <1>1
  <2>2. ASSUME NEW k \in Typed PROVE k + 1 \in Typed
    <3>1. ASSUME NEW s \in SUBSET S, Cardinality(s) < k + 1
          PROVE  SumFunctionOnSet(fun, s) \in Int
      <4>1. CASE s = {}
        BY <4>1, SumOfNone
      <4>2. CASE s # {}
        <5>1. One(s) \in S /\ s \ {One(s)} \in SUBSET S /\ Cardinality(s \ {One(s)}) < k
          BY <3>1, <4>2, <1>1, OneIsIn
        <5>2. SumFunctionOnSet(fun, s \ {One(s)}) \in Int
          BY <5>1
        <5>3. SumFunctionOnSet(fun, s) = fun[One(s)] + SumFunctionOnSet(fun, s \ {One(s)})
          BY <1>1, <4>2, SumByOne
        <5> QED BY <5>1, <5>2, <5>3
      <4> QED BY <4>1, <4>2
    <3> QED BY <3>1
  <2> QED BY <2>1, <2>2, NatsFromZero
<1>3. Cardinality(S) + 1 \in Typed
  <2>1. Cardinality(S) + 1 \in Nat
    BY <1>1
  <2> QED BY <1>2, <2>1, Zenon
<1> QED BY <1>1, <1>3

\* Any element may be taken out of a sum.
LEMMA SumByAny ==
  ASSUME NEW S, IsFiniteSet(S), NEW fun, \A x \in S : fun[x] \in Int, NEW a \in S
  PROVE  SumFunctionOnSet(fun, S) = fun[a] + SumFunctionOnSet(fun, S \ {a})
<1>1. \A s \in SUBSET S : IsFiniteSet(s) /\ Cardinality(s) \in Nat
  BY FS_Subset, FS_CardinalityType
<1> DEFINE Out(s, x) == SumFunctionOnSet(fun, s) = fun[x] + SumFunctionOnSet(fun, s \ {x})
           AnyOne == {k \in Nat : \A s \in SUBSET S : Cardinality(s) < k => \A x \in s : Out(s, x)}
<1>2. AnyOne = Nat
  <2>1. 0 \in AnyOne
    BY <1>1
  <2>2. ASSUME NEW k \in AnyOne PROVE k + 1 \in AnyOne
    <3>1. ASSUME NEW s \in SUBSET S, Cardinality(s) < k + 1, NEW x \in s
          PROVE  Out(s, x)
      <4> DEFINE c == One(s)
                 both == (s \ {c}) \ {x}
      <4>1. c \in s /\ s \ {c} \in SUBSET S /\ Cardinality(s \ {c}) < k /\ s \ {x} \in SUBSET S
        BY <3>1, <1>1, OneIsIn
      <4>2. Cardinality(s \ {x}) < k
        BY <3>1, <1>1, FS_RemoveElement
      <4>3. Out(s, c)
        BY <1>1, SumByOne
      <4> HIDE DEF c
      <4>4. CASE x = c
        BY <4>3, <4>4
      <4>5. CASE x # c
        <5>1. Out(s \ {c}, x) /\ Out(s \ {x}, c)
          BY <4>1, <4>2, <4>5
        <5>2. (s \ {x}) \ {c} = both
          OBVIOUS
        <5>3. SumFunctionOnSet(fun, both) \in Int
          BY <1>1, SumIsInt
        <5>4. fun[x] \in Int /\ fun[c] \in Int
          BY <4>1
        <5> HIDE DEF both
        <5>5. /\ SumFunctionOnSet(fun, s) = fun[c] + SumFunctionOnSet(fun, s \ {c})
              /\ SumFunctionOnSet(fun, s \ {c}) = fun[x] + SumFunctionOnSet(fun, both)
              /\ SumFunctionOnSet(fun, s \ {x}) = fun[c] + SumFunctionOnSet(fun, both)
          BY <4>3, <5>1, <5>2 DEF both
        <5> QED BY <5>3, <5>4, <5>5
      <4> QED BY <4>4, <4>5
    <3> QED BY <3>1
  <2> QED BY <2>1, <2>2, NatsFromZero
<1>3. Cardinality(S) + 1 \in AnyOne
  <2>1. Cardinality(S) + 1 \in Nat
    BY <1>1
  <2> QED BY <1>2, <2>1, Zenon
<1> QED BY <1>1, <1>3

\* A sum of naturals.
LEMMA SumIsNat ==
  ASSUME NEW S, IsFiniteSet(S), NEW fun, \A x \in S : fun[x] \in Nat
  PROVE  SumFunctionOnSet(fun, S) \in Nat
<1>1. \A s \in SUBSET S : IsFiniteSet(s) /\ Cardinality(s) \in Nat
  BY FS_Subset, FS_CardinalityType
<1> DEFINE Typed == {k \in Nat : \A s \in SUBSET S : Cardinality(s) < k => SumFunctionOnSet(fun, s) \in Nat}
<1>2. Typed = Nat
  <2>1. 0 \in Typed
    BY <1>1
  <2>2. ASSUME NEW k \in Typed PROVE k + 1 \in Typed
    <3>1. ASSUME NEW s \in SUBSET S, Cardinality(s) < k + 1
          PROVE  SumFunctionOnSet(fun, s) \in Nat
      <4>1. CASE s = {}
        BY <4>1, SumOfNone
      <4>2. CASE s # {}
        <5>1. One(s) \in S /\ s \ {One(s)} \in SUBSET S /\ Cardinality(s \ {One(s)}) < k
          BY <3>1, <4>2, <1>1, OneIsIn
        <5>2. SumFunctionOnSet(fun, s \ {One(s)}) \in Nat
          BY <5>1
        <5>3. SumFunctionOnSet(fun, s) = fun[One(s)] + SumFunctionOnSet(fun, s \ {One(s)})
          BY <1>1, <4>2, SumByOne
        <5> QED BY <5>1, <5>2, <5>3
      <4> QED BY <4>1, <4>2
    <3> QED BY <3>1
  <2> QED BY <2>1, <2>2, NatsFromZero
<1>3. Cardinality(S) + 1 \in Typed
  <2>1. Cardinality(S) + 1 \in Nat
    BY <1>1
  <2> HIDE DEF Typed
  <2> QED BY <1>2, <2>1
<1> QED BY <1>1, <1>3

\* The sum of what is the sum of two, element by element.
LEMMA SumPlus ==
  ASSUME NEW S, IsFiniteSet(S), NEW f, NEW g, NEW h,
         \A x \in S : f[x] \in Int /\ g[x] \in Int /\ h[x] = f[x] + g[x]
  PROVE  SumFunctionOnSet(h, S) = SumFunctionOnSet(f, S) + SumFunctionOnSet(g, S)
<1>1. \A s \in SUBSET S : IsFiniteSet(s) /\ Cardinality(s) \in Nat
  BY FS_Subset, FS_CardinalityType
<1> DEFINE Agrees3(s) == SumFunctionOnSet(h, s) = SumFunctionOnSet(f, s) + SumFunctionOnSet(g, s)
           Both == {k \in Nat : \A s \in SUBSET S : Cardinality(s) < k => Agrees3(s)}
<1>2. Both = Nat
  <2>1. 0 \in Both
    BY <1>1
  <2>2. ASSUME NEW k \in Both PROVE k + 1 \in Both
    <3>1. ASSUME NEW s \in SUBSET S, Cardinality(s) < k + 1
          PROVE  Agrees3(s)
      <4>1. CASE s = {}
        BY <4>1, SumOfNone
      <4>2. CASE s # {}
        <5> DEFINE c == One(s)
                   r == s \ {c}
        <5>0. c \in s /\ r \in SUBSET S /\ Cardinality(s) \in Nat /\ Cardinality(r) = Cardinality(s) - 1
          BY <4>2, OneIsIn, Zenon
        <5>1. c \in S /\ r \in SUBSET S /\ Cardinality(r) < k
          <6> HIDE DEF c, r
          <6> QED BY <3>1, <5>0
        <5>2. Agrees3(r)
          BY <5>1
        <5>3. /\ SumFunctionOnSet(f, s) = f[c] + SumFunctionOnSet(f, r)
              /\ SumFunctionOnSet(g, s) = g[c] + SumFunctionOnSet(g, r)
              /\ SumFunctionOnSet(h, s) = h[c] + SumFunctionOnSet(h, r)
          BY <1>1, <4>2, SumByOne
        <5>4. SumFunctionOnSet(f, r) \in Int /\ SumFunctionOnSet(g, r) \in Int
          <6>1. IsFiniteSet(r) /\ \A x \in r : f[x] \in Int /\ g[x] \in Int
            BY <1>1, <5>1
          <6> QED BY <6>1, SumIsInt
        <5>5. h[c] = f[c] + g[c] /\ f[c] \in Int /\ g[c] \in Int
          BY <5>1
        <5> HIDE DEF c, r
        <5> QED BY <5>2, <5>3, <5>4, <5>5
      <4> QED BY <4>1, <4>2
    <3> QED BY <3>1
  <2> QED BY <2>1, <2>2, NatsFromZero
<1>3. Cardinality(S) + 1 \in Both
  <2>1. Cardinality(S) + 1 \in Nat
    BY <1>1
  <2> QED BY <1>2, <2>1, Zenon
<1> QED BY <1>1, <1>3

LEMMA SumOfZeros ==
  ASSUME NEW S, IsFiniteSet(S), NEW f, \A x \in S : f[x] = 0
  PROVE  SumFunctionOnSet(f, S) = 0
<1>1. \A x \in S : f[x] \in Int /\ f[x] = f[x] + f[x]
  OBVIOUS
<1> DEFINE sum == SumFunctionOnSet(f, S)
<1>2. sum = sum + sum /\ sum \in Int
  BY <1>1, SumPlus, SumIsInt
<1> HIDE DEF sum
<1>3. sum = 0
  BY <1>2
<1> QED BY <1>3 DEF sum

LEMMA SumOfSame ==
  ASSUME NEW S, IsFiniteSet(S), NEW f, NEW g, \A x \in S : f[x] \in Int /\ g[x] = f[x]
  PROVE  SumFunctionOnSet(g, S) = SumFunctionOnSet(f, S)
<1> DEFINE z == [x \in S |-> 0]
<1>1. \A x \in S : z[x] = 0 /\ f[x] \in Int /\ z[x] \in Int /\ g[x] = f[x] + z[x]
  OBVIOUS
<1> HIDE DEF z
<1>2. SumFunctionOnSet(z, S) = 0 /\ SumFunctionOnSet(f, S) \in Int
  BY <1>1, SumOfZeros, SumIsInt
<1>3. SumFunctionOnSet(g, S) = SumFunctionOnSet(f, S) + SumFunctionOnSet(z, S)
  BY <1>1, SumPlus
<1> QED BY <1>2, <1>3

\* One summand changes.
LEMMA SumChanges ==
  ASSUME NEW S, IsFiniteSet(S), NEW a \in S, NEW f, NEW g,
         \A x \in S : f[x] \in Int /\ g[x] \in Int /\ (x # a => g[x] = f[x])
  PROVE  /\ SumFunctionOnSet(f, S) \in Int
         /\ SumFunctionOnSet(g, S) = SumFunctionOnSet(f, S) + (g[a] - f[a])
<1> DEFINE R == S \ {a}
<1>1. IsFiniteSet(R) /\ \A x \in R : f[x] \in Int /\ g[x] = f[x]
  BY FS_Subset
<1>2. /\ SumFunctionOnSet(f, S) = f[a] + SumFunctionOnSet(f, R)
      /\ SumFunctionOnSet(g, S) = g[a] + SumFunctionOnSet(g, R)
  BY SumByAny
<1> HIDE DEF R
<1>3. SumFunctionOnSet(g, R) = SumFunctionOnSet(f, R) /\ SumFunctionOnSet(f, R) \in Int
  BY <1>1, SumOfSame, SumIsInt
<1>4. f[a] \in Int /\ g[a] \in Int
  OBVIOUS
<1> QED BY <1>2, <1>3, <1>4

----------------------------------------------------------------------------
(* What a pass of Jev questions is billed: the money is where the calls    *)
(* hold it until it is handed up, and no provider is asked too often.      *)

\* What a call's lists hold of answered requests, and of the ones that were lost.
Pocket(c) == receipt[c].got + held[c].got + singles[c].got
Owed(c)   == receipt[c].lost + held[c].lost + singles[c].lost + usage[c].lost + carried[c]

\* A call that is not under way holds nothing but its batch's list; one that is not
\* split has no singles and carries nothing.
Quiet(c) ==
  /\ ~InCall(c) => held[c] = Nothing /\ singles[c] = Nothing /\ usage[c].lost = 0 /\ carried[c] = 0
  /\ ~split[c] => singles[c] = Nothing /\ carried[c] = 0

\* Requests sent and questions left, against the attempts used: each question
\* answered has used up one request that was no repeat.
Counts(c) ==
  /\ \A p \in Providers : sent[c][p] <= Retries + QuestionsOf[c]
  /\ pc[c] = "idle" => \A p \in Providers : sent[c][p] = 0
  /\ client[c] = "primary" => sent[c]["backup"] = 0
  /\ todo[c] <= QuestionsOf[c]
  /\ InCall(c) => /\ todo[c] >= 1
                  /\ sent[c][client[c]] + todo[c] <= start[c] + usage[c].requests + QuestionsOf[c]
  /\ pc[c] = "asking" => start[c] + usage[c].requests <= Retries
  /\ pc[c] = "flying" => usage[c].requests >= 1 /\ start[c] + usage[c].requests <= Retries + 1

\* Every unit the providers may bill is on the ledger, among what the answered
\* batches cost, or in the pocket of a call; short only by what a call waived.
InPockets == SumFunctionOnSet([c \in Calls |-> Pocket(c)], Calls)
StillOwed == SumFunctionOnSet([c \in Calls |-> Owed(c)], Calls)
MoneyKept ==
  /\ billed.got = ledger.got + paid.got + InPockets
  /\ ledger.lost + paid.lost + StillOwed <= billed.lost
  /\ (\A c \in Calls : ~waived[c]) => ledger.lost + paid.lost + StillOwed = billed.lost

\* The money is where the calls are, a call that is over holds none of it, and a
\* pass that is over has handed all of it to the ledger.
JevInv ==
  /\ TypeOK /\ MoneyKept
  /\ \A c \in Calls : Quiet(c) /\ Counts(c)
  /\ pass = "over" => paid = Nothing /\ \A c \in Calls : ~InCall(c) /\ receipt[c] = Nothing

LEMMA ReceiptsAdd ==
  /\ Nothing \in Receipts /\ Nothing.got = 0 /\ Nothing.lost = 0
  /\ \A n \in Nat : Lost(n) \in Receipts /\ Lost(n).got = 0 /\ Lost(n).lost = n
  /\ \A a \in Receipts, b \in Receipts :
       Plus(a, b) \in Receipts /\ Plus(a, b).got = a.got + b.got /\ Plus(a, b).lost = a.lost + b.lost
  /\ \A a \in Receipts : a.got \in Nat /\ a.lost \in Nat
BY DEF Nothing, Receipts, Lost, Plus

\* What the pockets hold are naturals.
LEMMA PocketsAreNat ==
  ASSUME TypeOK
  PROVE  /\ \A c \in Calls : Pocket(c) \in Nat /\ Owed(c) \in Nat
         /\ InPockets \in Nat /\ StillOwed \in Nat
<1>1. \A c \in Calls : Pocket(c) \in Nat /\ Owed(c) \in Nat
  <2> SUFFICES ASSUME NEW c \in Calls PROVE Pocket(c) \in Nat /\ Owed(c) \in Nat
    OBVIOUS
  <2>1. receipt[c] \in Receipts /\ held[c] \in Receipts /\ singles[c] \in Receipts /\ usage[c].lost \in Nat /\ carried[c] \in Nat
    BY DEF TypeOK
  <2> QED BY <2>1, ReceiptsAdd DEF Pocket, Owed
<1> DEFINE f == [c \in Calls |-> Pocket(c)]
           g == [c \in Calls |-> Owed(c)]
<1>2. \A c \in Calls : f[c] \in Nat /\ g[c] \in Nat
  BY <1>1
<1> HIDE DEF f, g
<1>3. SumFunctionOnSet(f, Calls) \in Nat /\ SumFunctionOnSet(g, Calls) \in Nat
  BY <1>2, SumIsNat, JevAssumption
<1> QED BY <1>1, <1>3 DEF f, g, InPockets, StillOwed

LEMMA JevBegins == Init => JevInv
<1> SUFFICES ASSUME Init PROVE JevInv
  OBVIOUS
<1>1. TypeOK
  <2>1. ledger \in Receipts /\ billed \in Receipts
    BY JevAssumption DEF Init, Receipts
  <2>2. NoUsage \in [requests : 0..Retries + 1, fives : Nat, lost : Nat]
    BY JevAssumption DEF NoUsage
  <2>3. [c \in Calls |-> [p \in Providers |-> 0]] \in [Calls -> [Providers -> Nat]]
    OBVIOUS
  <2>4. todo \in [Calls -> Nat]
    BY JevAssumption DEF Init
  <2>5. /\ pc \in [Calls -> {"idle", "asking", "flying", "ok", "failed", "dropped"}]
        /\ client \in [Calls -> Providers] /\ split \in [Calls -> BOOLEAN] /\ waived \in [Calls -> BOOLEAN]
    BY DEF Init, Providers
  <2>6. start \in [Calls -> 0..Retries] /\ usage \in [Calls -> [requests : 0..Retries + 1, fives : Nat, lost : Nat]]
        /\ carried \in [Calls -> Nat] /\ sent \in [Calls -> [Providers -> Nat]]
    BY <2>2, <2>3, JevAssumption DEF Init
  <2>7. singles \in [Calls -> Receipts] /\ held \in [Calls -> Receipts] /\ receipt \in [Calls -> Receipts] /\ paid \in Receipts
    BY ReceiptsAdd DEF Init
  <2>8. pass \in {"new", "open", "over", "refused"} /\ onBackup \in BOOLEAN
    BY DEF Init
  <2> QED BY <2>1, <2>4, <2>5, <2>6, <2>7, <2>8 DEF TypeOK
<1>2. ASSUME NEW c \in Calls PROVE Quiet(c) /\ Counts(c) /\ Pocket(c) = 0 /\ Owed(c) = 0
  <2>1. /\ pc[c] = "idle" /\ client[c] = "primary" /\ ~split[c] /\ todo[c] = QuestionsOf[c] /\ start[c] = 0
        /\ usage[c].lost = 0 /\ carried[c] = 0 /\ singles[c] = Nothing /\ held[c] = Nothing /\ receipt[c] = Nothing
        /\ \A p \in Providers : sent[c][p] = 0
    BY DEF Init, NoUsage
  <2>2. QuestionsOf[c] \in Nat /\ Retries \in Nat
    BY JevAssumption
  <2> QED BY <2>1, <2>2, ReceiptsAdd DEF Quiet, Counts, InCall, Pocket, Owed, Providers
<1>3. InPockets = 0 /\ StillOwed = 0
  <2> DEFINE f == [c \in Calls |-> Pocket(c)]
             g == [c \in Calls |-> Owed(c)]
  <2>1. \A c \in Calls : f[c] = 0 /\ g[c] = 0
    BY <1>2
  <2> HIDE DEF f, g
  <2>2. SumFunctionOnSet(f, Calls) = 0 /\ SumFunctionOnSet(g, Calls) = 0
    BY <2>1, SumOfZeros, JevAssumption
  <2> QED BY <2>2 DEF f, g, InPockets, StillOwed
<1>4. MoneyKept
  <2>1. billed = ledger /\ paid = Nothing
    BY DEF Init
  <2>2. ledger.got \in Nat /\ ledger.lost \in Nat
    BY <1>1, ReceiptsAdd DEF TypeOK
  <2> QED BY <1>3, <2>1, <2>2, ReceiptsAdd DEF MoneyKept
<1> QED BY <1>1, <1>2, <1>4 DEF JevInv, Init

\* A step of one call leaves the others as they are.
Only(c) == \A d \in Calls \ {c} :
  /\ pc'[d] = pc[d] /\ client'[d] = client[d] /\ split'[d] = split[d] /\ todo'[d] = todo[d]
  /\ start'[d] = start[d] /\ usage'[d] = usage[d] /\ carried'[d] = carried[d] /\ singles'[d] = singles[d]
  /\ held'[d] = held[d] /\ receipt'[d] = receipt[d] /\ sent'[d] = sent[d] /\ waived'[d] = waived[d]

\* What it takes for the step to keep the money.
PaysOut(c) ==
  /\ paid'.got + Pocket(c)' + billed.got = paid.got + Pocket(c) + billed'.got
  /\ paid'.lost + Owed(c)' + billed.lost <= paid.lost + Owed(c) + billed'.lost
  /\ ~waived'[c] => paid'.lost + Owed(c)' + billed.lost = paid.lost + Owed(c) + billed'.lost
  /\ waived[c] => waived'[c]

LEMMA CallKeeps ==
  ASSUME JevInv, TypeOK', NEW c \in Calls, Only(c), Quiet(c)', Counts(c)', PaysOut(c),
         ledger' = ledger, pass = "open", pass' = "open"
  PROVE  JevInv'
<1>1. ASSUME NEW d \in Calls, d # c
      PROVE  Quiet(d)' /\ Counts(d)' /\ Pocket(d)' = Pocket(d) /\ Owed(d)' = Owed(d) /\ waived'[d] = waived[d]
  <2>1. /\ pc'[d] = pc[d] /\ client'[d] = client[d] /\ split'[d] = split[d] /\ todo'[d] = todo[d]
        /\ start'[d] = start[d] /\ usage'[d] = usage[d] /\ carried'[d] = carried[d] /\ singles'[d] = singles[d]
        /\ held'[d] = held[d] /\ receipt'[d] = receipt[d] /\ sent'[d] = sent[d] /\ waived'[d] = waived[d]
    BY <1>1 DEF Only
  <2>2. Quiet(d) /\ Counts(d)
    BY DEF JevInv
  <2>3. Quiet(d)'
    BY <2>1, <2>2 DEF Quiet, InCall
  <2>4. Counts(d)'
    BY <2>1, <2>2 DEF Counts, InCall
  <2> QED BY <2>1, <2>3, <2>4 DEF Pocket, Owed
<1>2. /\ \A d \in Calls : Pocket(d) \in Nat /\ Owed(d) \in Nat /\ Pocket(d)' \in Nat /\ Owed(d)' \in Nat
      /\ InPockets \in Nat /\ StillOwed \in Nat
  <2>1. TypeOK
    BY DEF JevInv
  <2>2. \A d \in Calls : Pocket(d)' \in Nat /\ Owed(d)' \in Nat
    <3> SUFFICES ASSUME NEW d \in Calls PROVE Pocket(d)' \in Nat /\ Owed(d)' \in Nat
      OBVIOUS
    <3>1. receipt'[d] \in Receipts /\ held'[d] \in Receipts /\ singles'[d] \in Receipts /\ usage'[d].lost \in Nat /\ carried'[d] \in Nat
      BY DEF TypeOK
    <3> QED BY <3>1, ReceiptsAdd DEF Pocket, Owed
  <2> QED BY <2>1, <2>2, PocketsAreNat
<1>3. InPockets' = InPockets + (Pocket(c)' - Pocket(c)) /\ StillOwed' = StillOwed + (Owed(c)' - Owed(c))
  <2> DEFINE f == [d \in Calls |-> Pocket(d)]
             f1 == [d \in Calls |-> Pocket(d)']
             g == [d \in Calls |-> Owed(d)]
             g1 == [d \in Calls |-> Owed(d)']
  <2>1. /\ \A d \in Calls : f[d] \in Int /\ f1[d] \in Int /\ (d # c => f1[d] = f[d])
        /\ \A d \in Calls : g[d] \in Int /\ g1[d] \in Int /\ (d # c => g1[d] = g[d])
    <3>1. \A d \in Calls : d # c => Pocket(d)' = Pocket(d) /\ Owed(d)' = Owed(d)
      BY <1>1
    <3> QED BY <1>2, <3>1
  <2>2. f[c] = Pocket(c) /\ f1[c] = Pocket(c)' /\ g[c] = Owed(c) /\ g1[c] = Owed(c)'
    OBVIOUS
  <2>3. /\ InPockets = SumFunctionOnSet(f, Calls) /\ InPockets' = SumFunctionOnSet(f1, Calls)
        /\ StillOwed = SumFunctionOnSet(g, Calls) /\ StillOwed' = SumFunctionOnSet(g1, Calls)
    BY DEF InPockets, StillOwed
  <2> HIDE DEF f, f1, g, g1
  <2>4. /\ SumFunctionOnSet(f1, Calls) = SumFunctionOnSet(f, Calls) + (f1[c] - f[c])
        /\ SumFunctionOnSet(g1, Calls) = SumFunctionOnSet(g, Calls) + (g1[c] - g[c])
    BY <2>1, SumChanges, JevAssumption
  <2> QED BY <2>2, <2>3, <2>4
<1>4. MoneyKept'
  <2>1. /\ ledger.got \in Nat /\ ledger.lost \in Nat /\ paid.got \in Nat /\ paid.lost \in Nat
        /\ billed.got \in Nat /\ billed.lost \in Nat /\ paid'.got \in Nat /\ paid'.lost \in Nat
        /\ billed'.got \in Nat /\ billed'.lost \in Nat
    BY ReceiptsAdd DEF JevInv, TypeOK
  <2>2. MoneyKept
    BY DEF JevInv
  <2>3. Pocket(c) \in Nat /\ Owed(c) \in Nat /\ Pocket(c)' \in Nat /\ Owed(c)' \in Nat
    BY <1>2
  <2>0. InPockets \in Nat /\ StillOwed \in Nat /\ ledger'.got = ledger.got /\ ledger'.lost = ledger.lost
    BY <1>2
  <2>4. billed'.got = ledger'.got + paid'.got + InPockets'
    <3>1. /\ billed.got = ledger.got + paid.got + InPockets
          /\ paid'.got + Pocket(c)' + billed.got = paid.got + Pocket(c) + billed'.got
      BY <2>2 DEF MoneyKept, PaysOut
    <3> QED BY <1>3, <2>0, <2>1, <2>3, <3>1
  <2>5. ledger'.lost + paid'.lost + StillOwed' <= billed'.lost
    <3>1. /\ ledger.lost + paid.lost + StillOwed <= billed.lost
          /\ paid'.lost + Owed(c)' + billed.lost <= paid.lost + Owed(c) + billed'.lost
      BY <2>2 DEF MoneyKept, PaysOut
    <3> QED BY <1>3, <2>0, <2>1, <2>3, <3>1
  <2>6. ASSUME \A d \in Calls : ~waived'[d]
        PROVE  ledger'.lost + paid'.lost + StillOwed' = billed'.lost
    <3>1. \A d \in Calls : ~waived[d]
      BY <1>1, <2>6 DEF PaysOut
    <3>2. ledger.lost + paid.lost + StillOwed = billed.lost
      BY <2>2, <3>1 DEF MoneyKept
    <3>3. paid'.lost + Owed(c)' + billed.lost = paid.lost + Owed(c) + billed'.lost
      BY <2>6 DEF PaysOut
    <3>4. StillOwed' = StillOwed + (Owed(c)' - Owed(c))
      BY <1>3
    <3> QED BY <2>0, <2>1, <2>3, <3>2, <3>3, <3>4
  <2> QED BY <2>4, <2>5, <2>6 DEF MoneyKept
<1>5. \A d \in Calls : Quiet(d)' /\ Counts(d)'
  BY <1>1
<1> QED BY <1>4, <1>5 DEF JevInv

\* The parts of the type that a step of one call touches.
CallTyped(c) ==
  /\ pc'[c] \in {"idle", "asking", "flying", "ok", "failed", "dropped"} /\ client'[c] \in Providers
  /\ split'[c] \in BOOLEAN /\ todo'[c] \in Nat /\ start'[c] \in 0..Retries
  /\ usage'[c] \in [requests : 0..Retries + 1, fives : Nat, lost : Nat] /\ carried'[c] \in Nat
  /\ singles'[c] \in Receipts /\ held'[c] \in Receipts /\ receipt'[c] \in Receipts
  /\ sent'[c] \in [Providers -> Nat] /\ waived'[c] \in BOOLEAN

\* Each variable is the one it was, but for this call.
Touches(c) ==
  /\ pc' = [pc EXCEPT ![c] = pc'[c]] /\ client' = [client EXCEPT ![c] = client'[c]]
  /\ split' = [split EXCEPT ![c] = split'[c]] /\ todo' = [todo EXCEPT ![c] = todo'[c]]
  /\ start' = [start EXCEPT ![c] = start'[c]] /\ usage' = [usage EXCEPT ![c] = usage'[c]]
  /\ carried' = [carried EXCEPT ![c] = carried'[c]] /\ singles' = [singles EXCEPT ![c] = singles'[c]]
  /\ held' = [held EXCEPT ![c] = held'[c]] /\ receipt' = [receipt EXCEPT ![c] = receipt'[c]]
  /\ sent' = [sent EXCEPT ![c] = sent'[c]] /\ waived' = [waived EXCEPT ![c] = waived'[c]]

LEMMA TouchesOnly ==
  ASSUME TypeOK, NEW c \in Calls, Touches(c), CallTyped(c), pass' = "open", ledger' = ledger,
         paid' \in Receipts, billed' \in Receipts, onBackup' \in BOOLEAN
  PROVE  TypeOK' /\ Only(c)
<1>1. Only(c)
  BY DEF Touches, TypeOK, Only
<1>2. /\ pc' \in [Calls -> {"idle", "asking", "flying", "ok", "failed", "dropped"}]
      /\ client' \in [Calls -> Providers] /\ split' \in [Calls -> BOOLEAN]
  BY DEF Touches, TypeOK, CallTyped
<1>3. todo' \in [Calls -> Nat] /\ start' \in [Calls -> 0..Retries] /\ carried' \in [Calls -> Nat]
  BY DEF Touches, TypeOK, CallTyped
<1>4. usage' \in [Calls -> [requests : 0..Retries + 1, fives : Nat, lost : Nat]]
  BY DEF Touches, TypeOK, CallTyped
<1>5. singles' \in [Calls -> Receipts] /\ held' \in [Calls -> Receipts] /\ receipt' \in [Calls -> Receipts]
  BY DEF Touches, TypeOK, CallTyped
<1>6. sent' \in [Calls -> [Providers -> Nat]] /\ waived' \in [Calls -> BOOLEAN]
  BY DEF Touches, TypeOK, CallTyped
<1> QED BY <1>1, <1>2, <1>3, <1>4, <1>5, <1>6 DEF TypeOK

\* What is known of a call, and of what it is about to be set to.
Known(c) ==
  /\ Quiet(c) /\ Counts(c)
  /\ pc[c] \in {"idle", "asking", "flying", "ok", "failed", "dropped"} /\ client[c] \in Providers
  /\ split[c] \in BOOLEAN /\ todo[c] \in Nat /\ start[c] \in 0..Retries
  /\ usage[c] \in [requests : 0..Retries + 1, fives : Nat, lost : Nat] /\ carried[c] \in Nat
  /\ singles[c] \in Receipts /\ held[c] \in Receipts /\ receipt[c] \in Receipts
  /\ sent[c] \in [Providers -> Nat] /\ waived[c] \in BOOLEAN
  /\ QuestionsOf[c] \in Nat /\ QuestionsOf[c] >= 1 /\ Retries \in Nat /\ Retries >= 1
  /\ ledger \in Receipts /\ paid \in Receipts /\ billed \in Receipts /\ onBackup \in BOOLEAN
  /\ Nothing \in Receipts /\ Nothing.got = 0 /\ Nothing.lost = 0
  /\ NoUsage \in [requests : 0..Retries + 1, fives : Nat, lost : Nat]
  /\ NoUsage.requests = 0 /\ NoUsage.fives = 0 /\ NoUsage.lost = 0

LEMMA CallKnown ==
  ASSUME JevInv, NEW c \in Calls
  PROVE  TypeOK /\ Known(c)
<1>1. NoUsage \in [requests : 0..Retries + 1, fives : Nat, lost : Nat]
      /\ NoUsage.requests = 0 /\ NoUsage.fives = 0 /\ NoUsage.lost = 0
  BY JevAssumption DEF NoUsage
<1> QED BY <1>1, JevAssumption, ReceiptsAdd DEF JevInv, TypeOK, Known

\* Each variable of the call after it was asked from a fresh start, and after its end.
IsAsked(c, provider, n) ==
  /\ pc' = [pc EXCEPT ![c] = "asking"] /\ pc'[c] = "asking"
  /\ client' = [client EXCEPT ![c] = provider] /\ client'[c] = provider
  /\ todo' = [todo EXCEPT ![c] = n] /\ todo'[c] = n
  /\ split' = [split EXCEPT ![c] = FALSE] /\ split'[c] = FALSE
  /\ start' = [start EXCEPT ![c] = 0] /\ start'[c] = 0
  /\ usage' = [usage EXCEPT ![c] = NoUsage] /\ usage'[c] = NoUsage
  /\ carried' = [carried EXCEPT ![c] = 0] /\ carried'[c] = 0
  /\ singles' = [singles EXCEPT ![c] = Nothing] /\ singles'[c] = Nothing
IsEnded(c, how) ==
  /\ pc' = [pc EXCEPT ![c] = how] /\ pc'[c] = how
  /\ held' = [held EXCEPT ![c] = Nothing] /\ held'[c] = Nothing
  /\ singles' = [singles EXCEPT ![c] = Nothing] /\ singles'[c] = Nothing
  /\ usage' = [usage EXCEPT ![c] = NoUsage] /\ usage'[c] = NoUsage
  /\ carried' = [carried EXCEPT ![c] = 0] /\ carried'[c] = 0
  /\ UNCHANGED <<client, split, start>>

LEMMA AskFromDoes ==
  ASSUME TypeOK, NEW c \in Calls, NEW provider, NEW n, AskFrom(c, provider, n)
  PROVE  IsAsked(c, provider, n)
BY DEF AskFrom, TypeOK, IsAsked

LEMMA EndsDoes ==
  ASSUME TypeOK, NEW c \in Calls, NEW how, Ends(c, how)
  PROVE  IsEnded(c, how)
BY DEF Ends, TypeOK, IsEnded

LEMMA BeginKeeps ==
  ASSUME JevInv, NEW c \in Calls, pass = "open", Begin(c)
  PROVE  JevInv'
<1>1. PICK provider \in Providers : pc[c] = "idle" /\ AskFrom(c, provider, QuestionsOf[c])
  BY DEF Begin, Providers
<1>2. UNCHANGED <<pass, ledger, paid, onBackup, billed, held, receipt, sent, waived>>
  BY DEF Begin
<1>k. TypeOK /\ Known(c) /\ IsAsked(c, provider, QuestionsOf[c])
  BY <1>1, CallKnown, AskFromDoes
<1>3. Touches(c)
  BY <1>2, <1>k DEF Touches, TypeOK, IsAsked
<1>4. CallTyped(c)
  <2>1. split'[c] \in BOOLEAN /\ waived'[c] \in BOOLEAN
    BY <1>2, <1>k DEF Known, IsAsked
  <2>2. /\ pc'[c] = "asking" /\ client'[c] \in Providers /\ todo'[c] \in Nat /\ start'[c] \in 0..Retries
        /\ carried'[c] \in Nat
    BY <1>k DEF Known, IsAsked
  <2>3. usage'[c] \in [requests : 0..Retries + 1, fives : Nat, lost : Nat]
    BY <1>k DEF Known, IsAsked
  <2>4. singles'[c] \in Receipts /\ held'[c] \in Receipts /\ receipt'[c] \in Receipts /\ sent'[c] \in [Providers -> Nat]
    BY <1>2, <1>k DEF Known, IsAsked
  <2> QED BY <2>1, <2>2, <2>3, <2>4 DEF CallTyped
<1>5. Quiet(c)'
  BY <1>2, <1>k DEF Quiet, InCall, IsAsked
<1>6. Counts(c)'
  <2>1. \A p \in Providers : sent'[c][p] = 0
    BY <1>1, <1>2, <1>k DEF Known, Counts
  <2> QED BY <2>1, <1>k DEF Counts, InCall, Providers, Known, IsAsked
<1>7. PaysOut(c)
  <2>1. held[c] = Nothing /\ singles[c] = Nothing /\ usage[c].lost = 0 /\ carried[c] = 0
    BY <1>1, <1>k DEF Known, Quiet, InCall
  <2>2. Pocket(c)' = Pocket(c) /\ Owed(c)' = Owed(c)
    BY <1>2, <1>k, <2>1 DEF Known, IsAsked, Pocket, Owed
  <2>3. Pocket(c) \in Nat /\ Owed(c) \in Nat /\ paid.got \in Nat /\ paid.lost \in Nat /\ billed.got \in Nat /\ billed.lost \in Nat
    BY <1>k, PocketsAreNat, ReceiptsAdd DEF Known
  <2> QED BY <1>2, <2>2, <2>3 DEF PaysOut
<1>8. TypeOK' /\ Only(c)
  BY <1>2, <1>3, <1>4, <1>k, TouchesOnly DEF Known
<1> QED BY <1>2, <1>5, <1>6, <1>7, <1>8, CallKeeps

\* What an unfinished call hands up is what its lists hold.
LEMMA UnwoundHolds ==
  ASSUME NEW c \in Calls, Known(c), NEW keeping \in Receipts
  PROVE  /\ Unwound(c, keeping) \in Receipts
         /\ Unwound(c, keeping).got = held[c].got + singles[c].got + keeping.got
         /\ Unwound(c, keeping).lost = held[c].lost + singles[c].lost + keeping.lost
<1>1. held[c] \in Receipts /\ singles[c] \in Receipts /\ (~split[c] => singles[c] = Nothing)
  BY DEF Known, Quiet
<1>2. CASE split[c]
  <2>1. Unwound(c, keeping) = Plus(held[c], Plus(singles[c], keeping))
    BY <1>2 DEF Unwound
  <2>2. Plus(singles[c], keeping) \in Receipts /\ Plus(singles[c], keeping).got = singles[c].got + keeping.got
        /\ Plus(singles[c], keeping).lost = singles[c].lost + keeping.lost
    BY <1>1, ReceiptsAdd
  <2>3. /\ Unwound(c, keeping) \in Receipts
        /\ Unwound(c, keeping).got = held[c].got + Plus(singles[c], keeping).got
        /\ Unwound(c, keeping).lost = held[c].lost + Plus(singles[c], keeping).lost
    BY <1>1, <2>1, <2>2, ReceiptsAdd
  <2>4. /\ held[c].got \in Nat /\ held[c].lost \in Nat /\ singles[c].got \in Nat /\ singles[c].lost \in Nat
        /\ keeping.got \in Nat /\ keeping.lost \in Nat
    BY <1>1, ReceiptsAdd
  <2> QED BY <2>2, <2>3, <2>4
<1>3. CASE ~split[c]
  <2>1. Unwound(c, keeping) = Plus(held[c], keeping)
    BY <1>3 DEF Unwound
  <2>2. singles[c].got = 0 /\ singles[c].lost = 0
    BY <1>1, <1>3, ReceiptsAdd
  <2>3. /\ Unwound(c, keeping) \in Receipts /\ Unwound(c, keeping).got = held[c].got + keeping.got
        /\ Unwound(c, keeping).lost = held[c].lost + keeping.lost
    BY <1>1, <2>1, ReceiptsAdd
  <2>4. held[c].got \in Nat /\ held[c].lost \in Nat /\ keeping.got \in Nat /\ keeping.lost \in Nat
    BY <1>1, ReceiptsAdd
  <2> QED BY <2>2, <2>3, <2>4
<1> QED BY <1>2, <1>3

\* A failed call: the backup is asked, or the call is over; what it held goes up
\* with it, but for what it waives.
LEMMA PostFailsKeeps ==
  ASSUME JevInv, NEW c \in Calls, pass = "open", InCall(c), NEW u, NEW error, NEW keep \in BOOLEAN, NEW more \in Nat,
         u.lost = usage[c].lost + more, PostFails(c, u, error, keep),
         billed' \in Receipts, billed'.got = billed.got, billed'.lost = billed.lost + more
  PROVE  JevInv'
<1> DEFINE keeping == IF keep THEN Lost(u.lost) ELSE Nothing
           up == Unwound(c, keeping)
           moves == error \in {"exhausted", "rejected"} /\ HasBackup /\ client[c] = "primary"
<1>k. TypeOK /\ Known(c)
  BY CallKnown
<1>0. /\ receipt[c].got \in Nat /\ receipt[c].lost \in Nat /\ held[c].got \in Nat /\ held[c].lost \in Nat
      /\ singles[c].got \in Nat /\ singles[c].lost \in Nat /\ usage[c].lost \in Nat /\ carried[c] \in Nat /\ u.lost \in Nat
      /\ paid.got \in Nat /\ paid.lost \in Nat /\ billed.got \in Nat /\ billed.lost \in Nat /\ waived[c] \in BOOLEAN
  BY <1>k, ReceiptsAdd DEF Known
<1>1. keeping \in Receipts /\ keeping.got = 0 /\ keeping.lost = IF keep THEN u.lost ELSE 0
  BY <1>0, ReceiptsAdd
<1>2. up \in Receipts /\ up.got = held[c].got + singles[c].got /\ up.lost = held[c].lost + singles[c].lost + keeping.lost
  <2>1. /\ up \in Receipts /\ up.got = held[c].got + singles[c].got + keeping.got
        /\ up.lost = held[c].lost + singles[c].lost + keeping.lost
    BY <1>1, <1>k, UnwoundHolds
  <2> HIDE DEF up, keeping
  <2> QED BY <1>0, <1>1, <2>1
<1>3. /\ waived' = [waived EXCEPT ![c] = @ \/ carried[c] > 0 \/ (~keep /\ u.lost > 0)]
      /\ waived'[c] = (waived[c] \/ carried[c] > 0 \/ (~keep /\ u.lost > 0))
      /\ UNCHANGED <<pass, ledger, paid, sent>>
  BY <1>k DEF PostFails, TypeOK
<1>4. \/ /\ moves /\ onBackup' = TRUE
         /\ AskFrom(c, "backup", IF error = "rejected" THEN QuestionsOf[c] ELSE todo[c])
         /\ held' = [held EXCEPT ![c] = up] /\ held'[c] = up
         /\ UNCHANGED receipt
      \/ /\ Ends(c, "failed")
         /\ receipt' = [receipt EXCEPT ![c] = Plus(receipt[c], up)] /\ receipt'[c] = Plus(receipt[c], up)
         /\ UNCHANGED <<onBackup, todo>>
  BY <1>k DEF PostFails, TypeOK
<1> HIDE DEF up, keeping
<1>5. ASSUME Pocket(c)' = receipt[c].got + up.got, Owed(c)' = receipt[c].lost + up.lost
      PROVE  PaysOut(c)
  <2>1. paid'.got = paid.got /\ paid'.lost = paid.lost
    BY <1>3
  <2>2. Pocket(c) = receipt[c].got + held[c].got + singles[c].got
        /\ Owed(c) = receipt[c].lost + held[c].lost + singles[c].lost + usage[c].lost + carried[c]
    BY DEF Pocket, Owed
  <2>3. Pocket(c)' = Pocket(c) /\ Pocket(c) \in Nat
    BY <1>0, <1>2, <1>5, <2>2
  <2>4. Owed(c)' = receipt[c].lost + held[c].lost + singles[c].lost + keeping.lost
    BY <1>0, <1>1, <1>2, <1>5
  <2>5. keeping.lost \in Nat /\ keeping.lost <= usage[c].lost + more + carried[c]
    BY <1>0, <1>1
  <2>6. ~waived'[c] => keeping.lost = usage[c].lost + more + carried[c]
    <3>1. ~waived'[c] => carried[c] = 0 /\ (keep \/ u.lost = 0)
      <4>1. ~waived'[c] => ~(carried[c] > 0) /\ (keep \/ ~(u.lost > 0))
        BY <1>3, Zenon
      <4> QED BY <1>0, <4>1
    <3> QED BY <1>0, <1>1, <3>1
  <2>7. waived[c] => waived'[c]
    BY <1>3
  <2> QED BY <1>0, <2>1, <2>2, <2>3, <2>4, <2>5, <2>6, <2>7 DEF PaysOut
<1>6. CASE /\ moves /\ onBackup' = TRUE
           /\ AskFrom(c, "backup", IF error = "rejected" THEN QuestionsOf[c] ELSE todo[c])
           /\ held' = [held EXCEPT ![c] = up] /\ held'[c] = up
           /\ UNCHANGED receipt
  <2> DEFINE n == IF error = "rejected" THEN QuestionsOf[c] ELSE todo[c]
  <2>1. IsAsked(c, "backup", n)
    BY <1>6, <1>k, AskFromDoes
  <2>2. n \in Nat /\ n >= 1 /\ n <= QuestionsOf[c]
    BY <1>k DEF Known, Counts
  <2> HIDE DEF n
  <2>3. Touches(c)
    BY <1>3, <1>6, <1>k, <2>1 DEF Touches, TypeOK, IsAsked
  <2>4. CallTyped(c)
    <3>1. split'[c] \in BOOLEAN /\ waived'[c] \in BOOLEAN
      BY <1>3, <2>1 DEF IsAsked
    <3>2. /\ pc'[c] = "asking" /\ client'[c] \in Providers /\ todo'[c] \in Nat /\ start'[c] \in 0..Retries
          /\ carried'[c] \in Nat
      BY <1>k, <2>1, <2>2 DEF Known, IsAsked, Providers
    <3>3. usage'[c] \in [requests : 0..Retries + 1, fives : Nat, lost : Nat]
      BY <1>k, <2>1 DEF Known, IsAsked
    <3>4. singles'[c] \in Receipts /\ held'[c] \in Receipts /\ receipt'[c] \in Receipts /\ sent'[c] \in [Providers -> Nat]
      BY <1>2, <1>3, <1>6, <1>k, <2>1 DEF Known, IsAsked
    <3> QED BY <3>1, <3>2, <3>3, <3>4 DEF CallTyped
  <2>5. Quiet(c)'
    BY <2>1 DEF Quiet, InCall, IsAsked
  <2>6. Counts(c)'
    <3>1. sent'[c] = sent[c] /\ sent[c]["backup"] = 0 /\ \A p \in Providers : sent[c][p] <= Retries + QuestionsOf[c]
      BY <1>3, <1>6, <1>k DEF Known, Counts
    <3> QED BY <1>k, <2>1, <2>2, <3>1 DEF Counts, InCall, Known, IsAsked
  <2>7. PaysOut(c)
    <3>1. Pocket(c)' = receipt[c].got + up.got + 0 /\ Owed(c)' = receipt[c].lost + up.lost + 0 + 0 + 0
      BY <1>6, <1>k, <2>1 DEF Known, IsAsked, Pocket, Owed
    <3>2. up.got \in Nat /\ up.lost \in Nat
      BY <1>2, ReceiptsAdd
    <3> QED BY <1>0, <1>5, <3>1, <3>2
  <2>8. TypeOK' /\ Only(c)
    BY <1>3, <1>6, <1>k, <2>3, <2>4, TouchesOnly DEF Known
  <2> QED BY <1>3, <2>5, <2>6, <2>7, <2>8, CallKeeps
<1>7. CASE /\ Ends(c, "failed")
           /\ receipt' = [receipt EXCEPT ![c] = Plus(receipt[c], up)] /\ receipt'[c] = Plus(receipt[c], up)
           /\ UNCHANGED <<onBackup, todo>>
  <2>1. IsEnded(c, "failed")
    BY <1>7, <1>k, EndsDoes
  <2>2. Plus(receipt[c], up) \in Receipts /\ receipt'[c].got = receipt[c].got + up.got /\ receipt'[c].lost = receipt[c].lost + up.lost
    BY <1>2, <1>7, <1>k, ReceiptsAdd DEF Known
  <2>3. Touches(c)
    BY <1>3, <1>7, <1>k, <2>1 DEF Touches, TypeOK, IsEnded
  <2>4. CallTyped(c)
    <3>1. split'[c] \in BOOLEAN /\ waived'[c] \in BOOLEAN
      BY <1>3, <1>k, <2>1 DEF IsEnded, Known
    <3>2. /\ pc'[c] = "failed" /\ client'[c] \in Providers /\ todo'[c] \in Nat /\ start'[c] \in 0..Retries
          /\ carried'[c] \in Nat
      BY <1>7, <1>k, <2>1 DEF Known, IsEnded
    <3>3. usage'[c] \in [requests : 0..Retries + 1, fives : Nat, lost : Nat]
      BY <1>k, <2>1 DEF Known, IsEnded
    <3>4. singles'[c] \in Receipts /\ held'[c] \in Receipts /\ receipt'[c] \in Receipts /\ sent'[c] \in [Providers -> Nat]
      BY <1>3, <1>7, <1>k, <2>1, <2>2 DEF Known, IsEnded
    <3> QED BY <3>1, <3>2, <3>3, <3>4 DEF CallTyped
  <2>5. Quiet(c)'
    BY <1>k, <2>1 DEF Quiet, InCall, IsEnded, Known
  <2>6. Counts(c)'
    <3>1. sent'[c] = sent[c] /\ todo'[c] = todo[c] /\ client'[c] = client[c]
      BY <1>3, <1>7, <2>1 DEF IsEnded
    <3> QED BY <1>k, <2>1, <3>1 DEF Counts, InCall, Known, IsEnded
  <2>7. PaysOut(c)
    <3>1. /\ Pocket(c)' = receipt'[c].got + 0 + 0
          /\ Owed(c)' = receipt'[c].lost + 0 + 0 + 0 + 0
      BY <1>k, <2>1 DEF Known, IsEnded, Pocket, Owed
    <3>2. up.got \in Nat /\ up.lost \in Nat
      BY <1>2, ReceiptsAdd
    <3>3. Pocket(c)' = receipt[c].got + up.got /\ Owed(c)' = receipt[c].lost + up.lost
      BY <1>0, <2>2, <3>1, <3>2
    <3> QED BY <1>5, <3>3
  <2>8. TypeOK' /\ Only(c)
    BY <1>3, <1>7, <1>k, <2>3, <2>4, TouchesOnly DEF Known
  <2> QED BY <1>3, <2>5, <2>6, <2>7, <2>8, CallKeeps
<1> QED BY <1>4, <1>6, <1>7

LEMMA SendKeeps ==
  ASSUME JevInv, NEW c \in Calls, pass = "open", Send(c)
  PROVE  JevInv'
<1>k. TypeOK /\ Known(c)
  BY CallKnown
<1>1. /\ pc[c] = "asking" /\ pc' = [pc EXCEPT ![c] = "flying"] /\ pc'[c] = "flying"
      /\ UNCHANGED <<pass, ledger, paid, onBackup, billed, client, split, todo, start, carried, singles, held, receipt, waived>>
  BY <1>k DEF Send, TypeOK
<1>2. usage' = [usage EXCEPT ![c] = usage'[c]] /\ usage'[c] = [usage[c] EXCEPT !.requests = usage[c].requests + 1]
  BY <1>k DEF Send, TypeOK
<1>3. sent' = [sent EXCEPT ![c] = sent'[c]] /\ sent'[c] = [sent[c] EXCEPT ![client[c]] = sent[c][client[c]] + 1]
  BY <1>k DEF Send, TypeOK
<1>4. /\ start[c] \in Nat /\ usage[c].requests \in Nat /\ start[c] + usage[c].requests <= Retries /\ Retries \in Nat
      /\ todo[c] \in Nat /\ todo[c] >= 1 /\ QuestionsOf[c] \in Nat /\ sent[c][client[c]] \in Nat
      /\ sent[c][client[c]] + todo[c] <= start[c] + usage[c].requests + QuestionsOf[c]
  BY <1>1, <1>k DEF Known, Counts, InCall
<1>5. usage'[c].requests = usage[c].requests + 1 /\ usage'[c].lost = usage[c].lost
      /\ usage'[c] \in [requests : 0..Retries + 1, fives : Nat, lost : Nat]
  BY <1>2, <1>4, <1>k DEF Known
<1>6. /\ sent'[c] \in [Providers -> Nat] /\ sent'[c][client[c]] = sent[c][client[c]] + 1
      /\ \A p \in Providers : p # client[c] => sent'[c][p] = sent[c][p]
  BY <1>3, <1>4, <1>k DEF Known
<1>7. Touches(c)
  BY <1>1, <1>2, <1>3, <1>k DEF Touches, TypeOK
<1>8. CallTyped(c)
  BY <1>1, <1>5, <1>6, <1>k DEF CallTyped, Known
<1>9. Quiet(c)'
  BY <1>1, <1>k DEF Quiet, InCall, Known
<1>10. Counts(c)'
  <2>1. sent'[c][client[c]] + todo[c] <= start[c] + usage'[c].requests + QuestionsOf[c]
    BY <1>4, <1>5, <1>6
  <2>2. sent'[c][client[c]] <= Retries + QuestionsOf[c]
    BY <1>4, <1>6
  <2>3. \A p \in Providers : sent'[c][p] <= Retries + QuestionsOf[c]
    BY <1>6, <1>k, <2>2 DEF Known, Counts
  <2>4. client[c] = "primary" => sent'[c]["backup"] = 0
    BY <1>6, <1>k DEF Known, Counts, Providers
  <2>5. usage'[c].requests >= 1 /\ start[c] + usage'[c].requests <= Retries + 1
    BY <1>4, <1>5
  <2>6. client'[c] = client[c] /\ todo'[c] = todo[c] /\ start'[c] = start[c] /\ todo[c] <= QuestionsOf[c]
    BY <1>1, <1>k DEF Known, Counts
  <2> QED BY <1>1, <1>4, <2>1, <2>3, <2>4, <2>5, <2>6 DEF Counts, InCall
<1>11. PaysOut(c)
  <2>1. Pocket(c)' = Pocket(c) /\ Owed(c)' = Owed(c)
    BY <1>1, <1>5 DEF Pocket, Owed
  <2>2. Pocket(c) \in Nat /\ Owed(c) \in Nat /\ paid.got \in Nat /\ paid.lost \in Nat /\ billed.got \in Nat /\ billed.lost \in Nat
    BY <1>k, PocketsAreNat, ReceiptsAdd DEF Known
  <2> QED BY <1>1, <2>1, <2>2 DEF PaysOut
<1>12. TypeOK' /\ Only(c)
  BY <1>1, <1>7, <1>8, <1>k, TouchesOnly DEF Known
<1> QED BY <1>1, <1>9, <1>10, <1>11, <1>12, CallKeeps

\* A later question starts where the attempts of the one before it ended.
LEMMA StartsNext ==
  ASSUME NEW c \in Calls, Known(c), pc[c] = "flying"
  PROVE  NextStart(start[c], usage[c]) = start[c] + usage[c].requests - 1
<1> DEFINE n == start[c] + usage[c].requests - 1
<1>1. n \in Int /\ n <= Retries /\ Retries \in Int
  BY DEF Known, Counts
<1> HIDE DEF n
<1>2. Min({Retries, n}) = n
  <2>1. \A x \in {Retries, n} : n <= x
    BY <1>1
  <2>2. \A m \in {Retries, n} : (\A x \in {Retries, n} : m <= x) => m = n
    BY <1>1
  <2>3. \E m \in {Retries, n} : \A x \in {Retries, n} : m <= x
    BY <2>1
  <2> QED BY <2>2, <2>3, Zenon DEF Min
<1> QED BY <1>2 DEF n, NextStart

LEMMA AnsweredKeeps ==
  ASSUME JevInv, NEW c \in Calls, pass = "open", Answered(c)
  PROVE  JevInv'
<1> DEFINE line == AnswerLine(usage[c])
           mine == Plus(singles[c], line)
           all == Plus(held[c], Plus(mine, Lost(carried[c])))
<1>k. TypeOK /\ Known(c)
  BY CallKnown
<1>0. /\ receipt[c].got \in Nat /\ receipt[c].lost \in Nat /\ held[c].got \in Nat /\ held[c].lost \in Nat
      /\ singles[c].got \in Nat /\ singles[c].lost \in Nat /\ usage[c].lost \in Nat /\ carried[c] \in Nat
      /\ paid.got \in Nat /\ paid.lost \in Nat /\ billed.got \in Nat /\ billed.lost \in Nat
  BY <1>k, ReceiptsAdd DEF Known
<1>1. pc[c] = "flying" /\ UNCHANGED <<pass, ledger, onBackup, receipt, sent, waived>>
  BY DEF Answered
<1>2. billed' \in Receipts /\ billed'.got = billed.got + 1 /\ billed'.lost = billed.lost
  BY <1>0, <1>k DEF Answered, Known, Receipts
<1>3. mine \in Receipts /\ mine.got = singles[c].got + 1 /\ mine.lost = singles[c].lost + usage[c].lost
  <2>1. line \in Receipts /\ line.got = 1 /\ line.lost = usage[c].lost
    BY <1>0 DEF AnswerLine, Receipts
  <2> HIDE DEF line
  <2> QED BY <2>1, <1>k, ReceiptsAdd DEF Known
<1>4. /\ all \in Receipts /\ all.got = held[c].got + singles[c].got + 1
      /\ all.lost = held[c].lost + singles[c].lost + usage[c].lost + carried[c]
  <2> HIDE DEF mine
  <2> DEFINE rest == Plus(mine, Lost(carried[c]))
  <2>1. Lost(carried[c]) \in Receipts /\ Lost(carried[c]).got = 0 /\ Lost(carried[c]).lost = carried[c]
    BY <1>0, ReceiptsAdd
  <2>2. rest \in Receipts /\ rest.got = mine.got + Lost(carried[c]).got /\ rest.lost = mine.lost + Lost(carried[c]).lost
    BY <1>3, <2>1, ReceiptsAdd
  <2> HIDE DEF rest
  <2>3. Plus(held[c], rest) \in Receipts /\ Plus(held[c], rest).got = held[c].got + rest.got
        /\ Plus(held[c], rest).lost = held[c].lost + rest.lost
    BY <1>k, <2>2, ReceiptsAdd DEF Known
  <2>4. all = Plus(held[c], rest)
    BY DEF rest
  <2> HIDE DEF all
  <2> QED BY <1>0, <1>3, <2>1, <2>2, <2>3, <2>4
<1>5. /\ split[c] /\ todo[c] > 1 =>
         /\ pc' = [pc EXCEPT ![c] = "asking"] /\ pc'[c] = "asking"
         /\ singles' = [singles EXCEPT ![c] = mine] /\ singles'[c] = mine
         /\ todo' = [todo EXCEPT ![c] = todo[c] - 1] /\ todo'[c] = todo[c] - 1
         /\ start' = [start EXCEPT ![c] = NextStart(start[c], usage[c])] /\ start'[c] = NextStart(start[c], usage[c])
         /\ usage' = [usage EXCEPT ![c] = NoUsage] /\ usage'[c] = NoUsage
         /\ UNCHANGED <<paid, client, split, carried, held>>
      /\ ~(split[c] /\ todo[c] > 1) =>
         /\ Ends(c, "ok") /\ todo' = [todo EXCEPT ![c] = 0] /\ todo'[c] = 0 /\ paid' = Plus(paid, all)
  BY <1>k DEF Answered, TypeOK
<1> HIDE DEF all, mine, line
<1>6. CASE split[c] /\ todo[c] > 1
  <2> DEFINE s == NextStart(start[c], usage[c])
  <2>1. s = start[c] + usage[c].requests - 1 /\ s \in 0..Retries
    BY <1>1, <1>k, StartsNext DEF Known, Counts
  <2> HIDE DEF s
  <2>a. start' = [start EXCEPT ![c] = s] /\ start'[c] = s
    BY <1>5, <1>6 DEF s
  <2>2. Touches(c)
    BY <1>1, <1>5, <1>6, <1>k DEF Touches, TypeOK
  <2>3. CallTyped(c)
    <3>1. split'[c] \in BOOLEAN /\ waived'[c] \in BOOLEAN
      BY <1>1, <1>5, <1>6, <1>k DEF Known
    <3>2. /\ pc'[c] = "asking" /\ client'[c] \in Providers /\ todo'[c] \in Nat /\ start'[c] \in 0..Retries
          /\ carried'[c] \in Nat
      BY <1>5, <1>6, <1>k, <2>1, <2>a DEF Known
    <3>3. usage'[c] \in [requests : 0..Retries + 1, fives : Nat, lost : Nat]
      BY <1>5, <1>6, <1>k DEF Known
    <3>4. singles'[c] \in Receipts /\ held'[c] \in Receipts /\ receipt'[c] \in Receipts /\ sent'[c] \in [Providers -> Nat]
      BY <1>1, <1>3, <1>5, <1>6, <1>k DEF Known
    <3> QED BY <3>1, <3>2, <3>3, <3>4 DEF CallTyped
  <2>4. Quiet(c)'
    BY <1>5, <1>6 DEF Quiet, InCall
  <2>5. Counts(c)'
    <3>1. /\ sent'[c] = sent[c] /\ client'[c] = client[c] /\ usage'[c].requests = 0 /\ pc'[c] = "asking"
          /\ todo'[c] = todo[c] - 1 /\ start'[c] = start[c] + usage[c].requests - 1
      BY <1>1, <1>5, <1>6, <1>k, <2>1, <2>a DEF Known
    <3>2. /\ start[c] \in Nat /\ usage[c].requests \in Nat /\ todo[c] \in Nat /\ QuestionsOf[c] \in Nat /\ Retries \in Nat
          /\ sent[c][client[c]] \in Nat /\ start[c] + usage[c].requests <= Retries + 1 /\ usage[c].requests >= 1
          /\ sent[c][client[c]] + todo[c] <= start[c] + usage[c].requests + QuestionsOf[c] /\ todo[c] <= QuestionsOf[c]
      BY <1>1, <1>k DEF Known, Counts, InCall
    <3>3. sent'[c][client'[c]] + todo'[c] <= start'[c] + usage'[c].requests + QuestionsOf[c]
      BY <3>1, <3>2
    <3>4. todo'[c] >= 1 /\ todo'[c] <= QuestionsOf[c] /\ start'[c] + usage'[c].requests <= Retries
      BY <1>6, <3>1, <3>2
    <3>5. /\ \A p \in Providers : sent[c][p] <= Retries + QuestionsOf[c]
          /\ client[c] = "primary" => sent[c]["backup"] = 0
      BY <1>k DEF Known, Counts
    <3> QED BY <3>1, <3>3, <3>4, <3>5 DEF Counts, InCall
  <2>6. PaysOut(c)
    <3>1. /\ Pocket(c)' = receipt[c].got + held[c].got + mine.got
          /\ Owed(c)' = receipt[c].lost + held[c].lost + mine.lost + 0 + carried[c]
      BY <1>1, <1>5, <1>6, <1>k DEF Known, Pocket, Owed
    <3>2. paid' = paid /\ waived' = waived
      BY <1>1, <1>5, <1>6
    <3>a. /\ Pocket(c) = receipt[c].got + held[c].got + singles[c].got
          /\ Owed(c) = receipt[c].lost + held[c].lost + singles[c].lost + usage[c].lost + carried[c]
      BY DEF Pocket, Owed
    <3>3. Pocket(c)' = Pocket(c) + 1 /\ Owed(c)' = Owed(c) /\ Pocket(c) \in Nat /\ Owed(c) \in Nat
      BY <1>0, <1>3, <3>1, <3>a
    <3> QED BY <1>0, <1>2, <3>2, <3>3 DEF PaysOut
  <2>7. TypeOK' /\ Only(c)
    BY <1>1, <1>2, <1>5, <1>6, <1>k, <2>2, <2>3, TouchesOnly DEF Known
  <2> QED BY <1>1, <2>4, <2>5, <2>6, <2>7, CallKeeps
<1>7. CASE ~(split[c] /\ todo[c] > 1)
  <2>1. IsEnded(c, "ok")
    BY <1>5, <1>7, <1>k, EndsDoes
  <2>2. paid' \in Receipts /\ paid'.got = paid.got + all.got /\ paid'.lost = paid.lost + all.lost
    BY <1>4, <1>5, <1>7, <1>k, ReceiptsAdd DEF Known
  <2>3. Touches(c)
    BY <1>1, <1>5, <1>7, <1>k, <2>1 DEF Touches, TypeOK, IsEnded
  <2>4. CallTyped(c)
    <3>1. split'[c] \in BOOLEAN /\ waived'[c] \in BOOLEAN
      BY <1>1, <1>k, <2>1 DEF Known, IsEnded
    <3>2. /\ pc'[c] = "ok" /\ client'[c] \in Providers /\ todo'[c] \in Nat /\ start'[c] \in 0..Retries /\ carried'[c] \in Nat
      BY <1>5, <1>7, <1>k, <2>1 DEF Known, IsEnded
    <3>3. usage'[c] \in [requests : 0..Retries + 1, fives : Nat, lost : Nat]
      BY <1>k, <2>1 DEF Known, IsEnded
    <3>4. singles'[c] \in Receipts /\ held'[c] \in Receipts /\ receipt'[c] \in Receipts /\ sent'[c] \in [Providers -> Nat]
      BY <1>1, <1>k, <2>1 DEF Known, IsEnded
    <3> QED BY <3>1, <3>2, <3>3, <3>4 DEF CallTyped
  <2>5. Quiet(c)'
    BY <1>k, <2>1 DEF Quiet, InCall, IsEnded, Known
  <2>6. Counts(c)'
    <3>1. sent'[c] = sent[c] /\ todo'[c] = 0 /\ client'[c] = client[c]
      BY <1>1, <1>5, <1>7, <2>1 DEF IsEnded
    <3> QED BY <1>k, <2>1, <3>1 DEF Counts, InCall, Known, IsEnded
  <2>7. PaysOut(c)
    <3>1. Pocket(c)' = receipt[c].got + 0 + 0 /\ Owed(c)' = receipt[c].lost + 0 + 0 + 0 + 0
      BY <1>1, <1>k, <2>1 DEF Known, IsEnded, Pocket, Owed
    <3>2. waived' = waived
      BY <1>1
    <3>3. /\ Pocket(c) = receipt[c].got + held[c].got + singles[c].got
          /\ Owed(c) = receipt[c].lost + held[c].lost + singles[c].lost + usage[c].lost + carried[c]
      BY DEF Pocket, Owed
    <3>4. paid'.got + Pocket(c)' + billed.got = paid.got + Pocket(c) + billed'.got
      <4>1. Pocket(c)' = receipt[c].got /\ paid'.got = paid.got + held[c].got + singles[c].got + 1
        BY <1>0, <1>4, <2>2, <3>1
      <4>2. billed'.got = billed.got + 1 /\ Pocket(c) = receipt[c].got + held[c].got + singles[c].got
        BY <1>2, <3>3
      <4> QED BY <1>0, <4>1, <4>2
    <3>5. paid'.lost + Owed(c)' + billed.lost = paid.lost + Owed(c) + billed'.lost
      BY <1>0, <1>2, <1>4, <2>2, <3>1, <3>3
    <3>6. paid'.lost + Owed(c)' + billed.lost \in Nat
      BY <1>0, <1>4, <2>2, <3>1
    <3>7. paid'.lost + Owed(c)' + billed.lost <= paid.lost + Owed(c) + billed'.lost
      BY <3>5, <3>6
    <3> QED BY <3>2, <3>4, <3>5, <3>7 DEF PaysOut
  <2>8. TypeOK' /\ Only(c)
    BY <1>1, <1>2, <1>k, <2>2, <2>3, <2>4, TouchesOnly DEF Known
  <2> QED BY <1>1, <2>5, <2>6, <2>7, <2>8, CallKeeps
<1> QED BY <1>6, <1>7

\* A request that came to nothing: the call gives up, splits its batch or repeats.
LEMMA RetryKeeps ==
  ASSUME JevInv, NEW c \in Calls, pass = "open", pc[c] = "flying", NEW responded, NEW more \in Nat,
         NEW u \in [requests : 0..Retries + 1, fives : Nat, lost : Nat],
         u.requests = usage[c].requests, u.lost = usage[c].lost + more, Retry(c, u, responded),
         billed' \in Receipts, billed'.got = billed.got, billed'.lost = billed.lost + more
  PROVE  JevInv'
<1>k. TypeOK /\ Known(c)
  BY CallKnown
<1>0. /\ receipt[c].got \in Nat /\ receipt[c].lost \in Nat /\ held[c].got \in Nat /\ held[c].lost \in Nat
      /\ singles[c].got \in Nat /\ singles[c].lost \in Nat /\ usage[c].lost \in Nat /\ carried[c] \in Nat /\ u.lost \in Nat
      /\ paid.got \in Nat /\ paid.lost \in Nat /\ billed.got \in Nat /\ billed.lost \in Nat
  BY <1>k, ReceiptsAdd DEF Known
<1>1. CASE ~AttemptsLeft(c, u) /\ PostFails(c, u, IF responded THEN "exhausted" ELSE "failed", TRUE)
  <2>1. InCall(c)
    BY DEF InCall
  <2> QED BY <1>1, <2>1, PostFailsKeeps
<1>2. CASE ~(~AttemptsLeft(c, u) /\ PostFails(c, u, IF responded THEN "exhausted" ELSE "failed", TRUE))
  <2> DEFINE splits == ~split[c] /\ todo[c] > 1 /\ u.fives >= 2
  <2>a. /\ AttemptsLeft(c, u) /\ pc' = [pc EXCEPT ![c] = "asking"]
        /\ UNCHANGED <<pass, ledger, paid, onBackup, client, todo, singles, held, receipt, sent, waived>>
        /\ IF splits
           THEN /\ split' = [split EXCEPT ![c] = TRUE] /\ start' = [start EXCEPT ![c] = @ + u.requests]
                /\ carried' = [carried EXCEPT ![c] = u.lost] /\ usage' = [usage EXCEPT ![c] = NoUsage]
           ELSE usage' = [usage EXCEPT ![c] = u] /\ UNCHANGED <<split, start, carried>>
    BY <1>2, Zenon DEF Retry
  <2> HIDE DEF splits
  <2>1. /\ AttemptsLeft(c, u) /\ pc' = [pc EXCEPT ![c] = "asking"] /\ pc'[c] = "asking"
        /\ UNCHANGED <<pass, ledger, paid, onBackup, client, todo, singles, held, receipt, sent, waived>>
        /\ splits => /\ split' = [split EXCEPT ![c] = TRUE] /\ split'[c] = TRUE
                     /\ start' = [start EXCEPT ![c] = start[c] + u.requests] /\ start'[c] = start[c] + u.requests
                     /\ carried' = [carried EXCEPT ![c] = u.lost] /\ carried'[c] = u.lost
                     /\ usage' = [usage EXCEPT ![c] = NoUsage] /\ usage'[c] = NoUsage
        /\ ~splits => /\ usage' = [usage EXCEPT ![c] = u] /\ usage'[c] = u
                      /\ UNCHANGED <<split, start, carried>>
    BY <1>k, <2>a DEF TypeOK
  <2>2. /\ start[c] \in Nat /\ usage[c].requests \in Nat /\ Retries \in Nat /\ QuestionsOf[c] \in Nat /\ todo[c] \in Nat
        /\ sent[c][client[c]] \in Nat /\ usage[c].requests >= 1 /\ todo[c] >= 1 /\ todo[c] <= QuestionsOf[c]
        /\ sent[c][client[c]] + todo[c] <= start[c] + usage[c].requests + QuestionsOf[c]
    BY <1>k DEF Known, Counts, InCall
  <2>3. start[c] + u.requests <= Retries
    BY <2>1, <2>2 DEF AttemptsLeft
  <2>4. Touches(c)
    <3>1. CASE splits
      BY <1>k, <2>1, <3>1 DEF Touches, TypeOK
    <3>2. CASE ~splits
      BY <1>k, <2>1, <3>2 DEF Touches, TypeOK
    <3> QED BY <3>1, <3>2
  <2>5. /\ start'[c] \in 0..Retries /\ start'[c] + usage'[c].requests = start[c] + usage[c].requests
        /\ usage'[c] \in [requests : 0..Retries + 1, fives : Nat, lost : Nat]
        /\ carried'[c] \in Nat /\ usage'[c].lost + carried'[c] = u.lost + carried[c]
        /\ usage'[c].lost \in Nat
    <3>1. CASE splits
      <4>1. carried[c] = 0
        BY <1>k, <3>1 DEF Known, Quiet, splits
      <4>2. start'[c] = start[c] + u.requests /\ carried'[c] = u.lost /\ usage'[c] = NoUsage
        BY <2>1, <3>1
      <4>3. NoUsage.requests = 0 /\ NoUsage.lost = 0 /\ NoUsage \in [requests : 0..Retries + 1, fives : Nat, lost : Nat]
        BY <1>k DEF Known
      <4> QED BY <1>0, <2>2, <2>3, <4>1, <4>2, <4>3
    <3>2. CASE ~splits
      <4>1. start'[c] = start[c] /\ carried'[c] = carried[c] /\ usage'[c] = u
        BY <2>1, <3>2
      <4>2. start[c] \in 0..Retries
        BY <1>k DEF Known
      <4> QED BY <1>0, <4>1, <4>2
    <3> QED BY <3>1, <3>2
  <2>6. CallTyped(c)
    <3>1. split'[c] \in BOOLEAN /\ waived'[c] \in BOOLEAN
      <4>1. CASE splits
        BY <1>k, <2>1, <4>1 DEF Known
      <4>2. CASE ~splits
        BY <1>k, <2>1, <4>2 DEF Known
      <4> QED BY <4>1, <4>2
    <3>2. pc'[c] = "asking" /\ client'[c] \in Providers /\ todo'[c] \in Nat
      BY <1>k, <2>1 DEF Known
    <3>4. singles'[c] \in Receipts /\ held'[c] \in Receipts /\ receipt'[c] \in Receipts /\ sent'[c] \in [Providers -> Nat]
      BY <1>k, <2>1 DEF Known
    <3> QED BY <2>5, <3>1, <3>2, <3>4 DEF CallTyped
  <2>7. Quiet(c)'
    <3>1. CASE splits
      BY <2>1, <3>1 DEF Quiet, InCall
    <3>2. CASE ~splits
      BY <1>k, <2>1, <3>2 DEF Quiet, InCall, Known
    <3> QED BY <3>1, <3>2
  <2>8. Counts(c)'
    <3>1. sent'[c] = sent[c] /\ todo'[c] = todo[c] /\ client'[c] = client[c] /\ pc'[c] = "asking"
      BY <2>1
    <3>2. start'[c] + usage'[c].requests <= Retries
      BY <2>3, <2>5
    <3>3. sent'[c][client'[c]] + todo'[c] <= start'[c] + usage'[c].requests + QuestionsOf[c]
      <4>1. start'[c] \in Nat /\ usage'[c].requests \in Nat
        BY <2>2, <2>5
      <4> QED BY <2>2, <2>5, <3>1, <4>1
    <3>4. /\ \A p \in Providers : sent[c][p] <= Retries + QuestionsOf[c]
          /\ client[c] = "primary" => sent[c]["backup"] = 0
      BY <1>k DEF Known, Counts
    <3> QED BY <2>2, <3>1, <3>2, <3>3, <3>4 DEF Counts, InCall
  <2>9. PaysOut(c)
    <3>1. /\ Pocket(c)' = receipt[c].got + held[c].got + singles[c].got
          /\ Owed(c)' = receipt[c].lost + held[c].lost + singles[c].lost + usage'[c].lost + carried'[c]
      BY <2>1 DEF Pocket, Owed
    <3>2. /\ Pocket(c) = receipt[c].got + held[c].got + singles[c].got
          /\ Owed(c) = receipt[c].lost + held[c].lost + singles[c].lost + usage[c].lost + carried[c]
      BY DEF Pocket, Owed
    <3>3. Pocket(c)' = Pocket(c) /\ Owed(c)' = Owed(c) + more /\ Pocket(c) \in Nat /\ Owed(c) \in Nat
      BY <1>0, <2>5, <3>1, <3>2
    <3>4. paid' = paid /\ waived' = waived
      BY <2>1
    <3> QED BY <1>0, <3>3, <3>4 DEF PaysOut
  <2>10. TypeOK' /\ Only(c)
    BY <1>k, <2>1, <2>4, <2>6, TouchesOnly DEF Known
  <2> QED BY <2>1, <2>7, <2>8, <2>9, <2>10, CallKeeps
<1> QED BY <1>1, <1>2

\* The requests that get no usable answer, each an attempt used up.
LEMMA UnansweredKeeps ==
  ASSUME JevInv, NEW c \in Calls, pass = "open",
         OverBudget(c) \/ TurnedAway(c) \/ Fatal(c) \/ Overloaded(c) \/ Silent(c)
  PROVE  JevInv'
<1>k. TypeOK /\ Known(c)
  BY CallKnown
<1>0. /\ usage[c] \in [requests : 0..Retries + 1, fives : Nat, lost : Nat] /\ usage[c].lost \in Nat
      /\ billed \in Receipts /\ billed.got \in Nat /\ billed.lost \in Nat
      /\ usage[c].lost = usage[c].lost + 0 /\ billed.lost = billed.lost + 0
  BY <1>k, ReceiptsAdd DEF Known
<1>a. (pc[c] = "asking" \/ pc[c] = "flying") => InCall(c)
  BY DEF InCall
<1>b. billed' = [billed EXCEPT !.lost = @ + 1] => billed' \in Receipts /\ billed'.got = billed.got /\ billed'.lost = billed.lost + 1
  BY <1>0 DEF Receipts
<1>1. CASE OverBudget(c)
  <2>1. pc[c] = "asking" /\ PostFails(c, usage[c], "failed", TRUE) /\ billed' = billed
    BY <1>1 DEF OverBudget
  <2> QED BY <1>0, <1>a, <2>1, PostFailsKeeps
<1>2. CASE TurnedAway(c)
  <2>1. PICK error \in {"failed", "rejected"} : PostFails(c, usage[c], error, FALSE)
    BY <1>2 DEF TurnedAway
  <2>2. pc[c] = "flying" /\ billed' = billed
    BY <1>2 DEF TurnedAway
  <2> QED BY <1>0, <1>a, <2>1, <2>2, PostFailsKeeps
<1>3. CASE Fatal(c)
  <2> DEFINE u == [usage[c] EXCEPT !.lost = @ + 1]
  <2>1. pc[c] = "flying" /\ PostFails(c, u, "failed", TRUE) /\ billed' = [billed EXCEPT !.lost = @ + 1]
    BY <1>3 DEF Fatal
  <2>2. u.lost = usage[c].lost + 1
    BY <1>0
  <2> HIDE DEF u
  <2> QED BY <1>a, <1>b, <2>1, <2>2, PostFailsKeeps
<1>4. CASE Overloaded(c)
  <2>1. PICK five \in BOOLEAN : Retry(c, [usage[c] EXCEPT !.fives = IF five THEN @ + 1 ELSE 0], TRUE)
    BY <1>4 DEF Overloaded
  <2> DEFINE u == [usage[c] EXCEPT !.fives = IF five THEN @ + 1 ELSE 0]
  <2>2. pc[c] = "flying" /\ billed' = billed
    BY <1>4 DEF Overloaded
  <2>3. /\ u \in [requests : 0..Retries + 1, fives : Nat, lost : Nat]
        /\ u.requests = usage[c].requests /\ u.lost = usage[c].lost + 0
    BY <1>0
  <2>4. Retry(c, u, TRUE)
    BY <2>1
  <2> HIDE DEF u
  <2> QED BY <1>0, <2>2, <2>3, <2>4, RetryKeeps
<1>5. CASE Silent(c)
  <2> DEFINE u == [requests |-> usage[c].requests, fives |-> 0, lost |-> usage[c].lost + 1]
  <2>1. pc[c] = "flying" /\ Retry(c, u, FALSE) /\ billed' = [billed EXCEPT !.lost = @ + 1]
    BY <1>5 DEF Silent
  <2>2. /\ u \in [requests : 0..Retries + 1, fives : Nat, lost : Nat]
        /\ u.requests = usage[c].requests /\ u.lost = usage[c].lost + 1
    BY <1>0
  <2> HIDE DEF u
  <2> QED BY <1>b, <2>1, <2>2, RetryKeeps
<1> QED BY <1>1, <1>2, <1>3, <1>4, <1>5

\* The pass is closed: every list goes to the ledger, and what was in the air with it.
LEMMA CloseKeeps ==
  ASSUME JevInv, pass = "open", Close
  PROVE  JevInv'
<1> DEFINE D == [c \in Calls |-> Dropped(c)]
           A == [c \in Calls |-> InAir(c)]
           dg == [c \in Calls |-> D[c].got]
           dl == [c \in Calls |-> D[c].lost]
           P == [c \in Calls |-> Pocket(c)]
           O == [c \in Calls |-> Owed(c)]
           W == [c \in Calls |-> carried[c]]
           L == [c \in Calls |-> O[c] + A[c]]
<1>k. TypeOK /\ MoneyKept /\ \A c \in Calls : Known(c)
  BY CallKnown DEF JevInv
<1>1. ASSUME NEW c \in Calls
      PROVE  /\ Dropped(c) \in Receipts /\ Dropped(c).got = Pocket(c)
             /\ InAir(c) \in Nat /\ Owed(c) + InAir(c) = Dropped(c).lost + carried[c]
             /\ Pocket(c) \in Nat /\ Owed(c) \in Nat /\ carried[c] \in Nat
  <2>k. Known(c)
    BY <1>k
  <2>0. /\ receipt[c] \in Receipts /\ receipt[c].got \in Nat /\ receipt[c].lost \in Nat /\ held[c].got \in Nat /\ held[c].lost \in Nat
        /\ singles[c].got \in Nat /\ singles[c].lost \in Nat /\ usage[c].lost \in Nat /\ carried[c] \in Nat
    BY <2>k, ReceiptsAdd DEF Known
  <2>1. InAir(c) \in Nat
    BY DEF InAir
  <2>2. /\ Pocket(c) = receipt[c].got + held[c].got + singles[c].got
        /\ Owed(c) = receipt[c].lost + held[c].lost + singles[c].lost + usage[c].lost + carried[c]
    BY DEF Pocket, Owed
  <2>3. CASE InCall(c)
    <3> DEFINE up == Unwound(c, Lost(usage[c].lost + InAir(c)))
    <3>1. usage[c].lost + InAir(c) \in Nat
      BY <2>0, <2>1
    <3>2. /\ up \in Receipts /\ up.got = held[c].got + singles[c].got + 0
          /\ up.lost = held[c].lost + singles[c].lost + (usage[c].lost + InAir(c))
      BY <2>k, <3>1, UnwoundHolds, ReceiptsAdd
    <3>3. Dropped(c) = Plus(receipt[c], up)
      BY <2>3 DEF Dropped
    <3> HIDE DEF up
    <3>4. Dropped(c) \in Receipts /\ Dropped(c).got = receipt[c].got + up.got /\ Dropped(c).lost = receipt[c].lost + up.lost
      BY <2>0, <3>2, <3>3, ReceiptsAdd
    <3> QED BY <2>0, <2>1, <2>2, <3>2, <3>4
  <2>4. CASE ~InCall(c)
    <3>1. /\ held[c].got = 0 /\ held[c].lost = 0 /\ singles[c].got = 0 /\ singles[c].lost = 0
          /\ usage[c].lost = 0 /\ carried[c] = 0
      BY <2>4, <2>k, ReceiptsAdd DEF Known, Quiet
    <3>2. Dropped(c) = receipt[c] /\ InAir(c) = 0
      BY <2>4 DEF Dropped, InAir, InCall
    <3> QED BY <2>0, <2>2, <3>1, <3>2
  <2> QED BY <2>3, <2>4
<1>2. IsFiniteSet(Calls)
  BY JevAssumption
<1>3. /\ SumFunctionOnSet(dg, Calls) = SumFunctionOnSet(P, Calls)
      /\ SumFunctionOnSet(L, Calls) = SumFunctionOnSet(O, Calls) + SumFunctionOnSet(A, Calls)
      /\ SumFunctionOnSet(L, Calls) = SumFunctionOnSet(dl, Calls) + SumFunctionOnSet(W, Calls)
      /\ SumFunctionOnSet(W, Calls) \in Nat /\ SumFunctionOnSet(dg, Calls) \in Nat /\ SumFunctionOnSet(dl, Calls) \in Nat
      /\ SumFunctionOnSet(A, Calls) \in Nat /\ SumFunctionOnSet(O, Calls) \in Nat
      /\ (\A c \in Calls : carried[c] = 0) => SumFunctionOnSet(W, Calls) = 0
  <2>1. \A c \in Calls : /\ dg[c] \in Nat /\ P[c] \in Nat /\ dg[c] = P[c]
                         /\ O[c] \in Nat /\ A[c] \in Nat /\ L[c] = O[c] + A[c]
                         /\ dl[c] \in Nat /\ W[c] \in Nat /\ L[c] = dl[c] + W[c]
                         /\ W[c] = carried[c]
    <3> SUFFICES ASSUME NEW c \in Calls
                 PROVE  /\ dg[c] \in Nat /\ P[c] \in Nat /\ dg[c] = P[c]
                        /\ O[c] \in Nat /\ A[c] \in Nat /\ L[c] = O[c] + A[c]
                        /\ dl[c] \in Nat /\ W[c] \in Nat /\ L[c] = dl[c] + W[c]
                        /\ W[c] = carried[c]
      OBVIOUS
    <3>1. /\ dg[c] = Dropped(c).got /\ dl[c] = Dropped(c).lost /\ P[c] = Pocket(c) /\ O[c] = Owed(c) /\ A[c] = InAir(c)
          /\ W[c] = carried[c] /\ L[c] = O[c] + A[c]
      OBVIOUS
    <3>2. Dropped(c).lost \in Nat
      BY <1>1, ReceiptsAdd
    <3> HIDE DEF dg, dl, P, O, A, W, L
    <3> QED BY <1>1, <3>1, <3>2
  <2> HIDE DEF dg, dl, P, O, A, W, L
  <2>2. \A c \in Calls : dg[c] \in Int /\ P[c] \in Int /\ O[c] \in Int /\ A[c] \in Int /\ dl[c] \in Int /\ W[c] \in Int
    BY <2>1
  <2>3. SumFunctionOnSet(dg, Calls) = SumFunctionOnSet(P, Calls)
    BY <1>2, <2>1, <2>2, SumOfSame
  <2>4. SumFunctionOnSet(L, Calls) = SumFunctionOnSet(O, Calls) + SumFunctionOnSet(A, Calls)
    BY <1>2, <2>1, <2>2, SumPlus
  <2>5. SumFunctionOnSet(L, Calls) = SumFunctionOnSet(dl, Calls) + SumFunctionOnSet(W, Calls)
    BY <1>2, <2>1, <2>2, SumPlus
  <2>6. /\ SumFunctionOnSet(W, Calls) \in Nat /\ SumFunctionOnSet(dg, Calls) \in Nat /\ SumFunctionOnSet(dl, Calls) \in Nat
        /\ SumFunctionOnSet(A, Calls) \in Nat /\ SumFunctionOnSet(O, Calls) \in Nat
    BY <1>2, <2>1, SumIsNat
  <2>7. (\A c \in Calls : carried[c] = 0) => SumFunctionOnSet(W, Calls) = 0
    BY <1>2, <2>1, SumOfZeros
  <2> QED BY <2>3, <2>4, <2>5, <2>6, <2>7
<1>4. /\ InPockets = SumFunctionOnSet(P, Calls) /\ StillOwed = SumFunctionOnSet(O, Calls)
      /\ Flushed = [got |-> SumFunctionOnSet(dg, Calls), lost |-> SumFunctionOnSet(dl, Calls)]
  BY DEF InPockets, StillOwed, Flushed, Summed
<1>5. /\ pass' = "over" /\ ledger' = Plus(ledger, Plus(paid, Flushed)) /\ paid' = Nothing
      /\ billed' = [billed EXCEPT !.lost = @ + SumFunctionOnSet(A, Calls)]
      /\ UNCHANGED <<onBackup, client, split, todo, start, sent>>
  BY DEF Close
<1> HIDE DEF D, A, dg, dl, P, O, W, L
<1>6. /\ ledger.got \in Nat /\ ledger.lost \in Nat /\ paid.got \in Nat /\ paid.lost \in Nat
      /\ billed.got \in Nat /\ billed.lost \in Nat
  BY <1>k, ReceiptsAdd DEF TypeOK
<1>7. /\ ledger' \in Receipts /\ ledger'.got = ledger.got + paid.got + InPockets
      /\ ledger'.lost = ledger.lost + paid.lost + SumFunctionOnSet(dl, Calls)
  <2>1. Flushed \in Receipts /\ Flushed.got = InPockets /\ Flushed.lost = SumFunctionOnSet(dl, Calls)
    BY <1>3, <1>4 DEF Receipts
  <2>2. Plus(paid, Flushed) \in Receipts /\ Plus(paid, Flushed).got = paid.got + Flushed.got
        /\ Plus(paid, Flushed).lost = paid.lost + Flushed.lost
    BY <1>k, <2>1, ReceiptsAdd DEF TypeOK
  <2>3. ledger' \in Receipts /\ ledger'.got = ledger.got + Plus(paid, Flushed).got /\ ledger'.lost = ledger.lost + Plus(paid, Flushed).lost
    BY <1>5, <1>k, <2>2, ReceiptsAdd DEF TypeOK
  <2>4. InPockets \in Nat
    BY <1>3, <1>4
  <2> QED BY <1>3, <1>6, <2>1, <2>2, <2>3, <2>4
<1>8. billed' \in Receipts /\ billed'.got = billed.got /\ billed'.lost = billed.lost + SumFunctionOnSet(A, Calls)
  <2> DEFINE n == SumFunctionOnSet(A, Calls)
  <2>1. n \in Nat /\ billed' = [billed EXCEPT !.lost = @ + n] /\ billed \in Receipts
    BY <1>3, <1>5, <1>k DEF TypeOK
  <2> HIDE DEF n
  <2>2. billed' \in Receipts /\ billed'.got = billed.got /\ billed'.lost = billed.lost + n
    BY <1>6, <2>1 DEF Receipts
  <2> QED BY <2>2 DEF n
<1>9. ASSUME NEW c \in Calls
      PROVE  /\ pc'[c] \in {"ok", "failed", "dropped"} /\ held'[c] = Nothing /\ singles'[c] = Nothing /\ receipt'[c] = Nothing
             /\ usage'[c] = NoUsage /\ carried'[c] = 0 /\ waived'[c] = (waived[c] \/ (InCall(c) /\ carried[c] > 0))
  BY <1>k DEF Close, Known, InCall
<1>10. TypeOK'
  <2>1. pc' \in [Calls -> {"idle", "asking", "flying", "ok", "failed", "dropped"}]
    BY <1>9 DEF Close
  <2>2. held' \in [Calls -> Receipts] /\ singles' \in [Calls -> Receipts] /\ receipt' \in [Calls -> Receipts] /\ paid' \in Receipts
    BY <1>5, ReceiptsAdd DEF Close
  <2>3. NoUsage \in [requests : 0..Retries + 1, fives : Nat, lost : Nat]
    BY JevAssumption DEF NoUsage
  <2>4. usage' \in [Calls -> [requests : 0..Retries + 1, fives : Nat, lost : Nat]] /\ carried' \in [Calls -> Nat]
    BY <2>3 DEF Close
  <2>5. waived' \in [Calls -> BOOLEAN]
    BY DEF Close
  <2>6. /\ onBackup' \in BOOLEAN /\ client' \in [Calls -> Providers] /\ split' \in [Calls -> BOOLEAN]
        /\ todo' \in [Calls -> Nat] /\ start' \in [Calls -> 0..Retries] /\ sent' \in [Calls -> [Providers -> Nat]]
    BY <1>5, <1>k DEF TypeOK
  <2>7. pass' \in {"new", "open", "over", "refused"}
    BY <1>5
  <2> QED BY <1>7, <1>8, <2>1, <2>2, <2>4, <2>5, <2>6, <2>7 DEF TypeOK
<1>11. ASSUME NEW c \in Calls PROVE Quiet(c)' /\ Counts(c)' /\ Pocket(c)' = 0 /\ Owed(c)' = 0 /\ ~InCall(c)'
  <2>k. Known(c)
    BY <1>k
  <2>0. /\ pc'[c] \in {"ok", "failed", "dropped"} /\ held'[c] = Nothing /\ singles'[c] = Nothing /\ receipt'[c] = Nothing
        /\ usage'[c] = NoUsage /\ carried'[c] = 0 /\ sent'[c] = sent[c] /\ client'[c] = client[c] /\ todo'[c] = todo[c]
    BY <1>5, <1>9
  <2>1. Quiet(c)' /\ ~InCall(c)'
    BY <2>0, <2>k DEF Quiet, InCall, Known
  <2>2. Counts(c)'
    BY <2>0, <2>k DEF Counts, InCall, Known
  <2> QED BY <2>0, <2>1, <2>2, <2>k DEF Pocket, Owed, Known
<1>12. InPockets' = 0 /\ StillOwed' = 0
  <2> DEFINE f == [c \in Calls |-> Pocket(c)']
             g == [c \in Calls |-> Owed(c)']
  <2>1. \A c \in Calls : f[c] = 0 /\ g[c] = 0
    BY <1>11
  <2>2. InPockets' = SumFunctionOnSet(f, Calls) /\ StillOwed' = SumFunctionOnSet(g, Calls)
    BY DEF InPockets, StillOwed
  <2> HIDE DEF f, g
  <2> QED BY <1>2, <2>1, <2>2, SumOfZeros
<1>13. MoneyKept'
  <2>0. paid'.got = 0 /\ paid'.lost = 0
    BY <1>5, ReceiptsAdd
  <2>a. InPockets \in Nat
    BY <1>3, <1>4
  <2>1. billed'.got = ledger'.got + paid'.got + InPockets'
    <3>1. billed.got = ledger.got + paid.got + InPockets
      BY <1>k DEF MoneyKept
    <3> QED BY <1>6, <1>7, <1>8, <1>12, <2>0, <2>a, <3>1
  <2> DEFINE o == SumFunctionOnSet(O, Calls)
             a == SumFunctionOnSet(A, Calls)
             d == SumFunctionOnSet(dl, Calls)
             w == SumFunctionOnSet(W, Calls)
  <2>2. /\ o + a = d + w /\ o \in Nat /\ a \in Nat /\ d \in Nat /\ w \in Nat
        /\ ledger.lost + paid.lost + o <= billed.lost
        /\ ledger'.lost = ledger.lost + paid.lost + d /\ billed'.lost = billed.lost + a
        /\ (\A c \in Calls : ~waived[c]) => ledger.lost + paid.lost + o = billed.lost
        /\ (\A c \in Calls : carried[c] = 0) => w = 0
    BY <1>3, <1>4, <1>7, <1>8, <1>k DEF MoneyKept
  <2> HIDE DEF o, a, d, w
  <2>3. ledger'.lost + paid'.lost + StillOwed' <= billed'.lost
    BY <1>6, <1>12, <2>0, <2>2
  <2>4. ASSUME \A c \in Calls : ~waived'[c]
        PROVE  ledger'.lost + paid'.lost + StillOwed' = billed'.lost
    <3>1. ASSUME NEW c \in Calls PROVE ~waived[c] /\ carried[c] = 0
      <4>1. ~waived[c] /\ ~(InCall(c) /\ carried[c] > 0)
        BY <1>9, <2>4, Zenon
      <4>2. carried[c] \in Nat /\ (~InCall(c) => carried[c] = 0)
        BY <1>k DEF Known, Quiet
      <4> QED BY <4>1, <4>2
    <3>2. w = 0 /\ ledger.lost + paid.lost + o = billed.lost
      BY <2>2, <3>1
    <3> QED BY <1>6, <1>12, <2>0, <2>2, <3>2
  <2> QED BY <2>1, <2>3, <2>4 DEF MoneyKept
<1> QED BY <1>5, <1>9, <1>10, <1>11, <1>13 DEF JevInv

LEMMA JevStep ==
  ASSUME JevInv, [Next]_vars
  PROVE  JevInv'
<1>1. CASE Reserve
  <2>1. UNCHANGED <<ledger, paid, onBackup, billed, call>> /\ pass' \in {"open", "refused"} /\ pass = "new"
    BY <1>1 DEF Reserve
  <2>2. UNCHANGED <<pc, client, split, todo, start, usage, carried, singles, held, receipt, sent, waived>>
    BY <2>1 DEF call
  <2>3. TypeOK'
    BY <2>1, <2>2 DEF JevInv, TypeOK
  <2>4. \A c \in Calls : Quiet(c)' /\ Counts(c)'
    BY <2>2 DEF JevInv, Quiet, Counts, InCall
  <2>5. MoneyKept'
    BY <2>1, <2>2 DEF JevInv, MoneyKept, InPockets, StillOwed, Pocket, Owed
  <2> QED BY <2>1, <2>3, <2>4, <2>5 DEF JevInv
<1>2. CASE PassEnds \/ PassDropped
  BY <1>2, CloseKeeps DEF PassEnds, PassDropped
<1>3. CASE pass = "open" /\ \E c \in Calls : CallStep(c)
  BY <1>3, BeginKeeps, SendKeeps, AnsweredKeeps, UnansweredKeeps DEF CallStep
<1>4. CASE UNCHANGED vars
  <2>1. UNCHANGED <<pass, ledger, paid, onBackup, billed>>
        /\ UNCHANGED <<pc, client, split, todo, start, usage, carried, singles, held, receipt, sent, waived>>
    BY <1>4 DEF vars, call
  <2>3. TypeOK'
    BY <2>1 DEF JevInv, TypeOK
  <2>4. \A c \in Calls : Quiet(c)' /\ Counts(c)' /\ InCall(c)' = InCall(c)
    BY <2>1 DEF JevInv, Quiet, Counts, InCall
  <2>5. MoneyKept'
    BY <2>1 DEF JevInv, MoneyKept, InPockets, StillOwed, Pocket, Owed
  <2> QED BY <2>1, <2>3, <2>4, <2>5 DEF JevInv
<1> QED BY <1>1, <1>2, <1>3, <1>4 DEF Next

\* For any batches, retries and prices of a pass, with or without a backup, and
\* however its calls interleave, fail, split or are dropped: each answered request is
\* on the ledger once when the pass is over, a lost one unless its call waived it, and
\* one provider sees at most Retries requests more than a batch has questions
\* (validation.rs, failover.rs, batches.rs).
THEOREM JevReceiptsAreKept == Spec => []JevReceipts
<1>1. ASSUME JevInv PROVE JevReceipts
  <2>1. TypeOK /\ MoneyKept /\ InPockets \in Nat /\ StillOwed \in Nat
    BY <1>1, PocketsAreNat DEF JevInv
  <2>2. /\ ledger.got \in Nat /\ ledger.lost \in Nat /\ paid.got \in Nat /\ paid.lost \in Nat
        /\ billed.got \in Nat /\ billed.lost \in Nat
    BY <2>1, ReceiptsAdd DEF TypeOK
  <2>3. pass = "over" => paid.got = 0 /\ paid.lost = 0 /\ InPockets = 0 /\ StillOwed = 0
    <3> SUFFICES ASSUME pass = "over" PROVE paid.got = 0 /\ paid.lost = 0 /\ InPockets = 0 /\ StillOwed = 0
      OBVIOUS
    <3>1. paid.got = 0 /\ paid.lost = 0
      BY <1>1, ReceiptsAdd DEF JevInv
    <3> DEFINE f == [c \in Calls |-> Pocket(c)]
               g == [c \in Calls |-> Owed(c)]
    <3>2. ASSUME NEW c \in Calls PROVE Pocket(c) = 0 /\ Owed(c) = 0
      <4>1. held[c] = Nothing /\ singles[c] = Nothing /\ usage[c].lost = 0 /\ carried[c] = 0 /\ receipt[c] = Nothing
        BY <1>1 DEF JevInv, Quiet
      <4> QED BY <4>1, ReceiptsAdd DEF Pocket, Owed
    <3>3. \A c \in Calls : f[c] = 0 /\ g[c] = 0
      BY <3>2
    <3>4. InPockets = SumFunctionOnSet(f, Calls) /\ StillOwed = SumFunctionOnSet(g, Calls)
      BY DEF InPockets, StillOwed
    <3> HIDE DEF f, g
    <3> QED BY <3>1, <3>3, <3>4, SumOfZeros, JevAssumption
  <2>4. PaidOnce /\ ReceiptsKept
    BY <2>1, <2>2, <2>3 DEF PaidOnce, ReceiptsKept, MoneyKept
  <2>5. RequestsBounded
    BY <1>1 DEF JevInv, Counts, RequestsBounded
  <2> QED BY <2>1, <2>4, <2>5 DEF JevReceipts
<1> QED BY <1>1, JevBegins, JevStep, PTL DEF Spec

----------------------------------------------------------------------------
(* Generations of the language models: every request is on the ledger or   *)
(* held by the generation that sent it, and the ledger with what is held   *)
(* covers the bill, unless a line of unknown cost says otherwise.          *)

GenFields == {"pc", "who", "turn", "requests", "lost", "costs", "open", "tries", "reply", "error"}
Waiting4Answer == {"flying", "backoff"}
Waiting4Price == {"receipt", "ceiling", "unpriced"}
GenOver == {"idle", "ok", "failed", "dropped"}
GenPcs == Waiting4Answer \cup Waiting4Price \cup GenOver \cup {"turn", "pricing", "judge"}

\* A generation holds requests only while one is under way or unpriced, open lines
\* only while they are priced, and nothing when it is over.
GenOK(x) ==
  /\ DOMAIN x = GenFields
  /\ x.pc \in GenPcs /\ x.requests \in Nat /\ x.lost \in Nat /\ x.open \in Nat
  /\ x.costs.known \in Nat /\ x.costs.unknown \in Nat /\ x.costs.reqs \in Nat
  /\ x.open <= x.costs.unknown
  /\ x.pc # "pricing" => x.open = 0
  /\ x.pc \notin Waiting4Answer \cup Waiting4Price => x.requests = 0 /\ x.lost = 0
  /\ x.pc \in GenOver => x.costs.known = 0 /\ x.costs.unknown = 0 /\ x.costs.reqs = 0

\* Its requests, the ones that may be billed and have no price yet, what it will
\* have charged for them at least, and whether it has a line nobody will price.
RequestsOf(x) == x.costs.reqs + x.requests
Unpriced(x) == x.lost + x.open + (IF x.pc \in Waiting4Price THEN 1 ELSE 0)
Owing(n) == Price * n
Covers(x) == x.costs.known + Owing(Unpriced(x))
Unreadable(x) == x.costs.unknown > x.open

RequestsHeld == SumFunctionOnSet([g \in Gens |-> RequestsOf(gen[g])], Gens)
CoverHeld == SumFunctionOnSet([g \in Gens |-> Covers(gen[g])], Gens)

\* Every request sent is on the ledger or with its generation; and what was billed is
\* covered by what the ledger claims and each generation will still claim, unless a
\* line is of unknown cost or a generation holds a receipt nobody can read.
LlmInv ==
  /\ DOMAIN gen = Gens /\ \A g \in Gens : GenOK(gen[g])
  /\ llmLedger.known \in Nat /\ llmLedger.unknown \in Nat /\ llmLedger.reqs \in Nat
  /\ llmSent \in Nat /\ llmBilled \in Nat
  /\ llmSent = llmLedger.reqs + RequestsHeld
  /\ \/ llmLedger.unknown > 0
     \/ \E g \in Gens : Unreadable(gen[g])
     \/ llmBilled <= llmLedger.known + CoverHeld

LEMMA OwingAdds ==
  /\ Owing(0) = 0 /\ Owing(1) = Price /\ Price \in Nat /\ Ceil \in Nat
  /\ \A n \in Nat : Owing(n) \in Nat /\ Ceil * n \in Nat /\ n * Ceil = Ceil * n /\ Price * n = Owing(n) /\ Owing(n) <= Ceil * n
  /\ \A m \in Nat, n \in Nat : Owing(m + n) = Owing(m) + Owing(n)
<1>1. Price \in Nat /\ Ceil \in Nat /\ Price <= Ceil
  BY LlmAssumption
<1>2. Owing(0) = 0 /\ Owing(1) = Price
  BY <1>1 DEF Owing
<1>3. ASSUME NEW n \in Nat
      PROVE  Owing(n) \in Nat /\ Ceil * n \in Nat /\ n * Ceil = Ceil * n /\ Price * n = Owing(n) /\ Owing(n) <= Ceil * n
  BY <1>1 DEF Owing
<1>4. ASSUME NEW m \in Nat, NEW n \in Nat PROVE Owing(m + n) = Owing(m) + Owing(n)
  BY <1>1 DEF Owing
<1> QED BY <1>1, <1>2, <1>3, <1>4

LEMMA OwingOfFew == Owing(0) = 0 /\ Owing(1) = Price
BY OwingAdds

LEMMA HeldAreNat ==
  ASSUME NEW x, GenOK(x)
  PROVE  RequestsOf(x) \in Nat /\ Unpriced(x) \in Nat /\ Covers(x) \in Nat /\ Owing(Unpriced(x)) \in Nat
<1>1. Unpriced(x) \in Nat
  BY DEF GenOK, Unpriced
<1>2. Owing(Unpriced(x)) \in Nat
  BY <1>1, OwingAdds
<1> QED BY <1>1, <1>2 DEF GenOK, RequestsOf, Covers

\* A generation that begins, and one that is over.
LEMMA FreshIsOK ==
  ASSUME NEW x, (\E who : x = Fresh(who)) \/ (\E how \in GenOver : x = Finished(how))
  PROVE  /\ GenOK(x) /\ RequestsOf(x) = 0 /\ Covers(x) = 0 /\ ~Unreadable(x)
         /\ x.pc \in GenOver \cup {"turn"}
<1>1. /\ DOMAIN x = GenFields /\ x.pc \in GenOver \cup {"turn"} /\ x.requests = 0 /\ x.lost = 0 /\ x.open = 0 /\ x.costs = Free
  <2>1. CASE \E who : x = Fresh(who)
    BY <2>1 DEF Fresh, GenFields
  <2>2. CASE \E how \in GenOver : x = Finished(how)
    BY <2>2 DEF Fresh, Finished, GenFields
  <2> QED BY <2>1, <2>2
<1>2. Free.known = 0 /\ Free.unknown = 0 /\ Free.reqs = 0
  BY DEF Free
<1>3. GenOK(x)
  BY <1>1, <1>2 DEF GenOK, GenPcs, GenOver, Waiting4Answer, Waiting4Price
<1>4. Unpriced(x) = 0
  BY <1>1 DEF Unpriced, GenOver, Waiting4Price
<1> QED BY <1>1, <1>2, <1>3, <1>4, OwingAdds DEF RequestsOf, Covers, Unreadable

LEMMA LlmBegins == LlmInit => LlmInv
<1> SUFFICES ASSUME LlmInit PROVE LlmInv
  OBVIOUS
<1>1. ASSUME NEW g \in Gens PROVE GenOK(gen[g]) /\ RequestsOf(gen[g]) = 0 /\ Covers(gen[g]) = 0
  <2>1. gen[g] = Finished("idle")
    BY DEF LlmInit, Finished
  <2> QED BY <2>1, FreshIsOK DEF GenOver
<1>2. RequestsHeld = 0 /\ CoverHeld = 0
  <2> DEFINE f == [g \in Gens |-> RequestsOf(gen[g])]
             h == [g \in Gens |-> Covers(gen[g])]
  <2>1. \A g \in Gens : f[g] = 0 /\ h[g] = 0
    BY <1>1
  <2> HIDE DEF f, h
  <2>2. SumFunctionOnSet(f, Gens) = 0 /\ SumFunctionOnSet(h, Gens) = 0
    BY <2>1, SumOfZeros, LlmAssumption
  <2> QED BY <2>2 DEF f, h, RequestsHeld, CoverHeld
<1>3. DOMAIN gen = Gens /\ llmLedger = Free /\ llmSent = 0 /\ llmBilled = 0
  BY DEF LlmInit
<1> QED BY <1>1, <1>2, <1>3 DEF LlmInv, Free

\* What a step of one generation must do to the books.
Accounts(g) ==
  LET x == gen[g]
      y == gen'[g] IN
  /\ llmSent' + llmLedger.reqs + RequestsOf(x) = llmSent + llmLedger'.reqs + RequestsOf(y)
  /\ llmLedger.unknown > 0 => llmLedger'.unknown > 0
  /\ Unreadable(x) => Unreadable(y) \/ llmLedger'.unknown > 0
  /\ \/ llmLedger'.unknown > 0 \/ Unreadable(y)
     \/ llmBilled' + llmLedger.known + Covers(x) <= llmBilled + llmLedger'.known + Covers(y)

BooksTyped == /\ llmLedger'.known \in Nat /\ llmLedger'.unknown \in Nat /\ llmLedger'.reqs \in Nat
              /\ llmSent' \in Nat /\ llmBilled' \in Nat

LEMMA GenKeeps ==
  ASSUME LlmInv, NEW g \in Gens, NEW y, gen' = [gen EXCEPT ![g] = y], GenOK(y), BooksTyped, Accounts(g)
  PROVE  LlmInv'
<1>1. DOMAIN gen' = Gens /\ gen'[g] = y /\ \A h \in Gens : h # g => gen'[h] = gen[h]
  BY DEF LlmInv
<1>2. \A h \in Gens : GenOK(gen'[h]) /\ GenOK(gen[h])
  BY <1>1 DEF LlmInv
<1>3. \A h \in Gens : /\ RequestsOf(gen[h]) \in Nat /\ Covers(gen[h]) \in Nat
                      /\ RequestsOf(gen'[h]) \in Nat /\ Covers(gen'[h]) \in Nat
  BY <1>2, HeldAreNat
<1>4. /\ RequestsHeld \in Int /\ RequestsHeld' = RequestsHeld + (RequestsOf(gen'[g]) - RequestsOf(gen[g]))
      /\ CoverHeld \in Int /\ CoverHeld' = CoverHeld + (Covers(gen'[g]) - Covers(gen[g]))
  <2> DEFINE f == [h \in Gens |-> RequestsOf(gen[h])]
             f1 == [h \in Gens |-> RequestsOf(gen'[h])]
             c == [h \in Gens |-> Covers(gen[h])]
             c1 == [h \in Gens |-> Covers(gen'[h])]
  <2>1. /\ \A h \in Gens : f[h] \in Int /\ f1[h] \in Int /\ (h # g => f1[h] = f[h])
        /\ \A h \in Gens : c[h] \in Int /\ c1[h] \in Int /\ (h # g => c1[h] = c[h])
    BY <1>1, <1>3
  <2>2. f[g] = RequestsOf(gen[g]) /\ f1[g] = RequestsOf(gen'[g]) /\ c[g] = Covers(gen[g]) /\ c1[g] = Covers(gen'[g])
    OBVIOUS
  <2>3. /\ RequestsHeld = SumFunctionOnSet(f, Gens) /\ RequestsHeld' = SumFunctionOnSet(f1, Gens)
        /\ CoverHeld = SumFunctionOnSet(c, Gens) /\ CoverHeld' = SumFunctionOnSet(c1, Gens)
    BY DEF RequestsHeld, CoverHeld, RequestsOf, Covers, Unpriced, Owing
  <2> HIDE DEF f, f1, c, c1
  <2>4. /\ SumFunctionOnSet(f, Gens) \in Int /\ SumFunctionOnSet(f1, Gens) = SumFunctionOnSet(f, Gens) + (f1[g] - f[g])
        /\ SumFunctionOnSet(c, Gens) \in Int /\ SumFunctionOnSet(c1, Gens) = SumFunctionOnSet(c, Gens) + (c1[g] - c[g])
    BY <2>1, SumChanges, LlmAssumption
  <2> QED BY <2>2, <2>3, <2>4
<1>5. /\ RequestsOf(gen[g]) \in Nat /\ Covers(gen[g]) \in Nat
      /\ RequestsOf(gen'[g]) \in Nat /\ Covers(gen'[g]) \in Nat
  BY <1>3
<1>6. /\ llmLedger.known \in Nat /\ llmLedger.unknown \in Nat /\ llmLedger.reqs \in Nat
      /\ llmSent \in Nat /\ llmBilled \in Nat /\ llmSent = llmLedger.reqs + RequestsHeld
  BY DEF LlmInv
<1>7. llmSent' = llmLedger'.reqs + RequestsHeld'
  <2>1. llmSent' + llmLedger.reqs + RequestsOf(gen[g]) = llmSent + llmLedger'.reqs + RequestsOf(gen'[g])
    BY DEF Accounts
  <2>2. /\ RequestsHeld \in Int /\ RequestsHeld' = RequestsHeld + (RequestsOf(gen'[g]) - RequestsOf(gen[g]))
        /\ RequestsOf(gen[g]) \in Nat /\ RequestsOf(gen'[g]) \in Nat /\ llmLedger.reqs \in Nat /\ llmLedger'.reqs \in Nat
        /\ llmSent \in Nat /\ llmSent' \in Nat /\ llmSent = llmLedger.reqs + RequestsHeld
    BY <1>4, <1>5, <1>6 DEF BooksTyped
  <2> HIDE DEF RequestsHeld
  <2> QED BY <2>1, <2>2
<1>8. \/ llmLedger'.unknown > 0
      \/ \E h \in Gens : Unreadable(gen'[h])
      \/ llmBilled' <= llmLedger'.known + CoverHeld'
  <2>1. CASE llmLedger.unknown > 0
    BY <2>1 DEF Accounts
  <2>2. CASE \E h \in Gens : Unreadable(gen[h])
    <3>1. PICK h \in Gens : Unreadable(gen[h])
      BY <2>2
    <3>2. CASE h = g
      BY <3>1, <3>2 DEF Accounts
    <3>3. CASE h # g
      BY <1>1, <3>1, <3>3
    <3> QED BY <3>2, <3>3
  <2>3. CASE llmBilled <= llmLedger.known + CoverHeld
    <3>1. CASE llmLedger'.unknown > 0 \/ Unreadable(gen'[g])
      BY <3>1
    <3>2. CASE llmBilled' + llmLedger.known + Covers(gen[g]) <= llmBilled + llmLedger'.known + Covers(gen'[g])
      BY <1>4, <1>5, <1>6, <2>3, <3>2 DEF BooksTyped
    <3> QED BY <3>1, <3>2 DEF Accounts
  <2> QED BY <2>1, <2>2, <2>3 DEF LlmInv
<1>9. (\E h \in Gens : Unreadable(gen'[h])) => (\E h \in Gens : Unreadable(gen[h]))'
  BY DEF Unreadable
<1>10. DOMAIN gen' = Gens /\ (\A h \in Gens : GenOK(gen[h]))'
  BY <1>1, <1>2 DEF GenOK
<1> QED BY <1>7, <1>8, <1>9, <1>10 DEF LlmInv, BooksTyped

\* A generation hands its lines to the ledger and is over, or is asked afresh.
LEMMA HandsOver ==
  ASSUME LlmInv, NEW g \in Gens, NEW y, gen' = [gen EXCEPT ![g] = y],
         (\E who : y = Fresh(who)) \/ (\E how \in GenOver : y = Finished(how)),
         NEW costs, costs.known \in Nat, costs.unknown \in Nat, costs.reqs = RequestsOf(gen[g]),
         llmLedger' = Costs(llmLedger, costs), llmSent' = llmSent, llmBilled' \in Nat,
         Unreadable(gen[g]) => costs.unknown > 0,
         costs.unknown > 0 \/ llmBilled' + Covers(gen[g]) <= llmBilled + costs.known
  PROVE  LlmInv'
<1>1. GenOK(y) /\ RequestsOf(y) = 0 /\ Covers(y) = 0 /\ ~Unreadable(y)
  BY FreshIsOK
<1>2. gen'[g] = y /\ GenOK(gen[g])
  BY DEF LlmInv
<1>3. RequestsOf(gen[g]) \in Nat /\ Covers(gen[g]) \in Nat
  BY <1>2, HeldAreNat
<1>4. /\ llmLedger.known \in Nat /\ llmLedger.unknown \in Nat /\ llmLedger.reqs \in Nat /\ llmSent \in Nat /\ llmBilled \in Nat
  BY DEF LlmInv
<1>5. /\ llmLedger'.known = llmLedger.known + costs.known /\ llmLedger'.unknown = llmLedger.unknown + costs.unknown
      /\ llmLedger'.reqs = llmLedger.reqs + costs.reqs
  BY DEF Costs
<1>6. BooksTyped
  BY <1>3, <1>4, <1>5 DEF BooksTyped
<1>7. Accounts(g)
  <2>1. llmSent' + llmLedger.reqs + RequestsOf(gen[g]) = llmSent + llmLedger'.reqs + RequestsOf(gen'[g])
    BY <1>1, <1>2, <1>3, <1>4, <1>5
  <2>2. llmLedger.unknown > 0 => llmLedger'.unknown > 0
    BY <1>4, <1>5
  <2>3. costs.unknown > 0 => llmLedger'.unknown > 0
    BY <1>4, <1>5
  <2>4. costs.unknown > 0 \/ llmBilled' + llmLedger.known + Covers(gen[g]) <= llmBilled + llmLedger'.known + Covers(gen'[g])
    BY <1>1, <1>2, <1>3, <1>4, <1>5
  <2> QED BY <2>1, <2>2, <2>3, <2>4 DEF Accounts
<1> QED BY <1>1, <1>6, <1>7, GenKeeps

LEMMA GenFailsKeeps ==
  ASSUME LlmInv, NEW g \in Gens, NEW costs, NEW error, GenFails(g, costs, error),
         costs.known \in Nat, costs.unknown \in Nat, costs.reqs = RequestsOf(gen[g]), llmSent' = llmSent, llmBilled' \in Nat,
         Unreadable(gen[g]) => costs.unknown > 0,
         costs.unknown > 0 \/ llmBilled' + Covers(gen[g]) <= llmBilled + costs.known
  PROVE  LlmInv'
<1>1. PICK y : /\ gen' = [gen EXCEPT ![g] = y]
               /\ (\E who : y = Fresh(who)) \/ (\E how \in GenOver : y = Finished(how))
  <2>1. "failed" \in GenOver
    BY DEF GenOver
  <2> QED BY <2>1, Zenon DEF GenFails
<1>2. llmLedger' = Costs(llmLedger, costs)
  BY DEF GenFails
<1> QED BY <1>1, <1>2, HandsOver

\* The books do not change, but for the bill.
LEMMA SameBooks ==
  ASSUME LlmInv, UNCHANGED llmLedger, llmSent' \in Nat, llmBilled' \in Nat
  PROVE  BooksTyped
BY DEF LlmInv, BooksTyped

\* A generation goes on with what it holds: the ledger waits.
LEMMA GoesOn ==
  ASSUME LlmInv, NEW g \in Gens, NEW y, gen' = [gen EXCEPT ![g] = y], GenOK(y), UNCHANGED llmLedger,
         llmSent' \in Nat, llmBilled' \in Nat, llmSent' + RequestsOf(gen[g]) = llmSent + RequestsOf(y),
         Unreadable(gen[g]) => Unreadable(y),
         Unreadable(y) \/ llmBilled' + Covers(gen[g]) <= llmBilled + Covers(y)
  PROVE  LlmInv'
<1>1. gen'[g] = y /\ GenOK(gen[g])
  BY DEF LlmInv
<1>2. RequestsOf(gen[g]) \in Nat /\ Covers(gen[g]) \in Nat /\ RequestsOf(y) \in Nat /\ Covers(y) \in Nat
  BY <1>1, HeldAreNat
<1>3. /\ llmLedger.known \in Nat /\ llmLedger.unknown \in Nat /\ llmLedger.reqs \in Nat /\ llmSent \in Nat /\ llmBilled \in Nat
  BY DEF LlmInv
<1>4. Accounts(g)
  <2>1. llmSent' + llmLedger.reqs + RequestsOf(gen[g]) = llmSent + llmLedger'.reqs + RequestsOf(gen'[g])
    BY <1>1, <1>2, <1>3
  <2>2. Unreadable(y) \/ llmBilled' + llmLedger.known + Covers(gen[g]) <= llmBilled + llmLedger'.known + Covers(gen'[g])
    BY <1>1, <1>2, <1>3
  <2> QED BY <1>1, <2>1, <2>2 DEF Accounts
<1> QED BY <1>4, SameBooks, GenKeeps

\* The requests of an attempt that is given up are charged as unanswered.
LEMMA GivesUpKeeps ==
  ASSUME LlmInv, NEW g \in Gens, gen[g].pc \in Waiting4Answer, NEW more \in Nat, NEW error,
         GivesUp(g, gen[g].lost + more, error), llmSent' = llmSent, llmBilled' = llmBilled + Owing(more)
  PROVE  LlmInv'
<1> DEFINE x == gen[g]
           lost == x.lost + more
           costs == Costs(x.costs, Unanswered(x.requests, lost))
<1>1. GenOK(x) /\ llmBilled \in Nat /\ llmSent \in Nat /\ DOMAIN gen = Gens
  BY DEF LlmInv
<1>2. /\ x.requests \in Nat /\ x.lost \in Nat /\ x.open = 0 /\ x.costs.known \in Nat /\ x.costs.unknown \in Nat /\ x.costs.reqs \in Nat
  BY <1>1 DEF GenOK, Waiting4Answer
<1>3. /\ costs.known = x.costs.known /\ costs.unknown = x.costs.unknown + lost /\ costs.reqs = RequestsOf(x)
  BY <1>2 DEF Costs, Unanswered, RequestsOf
<1>4. lost \in Nat /\ Owing(lost) = Owing(x.lost) + Owing(more) /\ Owing(x.lost) \in Nat /\ Owing(more) \in Nat
  <2>1. lost = x.lost + more
    OBVIOUS
  <2> HIDE DEF lost, x
  <2>2. lost \in Nat
    BY <1>2, <2>1
  <2>3. Owing(x.lost + more) = Owing(x.lost) + Owing(more) /\ Owing(x.lost) \in Nat /\ Owing(more) \in Nat
    BY <1>2, OwingAdds
  <2> QED BY <2>1, <2>2, <2>3
<1>5. Covers(x) = x.costs.known + Owing(x.lost)
  <2>1. Unpriced(x) = x.lost
    BY <1>2 DEF Unpriced, Waiting4Answer, Waiting4Price
  <2> QED BY <2>1 DEF Covers
<1>6. Unreadable(x) => x.costs.unknown > 0
  BY <1>2 DEF Unreadable
<1>7. \/ (lost = 0 \/ ~Lists) /\ GenFails(g, costs, error)
      \/ /\ ~(lost = 0 \/ ~Lists)
         /\ gen' = [gen EXCEPT ![g].pc = "pricing", ![g].costs = costs, ![g].open = lost,
                               ![g].error = error, ![g].requests = 0, ![g].lost = 0]
         /\ UNCHANGED <<llmLedger, llmOnBackup>>
  BY Zenon DEF GivesUp
<1> HIDE DEF lost, costs, x
<1>8. CASE (lost = 0 \/ ~Lists) /\ GenFails(g, costs, error)
  <2>1. costs.known \in Nat /\ costs.unknown \in Nat /\ costs.reqs = RequestsOf(gen[g]) /\ llmBilled' \in Nat
    BY <1>1, <1>2, <1>3, <1>4 DEF x
  <2>2. Unreadable(gen[g]) => costs.unknown > 0
    BY <1>2, <1>3, <1>4, <1>6 DEF x
  <2>3. costs.unknown > 0 \/ llmBilled' + Covers(gen[g]) <= llmBilled + costs.known
    <3>1. CASE lost = 0
      <4>1. x.lost = 0 /\ more = 0
        BY <1>2, <3>1 DEF lost
      <4>2. Owing(x.lost) = 0 /\ Owing(more) = 0
        BY <4>1, OwingAdds
      <4> QED BY <1>1, <1>2, <1>3, <1>5, <4>2 DEF x
    <3>2. CASE lost # 0
      BY <1>2, <1>3, <1>4, <3>2
    <3> QED BY <3>1, <3>2
  <2> QED BY <1>8, <2>1, <2>2, <2>3, GenFailsKeeps
<1>9. CASE /\ ~(lost = 0 \/ ~Lists)
           /\ gen' = [gen EXCEPT ![g].pc = "pricing", ![g].costs = costs, ![g].open = lost,
                                 ![g].error = error, ![g].requests = 0, ![g].lost = 0]
           /\ UNCHANGED <<llmLedger, llmOnBackup>>
  <2> DEFINE y == gen'[g]
  <2>0. DOMAIN x = GenFields
    BY <1>1 DEF GenOK
  <2>1. /\ DOMAIN y = GenFields /\ y.pc = "pricing" /\ y.costs = costs /\ y.open = lost /\ y.requests = 0 /\ y.lost = 0
        /\ gen' = [gen EXCEPT ![g] = y]
    BY <1>1, <1>9, <2>0 DEF GenFields, x
  <2> HIDE DEF y
  <2>2. GenOK(y)
    BY <1>2, <1>3, <1>4, <2>1 DEF GenOK, GenPcs, Waiting4Answer, Waiting4Price, GenOver, RequestsOf
  <2>3. RequestsOf(y) = RequestsOf(x) /\ RequestsOf(x) \in Nat
    BY <1>2, <1>3, <2>1 DEF RequestsOf
  <2>4. Covers(y) = x.costs.known + Owing(lost)
    <3>1. Unpriced(y) = lost
      BY <1>4, <2>1 DEF Unpriced, Waiting4Price
    <3> QED BY <1>3, <2>1, <3>1 DEF Covers
  <2>5. Unreadable(x) => Unreadable(y)
    BY <1>2, <1>3, <1>4, <2>1 DEF Unreadable
  <2>6. llmBilled' \in Nat /\ llmBilled' + Covers(x) <= llmBilled + Covers(y)
    BY <1>1, <1>2, <1>4, <1>5, <2>4
  <2> QED BY <1>1, <1>9, <2>1, <2>2, <2>3, <2>5, <2>6, GoesOn DEF x
<1> QED BY <1>7, <1>8, <1>9

\* A completion is priced: its line stands for the attempt's requests.
LEMMA PricedKeeps ==
  ASSUME LlmInv, NEW g \in Gens, NEW line, NEW y, gen' = [gen EXCEPT ![g] = y],
         y = Priced(g, line) \/ \E reply : y = [Priced(g, line) EXCEPT !.reply = reply],
         gen[g].pc = "flying" \/ gen[g].pc \in Waiting4Price,
         line.known \in Nat, line.unknown \in Nat, line.reqs = gen[g].requests,
         UNCHANGED llmLedger, llmSent' = llmSent, llmBilled' \in Nat,
         line.unknown > 0 \/ llmBilled' + Owing(Unpriced(gen[g])) <= llmBilled + line.known
  PROVE  LlmInv'
<1> DEFINE x == gen[g]
<1>1. GenOK(x) /\ llmBilled \in Nat /\ llmSent \in Nat
  BY DEF LlmInv
<1>2. /\ DOMAIN x = GenFields /\ x.requests \in Nat /\ x.open = 0
      /\ x.costs.known \in Nat /\ x.costs.unknown \in Nat /\ x.costs.reqs \in Nat
  BY <1>1 DEF GenOK, Waiting4Price
<1>3. /\ DOMAIN y = GenFields /\ y.costs = Costs(x.costs, line) /\ y.requests = 0 /\ y.lost = 0
      /\ y.pc = "judge" /\ y.open = x.open
  <2>1. CASE y = Priced(g, line)
    BY <1>2, <2>1 DEF Priced, GenFields
  <2>2. CASE \E reply : y = [Priced(g, line) EXCEPT !.reply = reply]
    BY <1>2, <2>2 DEF Priced, GenFields
  <2> QED BY <2>1, <2>2
<1>4. /\ y.costs.known = x.costs.known + line.known /\ y.costs.unknown = x.costs.unknown + line.unknown
      /\ y.costs.reqs = x.costs.reqs + x.requests
  BY <1>3 DEF Costs
<1>5. Owing(Unpriced(x)) \in Nat /\ RequestsOf(x) \in Nat
  BY <1>1, HeldAreNat
<1> HIDE DEF x
<1>6. GenOK(y)
  BY <1>2, <1>3, <1>4 DEF GenOK, GenPcs, GenOver, Waiting4Answer, Waiting4Price
<1>7. RequestsOf(y) = RequestsOf(x)
  BY <1>2, <1>3, <1>4 DEF RequestsOf
<1>8. Covers(y) = x.costs.known + line.known /\ Covers(x) = x.costs.known + Owing(Unpriced(x))
  <2>1. Unpriced(y) = 0
    BY <1>2, <1>3 DEF Unpriced, Waiting4Price
  <2>2. Owing(Unpriced(y)) = 0
    BY <2>1, OwingOfFew
  <2> QED BY <1>2, <1>4, <2>2 DEF Covers
<1>9. /\ Unreadable(x) => Unreadable(y)
      /\ line.unknown > 0 => Unreadable(y)
  BY <1>2, <1>3, <1>4 DEF Unreadable
<1>10. Unreadable(y) \/ llmBilled' + Covers(x) <= llmBilled + Covers(y)
  <2>1. CASE line.unknown > 0
    BY <1>9, <2>1
  <2>2. CASE llmBilled' + Owing(Unpriced(x)) <= llmBilled + line.known
    BY <1>1, <1>2, <1>5, <1>8, <2>2
  <2> QED BY <2>1, <2>2 DEF x
<1> QED BY <1>1, <1>5, <1>6, <1>7, <1>9, <1>10, GoesOn DEF x

\* What is lost or unread is charged at one price or more.
LEMMA LinesCharge ==
  ASSUME NEW lost \in Nat, NEW requests, NEW each \in {Price, Ceil}
  PROVE  /\ AnsweredLine(each, requests, lost).known \in Nat
         /\ AnsweredLine(each, requests, lost).unknown = 0
         /\ AnsweredLine(each, requests, lost).reqs = requests
         /\ Owing(lost + 1) <= AnsweredLine(each, requests, lost).known
         /\ Owing(lost) + Price <= AnsweredLine(each, requests, lost).known
<1>1. Price \in Nat /\ Ceil \in Nat /\ Price <= Ceil /\ each \in Nat
  BY LlmAssumption
<1>2. each * (1 + lost) \in Nat /\ Price * (lost + 1) <= each * (1 + lost)
  BY <1>1
<1>3. Owing(lost + 1) = Owing(lost) + Price
  BY OwingAdds
<1> QED BY <1>2, <1>3 DEF AnsweredLine, Owing

\* A generation begins.
LEMMA GenBeginsKeeps == ASSUME LlmInv, NEW g \in Gens, GenBegins(g) PROVE LlmInv'
<1>1. PICK y : /\ gen' = [gen EXCEPT ![g] = y] /\ \E who : y = Fresh(who)
  BY Zenon DEF GenBegins
<1>2. GenOK(y) /\ RequestsOf(y) = 0 /\ Covers(y) = 0 /\ ~Unreadable(y)
  BY <1>1, FreshIsOK
<1>3. GenOK(gen[g]) /\ gen[g].pc = "idle" /\ llmSent \in Nat /\ llmBilled \in Nat
  BY DEF LlmInv, GenBegins
<1>4. RequestsOf(gen[g]) = 0 /\ Unpriced(gen[g]) = 0 /\ gen[g].costs.known = 0 /\ ~Unreadable(gen[g])
  BY <1>3 DEF GenOK, RequestsOf, Unpriced, Unreadable, GenOver, Waiting4Price, Waiting4Answer
<1>5. Covers(gen[g]) = 0
  BY <1>4, OwingAdds DEF Covers
<1>6. llmSent' = llmSent /\ llmBilled' = llmBilled /\ UNCHANGED llmLedger
  BY DEF GenBegins
<1>7. llmSent' + RequestsOf(gen[g]) = llmSent + RequestsOf(y) /\ llmBilled' + Covers(gen[g]) <= llmBilled + Covers(y)
  BY <1>2, <1>3, <1>4, <1>5, <1>6
<1> QED BY <1>1, <1>2, <1>3, <1>4, <1>6, <1>7, GoesOn

\* A generation changes in a way that neither counts nor prices.
LEMMA OnlyMoves ==
  ASSUME LlmInv, NEW g \in Gens, NEW y, gen' = [gen EXCEPT ![g] = y], GenOK(y),
         NEW more \in Nat, RequestsOf(y) = RequestsOf(gen[g]) + more, llmSent' = llmSent + more,
         UNCHANGED llmLedger, y.costs = gen[g].costs, y.open = gen[g].open,
         NEW owed \in Nat, Unpriced(y) = Unpriced(gen[g]) + owed, llmBilled' = llmBilled + Owing(owed)
  PROVE  LlmInv'
<1>1. GenOK(gen[g]) /\ llmSent \in Nat /\ llmBilled \in Nat
  BY DEF LlmInv
<1>2. RequestsOf(gen[g]) \in Nat /\ Unpriced(gen[g]) \in Nat /\ Covers(gen[g]) \in Nat
  BY <1>1, HeldAreNat
<1>3. Owing(Unpriced(y)) = Owing(Unpriced(gen[g])) + Owing(owed) /\ Owing(owed) \in Nat /\ Owing(Unpriced(gen[g])) \in Nat
  BY <1>2, OwingAdds
<1>4. gen[g].costs.known \in Nat
  BY <1>1 DEF GenOK
<1>5. Covers(y) = Covers(gen[g]) + Owing(owed)
  BY <1>3, <1>4 DEF Covers
<1>6. Unreadable(gen[g]) => Unreadable(y)
  BY DEF Unreadable
<1>7. /\ llmSent' \in Nat /\ llmBilled' \in Nat /\ llmSent' + RequestsOf(gen[g]) = llmSent + RequestsOf(y)
      /\ llmBilled' + Covers(gen[g]) <= llmBilled + Covers(y)
  BY <1>1, <1>2, <1>3, <1>5
<1> QED BY <1>6, <1>7, GoesOn

LEMMA FliesKeeps ==
  ASSUME LlmInv, NEW g \in Gens, gen[g].pc \in {"turn", "backoff"}, Flies(g), UNCHANGED <<llmLedger, llmBilled>>
  PROVE  LlmInv'
<1> DEFINE x == gen[g]
           y == [x EXCEPT !.pc = "flying", !.requests = x.requests + 1]
<1>1. GenOK(x) /\ DOMAIN gen = Gens /\ llmBilled \in Nat
  BY DEF LlmInv
<1>2. DOMAIN x = GenFields /\ x.requests \in Nat /\ x.lost \in Nat /\ x.open = 0
      /\ x.costs.known \in Nat /\ x.costs.unknown \in Nat /\ x.costs.reqs \in Nat
  BY <1>1 DEF GenOK
<1>3. gen' = [gen EXCEPT ![g] = y]
  BY <1>1 DEF Flies
<1>4. DOMAIN y = GenFields /\ y.pc = "flying" /\ y.requests = x.requests + 1 /\ y.lost = x.lost
      /\ y.open = x.open /\ y.costs = x.costs
  BY <1>2 DEF GenFields
<1>5. x.pc \in {"turn", "backoff"}
  OBVIOUS
<1> HIDE DEF x, y
<1>6. GenOK(y)
  BY <1>2, <1>4 DEF GenOK, GenPcs, GenOver, Waiting4Answer, Waiting4Price
<1>7. RequestsOf(y) = RequestsOf(x) + 1 /\ Unpriced(y) = Unpriced(x) + 0
  BY <1>2, <1>4, <1>5 DEF RequestsOf, Unpriced, Waiting4Price
<1>8. llmSent' = llmSent + 1 /\ llmBilled' = llmBilled + Owing(0)
  BY <1>1, OwingOfFew DEF Flies
<1> QED BY <1>3, <1>4, <1>6, <1>7, <1>8, OnlyMoves DEF x

\* Outside its requests and its open lines, what a generation has charged is all it owes.
SettledBooks(x) ==
  /\ x.costs.known \in Nat /\ x.costs.unknown \in Nat /\ x.costs.reqs = RequestsOf(x)
  /\ Covers(x) = x.costs.known
  /\ Unreadable(x) => x.costs.unknown > 0

LEMMA SettledHolds ==
  ASSUME NEW x, GenOK(x), x.pc \in {"turn", "judge"} \/ (x.pc = "pricing" /\ x.open = 0)
  PROVE  SettledBooks(x)
<1>1. /\ x.requests = 0 /\ x.lost = 0 /\ x.open = 0 /\ x.costs.known \in Nat /\ x.costs.unknown \in Nat
      /\ x.costs.reqs \in Nat
  BY DEF GenOK, Waiting4Answer, Waiting4Price
<1>2. Unpriced(x) = 0
  BY <1>1 DEF Unpriced, Waiting4Price
<1>3. Owing(Unpriced(x)) = 0
  BY <1>2, OwingOfFew
<1> QED BY <1>1, <1>3 DEF SettledBooks, RequestsOf, Covers, Unreadable

\* A turn opens, or ends the generation on the budget with the lines it has.
LEMMA TurnOpensKeeps == ASSUME LlmInv, NEW g \in Gens, TurnOpens(g) PROVE LlmInv'
<1>1. CASE LlmAffordable /\ Flies(g) /\ UNCHANGED <<llmLedger, llmOnBackup>>
  BY <1>1, FliesKeeps DEF TurnOpens
<1>2. CASE GenFails(g, gen[g].costs, "budget") /\ UNCHANGED <<llmCalls, llmSent>>
  <2>1. GenOK(gen[g]) /\ gen[g].pc = "turn" /\ llmBilled \in Nat /\ llmBilled' = llmBilled /\ llmSent' = llmSent
    BY <1>2 DEF LlmInv, TurnOpens
  <2>2. SettledBooks(gen[g])
    <3>1. gen[g].pc \in {"turn", "judge"}
      BY <2>1
    <3> QED BY <2>1, <3>1, SettledHolds
  <2> QED BY <1>2, <2>1, <2>2, GenFailsKeeps DEF SettledBooks
<1> QED BY <1>1, <1>2 DEF TurnOpens

\* A repeat leaves, or the budget ends the attempt.
LEMMA RetryFliesKeeps == ASSUME LlmInv, NEW g \in Gens, RetryFlies(g) PROVE LlmInv'
<1>1. CASE LlmAffordable /\ Flies(g) /\ UNCHANGED <<llmLedger, llmOnBackup>>
  BY <1>1, FliesKeeps DEF RetryFlies
<1>2. CASE GivesUp(g, gen[g].lost, "budget") /\ UNCHANGED <<llmCalls, llmSent>>
  <2>1. GenOK(gen[g]) /\ gen[g].pc \in Waiting4Answer /\ llmBilled \in Nat /\ llmBilled' = llmBilled /\ llmSent' = llmSent
    BY <1>2 DEF LlmInv, RetryFlies, Waiting4Answer
  <2>2. GivesUp(g, gen[g].lost + 0, "budget") /\ llmBilled' = llmBilled + Owing(0)
    <3>1. gen[g].lost \in Nat
      BY <2>1 DEF GenOK
    <3>2. gen[g].lost + 0 = gen[g].lost
      BY <3>1
    <3> QED BY <1>2, <2>1, <3>2, OwingOfFew
  <2> QED BY <2>1, <2>2, GivesUpKeeps
<1> QED BY <1>1, <1>2 DEF RetryFlies

\* An attempt without an answer waits for its repeat, or is given up.
LEMMA NotAnsweredKeeps ==
  ASSUME LlmInv, NEW g \in Gens, gen[g].pc = "flying", NEW more \in Nat,
         NotAnswered(g, gen[g].lost + more), llmBilled' = llmBilled + Owing(more)
  PROVE  LlmInv'
<1>1. CASE gen' = [gen EXCEPT ![g].pc = "backoff", ![g].lost = gen[g].lost + more] /\ UNCHANGED <<llmLedger, llmOnBackup>>
  <2> DEFINE x == gen[g]
             y == [x EXCEPT !.pc = "backoff", !.lost = x.lost + more]
  <2>1. GenOK(x) /\ DOMAIN gen = Gens /\ x.pc = "flying" /\ llmSent \in Nat
    BY DEF LlmInv
  <2>2. DOMAIN x = GenFields /\ x.requests \in Nat /\ x.lost \in Nat /\ x.open = 0
        /\ x.costs.known \in Nat /\ x.costs.unknown \in Nat /\ x.costs.reqs \in Nat
    BY <2>1 DEF GenOK
  <2>3. gen' = [gen EXCEPT ![g] = y]
    BY <1>1, <2>1
  <2>4. DOMAIN y = GenFields /\ y.pc = "backoff" /\ y.requests = x.requests /\ y.lost = x.lost + more
        /\ y.open = x.open /\ y.costs = x.costs
    BY <2>2 DEF GenFields
  <2> HIDE DEF x, y
  <2>5. GenOK(y)
    BY <2>2, <2>4 DEF GenOK, GenPcs, GenOver, Waiting4Answer, Waiting4Price
  <2>6. RequestsOf(y) = RequestsOf(x) + 0 /\ Unpriced(y) = Unpriced(x) + more
    BY <2>1, <2>2, <2>4 DEF RequestsOf, Unpriced, Waiting4Price
  <2>7. llmSent' = llmSent + 0 /\ UNCHANGED llmLedger
    BY <1>1, <2>1 DEF NotAnswered
  <2> QED BY <2>3, <2>4, <2>5, <2>6, <2>7, OnlyMoves DEF x
<1>2. CASE GivesUp(g, gen[g].lost + more, "exhausted")
  BY <1>2, GivesUpKeeps DEF NotAnswered, Waiting4Answer
<1> QED BY <1>1, <1>2 DEF NotAnswered

LEMMA LlmOverloadedKeeps == ASSUME LlmInv, NEW g \in Gens, LlmOverloaded(g) PROVE LlmInv'
<1>1. gen[g].lost \in Nat /\ llmBilled \in Nat
  BY DEF LlmInv, GenOK
<1>2. gen[g].lost + 0 = gen[g].lost /\ llmBilled + Owing(0) = llmBilled
  BY <1>1, OwingOfFew
<1>3. NotAnswered(g, gen[g].lost + 0) /\ llmBilled' = llmBilled + Owing(0) /\ gen[g].pc = "flying"
  BY <1>2 DEF LlmOverloaded
<1> QED BY <1>3, NotAnsweredKeeps

LEMMA LlmSilentKeeps == ASSUME LlmInv, NEW g \in Gens, LlmSilent(g) PROVE LlmInv'
<1>1. NotAnswered(g, gen[g].lost + 1) /\ llmBilled' = llmBilled + Owing(1) /\ gen[g].pc = "flying"
  BY OwingOfFew DEF LlmSilent
<1> QED BY <1>1, NotAnsweredKeeps

LEMMA LlmRefusedKeeps == ASSUME LlmInv, NEW g \in Gens, LlmRefused(g) PROVE LlmInv'
<1>1. gen[g].lost \in Nat /\ llmBilled \in Nat /\ llmSent' = llmSent /\ gen[g].pc \in Waiting4Answer
  BY DEF LlmInv, GenOK, LlmRefused, Waiting4Answer
<1>2. CASE (\E error \in {"rejected", "failed"} : GivesUp(g, gen[g].lost, error)) /\ UNCHANGED llmBilled
  <2>1. PICK error \in {"rejected", "failed"} : GivesUp(g, gen[g].lost, error)
    BY <1>2
  <2>2. gen[g].lost + 0 = gen[g].lost /\ llmBilled + Owing(0) = llmBilled
    BY <1>1, OwingOfFew
  <2>3. GivesUp(g, gen[g].lost + 0, error) /\ llmBilled' = llmBilled + Owing(0)
    BY <1>2, <2>1, <2>2
  <2> QED BY <1>1, <2>3, GivesUpKeeps
<1>3. CASE GivesUp(g, gen[g].lost + 1, "failed") /\ llmBilled' = llmBilled + Price
  <2>1. llmBilled' = llmBilled + Owing(1)
    BY <1>3, OwingOfFew
  <2> QED BY <1>1, <1>3, <2>1, GivesUpKeeps
<1> QED BY <1>2, <1>3 DEF LlmRefused

\* A completion arrives: priced by its own usage, or still to be priced.
LEMMA LlmAnswersKeeps == ASSUME LlmInv, NEW g \in Gens, LlmAnswers(g) PROVE LlmInv'
<1> DEFINE x == gen[g]
           line == AnsweredLine(Price, x.requests, x.lost)
<1>1. GenOK(x) /\ DOMAIN gen = Gens /\ x.pc = "flying" /\ llmSent \in Nat /\ llmBilled \in Nat
  BY DEF LlmInv, LlmAnswers
<1>2. DOMAIN x = GenFields /\ x.requests \in Nat /\ x.lost \in Nat /\ x.open = 0
      /\ x.costs.known \in Nat /\ x.costs.unknown \in Nat /\ x.costs.reqs \in Nat
  BY <1>1 DEF GenOK
<1>3. UNCHANGED llmLedger /\ llmSent' = llmSent /\ llmBilled' = llmBilled + Price /\ Price \in Nat
  BY LlmAssumption DEF LlmAnswers
<1>4. CASE \E reply : gen' = [gen EXCEPT ![g] = [Priced(g, line) EXCEPT !.reply = reply]]
  <2>1. PICK y : gen' = [gen EXCEPT ![g] = y] /\ \E reply : y = [Priced(g, line) EXCEPT !.reply = reply]
    BY <1>4
  <2>2. line.known \in Nat /\ line.unknown = 0 /\ line.reqs = x.requests /\ Owing(x.lost) + Price <= line.known
    BY <1>2, LinesCharge
  <2>3. Unpriced(x) = x.lost
    BY <1>1, <1>2 DEF Unpriced, Waiting4Price
  <2>4. Owing(x.lost) \in Nat
    BY <1>2, OwingAdds
  <2> HIDE DEF line
  <2>5. llmBilled' + Owing(Unpriced(x)) <= llmBilled + line.known /\ llmBilled' \in Nat /\ line.unknown \in Nat
    BY <1>1, <1>3, <2>2, <2>3, <2>4
  <2> QED BY <1>1, <1>3, <2>1, <2>2, <2>5, PricedKeeps
<1>5. CASE \E reply, phase : /\ phase \in Waiting4Price
                             /\ gen' = [gen EXCEPT ![g] = [gen[g] EXCEPT !.reply = reply, !.pc = phase]]
  <2>1. PICK reply, phase : /\ phase \in Waiting4Price
                            /\ gen' = [gen EXCEPT ![g] = [gen[g] EXCEPT !.reply = reply, !.pc = phase]]
    BY <1>5
  <2> DEFINE y == [x EXCEPT !.reply = reply, !.pc = phase]
  <2>2. gen' = [gen EXCEPT ![g] = y]
    BY <2>1
  <2>3. DOMAIN y = GenFields /\ y.pc = phase /\ y.requests = x.requests /\ y.lost = x.lost
        /\ y.open = x.open /\ y.costs = x.costs
    BY <1>2 DEF GenFields
  <2> HIDE DEF x, y
  <2>4. GenOK(y)
    BY <1>2, <2>1, <2>3 DEF GenOK, GenPcs, GenOver, Waiting4Answer, Waiting4Price
  <2>5. RequestsOf(y) = RequestsOf(x) + 0 /\ Unpriced(y) = Unpriced(x) + 1
    BY <1>1, <1>2, <2>1, <2>3 DEF RequestsOf, Unpriced, Waiting4Price
  <2>6. llmSent' = llmSent + 0 /\ llmBilled' = llmBilled + Owing(1)
    BY <1>1, <1>3, OwingOfFew
  <2> QED BY <1>3, <2>2, <2>3, <2>4, <2>5, <2>6, OnlyMoves DEF x
<1>6. PICK reply \in Replies, stated \in BOOLEAN, named \in BOOLEAN :
        gen' = [gen EXCEPT ![g] =
          IF stated THEN [Priced(g, line) EXCEPT !.reply = reply]
          ELSE [gen[g] EXCEPT !.reply = reply,
                  !.pc = IF ~Lists THEN "unpriced" ELSE IF named THEN "receipt" ELSE "ceiling"]]
  BY DEF LlmAnswers
<1>7. CASE stated
  BY <1>4, <1>6, <1>7
<1>8. CASE ~stated
  <2> DEFINE phase == IF ~Lists THEN "unpriced" ELSE IF named THEN "receipt" ELSE "ceiling"
  <2>1. gen' = [gen EXCEPT ![g] = [gen[g] EXCEPT !.reply = reply, !.pc = phase]]
    BY <1>6, <1>8
  <2>2. phase \in Waiting4Price
    BY DEF Waiting4Price
  <2> QED BY <1>5, <2>1, <2>2
<1> QED BY <1>7, <1>8

\* A completion waits for its price: nothing it holds changes but where it waits.
LEMMA StillUnpriced ==
  ASSUME LlmInv, NEW g \in Gens, NEW y, gen' = [gen EXCEPT ![g] = y], UNCHANGED <<llmLedger, llmSent, llmBilled>>,
         DOMAIN y = GenFields, y.requests = gen[g].requests, y.lost = gen[g].lost,
         y.open = gen[g].open, y.costs = gen[g].costs,
         \/ gen[g].pc \in Waiting4Price /\ y.pc \in Waiting4Price
         \/ gen[g].pc = y.pc
  PROVE  LlmInv'
<1>1. GenOK(gen[g]) /\ llmSent \in Nat /\ llmBilled \in Nat
  BY DEF LlmInv
<1>2. GenOK(y)
  BY <1>1 DEF GenOK, GenPcs, GenOver, Waiting4Answer, Waiting4Price
<1>3. RequestsOf(gen[g]) \in Nat /\ Unpriced(gen[g]) \in Nat
  BY <1>1, HeldAreNat
<1>4. RequestsOf(y) = RequestsOf(gen[g]) /\ Unpriced(y) = Unpriced(gen[g])
  BY DEF RequestsOf, Unpriced
<1>5. RequestsOf(y) = RequestsOf(gen[g]) + 0 /\ Unpriced(y) = Unpriced(gen[g]) + 0
  BY <1>3, <1>4
<1>6. llmSent' = llmSent + 0 /\ llmBilled' = llmBilled + Owing(0)
  BY <1>1, OwingOfFew
<1> QED BY <1>2, <1>5, <1>6, OnlyMoves

\* A completion that waited is priced: at its receipt, at a ceiling, or not at all.
LEMMA WaitedIsPriced ==
  ASSUME LlmInv, NEW g \in Gens, gen[g].pc \in Waiting4Price, NEW line, UNCHANGED <<llmLedger, llmSent, llmBilled>>,
         gen' = [gen EXCEPT ![g] = Priced(g, line)],
         \/ \E each \in {Price, Ceil} : line = AnsweredLine(each, gen[g].requests, gen[g].lost)
         \/ line = UnreadLine(gen[g].requests)
  PROVE  LlmInv'
<1>1. GenOK(gen[g]) /\ llmBilled \in Nat
  BY DEF LlmInv
<1>2. gen[g].lost \in Nat /\ gen[g].open = 0 /\ gen[g].requests \in Nat
  BY <1>1 DEF GenOK, Waiting4Price
<1>3. Unpriced(gen[g]) = gen[g].lost + 1
  BY <1>2 DEF Unpriced
<1>4. Owing(gen[g].lost + 1) \in Nat
  <2>1. gen[g].lost + 1 \in Nat
    BY <1>2
  <2> QED BY <2>1, OwingAdds
<1>5. /\ line.known \in Nat /\ line.unknown \in Nat /\ line.reqs = gen[g].requests
      /\ line.unknown > 0 \/ Owing(gen[g].lost + 1) <= line.known
  <2>1. CASE \E each \in {Price, Ceil} : line = AnsweredLine(each, gen[g].requests, gen[g].lost)
    BY <1>2, <2>1, LinesCharge
  <2>2. CASE line = UnreadLine(gen[g].requests)
    BY <2>2 DEF UnreadLine
  <2> QED BY <2>1, <2>2
<1>6. line.unknown > 0 \/ llmBilled' + Owing(Unpriced(gen[g])) <= llmBilled + line.known
  BY <1>1, <1>3, <1>4, <1>5
<1> QED BY <1>1, <1>5, <1>6, PricedKeeps

LEMMA ReceiptKeeps == ASSUME LlmInv, NEW g \in Gens, Receipt(g) PROVE LlmInv'
<1> DEFINE x == gen[g]
<1>1. DOMAIN x = GenFields /\ x.pc = "receipt" /\ x.pc \in Waiting4Price
  BY DEF LlmInv, GenOK, Receipt, Waiting4Price
<1>2. UNCHANGED <<llmLedger, llmSent, llmBilled>>
  BY DEF Receipt
<1>3. \/ gen' = [gen EXCEPT ![g] = Priced(g, AnsweredLine(Price, x.requests, x.lost))]
      \/ gen' = [gen EXCEPT ![g] = [x EXCEPT !.pc = "ceiling", !.tries = 0]]
      \/ gen' = [gen EXCEPT ![g] = [x EXCEPT !.tries = x.tries + 1]]
  <2>1. PICK found \in {"settled", "distrusted", "again"} :
          gen' = [gen EXCEPT ![g] =
            CASE found = "settled" -> Priced(g, AnsweredLine(Price, gen[g].requests, gen[g].lost))
              [] found = "again" /\ gen[g].tries # Lookups - 1 -> [gen[g] EXCEPT !.tries = @ + 1]
              [] OTHER -> [gen[g] EXCEPT !.pc = "ceiling", !.tries = 0]]
    BY DEF Receipt
  <2>2. CASE found = "settled"
    BY <2>1, <2>2
  <2>3. CASE found = "distrusted"
    BY <2>1, <2>3
  <2>4. CASE found = "again" /\ gen[g].tries = Lookups - 1
    BY <2>1, <2>4
  <2>5. CASE found = "again" /\ gen[g].tries # Lookups - 1
    BY <2>1, <2>5
  <2> QED BY <2>2, <2>3, <2>4, <2>5
<1>4. CASE gen' = [gen EXCEPT ![g] = Priced(g, AnsweredLine(Price, x.requests, x.lost))]
  BY <1>1, <1>2, <1>4, WaitedIsPriced
<1>5. CASE gen' = [gen EXCEPT ![g] = [x EXCEPT !.pc = "ceiling", !.tries = 0]]
  <2> DEFINE y == [x EXCEPT !.pc = "ceiling", !.tries = 0]
  <2>1. DOMAIN y = GenFields /\ y.requests = x.requests /\ y.lost = x.lost /\ y.open = x.open /\ y.costs = x.costs
        /\ y.pc \in Waiting4Price
    BY <1>1 DEF GenFields, Waiting4Price
  <2> HIDE DEF y
  <2> QED BY <1>1, <1>2, <1>5, <2>1, StillUnpriced DEF y
<1>6. CASE gen' = [gen EXCEPT ![g] = [x EXCEPT !.tries = x.tries + 1]]
  <2> DEFINE y == [x EXCEPT !.tries = x.tries + 1]
  <2>1. DOMAIN y = GenFields /\ y.requests = x.requests /\ y.lost = x.lost /\ y.open = x.open /\ y.costs = x.costs
        /\ y.pc = x.pc
    BY <1>1 DEF GenFields
  <2> HIDE DEF y
  <2> QED BY <1>1, <1>2, <1>6, <2>1, StillUnpriced DEF y
<1> QED BY <1>3, <1>4, <1>5, <1>6

LEMMA AnswerUnpricedKeeps == ASSUME LlmInv, NEW g \in Gens, AnswerUnpriced(g) PROVE LlmInv'
<1>1. gen[g].pc \in Waiting4Price /\ UNCHANGED <<llmLedger, llmSent, llmBilled>>
      /\ gen' = [gen EXCEPT ![g] = Priced(g, UnreadLine(gen[g].requests))]
  BY DEF AnswerUnpriced, Waiting4Price
<1> QED BY <1>1, WaitedIsPriced

\* How a look at the price list can end.
LEMMA LooksUp ==
  ASSUME NEW g, NEW found, NEW none, CeilingLookup(g, found, none)
  PROVE  \/ gen' = [gen EXCEPT ![g] = found]
         \/ gen' = [gen EXCEPT ![g] = none]
         \/ gen' = [gen EXCEPT ![g].tries = @ + 1]
BY Zenon DEF CeilingLookup

\* One more look: nothing that is counted changes.
LEMMA LooksAgain ==
  ASSUME LlmInv, NEW g \in Gens, gen' = [gen EXCEPT ![g].tries = @ + 1], UNCHANGED <<llmLedger, llmSent, llmBilled>>
  PROVE  LlmInv'
<1> DEFINE x == gen[g]
           y == [x EXCEPT !.tries = x.tries + 1]
<1>1. DOMAIN x = GenFields /\ DOMAIN gen = Gens
  BY DEF LlmInv, GenOK
<1>2. DOMAIN y = GenFields /\ y.requests = x.requests /\ y.lost = x.lost /\ y.open = x.open /\ y.costs = x.costs
      /\ y.pc = x.pc
  BY <1>1 DEF GenFields
<1>3. gen' = [gen EXCEPT ![g] = y]
  BY <1>1
<1> HIDE DEF y
<1> QED BY <1>2, <1>3, StillUnpriced

LEMMA AnswerBoundedKeeps == ASSUME LlmInv, NEW g \in Gens, AnswerBounded(g) PROVE LlmInv'
<1>1. gen[g].pc \in Waiting4Price /\ UNCHANGED <<llmLedger, llmSent, llmBilled>>
  BY DEF AnswerBounded, Waiting4Price
<1>2. \/ gen' = [gen EXCEPT ![g] = Priced(g, AnsweredLine(Ceil, gen[g].requests, gen[g].lost))]
      \/ gen' = [gen EXCEPT ![g] = Priced(g, UnreadLine(gen[g].requests))]
      \/ gen' = [gen EXCEPT ![g].tries = @ + 1]
  BY LooksUp, Zenon DEF AnswerBounded
<1> QED BY <1>1, <1>2, WaitedIsPriced, LooksAgain

\* A line without an answer is bounded by the list, or left unknown for good.
LEMMA UnansweredBoundedKeeps == ASSUME LlmInv, NEW g \in Gens, UnansweredBounded(g) PROVE LlmInv'
<1> DEFINE x == gen[g]
           rest == [x EXCEPT !.open = x.open - 1, !.tries = 0]
<1>1. GenOK(x) /\ DOMAIN gen = Gens /\ x.pc = "pricing" /\ x.open > 0 /\ llmSent \in Nat /\ llmBilled \in Nat
  BY DEF LlmInv, UnansweredBounded
<1>2. DOMAIN x = GenFields /\ x.requests = 0 /\ x.lost = 0 /\ x.open \in Nat
      /\ x.costs.known \in Nat /\ x.costs.unknown \in Nat /\ x.costs.reqs \in Nat /\ x.open <= x.costs.unknown
  BY <1>1 DEF GenOK, Waiting4Answer, Waiting4Price
<1>3. UNCHANGED <<llmLedger, llmSent, llmBilled>>
  BY DEF UnansweredBounded
<1>4. \/ gen' = [gen EXCEPT ![g] = [rest EXCEPT !.costs = Bounded(gen[g].costs, 1)]]
      \/ gen' = [gen EXCEPT ![g] = rest]
      \/ gen' = [gen EXCEPT ![g].tries = @ + 1]
  BY LooksUp, Zenon DEF UnansweredBounded
<1>5. Unpriced(x) = x.open /\ Covers(x) = x.costs.known + Owing(x.open)
  <2>1. Unpriced(x) = x.open
    BY <1>1, <1>2 DEF Unpriced, Waiting4Price
  <2> QED BY <2>1 DEF Covers
<1>6. Owing(x.open) = Owing(x.open - 1) + Price /\ Owing(x.open - 1) \in Nat /\ Price \in Nat /\ Ceil \in Nat /\ Price <= Ceil
  <2> HIDE DEF x
  <2>1. x.open - 1 \in Nat
    BY <1>1, <1>2
  <2>2. Owing((x.open - 1) + 1) = Owing(x.open - 1) + Owing(1) /\ Owing(x.open - 1) \in Nat
    BY <2>1, OwingAdds
  <2>3. (x.open - 1) + 1 = x.open
    BY <1>2
  <2> QED BY <2>2, <2>3, OwingOfFew, LlmAssumption
<1>7. CASE gen' = [gen EXCEPT ![g] = [rest EXCEPT !.costs = Bounded(gen[g].costs, 1)]]
  <2> DEFINE y == [rest EXCEPT !.costs = Bounded(gen[g].costs, 1)]
  <2>1. DOMAIN y = GenFields /\ y.pc = "pricing" /\ y.requests = 0 /\ y.lost = 0 /\ y.open = x.open - 1
        /\ y.costs = Bounded(x.costs, 1)
    BY <1>1, <1>2 DEF GenFields
  <2>2. gen' = [gen EXCEPT ![g] = y]
    BY <1>7
  <2> HIDE DEF x, y
  <2>3. y.costs.known = x.costs.known + Ceil /\ y.costs.unknown = x.costs.unknown - 1 /\ y.costs.reqs = x.costs.reqs
    BY <1>6, <2>1 DEF Bounded
  <2>4. GenOK(y)
    BY <1>1, <1>2, <1>6, <2>1, <2>3 DEF GenOK, GenPcs, GenOver, Waiting4Answer, Waiting4Price
  <2>5. RequestsOf(y) = RequestsOf(x) /\ RequestsOf(x) \in Nat /\ (Unreadable(x) => Unreadable(y))
    BY <1>1, <1>2, <2>1, <2>3 DEF RequestsOf, Unreadable
  <2>6. Covers(y) = x.costs.known + Ceil + Owing(x.open - 1)
    <3>1. Unpriced(y) = x.open - 1
      BY <1>1, <1>2, <2>1 DEF Unpriced, Waiting4Price
    <3> QED BY <2>3, <3>1 DEF Covers
  <2>7. llmSent' \in Nat /\ llmBilled' \in Nat /\ llmSent' + RequestsOf(x) = llmSent + RequestsOf(y)
        /\ llmBilled' + Covers(x) <= llmBilled + Covers(y)
    BY <1>1, <1>2, <1>3, <1>5, <1>6, <2>5, <2>6
  <2> QED BY <1>3, <2>2, <2>4, <2>5, <2>7, GoesOn DEF x
<1>8. CASE gen' = [gen EXCEPT ![g] = rest]
  <2>1. DOMAIN rest = GenFields /\ rest.pc = "pricing" /\ rest.requests = 0 /\ rest.lost = 0 /\ rest.open = x.open - 1
        /\ rest.costs = x.costs
    BY <1>1, <1>2 DEF GenFields
  <2> HIDE DEF x, rest
  <2>2. GenOK(rest)
    BY <1>1, <1>2, <2>1 DEF GenOK, GenPcs, GenOver, Waiting4Answer, Waiting4Price
  <2>3. RequestsOf(rest) = RequestsOf(x) /\ RequestsOf(x) \in Nat /\ Unreadable(rest)
    BY <1>1, <1>2, <2>1 DEF RequestsOf, Unreadable
  <2>4. llmSent' \in Nat /\ llmBilled' \in Nat /\ llmSent' + RequestsOf(x) = llmSent + RequestsOf(rest)
    BY <1>1, <1>3, <2>3
  <2> QED BY <1>3, <1>8, <2>2, <2>3, <2>4, GoesOn DEF x
<1>9. CASE gen' = [gen EXCEPT ![g].tries = @ + 1]
  BY <1>3, <1>9, LooksAgain
<1> QED BY <1>4, <1>7, <1>8, <1>9

LEMMA PricedFailsKeeps == ASSUME LlmInv, NEW g \in Gens, PricedFails(g) PROVE LlmInv'
<1>1. GenOK(gen[g]) /\ gen[g].pc = "pricing" /\ gen[g].open = 0 /\ llmBilled \in Nat /\ llmBilled' = llmBilled /\ llmSent' = llmSent
  BY DEF LlmInv, PricedFails
<1>2. SettledBooks(gen[g])
  BY <1>1, SettledHolds
<1>3. GenFails(g, gen[g].costs, gen[g].error)
  BY DEF PricedFails
<1> QED BY <1>1, <1>2, <1>3, GenFailsKeeps DEF SettledBooks

\* A reply is judged: its total is handed over, or a second turn follows.
LEMMA JudgeKeeps == ASSUME LlmInv, NEW g \in Gens, Judge(g) PROVE LlmInv'
<1> DEFINE x == gen[g]
<1>1. /\ GenOK(x) /\ DOMAIN gen = Gens /\ x.pc = "judge" /\ x.pc \in {"turn", "judge"} /\ llmSent \in Nat /\ llmBilled \in Nat
      /\ llmBilled' = llmBilled /\ llmSent' = llmSent
  BY DEF LlmInv, Judge
<1>2. SettledBooks(x)
  BY <1>1, SettledHolds
<1>3. CASE llmLedger' = Costs(llmLedger, gen[g].costs) /\ gen' = [gen EXCEPT ![g] = Finished("ok")]
  <2>1. "ok" \in GenOver
    BY DEF GenOver
  <2>2. PICK y : gen' = [gen EXCEPT ![g] = y] /\ \E how \in GenOver : y = Finished(how)
    BY <1>3, <2>1
  <2>3. x.costs.known \in Nat /\ x.costs.unknown \in Nat /\ x.costs.reqs = RequestsOf(x) /\ (Unreadable(x) => x.costs.unknown > 0)
    BY <1>2 DEF SettledBooks
  <2>4. llmBilled' \in Nat /\ llmBilled' + Covers(x) <= llmBilled + x.costs.known
    BY <1>1, <1>2 DEF SettledBooks
  <2> QED BY <1>1, <1>3, <2>2, <2>3, <2>4, HandsOver
<1>4. CASE gen' = [gen EXCEPT ![g].pc = "turn", ![g].turn = 1] /\ UNCHANGED <<llmLedger, llmOnBackup>>
  <2> DEFINE y == [x EXCEPT !.pc = "turn", !.turn = 1]
  <2>1. DOMAIN x = GenFields
    BY <1>1 DEF GenOK
  <2>2. gen' = [gen EXCEPT ![g] = y]
    BY <1>1, <1>4
  <2>3. DOMAIN y = GenFields /\ y.pc = "turn" /\ y.requests = x.requests /\ y.lost = x.lost /\ y.open = x.open /\ y.costs = x.costs
    BY <2>1 DEF GenFields
  <2> HIDE DEF x, y
  <2>4. GenOK(y)
    BY <1>1, <2>3 DEF GenOK, GenPcs, GenOver, Waiting4Answer, Waiting4Price
  <2>5. RequestsOf(x) \in Nat /\ Unpriced(x) \in Nat
    BY <1>1, HeldAreNat
  <2>6. RequestsOf(y) = RequestsOf(x) /\ Unpriced(y) = Unpriced(x)
    BY <1>1, <2>3 DEF RequestsOf, Unpriced, Waiting4Price
  <2>7. RequestsOf(y) = RequestsOf(x) + 0 /\ Unpriced(y) = Unpriced(x) + 0 /\ llmSent' = llmSent + 0 /\ llmBilled' = llmBilled + Owing(0)
    BY <1>1, <2>5, <2>6, OwingOfFew
  <2> QED BY <1>4, <2>2, <2>3, <2>4, <2>7, OnlyMoves DEF x
<1>5. CASE GenFails(g, gen[g].costs, "failed")
  BY <1>1, <1>2, <1>5, GenFailsKeeps DEF SettledBooks
<1> QED BY <1>3, <1>4, <1>5 DEF Judge

\* What `Billing::drop` charges on top of the generation's lines.
DroppedLine(g) ==
  LET me     == gen[g]
      flying == IF me.pc = "flying" THEN 1 ELSE 0
      lost   == me.lost + flying IN
  CASE me.pc \in {"flying", "backoff"} ->
         IF me.who \in ceilings THEN Bounded(Unanswered(me.requests, lost), lost)
         ELSE Unanswered(me.requests, lost)
    [] me.pc \in {"receipt", "ceiling", "unpriced"} -> UnreadLine(me.requests)
    [] OTHER -> Free

\* It stands for the requests under way, and for their bill unless it is unknown.
LEMMA DropCharges ==
  ASSUME NEW g, GenOK(gen[g]), NEW more \in Nat, more = IF gen[g].pc = "flying" THEN 1 ELSE 0,
         gen[g].pc \in Waiting4Answer \cup Waiting4Price
  PROVE  LET line == DroppedLine(g) IN
         /\ line.known \in Nat /\ line.unknown \in Nat /\ line.reqs = gen[g].requests
         /\ line.unknown > 0 \/ Owing(more) + Owing(Unpriced(gen[g])) <= line.known
<1> DEFINE x == gen[g]
           lost == x.lost + more
           line == DroppedLine(g)
<1>1. x.lost \in Nat /\ x.requests \in Nat /\ x.open = 0
  BY DEF GenOK, Waiting4Answer, Waiting4Price
<1>2. CASE x.pc \in Waiting4Answer
  <2>1. line = Bounded(Unanswered(x.requests, lost), lost) \/ line = Unanswered(x.requests, lost)
    BY <1>2, Zenon DEF DroppedLine, Waiting4Answer
  <2>2. Unpriced(x) = x.lost
    BY <1>1, <1>2 DEF Unpriced, Waiting4Answer, Waiting4Price
  <2>3. lost = x.lost + more
    OBVIOUS
  <2> HIDE DEF x, lost, line
  <2>4. lost \in Nat
    BY <1>1, <2>3
  <2>5. Owing(x.lost + more) = Owing(x.lost) + Owing(more) /\ Owing(x.lost) \in Nat /\ Owing(more) \in Nat
    BY <1>1, OwingAdds
  <2>6. lost * Ceil \in Nat /\ Owing(lost) <= lost * Ceil
    BY <2>4, OwingAdds
  <2>7. CASE line = Bounded(Unanswered(x.requests, lost), lost)
    <3>1. line.known = lost * Ceil /\ line.unknown = 0 /\ line.reqs = x.requests
      BY <2>4, <2>6, <2>7 DEF Bounded, Unanswered
    <3> QED BY <2>2, <2>3, <2>5, <2>6, <3>1 DEF x, line
  <2>8. CASE line = Unanswered(x.requests, lost)
    <3>1. line.known = 0 /\ line.unknown = lost /\ line.reqs = x.requests
      BY <2>8 DEF Unanswered
    <3>2. CASE lost = 0
      <4>1. x.lost = 0 /\ more = 0
        BY <1>1, <2>3, <3>2
      <4>2. Owing(x.lost) = 0 /\ Owing(more) = 0
        BY <4>1, OwingOfFew
      <4> QED BY <2>2, <2>4, <3>1, <4>2 DEF x, line
    <3>3. CASE lost # 0
      BY <2>4, <3>1, <3>3 DEF x, line
    <3> QED BY <3>2, <3>3
  <2> QED BY <2>1, <2>7, <2>8
<1>3. CASE x.pc \in Waiting4Price
  <2>1. line = UnreadLine(x.requests)
    BY <1>3 DEF DroppedLine, Waiting4Price
  <2> QED BY <2>1 DEF UnreadLine
<1> QED BY <1>2, <1>3

LEMMA GenDroppedKeeps == ASSUME LlmInv, NEW g \in Gens, GenDropped(g) PROVE LlmInv'
<1> DEFINE x == gen[g]
           more == IF x.pc = "flying" THEN 1 ELSE 0
           line == DroppedLine(g)
           costs == Costs(x.costs, line)
<1>1. /\ GenOK(x) /\ llmSent' = llmSent /\ llmBilled \in Nat
      /\ x.pc \in {"flying", "backoff", "receipt", "ceiling", "pricing"}
  BY DEF LlmInv, GenDropped
<1>2. llmLedger' = Costs(llmLedger, costs)
  BY Zenon DEF GenDropped, DroppedLine
<1>3. llmBilled' = llmBilled + Owing(more) /\ more \in Nat /\ Owing(more) \in Nat
  <2>1. llmBilled' = llmBilled + more * Price
    BY DEF GenDropped
  <2>2. more \in {0, 1}
    OBVIOUS
  <2> HIDE DEF more
  <2> QED BY <2>1, <2>2, LlmAssumption DEF Owing
<1>4. PICK y : gen' = [gen EXCEPT ![g] = y] /\ \E how \in GenOver : y = Finished(how)
  BY DEF GenDropped, GenOver
<1>5. x.costs.known \in Nat /\ x.costs.unknown \in Nat /\ x.costs.reqs \in Nat /\ x.requests \in Nat /\ x.open \in Nat
      /\ x.open <= x.costs.unknown
  BY <1>1 DEF GenOK
<1>6. costs.known = x.costs.known + line.known /\ costs.unknown = x.costs.unknown + line.unknown
      /\ costs.reqs = x.costs.reqs + line.reqs
  BY DEF Costs
<1>7. Unreadable(x) => x.costs.unknown > 0
  BY <1>5 DEF Unreadable
<1>8. Owing(Unpriced(x)) \in Nat /\ Covers(x) = x.costs.known + Owing(Unpriced(x))
  BY <1>1, HeldAreNat DEF Covers
<1>9. /\ line.known \in Nat /\ line.unknown \in Nat /\ line.reqs = x.requests
      /\ costs.unknown > 0 \/ Owing(more) + Owing(Unpriced(x)) <= line.known
  <2>1. CASE x.pc = "pricing"
    <3>1. line = Free
      BY <2>1 DEF DroppedLine
    <3>2. line.known = 0 /\ line.unknown = 0 /\ line.reqs = 0
      BY <3>1 DEF Free
    <3>3. x.requests = 0 /\ Unpriced(x) = x.open /\ more = 0
      BY <1>1, <1>5, <2>1 DEF GenOK, Unpriced, Waiting4Answer, Waiting4Price
    <3> HIDE DEF x, more, line, costs
    <3>4. CASE x.open = 0
      <4>1. Owing(more) = 0 /\ Owing(Unpriced(x)) = 0
        BY <3>3, <3>4, OwingOfFew
      <4> QED BY <3>2, <3>3, <4>1
    <3>5. CASE x.open # 0
      BY <1>5, <1>6, <3>2, <3>3, <3>5
    <3> QED BY <3>4, <3>5
  <2>2. CASE x.pc # "pricing"
    <3>1. x.pc \in Waiting4Answer \cup Waiting4Price
      BY <1>1, <2>2 DEF Waiting4Answer, Waiting4Price
    <3>2. /\ line.known \in Nat /\ line.unknown \in Nat /\ line.reqs = x.requests
          /\ line.unknown > 0 \/ Owing(more) + Owing(Unpriced(x)) <= line.known
      BY <1>1, <1>3, <3>1, DropCharges
    <3> HIDE DEF x, more, line, costs
    <3> QED BY <1>5, <1>6, <3>2
  <2> QED BY <2>1, <2>2
<1> HIDE DEF more, line, costs
<1>10. costs.known \in Nat /\ costs.unknown \in Nat /\ costs.reqs = RequestsOf(gen[g]) /\ llmBilled' \in Nat
  BY <1>1, <1>3, <1>5, <1>6, <1>9 DEF RequestsOf
<1>11. Unreadable(gen[g]) => costs.unknown > 0
  BY <1>5, <1>6, <1>7, <1>9
<1>12. costs.unknown > 0 \/ llmBilled' + Covers(gen[g]) <= llmBilled + costs.known
  BY <1>1, <1>3, <1>5, <1>6, <1>8, <1>9
<1> QED BY <1>1, <1>2, <1>4, <1>10, <1>11, <1>12, HandsOver

LEMMA LlmStays == ASSUME LlmInv, UNCHANGED llmVars PROVE LlmInv'
BY DEF LlmInv, llmVars, RequestsHeld, CoverHeld, RequestsOf, Covers, Unpriced, Unreadable, GenOK, Owing

LEMMA LlmStep == LlmInv /\ [LlmNext]_llmVars => LlmInv'
<1> SUFFICES ASSUME LlmInv, [LlmNext]_llmVars PROVE LlmInv'
  OBVIOUS
<1>1. CASE UNCHANGED llmVars
  BY <1>1, LlmStays
<1>2. CASE LlmNext
  <2>1. PICK g \in Gens : GenStep(g) \/ GenDropped(g)
    BY <1>2 DEF LlmNext
  <2>2. CASE GenDropped(g)
    BY <2>2, GenDroppedKeeps
  <2>3. CASE GenStep(g)
    BY <2>3, GenBeginsKeeps, TurnOpensKeeps, RetryFliesKeeps, LlmOverloadedKeeps, LlmSilentKeeps,
       LlmRefusedKeeps, LlmAnswersKeeps, ReceiptKeeps, AnswerBoundedKeeps, AnswerUnpricedKeeps,
       UnansweredBoundedKeeps, PricedFailsKeeps, JudgeKeeps, Zenon DEF GenStep
  <2> QED BY <2>1, <2>2, <2>3
<1> QED BY <1>1, <1>2

\* When all are over, nothing is held and nothing is owing.
LEMMA LlmSettles == LlmInv => LlmReceipts
<1> SUFFICES ASSUME LlmInv, AllOver
             PROVE  /\ llmLedger.reqs = llmSent
                    /\ llmLedger.unknown = 0 => llmLedger.known >= llmBilled
  BY DEF LlmReceipts, RequestsOnLedger, NeverUnderstated
<1>1. ASSUME NEW g \in Gens PROVE RequestsOf(gen[g]) = 0 /\ Covers(gen[g]) = 0 /\ ~Unreadable(gen[g])
  <2>1. GenOK(gen[g]) /\ gen[g].pc \in GenOver
    BY DEF LlmInv, AllOver, Over, GenOver
  <2>2. /\ gen[g].requests = 0 /\ gen[g].lost = 0 /\ gen[g].open = 0
        /\ gen[g].costs.known = 0 /\ gen[g].costs.unknown = 0 /\ gen[g].costs.reqs = 0
    BY <2>1 DEF GenOK, GenOver, Waiting4Answer, Waiting4Price
  <2>3. Unpriced(gen[g]) = 0
    BY <2>1, <2>2 DEF Unpriced, GenOver, Waiting4Price
  <2>4. Owing(Unpriced(gen[g])) = 0
    BY <2>3, OwingOfFew
  <2> QED BY <2>2, <2>4 DEF RequestsOf, Covers, Unreadable
<1>2. RequestsHeld = 0 /\ CoverHeld = 0
  <2> DEFINE f == [g \in Gens |-> RequestsOf(gen[g])]
             h == [g \in Gens |-> Covers(gen[g])]
  <2>1. \A g \in Gens : f[g] = 0 /\ h[g] = 0
    BY <1>1
  <2> HIDE DEF f, h
  <2>2. SumFunctionOnSet(f, Gens) = 0 /\ SumFunctionOnSet(h, Gens) = 0
    BY <2>1, SumOfZeros, LlmAssumption
  <2> QED BY <2>2 DEF f, h, RequestsHeld, CoverHeld
<1>3. /\ llmLedger.known \in Nat /\ llmLedger.unknown \in Nat /\ llmLedger.reqs \in Nat /\ llmSent \in Nat /\ llmBilled \in Nat
      /\ llmSent = llmLedger.reqs + RequestsHeld
      /\ llmLedger.unknown > 0 \/ llmBilled <= llmLedger.known + CoverHeld
  BY <1>1 DEF LlmInv
<1> QED BY <1>2, <1>3

\* However each generation ends (answered, failed, moved to the backup, or dropped
\* at an await by `Billing::drop`), its requests are on the ledger once, and the
\* ledger claims no less than the providers bill unless it has a line of unknown
\* cost: for any number of generations, retries and lookups, any price and any
\* ceiling that bounds it (openai_compatible.rs, validation.rs).
THEOREM LlmReceiptsAreKept == LlmSpec => []LlmReceipts
<1>1. LlmSpec => []LlmInv
  BY LlmBegins, LlmStep, PTL DEF LlmSpec
<1> QED BY <1>1, LlmSettles, PTL

\* A line nobody can price stops the spending of every generation: a turn and a
\* repeat are both reserved first, and `Ledger::reserve` refuses (telemetry.rs).
THEOREM UnpricedIsTheLast == LlmSpec => UnpricedStopsSpending
<1>1. ASSUME [LlmNext]_llmVars PROVE llmLedger.unknown > 0 => llmSent' = llmSent
  <2>1. CASE UNCHANGED llmVars
    BY <2>1 DEF llmVars
  <2>2. CASE LlmNext
    <3>1. PICK g \in Gens : GenStep(g) \/ GenDropped(g)
      BY <2>2 DEF LlmNext
    <3>2. CASE TurnOpens(g)
      BY <3>2 DEF TurnOpens, LlmAffordable
    <3>3. CASE RetryFlies(g)
      BY <3>3 DEF RetryFlies, LlmAffordable
    <3>4. CASE ~TurnOpens(g) /\ ~RetryFlies(g)
      BY <3>1, <3>4 DEF GenStep, GenBegins, LlmOverloaded, LlmSilent, LlmRefused, LlmAnswers, Receipt,
         AnswerBounded, AnswerUnpriced, UnansweredBounded, PricedFails, Judge, GenDropped, NotAnswered
    <3> QED BY <3>2, <3>3, <3>4
  <2> QED BY <1>1, <2>1, <2>2
<1> QED BY <1>1, PTL DEF LlmSpec, UnpricedStopsSpending

----------------------------------------------------------------------------
(* Asking Jev for the next action.                                         *)

\* The largest count that fits, found by halving, is one of the counts asked about.
LEMMA BisectWithin ==
  ASSUME NEW most \in Nat, NEW ok
  PROVE  Bisect(ok, most) \in 0..most
<1> DEFINE D == (0..most) \X (0..most)
           Mid(r) == (r[1] + r[2] + 1) \div 2
           Goes(r) == IF ok[Mid(r)] THEN <<Mid(r), r[2]>> ELSE <<r[1], Mid(r) - 1>>
           Body(f) == [r \in D |-> IF r[1] >= r[2] THEN r[1] ELSE f[Goes(r)]]
           Found == {k \in Nat : \E f \in [D -> 0..most] : \A r \in D : r[2] - r[1] < k => f[r] = Body(f)[r]}
           F == CHOOSE f : f = Body(f)
           InRange == {k \in Nat : \A r \in D : r[2] - r[1] < k => F[r] \in 0..most}
<1>1. ASSUME NEW r \in D, ~(r[1] >= r[2])
      PROVE  /\ Goes(r) \in D
             /\ Goes(r)[2] - Goes(r)[1] < r[2] - r[1]
  <2>1. r[1] \in 0..most /\ r[2] \in 0..most /\ r[1] < r[2]
    BY <1>1
  <2>2. Mid(r) \in Int /\ r[1] < Mid(r) /\ Mid(r) <= r[2]
    BY <2>1
  <2>3. Mid(r) \in 0..most /\ Mid(r) - 1 \in 0..most
    BY <2>1, <2>2
  <2> HIDE DEF Mid
  <2>4. CASE ok[Mid(r)]
    BY <2>1, <2>2, <2>3, <2>4
  <2>5. CASE ~ok[Mid(r)]
    BY <2>1, <2>2, <2>3, <2>5
  <2> QED BY <2>4, <2>5
<1>2. \A r \in D : r[1] \in 0..most /\ r[2] \in 0..most /\ r[2] - r[1] \in Int /\ r[2] - r[1] < most + 1
  OBVIOUS
<1> HIDE DEF D, Goes
<1>3. Found = Nat
  <2>1. 0 \in Found
    <3> DEFINE f == [r \in D |-> IF r[1] >= r[2] THEN r[1] ELSE r[1]]
    <3>1. f \in [D -> 0..most]
      BY <1>2
    <3>2. \A r \in D : r[2] - r[1] < 0 => f[r] = Body(f)[r]
      BY <1>2
    <3> QED BY <3>1, <3>2, Zenon
  <2>2. ASSUME NEW k \in Found PROVE k + 1 \in Found
    <3>1. PICK f \in [D -> 0..most] : \A r \in D : r[2] - r[1] < k => f[r] = Body(f)[r]
      OBVIOUS
    <3> DEFINE g == Body(f)
    <3>2. g \in [D -> 0..most]
      BY <1>1, <1>2
    <3>3. ASSUME NEW r \in D, r[2] - r[1] < k + 1
          PROVE  g[r] = Body(g)[r]
      <4>1. CASE r[1] >= r[2]
        BY <4>1
      <4>2. CASE ~(r[1] >= r[2])
        <5>1. Goes(r) \in D /\ Goes(r)[2] - Goes(r)[1] < k
          BY <1>1, <1>2, <3>3, <4>2
        <5>2. f[Goes(r)] = g[Goes(r)]
          BY <3>1, <5>1
        <5> QED BY <4>2, <5>1, <5>2
      <4> QED BY <4>1, <4>2
    <3>4. k + 1 \in Nat
      OBVIOUS
    <3>5. \A r \in D : r[2] - r[1] < k + 1 => g[r] = Body(g)[r]
      BY <3>3, Zenon
    <3> HIDE DEF g
    <3> QED BY <3>2, <3>4, <3>5, Zenon
  <2> QED BY <2>1, <2>2, NatsFromZero
<1>4. PICK f \in [D -> 0..most] : \A r \in D : r[2] - r[1] < most + 1 => f[r] = Body(f)[r]
  <2>0. most + 1 \in Nat
    OBVIOUS
  <2>1. most + 1 \in Found
    BY <1>3, <2>0, Zenon
  <2> QED BY <2>1, Zenon
<1>5. F = Body(F)
  <2>1. f = Body(f)
    BY <1>2, <1>4
  <2> QED BY <2>1, Zenon
<1> HIDE DEF F
<1>6. InRange = Nat
  <2>1. 0 \in InRange
    <3>1. ASSUME NEW r \in D, r[2] - r[1] < 0 PROVE F[r] = r[1]
      BY <1>2, <1>5, <3>1
    <3> QED BY <1>2, <3>1
  <2>2. ASSUME NEW k \in InRange PROVE k + 1 \in InRange
    <3>1. ASSUME NEW r \in D, r[2] - r[1] < k + 1 PROVE F[r] \in 0..most
      <4>1. CASE r[1] >= r[2]
        BY <1>2, <1>5, <4>1
      <4>2. CASE ~(r[1] >= r[2])
        <5>1. Goes(r) \in D /\ Goes(r)[2] - Goes(r)[1] < k
          BY <1>1, <1>2, <3>1, <4>2
        <5>2. F[Goes(r)] \in 0..most
          BY <5>1
        <5> QED BY <1>5, <4>2, <5>2
      <4> QED BY <4>1, <4>2
    <3> QED BY <3>1
  <2> QED BY <2>1, <2>2, NatsFromZero
<1>7. <<0, most>> \in D /\ F[<<0, most>>] \in 0..most
  <2>1. <<0, most>> \in D /\ <<0, most>>[2] - <<0, most>>[1] < most + 1
    BY DEF D
  <2>2. most + 1 \in InRange
    BY <1>6
  <2> QED BY <2>1, <2>2
<1>8. Bisect(ok, most) = F[<<0, most>>]
  BY DEF Bisect, F, Body, Goes, Mid, D
<1> QED BY <1>7, <1>8

\* Every cached answer was judged on what the cache is for, and the scores of
\* the pass under way are among them.
CacheIsOfItsKey ==
  /\ \A a \in rcache.answers : a.judged = rcache.key
  /\ pph = "scoring" => rcache.key = CacheKey /\ \A a \in scores : a.judged = rcache.key
\* What is offered are controls of the observation, whatever was cut from it.
OffersControls ==
  /\ DOMAIN obsn = {"doc", "ctx", "controls", "texts", "hist", "dialog"}
  /\ Len(Controls) \in Nat /\ ctl \subseteq 1..Len(Controls)
CacheShaped == rcache = [key |-> rcache.key, answers |-> rcache.answers]
PolInv == CacheShaped /\ CacheIsOfItsKey /\ OffersControls

LEMMA TrimKeeps ==
  ASSUME DOMAIN obsn = {"doc", "ctx", "controls", "texts", "hist", "dialog"}, NEW keeping, NEW o \in Trim(keeping)
  PROVE  DOMAIN o = DOMAIN obsn /\ o.controls = Controls
BY DEF Trim, Controls

LEMMA SubsetsOffered ==
  ASSUME OffersControls
  PROVE  /\ ProtectedFirst(MaxOffered) \subseteq ctl /\ \A s \in OnscreenRung : s \subseteq ctl
         /\ \A s \in Cap \cup Shortlisted : s \subseteq ctl
BY DEF ProtectedFirst, OnscreenRung, Cap, Shortlisted, LargestPrefix, KeepIndices

LEMMA ScoringStarts ==
  ASSUME CacheShaped, CacheIsOfItsKey, StartScoring, UNCHANGED obsn
  PROVE  CacheShaped' /\ CacheIsOfItsKey'
<1>1. rcache' = Prepare(rcache) /\ scores' \subseteq rcache'.answers /\ CacheKey' = CacheKey
  BY DEF StartScoring, CacheKey
<1>2. CASE rcache.key = CacheKey
  BY <1>1, <1>2 DEF Prepare, CacheShaped, CacheIsOfItsKey
<1>3. CASE rcache.key # CacheKey
  BY <1>1, <1>3 DEF Prepare, CacheShaped, CacheIsOfItsKey
<1> QED BY <1>2, <1>3

LEMMA PolBegins == PolInit => PolInv
BY PolAssumption DEF PolInit, PolInv, CacheShaped, CacheIsOfItsKey, OffersControls, Controls

LEMMA PolStep == PolInv /\ [PolNext]_polVars => PolInv'
<1> SUFFICES ASSUME PolInv, [PolNext]_polVars PROVE PolInv'
  OBVIOUS
<1> USE DEF PolInv
<1>1. CASE DecideBegins
  BY <1>1, PolAssumption DEF DecideBegins, CacheShaped, CacheIsOfItsKey, OffersControls, Controls
<1>2. CASE Open \/ Shortlists
  <2>1. OffersControls'
    BY <1>2 DEF Open, Shortlists, OffersControls, Controls
  <2>2. CASE StartScoring
    BY <1>2, <2>1, <2>2, ScoringStarts DEF Open, Shortlists
  <2>3. CASE ~StartScoring
    BY <1>2, <2>1, <2>3 DEF Open, Shortlists, CacheShaped, CacheIsOfItsKey
  <2> QED BY <2>2, <2>3
<1>3. CASE BatchAnswers
  <2>1. PICK q \in toScore, s \in 0..2 :
          /\ rcache' = [rcache EXCEPT !.answers = @ \cup {[question |-> q, score |-> s, judged |-> CacheKey]}]
          /\ scores' = scores \cup {[question |-> q, score |-> s, judged |-> CacheKey]}
    BY <1>3 DEF BatchAnswers
  <2>2. pph = "scoring" /\ CacheKey' = CacheKey /\ OffersControls'
    BY <1>3 DEF BatchAnswers, CacheKey, OffersControls, Controls
  <2>3. rcache'.key = rcache.key /\ rcache'.answers = rcache.answers \cup {[question |-> q, score |-> s, judged |-> CacheKey]}
    BY <2>1 DEF CacheShaped
  <2>4. CacheShaped'
    BY <2>1 DEF CacheShaped
  <2> QED BY <2>1, <2>2, <2>3, <2>4 DEF CacheIsOfItsKey
<1>4. CASE BatchFails \/ PageRedraws \/ RefusedAsTooLarge \/ JevAnswers \/ JevPicks \/ Fit
  BY <1>4 DEF BatchFails, PageRedraws, RefusedAsTooLarge, JevAnswers, JevPicks, Fit, Settled,
     CacheShaped, CacheIsOfItsKey, CacheKey, OffersControls, Controls
<1>5. CASE Shortlist \/ DropsOffscreen \/ Caps \/ RetriesRunOut
  <2>1. ctl' \subseteq ctl /\ UNCHANGED <<obsn, scores, rcache>>
    <3>1. CASE Shortlist
      BY <3>1, SubsetsOffered DEF Shortlist
    <3>2. CASE DropsOffscreen
      BY <3>2, SubsetsOffered DEF DropsOffscreen, OnlyRung
    <3>3. CASE Caps
      BY <3>3, SubsetsOffered DEF Caps, OnlyRung
    <3>4. CASE RetriesRunOut
      BY <3>4, SubsetsOffered DEF RetriesRunOut, Shed
    <3> QED BY <1>5, <3>1, <3>2, <3>3, <3>4
  <2>2. pph' # "scoring"
    <3>1. CASE Shortlist
      BY <3>1 DEF Shortlist
    <3>2. CASE DropsOffscreen \/ Caps
      BY <3>2 DEF DropsOffscreen, Caps
    <3>4. CASE RetriesRunOut
      BY <3>4 DEF RetriesRunOut
    <3> QED BY <1>5, <3>1, <3>2, <3>4
  <2> QED BY <2>1, <2>2 DEF CacheShaped, CacheIsOfItsKey, CacheKey, OffersControls, Controls
<1>6. CASE Trims \/ CutsBare
  <2>1. UNCHANGED <<ctl, scores, rcache>> /\ pph' # "scoring"
    BY <1>6 DEF Trims, CutsBare, OnlyRung, TrimRung, LowerRungs
  <2>2. obsn' = obsn \/ \E keeping : obsn' \in Trim(keeping)
    BY <1>6 DEF Trims, CutsBare
  <2>3. DOMAIN obsn' = DOMAIN obsn /\ obsn'.controls = Controls
    BY <2>2, TrimKeeps DEF OffersControls, Controls
  <2> QED BY <2>1, <2>3 DEF CacheShaped, CacheIsOfItsKey, OffersControls, Controls
<1>7. CASE UNCHANGED polVars
  BY <1>7 DEF polVars, CacheShaped, CacheIsOfItsKey, CacheKey, OffersControls, Controls
<1> QED BY <1>1, <1>2, <1>3, <1>4, <1>5, <1>6, <1>7 DEF PolNext, PolWork

\* On any pages, with any limits and whatever Jev refuses: the scores a decision works
\* with were judged on its own document, context and history, though an earlier
\* decision may have been dropped with its scores half cached
\* (policy.rs `RelevanceCache`).
THEOREM ScoresAreOfThisPage == PolSpec => []ScoresOfThisPage
<1>1. PolInv => ScoresOfThisPage
  BY DEF PolInv, CacheIsOfItsKey, ScoresOfThisPage
<1> QED BY <1>1, PolBegins, PolStep, PTL DEF PolSpec

LEMMA LeastAndMost ==
  ASSUME NEW a \in Int, NEW b \in Int
  PROVE  /\ Min({a, b}) \in {a, b} /\ Min({a, b}) <= a /\ Min({a, b}) <= b
         /\ Max({a, b}) \in {a, b} /\ Max({a, b}) >= a /\ Max({a, b}) >= b
<1>1. \E x \in {a, b} : \A y \in {a, b} : x =< y
  OBVIOUS
<1>2. \E x \in {a, b} : \A y \in {a, b} : x >= y
  OBVIOUS
<1>3. Min({a, b}) \in {a, b} /\ \A y \in {a, b} : Min({a, b}) =< y
  BY <1>1 DEF Min
<1>4. Max({a, b}) \in {a, b} /\ \A y \in {a, b} : Max({a, b}) >= y
  BY <1>2 DEF Max
<1> QED BY <1>3, <1>4

LEMMA MaxOfferedIsNat == MaxOffered \in Nat
<1>0. PolGroup \in Int /\ PolOptions \in Int /\ PolGroup \in Nat /\ PolOptions \in Nat
  BY PolAssumption
<1>1. Size \in Nat
  <2>1. Min({PolGroup, PolOptions}) \in {PolGroup, PolOptions}
    BY <1>0, LeastAndMost, Zenon
  <2> QED BY <1>0, <2>1 DEF Size
<1> QED BY <1>1, PolAssumption DEF MaxOffered

LEMMA OfferedFinite ==
  ASSUME OffersControls, NEW s \in SUBSET ctl
  PROVE  IsFiniteSet(s) /\ Cardinality(s) \in Nat
<1>1. IsFiniteSet(1..Len(Controls))
  BY FS_Interval DEF OffersControls
<1> QED BY <1>1, FS_Subset, FS_CardinalityType DEF OffersControls

\* The order of the last rung puts what the task has set first.
LEMMA SetStateIsFirst ==
  ASSUME OffersControls, NEW i \in ctl, NEW j \in ctl, Protected(i), ~Protected(j)
  PROVE  CapOrder[i] \in Nat /\ CapOrder[j] \in Nat /\ CapOrder[i] < CapOrder[j]
<1> DEFINE upTo(k) == {x \in ctl : (Protected(x) /\ ~Protected(k)) \/ (Protected(x) = Protected(k) /\ x <= k)}
<1>1. upTo(i) \subseteq upTo(j)
  OBVIOUS
<1>2. j \in upTo(j) /\ j \notin upTo(i)
  <2>1. j \in Int /\ j <= j
    BY DEF OffersControls
  <2>2. j \in upTo(j)
    BY <2>1
  <2>3. j \notin upTo(i)
    OBVIOUS
  <2> QED BY <2>2, <2>3
<1>3. IsFiniteSet(upTo(i)) /\ IsFiniteSet(upTo(j)) /\ Cardinality(upTo(i)) \in Nat /\ Cardinality(upTo(j)) \in Nat
  BY OfferedFinite
<1>4. CapOrder[i] = Cardinality(upTo(i)) /\ CapOrder[j] = Cardinality(upTo(j))
  BY DEF CapOrder
<1> HIDE DEF upTo
<1>5. Cardinality(upTo(i)) <= Cardinality(upTo(j)) /\ Cardinality(upTo(i)) # Cardinality(upTo(j))
  BY <1>1, <1>2, <1>3, FS_Subset
<1> QED BY <1>3, <1>4, <1>5

LEMMA CapKeepsSetState ==
  ASSUME OffersControls, NEW keeping \in Cap, NEW i \in ctl \ keeping, Protected(i), NEW j \in keeping
  PROVE  Protected(j)
<1>1. Cardinality(ctl) - 1 \in Nat
  <2>1. ctl # {}
    BY DEF Cap
  <2> QED BY <2>1, OfferedFinite, FS_EmptySet
<1> DEFINE most == Cardinality(ctl) - 1
           ok == [n \in 0..most |-> FitsNow(KeepIndices(CapOrder, n))]
<1>2. keeping = KeepIndices(CapOrder, Bisect(ok, most))
  BY DEF Cap, LargestPrefix
<1>3. Bisect(ok, most) \in 0..most
  BY <1>1, BisectWithin
<1> HIDE DEF ok, most
<1>4. Bisect(ok, most) \in Int
  BY <1>1, <1>3 DEF most
<1> DEFINE n == Bisect(ok, most)
<1> HIDE DEF n
<1>5. n \in Int /\ j \in ctl /\ CapOrder[j] <= n /\ ~(CapOrder[i] <= n)
  BY <1>2, <1>4 DEF KeepIndices, n
<1> QED BY <1>5, SetStateIsFirst

LEMMA ShortlistKeepsSetState ==
  ASSUME OffersControls, NEW keeping \in Shortlisted, NEW i \in ctl, Protected(i)
  PROVE  i \in keeping
<1> DEFINE prot == ctl \ Candidates
           rank == [k \in ctl |-> IF k \in prot THEN 0 ELSE Cardinality({j \in Candidates : Ahead(j, k)})]
           most == Min({Cardinality(Candidates), Max({0, MaxOffered - Cardinality(prot)})})
           ok == [n \in 0..most |-> FitsNow(KeepIndices(rank, n))]
<1>1. Cardinality(Candidates) \in Nat /\ Cardinality(prot) \in Nat
  BY OfferedFinite DEF Candidates
<1>2. Max({0, MaxOffered - Cardinality(prot)}) \in Nat
  <2> DEFINE room == MaxOffered - Cardinality(prot)
  <2>1. room \in Int /\ 0 \in Int
    BY <1>1, MaxOfferedIsNat
  <2> HIDE DEF room
  <2>2. Max({0, room}) \in {0, room} /\ Max({0, room}) >= 0
    BY <2>1, LeastAndMost, Zenon
  <2> QED BY <2>1, <2>2 DEF room
<1>3. most \in Nat
  <2> DEFINE a == Cardinality(Candidates)
             b == Max({0, MaxOffered - Cardinality(prot)})
  <2>1. a \in Int /\ b \in Int /\ a \in Nat /\ b \in Nat
    BY <1>1, <1>2
  <2> HIDE DEF a, b
  <2>2. Min({a, b}) \in {a, b}
    BY <2>1, LeastAndMost, Zenon
  <2> QED BY <2>1, <2>2 DEF a, b
<1>4. keeping = KeepIndices(rank, Bisect(ok, most))
  BY DEF Shortlisted, LargestPrefix
<1>5. rank[i] = 0
  BY DEF Candidates
<1> HIDE DEF ok, most, rank
<1>6. Bisect(ok, most) \in 0..most
  BY <1>3, BisectWithin
<1>7. 0 <= Bisect(ok, most)
  BY <1>3, <1>6
<1> QED BY <1>4, <1>5, <1>7 DEF KeepIndices

\* Every cut that makes a prompt fit, the pruning by score and the bisection included,
\* leaves the controls the task has set in view while another that may go is there,
\* or drops the off-screen ones as a rung of the ladder (policy.rs).
THEOREM SetStateDoesGoLast == PolSpec => SetStateGoesLast
<1> DEFINE SetLast == \A i \in ctl : (i \notin ctl' /\ Protected(i) /\ obsn' = obsn /\ red' # "onscreen_only") => \A j \in ctl' : Protected(j)
<1>1. ASSUME PolInv, [PolNext]_polVars PROVE SetLast
  <2> SUFFICES ASSUME NEW i \in ctl, i \notin ctl', Protected(i), obsn' = obsn, red' # "onscreen_only", NEW j \in ctl'
               PROVE  Protected(j)
    OBVIOUS
  <2>0. OffersControls
    BY <1>1 DEF PolInv
  <2>1. CASE DecideBegins
    BY <2>0, <2>1 DEF DecideBegins, OffersControls, Controls
  <2>2. CASE Shortlist
    <3>1. CASE scores # {}
      BY <2>0, <2>2, <3>1, ShortlistKeepsSetState DEF Shortlist
    <3>2. CASE scores = {}
      BY <2>2, <3>2 DEF Shortlist, ProtectedFirst
    <3> QED BY <3>1, <3>2
  <2>3. CASE Caps
    BY <2>0, <2>3, CapKeepsSetState DEF Caps
  <2>4. CASE DropsOffscreen \/ RetriesRunOut
    BY <2>4 DEF DropsOffscreen, RetriesRunOut
  <2>5. CASE \/ Open \/ BatchAnswers \/ BatchFails \/ Fit \/ Trims \/ Shortlists \/ CutsBare
             \/ RefusedAsTooLarge \/ JevAnswers \/ JevPicks \/ PageRedraws \/ UNCHANGED polVars
    <3>1. UNCHANGED ctl
      BY <2>5 DEF Open, BatchAnswers, BatchFails, Fit, Trims, Shortlists, CutsBare, RefusedAsTooLarge, JevAnswers, JevPicks,
         PageRedraws, polVars
    <3> QED BY <3>1
  <2> QED BY <1>1, <2>1, <2>2, <2>3, <2>4, <2>5 DEF PolNext, PolWork
<1>2. PolInv /\ [PolNext]_polVars => [SetLast]_polVars
  BY <1>1
<1>3. SetStateGoesLast <=> [][SetLast]_polVars
  BY DEF SetStateGoesLast
<1> QED BY <1>2, <1>3, PolBegins, PolStep, PTL DEF PolSpec

----------------------------------------------------------------------------
(* Acting: the narrowing of a source, the gates, and where a secret goes.  *)

\* A product grows with its factor.
LEMMA TimesMonotone ==
  ASSUME NEW p \in Nat, NEW x \in Int, NEW y \in Int, x <= y
  PROVE  p * x <= p * y
<1>1. p * (y - x) \in Nat
  OBVIOUS
<1>2. p * (y - x) = p * y - p * x
  OBVIOUS
<1> QED BY <1>1, <1>2

\* A division rounded down leaves less than what it divides by.
LEMMA Divided ==
  ASSUME NEW a \in Nat, NEW d \in Nat \ {0}
  PROVE  a \div d \in Nat /\ d * (a \div d) <= a /\ a < d * (a \div d) + d
<1>1. a \div d \in Int /\ a = d * (a \div d) + (a % d) /\ a % d \in 0..(d - 1)
  OBVIOUS
<1>2. a \div d \in Nat
  <2> DEFINE q == a \div d
  <2> SUFFICES ASSUME q <= 0 - 1 PROVE FALSE
    BY <1>1
  <2> HIDE DEF q
  <2>1. d * q <= d * (0 - 1)
    BY <1>1, TimesMonotone DEF q
  <2>2. d * (0 - 1) = 0 - d
    OBVIOUS
  <2>3. d * q \in Int /\ a = d * q + (a % d) /\ a % d < d /\ a % d \in Int
    BY <1>1 DEF q
  <2> QED BY <2>1, <2>2, <2>3
<1> QED BY <1>1, <1>2

LEMMA Multiple ==
  ASSUME NEW q \in Nat, NEW d \in Nat \ {0}
  PROVE  (d * q) % d = 0
OBVIOUS

----------------------------------------------------------------------------
(* A decision turned into an action.                                       *)

TextSteps == {"text", "sensitive", "narrow", "source", "end", "start", "secret"}

\* Only a fill has a text, and only what may commit or download passes a gate.
RightStep ==
  /\ aph \in TextSteps => adec.op = "fill"
  /\ aph \in {"download", "gate"} => adec.op # "fill" /\ source = NoSource
  /\ aph \in {"narrow", "source", "end", "start"} => TheField.kind # "password"

\* A secret chosen for a password is the one its role asks for, and it is looked up
\* before it is typed.
SecretChosen ==
  aph = "secret" =>
    /\ source.from = "secret"
    /\ TheField.kind = "password" =>
         /\ source.replaces <=> source.secret = "new_password"
         /\ TheField.role # "unclear" => (source.replaces <=> TheField.role = "replacement")

\* The words a value is picked from.
PicksTyped ==
  /\ picks \in Span /\ picks.from <= picks.to
  /\ wanted \in Span /\ wanted.from < wanted.to
  /\ aph = "text" => picks = Whole

\* The ends of a value, while they are asked for again.
EndsPicked ==
  /\ ends = [first |-> ends.first, last |-> ends.last]
  /\ aph \in {"end", "start"} => source.from = "task" /\ {ends.first, ends.last} \subseteq WordsLeft
  /\ aph = "start" => ends.first <= ends.last

ActInv == RightStep /\ SecretChosen /\ PicksTyped /\ EndsPicked /\ GatesHold /\ SecretsStayHome /\ CopiedForwards /\ NarrowKeepsShort

LEMMA ActBegins == ActInit => ActInv
<1> SUFFICES ASSUME ActInit PROVE ActInv
  OBVIOUS
<1>1. aph = "idle" /\ forbidden = "unset" /\ source = NoSource /\ ends = NoEnds /\ picks = Whole /\ wanted \in {s \in Span : s.from < s.to}
  BY DEF ActInit
<1>2. PicksTyped
  BY <1>1, ActAssumption DEF PicksTyped, Whole, Span
<1>3. EndsPicked
  BY <1>1 DEF EndsPicked, NoEnds
<1> QED BY <1>1, <1>2, <1>3 DEF ActInv, RightStep, SecretChosen, GatesHold, SecretsStayHome, CopiedForwards, NarrowKeepsShort, TextSteps

\* The width of the parts: a division rounded up, and no less for more words.
LEMMA PartsAreWide ==
  ASSUME NEW n \in Nat, MaxChoice < n
  PROVE  /\ StepOfParts(n) \in Nat \ {0} /\ StepOfParts(MaxChoice + 1) \in Nat
         /\ StepOfParts(MaxChoice + 1) <= StepOfParts(n)
         /\ StepOfParts(n) + StepOfParts(MaxChoice + 1) <= n
<1> DEFINE pieces == IF MaxChoice - 1 < SourceParts THEN MaxChoice - 1 ELSE SourceParts
           least == MaxChoice + 1
           st(m) == (m + pieces - 1) \div pieces
<1>1. pieces \in Nat \ {0} /\ pieces >= 2 /\ (pieces = 2 => MaxChoice = 3) /\ MaxChoice \in Nat /\ MaxChoice >= 3
  BY ActAssumption
<1>2. StepOfParts(n) = st(n) /\ StepOfParts(least) = st(least)
  BY DEF StepOfParts
<1> HIDE DEF pieces
<1>3. ASSUME NEW m \in Nat \ {0}
      PROVE  st(m) \in Nat \ {0} /\ m <= pieces * st(m) /\ pieces * (st(m) - 1) < m
  <2>1. m + pieces - 1 \in Nat
    BY <1>1
  <2> DEFINE q == st(m)
  <2>2. q \in Nat /\ pieces * q <= m + pieces - 1 /\ m + pieces - 1 < pieces * q + pieces
    BY <1>1, <2>1, Divided
  <2> HIDE DEF q
  <2>3. pieces * q \in Int /\ pieces * (q - 1) = pieces * q - pieces
    BY <1>1, <2>2
  <2>4. q # 0
    <3>1. ASSUME q = 0 PROVE pieces * q = 0
      BY <1>1, <3>1
    <3> QED BY <1>1, <2>2, <3>1
  <2>5. q \in Nat \ {0} /\ m <= pieces * q /\ pieces * (q - 1) < m
    BY <1>1, <2>2, <2>3, <2>4
  <2> QED BY <2>5 DEF q
<1> DEFINE s == st(n)
           s0 == st(least)
<1>4. /\ s \in Nat \ {0} /\ n <= pieces * s /\ pieces * (s - 1) < n
      /\ s0 \in Nat \ {0} /\ least <= pieces * s0 /\ pieces * (s0 - 1) < least /\ least <= n /\ least = MaxChoice + 1
  BY <1>1, <1>3
<1> HIDE DEF s, s0, st, least
<1>5. s0 <= s
  <2> SUFFICES ASSUME s <= s0 - 1 PROVE FALSE
    BY <1>4
  <2>1. pieces * s <= pieces * (s0 - 1)
    BY <1>1, <1>4, TimesMonotone
  <2>2. pieces * s \in Int /\ pieces * (s0 - 1) \in Int /\ least \in Int
    BY <1>1, <1>4
  <2> QED BY <1>4, <2>1, <2>2
<1>6. s + s0 <= n
  <2>1. CASE pieces = 2
    <3>1. least = 4 /\ 2 * (s0 - 1) < 4 /\ 2 * (s - 1) < n
      BY <1>1, <1>4, <2>1
    <3> QED BY <1>4, <3>1
  <2>2. CASE pieces >= 3
    <3>1. (s - 1) * 3 <= (s - 1) * pieces
      BY <1>1, <1>4, <2>2, TimesMonotone
    <3>2. pieces * (s - 1) = (s - 1) * pieces
      BY <1>1, <1>4
    <3>3. 3 * (s - 1) < n
      BY <1>1, <1>4, <3>1, <3>2
    <3>4. 3 * s <= n + 2 /\ n >= 4
      BY <1>1, <1>4, <3>3
    <3> QED BY <1>4, <1>5, <3>4
  <2> QED BY <1>1, <2>1, <2>2
<1> QED BY <1>2, <1>4, <1>5, <1>6 DEF s, s0, least

\* A value no longer than the narrowest part is whole in one of the parts.
LEMMA SomePartHolds ==
  ASSUME PicksTyped, ~(Words(picks) <= MaxChoice), Words(wanted) <= StepOfParts(MaxChoice + 1), Within(wanted, picks)
  PROVE  \E p \in Parts : Within(wanted, p)
<1> DEFINE n == Words(picks)
           step == StepOfParts(n)
           a == wanted.from - picks.from
           k == step * (a \div step)
           part == [from |-> picks.from + k, to |-> LeastOf(picks.from + k + WidthOf(n), picks.to)]
<1>1. /\ picks.from \in Nat /\ picks.to \in Nat /\ wanted.from \in Nat /\ wanted.to \in Nat /\ wanted.from < wanted.to
      /\ picks.from <= wanted.from /\ wanted.to <= picks.to
  BY ActAssumption DEF PicksTyped, Span, Within
<1>2. n \in Nat /\ n = picks.to - picks.from /\ MaxChoice < n /\ a \in Nat /\ a < n
  BY <1>1, ActAssumption DEF Words
<1> HIDE DEF n
<1>3. step \in Nat \ {0} /\ wanted.to - wanted.from <= step /\ step + (wanted.to - wanted.from) <= n
  <2>1. Words(wanted) = wanted.to - wanted.from
    BY DEF Words
  <2> QED BY <1>1, <1>2, <2>1, PartsAreWide
<1> HIDE DEF step, a
<1>4. k \in Nat /\ k <= a /\ a < k + step /\ k % step = 0
  <2>1. a \div step \in Nat /\ step * (a \div step) <= a /\ a < step * (a \div step) + step
    BY <1>2, <1>3, Divided
  <2>2. k \in Nat
    BY <1>3, <2>1
  <2> QED BY <1>3, <2>1, <2>2, Multiple
<1> HIDE DEF k
<1>5. k \in 0..(n - 1)
  BY <1>2, <1>4
<1>6. part \in Parts
  BY <1>4, <1>5 DEF Parts, n, step
<1>7. WidthOf(n) \in Int /\ (WidthOf(n) = 2 * step \/ WidthOf(n) = n - 1)
  BY <1>2, <1>3 DEF WidthOf, LeastOf, step
<1>8. wanted.to <= picks.from + k + WidthOf(n)
  <2>0. wanted.to = picks.from + a + (wanted.to - wanted.from)
    BY <1>1 DEF a
  <2>1. CASE WidthOf(n) = 2 * step
    BY <1>1, <1>2, <1>3, <1>4, <2>0, <2>1
  <2>2. CASE WidthOf(n) = n - 1 /\ k >= 1
    BY <1>1, <1>2, <1>4, <2>2
  <2>3. CASE WidthOf(n) = n - 1 /\ k = 0
    BY <1>1, <1>2, <1>3, <1>4, <2>0, <2>3
  <2> QED BY <1>4, <1>7, <2>1, <2>2, <2>3
<1>9. part.from = picks.from + k /\ wanted.to <= part.to
  BY <1>1, <1>8 DEF LeastOf
<1>10. picks.from + k <= wanted.from
  BY <1>1, <1>4 DEF a
<1> QED BY <1>6, <1>9, <1>10 DEF Within

LEMMA PartsTyped ==
  ASSUME PicksTyped, ~(Words(picks) <= MaxChoice), NEW p \in Parts
  PROVE  p \in Span /\ p.from <= p.to
<1> DEFINE n == Words(picks)
<1>1. picks.from \in 0..TaskWords /\ picks.to \in 0..TaskWords
  BY DEF PicksTyped, Span
<1>2. n \in Nat /\ n = picks.to - picks.from /\ MaxChoice < n
  BY <1>1, ActAssumption DEF Words, PicksTyped
<1>3. StepOfParts(n) \in Nat \ {0}
  BY <1>2, PartsAreWide
<1>4. WidthOf(n) \in Nat
  BY <1>2, <1>3, ActAssumption DEF WidthOf, LeastOf
<1>5. PICK k \in 0..(n - 1) : p = [from |-> picks.from + k, to |-> LeastOf(picks.from + k + WidthOf(n), picks.to)]
  BY DEF Parts
<1> HIDE DEF n
<1>6. LeastOf(picks.from + k + WidthOf(n), picks.to) \in 0..TaskWords /\ picks.from + k \in 0..TaskWords
      /\ picks.from + k <= LeastOf(picks.from + k + WidthOf(n), picks.to)
  BY <1>1, <1>2, <1>4, ActAssumption DEF LeastOf
<1> QED BY <1>5, <1>6 DEF Span

LEMMA ActStep == ActInv /\ [ActNext]_actVars => ActInv'
<1> SUFFICES ASSUME ActInv, [ActNext]_actVars PROVE ActInv'
  OBVIOUS
<1>0. RightStep /\ SecretChosen /\ PicksTyped /\ EndsPicked /\ GatesHold /\ SecretsStayHome /\ CopiedForwards /\ NarrowKeepsShort
  BY DEF ActInv
<1>1. CASE Begins
  <2>1. /\ aph' \in FirstStep(adec') /\ source' = NoSource /\ picks' = Whole /\ ends' = NoEnds
        /\ UNCHANGED <<authorized, forbidden, saidNo, handed, wanted, redacts>>
    BY <1>1 DEF Begins
  <2>2. /\ aph' \in {"download", "gate", "ready", "stopped", "text", "refused"}
        /\ aph' = "text" => adec'.op = "fill"
        /\ aph' \in {"download", "gate", "ready"} => adec'.op # "fill"
        /\ aph' = "ready" => adec'.op \notin {"click", "drag", "navigate"}
    <3>1. adec'.op \in {"navigate", "drag"} \/ adec'.op = "click" \/ adec'.op = "dialog" \/ adec'.op = "fill" \/ adec'.op = "select"
          \/ adec'.op = "upload" \/ adec'.op \notin {"navigate", "drag", "click", "dialog", "fill", "select", "upload"}
      OBVIOUS
    <3> QED BY <2>1, <3>1 DEF FirstStep
  <2>3. PicksTyped'
    BY <2>1, <1>0, ActAssumption DEF PicksTyped, Whole, Span
  <2>4. RightStep' /\ SecretChosen' /\ EndsPicked'
    BY <2>1, <2>2 DEF RightStep, SecretChosen, EndsPicked, TextSteps, NoEnds
  <2>5. GatesHold'
    BY <1>0, <2>1, <2>2 DEF GatesHold
  <2>6. SecretsStayHome' /\ CopiedForwards' /\ NarrowKeepsShort'
    BY <2>1, <2>2 DEF SecretsStayHome, CopiedForwards, NarrowKeepsShort, NoSource
  <2> QED BY <2>3, <2>4, <2>5, <2>6 DEF ActInv
<1>2. CASE GateDownload
  <2>1. /\ aph = "download" /\ aph' \in {"gate", "refused"} /\ (forbidden' = "yes" => saidNo')
        /\ UNCHANGED <<adec, authorized, judged, commits, handed, picks, wanted, source, ends, redacts>>
    BY <1>0, <1>2 DEF GateDownload, KeepForbidden, GatesHold
  <2> QED BY <1>0, <2>1 DEF ActInv, RightStep, SecretChosen, PicksTyped, EndsPicked, GatesHold, SecretsStayHome, CopiedForwards,
        NarrowKeepsShort, TextSteps, TheField, WordsLeft
<1>3. CASE GateQuestion
  <2>1. PICK a \in GateAnswers :
          /\ judged' = a
          /\ IF Reversible(a) /\ KeepsSomething(a) /\ ~AskedFor(a) THEN Refuses /\ UNCHANGED <<commits, handed>>
             ELSE IF Proceeds(a)
             THEN aph' = "ready" /\ commits' = ~Reversible(a) /\ handed' = (handed \/ ~Reversible(a))
             ELSE Stops /\ UNCHANGED <<commits, handed>>
    BY <1>3 DEF GateQuestion
  <2>2. aph = "gate" /\ aph' \in {"ready", "refused", "stopped"} /\ UNCHANGED <<adec, authorized, forbidden, saidNo, picks, wanted, source, ends, redacts>>
    BY <1>3, <2>1 DEF GateQuestion, Refuses, Stops
  <2>3. a.requested = "high" => authorized
    BY DEF GateAnswers, Asked
  <2>4. GatesHold'
    BY <1>0, <2>1, <2>2, <2>3 DEF GatesHold, Proceeds, AskedFor, Reversible, Refuses, Stops
  <2>5. source = NoSource /\ adec.op # "fill"
    BY <1>0, <2>2 DEF RightStep
  <2> QED BY <1>0, <2>2, <2>4, <2>5 DEF ActInv, RightStep, SecretChosen, PicksTyped, EndsPicked, SecretsStayHome, CopiedForwards,
        NarrowKeepsShort, TextSteps, TheField, WordsLeft, NoSource
<1>4. CASE Text
  <2>1. aph = "text" /\ UNCHANGED <<adec, authorized, forbidden, saidNo, judged, commits, handed, picks, wanted, ends, redacts>>
    BY <1>4 DEF Text
  <2>2. adec.op = "fill" /\ picks = Whole
    BY <1>0, <2>1 DEF RightStep, TextSteps, PicksTyped
  <2>3. \/ TheField.kind # "password" /\ aph' = "ready" /\ source' = [NoSource EXCEPT !.from = "saved"]
        \/ TheField.kind # "password" /\ aph' = "secret" /\ source' = [NoSource EXCEPT !.from = "secret", !.secret = TheField.saved]
        \/ TheField.kind = "password" /\ aph' = "sensitive"
        \/ TheField.kind # "password" /\ aph' = "narrow"
    BY <1>4 DEF Text
  <2>4. Within(wanted, picks)
    BY <1>0, <2>2, ActAssumption DEF PicksTyped, Span, Whole, Within
  <2>5. PicksTyped'
    BY <1>0, <2>1, <2>3 DEF PicksTyped
  <2>6. EndsPicked'
    BY <1>0, <2>1, <2>3 DEF EndsPicked
  <2>7. NarrowKeepsShort'
    BY <2>1, <2>3, <2>4 DEF NarrowKeepsShort, Within
  <2> QED BY <1>0, <2>1, <2>2, <2>3, <2>5, <2>6, <2>7 DEF ActInv, RightStep, SecretChosen, GatesHold, SecretsStayHome, CopiedForwards,
        TextSteps, TheField, NoSource
<1>5. CASE SensitiveText
  <2>1. aph = "sensitive" /\ UNCHANGED <<adec, authorized, forbidden, saidNo, judged, commits, handed, picks, wanted, ends, redacts>>
    BY <1>5 DEF SensitiveText
  <2>2. PICK role \in (IF TheField.role = "unclear" THEN {"replacement", "current", "unclear"} ELSE {TheField.role}) :
          LET names == IF role = "replacement" THEN Usable \cap {"new_password"} ELSE Usable \ {"new_password"} IN
          IF role = "unclear" \/ names = {} THEN Stops /\ UNCHANGED source
          ELSE \E name \in names :
                 aph' = "secret" /\ source' = [from |-> "secret", secret |-> name, replaces |-> role = "replacement"]
    BY <1>5 DEF SensitiveText
  <2>3. aph' \in {"stopped", "secret"} /\ SecretChosen'
    <3> DEFINE names == IF role = "replacement" THEN Usable \cap {"new_password"} ELSE Usable \ {"new_password"}
    <3>1. CASE role = "unclear" \/ names = {}
      BY <2>2, <3>1 DEF Stops, SecretChosen
    <3>2. CASE ~(role = "unclear" \/ names = {})
      <4>1. PICK name \in names : aph' = "secret" /\ source' = [from |-> "secret", secret |-> name, replaces |-> role = "replacement"]
        BY <2>2, <3>2
      <4>2. source'.from = "secret" /\ source'.secret = name /\ source'.replaces = (role = "replacement")
        BY <4>1
      <4>3. name = "new_password" <=> role = "replacement"
        OBVIOUS
      <4>4. TheField' = TheField /\ (TheField.role # "unclear" => role = TheField.role)
        BY <2>1 DEF TheField
      <4> QED BY <4>1, <4>2, <4>3, <4>4 DEF SecretChosen
    <3> QED BY <3>1, <3>2
  <2>4. adec.op = "fill"
    BY <1>0, <2>1 DEF RightStep, TextSteps
  <2> QED BY <1>0, <2>1, <2>3, <2>4 DEF ActInv, RightStep, PicksTyped, EndsPicked, GatesHold, SecretsStayHome, CopiedForwards,
        NarrowKeepsShort, TextSteps, TheField
<1>6. CASE Narrowed
  <2>1. aph = "narrow" /\ aph' \in {"narrow", "source"}
        /\ UNCHANGED <<adec, authorized, forbidden, saidNo, judged, commits, handed, wanted, source, ends, redacts>>
    BY <1>6 DEF Narrowed
  <2>2. PicksTyped' /\ NarrowKeepsShort'
    <3>1. CASE Words(picks) <= MaxChoice
      <4>1. UNCHANGED picks
        BY <1>6, <3>1 DEF Narrowed
      <4> QED BY <1>0, <2>1, <4>1 DEF PicksTyped, NarrowKeepsShort, Within
    <3>2. CASE ~(Words(picks) <= MaxChoice)
      <4> DEFINE holding == {p \in Parts : Within(wanted, p)}
      <4>1. CASE holding = {}
        <5>1. picks' = [from |-> 0, to |-> 0]
          BY <1>6, <3>2, <4>1 DEF Narrowed
        <5>2. ~(Words(wanted) <= StepOfParts(MaxChoice + 1))
          BY <1>0, <2>1, <3>2, <4>1, SomePartHolds DEF NarrowKeepsShort
        <5>3. PicksTyped'
          BY <1>0, <2>1, <5>1, ActAssumption DEF PicksTyped, Span
        <5> QED BY <2>1, <5>2, <5>3 DEF NarrowKeepsShort, Words
      <4>2. CASE holding # {}
        <5>1. picks' \in Parts /\ Within(wanted, picks')
          BY <1>6, <3>2, <4>2 DEF Narrowed
        <5>2. picks' \in Span /\ picks'.from <= picks'.to
          BY <1>0, <3>2, <5>1, PartsTyped
        <5> QED BY <1>0, <2>1, <5>1, <5>2 DEF PicksTyped, NarrowKeepsShort, Within
      <4> QED BY <4>1, <4>2
    <3> QED BY <3>1, <3>2
  <2>3. TheField.kind # "password" /\ adec.op = "fill"
    BY <1>0, <2>1 DEF RightStep, TextSteps
  <2> QED BY <1>0, <2>1, <2>2, <2>3 DEF ActInv, RightStep, SecretChosen, EndsPicked, GatesHold, SecretsStayHome, CopiedForwards,
        TextSteps, TheField
<1>7. CASE Value
  <2>1. aph = "source" /\ UNCHANGED <<adec, authorized, forbidden, saidNo, judged, commits, handed, picks, wanted, redacts>>
    BY <1>7 DEF Value
  <2>2. \/ aph' = "secret" /\ source'.from = "secret" /\ UNCHANGED ends
        \/ \E first, last \in WordsLeft : aph' = "end" /\ source'.from = "task" /\ ends' = [first |-> first, last |-> last]
        \/ aph' = "ready" /\ source'.from \in {"written", "input", "read"} /\ UNCHANGED ends
        \/ aph' = "refused" /\ UNCHANGED <<source, ends>>
    BY <1>7 DEF Value, Refuses, NoSource
  <2>3. TheField.kind # "password" /\ adec.op = "fill"
    BY <1>0, <2>1 DEF RightStep, TextSteps
  <2>4. EndsPicked'
    BY <1>0, <2>1, <2>2 DEF EndsPicked, WordsLeft
  <2> QED BY <1>0, <2>1, <2>2, <2>3, <2>4 DEF ActInv, RightStep, SecretChosen, PicksTyped, GatesHold, SecretsStayHome, CopiedForwards,
        NarrowKeepsShort, TextSteps, TheField
<1>8. CASE AskedAgain
  <2>1. UNCHANGED <<adec, authorized, forbidden, saidNo, judged, commits, handed, picks, wanted, source, redacts>> /\ aph \in {"end", "start"}
    BY <1>8 DEF AskedAgain, EndAgain, StartAgain
  <2>2. /\ source.from = "task" /\ ends.first \in WordsLeft /\ ends.last \in WordsLeft
        /\ WordsLeft \subseteq Int /\ ends.last <= ends.last
    <3>1. source.from = "task" /\ ends.first \in WordsLeft /\ ends.last \in WordsLeft
      BY <1>0, <2>1 DEF EndsPicked
    <3>2. ends.last \in Int /\ WordsLeft \subseteq Int
      BY <1>0, <3>1 DEF WordsLeft, PicksTyped, Span
    <3> QED BY <3>1, <3>2
  <2>3. TheField.kind # "password" /\ adec.op = "fill"
    BY <1>0, <2>1 DEF RightStep, TextSteps
  <2>4. CASE EndAgain
    <3>1. PICK w \in Lasts : aph = "end" /\ aph' = "start" /\ ends' = [ends EXCEPT !.last = w]
      BY <2>4 DEF EndAgain
    <3>2. w \in WordsLeft /\ ends.first <= w
      <4>1. CASE ends.first = ends.last
        <5>1. w = ends.last
          BY <4>1 DEF Lasts
        <5> QED BY <2>2, <4>1, <5>1, Zenon
      <4>2. CASE ends.first # ends.last
        <5>1. w \in WordsLeft /\ w >= ends.first
          BY <4>2 DEF Lasts
        <5> QED BY <2>2, <5>1
      <4> QED BY <4>1, <4>2
    <3>3. ends' = [first |-> ends.first, last |-> w]
      BY <1>0, <3>1 DEF EndsPicked
    <3>4. EndsPicked'
      BY <2>1, <2>2, <3>1, <3>2, <3>3 DEF EndsPicked, WordsLeft
    <3> QED BY <1>0, <2>1, <2>2, <2>3, <3>1, <3>4 DEF ActInv, RightStep, SecretChosen, PicksTyped, GatesHold, SecretsStayHome, CopiedForwards,
        NarrowKeepsShort, TextSteps, TheField
  <2>5. CASE StartAgain
    <3>1. PICK w \in Firsts : aph = "start" /\ aph' = "ready" /\ ends' = [ends EXCEPT !.first = w]
      BY <2>5 DEF StartAgain
    <3>2. ends.first <= ends.last
      BY <1>0, <3>1 DEF EndsPicked
    <3>3. w \in WordsLeft /\ w <= ends.last
      BY <2>2, <3>2 DEF Firsts
    <3>4. ends' = [first |-> w, last |-> ends.last]
      BY <1>0, <3>1 DEF EndsPicked
    <3>5. CopiedForwards' /\ EndsPicked'
      BY <2>1, <2>2, <3>1, <3>3, <3>4 DEF CopiedForwards, EndsPicked, WordsLeft
    <3> QED BY <1>0, <2>1, <2>2, <2>3, <3>1, <3>5 DEF ActInv, RightStep, SecretChosen, PicksTyped, GatesHold, SecretsStayHome,
        NarrowKeepsShort, TextSteps, TheField
  <2> QED BY <1>8, <2>4, <2>5 DEF AskedAgain
<1>9. CASE JevFails
  <2>1. aph' = "stopped" /\ UNCHANGED <<adec, authorized, forbidden, saidNo, judged, commits, handed, picks, wanted, source, ends, redacts>>
    BY <1>9 DEF JevFails, Stops
  <2> QED BY <1>0, <2>1 DEF ActInv, RightStep, SecretChosen, PicksTyped, EndsPicked, GatesHold, SecretsStayHome, CopiedForwards,
        NarrowKeepsShort, TextSteps
<1>10. CASE Secret
  <2>1. /\ aph = "secret" /\ aph' \in {"ready", "stopped"}
        /\ aph' = "ready" => TheField.origin \in ScopeOf[source.secret] /\ source.secret \in redacts'
        /\ UNCHANGED <<adec, authorized, forbidden, saidNo, judged, commits, handed, picks, wanted, source, ends>>
    BY <1>10 DEF Secret, Resolves, Stops
  <2>2. adec.op = "fill" /\ source.from = "secret"
    BY <1>0, <2>1 DEF RightStep, TextSteps, SecretChosen
  <2>3. SecretsStayHome'
    BY <1>0, <2>1, <2>2 DEF SecretsStayHome, SecretChosen, TheField
  <2> QED BY <1>0, <2>1, <2>2, <2>3 DEF ActInv, RightStep, SecretChosen, PicksTyped, EndsPicked, GatesHold, CopiedForwards,
        NarrowKeepsShort, TextSteps, TheField
<1>11. CASE UNCHANGED actVars
  BY <1>0, <1>11 DEF actVars, ActInv, RightStep, SecretChosen, PicksTyped, EndsPicked, GatesHold, SecretsStayHome, CopiedForwards,
     NarrowKeepsShort, TextSteps, TheField, WordsLeft
<1> QED BY <1>1, <1>2, <1>3, <1>4, <1>5, <1>6, <1>7, <1>8, <1>9, <1>10, <1>11 DEF ActNext, ActWork

LEMMA ActAlways == ActingSpec => []ActInv
BY ActBegins, ActStep, PTL DEF ActingSpec

\* Whatever the decision, the page and the answers of its gates: an action that commits
\* goes ahead only where every gate said so, and a secret is typed only within its
\* scope (acting.rs).
THEOREM ActionsAreAllowed == ActingSpec => []ActsAsAllowed
<1>1. ActInv => ActsAsAllowed
  BY DEF ActInv, ActsAsAllowed
<1> QED BY <1>1, ActAlways, PTL

\* For a task of any length narrowed in any number of parts: a value no longer than the
\* narrowest part is never cut, and what is copied runs forwards through words that
\* were offered (acting.rs).
THEOREM ValuesAreCopiedWhole == ActingSpec => []CopiedWhole
<1>1. ActInv => CopiedWhole
  BY DEF ActInv, CopiedWhole
<1> QED BY <1>1, ActAlways, PTL

----------------------------------------------------------------------------
(* Reading a page: what could not be read is counted.                      *)

\* A set told apart into parts has no more members than the bounds of the parts add up to.
LEMMA PartsAddUp ==
  ASSUME NEW S, IsFiniteSet(S), NEW X, IsFiniteSet(X), NEW part, NEW bound, \A x \in X : part[x] \in S,
         \A p \in S : bound[p] \in Nat /\ Cardinality({x \in X : part[x] = p}) <= bound[p]
  PROVE  Cardinality(X) <= SumFunctionOnSet(bound, S)
<1> DEFINE Of(s) == {x \in X : part[x] \in s}
           WithinBounds(s) == Cardinality(Of(s)) <= SumFunctionOnSet(bound, s)
           Counted == {k \in Nat : \A s \in SUBSET S : Cardinality(s) < k => WithinBounds(s)}
<1>1. \A s \in SUBSET S : IsFiniteSet(s) /\ Cardinality(s) \in Nat
  BY FS_Subset, FS_CardinalityType
<1>2. ASSUME NEW s PROVE IsFiniteSet(Of(s)) /\ Cardinality(Of(s)) \in Nat
  <2>1. Of(s) \subseteq X
    OBVIOUS
  <2> QED BY <2>1, FS_Subset, FS_CardinalityType
<1>3. ASSUME NEW s \in SUBSET S, s # {}, WithinBounds(s \ {One(s)}) PROVE WithinBounds(s)
  <2> DEFINE p == One(s)
             r == s \ {p}
             A == Of(r)
             B == {x \in X : part[x] = p}
  <2>1. p \in s /\ p \in S /\ r \in SUBSET S
    BY <1>3, OneIsIn
  <2>2. IsFiniteSet(A) /\ Cardinality(A) \in Nat
    BY <1>2
  <2>3. IsFiniteSet(B) /\ Cardinality(B) \in Nat /\ Cardinality(B) <= bound[p]
    BY <2>1, FS_Subset, FS_CardinalityType
  <2>4. Of(s) = A \cup B /\ A \cap B = {}
    BY <2>1
  <2>5. SumFunctionOnSet(bound, s) = bound[p] + SumFunctionOnSet(bound, r)
    BY <1>1, <1>3, SumByOne
  <2>6. SumFunctionOnSet(bound, r) \in Nat /\ bound[p] \in Nat
    BY <1>1, <2>1, SumIsNat
  <2>7. Cardinality(A) <= SumFunctionOnSet(bound, r)
    BY <1>3
  <2> HIDE DEF A, B, p, r, Of
  <2>8. Cardinality(A \cup B) = Cardinality(A) + Cardinality(B)
    <3>1. Cardinality(A \cup B) = Cardinality(A) + Cardinality(B) - Cardinality(A \cap B)
      BY <2>2, <2>3, FS_Union
    <3>2. Cardinality(A \cap B) = 0
      BY <2>4, FS_EmptySet
    <3> QED BY <2>2, <2>3, <3>1, <3>2
  <2>9. Cardinality(Of(s)) <= SumFunctionOnSet(bound, s)
    BY <2>2, <2>3, <2>4, <2>5, <2>6, <2>7, <2>8
  <2> QED BY <2>9
<1>4. WithinBounds({})
  <2>1. Of({}) = {}
    OBVIOUS
  <2>2. Cardinality({}) = 0
    BY FS_EmptySet
  <2> QED BY <2>1, <2>2, SumOfNone
<1> HIDE DEF WithinBounds
<1>5. Counted = Nat
  <2>1. 0 \in Counted
    BY <1>1
  <2>2. ASSUME NEW k \in Counted PROVE k + 1 \in Counted
    <3>1. ASSUME NEW s \in SUBSET S, Cardinality(s) < k + 1 PROVE WithinBounds(s)
      <4>1. CASE s = {}
        BY <1>4, <4>1
      <4>2. CASE s # {}
        <5>1. s \ {One(s)} \in SUBSET S /\ Cardinality(s \ {One(s)}) = Cardinality(s) - 1 /\ Cardinality(s) \in Nat
          BY <4>2, OneIsIn
        <5>2. WithinBounds(s \ {One(s)})
          BY <3>1, <5>1
        <5> QED BY <1>3, <4>2, <5>2
      <4> QED BY <4>1, <4>2
    <3> QED BY <3>1
  <2> HIDE DEF Counted
  <2>3. Counted \in SUBSET Nat
    BY DEF Counted
  <2> QED BY <2>1, <2>2, <2>3, NatsFromZero
<1>6. WithinBounds(S)
  <2>1. Cardinality(S) + 1 \in Counted /\ Cardinality(S) \in Nat
    BY <1>1, <1>5
  <2> QED BY <2>1
<1>7. Of(S) = X
  OBVIOUS
<1> QED BY <1>6, <1>7 DEF WithinBounds

\* The documents of a tab, and the frames of a set that one of them holds.
Documents == {"main"} \cup Frames
Under(p, s) == {f \in s : rscene.parents[f] = p}
\* A document this read has been through.
BeenRead(p) == IF p = "main" THEN rd.snap # Nowhere ELSE p \in rd.got

RdFields == {"at", "result", "hist", "hasHist", "snap", "resp", "listedOutside", "asked", "got", "counts", "unread",
             "outside", "entry", "status", "inaccessible", "tries", "rereads", "attempt", "failure", "usable"}
SiteFields == {"doc", "addr", "ready", "dialog", "frames", "outside", "tabs", "turns"}

SiteOK == /\ rscene \in ReadScenes
          /\ DOMAIN site = SiteFields /\ site.doc \in {0, 1} /\ site.frames \subseteq Frames
CallOK == /\ DOMAIN rd = RdFields /\ ~rd.outside /\ rd.failure # "read"
          /\ rd.at \in {"once", "reading", "lost", "attempt", "readying"} => rd.result = "none"
          /\ rd.at \in {"once", "reading", "lost", "attempt", "readying", "done"}

\* While it reads: what each document could not see into is among the unread, with as
\* many counted; a document not read has none; nothing read is still to be asked.
Tally ==
  /\ rd.unread \subseteq Frames /\ rd.got \subseteq Frames /\ rd.asked \subseteq Frames /\ rd.got \cap rd.asked = {}
  /\ DOMAIN rd.counts = Documents
  /\ \A p \in Documents : /\ rd.counts[p] \in Nat /\ Cardinality(Under(p, rd.unread)) <= rd.counts[p]
                          /\ BeenRead(p) => Under(p, site.frames) \subseteq rd.unread
                          /\ ~BeenRead(p) => Under(p, rd.unread) = {}

ReadInv == SiteOK /\ CallOK /\ (rd.at = "reading" => Tally) /\ ObservationAgrees /\ UnreadCounted

LEMMA ScenesHave ==
  ASSUME SiteOK
  PROVE  /\ IsFiniteSet(Frames) /\ "main" \notin Frames /\ "none" \notin Frames /\ IsFiniteSet(Documents)
         /\ \A f \in Frames : rscene.parents[f] \in Documents
<1>1. IsFiniteSet(Frames) /\ "main" \notin Frames /\ "none" \notin Frames
  BY ReadAssumption
<1>2. IsFiniteSet(Documents)
  BY <1>1, FS_AddElement DEF Documents
<1>3. \A f \in Frames : rscene.parents[f] \in Documents
  BY ReadAssumption DEF SiteOK, Documents
<1> QED BY <1>1, <1>2, <1>3

\* What the tally comes to when a read ends with it.
LEMMA TallyCounts ==
  ASSUME SiteOK, Tally, rd.snap # Nowhere
  PROVE  Inaccessible >= Cardinality((rd.unread \cap site.frames) \ rd.got)
<1> DEFINE X == (rd.unread \cap site.frames) \ rd.got
           got(p) == {f \in rd.got : Parent(f) = p}
           left == [p \in Documents |-> IF rd.counts[p] > Cardinality(got(p)) THEN rd.counts[p] - Cardinality(got(p)) ELSE 0]
<1>1. Inaccessible = SumFunctionOnSet(left, Documents)
  BY DEF Inaccessible, SumFunction, Documents
<1>2. IsFiniteSet(X) /\ X \subseteq Frames
  BY ScenesHave, FS_Subset DEF SiteOK
<1>3. ASSUME NEW p \in Documents
      PROVE  left[p] \in Nat /\ Cardinality({f \in X : rscene.parents[f] = p}) <= left[p]
  <2> DEFINE N == {f \in X : rscene.parents[f] = p}
             G == got(p)
             U == Under(p, rd.unread)
  <2>1. N \subseteq Frames /\ G \subseteq Frames /\ U \subseteq Frames
    BY DEF Under, Tally
  <2>2. IsFiniteSet(N) /\ IsFiniteSet(G) /\ IsFiniteSet(U)
    BY <2>1, ScenesHave, FS_Subset
  <2>3. Cardinality(N) \in Nat /\ Cardinality(G) \in Nat /\ Cardinality(U) \in Nat
    BY <2>2, FS_CardinalityType
  <2>4. rd.counts[p] \in Nat /\ Cardinality(U) <= rd.counts[p]
    BY DEF Tally
  <2>5. left[p] = IF rd.counts[p] > Cardinality(G) THEN rd.counts[p] - Cardinality(G) ELSE 0
    OBVIOUS
  <2>6. CASE BeenRead(p)
    <3>1. Under(p, site.frames) \subseteq rd.unread
      BY <2>6 DEF Tally
    <3>2. G \subseteq Under(p, site.frames)
      <4>1. p # "none"
        BY ScenesHave DEF Documents
      <4> QED BY <4>1 DEF Parent, Under
    <3>3. G \subseteq U /\ N \subseteq U /\ N \cap G = {}
      BY <3>1, <3>2 DEF Under
    <3> HIDE DEF N, G, U, left
    <3>4. Cardinality(N \cup G) = Cardinality(N) + Cardinality(G)
      <4>1. Cardinality(N \cup G) = Cardinality(N) + Cardinality(G) - Cardinality(N \cap G)
        BY <2>2, FS_Union
      <4>2. Cardinality(N \cap G) = 0
        BY <3>3, FS_EmptySet
      <4> QED BY <2>3, <4>1, <4>2
    <3>5. Cardinality(N \cup G) <= Cardinality(U)
      BY <2>2, <3>3, FS_Subset
    <3>6. left[p] \in Nat /\ Cardinality(N) <= left[p]
      BY <2>3, <2>4, <2>5, <3>4, <3>5
    <3> QED BY <3>6 DEF N
  <2>7. CASE ~BeenRead(p)
    <3>1. N \subseteq U /\ U = {}
      BY <2>7 DEF Tally, Under
    <3>2. Cardinality(N) = 0
      BY <3>1, FS_EmptySet
    <3> HIDE DEF N, G, left
    <3>3. left[p] \in Nat /\ Cardinality(N) <= left[p]
      BY <2>3, <2>4, <2>5, <3>2
    <3> QED BY <3>3 DEF N
  <2> QED BY <2>6, <2>7
<1>4. \A f \in X : rscene.parents[f] \in Documents
  BY <1>2, ScenesHave
<1> HIDE DEF X, left
<1>5. Cardinality(X) <= SumFunctionOnSet(left, Documents)
  BY <1>2, <1>3, <1>4, ScenesHave, PartsAddUp
<1>6. Cardinality(X) \in Nat /\ SumFunctionOnSet(left, Documents) \in Nat
  BY <1>2, <1>3, ScenesHave, FS_CardinalityType, SumIsNat
<1>7. SumFunctionOnSet(left, Documents) >= Cardinality(X)
  BY <1>5, <1>6
<1> QED BY <1>1, <1>7 DEF X

LEMMA ReadBegins == ReadInit => ReadInv
<1> SUFFICES ASSUME ReadInit PROVE ReadInv
  OBVIOUS
<1>1. SiteOK
  BY ReadAssumption DEF ReadInit, SiteOK, SiteFields
<1>2. CallOK /\ rd.at # "reading" /\ rd.result # "read"
  BY DEF ReadInit, CallOK, RdFields
<1> QED BY <1>1, <1>2 DEF ReadInv, ObservationAgrees, UnreadCounted

\* A step after which nothing is being read or has been.
LEMMA ReadElsewhere ==
  ASSUME SiteOK', CallOK', rd'.at # "reading", rd'.result # "read"
  PROVE  ReadInv'
BY DEF ReadInv, ObservationAgrees, UnreadCounted

\* A step that gives anything but a reading.
LEMMA ReadGives ==
  ASSUME ReadInv, SiteOK', NEW r, r # "read", rd' = Gives(r)
  PROVE  ReadInv'
<1>1. DOMAIN rd = RdFields /\ ~rd.outside /\ rd.failure # "read"
  BY DEF ReadInv, CallOK
<1>2. DOMAIN rd' = RdFields /\ ~rd'.outside /\ rd'.failure # "read" /\ rd'.at = "done" /\ rd'.result = r
  BY <1>1 DEF Gives, RdFields
<1> QED BY <1>2, ReadElsewhere DEF CallOK

\* A step of a call that is not reading and goes on.
LEMMA ReadGoesOn ==
  ASSUME ReadInv, SiteOK', rd.at # "done", DOMAIN rd' = RdFields, ~rd'.outside /\ rd'.failure # "read", rd'.result = rd.result,
         rd'.at \in {"once", "lost", "attempt", "readying"}
  PROVE  ReadInv'
<1>1. rd.result = "none"
  BY DEF ReadInv, CallOK
<1> QED BY <1>1, ReadElsewhere DEF CallOK

\* A step of the tab alone: frames only go, and a call that ended sees none go.
LEMMA ReadSiteMoves ==
  ASSUME ReadInv, SiteOK', rscene' = rscene, rd' = rd, site'.frames \subseteq site.frames,
         rd.at = "done" => site'.frames = site.frames
  PROVE  ReadInv'
<1>1. CallOK' /\ ObservationAgrees'
  BY DEF ReadInv, CallOK, ObservationAgrees
<1>2. rd.result = "read" => rd.at = "done"
  BY DEF ReadInv, CallOK
<1>3. UnreadCounted'
  BY <1>2 DEF ReadInv, UnreadCounted
<1>4. ASSUME Tally PROVE Tally'
  <2>1. \A p : BeenRead(p)' <=> BeenRead(p)
    BY DEF BeenRead
  <2>2. \A p : Under(p, rd.unread)' = Under(p, rd.unread) /\ Under(p, site.frames)' \subseteq Under(p, site.frames)
    BY DEF Under
  <2> QED BY <1>4, <2>1, <2>2 DEF Tally
<1> QED BY <1>1, <1>3, <1>4 DEF ReadInv

LEMMA ReadSite ==
  ASSUME ReadInv, SiteActs
  PROVE  ReadInv'
<1>1. SiteOK
  BY DEF ReadInv
<1>2. rscene' = rscene /\ rd' = rd
  BY DEF SiteActs, Replaces, Readies, PushesState, Asks, LosesFrame, Wanders, Turn
<1>3. SiteOK' /\ site'.frames \subseteq site.frames /\ (rd.at = "done" => site'.frames = site.frames)
  <2>1. CASE Replaces
    BY <1>1, <2>1 DEF Replaces, SiteOK, SiteFields, In
  <2>2. CASE Readies
    BY <1>1, <2>2 DEF Readies, SiteOK, SiteFields
  <2>3. CASE PushesState
    BY <1>1, <2>3 DEF PushesState, Turn, SiteOK, SiteFields
  <2>4. CASE Asks
    BY <1>1, <2>4 DEF Asks, Turn, SiteOK, SiteFields
  <2>5. ASSUME NEW f \in Frames, LosesFrame(f)
        PROVE  SiteOK' /\ site'.frames \subseteq site.frames /\ (rd.at = "done" => site'.frames = site.frames)
    BY <1>1, <2>5 DEF LosesFrame, Turn, SiteOK, SiteFields, In
  <2>6. ASSUME NEW w \in {"main"} \cup Frames, Wanders(w)
        PROVE  SiteOK' /\ site'.frames \subseteq site.frames /\ (rd.at = "done" => site'.frames = site.frames)
    BY <1>1, <2>6 DEF Wanders, Turn, SiteOK, SiteFields
  <2> QED BY <2>1, <2>2, <2>3, <2>4, <2>5, <2>6 DEF SiteActs
<1> QED BY <1>2, <1>3, ReadSiteMoves

LEMMA SiteStays == ASSUME ReadInv, UNCHANGED <<rscene, site>> PROVE SiteOK'
BY DEF ReadInv, SiteOK

LEMMA ReadDialog ==
  ASSUME ReadInv, DialogObservation
  PROVE  ReadInv'
<1>1. SiteOK' /\ rd' = Gives("dialog")
  BY SiteStays DEF DialogObservation
<1> QED BY <1>1, ReadGives

\* A step within a reading keeps its tally, if it does.
LEMMA ReadTallies ==
  ASSUME ReadInv, SiteOK', rd.at # "done", DOMAIN rd' = RdFields, ~rd'.outside /\ rd'.failure # "read", rd'.result = rd.result,
         rd'.at = "reading", Tally'
  PROVE  ReadInv'
<1>1. rd'.result = "none"
  BY DEF ReadInv, CallOK
<1> QED BY <1>1 DEF ReadInv, CallOK, ObservationAgrees, UnreadCounted

LEMMA ReadStarts ==
  ASSUME ReadInv, ReadOnce
  PROVE  ReadInv'
<1>1. CASE site.dialog
  BY <1>1, ReadDialog DEF ReadOnce
<1>2. CASE ~site.dialog
  <2>1. rd' = [FreshRead(rd) EXCEPT !.at = "reading"] /\ UNCHANGED <<rscene, site>> /\ rd.at # "done"
    BY <1>2 DEF ReadOnce, Steps, In
  <2>2. SiteOK' /\ SiteOK /\ CallOK
    BY <2>1, SiteStays DEF ReadInv
  <2>3. /\ DOMAIN rd' = RdFields /\ ~rd'.outside /\ rd'.failure # "read" /\ rd'.result = rd.result /\ rd'.at = "reading"
        /\ rd'.snap = Nowhere /\ rd'.got = {} /\ rd'.asked = site.frames /\ rd'.unread = {}
        /\ rd'.counts = [x \in Documents |-> 0]
    BY <2>1, <2>2 DEF CallOK, RdFields, FreshRead, Documents
  <2>4. \A p : ~BeenRead(p)' /\ Under(p, rd.unread)' = {}
    BY <2>3 DEF BeenRead, Under
  <2>5. Cardinality({}) = 0
    BY FS_EmptySet
  <2>6. Tally'
    BY <2>2, <2>3, <2>4, <2>5 DEF Tally, SiteOK
  <2> QED BY <2>1, <2>2, <2>3, <2>6, ReadTallies
<1> QED BY <1>1, <1>2

LEMMA ReadBeside ==
  ASSUME ReadInv, rd.at = "reading", UNCHANGED <<rscene, site>>, DOMAIN rd' = RdFields,
         \A x \in RdFields \ {"hist", "hasHist", "resp"} : rd'[x] = rd[x]
  PROVE  ReadInv'
<1>1. SiteOK' /\ ~rd.outside /\ rd.failure # "read" /\ Tally
  BY SiteStays DEF ReadInv, CallOK
<1>2. rd'.outside = rd.outside /\ rd'.failure = rd.failure /\ rd'.result = rd.result /\ rd'.at = rd.at /\ rd'.snap = rd.snap /\ rd'.got = rd.got
      /\ rd'.asked = rd.asked /\ rd'.unread = rd.unread /\ rd'.counts = rd.counts
  BY DEF RdFields
<1>3. \A p : BeenRead(p)' <=> BeenRead(p)
  BY <1>2 DEF BeenRead
<1>4. \A p : Under(p, rd.unread)' = Under(p, rd.unread) /\ Under(p, site.frames)' = Under(p, site.frames)
  BY <1>2 DEF Under
<1>5. Tally'
  BY <1>1, <1>2, <1>3, <1>4 DEF Tally
<1> QED BY <1>1, <1>2, <1>5, ReadTallies

LEMMA ReadsBeside ==
  ASSUME ReadInv, ReadHistory \/ DocumentResponse
  PROVE  ReadInv'
<1>1. DOMAIN rd = RdFields
  BY DEF ReadInv, CallOK
<1>2. CASE ReadHistory
  <2>1. PICK h : rd' = [rd EXCEPT !.hist = h, !.hasHist = TRUE]
    BY <1>2 DEF ReadHistory, Steps
  <2>2. rd.at = "reading" /\ UNCHANGED <<rscene, site>>
    BY <1>2 DEF ReadHistory, Steps, In
  <2>3. DOMAIN rd' = RdFields /\ \A x \in RdFields \ {"hist", "hasHist", "resp"} : rd'[x] = rd[x]
    BY <1>1, <2>1
  <2> QED BY <2>2, <2>3, ReadBeside
<1>3. CASE DocumentResponse
  <2>1. rd.at = "reading" /\ UNCHANGED <<rscene, site>> /\ rd' = [rd EXCEPT !.resp = Here]
    BY <1>3 DEF DocumentResponse, In
  <2>2. DOMAIN rd' = RdFields /\ \A x \in RdFields \ {"hist", "hasHist", "resp"} : rd'[x] = rd[x]
    BY <1>1, <2>1
  <2> QED BY <2>1, <2>2, ReadBeside
<1> QED BY <1>2, <1>3

\* A document is read: its frames join the unread, with their number.
LEMMA DocumentTallied ==
  ASSUME ReadInv, rd.at = "reading", UNCHANGED <<rscene, site>>, NEW p \in Documents, ~BeenRead(p),
         DOMAIN rd' = RdFields, rd'.at = rd.at, rd'.result = rd.result, ~rd'.outside /\ rd'.failure # "read",
         rd'.asked \subseteq rd.asked, rd'.got \subseteq Frames, rd'.got \cap rd'.asked = {},
         rd'.counts = [rd.counts EXCEPT ![p] = Cardinality(Children(p))], rd'.unread = rd.unread \cup Children(p),
         \A q \in Documents : BeenRead(q)' <=> (BeenRead(q) \/ q = p)
  PROVE  ReadInv'
<1>1. SiteOK' /\ SiteOK /\ Tally
  BY SiteStays DEF ReadInv
<1>2. Children(p) = Under(p, site.frames) /\ Children(p) \subseteq Frames
  BY <1>1 DEF Children, Under, SiteOK
<1>3. Cardinality(Children(p)) \in Nat
  BY <1>1, <1>2, ScenesHave, FS_Subset, FS_CardinalityType
<1>4. DOMAIN rd'.counts = Documents
  BY <1>1 DEF Tally
<1>5. ASSUME NEW q \in Documents
      PROVE  /\ rd'.counts[q] \in Nat /\ Cardinality(Under(q, rd.unread)') <= rd'.counts[q]
             /\ BeenRead(q)' => Under(q, site.frames)' \subseteq rd'.unread
             /\ ~BeenRead(q)' => Under(q, rd.unread)' = {}
  <2>1. Under(q, site.frames)' = Under(q, site.frames)
    BY DEF Under
  <2>2. CASE q = p
    <3>1. Under(q, rd.unread) = {}
      BY <1>1, <2>2 DEF Tally
    <3>2. Under(q, rd.unread)' = Children(p)
      BY <1>2, <2>2, <3>1 DEF Under
    <3>3. rd'.counts[q] = Cardinality(Children(p))
      BY <1>1, <2>2 DEF Tally
    <3>4. BeenRead(q)'
      BY <2>2
    <3> QED BY <1>2, <1>3, <2>1, <2>2, <3>2, <3>3, <3>4
  <2>3. CASE q # p
    <3>1. Under(q, rd.unread)' = Under(q, rd.unread)
      BY <1>2, <2>3 DEF Under
    <3>2. rd'.counts[q] = rd.counts[q]
      BY <1>1, <2>3 DEF Tally
    <3>3. BeenRead(q)' <=> BeenRead(q)
      BY <2>3
    <3> QED BY <1>1, <2>1, <3>1, <3>2, <3>3 DEF Tally
  <2> QED BY <2>2, <2>3
<1>6. Tally'
  BY <1>1, <1>2, <1>4, <1>5 DEF Tally
<1> QED BY <1>1, <1>6, ReadTallies

LEMMA MainRead ==
  ASSUME ReadInv, ReadMain
  PROVE  ReadInv'
<1>1. SiteOK' /\ SiteOK /\ rd.at = "reading" /\ Tally /\ DOMAIN rd = RdFields /\ ~rd.outside /\ rd.failure # "read" /\ UNCHANGED <<rscene, site>>
  BY SiteStays DEF ReadMain, Steps, In, ReadInv, CallOK
<1>2. CASE "main" \in site.outside
  <2>1. rd' = Gives("origin")
    BY <1>2 DEF ReadMain, Steps
  <2> QED BY <1>1, <2>1, ReadGives
<1>3. CASE "main" \notin site.outside
  <2>1. rd' = [rd EXCEPT !.snap = Here, !.counts["main"] = Cardinality(Children("main")), !.unread = @ \cup Children("main")]
        /\ rd.snap = Nowhere
    BY <1>3 DEF ReadMain, Steps
  <2>2. Here # Nowhere
    <3>1. Here.doc # Nowhere.doc
      BY <1>1 DEF Here, Nowhere, SiteOK
    <3> QED BY <3>1
  <2>3. /\ DOMAIN rd' = RdFields /\ rd'.at = rd.at /\ rd'.result = rd.result /\ ~rd'.outside /\ rd'.failure # "read" /\ rd'.asked = rd.asked
        /\ rd'.got = rd.got /\ rd'.snap = Here /\ rd'.unread = rd.unread \cup Children("main")
        /\ rd'.counts = [rd.counts EXCEPT !["main"] = Cardinality(Children("main"))]
    BY <1>1, <2>1 DEF RdFields
  <2>4. "main" \in Documents /\ ~BeenRead("main")
    BY <2>1 DEF Documents, BeenRead
  <2>5. \A q \in Documents : BeenRead(q)' <=> (BeenRead(q) \/ q = "main")
    BY <2>2, <2>3 DEF BeenRead
  <2>6. rd'.asked \subseteq rd.asked /\ rd'.got \subseteq Frames /\ rd'.got \cap rd'.asked = {}
    BY <1>1, <2>3 DEF Tally
  <2> QED BY <1>1, <2>3, <2>4, <2>5, <2>6, DocumentTallied
<1> QED BY <1>2, <1>3

LEMMA FrameRead ==
  ASSUME ReadInv, NEW f \in Frames, ReadFrame(f)
  PROVE  ReadInv'
<1> DEFINE reads == f \in site.frames /\ rscene.answers[f] = "answers" /\ Allowed(f)
<1>1. SiteOK' /\ SiteOK /\ rd.at = "reading" /\ Tally /\ DOMAIN rd = RdFields /\ ~rd.outside /\ rd.failure # "read" /\ UNCHANGED <<rscene, site>>
      /\ f \in rd.asked
  BY SiteStays DEF ReadFrame, In, ReadInv, CallOK
<1>2. rd' = [rd EXCEPT !.asked = @ \ {f}, !.got = IF reads THEN @ \cup {f} ELSE @,
                    !.counts[f] = IF reads THEN Cardinality(Children(f)) ELSE 0,
                    !.unread = IF reads THEN @ \cup Children(f) ELSE @,
                    !.outside = @ \/ (reads /\ f \in site.outside)]
  BY DEF ReadFrame
<1>3. f \in Documents /\ f # "main" /\ f \notin rd.got
  BY <1>1, ScenesHave DEF Documents, Tally
<1>4. ~BeenRead(f)
  BY <1>3 DEF BeenRead
<1>5. ~(reads /\ f \in site.outside)
  BY DEF Allowed
<1> HIDE DEF reads
<1>6. CASE reads
  <2>1. /\ DOMAIN rd' = RdFields /\ rd'.at = rd.at /\ rd'.result = rd.result /\ rd'.snap = rd.snap /\ ~rd'.outside /\ rd'.failure # "read"
        /\ rd'.asked = rd.asked \ {f} /\ rd'.got = rd.got \cup {f}
    BY <1>1, <1>2, <1>5, <1>6 DEF RdFields
  <2>2. /\ rd'.unread = rd.unread \cup Children(f) /\ rd'.counts = [rd.counts EXCEPT ![f] = Cardinality(Children(f))]
    BY <1>1, <1>2, <1>6 DEF RdFields
  <2>3. \A q \in Documents : BeenRead(q)' <=> (BeenRead(q) \/ q = f)
    BY <1>3, <2>1 DEF BeenRead
  <2>4. rd'.asked \subseteq rd.asked /\ rd'.got \subseteq Frames /\ rd'.got \cap rd'.asked = {}
    BY <1>1, <2>1 DEF Tally
  <2> QED BY <1>1, <1>3, <1>4, <2>1, <2>2, <2>3, <2>4, DocumentTallied
<1>7. CASE ~reads
  <2>1. /\ DOMAIN rd' = RdFields /\ rd'.at = rd.at /\ rd'.result = rd.result /\ rd'.snap = rd.snap /\ ~rd'.outside /\ rd'.failure # "read"
        /\ rd'.asked = rd.asked \ {f} /\ rd'.got = rd.got /\ rd'.unread = rd.unread
    BY <1>1, <1>2, <1>5, <1>7 DEF RdFields
  <2>2. rd'.counts = [rd.counts EXCEPT ![f] = 0]
    BY <1>1, <1>2, <1>7 DEF RdFields
  <2>3. \A q : BeenRead(q)' <=> BeenRead(q)
    BY <2>1 DEF BeenRead
  <2>4. \A q : Under(q, rd.unread)' = Under(q, rd.unread) /\ Under(q, site.frames)' = Under(q, site.frames)
    BY <1>1, <2>1 DEF Under
  <2>5. ASSUME NEW q \in Documents PROVE rd'.counts[q] \in Nat /\ Cardinality(Under(q, rd.unread)) <= rd'.counts[q]
    <3>1. CASE q = f
      <4>1. Under(q, rd.unread) = {} /\ rd'.counts[q] = 0
        BY <1>1, <1>3, <1>4, <2>2, <3>1 DEF Tally
      <4>2. Cardinality({}) = 0
        BY FS_EmptySet
      <4> QED BY <4>1, <4>2
    <3>2. CASE q # f
      <4>1. rd'.counts[q] = rd.counts[q]
        BY <1>1, <2>2, <3>2 DEF Tally
      <4> QED BY <1>1, <4>1 DEF Tally
    <3> QED BY <3>1, <3>2
  <2>6. DOMAIN rd'.counts = Documents
    BY <1>1, <2>2 DEF Tally
  <2>7. Tally'
    BY <1>1, <2>1, <2>3, <2>4, <2>5, <2>6 DEF Tally
  <2> QED BY <1>1, <2>1, <2>7, ReadTallies
<1> QED BY <1>6, <1>7

\* A read that ends with its tally.
LEMMA ReadEnds ==
  ASSUME ReadInv, rd.at = "reading", AllRead, UNCHANGED <<rscene, site>>, DOMAIN rd' = RdFields, rd'.at = "done",
         \A x \in {"snap", "got", "unread", "outside", "failure"} : rd'[x] = rd[x], rd'.inaccessible = Inaccessible,
         ObservationAgrees'
  PROVE  ReadInv'
<1>1. SiteOK' /\ SiteOK /\ Tally /\ ~rd.outside /\ rd.failure # "read" /\ rd.snap # Nowhere
  BY SiteStays DEF ReadInv, CallOK, AllRead
<1>2. rd'.got = rd.got /\ rd'.unread = rd.unread /\ rd'.outside = rd.outside /\ rd'.failure = rd.failure /\ site'.frames = site.frames
  OBVIOUS
<1>3. UnreadCounted'
  BY <1>1, <1>2, TallyCounts DEF UnreadCounted
<1> QED BY <1>1, <1>2, <1>3 DEF ReadInv, CallOK

LEMMA AssembleKeeps ==
  ASSUME ReadInv, Assemble
  PROVE  ReadInv'
<1> DEFINE apart == rd.hist # Nowhere /\ rd.hist.addr # rd.snap.addr
<1>1. SiteOK' /\ rd.at = "reading" /\ DOMAIN rd = RdFields /\ ~rd.outside /\ rd.failure # "read" /\ UNCHANGED <<rscene, site>> /\ AllRead
  BY SiteStays DEF Assemble, Steps, In, ReadInv, CallOK
<1>2. CASE apart /\ rd.tries < HistoryRereads
  <2>1. rd' = [rd EXCEPT !.at = "once", !.tries = @ + 1, !.hasHist = FALSE]
    BY <1>2 DEF Assemble, Steps
  <2>2. DOMAIN rd' = RdFields /\ ~rd'.outside /\ rd'.failure # "read" /\ rd'.result = rd.result /\ rd'.at = "once"
    BY <1>1, <2>1 DEF RdFields
  <2> QED BY <1>1, <2>2, ReadGoesOn
<1>3. CASE ~(apart /\ rd.tries < HistoryRereads)
  <2>1. rd' = [Gives("read") EXCEPT !.entry = IF apart THEN Nowhere ELSE rd.hist, !.status = Status,
                         !.inaccessible = Inaccessible]
    BY <1>3 DEF Assemble
  <2> DEFINE named == IF apart THEN Nowhere ELSE rd.hist
  <2>2. named # Nowhere => named.addr = rd.snap.addr
    OBVIOUS
  <2>3. Status \in {9, rd.snap.doc}
    BY DEF Status
  <2> HIDE DEF named, apart
  <2>4. rd' = [Gives("read") EXCEPT !.entry = named, !.status = Status, !.inaccessible = Inaccessible]
    BY <2>1 DEF named
  <2>5. /\ DOMAIN rd' = RdFields /\ rd'.at = "done" /\ rd'.snap = rd.snap /\ rd'.got = rd.got /\ rd'.unread = rd.unread
        /\ rd'.outside = rd.outside /\ rd'.failure = rd.failure /\ rd'.inaccessible = Inaccessible /\ rd'.entry = named /\ rd'.status = Status
    BY <1>1, <2>4 DEF Gives, RdFields
  <2>6. ObservationAgrees'
    BY <2>2, <2>3, <2>5 DEF ObservationAgrees
  <2> QED BY <1>1, <2>5, <2>6, ReadEnds
<1> QED BY <1>2, <1>3

LEMMA CaptureKeeps ==
  ASSUME ReadInv, CaptureOnce
  PROVE  ReadInv'
<1>1. DOMAIN rd = RdFields /\ rd.at = "reading" /\ AllRead /\ UNCHANGED <<rscene, site>> /\ rscene.op = "capture"
  BY DEF CaptureOnce, In, ReadInv, CallOK
<1>2. rd' = [Gives("read") EXCEPT !.inaccessible = Inaccessible]
  BY DEF CaptureOnce
<1>3. /\ DOMAIN rd' = RdFields /\ rd'.at = "done" /\ rd'.snap = rd.snap /\ rd'.got = rd.got /\ rd'.unread = rd.unread
      /\ rd'.outside = rd.outside /\ rd'.failure = rd.failure /\ rd'.inaccessible = Inaccessible
  BY <1>1, <1>2 DEF Gives, RdFields
<1>4. ObservationAgrees'
  BY <1>1 DEF ObservationAgrees
<1> QED BY <1>1, <1>3, <1>4, ReadEnds

LEMMA NavigateKeeps ==
  ASSUME ReadInv, NavBegin \/ NavAttempt \/ NavReady
  PROVE  ReadInv'
<1>1. DOMAIN rd = RdFields /\ ~rd.outside /\ rd.failure # "read" /\ SiteOK
  BY DEF ReadInv, CallOK
<1>2. CASE NavBegin
  <2>1. CASE rscene.scoped /\ rscene.away
    <3>1. rd' = Gives("origin") /\ UNCHANGED <<rscene, site>>
      BY <1>2, <2>1 DEF NavBegin, Steps
    <3> QED BY <3>1, SiteStays, ReadGives
  <2>2. CASE ~(rscene.scoped /\ rscene.away)
    <3>1. rd' = [rd EXCEPT !.at = "attempt"] /\ site' = [site EXCEPT !.tabs = OpensFreshTab.tabs] /\ rscene' = rscene
          /\ rd.at = "once"
      BY <1>2, <2>2 DEF NavBegin, In
    <3>2. SiteOK'
      BY <1>1, <3>1 DEF SiteOK, SiteFields
    <3>3. DOMAIN rd' = RdFields /\ ~rd'.outside /\ rd'.failure # "read" /\ rd'.result = rd.result /\ rd'.at = "attempt"
      BY <1>1, <3>1 DEF RdFields
    <3> QED BY <3>1, <3>2, <3>3, ReadGoesOn
  <2> QED BY <2>1, <2>2
<1>3. CASE NavReady
  <2>1. UNCHANGED <<rscene, site>> /\ SiteOK' /\ rd.at = "readying"
    BY <1>3, SiteStays DEF NavReady, Steps, In
  <2>2. CASE rd' = [Gives("ok") EXCEPT !.usable = site.ready]
    <3>1. DOMAIN rd' = RdFields /\ ~rd'.outside /\ rd'.failure # "read" /\ rd'.result = "ok" /\ rd'.at = "done"
      BY <1>1, <2>2 DEF Gives, RdFields
    <3> QED BY <2>1, <3>1, ReadElsewhere DEF CallOK
  <2>3. CASE rd' = [rd EXCEPT !.at = "attempt", !.attempt = @ + 1, !.failure = "timeout"]
    <3>1. DOMAIN rd' = RdFields /\ ~rd'.outside /\ rd'.failure # "read" /\ rd'.result = rd.result /\ rd'.at = "attempt"
      BY <1>1, <2>3 DEF RdFields
    <3> QED BY <2>1, <3>1, ReadGoesOn
  <2> QED BY <1>3, <2>2, <2>3 DEF NavReady, Steps
<1>4. CASE NavAttempt
  <2>1. rd.at = "attempt" /\ rscene' = rscene
    BY <1>4 DEF NavAttempt, Steps, In
  <2>2. CASE UNCHANGED site /\ rd' = Gives(rd.failure)
    <3>1. rd.failure # "read"
      BY <1>1
    <3> QED BY <2>1, <2>2, <3>1, SiteStays, ReadGives
  <2>3. CASE UNCHANGED site /\ \E r \in {"origin", "unresponsive", "file"} : rd' = Gives(r)
    BY <2>1, <2>3, SiteStays, ReadGives
  <2>4. CASE UNCHANGED site /\ \E why \in {"unreachable", "failed"} : rd' = [rd EXCEPT !.attempt = @ + 1, !.failure = why]
    <3>1. PICK why \in {"unreachable", "failed"} : rd' = [rd EXCEPT !.attempt = @ + 1, !.failure = why]
      BY <2>4
    <3>2. DOMAIN rd' = RdFields /\ ~rd'.outside /\ rd'.failure # "read" /\ rd'.result = rd.result /\ rd'.at = "attempt"
      BY <1>1, <2>1, <3>1 DEF RdFields
    <3> QED BY <2>1, <2>4, <3>2, SiteStays, ReadGoesOn
  <2>5. CASE rd' = [rd EXCEPT !.at = "readying"] /\ site' = [site EXCEPT !.doc = 1 - @, !.addr = 0, !.ready = FALSE, !.frames = {}]
    <3>1. SiteOK'
      BY <1>1, <2>1, <2>5 DEF SiteOK, SiteFields
    <3>2. DOMAIN rd' = RdFields /\ ~rd'.outside /\ rd'.failure # "read" /\ rd'.result = rd.result /\ rd'.at = "readying"
      BY <1>1, <2>5 DEF RdFields
    <3> QED BY <2>1, <3>1, <3>2, ReadGoesOn
  <2> QED BY <1>4, <2>2, <2>3, <2>4, <2>5 DEF NavAttempt, Steps
<1> QED BY <1>2, <1>3, <1>4

LEMMA AddressKeeps ==
  ASSUME ReadInv, AddressOnce
  PROVE  ReadInv'
<1>1. DOMAIN rd = RdFields /\ ~rd.outside /\ rd.failure # "read" /\ UNCHANGED <<rscene, site>> /\ SiteOK' /\ rd.at = "once"
  BY SiteStays DEF ReadInv, CallOK, AddressOnce, Steps, In
<1>2. CASE rd' = To("lost")
  <2>1. DOMAIN rd' = RdFields /\ ~rd'.outside /\ rd'.failure # "read" /\ rd'.result = rd.result /\ rd'.at = "lost"
    BY <1>1, <1>2 DEF RdFields, To
  <2> QED BY <1>1, <2>1, ReadGoesOn
<1>3. CASE rd' = Gives("origin")
  BY <1>1, <1>3, ReadGives
<1>4. CASE rd' = [Gives("address") EXCEPT !.snap = Here]
  <2>1. DOMAIN rd' = RdFields /\ ~rd'.outside /\ rd'.failure # "read" /\ rd'.result = "address" /\ rd'.at = "done"
    BY <1>1, <1>4 DEF Gives, RdFields
  <2> QED BY <1>1, <2>1, ReadElsewhere DEF CallOK
<1> QED BY <1>2, <1>3, <1>4 DEF AddressOnce, Steps

LEMMA RereadKeeps ==
  ASSUME ReadInv, Reread \/ ReadLost
  PROVE  ReadInv'
<1>1. DOMAIN rd = RdFields /\ ~rd.outside /\ rd.failure # "read" /\ UNCHANGED <<rscene, site>> /\ SiteOK' /\ rd.at # "done"
  BY SiteStays DEF ReadInv, CallOK, Reread, ReadLost, Steps, In
<1>2. CASE rd' = To("lost")
  <2>1. DOMAIN rd' = RdFields /\ ~rd'.outside /\ rd'.failure # "read" /\ rd'.result = rd.result /\ rd'.at = "lost"
    BY <1>1, <1>2 DEF RdFields, To
  <2> QED BY <1>1, <2>1, ReadGoesOn
<1>3. CASE rd' = Gives("lost")
  BY <1>1, <1>3, ReadGives
<1>4. CASE rd' = [rd EXCEPT !.at = "once", !.rereads = @ + 1, !.tries = 0, !.hasHist = FALSE]
  <2>1. DOMAIN rd' = RdFields /\ ~rd'.outside /\ rd'.failure # "read" /\ rd'.result = rd.result /\ rd'.at = "once"
    BY <1>1, <1>4 DEF RdFields
  <2> QED BY <1>1, <2>1, ReadGoesOn
<1> QED BY <1>2, <1>3, <1>4 DEF Reread, ReadLost, Steps

\* `screenshot`, `document_changed`, `redrawn` and an address never answered.
LEMMA ReadsNothing ==
  ASSUME ReadInv, Screenshot \/ DocumentChanged \/ Redrawn \/ AddressUnanswered
  PROVE  ReadInv'
<1>1. UNCHANGED <<rscene, site>> /\ SiteOK'
  BY SiteStays DEF Screenshot, DocumentChanged, Redrawn, AddressUnanswered, Steps
<1>2. \E r \in {"unavailable", "shot", "changed", "same", "unresponsive"} : rd' = Gives(r)
  <2>1. CASE Screenshot
    BY <2>1 DEF Screenshot, Steps
  <2>2. CASE DocumentChanged
    BY <2>2 DEF DocumentChanged, Steps
  <2>3. CASE Redrawn
    BY <2>3 DEF Redrawn, Steps
  <2>4. CASE AddressUnanswered
    BY <2>4 DEF AddressUnanswered, Steps
  <2> QED BY <2>1, <2>2, <2>3, <2>4
<1> QED BY <1>1, <1>2, ReadGives

LEMMA ReadInvKept == ReadInv /\ [ReadNext]_rvars => ReadInv'
<1> SUFFICES ASSUME ReadInv, [ReadNext]_rvars PROVE ReadInv'
  OBVIOUS
<1>1. CASE UNCHANGED rvars
  <2>1. SiteOK' /\ rd' = rd /\ rscene' = rscene /\ site' = site
    BY <1>1, SiteStays DEF rvars
  <2> QED BY <2>1, ReadSiteMoves
<1>2. CASE SiteActs
  BY <1>2, ReadSite
<1>3. CASE Reads
  <2>1. CASE ReadInterrupted
    BY <2>1, ReadDialog DEF ReadInterrupted
  <2>2. ASSUME NEW f \in Frames, ReadFrame(f) PROVE ReadInv'
    BY <2>2, FrameRead
  <2> QED BY <1>3, <2>1, <2>2, ReadStarts, ReadsBeside, MainRead, AssembleKeeps, CaptureKeeps, NavigateKeeps, AddressKeeps,
             RereadKeeps, ReadsNothing DEF Reads
<1> QED BY <1>1, <1>2, <1>3 DEF ReadNext

\* What an observation or a capture returns is of one page, though its three reads ran
\* at once while the page moved; nothing of a document outside the grant is in it; and
\* every frame it could not see into, still there and not read itself, is counted, with
\* frames nested in frames and lost between the reads (page/mod.rs `observe`, `capture`).
THEOREM ReadingsAreKept == ReadSpec => []ReadKept
<1>1. ReadInv => ReadKept
  BY DEF ReadInv, CallOK, ReadKept, OutsideUnread
<1> QED BY <1>1, ReadBegins, ReadInvKept, PTL DEF ReadSpec

----------------------------------------------------------------------------
(* Composing the answer.                                                   *)

\* Sequences joined one after the other, as an equation.
JoinsOf(seqs, all) == all = [k \in 0..Len(seqs) |-> IF k = 0 THEN <<>> ELSE all[k - 1] \o seqs[k]]

LEMMA JoinsHold ==
  ASSUME NEW seqs, Len(seqs) \in Nat
  PROVE  \E all : JoinsOf(seqs, all) /\ Joined(seqs) = all[Len(seqs)]
<1> DEFINE n == Len(seqs)
           More(f, k) == IF k = 0 THEN <<>> ELSE f[k - 1] \o seqs[k]
           Solves(f, m) == \A k \in 0..n : k <= m => f[k] = More(f, k)
           Shown == {m \in Nat : m <= n => \E f : f = [k \in 0..n |-> f[k]] /\ Solves(f, m)}
<1> HIDE DEF More
<1>1. Shown = Nat
  <2>1. 0 \in Shown
    <3> DEFINE f == [k \in 0..n |-> <<>>]
    <3>1. f = [k \in 0..n |-> f[k]] /\ (0 \in 0..n => f[0] = <<>>) /\ More(f, 0) = <<>>
      BY DEF More
    <3> HIDE DEF f
    <3>2. Solves(f, 0)
      BY <3>1
    <3> QED BY <3>1, <3>2
  <2>2. ASSUME NEW m \in Shown PROVE m + 1 \in Shown
    <3> HIDE DEF Solves
    <3>0. m \in Nat /\ m + 1 \in Nat /\ (m <= n => \E f : f = [k \in 0..n |-> f[k]] /\ Solves(f, m))
      OBVIOUS
    <3> USE DEF Solves
    <3>1. SUFFICES ASSUME m + 1 <= n PROVE \E f : f = [k \in 0..n |-> f[k]] /\ Solves(f, m + 1)
      BY <3>0
    <3>2. PICK f : f = [k \in 0..n |-> f[k]] /\ Solves(f, m)
      BY <3>0, <3>1
    <3> DEFINE g == [k \in 0..n |-> IF k = m + 1 THEN More(f, m + 1) ELSE f[k]]
    <3>3. m + 1 \in 0..n
      BY <3>0, <3>1
    <3>4. g = [k \in 0..n |-> g[k]] /\ g[m + 1] = More(f, m + 1) /\ \A k \in 0..n : k # m + 1 => g[k] = f[k]
      BY <3>3
    <3> HIDE DEF g
    <3>5. ASSUME NEW k \in 0..n, k <= m + 1 PROVE g[k] = More(g, k)
      <4>1. More(g, k) = More(f, k)
        <5>1. CASE k = 0
          BY <5>1 DEF More
        <5>2. CASE k # 0
          <6>1. k - 1 \in 0..n /\ k - 1 # m + 1
            BY <3>0, <3>5, <5>2
          <6>2. g[k - 1] = f[k - 1]
            BY <3>4, <6>1
          <6> QED BY <6>2 DEF More
        <5> QED BY <5>1, <5>2
      <4>2. CASE k = m + 1
        BY <3>4, <4>1, <4>2
      <4>3. CASE k # m + 1
        <5>1. k <= m /\ g[k] = f[k]
          BY <3>0, <3>4, <3>5, <4>3
        <5>2. f[k] = More(f, k)
          BY <3>2, <5>1
        <5> QED BY <4>1, <5>1, <5>2
      <4> QED BY <4>2, <4>3
    <3> QED BY <3>4, <3>5
  <2> HIDE DEF Shown
  <2>3. Shown \in SUBSET Nat
    BY DEF Shown
  <2> QED BY <2>1, <2>2, <2>3, NatsFromZero
<1>2. PICK f : f = [k \in 0..n |-> f[k]] /\ Solves(f, n)
  BY <1>1
<1>3. JoinsOf(seqs, f)
  <2>1. \A k \in 0..n : f[k] = More(f, k)
    BY <1>2
  <2>2. f = [k \in 0..n |-> More(f, k)]
    BY <1>2, <2>1
  <2> QED BY <2>2 DEF JoinsOf, More
<1> DEFINE all == CHOOSE x : JoinsOf(seqs, x)
<1>4. JoinsOf(seqs, all)
  BY <1>3
<1>5. Joined(seqs) = all[n]
  BY DEF Joined, JoinsOf
<1> QED BY <1>4, <1>5

LEMMA JoinedSteps ==
  ASSUME NEW seqs, Len(seqs) \in Nat
  PROVE  \E all : /\ all[0] = <<>> /\ Joined(seqs) = all[Len(seqs)]
                  /\ \A k \in 1..Len(seqs) : all[k] = all[k - 1] \o seqs[k]
<1>1. PICK all : JoinsOf(seqs, all) /\ Joined(seqs) = all[Len(seqs)]
  BY JoinsHold
<1> DEFINE More(k) == IF k = 0 THEN <<>> ELSE all[k - 1] \o seqs[k]
<1>2. all = [k \in 0..Len(seqs) |-> More(k)]
  BY <1>1 DEF JoinsOf
<1> HIDE DEF More
<1>3. \A k \in 0..Len(seqs) : all[k] = More(k)
  BY <1>2
<1>4. More(0) = <<>> /\ \A k : k # 0 => More(k) = all[k - 1] \o seqs[k]
  BY DEF More
<1>5. 0 \in 0..Len(seqs) /\ \A k \in 1..Len(seqs) : k \in 0..Len(seqs) /\ k # 0
  OBVIOUS
<1>6. all[0] = <<>>
  BY <1>3, <1>4, <1>5
<1>7. ASSUME NEW k \in 1..Len(seqs) PROVE all[k] = all[k - 1] \o seqs[k]
  <2>1. all[k] = More(k) /\ k # 0
    BY <1>3, <1>5
  <2> QED BY <1>4, <2>1
<1> QED BY <1>1, <1>6, <1>7

LEMMA JoinedIsSeq ==
  ASSUME NEW X, NEW seqs \in Seq(Seq(X))
  PROVE  Joined(seqs) \in Seq(X)
<1> DEFINE n == Len(seqs)
<1>0. n \in Nat /\ \A k \in 1..n : seqs[k] \in Seq(X)
  OBVIOUS
<1>1. PICK all : /\ all[0] = <<>> /\ Joined(seqs) = all[n]
                 /\ \A k \in 1..n : all[k] = all[k - 1] \o seqs[k]
  BY <1>0, JoinedSteps
<1> DEFINE Shown == {m \in Nat : m <= n => all[m] \in Seq(X)}
<1>2. 0 \in Shown
  <2>1. all[0] \in Seq(X)
    BY <1>1
  <2> QED BY <2>1
<1>3. ASSUME NEW m \in Shown PROVE m + 1 \in Shown
  <2>1. SUFFICES ASSUME m + 1 <= n PROVE all[m + 1] \in Seq(X)
    OBVIOUS
  <2>2. m + 1 \in 1..n /\ (m + 1) - 1 = m /\ all[m] \in Seq(X)
    BY <1>0, <2>1
  <2>3. all[m + 1] = all[m] \o seqs[m + 1] /\ seqs[m + 1] \in Seq(X)
    BY <1>0, <1>1, <2>2
  <2> QED BY <2>2, <2>3
<1> HIDE DEF Shown
<1>4. Shown = Nat
  <2>1. Shown \in SUBSET Nat
    BY DEF Shown
  <2> QED BY <1>2, <1>3, <2>1, NatsFromZero
<1> QED BY <1>0, <1>1, <1>4 DEF Shown

LEMMA JoinedOfOnes ==
  ASSUME NEW X, NEW s \in Seq(X)
  PROVE  Joined([i \in DOMAIN s |-> <<s[i]>>]) = s
<1> DEFINE n == Len(s)
           ones == [i \in DOMAIN s |-> <<s[i]>>]
<1>0. n \in Nat /\ DOMAIN s = 1..n /\ ones = [i \in 1..n |-> <<s[i]>>] /\ Len(ones) = n /\ \A k \in 1..n : s[k] \in X
  OBVIOUS
<1>1. \A k \in 1..n : ones[k] = <<s[k]>>
  BY <1>0
<1> HIDE DEF ones
<1>2. PICK all : /\ all[0] = <<>> /\ Joined(ones) = all[n]
                 /\ \A k \in 1..n : all[k] = all[k - 1] \o ones[k]
  <2>1. \E all : /\ all[0] = <<>> /\ Joined(ones) = all[Len(ones)]
                 /\ \A k \in 1..Len(ones) : all[k] = all[k - 1] \o ones[k]
    BY <1>0, JoinedSteps
  <2> QED BY <1>0, <2>1
<1> DEFINE Good(m) == all[m] \in Seq(X) /\ Len(all[m]) = m /\ \A i \in 1..m : all[m][i] = s[i]
           Shown == {m \in Nat : m <= n => Good(m)}
<1>3. Good(0)
  BY <1>2
<1>4. ASSUME NEW m \in Nat, m + 1 <= n, Good(m) PROVE Good(m + 1)
  <2>1. m + 1 \in 1..n /\ (m + 1) - 1 = m
    BY <1>0, <1>4
  <2>2. all[m + 1] = all[m] \o <<s[m + 1]>> /\ s[m + 1] \in X
    BY <1>0, <1>1, <1>2, <2>1
  <2>3. <<s[m + 1]>> \in Seq(X) /\ Len(<<s[m + 1]>>) = 1 /\ <<s[m + 1]>>[1] = s[m + 1]
    BY <2>2
  <2>4. all[m] \in Seq(X) /\ Len(all[m]) = m
    BY <1>4
  <2>5. /\ all[m + 1] \in Seq(X) /\ Len(all[m + 1]) = m + 1
        /\ \A i \in 1..(m + 1) : all[m + 1][i] = IF i <= m THEN all[m][i] ELSE <<s[m + 1]>>[i - m]
    BY <2>2, <2>3, <2>4, ConcatProperties
  <2>6. ASSUME NEW i \in 1..(m + 1) PROVE all[m + 1][i] = s[i]
    <3>1. CASE i <= m
      BY <1>4, <2>5, <3>1
    <3>2. CASE ~(i <= m)
      <4>1. i = m + 1 /\ i - m = 1
        BY <1>4, <3>2
      <4> QED BY <2>3, <2>5, <3>2, <4>1
    <3> QED BY <3>1, <3>2
  <2> QED BY <2>5, <2>6
<1> HIDE DEF Good
<1>5. Shown = Nat
  <2>1. 0 \in Shown
    BY <1>3
  <2>2. ASSUME NEW m \in Shown PROVE m + 1 \in Shown
    BY <1>0, <1>4, <2>2
  <2> HIDE DEF Shown
  <2>3. Shown \in SUBSET Nat
    BY DEF Shown
  <2> QED BY <2>1, <2>2, <2>3, NatsFromZero
<1>6. Good(n)
  BY <1>0, <1>5
<1>7. all[n] = s
  <2>1. all[n] \in Seq(X) /\ Len(all[n]) = n /\ \A i \in 1..n : all[n][i] = s[i]
    BY <1>6 DEF Good
  <2> QED BY <2>1
<1> QED BY <1>2, <1>7 DEF ones

\* What each request returned is a sequence of claims.
DraftsAreSeqs == \E X : drafted \in Seq(Seq(X))

LEMMA WritesAreSeqs ==
  ASSUME NEW lines, NEW lone \in BOOLEAN, NEW claims \in Writes(lines, lone)
  PROVE  \E Y : claims \in Seq(Y)
<1>1. CASE claims = <<>>
  <2>1. claims \in Seq({})
    BY <1>1
  <2> QED BY <2>1
<1>2. CASE claims # <<>>
  <2> DEFINE one == UNION {{Claim(size, i.cites) : size \in Writings} : i \in Range(lines)}
             strays == IF lone THEN {Claim(CHOOSE size \in Writings : TRUE, {Unknown})} ELSE {}
             Y == one \cup strays
             most == IF lone THEN 2 ELSE 1
  <2>0. Writes(lines, lone) = {<<>>} \cup UNION {[1..n -> Y] : n \in 1..most}
    BY DEF Writes
  <2> HIDE DEF Y
  <2>1. PICK n \in 1..most : claims \in [1..n -> Y]
    BY <1>2, <2>0
  <2>2. claims \in Seq(Y)
    BY <2>1
  <2> QED BY <2>2
<1> QED BY <1>1, <1>2

LEMMA DraftGrows ==
  ASSUME NEW X, NEW d \in Seq(Seq(X)), NEW Y, NEW claims \in Seq(Y)
  PROVE  \E Z : Append(d, claims) \in Seq(Seq(Z))
<1> DEFINE Z == X \cup Y
<1>1. Seq(X) \subseteq Seq(Z) /\ Seq(Y) \subseteq Seq(Z)
  <2>1. ASSUME NEW s \in Seq(X) PROVE s \in Seq(Z)
    OBVIOUS
  <2>2. ASSUME NEW s \in Seq(Y) PROVE s \in Seq(Z)
    OBVIOUS
  <2> QED BY <2>1, <2>2
<1> HIDE DEF Z
<1>2. d \in Seq(Seq(Z)) /\ claims \in Seq(Z)
  BY <1>1
<1>3. Append(d, claims) \in Seq(Seq(Z))
  BY <1>2
<1> QED BY <1>3

\* Drafts are lists, and nothing is shown before the end; what is then shown from an
\* earlier draft was judged against these notes.
NoneShown == stage # "ended" => shown = Absent
ComposeInv == DraftsAreSeqs /\ NoneShown /\ ShownWasJudged

LEMMA ComposeBegins == ComposeInit => ComposeInv
<1> SUFFICES ASSUME ComposeInit PROVE ComposeInv
  OBVIOUS
<1>1. drafted \in Seq(Seq({}))
  BY DEF ComposeInit
<1>2. DraftsAreSeqs
  BY <1>1 DEF DraftsAreSeqs
<1> QED BY <1>2 DEF ComposeInv, ComposeInit, NoneShown, ShownWasJudged

\* An ending with claims kept from an earlier draft is one whose notes still stand.
Endings ==
  /\ stage' = "ended" /\ drafted' = <<>> /\ noteState' = noteState
  /\ shown'.by = "kept" => CheckedComposition /\ partial' = partial
\* What a step does to the ending: none, or one of those.
EndsWell == (drafted' = <<>> /\ noteState' = noteState /\ stage' # "ended" /\ shown' = shown) \/ Endings

LEMMA EndsRunWell ==
  ASSUME NEW status, NEW by, NEW whole, NEW unread, EndsRun(status, by, whole, unread), noteState' = noteState,
         by = "kept" => CheckedComposition /\ partial' = partial
  PROVE  Endings /\ shown' = Ending(status, by, whole, unread)
BY DEF EndsRun, Ending, Endings

LEMMA PartialWell ==
  ASSUME NEW status, PartialResult(status), noteState' = noteState, partial' = partial
  PROVE  Endings /\ shown'.status = status
<1>1. PICK by \in {"kept", "picks", "everything"}, unread \in BOOLEAN :
        EndsRun(status, by, FALSE, unread) /\ (by = "kept" => CheckedComposition)
  BY DEF PartialResult
<1>2. Endings /\ shown' = Ending(status, by, FALSE, unread)
  BY <1>1, EndsRunWell
<1> QED BY <1>2 DEF Ending

LEMMA SettlesWell ==
  ASSUME NEW draft, NEW upheld, NEW problem \in BOOLEAN, NEW rejection \in BOOLEAN, noteState' = noteState,
         Settles(draft, upheld, problem, rejection)
  PROVE  /\ EndsWell
         /\ stage' = "ended" /\ shown'.status = "complete" => ~problem /\ shown'.whole = (upheld = draft)
<1>1. CASE stage' = "acting" /\ drafted' = <<>> /\ shown' = shown
  BY <1>1 DEF EndsWell
<1>2. CASE ~stopping /\ partial' = (IF problem THEN partial ELSE Absent)
           /\ \E unread \in BOOLEAN : LET status == IF problem \/ unread THEN "unverified" ELSE "complete" IN
                IF problem /\ CheckedComposition THEN EndsRun(status, "kept", FALSE, unread) ELSE EndsRun(status, "composed", upheld = draft, unread)
  <2>1. PICK unread \in BOOLEAN : LET status == IF problem \/ unread THEN "unverified" ELSE "complete" IN
                IF problem /\ CheckedComposition THEN EndsRun(status, "kept", FALSE, unread) ELSE EndsRun(status, "composed", upheld = draft, unread)
    BY <1>2
  <2>2. CASE problem /\ CheckedComposition
    <3>1. EndsRun("unverified", "kept", FALSE, unread) /\ partial' = partial
      BY <1>2, <2>1, <2>2
    <3>2. Endings /\ shown' = Ending("unverified", "kept", FALSE, unread)
      BY <2>2, <3>1, EndsRunWell
    <3> QED BY <3>2 DEF Ending, EndsWell
  <2>3. CASE ~(problem /\ CheckedComposition)
    <3> DEFINE status == IF problem \/ unread THEN "unverified" ELSE "complete"
    <3>1. EndsRun(status, "composed", upheld = draft, unread)
      BY <2>1, <2>3
    <3>2. Endings /\ shown' = Ending(status, "composed", upheld = draft, unread)
      BY <3>1, EndsRunWell
    <3>3. shown'.status = status /\ shown'.whole = (upheld = draft)
      BY <3>2 DEF Ending
    <3> QED BY <3>2, <3>3 DEF EndsWell
  <2> QED BY <2>2, <2>3
<1>3. CASE stopping /\ UNCHANGED <<rejected, partial>>
           /\ \E status \in StopStatus, unread \in BOOLEAN :
                \/ upheld = <<>> /\ PartialResult(status)
                \/ upheld # <<>> /\ EndsRun(IF status = "unverified" /\ ~problem THEN "complete" ELSE status, "composed", upheld = draft, unread)
  <2>1. PICK status \in StopStatus, unread \in BOOLEAN :
                \/ upheld = <<>> /\ PartialResult(status)
                \/ upheld # <<>> /\ EndsRun(IF status = "unverified" /\ ~problem THEN "complete" ELSE status, "composed", upheld = draft, unread)
    BY <1>3
  <2>2. status \in {"stuck", "unverified"}
    BY DEF StopStatus
  <2>3. CASE PartialResult(status)
    <3>1. Endings /\ shown'.status = status
      BY <1>3, <2>3, PartialWell
    <3> QED BY <2>2, <3>1 DEF EndsWell
  <2>4. CASE EndsRun(IF status = "unverified" /\ ~problem THEN "complete" ELSE status, "composed", upheld = draft, unread)
    <3> DEFINE given == IF status = "unverified" /\ ~problem THEN "complete" ELSE status
    <3>1. Endings /\ shown' = Ending(given, "composed", upheld = draft, unread)
      BY <2>4, EndsRunWell
    <3>2. shown'.status = given /\ shown'.whole = (upheld = draft)
      BY <3>1 DEF Ending
    <3> QED BY <2>2, <3>1, <3>2 DEF EndsWell
  <2> QED BY <2>1, <2>3, <2>4
<1> QED BY <1>1, <1>2, <1>3 DEF Settles

LEMMA EmptyDrafts == <<>> \in Seq(Seq({}))
OBVIOUS

\* A step that begins a draft or ends the run.
LEMMA EndsWellKeeps ==
  ASSUME ComposeInv, stage # "ended", EndsWell
  PROVE  ComposeInv'
<1>1. DraftsAreSeqs'
  BY EmptyDrafts DEF EndsWell, Endings, DraftsAreSeqs
<1>2. shown = Absent /\ JudgedSources' = JudgedSources
  BY DEF ComposeInv, NoneShown, EndsWell, Endings, noteState, JudgedSources
<1>3. NoneShown' /\ ShownWasJudged'
  BY <1>2 DEF EndsWell, Endings, NoneShown, ShownWasJudged, CheckedComposition
<1> QED BY <1>1, <1>3 DEF ComposeInv

\* A step within a draft, or between two.
LEMMA DraftingKeeps ==
  ASSUME ComposeInv, stage # "ended", stage' # "ended", shown' = shown, DraftsAreSeqs'
  PROVE  ComposeInv'
BY DEF ComposeInv, NoneShown, ShownWasJudged

LEMMA ConcludeKeeps ==
  ASSUME ComposeInv, Conclude
  PROVE  ComposeInv'
<1>1. stage # "ended"
  BY DEF Conclude
<1>2. CASE Verdict
  <2>1. PICK claims : Settles(claims, claims, FALSE, FALSE) /\ UNCHANGED noteState
    BY <1>2 DEF Verdict
  <2>2. EndsWell
    BY <2>1, SettlesWell
  <2> QED BY <1>1, <2>2, EndsWellKeeps
<1>3. CASE StartsComposing
  <2>1. EndsWell
    BY <1>3 DEF StartsComposing, EndsWell
  <2> QED BY <1>1, <2>1, EndsWellKeeps
<1>4. CASE DraftReviewed
  <2>1. PICK coverage \in {"yes", "no", "unanswered"} : Settles(Picks, Picks, coverage # "yes", coverage = "no") /\ UNCHANGED noteState
    BY <1>4 DEF DraftReviewed
  <2>2. EndsWell
    BY <2>1, SettlesWell
  <2> QED BY <1>1, <2>2, EndsWellKeeps
<1>5. CASE Settles(Picks, Picks, FALSE, FALSE) /\ UNCHANGED <<noteState, asked, writeUp, reduced>>
  <2>1. EndsWell
    BY <1>5, SettlesWell
  <2> QED BY <1>1, <2>1, EndsWellKeeps
<1> QED BY <1>2, <1>3, <1>4, <1>5 DEF Conclude

LEMMA ReviewWell ==
  ASSUME Review
  PROVE  \E claims, j :
           LET reports == asked = "text" \/ stopping IN
           /\ claims = Joined(drafted) /\ j \in Judgements(claims, reports) /\ UNCHANGED <<noteState, reduced>>
           /\ Settles(claims, Upheld(claims, j), reports /\ (Problem(claims, j, reports) \/ ~reduced),
                      reports /\ reduced /\ Rejection(claims, j))
<1> DEFINE reports == asked = "text" \/ stopping
<1>1. PICK claims \in {Joined(drafted)} : \E j \in Judgements(claims, reports) :
        \E r \in {Reviewed(claims, j, reports)} :
          Settles(claims, r.held, reports /\ (r.problem \/ ~reduced), reports /\ reduced /\ r.rejection)
  BY DEF Review
<1>2. PICK j \in Judgements(claims, reports) : \E r \in {Reviewed(claims, j, reports)} :
          Settles(claims, r.held, reports /\ (r.problem \/ ~reduced), reports /\ reduced /\ r.rejection)
  BY <1>1
<1>3. /\ Reviewed(claims, j, reports).held = Upheld(claims, j)
      /\ Reviewed(claims, j, reports).problem = Problem(claims, j, reports)
      /\ Reviewed(claims, j, reports).rejection = Rejection(claims, j)
  BY DEF Reviewed
<1>4. UNCHANGED <<noteState, reduced>>
  BY DEF Review
<1> HIDE DEF reports
<1>5. Settles(claims, Upheld(claims, j), reports /\ (Problem(claims, j, reports) \/ ~reduced),
              reports /\ reduced /\ Rejection(claims, j))
  BY <1>2, <1>3
<1> QED BY <1>1, <1>2, <1>4, <1>5 DEF reports

LEMMA ComposingKept == ComposeInv /\ [ComposingNext]_composeVars => ComposeInv'
<1> SUFFICES ASSUME ComposeInv, [ComposingNext]_composeVars PROVE ComposeInv'
  OBVIOUS
<1>1. CASE UNCHANGED composeVars
  <2>1. JudgedSources' = JudgedSources
    BY <1>1 DEF composeVars, JudgedSources
  <2> QED BY <1>1, <2>1 DEF composeVars, ComposeInv, DraftsAreSeqs, NoneShown, ShownWasJudged
<1>2. CASE ReadsOn
  <2>1. stage = "acting" /\ stage' = stage /\ shown' = shown /\ drafted' = drafted
    BY <1>2 DEF ReadsOn
  <2>2. DraftsAreSeqs'
    BY <2>1 DEF ComposeInv, DraftsAreSeqs
  <2> QED BY <2>1, <2>2, DraftingKeeps
<1>3. CASE Conclude
  BY <1>3, ConcludeKeeps
<1>4. CASE ComposePart
  <2>1. stage = "compose" /\ stage' = stage /\ shown' = shown
    BY <1>4 DEF ComposePart
  <2>2. PICK claims \in Writes(parts[Len(drafted) + 1], Len(parts) = 1) : drafted' = Append(drafted, claims)
    BY <1>4 DEF ComposePart
  <2>3. PICK Y : claims \in Seq(Y)
    BY <2>2, WritesAreSeqs
  <2>4. PICK X : drafted \in Seq(Seq(X))
    BY DEF ComposeInv, DraftsAreSeqs
  <2>5. DraftsAreSeqs'
    BY <2>2, <2>3, <2>4, DraftGrows DEF DraftsAreSeqs
  <2> QED BY <2>1, <2>5, DraftingKeeps
<1>5. CASE RoundEnds
  <2>1. stage = "compose" /\ stage' \in {"compose", "review"} /\ shown' = shown /\ drafted' \in {<<>>, drafted}
    BY <1>5 DEF RoundEnds
  <2>2. DraftsAreSeqs'
    BY <2>1, EmptyDrafts DEF ComposeInv, DraftsAreSeqs
  <2> QED BY <2>1, <2>2, DraftingKeeps
<1>6. CASE Review
  <2>1. stage = "review"
    BY <1>6 DEF Review
  <2>2. EndsWell
    BY <1>6, ReviewWell, SettlesWell
  <2> QED BY <2>1, <2>2, EndsWellKeeps
<1>7. CASE ComposeFails
  <2>1. stage = "compose" /\ (\E status : PartialResult(status)) /\ noteState' = noteState /\ partial' = partial
    BY <1>7 DEF ComposeFails
  <2>2. EndsWell
    BY <2>1, PartialWell DEF EndsWell
  <2> QED BY <2>1, <2>2, EndsWellKeeps
<1>8. CASE StopsShort
  <2>1. stage = "acting" /\ noteState' = noteState /\ partial' = partial
    BY <1>8 DEF StopsShort
  <2>2. EndsWell
    <3>1. CASE \E status : PartialResult(status)
      BY <2>1, <3>1, PartialWell DEF EndsWell
    <3>2. CASE stage' = "compose" /\ drafted' = <<>> /\ shown' = shown
      BY <2>1, <3>2 DEF EndsWell
    <3> QED BY <1>8, <3>1, <3>2 DEF StopsShort
  <2> QED BY <2>1, <2>2, EndsWellKeeps
<1> QED BY <1>1, <1>2, <1>3, <1>4, <1>5, <1>6, <1>7, <1>8 DEF ComposingNext, Compose, ComposeEnded

LEMMA ProblemFree ==
  ASSUME NEW X, NEW claims \in Seq(X), NEW coverage \in BOOLEAN, NEW j \in Judgements(claims, coverage),
         ~Problem(claims, j, coverage)
  PROVE  /\ claims # <<>> /\ Upheld(claims, j) = claims
         /\ \A c \in Range(claims) : c.cites \cap 1..read # {}
<1>1. ~j.failed /\ claims # <<>> /\ Supported(claims, j) = DOMAIN claims
  BY DEF Problem
<1>3. DOMAIN j.support = Cited(claims)
  <2> DEFINE cited == Cited(claims)
             answers == {"yes", "no", "unanswered"}
             covers == IF coverage /\ cited # {} THEN answers ELSE {"unasked"}
  <2>1. j \in [support : [cited -> answers], coverage : covers, failed : {FALSE}]
              \cup {[support |-> [i \in cited |-> "unanswered"], coverage |-> "unanswered", failed |-> TRUE]}
    BY DEF Judgements
  <2> HIDE DEF cited, answers, covers
  <2>2. CASE j \in [support : [cited -> answers], coverage : covers, failed : {FALSE}]
    <3>1. j.support \in [cited -> answers]
      BY <2>2
    <3> QED BY <3>1 DEF cited
  <2>3. CASE j = [support |-> [i \in cited |-> "unanswered"], coverage |-> "unanswered", failed |-> TRUE]
    BY <2>3 DEF cited
  <2> QED BY <2>1, <2>2, <2>3
<1>4. DOMAIN claims \subseteq Cited(claims)
  BY <1>1, <1>3 DEF Supported
<1>5. \A c2 \in Range(claims) : c2.cites \cap 1..read # {}
  BY <1>4 DEF Cited, CitedQuotes, Range
<1>6. Upheld(claims, j) = Joined([i \in DOMAIN claims |-> <<claims[i]>>])
  <2>1. [i \in DOMAIN claims |-> IF i \in Supported(claims, j) THEN <<claims[i]>> ELSE <<>>] = [i \in DOMAIN claims |-> <<claims[i]>>]
    BY <1>1
  <2> QED BY <2>1 DEF Upheld
<1> QED BY <1>1, <1>5, <1>6, JoinedOfOnes

LEMMA CompleteChecked ==
  ASSUME ComposeInv, [ComposingNext]_composeVars, shown = Absent, shown' # Absent, shown'.status = "complete", stage = "review",
         asked = "text"
  PROVE  /\ reduced /\ shown'.whole /\ Joined(drafted) # <<>>
         /\ \A c \in Range(Joined(drafted)) : c.cites \cap 1..read # {}
<1>1. Review
  BY DEF ComposingNext, ReadsOn, Conclude, Compose, ComposePart, RoundEnds, ComposeFails, StopsShort, ComposeEnded, composeVars
<1>2. PICK claims, j :
        /\ claims = Joined(drafted) /\ j \in Judgements(claims, TRUE) /\ UNCHANGED <<noteState, reduced>>
        /\ Settles(claims, Upheld(claims, j), TRUE /\ (Problem(claims, j, TRUE) \/ ~reduced), TRUE /\ reduced /\ Rejection(claims, j))
  <2>1. (asked = "text" \/ stopping) = TRUE
    OBVIOUS
  <2> QED BY <1>1, <2>1, ReviewWell, Zenon
<1>3. EndsWell /\ (stage' = "ended" => ~(Problem(claims, j, TRUE) \/ ~reduced) /\ shown'.whole = (Upheld(claims, j) = claims))
  BY <1>2, SettlesWell
<1>4. stage' = "ended"
  BY <1>3 DEF EndsWell, Endings
<1>5. PICK X : drafted \in Seq(Seq(X))
  BY DEF ComposeInv, DraftsAreSeqs
<1>6. claims \in Seq(X)
  BY <1>2, <1>5, JoinedIsSeq
<1>7. claims # <<>> /\ Upheld(claims, j) = claims /\ \A c \in Range(claims) : c.cites \cap 1..read # {}
  BY <1>2, <1>3, <1>4, <1>6, ProblemFree
<1> QED BY <1>2, <1>3, <1>4, <1>7

\* An answer ends a run complete only when every claim of it cites a note there is, was
\* upheld by the review, and was written by one request that saw all the notes
\* (answers.rs `compose_reviewed`, conclude_attempt).
THEOREM CompleteIsChecked == ComposingSpec => CompleteWasChecked
<1>1. ComposeInv /\ [ComposingNext]_composeVars =>
        [ shown = Absent /\ shown' # Absent /\ shown'.status = "complete" /\ stage = "review" /\ asked = "text" =>
            /\ reduced /\ shown'.whole /\ Joined(drafted) # <<>>
            /\ \A c \in Range(Joined(drafted)) : c.cites \cap 1..read # {} ]_composeVars
  BY CompleteChecked
<1> QED BY <1>1, ComposeBegins, ComposingKept, PTL DEF ComposingSpec, CompleteWasChecked

\* Claims kept from a rejected draft are shown only while the notes they were judged
\* against are the notes there are, read or replaced since (state.rs
\* `checked_composition`).
THEOREM KeptClaimsWereJudged == ComposingSpec => []ShownWasJudged
<1>1. ComposeInv => ShownWasJudged
  BY DEF ComposeInv
<1> QED BY <1>1, ComposeBegins, ComposingKept, PTL DEF ComposingSpec

\* Notes rendered in a room.
LEMMA RenderedFits ==
  ASSUME NEW notes \in [needed : Nat, other : Nat], NEW room \in Nat
  PROVE  LET r == RenderedIn(notes, room) IN
         r.ok = (notes.needed <= room) /\ r.size \in Nat /\ r.size >= notes.needed /\ (r.ok => r.size <= room)
<1> DEFINE r == RenderedIn(notes, room)
           d == notes.needed
           o == notes.other
           more == Least(o, Less(room, d))
<1>1. d \in Nat /\ o \in Nat
  OBVIOUS
<1>2. r.ok = (d <= room) /\ r.size = d + more
  BY DEF RenderedIn
<1> HIDE DEF r, d, o
<1>3. more \in Nat /\ (d <= room => d + more <= room)
  BY <1>1 DEF Least, Less
<1> HIDE DEF more
<1>4. r.size \in Nat /\ r.size >= d /\ (d <= room => r.size <= room)
  BY <1>1, <1>2, <1>3
<1>5. r.ok => d <= room
  BY <1>2
<1> QED BY <1>2, <1>4, <1>5 DEF r, d

LEMMA LessIsNat == ASSUME NEW a \in Nat, NEW b \in Nat PROVE Less(a, b) \in Nat /\ (a >= b => Less(a, b) = a - b) /\ (a < b => Less(a, b) = 0)
BY DEF Less

\* A verdict's state is refused only when the page's inputs and the answer's own
\* evidence do not fit; else it fits, with that evidence whole (verification/mod.rs
\* `page_state`).
THEOREM VerdictIsAsked ==
  ASSUME NEW page \in [fixed : Nat, text : Nat, links : Nat, inputs : Nat], NEW notes \in [needed : Nat, other : Nat],
         NEW budget \in Nat
  PROVE  RefusedOnlyWhenItMust(page, notes, budget)
<1> DEFINE f == page.fixed
           t == page.text
           l == page.links
           i == page.inputs
           d == notes.needed
           r1 == Less(budget, f + t + l + i)
           r2 == Less(budget, f + l + i)
           r3 == Less(budget, f + i + Omitted)
           full == RenderedIn(notes, r1)
           bare == RenderedIn(notes, r2)
           least == RenderedIn(notes, r3)
           early == ~full.ok /\ ~bare.ok
           given == IF full.ok THEN full ELSE IF bare.ok THEN bare ELSE least
           controls == IF early THEN i + Omitted ELSE l + i
           base == f + controls + given.size
           text == IF ~full.ok \/ base + t > budget THEN Least(t, Less(budget, base)) ELSE t
           drop == base + text > budget /\ ~early
           size == IF drop THEN base + text - l + Omitted ELSE base + text
<1>1. f \in Nat /\ t \in Nat /\ l \in Nat /\ i \in Nat /\ d \in Nat
  OBVIOUS
<1>2. PageState(page, notes, budget) = [ok |-> given.ok /\ size <= budget, size |-> size, notes |-> given.size, inputs |-> i]
  BY DEF PageState
<1> HIDE DEF f, t, l, i, d
<1>3. /\ r1 \in Nat /\ (budget >= f + t + l + i => r1 = budget - (f + t + l + i)) /\ (budget < f + t + l + i => r1 = 0)
      /\ r2 \in Nat /\ (budget >= f + l + i => r2 = budget - (f + l + i)) /\ (budget < f + l + i => r2 = 0)
      /\ r3 \in Nat /\ (budget >= f + i + 1 => r3 = budget - (f + i + 1)) /\ (budget < f + i + 1 => r3 = 0)
  <2>1. f + t + l + i \in Nat /\ f + l + i \in Nat /\ f + i + Omitted \in Nat /\ Omitted = 1
    BY <1>1 DEF Omitted
  <2> QED BY <2>1, LessIsNat
<1> HIDE DEF r1, r2, r3
<1>4. full.ok = (d <= r1) /\ full.size \in Nat /\ full.size >= d /\ (full.ok => full.size <= r1)
  BY <1>3, RenderedFits DEF d
<1>5. bare.ok = (d <= r2) /\ bare.size \in Nat /\ bare.size >= d /\ (bare.ok => bare.size <= r2)
  BY <1>3, RenderedFits DEF d
<1>6. least.ok = (d <= r3) /\ least.size \in Nat /\ least.size >= d /\ (least.ok => least.size <= r3)
  BY <1>3, RenderedFits DEF d
<1> HIDE DEF full, bare, least
<1>7. given.size \in Nat /\ given.size >= d
  BY <1>4, <1>5, <1>6
<1>8. controls \in Nat /\ base \in Nat
  BY <1>1, <1>7 DEF Omitted
<1>9. text \in Nat /\ text <= t /\ (base + text <= budget \/ text = 0)
  <2>1. Less(budget, base) \in Nat /\ (budget >= base => Less(budget, base) = budget - base) /\ (budget < base => Less(budget, base) = 0)
    BY <1>8, LessIsNat
  <2>2. Least(t, Less(budget, base)) \in Nat /\ Least(t, Less(budget, base)) <= t /\ Least(t, Less(budget, base)) <= Less(budget, base)
    BY <1>1, <2>1 DEF Least
  <2> DEFINE cut == Least(t, Less(budget, base))
  <2>3. base + cut <= budget \/ cut = 0
    <3> HIDE DEF base, cut
    <3>1. cut \in Nat /\ cut <= Less(budget, base)
      BY <2>2 DEF cut
    <3> QED BY <1>8, <2>1, <3>1
  <2>4. text = cut \/ (text = t /\ ~(base + t > budget))
    OBVIOUS
  <2>5. cut \in Nat /\ cut <= t
    BY <2>2
  <2> HIDE DEF base, cut, text
  <2> QED BY <1>1, <1>8, <2>3, <2>4, <2>5
<1> DEFINE state == PageState(page, notes, budget)
<1>14. (state.ok <=> given.ok /\ size <= budget) /\ state.size = size /\ state.notes = given.size
  <2> DEFINE fits == given.ok /\ size <= budget
  <2> HIDE DEF given, size, fits
  <2>1. state = [ok |-> fits, size |-> size, notes |-> given.size, inputs |-> i]
    BY <1>2 DEF fits
  <2> HIDE DEF state
  <2>2. state.ok = fits /\ state.size = size /\ state.notes = given.size
    BY <2>1
  <2> QED BY <2>2, Zenon DEF fits
<1>15. IF state.ok THEN state.size <= budget /\ state.notes >= d ELSE f + i + Omitted + d > budget
  <2> SUFFICES ASSUME ~(given.ok /\ size <= budget) PROVE f + i + 1 + d > budget
    BY <1>7, <1>14 DEF Omitted
  <2>10. Omitted = 1
    BY DEF Omitted
  <2> HIDE DEF text
  <2>11. CASE full.ok
    BY <1>1, <1>3, <1>4, <1>7, <1>8, <1>9, <2>10, <2>11
  <2>12. CASE ~full.ok /\ bare.ok
    BY <1>1, <1>3, <1>5, <1>7, <1>8, <1>9, <2>10, <2>12
  <2>13. CASE ~full.ok /\ ~bare.ok
    <3>1. given = least /\ size = base + text /\ base = f + (i + 1) + least.size
      BY <2>10, <2>13
    <3>2. CASE budget < f + i + 1
      BY <1>1, <3>2
    <3>3. CASE budget >= f + i + 1 /\ ~least.ok
      <4>1. ~(d <= r3)
        BY <1>6, <3>3, Zenon
      <4> QED BY <1>1, <1>3, <3>3, <4>1
    <3>4. CASE budget >= f + i + 1 /\ least.ok
      <4>1. base <= budget
        BY <1>1, <1>3, <1>6, <3>1, <3>4
      <4>2. size <= budget
        <5> HIDE DEF base, size
        <5> QED BY <1>8, <1>9, <3>1, <4>1
      <4> QED BY <3>1, <3>4, <4>2
    <3> QED BY <1>1, <3>2, <3>3, <3>4
  <2> QED BY <2>11, <2>12, <2>13
<1> QED
  <2> HIDE DEF state
  <2>1. IF state.ok THEN state.size <= budget /\ state.notes >= notes.needed
        ELSE page.fixed + page.inputs + Omitted + notes.needed > budget
    BY <1>15 DEF f, i, d
  <2> QED BY <2>1 DEF RefusedOnlyWhenItMust, state

\* A function given by its first value and a step is there, with its values where
\* the step leads.
StepsOf(n, S, zeroth, go, f) == f \in [0..n -> S] /\ f[0] = zeroth /\ \A k \in 1..n : f[k] = go[<<k, f[k - 1]>>]
LEMMA StepwiseFrom ==
  ASSUME NEW n \in Nat, NEW S, NEW zeroth \in S, NEW go \in [(1..n) \X S -> S]
  PROVE  \E f : StepsOf(n, S, zeroth, go, f)
<1> DEFINE Reaches(m) == \E f \in [0..m -> S] : f[0] = zeroth /\ \A k \in 1..m : f[k] = go[<<k, f[k - 1]>>]
           T == {m \in Nat : m <= n => Reaches(m)}
<1>1. 0 \in T
  <2> DEFINE f == [k \in 0..0 |-> zeroth]
  <2>1. f \in [0..0 -> S] /\ f[0] = zeroth /\ \A k \in 1..0 : f[k] = go[<<k, f[k - 1]>>]
    OBVIOUS
  <2> QED BY <2>1
<1>2. ASSUME NEW m \in T PROVE m + 1 \in T
  <2> SUFFICES ASSUME m + 1 <= n PROVE Reaches(m + 1)
    BY <1>2
  <2>1. PICK f \in [0..m -> S] : f[0] = zeroth /\ \A k \in 1..m : f[k] = go[<<k, f[k - 1]>>]
    BY <1>2
  <2> DEFINE g == [k \in 0..(m + 1) |-> IF k = m + 1 THEN go[<<m + 1, f[m]>>] ELSE f[k]]
  <2>2. f[m] \in S /\ m + 1 \in 1..n /\ go[<<m + 1, f[m]>>] \in S
    BY <2>1
  <2>3. g \in [0..(m + 1) -> S] /\ g[0] = zeroth
    BY <2>1, <2>2
  <2>4. ASSUME NEW k \in 1..(m + 1) PROVE g[k] = go[<<k, g[k - 1]>>]
    <3>1. k - 1 \in 0..(m + 1) /\ k - 1 # m + 1 /\ g[k - 1] = f[k - 1]
      OBVIOUS
    <3>2. CASE k = m + 1
      BY <3>1, <3>2
    <3>3. CASE k # m + 1
      <4>1. k \in 1..m /\ g[k] = f[k]
        BY <3>3
      <4> QED BY <2>1, <3>1, <4>1
    <3> QED BY <3>2, <3>3
  <2> HIDE DEF g
  <2> QED BY <2>3, <2>4
<1>3. T = Nat
  <2> HIDE DEF T
  <2>1. T \in SUBSET Nat
    BY DEF T
  <2> QED BY <1>1, <1>2, <2>1, NatsFromZero
<1> HIDE DEF Reaches
<1>4. n \in T /\ n <= n
  <2> HIDE DEF T
  <2> QED BY <1>3
<1>5. Reaches(n)
  BY <1>4
<1> QED BY <1>5 DEF Reaches, StepsOf

\* What of a list is in a set: no more than the list has, each as often.
LEMMA AmongIs ==
  ASSUME NEW S, NEW seq \in Seq(S), NEW set
  PROVE  /\ Among(seq, set) \in Seq(S) /\ Range(Among(seq, set)) = Range(seq) \cap set
         /\ (\A i, j \in DOMAIN seq : seq[i] = seq[j] => i = j)
              => \A i, j \in DOMAIN Among(seq, set) : Among(seq, set)[i] = Among(seq, set)[j] => i = j
<1> DEFINE n == Len(seq)
           go == [p \in (1..n) \X Seq(S) |-> IF seq[p[1]] \in set THEN Append(p[2], seq[p[1]]) ELSE p[2]]
           Body(f) == [k \in 0..n |-> IF k = 0 THEN <<>> ELSE IF seq[k] \in set THEN Append(f[k - 1], seq[k]) ELSE f[k - 1]]
<1>0. n \in Nat /\ DOMAIN seq = 1..n /\ \A k \in 1..n : seq[k] \in S
  OBVIOUS
<1> DEFINE none == <<>>
<1>1. none \in Seq(S) /\ go \in [(1..n) \X Seq(S) -> Seq(S)]
  BY <1>0
<1>2. \E f : StepsOf(n, Seq(S), none, go, f)
  <2> HIDE DEF go, n, none
  <2> QED BY <1>0, <1>1, StepwiseFrom, Zenon
<1>3. PICK f \in [0..n -> Seq(S)] : f[0] = <<>> /\ \A k \in 1..n : f[k] = go[<<k, f[k - 1]>>]
  BY <1>2, Zenon DEF StepsOf
<1>4. \A k \in 1..n : f[k] = IF seq[k] \in set THEN Append(f[k - 1], seq[k]) ELSE f[k - 1]
  <2> SUFFICES ASSUME NEW k \in 1..n PROVE f[k] = IF seq[k] \in set THEN Append(f[k - 1], seq[k]) ELSE f[k - 1]
    OBVIOUS
  <2>1. k - 1 \in 0..n /\ f[k - 1] \in Seq(S)
    BY <1>0, <1>3
  <2>2. f[k] = go[<<k, f[k - 1]>>] /\ <<k, f[k - 1]>> \in (1..n) \X Seq(S)
    BY <1>3, <2>1
  <2> HIDE DEF n
  <2> QED BY <2>2
<1>5. f = Body(f)
  <2>1. \A k \in 0..n : f[k] = Body(f)[k]
    <3> SUFFICES ASSUME NEW k \in 0..n PROVE f[k] = Body(f)[k]
      OBVIOUS
    <3>1. CASE k = 0
      BY <1>3, <3>1
    <3>2. CASE k # 0
      <4>1. k \in 1..n
        BY <1>0, <3>2
      <4> QED BY <1>4, <3>2, <4>1
    <3> QED BY <3>1, <3>2
  <2> QED BY <1>3, <2>1
<1> DEFINE g == CHOOSE h : h = Body(h)
<1>6. g = Body(g)
  <2> HIDE DEF Body
  <2> QED BY <1>5
<1>7. Among(seq, set) = g[n]
  BY DEF Among
<1> HIDE DEF g
<1>8. g[0] = <<>> /\ \A k \in 1..n : g[k] = IF seq[k] \in set THEN Append(g[k - 1], seq[k]) ELSE g[k - 1]
  <2>1. \A k \in 0..n : g[k] = Body(g)[k]
    <3> HIDE DEF Body
    <3> QED BY <1>6
  <2>2. 0 \in 0..n /\ \A k \in 1..n : k \in 0..n /\ k # 0
    BY <1>0
  <2> HIDE DEF n
  <2> QED BY <2>1, <2>2
<1> DEFINE Good(k) == /\ g[k] \in Seq(S)
                      /\ \A i \in 1..Len(g[k]) : g[k][i] \in set /\ \E a \in 1..k : g[k][i] = seq[a]
                      /\ \A a \in 1..k : seq[a] \in set => \E i \in 1..Len(g[k]) : g[k][i] = seq[a]
                      /\ (\A i, j \in DOMAIN seq : seq[i] = seq[j] => i = j)
                           => \A i, j \in 1..Len(g[k]) : g[k][i] = g[k][j] => i = j
           T == {k \in Nat : k <= n => Good(k)}
<1>9. 0 \in T
  <2>1. g[0] = <<>> /\ g[0] \in Seq(S) /\ Len(g[0]) = 0
    BY <1>8
  <2>2. Good(0)
    BY <2>1
  <2> HIDE DEF Good
  <2> QED BY <2>2
<1>10. ASSUME NEW m \in T PROVE m + 1 \in T
  <2> SUFFICES ASSUME m + 1 <= n PROVE Good(m + 1)
    BY <1>10
  <2>1. m \in Nat /\ Good(m) /\ m + 1 \in 1..n /\ seq[m + 1] \in S
    <3> HIDE DEF Good
    <3> QED BY <1>0, <1>10
  <2>2. g[m + 1] = IF seq[m + 1] \in set THEN Append(g[m], seq[m + 1]) ELSE g[m]
    BY <1>0, <1>8, <2>1
  <2>3. CASE seq[m + 1] \in set
    <3> DEFINE l == Len(g[m])
    <3>1. /\ g[m + 1] \in Seq(S) /\ Len(g[m + 1]) = l + 1 /\ g[m + 1][l + 1] = seq[m + 1]
          /\ l \in Nat /\ \A i \in 1..l : g[m + 1][i] = g[m][i]
      BY <2>1, <2>2, <2>3
    <3>2. \A i \in 1..l : \E a \in 1..m : g[m][i] = seq[a]
      BY <2>1
    <3>3. \A i \in 1..(l + 1) : g[m + 1][i] \in set /\ \E a \in 1..(m + 1) : g[m + 1][i] = seq[a]
      <4> SUFFICES ASSUME NEW i \in 1..(l + 1) PROVE g[m + 1][i] \in set /\ \E a \in 1..(m + 1) : g[m + 1][i] = seq[a]
        OBVIOUS
      <4>1. CASE i = l + 1
        <5>1. m + 1 \in 1..(m + 1)
          BY <2>1
        <5> QED BY <2>3, <3>1, <4>1, <5>1
      <4>2. CASE i # l + 1
        <5>1. i \in 1..l /\ i \in 1..Len(g[m]) /\ g[m + 1][i] = g[m][i]
          BY <3>1, <4>2
        <5>2. PICK a \in 1..m : g[m][i] = seq[a]
          BY <3>2, <5>1
        <5>3. a \in 1..(m + 1) /\ g[m][i] \in set
          BY <2>1, <5>1
        <5> QED BY <5>1, <5>2, <5>3
      <4> QED BY <4>1, <4>2
    <3>4. ASSUME \A i, j \in DOMAIN seq : seq[i] = seq[j] => i = j, NEW i \in 1..(l + 1), NEW j \in 1..(l + 1), g[m + 1][i] = g[m + 1][j]
          PROVE  i = j
      <4>1. CASE i \in 1..l /\ j \in 1..l
        <5>1. \A a, b \in 1..l : g[m][a] = g[m][b] => a = b
          BY <2>1, <3>4
        <5> QED BY <3>1, <3>4, <4>1, <5>1
      <4>2. \A a \in 1..l : g[m + 1][a] # seq[m + 1]
        <5> SUFFICES ASSUME NEW a \in 1..l, g[m + 1][a] = seq[m + 1] PROVE FALSE
          OBVIOUS
        <5>1. PICK b \in 1..m : g[m][a] = seq[b]
          BY <3>2
        <5>2. seq[b] = seq[m + 1] /\ b \in DOMAIN seq /\ m + 1 \in DOMAIN seq /\ b # m + 1
          BY <1>0, <2>1, <3>1, <5>1
        <5> QED BY <3>4, <5>2
      <4>3. CASE i = l + 1 \/ j = l + 1
        <5>1. (i = l + 1 \/ i \in 1..l) /\ (j = l + 1 \/ j \in 1..l)
          BY <3>1
        <5>2. g[m + 1][l + 1] = seq[m + 1]
          BY <3>1
        <5> HIDE DEF l
        <5> QED BY <3>4, <4>2, <4>3, <5>1, <5>2, Zenon
      <4> QED BY <3>1, <4>1, <4>3
    <3>5. \A a \in 1..(m + 1) : seq[a] \in set => \E i \in 1..(l + 1) : g[m + 1][i] = seq[a]
      <4> SUFFICES ASSUME NEW a \in 1..(m + 1), seq[a] \in set PROVE \E i \in 1..(l + 1) : g[m + 1][i] = seq[a]
        OBVIOUS
      <4>1. CASE a = m + 1
        <5>1. l + 1 \in 1..(l + 1) /\ g[m + 1][l + 1] = seq[m + 1]
          BY <3>1
        <5> QED BY <4>1, <5>1
      <4>2. CASE a # m + 1
        <5>1. a \in 1..m
          BY <2>1, <4>2
        <5>2. PICK i \in 1..l : g[m][i] = seq[a]
          BY <2>1, <5>1
        <5> QED BY <3>1, <5>2
      <4> QED BY <4>1, <4>2
    <3> HIDE DEF l
    <3> QED BY <3>1, <3>3, <3>4, <3>5
  <2>4. CASE seq[m + 1] \notin set
    <3>1. g[m + 1] = g[m]
      BY <2>2, <2>4
    <3>2. \A a \in 1..m : a \in 1..(m + 1)
      BY <2>1
    <3>3. \A a \in 1..(m + 1) : seq[a] \in set => a \in 1..m
      BY <2>1, <2>4
    <3> QED BY <2>1, <3>1, <3>2, <3>3
  <2> QED BY <2>3, <2>4
<1>11. T = Nat
  <2> HIDE DEF T
  <2>1. T \in SUBSET Nat
    BY DEF T
  <2> QED BY <1>9, <1>10, <2>1, NatsFromZero
<1>12. Good(n)
  <2> HIDE DEF Good
  <2>1. n \in T
    BY <1>0, <1>11
  <2> QED BY <1>0, <2>1
<1> DEFINE taken == Among(seq, set)
<1>13. taken = g[n] /\ DOMAIN taken = 1..Len(g[n])
  BY <1>7, <1>12
<1>14. Range(taken) \subseteq Range(seq) \cap set
  <2> SUFFICES ASSUME NEW i \in DOMAIN taken PROVE taken[i] \in Range(seq) /\ taken[i] \in set
    BY DEF Range
  <2>1. taken[i] = g[n][i] /\ i \in 1..Len(g[n])
    BY <1>13
  <2>2. g[n][i] \in set /\ \E a \in 1..n : g[n][i] = seq[a]
    BY <1>12, <2>1
  <2> QED BY <1>0, <2>1, <2>2 DEF Range
<1>15. Range(seq) \cap set \subseteq Range(taken)
  <2> SUFFICES ASSUME NEW a \in 1..n, seq[a] \in set PROVE seq[a] \in Range(taken)
    BY <1>0 DEF Range
  <2>1. PICK i \in 1..Len(g[n]) : g[n][i] = seq[a]
    BY <1>12
  <2> QED BY <1>13, <2>1 DEF Range
<1> QED BY <1>12, <1>13, <1>14, <1>15

\* A number divided and rounded up.
LEMMA UpToIs ==
  ASSUME NEW a \in Nat, NEW b \in Nat \ {0}
  PROVE  UpTo(a, b) \in Nat /\ b * UpTo(a, b) >= a /\ b * UpTo(a, b) < a + b
<1>1. a + b - 1 \in Nat
  OBVIOUS
<1>2. UpTo(a, b) = (a + b - 1) \div b
  BY DEF UpTo
<1> DEFINE q == (a + b - 1) \div b
<1>3. q \in Nat /\ b * q <= a + b - 1 /\ a + b - 1 < b * q + b
  BY <1>1, Divided
<1> HIDE DEF q
<1>4. b * q \in Nat
  BY <1>3
<1> DEFINE p == b * q
<1> HIDE DEF p
<1>5. p \in Nat /\ p <= a + b - 1 /\ a + b - 1 < p + b
  BY <1>3, <1>4 DEF p
<1>6. p >= a /\ p < a + b
  BY <1>5
<1> QED BY <1>2, <1>3, <1>6 DEF p, q

\* The pieces of a size that a list is cut into: each place is in one of them.
LEMMA OnePiece ==
  ASSUME NEW n \in Nat, NEW size \in Nat \ {0}, NEW i \in 1..n
  PROVE  /\ UpTo(i, size) \in 1..UpTo(n, size)
         /\ \A g \in Nat \ {0} : (g - 1) * size + 1 <= i /\ i <= g * size <=> g = UpTo(i, size)
<1> DEFINE q == UpTo(i, size)
           c == UpTo(n, size)
<1>1. q \in Nat /\ size * q >= i /\ size * q < i + size
  BY UpToIs
<1>2. c \in Nat /\ size * c >= n /\ size * c < n + size
  BY UpToIs
<1> HIDE DEF q, c
<1>3. q >= 1
  <2> SUFFICES ASSUME q = 0 PROVE FALSE
    BY <1>1
  <2>1. size * q = 0
    OBVIOUS
  <2> QED BY <1>1, <2>1
<1>4. q <= c
  <2> SUFFICES ASSUME c <= q - 1 PROVE FALSE
    BY <1>1, <1>2
  <2>1. size * c <= size * (q - 1)
    BY <1>1, <1>2, TimesMonotone
  <2>2. size * (q - 1) = size * q - size /\ size * q \in Int /\ size * c \in Int
    BY <1>1, <1>2
  <2> QED BY <1>1, <1>2, <2>1, <2>2
<1>5. ASSUME NEW g \in Nat \ {0} PROVE (g - 1) * size + 1 <= i /\ i <= g * size <=> g = q
  <2>1. g * size = size * g /\ (g - 1) * size = size * g - size /\ size * g \in Int /\ size * q \in Int
    BY <1>1
  <2>2. CASE g = q
    BY <1>1, <2>1, <2>2
  <2>3. CASE g < q
    <3>1. size * g <= size * (q - 1)
      BY <1>1, <2>3, TimesMonotone
    <3>2. size * (q - 1) = size * q - size
      BY <1>1
    <3> QED BY <1>1, <2>1, <2>3, <3>1, <3>2
  <2>4. CASE g > q
    <3>1. size * q <= size * (g - 1)
      BY <1>1, <2>4, TimesMonotone
    <3>2. size * (g - 1) = size * g - size
      OBVIOUS
    <3> QED BY <1>1, <2>1, <2>4, <3>1, <3>2
  <2> QED BY <1>1, <2>2, <2>3, <2>4
<1> QED BY <1>1, <1>2, <1>3, <1>4, <1>5 DEF q, c

\* The size of the groups: there are fewer of them than options, and each is a
\* smaller pool.
LEMMA GroupsFit ==
  ASSUME NEW n \in Nat, n >= MaxOptions
  PROVE  LET usual == IF GroupSize < MaxOptions - 1 THEN GroupSize ELSE MaxOptions - 1
             size == IF UpTo(n, usual) >= MaxOptions THEN UpTo(n, MaxOptions - 1) ELSE usual
         IN  size \in Nat \ {0} /\ size < n /\ UpTo(n, size) < MaxOptions
<1> DEFINE m == MaxOptions - 1
           usual == IF GroupSize < MaxOptions - 1 THEN GroupSize ELSE MaxOptions - 1
           large == UpTo(n, m)
           size == IF UpTo(n, usual) >= MaxOptions THEN UpTo(n, m) ELSE usual
<1>1. MaxOptions \in Nat /\ m \in Nat /\ m >= 2 /\ n > m /\ usual \in Nat \ {0} /\ usual <= m
  BY OptionsAssumption
<1>2. large \in Nat /\ m * large >= n /\ m * large < n + m
  <2> HIDE DEF m
  <2>1. m \in Nat \ {0}
    BY <1>1
  <2> QED BY <2>1, UpToIs
<1>3. UpTo(n, usual) \in Nat
  BY <1>1, UpToIs
<1>4. MaxOptions = m + 1
  BY <1>1
<1>5. size = large \/ (size = usual /\ UpTo(n, usual) < MaxOptions)
  BY <1>1, <1>3
<1> DEFINE Goal == size \in Nat \ {0} /\ size < n /\ UpTo(n, size) < MaxOptions
<1>6. ASSUME size = usual /\ UpTo(n, usual) < MaxOptions PROVE Goal
  <2> HIDE DEF size, usual
  <2> QED BY <1>1, <1>6 DEF size, usual
<1>7. ASSUME size = large PROVE Goal
  <2> HIDE DEF large, m, size
  <2>1. large # 0
    <3> SUFFICES ASSUME large = 0 PROVE FALSE
      OBVIOUS
    <3>1. m * large = 0
      BY <1>1
    <3> QED BY <1>1, <1>2, <3>1
  <2>2. large < n
    <3> SUFFICES ASSUME n <= large PROVE FALSE
      BY <1>2
    <3>1. m * n <= m * large
      BY <1>1, <1>2, TimesMonotone
    <3>2. (m - 1) * 3 <= (m - 1) * n
      <4>1. m - 1 \in Nat /\ 3 <= n
        BY <1>1
      <4> QED BY <4>1, TimesMonotone
    <3>3. (m - 1) * n = m * n - n /\ m * n \in Int /\ m * large \in Int
      BY <1>1, <1>2
    <3> QED BY <1>1, <1>2, <3>1, <3>2, <3>3
  <2>3. UpTo(n, large) < MaxOptions
    <3> DEFINE c == UpTo(n, large)
    <3>1. c \in Nat /\ large * c < n + large
      BY <1>2, <2>1, UpToIs
    <3> HIDE DEF c
    <3> SUFFICES ASSUME c >= m + 1 PROVE FALSE
      BY <1>1, <1>4, <3>1 DEF c
    <3>2. large * (m + 1) <= large * c
      BY <1>1, <1>2, <3>1, TimesMonotone
    <3>3. large * (m + 1) = m * large + large /\ m * large \in Int /\ large * c \in Int
      BY <1>1, <1>2, <3>1
    <3> QED BY <1>1, <1>2, <3>1, <3>2, <3>3
  <2> QED BY <1>2, <1>7, <2>1, <2>2, <2>3
<1> HIDE DEF size, m, usual, large
<1>8. Goal
  BY <1>5, <1>6, <1>7
<1> QED BY <1>8 DEF size, usual, m

\* A pool without a span twice is offered whole, in groups that fit a question.
LEMMA PoolIsOffered ==
  ASSUME NEW S, NEW seq \in Seq(S), Len(seq) >= MaxOptions, \A i, j \in DOMAIN seq : seq[i] = seq[j] => i = j
  PROVE  /\ FieldGroups(seq) \in Seq(Seq(S)) /\ Len(FieldGroups(seq)) < MaxOptions
         /\ \A g \in DOMAIN FieldGroups(seq) : /\ Len(FieldGroups(seq)[g]) < Len(seq) /\ Len(FieldGroups(seq)[g]) > 0
                                               /\ Range(FieldGroups(seq)[g]) \subseteq Range(seq)
                                               /\ \A i, j \in DOMAIN FieldGroups(seq)[g] : FieldGroups(seq)[g][i] = FieldGroups(seq)[g][j] => i = j
         /\ \A s \in Range(seq) : Cardinality({g \in DOMAIN FieldGroups(seq) : s \in Range(FieldGroups(seq)[g])}) = 1
<1> DEFINE n == Len(seq)
           usual == IF GroupSize < MaxOptions - 1 THEN GroupSize ELSE MaxOptions - 1
           size == IF UpTo(n, usual) >= MaxOptions THEN UpTo(n, MaxOptions - 1) ELSE usual
           c == UpTo(n, size)
           first(g) == (g - 1) * size + 1
           last(g) == IF g * size < n THEN g * size ELSE n
           groups == [g \in 1..c |-> SubSeq(seq, first(g), last(g))]
<1>1. n \in Nat /\ n >= MaxOptions /\ DOMAIN seq = 1..n /\ \A k \in 1..n : seq[k] \in S
  OBVIOUS
<1>2. size \in Nat \ {0} /\ size < n /\ c < MaxOptions
  <2> HIDE DEF n
  <2> QED BY <1>1, GroupsFit
<1>3. FieldGroups(seq) = groups
  BY DEF FieldGroups
<1> HIDE DEF size
<1>4. c \in Nat /\ size * c >= n /\ size * c < n + size
  BY <1>1, <1>2, UpToIs
<1> HIDE DEF n, c
<1>5. ASSUME NEW g \in 1..c
      PROVE  /\ first(g) \in 1..n /\ last(g) \in first(g)..n /\ last(g) - first(g) + 1 <= size
             /\ \A i \in 1..n : i \in first(g)..last(g) <=> g = UpTo(i, size)
  <2>1. g * size = size * g /\ (g - 1) * size = size * g - size /\ size * g \in Int /\ size * c \in Int
    BY <1>2, <1>4
  <2>2. size * 1 <= size * g /\ size * g <= size * c /\ size * 1 = size
    BY <1>2, <1>4, TimesMonotone
  <2> DEFINE p == size * g
             r == size * c
  <2>3. first(g) = p - size + 1 /\ last(g) = (IF p < n THEN p ELSE n) /\ p \in Int /\ r \in Int /\ size <= p /\ p <= r /\ r < n + size
    BY <1>4, <2>1, <2>2
  <2>4. ASSUME NEW i \in 1..n PROVE i \in first(g)..last(g) <=> g = UpTo(i, size)
    <3>1. (g - 1) * size + 1 <= i /\ i <= g * size <=> g = UpTo(i, size)
      <4>1. n \in Nat /\ size \in Nat \ {0} /\ g \in Nat \ {0}
        BY <1>1, <1>2, <1>4
      <4> QED BY <4>1, OnePiece
    <3>2. i \in first(g)..last(g) <=> (first(g) <= i /\ i <= g * size)
      <4> HIDE DEF p, first
      <4> QED BY <1>1, <2>1, <2>3 DEF p
    <3> QED BY <3>1, <3>2
  <2> HIDE DEF p, r, first, last
  <2>5. first(g) \in 1..n /\ last(g) \in first(g)..n /\ last(g) - first(g) + 1 <= size
    BY <1>1, <1>2, <2>3
  <2> QED BY <2>4, <2>5
<1> HIDE DEF first, last
<1>6. ASSUME NEW g \in 1..c
      PROVE  /\ groups[g] \in Seq(S) /\ Len(groups[g]) = last(g) - first(g) + 1 /\ Len(groups[g]) \in Nat
             /\ \A i \in 1..Len(groups[g]) : groups[g][i] = seq[first(g) + i - 1] /\ first(g) + i - 1 \in first(g)..last(g)
  <2>1. first(g) \in Int /\ last(g) \in Int /\ first(g) <= last(g) /\ \A i \in first(g)..last(g) : seq[i] \in S
    BY <1>1, <1>5
  <2>2. /\ SubSeq(seq, first(g), last(g)) \in Seq(S) /\ Len(SubSeq(seq, first(g), last(g))) = last(g) - first(g) + 1
        /\ \A i \in 1..(last(g) - first(g) + 1) : SubSeq(seq, first(g), last(g))[i] = seq[first(g) + i - 1]
    BY <2>1, SubSeqProperties
  <2>3. groups[g] = SubSeq(seq, first(g), last(g))
    OBVIOUS
  <2> HIDE DEF groups
  <2> QED BY <2>1, <2>2, <2>3
<1>7. groups \in Seq(Seq(S)) /\ Len(groups) = c /\ DOMAIN groups = 1..c
  BY <1>4, <1>6
<1> HIDE DEF groups
<1>8. ASSUME NEW g \in 1..c, NEW i \in 1..n PROVE seq[i] \in Range(groups[g]) <=> g = UpTo(i, size)
  <2> DEFINE G == groups[g]
             l == Len(G)
  <2>1. /\ G \in Seq(S) /\ l = last(g) - first(g) + 1 /\ l \in Nat
        /\ \A k \in 1..l : G[k] = seq[first(g) + k - 1] /\ first(g) + k - 1 \in first(g)..last(g)
    BY <1>6
  <2>2. DOMAIN G = 1..l
    BY <2>1
  <2>3. first(g) \in 1..n /\ last(g) \in first(g)..n /\ (i \in first(g)..last(g) <=> g = UpTo(i, size))
    BY <1>5
  <2> HIDE DEF G, l
  <2>4. ASSUME seq[i] \in Range(G) PROVE i \in first(g)..last(g)
    <3>1. PICK k \in 1..l : seq[i] = G[k]
      BY <2>2, <2>4 DEF Range
    <3>2. seq[i] = seq[first(g) + k - 1] /\ first(g) + k - 1 \in first(g)..last(g) /\ first(g) + k - 1 \in 1..n
      BY <1>1, <2>1, <2>3, <3>1
    <3>3. i = first(g) + k - 1
      BY <1>1, <3>2
    <3> QED BY <3>2, <3>3
  <2>5. ASSUME i \in first(g)..last(g) PROVE seq[i] \in Range(G)
    <3> DEFINE k == i - first(g) + 1
    <3>1. k \in 1..l /\ first(g) + k - 1 = i
      BY <1>1, <2>1, <2>3, <2>5
    <3>2. G[k] = seq[i] /\ k \in DOMAIN G
      BY <2>1, <2>2, <3>1
    <3> QED BY <3>2 DEF Range
  <2> QED BY <2>3, <2>4, <2>5 DEF G
<1>9. ASSUME NEW g \in 1..c
      PROVE  /\ Len(groups[g]) < n /\ Len(groups[g]) > 0 /\ Range(groups[g]) \subseteq Range(seq)
             /\ \A i, j \in DOMAIN groups[g] : groups[g][i] = groups[g][j] => i = j
  <2> DEFINE G == groups[g]
             l == Len(G)
  <2>1. /\ G \in Seq(S) /\ l = last(g) - first(g) + 1 /\ l \in Nat
        /\ \A k \in 1..l : G[k] = seq[first(g) + k - 1] /\ first(g) + k - 1 \in first(g)..last(g)
    BY <1>6
  <2>2. DOMAIN G = 1..l
    BY <2>1
  <2>3. first(g) \in 1..n /\ last(g) \in first(g)..n /\ last(g) - first(g) + 1 <= size
    BY <1>5
  <2> HIDE DEF G, l
  <2>4. l < n /\ l > 0
    BY <1>1, <1>2, <2>1, <2>3
  <2>5. \A k \in 1..l : first(g) + k - 1 \in 1..n
    BY <1>1, <2>1, <2>3
  <2>6. Range(G) \subseteq Range(seq)
    BY <1>1, <2>1, <2>2, <2>5 DEF Range
  <2>7. ASSUME NEW i \in 1..l, NEW j \in 1..l, G[i] = G[j] PROVE i = j
    <3>1. first(g) + i - 1 = first(g) + j - 1
      BY <1>1, <2>1, <2>5, <2>7
    <3> QED BY <2>3, <3>1
  <2> QED BY <2>2, <2>4, <2>6, <2>7 DEF G, l
<1>10. ASSUME NEW s \in Range(seq) PROVE Cardinality({g \in 1..c : s \in Range(groups[g])}) = 1
  <2>1. PICK i \in 1..n : s = seq[i]
    BY <1>1 DEF Range
  <2>2. UpTo(i, size) \in 1..c
    BY <1>1, <1>2, OnePiece DEF c
  <2>3. {g \in 1..c : s \in Range(groups[g])} = {UpTo(i, size)}
    BY <1>8, <2>1, <2>2
  <2> QED BY <2>3, FS_Singleton, Zenon
<1> QED BY <1>2, <1>3, <1>7, <1>9, <1>10 DEF n

----------------------------------------------------------------------------
\* The record: what is chosen for a field comes from a pool of spans read, each
\* once, that the field can hold.
Shows == Range(onPage) \cup Range(inNotes)
FieldKinds == [kind : {"str", "number", "other"}, required : BOOLEAN, least : Nat]
RecordTypes ==
  /\ fields \in Seq(FieldKinds) /\ onPage \in Seq(Spans) /\ inNotes \in Seq(Spans) /\ pool \in Seq(Spans)
  /\ field \in 1..(Len(fields) + 1) /\ extracted \in {"no", "data", "problem", "error"}
  /\ DOMAIN values \subseteq 1..Len(fields)
PoolIsOfField ==
  /\ IsInjective(onPage) /\ IsInjective(inNotes) /\ IsInjective(pool) /\ Range(pool) \subseteq Shows
  /\ pool # <<>> => field <= Len(fields) /\ \A s \in Range(pool) : Taken(fields[field], s)
ValuesShown ==
  /\ \A f \in DOMAIN values : values[f] \in Shows /\ Taken(fields[f], values[f])
  /\ extracted = "data" => \A f \in 1..Len(fields) : fields[f].required => f \in DOMAIN values
RecordInv == RecordTypes /\ PoolIsOfField /\ ValuesShown

LEMMA StretchIs ==
  ASSUME NEW seq \in Stretches
  PROVE  seq \in Seq(Spans) /\ IsInjective(seq)
<1> DEFINE n == Len(ReadsAs)
<1>1. n \in Nat /\ Spans = 1..n
  BY OptionsAssumption DEF Spans
<1>2. PICK span \in (1..n) \X (0..n) : seq = SubSeq(All, span[1], span[2])
  BY <1>1 DEF Stretches
<1> DEFINE a == span[1]
           b == span[2]
<1>3. a \in 1..n /\ b \in 0..n
  BY <1>2
<1> HIDE DEF a, b, n
<1>4. \A i \in 1..n : All[i] = i
  BY <1>1 DEF All
<1>5. \A i \in a..b : i \in 1..n /\ All[i] \in Spans
  BY <1>1, <1>3, <1>4
<1>6. /\ SubSeq(All, a, b) \in Seq(Spans) /\ Len(SubSeq(All, a, b)) = IF a <= b THEN b - a + 1 ELSE 0
      /\ \A i \in 1..(b - a + 1) : SubSeq(All, a, b)[i] = All[a + i - 1]
  BY <1>1, <1>3, <1>5, SubSeqProperties
<1>7. seq = SubSeq(All, a, b)
  BY <1>2 DEF a, b
<1>8. DOMAIN seq = 1..Len(seq) /\ Len(seq) \in Nat
  BY <1>6, <1>7
<1>9. ASSUME NEW i \in DOMAIN seq PROVE i \in Int /\ seq[i] = a + i - 1
  <2>1. i \in 1..(b - a + 1) /\ i \in Int
    BY <1>1, <1>3, <1>6, <1>7, <1>8
  <2>2. a + i - 1 \in 1..n
    BY <1>1, <1>3, <2>1
  <2> QED BY <1>4, <1>6, <1>7, <2>1, <2>2
<1>10. IsInjective(seq)
  <2> SUFFICES ASSUME NEW i \in DOMAIN seq, NEW j \in DOMAIN seq, seq[i] = seq[j] PROVE i = j
    BY DEF IsInjective
  <2>1. i \in Int /\ j \in Int /\ a + i - 1 = a + j - 1
    BY <1>9
  <2> QED BY <1>3, <2>1
<1> QED BY <1>6, <1>7, <1>10

LEMMA CandidatesAre ==
  ASSUME RecordInv, NEW f \in FieldKinds
  PROVE  /\ FieldCandidates(f) \in Seq(Spans) /\ IsInjective(FieldCandidates(f))
         /\ Range(FieldCandidates(f)) \subseteq Shows /\ \A s \in Range(FieldCandidates(f)) : Taken(f, s)
<1> DEFINE readable == {s \in Spans : Taken(f, s)}
           a == Among(onPage, readable)
           others == readable \ Range(onPage)
           b == Among(inNotes, others)
<1>1. FieldCandidates(f) = a \o b
  BY DEF FieldCandidates
<1>2. onPage \in Seq(Spans) /\ inNotes \in Seq(Spans) /\ IsInjective(onPage) /\ IsInjective(inNotes)
  BY DEF RecordInv, RecordTypes, PoolIsOfField
<1> HIDE DEF readable, others
<1>3. a \in Seq(Spans) /\ Range(a) \subseteq Range(onPage) \cap readable /\ IsInjective(a)
  BY <1>2, AmongIs DEF IsInjective
<1>4. b \in Seq(Spans) /\ Range(b) \subseteq Range(inNotes) \cap others /\ IsInjective(b)
  BY <1>2, AmongIs DEF IsInjective
<1> HIDE DEF a, b
<1> DEFINE l == Len(a)
           m == Len(b)
           c == a \o b
<1>5. l \in Nat /\ m \in Nat /\ DOMAIN a = 1..l /\ DOMAIN b = 1..m
  BY <1>3, <1>4
<1>6. /\ c \in Seq(Spans) /\ DOMAIN c = 1..(l + m) /\ \A i \in 1..l : c[i] = a[i]
      /\ \A i \in (l + 1)..(l + m) : c[i] = b[i - l] /\ i - l \in 1..m
  BY <1>3, <1>4
<1> HIDE DEF l, m, c
<1>7. \A i \in DOMAIN c : (i \in 1..l /\ c[i] = a[i] /\ a[i] \in Range(a)) \/ (i \in (l + 1)..(l + m) /\ c[i] = b[i - l] /\ b[i - l] \in Range(b))
  BY <1>5, <1>6 DEF Range
<1>8. Range(c) \subseteq Range(a) \cup Range(b)
  BY <1>7 DEF Range
<1>9. Range(a) \cap Range(b) = {}
  BY <1>3, <1>4 DEF others
<1>10. IsInjective(c)
  <2> SUFFICES ASSUME NEW i \in DOMAIN c, NEW j \in DOMAIN c, c[i] = c[j] PROVE i = j
    BY DEF IsInjective
  <2>1. CASE i \in 1..l /\ j \in 1..l
    BY <1>3, <1>5, <1>6, <2>1 DEF IsInjective
  <2>2. CASE i \in (l + 1)..(l + m) /\ j \in (l + 1)..(l + m)
    <3>1. b[i - l] = b[j - l] /\ i - l \in DOMAIN b /\ j - l \in DOMAIN b
      BY <1>5, <1>6, <2>2
    <3>2. i - l = j - l
      BY <1>4, <3>1 DEF IsInjective
    <3> QED BY <1>5, <2>2, <3>2
  <2> QED BY <1>7, <1>9, <2>1, <2>2
<1>11. Range(c) \subseteq Shows /\ \A s \in Range(c) : s \in readable
  BY <1>3, <1>4, <1>8 DEF Shows, others
<1> QED BY <1>1, <1>6, <1>10, <1>11 DEF c, readable

\* The invariant implies what the record promises.
LEMMA RecordPromises ==
  ASSUME RecordInv, verdict \in VerdictSizes
  PROVE  ExtractTypeOK /\ EveryCandidateOffered /\ DataWasShown
<1> USE DEF RecordInv
<1>1. ExtractTypeOK
  <2>1. Range(onPage) \subseteq Spans /\ Range(inNotes) \subseteq Spans
    BY DEF RecordTypes, Range
  <2>2. Range(pool) \subseteq Range(onPage) \cup Range(inNotes)
    BY DEF PoolIsOfField, Shows
  <2>3. field \in 1..(Len(fields) + 1) /\ extracted \in {"no", "data", "problem", "error"} /\ DOMAIN values \subseteq 1..Len(fields)
    BY DEF RecordTypes
  <2> QED BY <2>1, <2>2, <2>3 DEF ExtractTypeOK
<1>2. EveryCandidateOffered
  <2> SUFFICES ASSUME Len(pool) >= MaxOptions
               PROVE  /\ Len(FieldGroups(pool)) < MaxOptions
                      /\ \A g \in DOMAIN FieldGroups(pool) : Len(FieldGroups(pool)[g]) < Len(pool)
                      /\ \A s \in Range(pool) : Cardinality({g \in DOMAIN FieldGroups(pool) : s \in Range(FieldGroups(pool)[g])}) = 1
    BY DEF EveryCandidateOffered
  <2>1. pool \in Seq(Spans) /\ \A i, j \in DOMAIN pool : pool[i] = pool[j] => i = j
    BY DEF RecordTypes, PoolIsOfField, IsInjective
  <2> QED BY <2>1, PoolIsOffered
<1>3. DataWasShown
  <2>1. ASSUME NEW f \in DOMAIN values PROVE /\ values[f] \in Range(onPage) \cup Range(inNotes)
                                             /\ fields[f].kind = "number" => ReadsAs[values[f]] \in Nat /\ ReadsAs[values[f]] >= fields[f].least
    <3>1. values[f] \in Shows /\ Taken(fields[f], values[f])
      BY DEF ValuesShown
    <3>2. values[f] \in Spans
      BY <3>1 DEF Shows, Range, RecordTypes
    <3>3. ReadsAs[values[f]] \in Nat \cup {NotANumber}
      BY <3>2, OptionsAssumption DEF Spans
    <3> QED BY <3>1, <3>3 DEF Taken, Shows
  <2>2. extracted = "data" => \A f \in 1..Len(fields) : fields[f].required => f \in DOMAIN values
    BY DEF ValuesShown
  <2> QED BY <2>1, <2>2 DEF DataWasShown
<1> QED BY <1>1, <1>2, <1>3

LEMMA RecordBegins == ExtractInit => RecordInv
<1> SUFFICES ASSUME ExtractInit PROVE RecordInv
  OBVIOUS
<1>1. onPage \in Seq(Spans) /\ inNotes \in Seq(Spans) /\ IsInjective(onPage) /\ IsInjective(inNotes)
  BY StretchIs DEF ExtractInit
<1>2. fields \in Seq(FieldKinds) /\ field = 1 /\ extracted = "no"
  BY OptionsAssumption DEF ExtractInit, FieldKinds
<1>3. pool = <<>> /\ values = <<>> /\ DOMAIN values = {} /\ DOMAIN pool = {}
  BY DEF ExtractInit
<1>4. RecordTypes
  BY <1>1, <1>2, <1>3 DEF RecordTypes
<1>5. PoolIsOfField
  BY <1>1, <1>3 DEF PoolIsOfField, IsInjective, Range
<1>6. ValuesShown
  BY <1>2, <1>3 DEF ValuesShown
<1> QED BY <1>4, <1>5, <1>6 DEF RecordInv

\* A step that goes on to the next field, with a value for this one or none.
LEMMA FieldIsDone ==
  ASSUME RecordInv, FieldDone, field <= Len(fields), extracted = "no",
         values' = values \/ \E s \in Range(pool) : values' = [f \in DOMAIN values \cup {field} |-> IF f = field THEN s ELSE values[f]]
  PROVE  RecordInv'
<1> USE DEF RecordInv
<1>1. field' = field + 1 /\ pool' = <<>> /\ UNCHANGED <<fields, onPage, inNotes, extracted>>
  BY DEF FieldDone
<1>2. Len(fields) \in Nat /\ field \in 1..Len(fields)
  BY DEF RecordTypes
<1>3. DOMAIN values' \subseteq 1..Len(fields) /\ \A f \in DOMAIN values' : values'[f] \in Shows /\ Taken(fields[f], values'[f])
  <2>1. CASE values' = values
    BY <2>1 DEF RecordTypes, ValuesShown
  <2>2. CASE \E s \in Range(pool) : values' = [f \in DOMAIN values \cup {field} |-> IF f = field THEN s ELSE values[f]]
    <3>1. PICK s \in Range(pool) : values' = [f \in DOMAIN values \cup {field} |-> IF f = field THEN s ELSE values[f]]
      BY <2>2
    <3>2. pool # <<>>
      BY DEF Range
    <3>3. s \in Shows /\ Taken(fields[field], s)
      BY <3>2 DEF PoolIsOfField
    <3> QED BY <1>2, <3>1, <3>3 DEF RecordTypes, ValuesShown
  <2> QED BY <2>1, <2>2
<1>4. Shows' = Shows
  BY <1>1 DEF Shows, Range
<1>5. RecordTypes'
  BY <1>1, <1>2, <1>3 DEF RecordTypes
<1>6. PoolIsOfField'
  BY <1>1 DEF PoolIsOfField, IsInjective, Range
<1>7. ValuesShown'
  BY <1>1, <1>3, <1>4 DEF ValuesShown, Taken
<1> QED BY <1>5, <1>6, <1>7

\* A step that takes another pool for the field.
LEMMA PoolIsTaken ==
  ASSUME RecordInv, UNCHANGED <<fields, onPage, inNotes, field, values, extracted>>,
         pool' \in Seq(Spans), IsInjective(pool'), Range(pool') \subseteq Shows, field <= Len(fields),
         \A s \in Range(pool') : Taken(fields[field], s)
  PROVE  RecordInv'
<1>1. Shows' = Shows
  BY DEF Shows, Range
<1>2. RecordTypes'
  BY DEF RecordInv, RecordTypes
<1>3. PoolIsOfField'
  BY <1>1 DEF RecordInv, PoolIsOfField, IsInjective, Range, Taken
<1>4. ValuesShown'
  BY <1>1 DEF RecordInv, ValuesShown, Taken
<1> QED BY <1>2, <1>3, <1>4 DEF RecordInv

LEMMA RecordStep == RecordInv /\ [ExtractNext]_extractVars => RecordInv'
<1> SUFFICES ASSUME RecordInv, [ExtractNext]_extractVars PROVE RecordInv'
  OBVIOUS
<1>1. CASE BeginField
  <2> DEFINE f == fields[field]
  <2>1. extracted = "no" /\ field <= Len(fields) /\ values' = values /\ pool = <<>>
    BY <1>1 DEF BeginField
  <2>2. f \in FieldKinds
    BY <2>1 DEF RecordInv, RecordTypes
  <2>3. CASE extracted' = "problem" /\ UNCHANGED <<fields, onPage, inNotes, field, pool>>
    <3>1. RecordTypes' /\ PoolIsOfField' /\ ValuesShown'
      BY <2>1, <2>3 DEF RecordInv, RecordTypes, PoolIsOfField, ValuesShown, Shows, Range, Taken, IsInjective
    <3> QED BY <3>1 DEF RecordInv
  <2>4. CASE FieldDone
    BY <2>1, <2>4, FieldIsDone
  <2>5. CASE pool' = FieldCandidates(f) /\ UNCHANGED <<fields, onPage, inNotes, field, extracted>>
    BY <2>1, <2>2, <2>5, CandidatesAre, PoolIsTaken
  <2> QED BY <1>1, <2>3, <2>4, <2>5 DEF BeginField
<1>2. CASE ChooseGroup
  <2>1. extracted = "no" /\ Len(pool) >= MaxOptions /\ values' = values
    BY <1>2 DEF ChooseGroup
  <2>2. pool \in Seq(Spans) /\ (\A i, j \in DOMAIN pool : pool[i] = pool[j] => i = j)
    BY DEF RecordInv, RecordTypes, PoolIsOfField, IsInjective
  <2>3. pool # <<>> /\ field <= Len(fields) /\ Range(pool) \subseteq Shows /\ \A s \in Range(pool) : Taken(fields[field], s)
    <3>1. pool # <<>>
      BY <2>1, <2>2, OptionsAssumption
    <3> QED BY <3>1 DEF RecordInv, PoolIsOfField
  <2>4. CASE FieldDone
    BY <2>1, <2>3, <2>4, FieldIsDone
  <2>5. ASSUME NEW g \in DOMAIN FieldGroups(pool), pool' = FieldGroups(pool)[g], UNCHANGED <<fields, onPage, inNotes, field, extracted>>
        PROVE  RecordInv'
    <3>1. FieldGroups(pool) \in Seq(Seq(Spans)) /\ Range(FieldGroups(pool)[g]) \subseteq Range(pool) /\ IsInjective(FieldGroups(pool)[g])
      BY <2>1, <2>2, PoolIsOffered DEF IsInjective
    <3>2. FieldGroups(pool)[g] \in Seq(Spans)
      BY <3>1
    <3> QED BY <2>1, <2>3, <2>5, <3>1, <3>2, PoolIsTaken
  <2> QED BY <1>2, <2>4, <2>5 DEF ChooseGroup
<1>3. CASE ChooseSpan
  <2>1. extracted = "no" /\ pool # <<>> /\ FieldDone
    BY <1>3 DEF ChooseSpan
  <2>2. field <= Len(fields)
    BY <2>1 DEF RecordInv, PoolIsOfField
  <2>3. values' = values \/ \E s \in Range(pool) : values' = [f \in DOMAIN values \cup {field} |-> IF f = field THEN s ELSE values[f]]
    BY <1>3 DEF ChooseSpan
  <2> QED BY <2>1, <2>2, <2>3, FieldIsDone
<1>4. CASE CallFails
  <2>1. RecordTypes' /\ Shows' = Shows
    BY <1>4 DEF CallFails, RecordInv, RecordTypes, Shows, Range
  <2>2. PoolIsOfField'
    BY <1>4, <2>1 DEF CallFails, RecordInv, PoolIsOfField, Range, Taken, IsInjective
  <2>3. ValuesShown'
    BY <1>4, <2>1 DEF CallFails, RecordInv, ValuesShown, Taken
  <2> QED BY <2>1, <2>2, <2>3 DEF RecordInv
<1>5. CASE Validate
  <2>1. RecordTypes' /\ PoolIsOfField'
    BY <1>5 DEF Validate, RecordInv, RecordTypes, PoolIsOfField, Shows, Range, Taken, IsInjective
  <2>2. ValuesShown'
    BY <1>5 DEF Validate, RecordInv, ValuesShown, Shows, Range, Taken
  <2> QED BY <2>1, <2>2 DEF RecordInv
<1>6. CASE UNCHANGED extractVars
  <2>1. RecordTypes' /\ Shows' = Shows
    BY <1>6 DEF extractVars, RecordInv, RecordTypes, Shows, Range
  <2>2. PoolIsOfField'
    BY <1>6, <2>1 DEF extractVars, RecordInv, PoolIsOfField, Range, Taken, IsInjective
  <2>3. ValuesShown'
    BY <1>6, <2>1 DEF extractVars, RecordInv, ValuesShown, Taken
  <2> QED BY <2>1, <2>2, <2>3 DEF RecordInv
<1> QED BY <1>1, <1>2, <1>3, <1>4, <1>5, <1>6 DEF ExtractNext, Choose, ExtractEnded

\* The sizes of the verdict are numbers, and no step of the record changes them.
LEMMA VerdictStays == ExtractSpec => [](verdict \in VerdictSizes /\ VerdictAsked)
<1>1. ExtractInit => verdict \in VerdictSizes
  BY DEF ExtractInit
<1>2. verdict \in VerdictSizes /\ [ExtractNext]_extractVars => (verdict \in VerdictSizes)'
  BY DEF ExtractNext, extractVars
<1>3. verdict \in VerdictSizes => VerdictAsked
  <2> SUFFICES ASSUME verdict \in VerdictSizes PROVE VerdictAsked
    OBVIOUS
  <2>1. verdict \in [fixed : Nat, text : Nat, links : Nat, inputs : Nat, needed : Nat, other : Nat, budget : Nat]
    BY OptionsAssumption
  <2> QED BY <2>1, VerdictIsAsked DEF VerdictAsked
<1> QED BY <1>1, <1>2, <1>3, PTL DEF ExtractSpec

\* However many spans a field has to choose from, each is offered, in one group of
\* a question with room for the groups; and a record that validates holds only
\* spans the page or the notes showed, within the field's bounds, and every field
\* the caller required; and a verdict is refused only when it must be (fields.rs
\* `field_candidate_groups`, `choose_candidate`, verification/mod.rs `extract`,
\* `page_state`).
THEOREM RecordIsKept == ExtractSpec => []RecordKept
<1>1. ExtractSpec => []RecordInv
  BY RecordBegins, RecordStep, PTL DEF ExtractSpec
<1>2. RecordInv /\ verdict \in VerdictSizes => ExtractTypeOK /\ EveryCandidateOffered /\ DataWasShown
  BY RecordPromises
<1>3. ExtractSpec => [](verdict \in VerdictSizes /\ VerdictAsked)
  BY VerdictStays
<1> QED BY <1>1, <1>2, <1>3, PTL DEF RecordKept

\* A list without repetitions is as long as the set of what it lists.
LEMMA ListedOnce ==
  ASSUME NEW S, NEW seq \in Seq(S), IsInjective(seq)
  PROVE  IsFiniteSet(Range(seq)) /\ Cardinality(Range(seq)) = Len(seq) /\ Len(seq) \in Nat
<1> DEFINE n == Len(seq)
           R == Range(seq)
<1>1. n \in Nat /\ DOMAIN seq = 1..n
  OBVIOUS
<1>2. R = {seq[i] : i \in 1..n}
  BY <1>1 DEF Range
<1> HIDE DEF n, R
<1>3. seq \in [1..n -> R]
  BY <1>1, <1>2
<1>4. seq \in Bijection(1..n, R)
  BY <1>1, <1>2, <1>3 DEF Bijection, Injection, Surjection, IsInjective
<1>5. ExistsBijection(1..n, R)
  BY <1>4 DEF ExistsBijection
<1>6. IsFiniteSet(R) /\ Cardinality(R) = n
  BY <1>1, <1>5, FS_NatBijection, FS_CountingElements
<1> QED BY <1>1, <1>6 DEF n, R

\* A finite set as a list.
LEMMA SetAsList ==
  ASSUME NEW S, IsFiniteSet(S)
  PROVE  /\ Cardinality(S) \in Nat /\ SetToSeq(S) \in Seq(S) /\ DOMAIN SetToSeq(S) = 1..Cardinality(S)
         /\ Range(SetToSeq(S)) = S /\ IsInjective(SetToSeq(S))
<1> DEFINE c == Cardinality(S)
           s == SetToSeq(S)
<1>1. c \in Nat /\ ExistsBijection(1..c, S)
  BY FS_CardinalityType
<1> HIDE DEF c
<1>2. \E f \in [1..c -> S] : IsInjective(f)
  BY <1>1 DEF ExistsBijection, Bijection, Injection
<1>3. s \in [1..c -> S] /\ IsInjective(s)
  <2>1. s = CHOOSE f \in [1..c -> S] : IsInjective(f)
    BY DEF SetToSeq, c
  <2> HIDE DEF s
  <2> QED BY <1>2, <2>1
<1> HIDE DEF s
<1>4. s \in Injection(1..c, S)
  BY <1>3 DEF Injection
<1>5. IsFiniteSet(1..c) /\ Cardinality(1..c) = c
  BY <1>1, FS_Interval
<1>6. s \in Surjection(1..c, S)
  BY <1>4, <1>5, FS_Injection DEF c
<1>7. Range(s) = S
  BY <1>3, <1>6 DEF Surjection, Range
<1>8. s \in Seq(S) /\ DOMAIN s = 1..c
  BY <1>1, <1>3
<1> QED BY <1>1, <1>3, <1>7, <1>8 DEF c, s

\* Lists put together list what they list.
LEMMA FlattenedIs ==
  ASSUME NEW S, NEW seqs \in Seq(Seq(S))
  PROVE  FlattenSeq(seqs) \in Seq(S)
<1> DEFINE n == Len(seqs)
<1>1. n \in Nat /\ \A k \in 1..n : seqs[k] \in Seq(S)
  OBVIOUS
<1>2. CASE n = 0
  <2>1. seqs = <<>> /\ FlattenSeq(seqs) = seqs
    BY <1>2 DEF FlattenSeq
  <2>2. <<>> \in Seq(S)
    OBVIOUS
  <2> QED BY <2>1, <2>2, Zenon
<1>3. CASE n # 0
  <2> DEFINE m == n - 1
             go == [p \in (1..m) \X Seq(S) |-> p[2] \o seqs[p[1] + 1]]
             Body(f) == [i \in 1..n |-> IF i = 1 THEN seqs[i] ELSE f[i - 1] \o seqs[i]]
  <2>1. m \in Nat /\ seqs[1] \in Seq(S) /\ \A k \in 1..m : k + 1 \in 1..n /\ seqs[k + 1] \in Seq(S)
    BY <1>1, <1>3
  <2>2. go \in [(1..m) \X Seq(S) -> Seq(S)]
    <3> SUFFICES ASSUME NEW p \in (1..m) \X Seq(S) PROVE p[2] \o seqs[p[1] + 1] \in Seq(S)
      OBVIOUS
    <3>1. p[1] \in 1..m /\ p[2] \in Seq(S)
      OBVIOUS
    <3>2. seqs[p[1] + 1] \in Seq(S)
      BY <2>1, <3>1
    <3> HIDE DEF m, n
    <3> QED BY <3>1, <3>2, ConcatProperties
  <2>3. PICK h : StepsOf(m, Seq(S), seqs[1], go, h)
    <3> HIDE DEF m, go
    <3> QED BY <2>1, <2>2, StepwiseFrom, Zenon
  <2>4. h \in [0..m -> Seq(S)] /\ h[0] = seqs[1] /\ \A k \in 1..m : h[k] = go[<<k, h[k - 1]>>]
    BY <2>3, Zenon DEF StepsOf
  <2> HIDE DEF n
  <2>5. \A k \in 1..m : h[k] = h[k - 1] \o seqs[k + 1]
    <3> SUFFICES ASSUME NEW k \in 1..m PROVE h[k] = h[k - 1] \o seqs[k + 1]
      OBVIOUS
    <3>1. k - 1 \in 0..m /\ h[k - 1] \in Seq(S)
      <4> HIDE DEF m, go
      <4>1. k - 1 \in 0..m
        BY <2>1
      <4> QED BY <2>4, <4>1
    <3>2. <<k, h[k - 1]>> \in (1..m) \X Seq(S) /\ h[k] = go[<<k, h[k - 1]>>]
      BY <2>4, <3>1
    <3> HIDE DEF m
    <3> QED BY <3>2
  <2> DEFINE f == [i \in 1..n |-> h[i - 1]]
  <2>6. f = Body(f)
    <3>1. ASSUME NEW i \in 1..n PROVE f[i] = IF i = 1 THEN seqs[i] ELSE f[i - 1] \o seqs[i]
      <4>1. CASE i = 1
        BY <2>4, <4>1
      <4>2. CASE i # 1
        <5>1. i - 1 \in 1..m /\ i - 1 \in 1..n /\ (i - 1) + 1 = i
          BY <1>1, <4>2
        <5>2. h[i - 1] = h[(i - 1) - 1] \o seqs[(i - 1) + 1]
          BY <2>5, <5>1
        <5>3. f[i] = h[i - 1] /\ f[i - 1] = h[(i - 1) - 1]
          BY <5>1
        <5> QED BY <4>2, <5>1, <5>2, <5>3
      <4> QED BY <4>1, <4>2
    <3> HIDE DEF f
    <3>2. f \in [1..n -> {f[i] : i \in 1..n}]
      BY DEF f
    <3> QED BY <3>1, <3>2
  <2> DEFINE g == CHOOSE w : w = Body(w)
  <2>7. g = Body(g)
    <3> HIDE DEF Body, f
    <3> QED BY <2>6
  <2>8. FlattenSeq(seqs) = g[n]
    BY <1>3 DEF FlattenSeq, n
  <2> HIDE DEF g
  <2>9. \A i \in 1..n : g[i] = IF i = 1 THEN seqs[i] ELSE g[i - 1] \o seqs[i]
    BY <2>7
  <2> DEFINE T == {k \in Nat : k + 1 <= n => g[k + 1] \in Seq(S)}
  <2>10. 0 \in T
    BY <1>1, <1>3, <2>1, <2>9
  <2>11. ASSUME NEW k \in T PROVE k + 1 \in T
    <3> SUFFICES ASSUME k + 2 <= n PROVE g[k + 2] \in Seq(S)
      OBVIOUS
    <3>1. k \in Nat /\ k + 2 \in 1..n /\ g[k + 1] \in Seq(S) /\ (k + 2) - 1 = k + 1 /\ k + 2 # 1
      BY <1>1
    <3>2. g[k + 2] = g[k + 1] \o seqs[k + 2] /\ seqs[k + 2] \in Seq(S)
      BY <1>1, <2>9, <3>1
    <3> QED BY <3>1, <3>2, ConcatProperties
  <2>12. T = Nat
    <3> HIDE DEF T
    <3>1. T \in SUBSET Nat
      BY DEF T
    <3> QED BY <2>10, <2>11, <3>1, NatsFromZero
  <2>13. n - 1 \in T
    BY <2>1, <2>12
  <2>14. g[n] \in Seq(S)
    BY <1>1, <2>13
  <2> QED BY <2>8, <2>14
<1> QED BY <1>2, <1>3

\* Two lists without repetitions that share nothing, one after the other.
LEMMA BothOnce ==
  ASSUME NEW S, NEW a \in Seq(S), NEW b \in Seq(S), IsInjective(a), IsInjective(b), Range(a) \cap Range(b) = {}
  PROVE  /\ a \o b \in Seq(S) /\ Range(a \o b) = Range(a) \cup Range(b) /\ IsInjective(a \o b)
         /\ Len(a) \in Nat /\ Len(b) \in Nat /\ Len(a \o b) = Len(a) + Len(b)
         /\ DOMAIN (a \o b) = 1..(Len(a) + Len(b)) /\ DOMAIN a = 1..Len(a) /\ \A i \in 1..Len(a) : (a \o b)[i] = a[i]
<1> DEFINE c == a \o b
           l == Len(a)
           q == Len(b)
<1>1. l \in Nat /\ q \in Nat /\ DOMAIN a = 1..l /\ DOMAIN b = 1..q
  OBVIOUS
<1>2. /\ c \in Seq(S) /\ Len(c) = l + q /\ DOMAIN c = 1..(l + q) /\ \A i \in 1..l : c[i] = a[i]
      /\ \A i \in (l + 1)..(l + q) : c[i] = b[i - l] /\ i - l \in 1..q
  OBVIOUS
<1>3. \A i \in 1..q : l + i \in (l + 1)..(l + q) /\ c[l + i] = b[i]
  <2> SUFFICES ASSUME NEW i \in 1..q PROVE l + i \in (l + 1)..(l + q) /\ c[l + i] = b[i]
    OBVIOUS
  <2> HIDE DEF c, l, q
  <2>1. l + i \in (l + 1)..(l + q) /\ (l + i) - l = i
    BY <1>1
  <2> QED BY <1>2, <2>1
<1> HIDE DEF l, q, c
<1>4. \A i \in DOMAIN c : (i \in 1..l /\ c[i] = a[i] /\ a[i] \in Range(a)) \/ (i \in (l + 1)..(l + q) /\ c[i] = b[i - l] /\ b[i - l] \in Range(b))
  BY <1>1, <1>2 DEF Range
<1>5. Range(c) = Range(a) \cup Range(b)
  <2>1. Range(c) \subseteq Range(a) \cup Range(b)
    BY <1>4 DEF Range
  <2>2. Range(a) \subseteq Range(c)
    BY <1>1, <1>2 DEF Range
  <2>3. Range(b) \subseteq Range(c)
    <3> SUFFICES ASSUME NEW i \in 1..q PROVE b[i] \in Range(c)
      BY <1>1 DEF Range
    <3>1. l + i \in DOMAIN c /\ c[l + i] = b[i]
      BY <1>1, <1>2, <1>3
    <3> QED BY <3>1 DEF Range
  <2> QED BY <2>1, <2>2, <2>3
<1>6. IsInjective(c)
  <2> SUFFICES ASSUME NEW i \in DOMAIN c, NEW j \in DOMAIN c, c[i] = c[j] PROVE i = j
    BY DEF IsInjective
  <2>1. CASE i \in 1..l /\ j \in 1..l
    BY <1>1, <1>2, <2>1 DEF IsInjective
  <2>2. CASE i \in (l + 1)..(l + q) /\ j \in (l + 1)..(l + q)
    <3>1. b[i - l] = b[j - l] /\ i - l \in DOMAIN b /\ j - l \in DOMAIN b
      BY <1>1, <1>2, <2>2
    <3>2. i - l = j - l
      BY <3>1 DEF IsInjective
    <3> QED BY <1>1, <2>2, <3>2
  <2> QED BY <1>4, <2>1, <2>2
<1> QED BY <1>1, <1>2, <1>5, <1>6 DEF c, l, q

----------------------------------------------------------------------------
(* Notes as a value.                                                       *)

Keys == [page : Pages, text : SUBSET Quotes, quote : Quotes \cup Images, derived : BOOLEAN]
FactsOf == [answers : BOOLEAN, basis : SUBSET Keys]
\* A fact rests on facts of the same capture, and a quoted one is in that capture
\* or was seen in an image of the page.
RestsWell(n, k) ==
  /\ n.facts[k].basis \subseteq DOMAIN n.facts
  /\ \A b \in n.facts[k].basis : b.page = k.page /\ b.text = k.text
  /\ k.derived => n.facts[k].basis # {}
  /\ ~k.derived => k.quote \in (IF k.text = {} THEN Images ELSE k.text)
WellKept(n) ==
  /\ n = [order |-> n.order, facts |-> n.facts, answering |-> n.answering, retired |-> n.retired]
  /\ n.order \in Seq(Keys) /\ IsInjective(n.order) /\ DOMAIN n.facts = Range(n.order)
  /\ n.facts \in [DOMAIN n.facts -> FactsOf]
  /\ n.answering \subseteq DOMAIN n.facts /\ n.retired \subseteq DOMAIN n.facts
  /\ \A k \in DOMAIN n.facts : RestsWell(n, k)

LEMMA KeptTypes ==
  ASSUME NEW n, WellKept(n)
  PROVE  /\ DOMAIN n.facts \subseteq Keys /\ IsFiniteSet(DOMAIN n.facts) /\ Cardinality(DOMAIN n.facts) = Len(n.order)
         /\ Len(n.order) \in Nat /\ \A k \in DOMAIN n.facts : n.facts[k] \in FactsOf /\ n.facts[k].basis \subseteq DOMAIN n.facts
<1>1. n.order \in Seq(Keys) /\ IsInjective(n.order) /\ DOMAIN n.facts = Range(n.order) /\ n.facts \in [DOMAIN n.facts -> FactsOf]
  BY DEF WellKept
<1>2. DOMAIN n.facts \subseteq Keys
  BY <1>1 DEF Range
<1>3. \A k \in DOMAIN n.facts : n.facts[k].basis \subseteq DOMAIN n.facts
  BY DEF WellKept, RestsWell
<1> QED BY <1>1, <1>2, <1>3, ListedOnce

\* What facts rest on is the least set that holds them and all its own facts rest
\* on: as many rounds as there are facts find all of it.
Rests(n, set) == \A x \in set : n.facts[x].basis \subseteq set
LEMMA ExpandedIs ==
  ASSUME NEW n, WellKept(n), NEW keys \in SUBSET DOMAIN n.facts
  PROVE  /\ keys \subseteq Expanded(n, keys) /\ Expanded(n, keys) \subseteq DOMAIN n.facts /\ Rests(n, Expanded(n, keys))
         /\ \A U \in SUBSET DOMAIN n.facts : keys \subseteq U /\ Rests(n, U) => Expanded(n, keys) \subseteq U
<1> DEFINE c == Len(n.order)
           D == DOMAIN n.facts
           More(seen) == seen \cup UNION {n.facts[k].basis : k \in seen \cap DOMAIN n.facts}
           go == [p \in (1..c) \X SUBSET D |-> More(p[2])]
           Body(f) == [i \in 0..c |-> IF i = 0 THEN keys
                                      ELSE LET seen == f[i - 1] IN seen \cup UNION {n.facts[k].basis : k \in seen \cap DOMAIN n.facts}]
<1>1. c \in Nat /\ IsFiniteSet(D) /\ Cardinality(D) = c /\ \A k \in D : n.facts[k].basis \subseteq D
  BY KeptTypes
<1>2. \A seen \in SUBSET D : More(seen) \in SUBSET D /\ seen \subseteq More(seen) /\ \A k \in seen : n.facts[k].basis \subseteq More(seen)
  BY <1>1
<1>3. \A seen \in SUBSET D : \A x \in More(seen) : x \in seen \/ \E k \in seen : x \in n.facts[k].basis
  OBVIOUS
<1>4. go \in [(1..c) \X SUBSET D -> SUBSET D]
  <2> HIDE DEF More, c
  <2> QED BY <1>2
<1>5. PICK f : StepsOf(c, SUBSET D, keys, go, f)
  <2> HIDE DEF go, c, D
  <2>1. keys \in SUBSET D
    BY DEF D
  <2> QED BY <1>1, <1>4, <2>1, StepwiseFrom, Zenon
<1>6. f \in [0..c -> SUBSET D] /\ f[0] = keys /\ \A k \in 1..c : f[k] = go[<<k, f[k - 1]>>]
  BY <1>5, Zenon DEF StepsOf
<1> HIDE DEF c, D
<1>7. \A k \in 1..c : f[k] = More(f[k - 1])
  <2> SUFFICES ASSUME NEW k \in 1..c PROVE f[k] = More(f[k - 1])
    OBVIOUS
  <2>1. k - 1 \in 0..c
    BY <1>1
  <2>2. <<k, f[k - 1]>> \in (1..c) \X SUBSET D /\ f[k] = go[<<k, f[k - 1]>>]
    <3> HIDE DEF go
    <3> QED BY <1>6, <2>1
  <2> HIDE DEF More
  <2> QED BY <2>2
<1>8. f = Body(f)
  <2>1. ASSUME NEW i \in 0..c PROVE f[i] = Body(f)[i]
    <3>1. CASE i = 0
      BY <1>6, <3>1
    <3>2. CASE i # 0
      <4>1. i \in 1..c
        BY <1>1, <3>2
      <4>2. f[i] = More(f[i - 1])
        BY <1>7, <4>1
      <4>3. Body(f)[i] = More(f[i - 1])
        BY <3>2
      <4> QED BY <4>2, <4>3
    <3> QED BY <3>1, <3>2
  <2>2. Body(f) = [i \in 0..c |-> Body(f)[i]] /\ f = [i \in 0..c |-> f[i]]
    BY <1>6
  <2> DEFINE b == Body(f)
  <2> HIDE DEF b
  <2>3. b = [i \in 0..c |-> b[i]] /\ \A i \in 0..c : f[i] = b[i]
    BY <2>1, <2>2 DEF b
  <2>4. f = b
    BY <2>2, <2>3
  <2> QED BY <2>4 DEF b
<1> DEFINE g == CHOOSE w : w = Body(w)
<1>9. g = Body(g)
  <2> HIDE DEF Body
  <2> QED BY <1>8
<1>10. Expanded(n, keys) = g[c]
  BY DEF Expanded, c
<1> HIDE DEF g
<1>11. g[0] = keys /\ \A k \in 1..c : g[k] = More(g[k - 1])
  <2>1. \A k \in 0..c : g[k] = Body(g)[k]
    <3> HIDE DEF Body
    <3> QED BY <1>9
  <2>2. 0 \in 0..c /\ \A k \in 1..c : k \in 0..c /\ k # 0
    BY <1>1
  <2> QED BY <2>1, <2>2
<1> HIDE DEF More
<1> DEFINE Ok(k) == /\ g[k] \in SUBSET D /\ keys \subseteq g[k] /\ (Rests(n, g[k]) \/ Cardinality(g[k]) >= k + 1)
                    /\ \A U \in SUBSET D : keys \subseteq U /\ Rests(n, U) => g[k] \subseteq U
           T == {k \in Nat : k <= c => Ok(k)}
<1>12. 0 \in T
  <2>1. g[0] \in SUBSET D /\ keys \subseteq g[0] /\ \A U \in SUBSET D : keys \subseteq U => g[0] \subseteq U
    BY <1>11 DEF D
  <2>2. Rests(n, g[0]) \/ Cardinality(g[0]) >= 1
    <3>1. CASE keys = {}
      BY <1>11, <3>1 DEF Rests
    <3>2. CASE keys # {}
      <4>1. IsFiniteSet(keys)
        BY <1>1, FS_Subset DEF D
      <4>2. Cardinality(keys) \in Nat /\ Cardinality(keys) # 0
        BY <3>2, <4>1, FS_CardinalityType, FS_EmptySet
      <4> QED BY <1>11, <4>2
    <3> QED BY <3>1, <3>2
  <2> QED BY <2>1, <2>2
<1>13. ASSUME NEW k \in T PROVE k + 1 \in T
  <2> SUFFICES ASSUME k + 1 <= c PROVE Ok(k + 1)
    BY <1>13
  <2>1. k \in Nat /\ Ok(k) /\ k + 1 \in 1..c /\ (k + 1) - 1 = k
    <3> HIDE DEF Ok
    <3> QED BY <1>1, <1>13
  <2> DEFINE old == g[k]
             new == g[k + 1]
  <2>2. new = More(old)
    BY <1>11, <2>1
  <2>3. old \in SUBSET D /\ keys \subseteq old /\ (Rests(n, old) \/ Cardinality(old) >= k + 1)
        /\ \A U \in SUBSET D : keys \subseteq U /\ Rests(n, U) => old \subseteq U
    BY <2>1
  <2> HIDE DEF old, new
  <2>4. new \in SUBSET D /\ old \subseteq new /\ \A x \in old : n.facts[x].basis \subseteq new
    BY <1>2, <2>2, <2>3
  <2>5. \A x \in new : x \in old \/ \E y \in old : x \in n.facts[y].basis
    BY <1>3, <2>2, <2>3
  <2>6. \A U \in SUBSET D : keys \subseteq U /\ Rests(n, U) => new \subseteq U
    <3> SUFFICES ASSUME NEW U \in SUBSET D, keys \subseteq U, Rests(n, U) PROVE new \subseteq U
      OBVIOUS
    <3>1. old \subseteq U
      BY <2>3
    <3> QED BY <2>5, <3>1 DEF Rests
  <2>7. Rests(n, new) \/ Cardinality(new) >= (k + 1) + 1
    <3>1. CASE Rests(n, old)
      <4>1. new = old
        BY <2>4, <2>5, <3>1 DEF Rests
      <4> QED BY <3>1, <4>1
    <3>2. CASE ~Rests(n, old)
      <4>1. old # new
        BY <2>4, <3>2 DEF Rests
      <4>2. IsFiniteSet(new)
        BY <1>1, <2>4, FS_Subset
      <4>3. IsFiniteSet(old) /\ Cardinality(old) <= Cardinality(new) /\ Cardinality(old) # Cardinality(new)
        BY <2>4, <4>1, <4>2, FS_Subset
      <4>4. Cardinality(old) \in Nat /\ Cardinality(new) \in Nat
        BY <4>2, <4>3, FS_CardinalityType
      <4> QED BY <2>1, <2>3, <3>2, <4>3, <4>4
    <3> QED BY <3>1, <3>2
  <2> QED BY <2>3, <2>4, <2>6, <2>7 DEF new
<1>14. T = Nat
  <2> HIDE DEF T
  <2>1. T \in SUBSET Nat
    BY DEF T
  <2> QED BY <1>12, <1>13, <2>1, NatsFromZero
<1>15. Ok(c)
  <2> HIDE DEF Ok
  <2>1. c \in T
    BY <1>1, <1>14
  <2> QED BY <1>1, <2>1
<1>16. Rests(n, g[c])
  <2> SUFFICES ASSUME Cardinality(g[c]) >= c + 1 PROVE FALSE
    BY <1>15
  <2>1. Cardinality(g[c]) <= c /\ Cardinality(g[c]) \in Nat
    BY <1>1, <1>15, FS_Subset, FS_CardinalityType
  <2> QED BY <1>1, <2>1
<1>17. /\ keys \subseteq g[c] /\ g[c] \subseteq D
       /\ \A U \in SUBSET D : keys \subseteq U /\ Rests(n, U) => g[c] \subseteq U
  BY <1>15
<1> QED BY <1>10, <1>16, <1>17 DEF D

----------------------------------------------------------------------------
(* What a read adds and what it retires.                                   *)

\* What a read of one capture notes: each key once, all of that capture.
NotedKeys(entries) == {entries[i][1] : i \in DOMAIN entries}
NotedOf(entries, page, text) ==
  /\ entries \in Seq(Keys \X FactsOf)
  /\ \A i, j \in DOMAIN entries : entries[i][1] = entries[j][1] => i = j
  /\ \A i \in DOMAIN entries :
       /\ entries[i][1].page = page /\ entries[i][1].text = text
       /\ entries[i][2].basis \subseteq NotedKeys(entries)
       /\ entries[i][1].derived => entries[i][2].basis # {}
       /\ ~entries[i][1].derived => entries[i][1].quote \in (IF text = {} THEN Images ELSE text)

LEMMA AddedIs ==
  ASSUME NEW n, WellKept(n), NEW entries, NEW page, NEW text, NotedOf(entries, page, text)
  PROVE  LET m == AddAll(n, entries)
             K == NotedKeys(entries) IN
         /\ DOMAIN m.facts = DOMAIN n.facts \cup K /\ \A k \in DOMAIN n.facts \ K : m.facts[k] = n.facts[k]
         /\ m.retired = n.retired \ K /\ n.answering \subseteq m.answering /\ m.answering \subseteq n.answering \cup K
         /\ WellKept(m)
<1> DEFINE m == AddAll(n, entries)
           K == NotedKeys(entries)
           keys == [i \in DOMAIN entries |-> entries[i][1]]
           added == [k \in Range(keys) |-> entries[CHOOSE i \in DOMAIN keys : keys[i] = k][2]]
           merged(k) == Fact(n.facts[k].answers \/ added[k].answers, n.facts[k].basis \cup added[k].basis)
           D == DOMAIN n.facts
           unseen == Range(keys) \ D
           new == Among(keys, unseen)
           after == [k \in D \cup DOMAIN added |->
                       IF k \notin DOMAIN added THEN n.facts[k] ELSE IF k \notin D THEN added[k] ELSE merged(k)]
<1>1. m = [order |-> n.order \o new, facts |-> after,
           answering |-> n.answering \cup {k \in DOMAIN added : added[k].answers}, retired |-> n.retired \ DOMAIN added]
  BY DEF AddAll
<1>2. keys \in Seq(Keys) /\ DOMAIN keys = DOMAIN entries /\ Range(keys) = K /\ DOMAIN added = K /\ K \subseteq Keys
  <2>1. entries \in Seq(Keys \X FactsOf) /\ DOMAIN entries = 1..Len(entries)
    BY DEF NotedOf
  <2>2. \A i \in DOMAIN entries : entries[i][1] \in Keys
    BY <2>1
  <2>3. keys \in Seq(Keys)
    BY <2>1, <2>2
  <2>4. Range(keys) = K
    BY DEF Range, NotedKeys
  <2> QED BY <2>2, <2>3, <2>4 DEF NotedKeys
<1>3. IsInjective(keys)
  BY DEF IsInjective, NotedOf
<1>4. ASSUME NEW k \in K
      PROVE  /\ added[k] \in FactsOf /\ added[k].basis \subseteq K /\ k.page = page /\ k.text = text
             /\ (k.derived => added[k].basis # {}) /\ (~k.derived => k.quote \in (IF text = {} THEN Images ELSE text))
  <2> DEFINE i == CHOOSE a \in DOMAIN keys : keys[a] = k
  <2>1. \E a \in DOMAIN keys : keys[a] = k
    BY <1>2 DEF Range
  <2>2. i \in DOMAIN entries /\ keys[i] = k
    <3> HIDE DEF keys
    <3> QED BY <1>2, <2>1
  <2>3. entries[i][1] = k /\ added[k] = entries[i][2]
    BY <1>2, <2>2
  <2> HIDE DEF i, added
  <2>4. entries[i] \in Keys \X FactsOf
    BY <2>2 DEF NotedOf
  <2> QED BY <2>2, <2>3, <2>4 DEF NotedOf
<1> HIDE DEF keys, added, K
<1>5. n.order \in Seq(Keys) /\ IsInjective(n.order) /\ D = Range(n.order) /\ D \subseteq Keys
      /\ \A k \in D : n.facts[k] \in FactsOf /\ RestsWell(n, k)
  BY KeptTypes DEF WellKept
<1>6. new \in Seq(Keys) /\ Range(new) = K \ D /\ IsInjective(new)
  <2> HIDE DEF unseen
  <2>1. new \in Seq(Keys) /\ Range(new) = Range(keys) \cap unseen /\ IsInjective(new)
    BY <1>2, <1>3, AmongIs DEF IsInjective
  <2> QED BY <1>2, <2>1 DEF unseen
<1> HIDE DEF D, new
<1>7. n.order \o new \in Seq(Keys) /\ Range(n.order \o new) = D \cup K /\ IsInjective(n.order \o new)
  <2> DEFINE a == n.order
  <2>1. a \in Seq(Keys) /\ IsInjective(a) /\ D = Range(a)
    BY <1>5
  <2> HIDE DEF a
  <2>2. Range(a) \cap Range(new) = {}
    BY <1>6, <2>1
  <2>3. a \o new \in Seq(Keys) /\ Range(a \o new) = Range(a) \cup Range(new) /\ IsInjective(a \o new)
    BY <1>6, <2>1, <2>2, BothOnce
  <2>4. Range(a) \cup Range(new) = D \cup K
    BY <1>6, <2>1
  <2> QED BY <2>3, <2>4 DEF a
<1>8. DOMAIN after = D \cup K /\ \A k \in D \ K : after[k] = n.facts[k]
  BY <1>2
<1>9. \A k \in K \ D : after[k] = added[k]
  BY <1>2
<1>10. \A k \in D \cap K : after[k] = [answers |-> n.facts[k].answers \/ added[k].answers, basis |-> n.facts[k].basis \cup added[k].basis]
  BY <1>2 DEF Fact
<1> HIDE DEF after
<1>11. m.order = n.order \o new /\ m.facts = after /\ m.retired = n.retired \ K
       /\ m.answering = n.answering \cup {k \in K : added[k].answers}
       /\ m = [order |-> m.order, facts |-> m.facts, answering |-> m.answering, retired |-> m.retired]
  BY <1>1, <1>2
<1> HIDE DEF m
<1>12. n.answering \subseteq D /\ n.retired \subseteq D
  BY DEF WellKept, D
<1>13. \A k \in D \cup K : after[k] \in FactsOf
  <2>1. \A k \in D \cap K : after[k] \in FactsOf
    <3> SUFFICES ASSUME NEW k \in D \cap K PROVE after[k] \in FactsOf
      OBVIOUS
    <3>1. n.facts[k] \in FactsOf /\ added[k] \in FactsOf
      BY <1>4, <1>5
    <3> DEFINE says == n.facts[k].answers \/ added[k].answers
               basis == n.facts[k].basis \cup added[k].basis
    <3>2. says \in BOOLEAN
      BY Zenon
    <3>3. basis \in SUBSET Keys
      BY <3>1 DEF FactsOf
    <3>4. after[k] = [answers |-> says, basis |-> basis]
      BY <1>10
    <3> HIDE DEF says, basis
    <3> QED BY <3>2, <3>3, <3>4 DEF FactsOf
  <2> QED BY <1>4, <1>5, <1>8, <1>9, <2>1
<1>14. ASSUME NEW k \in D \cup K PROVE RestsWell(m, k)
  <2>1. m.facts = after /\ DOMAIN m.facts = D \cup K
    BY <1>8, <1>11
  <2>2. CASE k \in D \ K
    <3>1. m.facts[k] = n.facts[k] /\ RestsWell(n, k)
      BY <1>5, <1>8, <2>1, <2>2
    <3> QED BY <2>1, <3>1 DEF RestsWell, D
  <2>3. CASE k \in K \ D
    <3>1. m.facts[k] = added[k]
      BY <1>9, <2>1, <2>3
    <3> QED BY <1>4, <2>1, <2>3, <3>1 DEF RestsWell
  <2>4. CASE k \in D \cap K
    <3>1. m.facts[k].basis = n.facts[k].basis \cup added[k].basis /\ RestsWell(n, k)
      BY <1>5, <1>10, <2>1, <2>4
    <3> QED BY <1>4, <2>1, <2>4, <3>1 DEF RestsWell, D
  <2> QED BY <2>2, <2>3, <2>4
<1>15. WellKept(m)
  <2>1. m.order \in Seq(Keys) /\ IsInjective(m.order) /\ DOMAIN m.facts = Range(m.order)
    BY <1>7, <1>8, <1>11
  <2>2. m.facts \in [DOMAIN m.facts -> FactsOf]
    <3>1. after = [k \in DOMAIN after |-> after[k]]
      BY <1>2 DEF after
    <3> QED BY <1>8, <1>11, <1>13, <3>1
  <2>3. m.answering \subseteq DOMAIN m.facts /\ m.retired \subseteq DOMAIN m.facts
    BY <1>8, <1>11, <1>12
  <2> QED BY <1>8, <1>11, <1>14, <2>1, <2>2, <2>3 DEF WellKept
<1>16. /\ DOMAIN m.facts = D \cup K /\ \A k \in D \ K : m.facts[k] = n.facts[k]
       /\ m.retired = n.retired \ K /\ n.answering \subseteq m.answering /\ m.answering \subseteq n.answering \cup K
  BY <1>8, <1>11
<1> QED BY <1>15, <1>16 DEF D, K, m

\* What a fact rests on is of its own capture.
LEMMA SameCapture ==
  ASSUME NEW n, WellKept(n), NEW k \in DOMAIN n.facts
  PROVE  /\ k \in Expanded(n, {k}) /\ Expanded(n, {k}) \subseteq DOMAIN n.facts /\ Rests(n, Expanded(n, {k}))
         /\ \A s \in Expanded(n, {k}) : s.page = k.page /\ s.text = k.text
<1> DEFINE U == {x \in DOMAIN n.facts : x.page = k.page /\ x.text = k.text}
<1>1. U \in SUBSET DOMAIN n.facts /\ {k} \subseteq U
  OBVIOUS
<1>2. Rests(n, U)
  BY DEF Rests, WellKept, RestsWell
<1> HIDE DEF U
<1>3. {k} \in SUBSET DOMAIN n.facts
  OBVIOUS
<1>4. Expanded(n, {k}) \subseteq U
  BY <1>1, <1>2, <1>3, ExpandedIs
<1> QED BY <1>3, <1>4, ExpandedIs DEF U

\* Facts that rest on no more than they did have no new sources.
LEMMA NoNewSources ==
  ASSUME NEW n, WellKept(n), NEW m, WellKept(m), NEW k \in DOMAIN n.facts \cap DOMAIN m.facts,
         \A x \in Expanded(n, {k}) : x \in DOMAIN m.facts /\ m.facts[x].basis \subseteq n.facts[x].basis
  PROVE  Expanded(m, {k}) \subseteq Expanded(n, {k})
<1> DEFINE U == Expanded(n, {k})
<1>1. k \in U /\ Rests(n, U)
  BY SameCapture
<1>2. U \in SUBSET DOMAIN m.facts /\ {k} \in SUBSET DOMAIN m.facts /\ {k} \subseteq U
  BY <1>1
<1>3. Rests(m, U)
  BY <1>1 DEF Rests
<1> HIDE DEF U
<1> QED BY <1>2, <1>3, ExpandedIs DEF U

LEMMA SupersededIs ==
  ASSUME NEW n, WellKept(n), NEW page, NEW text
  PROVE  LET m == Supersede(n, page, text) IN
         /\ WellKept(m) /\ DOMAIN m.facts = DOMAIN n.facts /\ n.retired \subseteq m.retired /\ m.answering \subseteq n.answering
         /\ \A k \in DOMAIN n.facts : m.facts[k].answers = n.facts[k].answers /\ m.facts[k].basis \subseteq n.facts[k].basis
         /\ (\E c \in Quoted(n) : CurrentIn(n, c) /\ c.text = text) =>
              \A k \in DOMAIN n.facts :
                k.text # text /\ (\E s \in Expanded(n, {k}) \cap Quoted(n) : s.text # text /\ s.page = page /\ s.quote \notin text)
                  => k \in m.retired /\ k \notin m.answering
<1> DEFINE m == Supersede(n, page, text)
           D == DOMAIN n.facts
           fresh == {k \in Quoted(n) : CurrentIn(n, k) /\ k.text = text}
           own == {k \in Quoted(n) : k.text = text}
           addresses == {page} \cup {k.page : k \in fresh}
           gone == Stale(n, page, text, own, addresses)
           after == [k \in D |-> IF k \in own THEN [n.facts[k] EXCEPT !.basis = @ \ gone] ELSE n.facts[k]]
<1>1. m = IF fresh = {} THEN n
          ELSE [order |-> n.order, answering |-> n.answering \ gone, retired |-> n.retired \cup gone, facts |-> after]
  BY DEF Supersede
<1>2. n = [order |-> n.order, facts |-> n.facts, answering |-> n.answering, retired |-> n.retired] /\ n.facts \in [D -> FactsOf]
      /\ n.answering \subseteq D /\ n.retired \subseteq D
  BY DEF WellKept
<1>3. gone \subseteq D
  BY DEF Stale
<1>4. \A k \in D : k.text # text /\ (\E s \in Expanded(n, {k}) \cap Quoted(n) : s.text # text /\ s.page = page /\ s.quote \notin text) => k \in gone
  BY DEF Stale
<1>5. CASE fresh = {}
  <2>1. m = n
    BY <1>1, <1>5
  <2>2. ~\E c \in Quoted(n) : CurrentIn(n, c) /\ c.text = text
    BY <1>5
  <2> HIDE DEF m
  <2> QED BY <2>1, <2>2 DEF m
<1>6. CASE fresh # {}
  <2> HIDE DEF fresh, gone
  <2>1. m = [order |-> n.order, facts |-> after, answering |-> n.answering \ gone, retired |-> n.retired \cup gone]
    <3> HIDE DEF m, after
    <3> QED BY <1>1, <1>6
  <2> HIDE DEF after
  <2>2. m.order = n.order /\ m.facts = after /\ m.answering = n.answering \ gone /\ m.retired = n.retired \cup gone
        /\ m = [order |-> m.order, facts |-> m.facts, answering |-> m.answering, retired |-> m.retired]
    <3> HIDE DEF m
    <3> QED BY <2>1
  <2> HIDE DEF m
  <2>3. DOMAIN after = D /\ after = [k \in D |-> after[k]]
    BY DEF after
  <2>4. ASSUME NEW k \in D
        PROVE  /\ after[k] \in FactsOf /\ after[k].answers = n.facts[k].answers /\ after[k].basis \subseteq n.facts[k].basis
               /\ k \notin own => after[k] = n.facts[k]
    <3>1. n.facts[k] \in FactsOf
      BY <1>2
    <3>2. after[k] = IF k \in own THEN [n.facts[k] EXCEPT !.basis = @ \ gone] ELSE n.facts[k]
      BY DEF after
    <3> HIDE DEF own
    <3>3. CASE k \in own
      <4> DEFINE f == n.facts[k]
      <4>1. f \in [answers : BOOLEAN, basis : SUBSET Keys] /\ after[k] = [f EXCEPT !.basis = @ \ gone]
        BY <3>1, <3>2, <3>3 DEF FactsOf
      <4> HIDE DEF f
      <4>2. after[k] = [answers |-> f.answers, basis |-> f.basis \ gone]
        BY <4>1
      <4>3. f.answers \in BOOLEAN /\ f.basis \ gone \in SUBSET Keys
        BY <4>1
      <4>4. after[k].answers = f.answers /\ after[k].basis = f.basis \ gone
        BY <4>2
      <4> QED BY <3>3, <4>2, <4>3, <4>4 DEF f, FactsOf
    <3>4. CASE k \notin own
      BY <3>1, <3>2, <3>4
    <3> QED BY <3>3, <3>4
  <2>5. ASSUME NEW k \in D PROVE RestsWell(m, k)
    <3>1. RestsWell(n, k) /\ m.facts[k].basis \subseteq n.facts[k].basis /\ DOMAIN m.facts = D
      BY <2>2, <2>3, <2>4 DEF WellKept
    <3>2. k.derived => m.facts[k].basis # {}
      <4> SUFFICES ASSUME k.derived PROVE m.facts[k].basis # {}
        OBVIOUS
      <4>1. k \notin own
        BY DEF Quoted
      <4> QED BY <2>2, <2>4, <3>1, <4>1 DEF RestsWell
    <3> QED BY <3>1, <3>2 DEF RestsWell
  <2>6. WellKept(m)
    <3>1. m.order \in Seq(Keys) /\ IsInjective(m.order) /\ DOMAIN m.facts = Range(m.order) /\ DOMAIN m.facts = D
      BY <2>2, <2>3 DEF WellKept
    <3>2. m.facts \in [DOMAIN m.facts -> FactsOf]
      BY <2>2, <2>3, <2>4
    <3>3. m.answering \subseteq DOMAIN m.facts /\ m.retired \subseteq DOMAIN m.facts
      BY <1>2, <1>3, <2>2, <3>1
    <3> QED BY <2>2, <2>5, <3>1, <3>2, <3>3 DEF WellKept
  <2>7. \A k \in D : m.facts[k].answers = n.facts[k].answers /\ m.facts[k].basis \subseteq n.facts[k].basis
    BY <2>2, <2>4
  <2>8. DOMAIN m.facts = D /\ n.retired \subseteq m.retired /\ m.answering \subseteq n.answering
    BY <2>2, <2>3
  <2>9. \A k \in gone : k \in m.retired /\ k \notin m.answering
    BY <2>2
  <2> QED BY <1>4, <2>6, <2>7, <2>8, <2>9 DEF m
<1> QED BY <1>5, <1>6

----------------------------------------------------------------------------
\* A page whose last read stands has no fact left standing on what that read no
\* longer showed; what was noted of a page's text is of a page that was read.
StandsIn(n, last, p) == \E c \in Quoted(n) : c.page = p /\ c.text = last[p] /\ CurrentIn(n, c)
VanishedOf(n, last, k) == \E s \in Expanded(n, {k}) \cap Quoted(n) : IsText(s) /\ s.quote \notin last[k.page]
GoneRetired(n, last) ==
  \A k \in DOMAIN n.facts : StandsIn(n, last, k.page) /\ VanishedOf(n, last, k) => k \in n.retired /\ k \notin n.answering
WasRead(n, last) == \A k \in DOMAIN n.facts : k.text # {} => last[k.page] # {}

\* A read leaves the facts of other captures resting on what they rested on.
LEMMA OthersKept ==
  ASSUME NEW n, WellKept(n), NEW entries, NEW page, NEW text, NotedOf(entries, page, text),
         NEW k \in DOMAIN AddAll(n, entries).facts, k.page # page \/ k.text # text
  PROVE  /\ k \in DOMAIN n.facts /\ k \notin NotedKeys(entries)
         /\ Expanded(AddAll(n, entries), {k}) \subseteq Expanded(n, {k})
<1> DEFINE m == AddAll(n, entries)
           K == NotedKeys(entries)
<1>1. DOMAIN m.facts = DOMAIN n.facts \cup K /\ (\A x \in DOMAIN n.facts \ K : m.facts[x] = n.facts[x]) /\ WellKept(m)
  BY AddedIs
<1>2. \A x \in K : x.page = page /\ x.text = text
  BY DEF NotedOf, NotedKeys
<1> HIDE DEF m, K
<1>3. k \in DOMAIN n.facts /\ k \notin K
  BY <1>1, <1>2 DEF m
<1>4. \A x \in Expanded(n, {k}) : x \in DOMAIN n.facts \ K
  <2>1. Expanded(n, {k}) \subseteq DOMAIN n.facts /\ \A s \in Expanded(n, {k}) : s.page = k.page /\ s.text = k.text
    BY <1>3, SameCapture
  <2> QED BY <1>2, <2>1
<1>5. \A x \in Expanded(n, {k}) : x \in DOMAIN m.facts /\ m.facts[x].basis \subseteq n.facts[x].basis
  BY <1>1, <1>4
<1>6. k \in DOMAIN n.facts \cap DOMAIN m.facts
  BY <1>1, <1>3
<1>7. Expanded(m, {k}) \subseteq Expanded(n, {k})
  BY <1>1, <1>5, <1>6, NoNewSources
<1> QED BY <1>3, <1>7 DEF m, K

\* A quote cut from a page's text is in that text.
LEMMA TextIsQuoted ==
  ASSUME NEW n, WellKept(n), NEW k \in DOMAIN n.facts, NEW s \in Expanded(n, {k}) \cap Quoted(n), IsText(s)
  PROVE  s.quote \in k.text /\ k.text # {} /\ s.page = k.page /\ s.text = k.text
<1>1. s \in DOMAIN n.facts /\ s.page = k.page /\ s.text = k.text /\ ~s.derived
  BY SameCapture DEF Quoted
<1>2. s.quote \in (IF s.text = {} THEN Images ELSE s.text)
  BY <1>1 DEF WellKept, RestsWell
<1> QED BY <1>1, <1>2 DEF IsText

----------------------------------------------------------------------------
(* What the reads note.                                                    *)

\* A span noted for what it says, as the answer or as what is around it.
SpanNoted(e, page, text, q) ==
  /\ e \in Keys \X FactsOf /\ e[1].page = page /\ e[1].text = text /\ e[1].quote = q /\ ~e[1].derived /\ e[2].basis = {}

LEMMA SpanKeys ==
  ASSUME NEW page \in Pages, NEW text \in SUBSET Quotes, NEW q \in Quotes \cup Images, NEW answers \in BOOLEAN
  PROVE  SpanNoted(<<QuoteKey(page, text, q), Fact(answers, {})>>, page, text, q)
BY DEF QuoteKey, Key, Keys, Fact, FactsOf, SpanNoted

LEMMA WholePageIs ==
  ASSUME NEW page \in Pages, NEW text \in Texts
  PROVE  /\ NotedOf(WholePage(page, text), page, text) /\ WholePage(page, text) # <<>>
         /\ \A i \in DOMAIN WholePage(page, text) :
              /\ WholePage(page, text)[i][1].page = page /\ WholePage(page, text)[i][1].text = text
              /\ WholePage(page, text)[i][1].quote \in text
<1> DEFINE s == SetToSeq(text)
           c == Cardinality(text)
           w == WholePage(page, text)
<1>1. text \in SUBSET Quotes /\ text # {} /\ IsFiniteSet(text)
  BY NotesAssumption, FS_Subset DEF Texts
<1>2. c \in Nat /\ s \in Seq(text) /\ DOMAIN s = 1..c /\ Range(s) = text /\ IsInjective(s)
  BY <1>1, SetAsList
<1>3. w = [i \in 1..c |-> <<QuoteKey(page, text, s[i]), Fact(FALSE, {})>>]
  BY DEF WholePage
<1>4. c # 0
  BY <1>1, FS_EmptySet
<1> HIDE DEF s, c, w
<1>5. \A i \in 1..c : s[i] \in text /\ s[i] \in Quotes \cup Images
  BY <1>1, <1>2
<1>6. \A i \in 1..c : w[i] = <<QuoteKey(page, text, s[i]), Fact(FALSE, {})>> /\ w[i][1] = QuoteKey(page, text, s[i]) /\ w[i][2] = Fact(FALSE, {})
  BY <1>3
<1>7. \A i \in 1..c : /\ w[i] \in Keys \X FactsOf /\ w[i][1].page = page /\ w[i][1].text = text /\ w[i][1].quote = s[i]
                      /\ ~w[i][1].derived /\ w[i][2].basis = {}
  <2>1. \A i \in 1..c : SpanNoted(w[i], page, text, s[i])
    <3> SUFFICES ASSUME NEW i \in 1..c PROVE SpanNoted(w[i], page, text, s[i])
      OBVIOUS
    <3>1. s[i] \in Quotes \cup Images /\ w[i] = <<QuoteKey(page, text, s[i]), Fact(FALSE, {})>>
      BY <1>5, <1>6
    <3>2. SpanNoted(<<QuoteKey(page, text, s[i]), Fact(FALSE, {})>>, page, text, s[i])
      BY <1>1, <3>1, SpanKeys, Zenon
    <3> QED BY <3>1, <3>2, Zenon
  <2> QED BY <2>1 DEF SpanNoted
<1>8. w \in Seq(Keys \X FactsOf) /\ DOMAIN w = 1..c
  <2> DEFINE E == Keys \X FactsOf
  <2>1. w \in [1..c -> E]
    BY <1>3, <1>7
  <2> HIDE DEF E
  <2>2. w \in Seq(E) /\ DOMAIN w = 1..c
    BY <1>2, <2>1
  <2> QED BY <2>2 DEF E
<1>9. w # <<>>
  BY <1>2, <1>4, <1>8
<1>10. \A i, j \in DOMAIN w : w[i][1] = w[j][1] => i = j
  BY <1>2, <1>7, <1>8 DEF IsInjective
<1>11. NotedOf(w, page, text)
  BY <1>1, <1>5, <1>7, <1>8, <1>10 DEF NotedOf
<1> QED BY <1>5, <1>7, <1>8, <1>9, <1>11 DEF w

LEMMA ImageIs ==
  ASSUME NEW page \in Pages, NEW image \in Images
  PROVE  NotedOf(<<<<QuoteKey(page, {}, image), Fact(TRUE, {})>>>>, page, {})
<1> DEFINE e == <<QuoteKey(page, {}, image), Fact(TRUE, {})>>
           w == <<e>>
<1>1. {} \in SUBSET Quotes /\ image \in Quotes \cup Images
  OBVIOUS
<1>2. SpanNoted(e, page, {}, image)
  BY <1>1, SpanKeys, Zenon
<1> HIDE DEF e
<1>3. e \in Keys \X FactsOf /\ e[1].page = page /\ e[1].text = {} /\ e[1].quote = image /\ ~e[1].derived /\ e[2].basis = {}
  BY <1>2 DEF SpanNoted
<1>4. w \in Seq(Keys \X FactsOf) /\ DOMAIN w = {1} /\ w[1] = e
  BY <1>3
<1> HIDE DEF w
<1>5. NotedOf(w, page, {})
  BY <1>3, <1>4 DEF NotedOf
<1> QED BY <1>5 DEF w, e

LEMMA PickFactsIs ==
  ASSUME NEW page \in Pages, NEW text \in Texts, NEW value \in {ValueOf[q] : q \in text}, NEW around \in SUBSET text,
         \A q \in around : ValueOf[q] # value
  PROVE  NotedOf(PickFacts(page, text, value, around), page, text) /\ PickFacts(page, text, value, around) # <<>>
<1> DEFINE group == {q \in text : ValueOf[q] = value}
           context == IF Cardinality(group) > 1 THEN group ELSE {}
           basis == {QuoteKey(page, text, q) : q \in context \cup around}
           answer == IF context = {} THEN QuoteKey(page, text, CHOOSE q \in group : TRUE) ELSE Key(page, text, ValueQuote(value), TRUE)
           noted == SetToSeq(context \cup around)
           spans == [i \in DOMAIN noted |-> <<QuoteKey(page, text, noted[i]), Fact(FALSE, {})>>]
           last == <<answer, Fact(TRUE, basis)>>
           w == PickFacts(page, text, value, around)
           c == Len(noted)
<1>1. text \in SUBSET Quotes /\ text # {} /\ IsFiniteSet(text)
  BY NotesAssumption, FS_Subset DEF Texts
<1>2. w = Append(spans, last)
  BY DEF PickFacts
<1>3. group \subseteq text /\ group # {} /\ context \subseteq group
  OBVIOUS
<1>4. context \cup around \subseteq text /\ IsFiniteSet(context \cup around)
  <2> HIDE DEF context, group
  <2>1. context \cup around \subseteq text
    BY <1>3
  <2> QED BY <1>1, <2>1, FS_Subset
<1>5. noted \in Seq(context \cup around) /\ Range(noted) = context \cup around /\ IsInjective(noted)
  <2> HIDE DEF context
  <2> QED BY <1>4, SetAsList
<1>6. (CHOOSE q \in group : TRUE) \in group
  <2> HIDE DEF group
  <2> QED BY <1>3
<1>7. ValueQuote(value) \in Quotes
  BY <1>1 DEF ValueQuote
<1> HIDE DEF context, noted
<1>8. answer \in Keys /\ answer.page = page /\ answer.text = text /\ (answer.derived => context # {})
      /\ (~answer.derived => answer.quote \in text /\ ValueOf[answer.quote] = value /\ context = {})
  <2>1. CASE context = {}
    <3> DEFINE q == CHOOSE x \in group : TRUE
    <3>1. q \in text /\ ValueOf[q] = value /\ q \in Quotes \cup Images
      BY <1>1, <1>6
    <3> HIDE DEF q
    <3>2. answer = QuoteKey(page, text, q)
      BY <2>1 DEF q
    <3> HIDE DEF answer
    <3> QED BY <1>1, <2>1, <3>1, <3>2 DEF QuoteKey, Key, Keys
  <2>2. CASE context # {}
    <3>1. answer = Key(page, text, ValueQuote(value), TRUE)
      BY <2>2
    <3> HIDE DEF answer
    <3> QED BY <1>1, <1>7, <2>2, <3>1 DEF Key, Keys
  <2> QED BY <2>1, <2>2
<1> HIDE DEF answer
<1>9. /\ c \in Nat /\ DOMAIN noted = 1..c
      /\ \A i \in 1..c : noted[i] \in context \cup around /\ noted[i] \in text /\ noted[i] \in Quotes \cup Images
  BY <1>1, <1>4, <1>5
<1> HIDE DEF c
<1>10. basis \in SUBSET Keys
  <2>1. ASSUME NEW q \in context \cup around PROVE QuoteKey(page, text, q) \in Keys
    <3>1. q \in Quotes \cup Images
      BY <1>1, <1>4
    <3> QED BY <1>1, <3>1 DEF QuoteKey, Key, Keys
  <2> QED BY <2>1
<1>11. context # {} => basis # {}
  OBVIOUS
<1>12. \A q \in context \cup around : QuoteKey(page, text, q) \in basis
  OBVIOUS
<1>13. basis = {QuoteKey(page, text, noted[i]) : i \in 1..c}
  BY <1>5, <1>9 DEF Range
<1> HIDE DEF basis
<1>14. last \in Keys \X FactsOf /\ last[1] = answer /\ last[2].basis = basis
  BY <1>8, <1>10 DEF Fact, FactsOf
<1> HIDE DEF last
<1>15. \A i \in 1..c : spans[i] = <<QuoteKey(page, text, noted[i]), Fact(FALSE, {})>> /\ spans[i][1] = QuoteKey(page, text, noted[i]) /\ spans[i][2] = Fact(FALSE, {})
  BY <1>9
<1>16. \A i \in 1..c : /\ spans[i] \in Keys \X FactsOf /\ spans[i][1].page = page /\ spans[i][1].text = text /\ spans[i][1].quote = noted[i]
                       /\ ~spans[i][1].derived /\ spans[i][2].basis = {}
  <2> HIDE DEF spans
  <2>1. \A i \in 1..c : SpanNoted(spans[i], page, text, noted[i])
    <3> SUFFICES ASSUME NEW i \in 1..c PROVE SpanNoted(spans[i], page, text, noted[i])
      OBVIOUS
    <3>1. noted[i] \in Quotes \cup Images /\ spans[i] = <<QuoteKey(page, text, noted[i]), Fact(FALSE, {})>>
      BY <1>9, <1>15
    <3>2. SpanNoted(<<QuoteKey(page, text, noted[i]), Fact(FALSE, {})>>, page, text, noted[i])
      BY <1>1, <3>1, SpanKeys, Zenon
    <3> QED BY <3>1, <3>2, Zenon
  <2> QED BY <2>1 DEF SpanNoted
<1> DEFINE E == Keys \X FactsOf
<1>17. spans \in Seq(E) /\ Len(spans) = c /\ last \in E
  <2>1. spans \in [1..c -> E]
    BY <1>9, <1>16
  <2> HIDE DEF E, spans
  <2> QED BY <1>9, <1>14, <2>1 DEF E
<1> HIDE DEF spans, E
<1>18. /\ w \in Seq(E) /\ DOMAIN w = 1..(c + 1) /\ w[c + 1] = last /\ w # <<>>
       /\ \A i \in 1..c : w[i] = spans[i]
  BY <1>2, <1>9, <1>17
<1> HIDE DEF w
<1>19. \A i \in 1..(c + 1) : i \in 1..c \/ i = c + 1
  BY <1>9
<1>20. \A i \in 1..c : w[i][1] # answer
  <2> SUFFICES ASSUME NEW i \in 1..c, w[i][1] = answer PROVE FALSE
    OBVIOUS
  <2>1. answer.derived = FALSE /\ answer.quote = noted[i]
    BY <1>16, <1>18
  <2>2. context = {} /\ ValueOf[answer.quote] = value /\ noted[i] \in around
    BY <1>8, <1>9, <2>1
  <2> QED BY <2>1, <2>2
<1>21. \A i, j \in DOMAIN w : w[i][1] = w[j][1] => i = j
  <2> SUFFICES ASSUME NEW i \in 1..(c + 1), NEW j \in 1..(c + 1), w[i][1] = w[j][1] PROVE i = j
    BY <1>18
  <2>1. CASE i \in 1..c /\ j \in 1..c
    <3>1. noted[i] = noted[j]
      BY <1>16, <1>18, <2>1
    <3> QED BY <1>5, <1>9, <2>1, <3>1 DEF IsInjective
  <2> QED BY <1>14, <1>18, <1>19, <1>20, <2>1
<1>22. basis \subseteq NotedKeys(w)
  <2>1. \A i \in 1..c : QuoteKey(page, text, noted[i]) = w[i][1] /\ i \in DOMAIN w
    <3>1. \A i \in 1..c : i \in DOMAIN w /\ w[i] = spans[i]
      BY <1>9, <1>18
    <3>2. \A i \in 1..c : spans[i][1] = QuoteKey(page, text, noted[i])
      BY <1>15
    <3> QED BY <3>1, <3>2
  <2> QED BY <1>13, <2>1 DEF NotedKeys
<1>23. ASSUME NEW i \in DOMAIN w
       PROVE  /\ w[i][1].page = page /\ w[i][1].text = text /\ w[i][2].basis \subseteq NotedKeys(w)
              /\ (w[i][1].derived => w[i][2].basis # {})
              /\ (~w[i][1].derived => w[i][1].quote \in (IF text = {} THEN Images ELSE text))
  <2>1. CASE i \in 1..c
    BY <1>1, <1>9, <1>16, <1>18, <2>1
  <2>2. CASE i = c + 1
    BY <1>1, <1>8, <1>11, <1>14, <1>18, <1>22, <2>2
  <2> QED BY <1>18, <1>19, <2>1, <2>2
<1>24. NotedOf(w, page, text)
  BY <1>18, <1>21, <1>23 DEF NotedOf, E
<1> QED BY <1>18, <1>24 DEF w

----------------------------------------------------------------------------
(* What a read leaves of earlier reads.                                    *)

LEMMA ReadKeepsGone ==
  ASSUME NEW n, WellKept(n), NEW last \in [Pages -> SUBSET Quotes], GoneRetired(n, last), WasRead(n, last),
         NEW page \in Pages, NEW text \in Texts, NEW entries, NotedOf(entries, page, text)
  PROVE  LET m == Supersede(AddAll(n, entries), page, text)
             then == [last EXCEPT ![page] = text] IN
         WellKept(m) /\ GoneRetired(m, then) /\ WasRead(m, then)
<1> DEFINE a == AddAll(n, entries)
           K == NotedKeys(entries)
           m == Supersede(a, page, text)
           then == [last EXCEPT ![page] = text]
<1>1. /\ DOMAIN a.facts = DOMAIN n.facts \cup K /\ (\A k \in DOMAIN n.facts \ K : a.facts[k] = n.facts[k])
      /\ a.retired = n.retired \ K /\ n.answering \subseteq a.answering /\ a.answering \subseteq n.answering \cup K
      /\ WellKept(a)
  BY AddedIs
<1>2. \A x \in K : x.page = page /\ x.text = text
  BY DEF NotedOf, NotedKeys
<1>3. \A k \in DOMAIN a.facts : k.page # page \/ k.text # text =>
        k \in DOMAIN n.facts /\ k \notin K /\ Expanded(a, {k}) \subseteq Expanded(n, {k})
  BY OthersKept
<1>4. text # {} /\ then[page] = text /\ \A p \in Pages : p # page => then[p] = last[p]
  BY DEF Texts
<1> HIDE DEF a, K, then
<1>5. /\ WellKept(m) /\ DOMAIN m.facts = DOMAIN a.facts /\ a.retired \subseteq m.retired /\ m.answering \subseteq a.answering
      /\ \A k \in DOMAIN a.facts : m.facts[k].answers = a.facts[k].answers /\ m.facts[k].basis \subseteq a.facts[k].basis
      /\ (\E c \in Quoted(a) : CurrentIn(a, c) /\ c.text = text) =>
           \A k \in DOMAIN a.facts :
             k.text # text /\ (\E s \in Expanded(a, {k}) \cap Quoted(a) : s.text # text /\ s.page = page /\ s.quote \notin text)
               => k \in m.retired /\ k \notin m.answering
  BY <1>1, SupersededIs
<1> HIDE DEF m
<1>6. \A k \in DOMAIN a.facts : k.page \in Pages
  BY <1>1, KeptTypes DEF Keys
<1>7. Quoted(m) = Quoted(a) /\ \A c \in DOMAIN a.facts : CurrentIn(m, c) => CurrentIn(a, c)
  BY <1>5 DEF Quoted, CurrentIn
<1>8. \A k \in DOMAIN a.facts : Expanded(m, {k}) \subseteq Expanded(a, {k})
  <2> SUFFICES ASSUME NEW k \in DOMAIN a.facts PROVE Expanded(m, {k}) \subseteq Expanded(a, {k})
    OBVIOUS
  <2>1. k \in DOMAIN a.facts \cap DOMAIN m.facts
    BY <1>5
  <2>2. \A x \in Expanded(a, {k}) : x \in DOMAIN m.facts /\ m.facts[x].basis \subseteq a.facts[x].basis
    <3>1. Expanded(a, {k}) \subseteq DOMAIN a.facts
      BY <1>1, SameCapture
    <3> QED BY <1>5, <3>1
  <2> QED BY <1>1, <1>5, <2>1, <2>2, NoNewSources
<1>9. WasRead(m, then)
  <2> SUFFICES ASSUME NEW k \in DOMAIN m.facts, k.text # {} PROVE then[k.page] # {}
    BY DEF WasRead
  <2>1. CASE k.page = page
    BY <1>4, <2>1
  <2>2. CASE k.page # page
    <3>1. k \in DOMAIN n.facts /\ k.page \in Pages
      BY <1>3, <1>5, <1>6, <2>2
    <3> QED BY <1>4, <2>2, <3>1 DEF WasRead
  <2> QED BY <2>1, <2>2
<1>10. GoneRetired(m, then)
  <2> SUFFICES ASSUME NEW k \in DOMAIN m.facts, StandsIn(m, then, k.page), VanishedOf(m, then, k)
               PROVE  k \in m.retired /\ k \notin m.answering
    BY DEF GoneRetired
  <2>1. PICK c \in Quoted(m) : c.page = k.page /\ c.text = then[k.page] /\ CurrentIn(m, c)
    BY DEF StandsIn
  <2>2. PICK s \in Expanded(m, {k}) \cap Quoted(m) : IsText(s) /\ s.quote \notin then[k.page]
    BY DEF VanishedOf
  <2>3. k \in DOMAIN a.facts /\ k.page \in Pages /\ c \in Quoted(a) /\ c \in DOMAIN a.facts /\ CurrentIn(a, c)
        /\ s \in Expanded(a, {k}) \cap Quoted(a)
    BY <1>5, <1>6, <1>7, <1>8, <2>1 DEF Quoted
  <2>4. s.quote \in k.text /\ s.page = k.page /\ s.text = k.text
    BY <1>1, <2>2, <2>3, TextIsQuoted
  <2>5. CASE k.page = page
    <3>1. c.text = text /\ s.quote \notin text
      BY <1>4, <2>1, <2>2, <2>5
    <3>2. k.text # text /\ s.text # text /\ s.page = page
      BY <2>4, <2>5, <3>1
    <3> QED BY <1>5, <2>3, <3>1, <3>2
  <2>6. CASE k.page # page
    <3>1. /\ k \in DOMAIN n.facts /\ k \notin K /\ Expanded(a, {k}) \subseteq Expanded(n, {k})
          /\ c \in DOMAIN n.facts /\ c \notin K /\ then[k.page] = last[k.page]
      BY <1>3, <1>4, <2>1, <2>3, <2>6
    <3>2. CurrentIn(n, c) /\ c \in Quoted(n)
      BY <1>1, <2>3, <3>1 DEF CurrentIn, Quoted
    <3>3. StandsIn(n, last, k.page)
      BY <2>1, <3>1, <3>2 DEF StandsIn
    <3>4. s \in Expanded(n, {k}) \cap Quoted(n)
      <4>1. s \in Expanded(n, {k}) /\ ~s.derived
        BY <2>3, <3>1 DEF Quoted
      <4>2. Expanded(n, {k}) \subseteq DOMAIN n.facts
        BY <3>1, SameCapture
      <4> QED BY <4>1, <4>2 DEF Quoted
    <3>5. VanishedOf(n, last, k)
      BY <2>2, <3>1, <3>4 DEF VanishedOf
    <3>6. k \in n.retired /\ k \notin n.answering
      BY <3>1, <3>3, <3>5 DEF GoneRetired
    <3> QED BY <1>1, <1>5, <3>1, <3>6
  <2> QED BY <2>5, <2>6
<1> QED BY <1>5, <1>9, <1>10 DEF m, a, then

LEMMA ImageKeepsGone ==
  ASSUME NEW n, WellKept(n), NEW last \in [Pages -> SUBSET Quotes], GoneRetired(n, last), WasRead(n, last),
         NEW page \in Pages, NEW entries, NotedOf(entries, page, {})
  PROVE  LET m == AddAll(n, entries) IN WellKept(m) /\ GoneRetired(m, last) /\ WasRead(m, last)
<1> DEFINE a == AddAll(n, entries)
           K == NotedKeys(entries)
<1>1. /\ DOMAIN a.facts = DOMAIN n.facts \cup K /\ (\A k \in DOMAIN n.facts \ K : a.facts[k] = n.facts[k])
      /\ a.retired = n.retired \ K /\ n.answering \subseteq a.answering /\ a.answering \subseteq n.answering \cup K
      /\ WellKept(a)
  BY AddedIs
<1>2. \A k \in DOMAIN a.facts : k.text # {} =>
        k \in DOMAIN n.facts /\ k \notin K /\ Expanded(a, {k}) \subseteq Expanded(n, {k})
  BY OthersKept
<1> HIDE DEF a, K
<1>3. WasRead(a, last)
  BY <1>2 DEF WasRead
<1>4. GoneRetired(a, last)
  <2> SUFFICES ASSUME NEW k \in DOMAIN a.facts, StandsIn(a, last, k.page), VanishedOf(a, last, k)
               PROVE  k \in a.retired /\ k \notin a.answering
    BY DEF GoneRetired
  <2>1. PICK c \in Quoted(a) : c.page = k.page /\ c.text = last[k.page] /\ CurrentIn(a, c)
    BY DEF StandsIn
  <2>2. PICK s \in Expanded(a, {k}) \cap Quoted(a) : IsText(s) /\ s.quote \notin last[k.page]
    BY DEF VanishedOf
  <2>3. k.text # {} /\ c \in DOMAIN a.facts
    BY <1>1, <2>2, TextIsQuoted DEF Quoted
  <2>4. c.text # {}
    BY <1>3, <2>1, <2>3 DEF WasRead
  <2>5. /\ k \in DOMAIN n.facts /\ k \notin K /\ Expanded(a, {k}) \subseteq Expanded(n, {k})
        /\ c \in DOMAIN n.facts /\ c \notin K
    BY <1>2, <2>3, <2>4
  <2>6. CurrentIn(n, c) /\ c \in Quoted(n)
    BY <1>1, <2>1, <2>5 DEF CurrentIn, Quoted
  <2>7. StandsIn(n, last, k.page)
    BY <2>1, <2>6 DEF StandsIn
  <2>8. s \in Expanded(n, {k}) \cap Quoted(n)
    <3>1. s \in Expanded(n, {k}) /\ ~s.derived
      BY <2>2, <2>5 DEF Quoted
    <3>2. Expanded(n, {k}) \subseteq DOMAIN n.facts
      BY <2>5, SameCapture
    <3> QED BY <3>1, <3>2 DEF Quoted
  <2>9. VanishedOf(n, last, k)
    BY <2>2, <2>8 DEF VanishedOf
  <2>10. k \in n.retired /\ k \notin n.answering
    BY <2>5, <2>7, <2>9 DEF GoneRetired
  <2> QED BY <1>1, <2>5, <2>10
<1> QED BY <1>1, <1>3, <1>4 DEF a

----------------------------------------------------------------------------
(* The invariant.                                                          *)

\* Each fact rests on facts of its own capture; whatever the last read of a page that
\* stands no longer shows is retired; a page whose text was noted has been read; and
\* the pages kept whole are as they were last read.
NotesInv ==
  /\ WellKept(Held) /\ GoneRetired(Held, latest) /\ WasRead(Held, latest)
  /\ compose \in BOOLEAN /\ latest \in [Pages -> SUBSET Quotes] /\ readings \in 0..MaxReads
  /\ readWhole \subseteq Pages \X Texts /\ IsFiniteSet(readWhole) /\ \A r \in readWhole : r[2] = latest[r[1]]

LEMMA HeldIs ==
  ASSUME NEW n, WellKept(n), Keeps(n)
  PROVE  Held' = n
<1>1. n = [order |-> n.order, facts |-> n.facts, answering |-> n.answering, retired |-> n.retired]
  BY DEF WellKept
<1>2. order' = n.order /\ facts' = n.facts /\ answering' = n.answering /\ retired' = n.retired
  BY DEF Keeps
<1>3. Held' = [order |-> order', facts |-> facts', answering |-> answering', retired |-> retired']
  BY DEF Held
<1> QED BY <1>1, <1>2, <1>3, Zenon

LEMMA NotesInitOK == NotesInit => NotesInv
<1> SUFFICES ASSUME NotesInit PROVE NotesInv
  OBVIOUS
<1> DEFINE n == Held
<1>1. n = [order |-> <<>>, facts |-> <<>>, answering |-> {}, retired |-> {}]
  BY DEF Held, NotesInit
<1> HIDE DEF n
<1>2. n.order = <<>> /\ n.facts = <<>> /\ n.answering = {} /\ n.retired = {}
      /\ n = [order |-> n.order, facts |-> n.facts, answering |-> n.answering, retired |-> n.retired]
  BY <1>1
<1>3. DOMAIN n.facts = {}
  BY <1>2
<1>4. n.order \in Seq(Keys) /\ IsInjective(n.order) /\ Range(n.order) = {}
  BY <1>2 DEF IsInjective, Range
<1>5. n.facts \in [DOMAIN n.facts -> FactsOf]
  <2>1. n.facts = [k \in DOMAIN n.facts |-> n.facts[k]]
    BY <1>2
  <2> QED BY <1>3, <2>1
<1>6. WellKept(n)
  BY <1>2, <1>3, <1>4, <1>5 DEF WellKept
<1>7. GoneRetired(n, latest) /\ WasRead(n, latest)
  BY <1>3 DEF GoneRetired, WasRead
<1>8. IsFiniteSet(readWhole)
  BY FS_EmptySet DEF NotesInit
<1>9. compose \in BOOLEAN /\ latest \in [Pages -> SUBSET Quotes] /\ readings \in 0..MaxReads
      /\ readWhole \subseteq Pages \X Texts /\ \A r \in readWhole : r[2] = latest[r[1]]
  <2>1. latest = [p \in Pages |-> {}] /\ {} \in SUBSET Quotes
    BY DEF NotesInit
  <2>2. latest \in [Pages -> SUBSET Quotes]
    BY <2>1
  <2>3. readings \in 0..MaxReads
    BY NotesAssumption DEF NotesInit
  <2>4. readWhole = {} /\ compose \in BOOLEAN
    BY DEF NotesInit
  <2> QED BY <2>2, <2>3, <2>4
<1> QED BY <1>6, <1>7, <1>8, <1>9 DEF NotesInv, n

\* A read that noted something, of a page that showed some text.
LEMMA RecordReadOK ==
  ASSUME NotesInv, NEW page \in Pages, NEW text \in Texts, NEW entries, NotedOf(entries, page, text), entries # <<>>,
         NEW whole \in BOOLEAN, RecordRead(page, text, entries, whole), ReadsMore, compose' \in BOOLEAN
  PROVE  NotesInv'
<1> DEFINE m == Supersede(AddAll(Held, entries), page, text)
<1>1. Keeps(m) /\ latest' = [latest EXCEPT ![page] = text]
      /\ readWhole' = {r \in readWhole : r[1] # page} \cup (IF whole /\ entries # <<>> THEN {<<page, text>>} ELSE {})
  BY DEF RecordRead
<1>2. WellKept(m) /\ GoneRetired(m, [latest EXCEPT ![page] = text]) /\ WasRead(m, [latest EXCEPT ![page] = text])
  BY ReadKeepsGone DEF NotesInv
<1> HIDE DEF m
<1>3. Held' = m
  BY <1>1, <1>2, HeldIs
<1>4. latest' \in [Pages -> SUBSET Quotes] /\ latest'[page] = text /\ \A p \in Pages : p # page => latest'[p] = latest[p]
  BY <1>1 DEF NotesInv, Texts
<1>5. readWhole' \subseteq Pages \X Texts /\ \A r \in readWhole' : r[2] = latest'[r[1]]
  <2> SUFFICES ASSUME NEW r \in readWhole' PROVE r \in Pages \X Texts /\ r[2] = latest'[r[1]]
    OBVIOUS
  <2>1. CASE r \in readWhole /\ r[1] # page
    <3>1. r \in Pages \X Texts /\ r[2] = latest[r[1]] /\ r[1] \in Pages
      BY <2>1 DEF NotesInv
    <3> QED BY <1>4, <2>1, <3>1
  <2>2. CASE r = <<page, text>>
    BY <1>4, <2>2
  <2> QED BY <1>1, <2>1, <2>2
<1>6. IsFiniteSet(readWhole')
  <2> DEFINE old == {r \in readWhole : r[1] # page}
             new == IF whole /\ entries # <<>> THEN {<<page, text>>} ELSE {}
  <2>1. IsFiniteSet(old)
    <3>1. old \subseteq readWhole
      OBVIOUS
    <3> HIDE DEF old
    <3> QED BY <3>1, FS_Subset DEF NotesInv
  <2>2. IsFiniteSet(new)
    BY FS_EmptySet, FS_Singleton
  <2>3. readWhole' = old \cup new
    BY <1>1
  <2> HIDE DEF old, new
  <2> QED BY <2>1, <2>2, <2>3, FS_Union
<1>7. readings' \in 0..MaxReads
  BY NotesAssumption DEF ReadsMore, NotesInv
<1>8. WellKept(Held') /\ GoneRetired(Held', latest') /\ WasRead(Held', latest')
  BY <1>1, <1>2, <1>3
<1> QED BY <1>4, <1>5, <1>6, <1>7, <1>8 DEF NotesInv, GoneRetired, WasRead

LEMMA NotesStepOK == NotesInv /\ [NotesNext]_noteVars => NotesInv'
<1> SUFFICES ASSUME NotesInv, [NotesNext]_noteVars PROVE NotesInv'
  OBVIOUS
<1>1. ASSUME NEW page \in Pages, NEW text \in Texts, ReadAbsent(page, text) PROVE NotesInv'
  <2>1. Keeps(Held) /\ latest' = latest /\ compose' = compose /\ readWhole' = {r \in readWhole : r[1] # page} \cup {}
        /\ readings < MaxReads /\ readings' = readings + 1
    BY <1>1 DEF ReadAbsent, RecordRead, ReadsMore
  <2>2. Held' = Held
    BY <2>1, HeldIs DEF NotesInv
  <2>3. readWhole' \subseteq readWhole
    BY <2>1
  <2>4. IsFiniteSet(readWhole')
    BY <2>3, FS_Subset DEF NotesInv
  <2>5. readings' \in 0..MaxReads
    BY <2>1, NotesAssumption DEF NotesInv
  <2>6. WellKept(Held') /\ GoneRetired(Held', latest') /\ WasRead(Held', latest')
    BY <2>1, <2>2 DEF NotesInv
  <2>7. compose' \in BOOLEAN /\ latest' \in [Pages -> SUBSET Quotes] /\ readWhole' \subseteq Pages \X Texts /\ \A r \in readWhole' : r[2] = latest'[r[1]]
    BY <2>1, <2>3 DEF NotesInv
  <2> QED BY <2>4, <2>5, <2>6, <2>7 DEF NotesInv, GoneRetired, WasRead
<1>2. ASSUME NEW page \in Pages, NEW text \in Texts, ReadToCompose(page, text) PROVE NotesInv'
  <2> DEFINE w == WholePage(page, text)
  <2>1. RecordRead(page, text, w, FALSE) /\ ReadsMore /\ compose' \in BOOLEAN
    BY <1>2 DEF ReadToCompose
  <2>2. NotedOf(w, page, text) /\ w # <<>>
    BY WholePageIs
  <2> HIDE DEF w
  <2> QED BY <2>1, <2>2, RecordReadOK
<1>3. ASSUME NEW page \in Pages, NEW text \in Texts, NEW value \in {ValueOf[q] : q \in text}, NEW around \in {{}} \cup {{q} : q \in text},
             \A q \in around : ValueOf[q] # value, ReadPick(page, text, value, around)
      PROVE  NotesInv'
  <2> DEFINE w == PickFacts(page, text, value, around)
  <2>1. RecordRead(page, text, w, TRUE) /\ ReadsMore /\ compose' = Composes(page, value)
    BY <1>3 DEF ReadPick
  <2>2. compose' \in BOOLEAN
    BY <2>1, Zenon DEF Composes
  <2>3. around \in SUBSET text
    OBVIOUS
  <2>4. NotedOf(w, page, text) /\ w # <<>>
    BY <1>3, <2>3, PickFactsIs
  <2> HIDE DEF w
  <2> QED BY <2>1, <2>2, <2>4, RecordReadOK
<1>4. ASSUME NEW page \in Pages, NEW image \in Images, NEW appearance \in BOOLEAN, ReadImage(page, image, appearance) PROVE NotesInv'
  <2> DEFINE w == <<<<QuoteKey(page, {}, image), Fact(TRUE, {})>>>>
             m == AddAll(Held, w)
  <2>1. Keeps(m) /\ ReadsMore /\ compose' = TRUE /\ readWhole' = readWhole /\ latest' = latest
    BY <1>4 DEF ReadImage
  <2>2. NotedOf(w, page, {})
    BY ImageIs
  <2> HIDE DEF w
  <2>3. WellKept(m) /\ GoneRetired(m, latest) /\ WasRead(m, latest)
    BY <2>2, ImageKeepsGone DEF NotesInv
  <2> HIDE DEF m
  <2>4. Held' = m
    BY <2>1, <2>3, HeldIs
  <2>5. readings' \in 0..MaxReads
    BY <2>1, NotesAssumption DEF ReadsMore, NotesInv
  <2>6. WellKept(Held') /\ GoneRetired(Held', latest') /\ WasRead(Held', latest')
    BY <2>1, <2>3, <2>4
  <2> QED BY <2>1, <2>5, <2>6 DEF NotesInv, GoneRetired, WasRead
<1>5. CASE UNCHANGED noteVars
  <2>1. Held' = Held /\ latest' = latest /\ compose' = compose /\ readWhole' = readWhole /\ readings' = readings
    BY <1>5 DEF noteVars, Held
  <2>2. WellKept(Held') /\ GoneRetired(Held', latest') /\ WasRead(Held', latest')
    BY <2>1 DEF NotesInv
  <2> QED BY <2>1, <2>2 DEF NotesInv, GoneRetired, WasRead
<1> QED BY <1>1, <1>2, <1>3, <1>4, <1>5 DEF NotesNext

----------------------------------------------------------------------------
(* What the invariant says.                                                *)

LEMMA HeldParts ==
  Held.order = order /\ Held.facts = facts /\ Held.answering = answering /\ Held.retired = retired
BY DEF Held

LEMMA NotesTyped == NotesInv => NotesTypeOK
<1> SUFFICES ASSUME NotesInv PROVE NotesTypeOK
  OBVIOUS
<1> DEFINE n == Held
<1>1. n.order = order /\ n.facts = facts /\ n.answering = answering /\ n.retired = retired /\ WellKept(n)
  BY HeldParts DEF NotesInv
<1> HIDE DEF n
<1>2. IsInjective(order) /\ DOMAIN facts = Range(order) /\ answering \subseteq DOMAIN facts /\ retired \subseteq DOMAIN facts
  BY <1>1 DEF WellKept
<1>3. \A k \in DOMAIN facts : facts[k].basis \subseteq DOMAIN facts /\ (k.derived => facts[k].basis # {})
  BY <1>1 DEF WellKept, RestsWell
<1>4. \A i, j \in DOMAIN order : i # j => order[i] # order[j]
  BY <1>2 DEF IsInjective
<1> QED BY <1>2, <1>3, <1>4 DEF NotesInv, NotesTypeOK

LEMMA StandsAlike == \A p : LastReadStands(p) <=> StandsIn(Held, latest, p)
BY DEF LastReadStands, StandsIn

LEMMA AnswersShown == NotesInv => AnswerStillShown
<1> SUFFICES ASSUME NotesInv, NEW k \in answering, NEW s \in SourcesOf(k), IsText(s), s.quote \notin latest[s.page], LastReadStands(s.page)
             PROVE  FALSE
  BY DEF AnswerStillShown
<1> DEFINE n == Held
<1>1. n.answering = answering /\ WellKept(n) /\ GoneRetired(n, latest)
  BY HeldParts DEF NotesInv
<1>2. s \in Expanded(n, {k}) \cap Quoted(n) /\ StandsIn(n, latest, s.page)
  BY StandsAlike DEF SourcesOf
<1> HIDE DEF n
<1>3. k \in DOMAIN n.facts
  BY <1>1 DEF WellKept
<1>4. s.page = k.page
  BY <1>1, <1>2, <1>3, SameCapture
<1>5. VanishedOf(n, latest, k)
  BY <1>2, <1>4 DEF VanishedOf
<1> QED BY <1>1, <1>2, <1>3, <1>4, <1>5 DEF GoneRetired

\* What is added of the pages kept whole is cut from what they last showed.
KeptWhole == {e \in Keys \X FactsOf : <<e[1].page, e[1].text>> \in readWhole /\ e[1].quote \in e[1].text}

LEMMA ComposedShown == NotesInv => ComposedFromCurrent
<1> SUFFICES ASSUME NotesInv PROVE ComposedFromCurrent
  OBVIOUS
<1> DEFINE h == Held
           wholes == SetToSeq(readWhole)
           pieces == [i \in DOMAIN wholes |-> WholePage(wholes[i][1], wholes[i][2])]
           entries == FlattenSeq(pieces)
           n == NotesToCompose
           keys == [i \in DOMAIN entries |-> entries[i][1]]
<1>1. n = AddAll(h, entries)
  BY DEF NotesToCompose
<1>2. wholes \in Seq(readWhole)
  BY SetAsList DEF NotesInv
<1> HIDE DEF wholes
<1>3. ASSUME NEW i \in DOMAIN wholes PROVE WholePage(wholes[i][1], wholes[i][2]) \in Seq(KeptWhole)
  <2> DEFINE page == wholes[i][1]
             text == wholes[i][2]
             w == WholePage(page, text)
  <2>1. wholes[i] \in readWhole /\ wholes[i] \in Pages \X Texts
    BY <1>2 DEF NotesInv
  <2>2. page \in Pages /\ text \in Texts /\ <<page, text>> \in readWhole
    BY <2>1
  <2> HIDE DEF page, text
  <2>3. NotedOf(w, page, text) /\ \A j \in DOMAIN w : w[j][1].page = page /\ w[j][1].text = text /\ w[j][1].quote \in text
    BY <2>2, WholePageIs
  <2> HIDE DEF w
  <2> DEFINE E == Keys \X FactsOf
  <2>4. w \in Seq(E)
    BY <2>3 DEF NotedOf
  <2>5. \A j \in DOMAIN w : w[j] \in E
    <3> HIDE DEF E
    <3> QED BY <2>4
  <2>6. \A j \in DOMAIN w : w[j] \in KeptWhole
    BY <2>2, <2>3, <2>5 DEF KeptWhole
  <2>7. w \in Seq(KeptWhole)
    <3> HIDE DEF E
    <3>1. Len(w) \in Nat /\ DOMAIN w = 1..Len(w) /\ w = [j \in 1..Len(w) |-> w[j]]
      BY <2>4
    <3>2. w \in [1..Len(w) -> KeptWhole]
      BY <2>6, <3>1
    <3> QED BY <3>1, <3>2
  <2> QED BY <2>7 DEF w, page, text
<1>4. pieces \in Seq(Seq(KeptWhole))
  <2> DEFINE Q == Seq(KeptWhole)
  <2>1. pieces \in [DOMAIN wholes -> Q]
    BY <1>3
  <2>2. DOMAIN wholes = 1..Len(wholes) /\ Len(wholes) \in Nat
    BY <1>2
  <2> HIDE DEF Q, pieces
  <2>3. pieces \in Seq(Q)
    BY <2>1, <2>2
  <2> QED BY <2>3 DEF Q
<1> HIDE DEF pieces
<1>5. entries \in Seq(KeptWhole)
  BY <1>4, FlattenedIs
<1> HIDE DEF entries
<1>6. \A i \in DOMAIN entries : entries[i] \in KeptWhole
  BY <1>5
<1>7. \A x \in Range(keys) : <<x.page, x.text>> \in readWhole /\ x.quote \in x.text
  BY <1>6 DEF Range, KeptWhole
<1>8. \A x \in Range(keys) : x.text = latest[x.page]
  <2> SUFFICES ASSUME NEW x \in Range(keys) PROVE x.text = latest[x.page]
    OBVIOUS
  <2>1. <<x.page, x.text>> \in readWhole
    BY <1>7
  <2>2. \A r \in readWhole : r[2] = latest[r[1]]
    BY DEF NotesInv
  <2> QED BY <2>1, <2>2
<1>9. DOMAIN n.facts = DOMAIN h.facts \cup Range(keys) /\ n.retired = h.retired \ Range(keys)
  BY <1>1 DEF AddAll
<1> HIDE DEF keys, n
<1> SUFFICES ASSUME NEW k \in Quoted(n) \ n.retired, IsText(k), k.quote \notin latest[k.page], LastReadStands(k.page) PROVE FALSE
  BY DEF ComposedFromCurrent, n
<1>10. k \notin Range(keys)
  BY <1>7, <1>8
<1>11. k \in DOMAIN h.facts /\ k \notin h.retired /\ ~k.derived
  BY <1>9, <1>10 DEF Quoted
<1>12. WellKept(h) /\ GoneRetired(h, latest) /\ StandsIn(h, latest, k.page)
  BY StandsAlike DEF NotesInv
<1> HIDE DEF h
<1>13. k \in Expanded(h, {k}) \cap Quoted(h)
  BY <1>11, <1>12, SameCapture DEF Quoted
<1>14. VanishedOf(h, latest, k)
  BY <1>13 DEF VanishedOf
<1> QED BY <1>11, <1>12, <1>14 DEF GoneRetired

----------------------------------------------------------------------------
(* Notes cut to a room.                                                    *)

\* A limit that something meets is met by a largest number.
LEMMA LargestMeeting ==
  ASSUME NEW S \in SUBSET Nat, 0 \in S, NEW room \in Nat
  PROVE  \E c \in 0..room : c \in S /\ \A more \in (c + 1)..room : more \notin S
<1> DEFINE Has(r) == \E c \in 0..r : c \in S /\ \A more \in (c + 1)..r : more \notin S
           T == {r \in Nat : Has(r)}
<1>1. 0 \in T
  OBVIOUS
<1>2. ASSUME NEW r \in T PROVE r + 1 \in T
  <2>1. CASE r + 1 \in S
    BY <2>1
  <2>2. CASE r + 1 \notin S
    <3>1. PICK c \in 0..r : c \in S /\ \A more \in (c + 1)..r : more \notin S
      OBVIOUS
    <3>2. \A more \in (c + 1)..(r + 1) : more \notin S
      BY <2>2, <3>1
    <3> QED BY <3>1, <3>2
  <2> QED BY <2>1, <2>2
<1>3. T = Nat
  <2> HIDE DEF T
  <2>1. T \in SUBSET Nat
    BY DEF T
  <2> QED BY <1>1, <1>2, <2>1, NatsFromZero
<1> QED BY <1>3

LEMMA CutWhole ==
  ASSUME NEW n, WellKept(n), NEW room \in 0..Len(n.order)
  PROVE  LET required == Expanded(n, n.answering)
             shows == Rendered(n, room, TRUE) IN
         /\ \A k \in Range(shows.keys) : n.facts[k].basis \subseteq Range(shows.keys)
         /\ shows.ok <=> Cardinality(required) <= room
         /\ shows.ok => required \subseteq Range(shows.keys)
<1> DEFINE required == Expanded(n, n.answering)
           others == DOMAIN n.facts \ required
           D == DOMAIN n.facts
           first == Among(n.order, required)
           rest == Among(n.order, others)
           ordered == first \o rest
           keeps(count) == {ordered[i] : i \in 1..count}
           whole(count) == \A k \in keeps(count) : n.facts[k].basis \subseteq keeps(count)
           best == CHOOSE c \in 0..room : whole(c) /\ \A more \in (c + 1)..room : ~whole(more)
           fits == TRUE => required \subseteq keeps(best)
           cut == SubSeq(ordered, 1, best)
           shows == Rendered(n, room, TRUE)
           total == Len(n.order)
<1>1. n.order \in Seq(Keys) /\ IsInjective(n.order) /\ D = Range(n.order) /\ IsFiniteSet(D) /\ Cardinality(D) = total /\ total \in Nat
      /\ room \in Nat /\ room <= total /\ \A k \in D : n.facts[k].basis \subseteq D
  BY KeptTypes DEF WellKept
<1>2. required \subseteq D /\ Rests(n, required)
  <2>1. n.answering \in SUBSET DOMAIN n.facts
    BY DEF WellKept
  <2> QED BY <2>1, ExpandedIs
<1>3. IsFiniteSet(required) /\ Cardinality(required) \in Nat /\ Cardinality(required) <= total
  <2> HIDE DEF required, D
  <2> QED BY <1>1, <1>2, FS_Subset, FS_CardinalityType
<1>4. shows = IF total <= room THEN [ok |-> TRUE, keys |-> n.order] ELSE [ok |-> fits, keys |-> cut]
  BY DEF Rendered, ShownOf
<1>5. CASE total <= room
  <2>1. shows.ok = TRUE /\ shows.keys = n.order
    <3> HIDE DEF shows, fits, cut, total
    <3>1. shows = [ok |-> TRUE, keys |-> n.order]
      BY <1>4, <1>5
    <3> QED BY <3>1
  <2> HIDE DEF shows, required
  <2>2. Cardinality(required) <= room
    BY <1>1, <1>3, <1>5
  <2> QED BY <1>1, <1>2, <2>1, <2>2 DEF shows, required
<1>6. CASE ~(total <= room)
  <2> HIDE DEF required
  <2>1. first \in Seq(Keys) /\ Range(first) = required /\ IsInjective(first)
    <3>1. first \in Seq(Keys) /\ Range(first) = Range(n.order) \cap required /\ IsInjective(first)
      BY <1>1, AmongIs DEF IsInjective
    <3> QED BY <1>1, <1>2, <3>1
  <2>2. rest \in Seq(Keys) /\ Range(rest) = D \ required /\ IsInjective(rest)
    <3> HIDE DEF others
    <3>1. rest \in Seq(Keys) /\ Range(rest) = Range(n.order) \cap others /\ IsInjective(rest)
      BY <1>1, AmongIs DEF IsInjective
    <3> QED BY <1>1, <3>1 DEF others
  <2> HIDE DEF first, rest
  <2> DEFINE r == Len(first)
  <2>3. /\ ordered \in Seq(Keys) /\ Range(ordered) = D /\ IsInjective(ordered)
        /\ r \in Nat /\ DOMAIN first = 1..r /\ \A i \in 1..r : ordered[i] = first[i]
    <3>1. Range(first) \cap Range(rest) = {} /\ Range(first) \cup Range(rest) = D
      BY <1>2, <2>1, <2>2
    <3> HIDE DEF D
    <3>2. first \o rest \in Seq(Keys) /\ Range(first \o rest) = Range(first) \cup Range(rest) /\ IsInjective(first \o rest)
      BY <2>1, <2>2, <3>1, BothOnce
    <3>3. Len(first) \in Nat /\ DOMAIN first = 1..Len(first) /\ \A i \in 1..Len(first) : (first \o rest)[i] = first[i]
      BY <2>1, <2>2
    <3> QED BY <3>1, <3>2, <3>3
  <2> HIDE DEF ordered, r
  <2>4. Len(ordered) = total /\ DOMAIN ordered = 1..total
    BY <1>1, <2>3, ListedOnce
  <2>5. Cardinality(required) = r
    BY <2>1, ListedOnce DEF r
  <2>6. \A i \in 1..total : ordered[i] \in D
    BY <2>3, <2>4 DEF Range
  <2>7. whole(0)
    OBVIOUS
  <2> DEFINE S == {c \in Nat : whole(c)}
  <2>8. best \in 0..room /\ whole(best) /\ \A more \in (best + 1)..room : ~whole(more)
    <3> HIDE DEF whole
    <3>1. 0 \in S /\ S \in SUBSET Nat
      BY <2>7
    <3>2. \E c \in 0..room : c \in S /\ \A more \in (c + 1)..room : more \notin S
      <4> HIDE DEF S
      <4> QED BY <1>1, <3>1, LargestMeeting
    <3>3. \E c \in 0..room : whole(c) /\ \A more \in (c + 1)..room : ~whole(more)
      <4>1. PICK c \in 0..room : c \in S /\ \A more \in (c + 1)..room : more \notin S
        BY <3>2
      <4>2. \A more \in (c + 1)..room : more \in Nat
        BY <1>1
      <4>3. whole(c) /\ \A more \in (c + 1)..room : ~whole(more)
        BY <4>1, <4>2
      <4> QED BY <4>3
    <3> QED BY <3>3
  <2> HIDE DEF best
  <2>9. best \in Nat /\ best <= room /\ best < total
    BY <1>1, <1>6, <2>8
  <2>10. cut \in Seq(Keys) /\ Len(cut) = best /\ DOMAIN cut = 1..best /\ \A i \in 1..best : cut[i] = ordered[i]
    BY <1>1, <2>3, <2>4, <2>9
  <2> HIDE DEF cut
  <2>11. Range(cut) = keeps(best)
    BY <2>10 DEF Range
  <2>12. IsInjective(cut)
    BY <1>1, <2>3, <2>4, <2>9, <2>10 DEF IsInjective
  <2>13. IsFiniteSet(keeps(best)) /\ Cardinality(keeps(best)) = best
    <3> HIDE DEF keeps
    <3> QED BY <2>10, <2>11, <2>12, ListedOnce
  <2>14. required \subseteq keeps(best) => Cardinality(required) <= room
    <3> HIDE DEF keeps
    <3> QED BY <1>1, <1>3, <2>9, <2>13, FS_Subset
  <2>15. Cardinality(required) <= room => required \subseteq keeps(best)
    <3> SUFFICES ASSUME r <= room PROVE required \subseteq keeps(best)
      BY <2>5
    <3>1. keeps(r) = required
      BY <2>1, <2>3 DEF Range
    <3>2. whole(r)
      BY <1>2, <3>1 DEF Rests
    <3>3. r <= best
      <4> HIDE DEF whole
      <4> SUFFICES ASSUME ~(r <= best) PROVE FALSE
        OBVIOUS
      <4>1. r \in (best + 1)..room
        BY <1>1, <2>3, <2>9
      <4> QED BY <2>8, <3>2, <4>1
    <3>4. keeps(r) \subseteq keeps(best)
      BY <2>3, <2>9, <3>3
    <3> QED BY <3>1, <3>4
  <2>16. fits <=> Cardinality(required) <= room
    BY <2>14, <2>15
  <2>17. fits <=> required \subseteq Range(cut)
    BY <2>11
  <2> HIDE DEF fits
  <2>18. shows.ok = fits /\ shows.keys = cut
    <3> HIDE DEF shows, total
    <3>1. shows = [ok |-> fits, keys |-> cut]
      BY <1>4, <1>6
    <3> QED BY <3>1
  <2> HIDE DEF shows
  <2>19. (shows.ok <=> fits)
    BY <2>18, Zenon
  <2>20. \A k \in Range(cut) : n.facts[k].basis \subseteq Range(cut)
    BY <2>8, <2>11
  <2> HIDE DEF keeps, whole
  <2>21. \A k \in Range(shows.keys) : n.facts[k].basis \subseteq Range(shows.keys)
    BY <2>18, <2>20
  <2>22. shows.ok <=> Cardinality(required) <= room
    BY <2>16, <2>19, Zenon
  <2>23. shows.ok => required \subseteq Range(shows.keys)
    BY <2>17, <2>18, <2>19, Zenon
  <2> QED BY <2>21, <2>22, <2>23 DEF shows, required
<1> QED BY <1>5, <1>6

LEMMA CutsRestWell == NotesInv => RenderedWhole
<1> SUFFICES ASSUME NotesInv PROVE RenderedWhole
  OBVIOUS
<1> DEFINE draft == {claim.cites : claim \in DraftClaims}
           h == Held
<1>1. draft = answering
  <2>1. \A k \in answering : [value |-> ValueOf[k.quote], cites |-> k] \in DraftClaims
    BY DEF DraftClaims
  <2>2. \A claim \in DraftClaims : claim.cites \in answering
    BY DEF DraftClaims
  <2>3. \A k \in answering : \E claim \in DraftClaims : claim.cites = k
    BY <2>1
  <2> QED BY <2>2, <2>3
<1> HIDE DEF draft
<1>2. WellKept(h) /\ h.order = order /\ h.facts = facts /\ h.answering = answering
  BY HeldParts DEF NotesInv
<1> SUFFICES ASSUME NEW room \in 0..Len(order)
             PROVE  LET shows == Rendered(Held, room, TRUE) IN
                    /\ \A k \in Range(shows.keys) : facts[k].basis \subseteq Range(shows.keys)
                    /\ shows.ok <=> Cardinality(Expanded(Held, draft)) <= room
                    /\ shows.ok => Expanded(Held, draft) \subseteq Range(shows.keys)
  BY Zenon DEF RenderedWhole, draft
<1> DEFINE s == Rendered(h, room, TRUE)
           e == Expanded(h, h.answering)
<1>3. room \in 0..Len(h.order)
  BY <1>2
<1>4. /\ \A k \in Range(s.keys) : h.facts[k].basis \subseteq Range(s.keys)
      /\ s.ok <=> Cardinality(e) <= room
      /\ s.ok => e \subseteq Range(s.keys)
  <2> HIDE DEF h
  <2> QED BY <1>2, <1>3, CutWhole, Zenon
<1>5. e = Expanded(Held, draft)
  BY <1>1, <1>2
<1> HIDE DEF s, e, h
<1>6. \A k \in Range(s.keys) : facts[k].basis \subseteq Range(s.keys)
  BY <1>2, <1>4
<1>7. s = Rendered(Held, room, TRUE)
  BY DEF s, h
<1> QED BY <1>4, <1>5, <1>6, <1>7, Zenon

\* Whatever pages a run reads and in whatever order, no answer stands, and nothing
\* is offered for composing, on a quote its page no longer showed when it was last
\* read; and in any room, what is shown of the notes rests on nothing left out
\* (memory.rs `supersede`, `render`, agent/reading.rs).
THEOREM NotesAreKept == NotesSpec => []NotesKept
<1>1. NotesInit => NotesInv
  BY NotesInitOK
<1>2. NotesInv /\ [NotesNext]_noteVars => NotesInv'
  BY NotesStepOK
<1>3. NotesInv => NotesKept
  BY NotesTyped, AnswersShown, ComposedShown, CutsRestWell DEF NotesKept
<1> QED BY <1>1, <1>2, <1>3, PTL DEF NotesSpec

----------------------------------------------------------------------------
(* Sums over a list.                                                       *)

SumsOf(s, sum) ==
  sum \in [0..Len(s) -> Nat] /\ sum[0] = 0 /\ (\A k \in 1..Len(s) : sum[k] = sum[k - 1] + s[k]) /\ AddedUp(s) = sum[Len(s)]
LEMMA AddedUpSteps ==
  ASSUME NEW s \in Seq(Nat)
  PROVE  \E sum : SumsOf(s, sum)
<1> DEFINE n == Len(s)
           go == [p \in (1..n) \X Nat |-> p[2] + s[p[1]]]
           Body(f) == [k \in 0..n |-> IF k = 0 THEN 0 ELSE f[k - 1] + s[k]]
<1>0. n \in Nat /\ \A k \in 1..n : s[k] \in Nat
  OBVIOUS
<1>1. go \in [(1..n) \X Nat -> Nat]
  BY <1>0
<1>2. \E f : StepsOf(n, Nat, 0, go, f)
  <2> HIDE DEF go, n
  <2>1. 0 \in Nat
    OBVIOUS
  <2> QED BY <1>0, <1>1, <2>1, StepwiseFrom, Zenon
<1>3. PICK f \in [0..n -> Nat] : f[0] = 0 /\ \A k \in 1..n : f[k] = go[<<k, f[k - 1]>>]
  BY <1>2, Zenon DEF StepsOf
<1>4. \A k \in 1..n : f[k] = f[k - 1] + s[k]
  <2> SUFFICES ASSUME NEW k \in 1..n PROVE f[k] = f[k - 1] + s[k]
    OBVIOUS
  <2>1. k - 1 \in 0..n /\ f[k - 1] \in Nat
    BY <1>0, <1>3
  <2>2. f[k] = go[<<k, f[k - 1]>>] /\ <<k, f[k - 1]>> \in (1..n) \X Nat
    BY <1>3, <2>1
  <2> HIDE DEF n
  <2> QED BY <2>2
<1>5. f = Body(f)
  <2>1. \A k \in 0..n : f[k] = Body(f)[k]
    <3> SUFFICES ASSUME NEW k \in 0..n PROVE f[k] = Body(f)[k]
      OBVIOUS
    <3>1. CASE k = 0
      BY <1>3, <3>1
    <3>2. CASE k # 0
      <4>1. k \in 1..n
        BY <1>0, <3>2
      <4> QED BY <1>4, <3>2, <4>1
    <3> QED BY <3>1, <3>2
  <2> QED BY <1>3, <2>1
<1> DEFINE g == CHOOSE h : h = Body(h)
<1>6. g = Body(g)
  <2> HIDE DEF Body
  <2> QED BY <1>5
<1>7. AddedUp(s) = g[n]
  BY DEF AddedUp
<1> HIDE DEF g
<1>8. g[0] = 0 /\ \A k \in 1..n : g[k] = g[k - 1] + s[k]
  <2>1. \A k \in 0..n : g[k] = Body(g)[k]
    <3> HIDE DEF Body
    <3> QED BY <1>6
  <2>2. 0 \in 0..n /\ \A k \in 1..n : k \in 0..n /\ k # 0
    BY <1>0
  <2> HIDE DEF n
  <2> QED BY <2>1, <2>2
<1> DEFINE T == {k \in Nat : k <= n => g[k] \in Nat}
<1>9. 0 \in T
  BY <1>8
<1>10. ASSUME NEW k \in T PROVE k + 1 \in T
  <2> SUFFICES ASSUME k + 1 <= n PROVE g[k + 1] \in Nat
    BY <1>10
  <2>1. k + 1 \in 1..n /\ (k + 1) - 1 = k /\ g[k] \in Nat
    BY <1>0, <1>10
  <2> HIDE DEF n
  <2>2. g[k + 1] = g[k] + s[k + 1] /\ s[k + 1] \in Nat
    BY <1>0, <1>8, <2>1
  <2> QED BY <2>1, <2>2
<1>11. T = Nat
  <2> HIDE DEF T
  <2>1. T \in SUBSET Nat
    BY DEF T
  <2> QED BY <1>9, <1>10, <2>1, NatsFromZero
<1>12. \A k \in 0..n : g[k] \in Nat
  BY <1>0, <1>11
<1>13. g = [k \in 0..n |-> g[k]]
  <2> DEFINE B(k) == IF k = 0 THEN 0 ELSE g[k - 1] + s[k]
  <2>1. g = [k \in 0..n |-> B(k)]
    BY <1>6
  <2> HIDE DEF B
  <2> QED BY <2>1
<1>14. g \in [0..n -> Nat]
  BY <1>12, <1>13
<1>15. SumsOf(s, g)
  BY <1>7, <1>8, <1>14 DEF SumsOf
<1> QED BY <1>15

LEMMA AddedUpNone == AddedUp(<<>>) = 0
<1>1. <<>> \in Seq(Nat) /\ Len(<<>>) = 0
  OBVIOUS
<1>2. PICK sum : SumsOf(<<>>, sum)
  BY <1>1, AddedUpSteps, Zenon
<1> QED BY <1>1, <1>2 DEF SumsOf

LEMMA AddedUpAppend ==
  ASSUME NEW s \in Seq(Nat), NEW x \in Nat
  PROVE  AddedUp(s) \in Nat /\ AddedUp(Append(s, x)) = AddedUp(s) + x
<1> DEFINE t == Append(s, x)
           n == Len(s)
<1>1. t \in Seq(Nat) /\ Len(t) = n + 1 /\ t[n + 1] = x /\ n \in Nat /\ \A k \in 1..n : t[k] = s[k]
  OBVIOUS
<1>2. PICK f : SumsOf(s, f)
  BY AddedUpSteps
<1>3. PICK g : SumsOf(t, g)
  BY <1>1, AddedUpSteps
<1>4. f \in [0..n -> Nat] /\ f[0] = 0 /\ (\A k \in 1..n : f[k] = f[k - 1] + s[k]) /\ AddedUp(s) = f[n]
  BY <1>2 DEF SumsOf
<1>5. g[0] = 0 /\ (\A k \in 1..(n + 1) : g[k] = g[k - 1] + t[k]) /\ AddedUp(t) = g[n + 1]
  BY <1>1, <1>3 DEF SumsOf
<1> HIDE DEF t, n
<1> DEFINE T == {k \in Nat : k <= n => f[k] = g[k]}
<1>6. 0 \in T
  BY <1>4, <1>5
<1>7. ASSUME NEW k \in T PROVE k + 1 \in T
  <2> SUFFICES ASSUME k + 1 <= n PROVE f[k + 1] = g[k + 1]
    BY <1>7
  <2>1. k + 1 \in 1..n /\ k + 1 \in 1..(n + 1) /\ (k + 1) - 1 = k /\ f[k] = g[k]
    BY <1>1, <1>7
  <2> QED BY <1>1, <1>4, <1>5, <2>1
<1>8. T = Nat
  <2> HIDE DEF T
  <2>1. T \in SUBSET Nat
    BY DEF T
  <2> QED BY <1>6, <1>7, <2>1, NatsFromZero
<1>9. f[n] = g[n] /\ f[n] \in Nat
  BY <1>1, <1>4, <1>8
<1>10. n + 1 \in 1..(n + 1) /\ (n + 1) - 1 = n
  BY <1>1
<1>11. g[n + 1] = g[n] + x
  BY <1>1, <1>5, <1>10
<1> QED BY <1>4, <1>5, <1>9, <1>11 DEF t

\* What all but the last come to, when they are the same.
LEMMA AddedUpEven ==
  ASSUME NEW s \in Seq(Nat), NEW v \in Nat, Len(s) >= 1, \A k \in 1..(Len(s) - 1) : s[k] = v
  PROVE  AddedUp(s) = (Len(s) - 1) * v + s[Len(s)]
<1> DEFINE n == Len(s)
<1>0. n \in Nat /\ n >= 1 /\ s[n] \in Nat
  OBVIOUS
<1>1. PICK f : SumsOf(s, f)
  BY AddedUpSteps
<1>2. f \in [0..n -> Nat] /\ f[0] = 0 /\ (\A k \in 1..n : f[k] = f[k - 1] + s[k]) /\ AddedUp(s) = f[n]
  BY <1>1 DEF SumsOf
<1>3. \A k \in 1..(n - 1) : s[k] = v
  OBVIOUS
<1> HIDE DEF n
<1> DEFINE T == {k \in Nat : k <= n - 1 => f[k] = k * v}
<1>4. 0 \in T
  <2>1. 0 * v = 0
    OBVIOUS
  <2> QED BY <1>2, <2>1
<1>5. ASSUME NEW k \in T PROVE k + 1 \in T
  <2> SUFFICES ASSUME k + 1 <= n - 1 PROVE f[k + 1] = (k + 1) * v
    BY <1>5
  <2>1. k + 1 \in 1..n /\ k + 1 \in 1..(n - 1) /\ (k + 1) - 1 = k /\ f[k] = k * v /\ k \in Nat
    BY <1>0, <1>5
  <2>2. f[k + 1] = k * v + v
    BY <1>2, <1>3, <2>1
  <2>3. (k + 1) * v = k * v + v
    BY <2>1
  <2> QED BY <2>2, <2>3
<1>6. T = Nat
  <2> HIDE DEF T
  <2>1. T \in SUBSET Nat
    BY DEF T
  <2> QED BY <1>4, <1>5, <2>1, NatsFromZero
<1>7. n - 1 \in Nat /\ n \in 1..n
  BY <1>0
<1>8. f[n - 1] = (n - 1) * v
  BY <1>6, <1>7
<1> QED BY <1>2, <1>7, <1>8 DEF n

\* One that is not zero.
LEMMA AddedUpOne ==
  ASSUME NEW s \in Seq(Nat), NEW c \in 1..Len(s), \A k \in 1..Len(s) : k # c => s[k] = 0
  PROVE  AddedUp(s) = s[c]
<1> DEFINE n == Len(s)
<1>0. n \in Nat /\ c \in 1..n /\ s[c] \in Nat /\ \A k \in 1..n : k # c => s[k] = 0
  OBVIOUS
<1>1. PICK f : SumsOf(s, f)
  BY AddedUpSteps
<1>2. f \in [0..n -> Nat] /\ f[0] = 0 /\ (\A k \in 1..n : f[k] = f[k - 1] + s[k]) /\ AddedUp(s) = f[n]
  BY <1>1 DEF SumsOf
<1> HIDE DEF n
<1> DEFINE T == {k \in Nat : k <= n => f[k] = IF k < c THEN 0 ELSE s[c]}
<1>3. 0 \in T
  BY <1>0, <1>2
<1>4. ASSUME NEW k \in T PROVE k + 1 \in T
  <2> SUFFICES ASSUME k + 1 <= n PROVE f[k + 1] = IF k + 1 < c THEN 0 ELSE s[c]
    BY <1>4
  <2>1. k + 1 \in 1..n /\ (k + 1) - 1 = k /\ f[k] = (IF k < c THEN 0 ELSE s[c]) /\ k \in Nat
    BY <1>0, <1>4
  <2>2. f[k + 1] = f[k] + s[k + 1]
    BY <1>2, <2>1
  <2>3. CASE k + 1 = c
    BY <1>0, <2>1, <2>2, <2>3
  <2>4. CASE k + 1 # c
    <3>1. s[k + 1] = 0
      BY <1>0, <2>1, <2>4
    <3> QED BY <1>0, <2>1, <2>2, <2>4, <3>1
  <2> QED BY <2>3, <2>4
<1>5. T = Nat
  <2> HIDE DEF T
  <2>1. T \in SUBSET Nat
    BY DEF T
  <2> QED BY <1>3, <1>4, <2>1, NatsFromZero
<1>6. f[n] = s[c]
  BY <1>0, <1>5
<1> QED BY <1>2, <1>6

\* What the lines of a list weigh, for a weight of each.
Weighed(s, w) == AddedUp([i \in DOMAIN s |-> w[s[i]]])

LEMMA WeighedAppend ==
  ASSUME NEW L, NEW w \in [L -> Nat], NEW s \in Seq(L), NEW x \in L
  PROVE  Weighed(s, w) \in Nat /\ Weighed(Append(s, x), w) = Weighed(s, w) + w[x]
<1> DEFINE ws == [i \in DOMAIN s |-> w[s[i]]]
           t == Append(s, x)
           wt == [i \in DOMAIN t |-> w[t[i]]]
           n == Len(s)
<1>1. n \in Nat /\ DOMAIN s = 1..n /\ \A i \in 1..n : s[i] \in L
  OBVIOUS
<1>2. t \in Seq(L) /\ DOMAIN t = 1..(n + 1) /\ t[n + 1] = x /\ \A i \in 1..n : t[i] = s[i]
  OBVIOUS
<1> HIDE DEF t, n
<1>3. ws \in Seq(Nat) /\ Len(ws) = n /\ \A i \in 1..n : ws[i] = w[s[i]]
  BY <1>1
<1>4. DOMAIN wt = 1..(n + 1) /\ \A i \in 1..(n + 1) : wt[i] = IF i <= n THEN ws[i] ELSE w[x]
  <2> SUFFICES ASSUME NEW i \in 1..(n + 1) PROVE wt[i] = IF i <= n THEN ws[i] ELSE w[x]
    BY <1>2
  <2>1. wt[i] = w[t[i]]
    BY <1>2
  <2> HIDE DEF wt, ws
  <2>2. CASE i <= n
    <3>1. i \in 1..n
      BY <1>1, <2>2
    <3> QED BY <1>2, <1>3, <2>1, <2>2, <3>1
  <2>3. CASE ~(i <= n)
    <3>1. i = n + 1
      BY <1>1, <2>3
    <3> QED BY <1>2, <2>1, <2>3, <3>1
  <2> QED BY <2>2, <2>3
<1>5. wt = [i \in 1..(n + 1) |-> wt[i]]
  BY <1>2
<1> HIDE DEF ws, wt
<1>6. Append(ws, w[x]) = [i \in 1..(n + 1) |-> IF i <= n THEN ws[i] ELSE w[x]]
  BY <1>1, <1>3
<1>7. wt = Append(ws, w[x])
  BY <1>4, <1>5, <1>6
<1>8. AddedUp(ws) \in Nat /\ AddedUp(Append(ws, w[x])) = AddedUp(ws) + w[x]
  BY <1>3, AddedUpAppend
<1> QED BY <1>7, <1>8 DEF Weighed, ws, wt, t

LEMMA WeighedNone == \A w : Weighed(<<>>, w) = 0
<1> SUFFICES ASSUME NEW w PROVE Weighed(<<>>, w) = 0
  OBVIOUS
<1>1. [i \in DOMAIN << >> |-> w[<< >>[i]]] = << >>
  OBVIOUS
<1> QED BY <1>1, AddedUpNone DEF Weighed

LEMMA AppendToBoth ==
  ASSUME NEW L, NEW a \in Seq(L), NEW p \in Seq(L), NEW x \in L
  PROVE  a \o Append(p, x) = Append(a \o p, x) /\ a \o p \in Seq(L)
<1> DEFINE u == a \o Append(p, x)
           v == Append(a \o p, x)
           n == Len(a) + Len(p) + 1
<1>1. a \o p \in Seq(L) /\ Append(p, x) \in Seq(L) /\ n \in Nat
  OBVIOUS
<1>2. u \in Seq(L) /\ v \in Seq(L) /\ Len(u) = n /\ Len(v) = n
  BY <1>1
<1>3. ASSUME NEW i \in 1..n PROVE u[i] = v[i]
  <2>1. CASE i <= Len(a)
    BY <1>1, <2>1
  <2>2. CASE i > Len(a) /\ i <= Len(a) + Len(p)
    BY <1>1, <2>2
  <2>3. CASE i = Len(a) + Len(p) + 1
    BY <1>1, <2>3
  <2> QED BY <1>1, <2>1, <2>2, <2>3
<1> HIDE DEF u, v, n
<1>4. u = [i \in 1..n |-> u[i]] /\ v = [i \in 1..n |-> v[i]]
  BY <1>2
<1>5. u = v
  BY <1>3, <1>4
<1> QED BY <1>1, <1>5 DEF u, v

LEMMA WeighedBoth ==
  ASSUME NEW L, NEW w \in [L -> Nat], NEW a \in Seq(L), NEW b \in Seq(L)
  PROVE  Weighed(a, w) \in Nat /\ Weighed(b, w) \in Nat /\ Weighed(a \o b, w) = Weighed(a, w) + Weighed(b, w)
<1> DEFINE n == Len(b)
           P(k) == SubSeq(b, 1, k)
           Ok(k) == /\ Weighed(a, w) \in Nat /\ Weighed(P(k), w) \in Nat /\ Weighed(a \o P(k), w) = Weighed(a, w) + Weighed(P(k), w)
           T == {k \in Nat : k <= n => Ok(k)}
<1>0. n \in Nat /\ P(n) = b
  OBVIOUS
<1>1. 0 \in T
  <2>1. P(0) = <<>> /\ a \o P(0) = a
    OBVIOUS
  <2>2. Weighed(a, w) \in Nat
    <3>1. CASE a = <<>>
      BY <3>1, WeighedNone
    <3>2. CASE a # <<>>
      <4> DEFINE f == SubSeq(a, 1, Len(a) - 1)
                 l == a[Len(a)]
      <4>1. f \in Seq(L) /\ l \in L /\ a = Append(f, l)
        BY <3>2
      <4> HIDE DEF f, l
      <4> QED BY <4>1, WeighedAppend
    <3> QED BY <3>1, <3>2
  <2>3. Weighed(P(0), w) = 0
    BY <2>1, WeighedNone, Zenon
  <2>4. Weighed(a \o P(0), w) = Weighed(a, w)
    BY <2>1, Zenon
  <2> HIDE DEF P
  <2>5. Ok(0)
    BY <2>2, <2>3, <2>4
  <2> HIDE DEF Ok
  <2> QED BY <2>5
<1>2. ASSUME NEW k \in T PROVE k + 1 \in T
  <2> SUFFICES ASSUME k + 1 <= n PROVE Ok(k + 1)
    BY <1>2
  <2>1. k \in Nat /\ Ok(k) /\ k < n
    <3> HIDE DEF Ok
    <3> QED BY <1>0, <1>2
  <2>2. P(k) \in Seq(L) /\ b[k + 1] \in L /\ P(k + 1) = Append(P(k), b[k + 1])
    BY <2>1
  <2> DEFINE p == P(k)
             x == b[k + 1]
  <2>3. p \in Seq(L) /\ x \in L /\ P(k + 1) = Append(p, x)
    BY <2>2
  <2> HIDE DEF P, p, x
  <2>4. a \o Append(p, x) = Append(a \o p, x) /\ a \o p \in Seq(L)
    BY <2>3, AppendToBoth
  <2>5. Weighed(Append(p, x), w) = Weighed(p, w) + w[x] /\ Weighed(Append(a \o p, x), w) = Weighed(a \o p, w) + w[x] /\ w[x] \in Nat
    BY <2>3, <2>4, WeighedAppend
  <2>6. Weighed(a \o P(k + 1), w) = Weighed(a \o p, w) + w[x] /\ Weighed(P(k + 1), w) = Weighed(p, w) + w[x]
    BY <2>3, <2>4, <2>5, Zenon
  <2>7. Weighed(a, w) \in Nat /\ Weighed(p, w) \in Nat /\ Weighed(a \o p, w) = Weighed(a, w) + Weighed(p, w)
    BY <2>1 DEF p
  <2> QED BY <2>5, <2>6, <2>7
<1>3. T = Nat
  <2> HIDE DEF T
  <2>1. T \in SUBSET Nat
    BY DEF T
  <2> QED BY <1>1, <1>2, <2>1, NatsFromZero
<1>4. Ok(n)
  <2> HIDE DEF Ok
  <2>1. n \in T
    BY <1>0, <1>3
  <2> QED BY <1>0, <2>1
<1> QED BY <1>0, <1>4

\* Lists joined, and one more.
LEMMA JoinedNone == Joined(<<>>) = <<>>
<1>1. Len(<<>>) \in Nat /\ Len(<<>>) = 0
  OBVIOUS
<1>2. PICK all : all[0] = <<>> /\ Joined(<<>>) = all[Len(<<>>)]
  BY <1>1, JoinedSteps
<1> QED BY <1>1, <1>2

LEMMA JoinedAppend ==
  ASSUME NEW L, NEW seqs \in Seq(Seq(L)), NEW last \in Seq(L)
  PROVE  Joined(Append(seqs, last)) = Joined(seqs) \o last
<1> DEFINE t == Append(seqs, last)
           n == Len(seqs)
<1>1. t \in Seq(Seq(L)) /\ Len(t) = n + 1 /\ t[n + 1] = last /\ n \in Nat /\ \A k \in 1..n : t[k] = seqs[k]
  OBVIOUS
<1>2. PICK f : /\ f[0] = <<>> /\ Joined(seqs) = f[n] /\ \A k \in 1..n : f[k] = f[k - 1] \o seqs[k]
  BY <1>1, JoinedSteps
<1>3. Len(t) \in Nat
  BY <1>1
<1>4. PICK g : /\ g[0] = <<>> /\ Joined(t) = g[Len(t)] /\ \A k \in 1..Len(t) : g[k] = g[k - 1] \o t[k]
  BY <1>3, JoinedSteps
<1> HIDE DEF t, n
<1> DEFINE T == {k \in Nat : k <= n => f[k] = g[k]}
<1>5. 0 \in T
  BY <1>2, <1>4
<1>6. ASSUME NEW k \in T PROVE k + 1 \in T
  <2> SUFFICES ASSUME k + 1 <= n PROVE f[k + 1] = g[k + 1]
    BY <1>6
  <2>1. k + 1 \in 1..n /\ k + 1 \in 1..Len(t) /\ (k + 1) - 1 = k /\ f[k] = g[k]
    BY <1>1, <1>6
  <2>2. f[k + 1] = f[k] \o seqs[k + 1] /\ g[k + 1] = g[k] \o t[k + 1] /\ t[k + 1] = seqs[k + 1]
    BY <1>1, <1>2, <1>4, <2>1
  <2> QED BY <2>1, <2>2
<1>7. T = Nat
  <2> HIDE DEF T
  <2>1. T \in SUBSET Nat
    BY DEF T
  <2> QED BY <1>5, <1>6, <2>1, NatsFromZero
<1>8. f[n] = g[n]
  BY <1>1, <1>7
<1>9. n + 1 \in 1..Len(t) /\ (n + 1) - 1 = n
  BY <1>1
<1>10. g[n + 1] = g[n] \o last
  BY <1>1, <1>4, <1>9
<1> QED BY <1>1, <1>2, <1>4, <1>8, <1>10 DEF t

----------------------------------------------------------------------------
(* Packing.                                                                *)

\* Lines of a request, with these lengths of what goes around them, and what one
\* weighs: its bytes, or what it carries of a source.
Lines(A) == [size : Nat, around : A, cites : SUBSET Nat]
Bytes(A) == [l \in Lines(A) |-> l.size + l.around]
Carries(A, c) == [l \in Lines(A) |-> IF c \in l.cites THEN l.size ELSE 0]

LEMMA WeightTypes ==
  ASSUME NEW A \in SUBSET Nat
  PROVE  Bytes(A) \in [Lines(A) -> Nat] /\ \A c : Carries(A, c) \in [Lines(A) -> Nat]
<1>1. \A l \in Lines(A) : l.size \in Nat /\ l.around \in Nat
  BY DEF Lines
<1>2. Bytes(A) \in [Lines(A) -> Nat]
  BY <1>1 DEF Bytes
<1>3. ASSUME NEW c PROVE Carries(A, c) \in [Lines(A) -> Nat]
  BY <1>1 DEF Carries
<1> QED BY <1>2, <1>3

\* How many pieces, and how long the last of them is.
LEMMA PieceCount ==
  ASSUME NEW size \in Nat, NEW fits \in Nat \ {0}
  PROVE  LET count == IF size = 0 THEN 1 ELSE (size + fits - 1) \div fits IN
         count \in Nat /\ count >= 1 /\ size - (count - 1) * fits \in Nat /\ size - (count - 1) * fits <= fits
<1>1. CASE size = 0
  <2>1. (1 - 1) * fits = 0
    OBVIOUS
  <2> QED BY <1>1, <2>1
<1>2. CASE size # 0
  <2> DEFINE a == size + fits - 1
             q == a \div fits
  <2>1. a \in Nat /\ a >= fits
    BY <1>2
  <2> HIDE DEF a
  <2>2. q \in Nat /\ fits * q <= a /\ a < fits * q + fits
    BY <2>1, Divided
  <2> HIDE DEF q
  <2>3. q # 0
    <3> SUFFICES ASSUME q = 0 PROVE FALSE
      OBVIOUS
    <3>1. fits * 0 = 0
      OBVIOUS
    <3> QED BY <2>1, <2>2, <3>1
  <2>4. (q - 1) * fits = fits * q - fits /\ fits * q \in Nat
    BY <2>2
  <2> DEFINE m == fits * q
  <2>5. m \in Nat /\ m <= a /\ a < m + fits /\ (q - 1) * fits = m - fits
    BY <2>2, <2>4
  <2> HIDE DEF m
  <2>6. size - (m - fits) \in Nat /\ size - (m - fits) <= fits
    BY <1>2, <2>5 DEF a
  <2>7. (IF size = 0 THEN 1 ELSE (size + fits - 1) \div fits) = q
    BY <1>2 DEF q, a
  <2> QED BY <2>2, <2>3, <2>5, <2>6, <2>7
<1> QED BY <1>1, <1>2

LEMMA PiecesIs ==
  ASSUME NEW A \in SUBSET {0, Envelope}, NEW item \in Lines(A)
  PROVE  /\ Pieces(item) \in Seq(Lines(A)) /\ \A i \in DOMAIN Pieces(item) : Bytes(A)[Pieces(item)[i]] <= Room
         /\ \A c : Weighed(Pieces(item), Carries(A, c)) = Carries(A, c)[item]
<1> DEFINE fits == Room - item.around
           size == item.size
           count == IF size = 0 THEN 1 ELSE (size + fits - 1) \div fits
           rest == size - (count - 1) * fits
           w == Pieces(item)
           Long(i) == IF i < count THEN fits ELSE rest
<1>1. size \in Nat /\ item.around \in A /\ item.around \in Nat /\ item.cites \in SUBSET Nat /\ fits \in Nat \ {0}
  <2>1. item.size \in Nat /\ item.around \in A /\ item.cites \in SUBSET Nat
    BY DEF Lines
  <2>2. item.around = 0 \/ item.around = Envelope
    BY <2>1
  <2> QED BY <2>1, <2>2, RoomAssumption
<1>2. w = [i \in 1..count |-> [item EXCEPT !.size = IF i < count THEN fits ELSE @ - (count - 1) * fits]]
  BY DEF Pieces
<1> HIDE DEF fits, size
<1>3. count \in Nat /\ count >= 1 /\ rest \in Nat /\ rest <= fits
  BY <1>1, PieceCount
<1> HIDE DEF w
<1>4. \A i \in 1..count : w[i] = [item EXCEPT !.size = Long(i)]
  <2>1. \A i \in 1..count : w[i] = [item EXCEPT !.size = IF i < count THEN fits ELSE @ - (count - 1) * fits]
    <3> HIDE DEF count
    <3> QED BY <1>2
  <2> HIDE DEF count
  <2> QED BY <2>1 DEF size
<1> HIDE DEF count, rest
<1>5. \A i \in 1..count : Long(i) \in Nat /\ Long(i) <= fits
  BY <1>1, <1>3
<1> HIDE DEF Long
<1>6. ASSUME NEW i \in 1..count
      PROVE  w[i] \in Lines(A) /\ w[i].size = Long(i) /\ w[i].around = item.around /\ w[i].cites = item.cites
  <2> DEFINE x == Long(i)
  <2>1. x \in Nat /\ w[i] = [item EXCEPT !.size = x]
    BY <1>4, <1>5
  <2> HIDE DEF x
  <2>2. w[i] = [size |-> x, around |-> item.around, cites |-> item.cites]
    BY <2>1 DEF Lines
  <2> QED BY <1>1, <2>1, <2>2 DEF Lines, x
<1>7. w \in [1..count -> Lines(A)]
  <2>1. w = [i \in 1..count |-> w[i]]
    BY <1>2
  <2> QED BY <1>6, <2>1
<1>8. w \in Seq(Lines(A)) /\ DOMAIN w = 1..count
  <2> DEFINE L == Lines(A)
  <2> HIDE DEF L
  <2>1. w \in [1..count -> L]
    BY <1>7 DEF L
  <2>2. w \in Seq(L) /\ DOMAIN w = 1..count
    BY <1>3, <2>1
  <2> QED BY <2>2 DEF L
<1>9. \A i \in DOMAIN w : Bytes(A)[w[i]] <= Room
  <2> SUFFICES ASSUME NEW i \in 1..count PROVE Bytes(A)[w[i]] <= Room
    BY <1>8
  <2>1. Bytes(A)[w[i]] = w[i].size + w[i].around
    BY <1>6 DEF Bytes
  <2>2. Bytes(A)[w[i]] = Long(i) + item.around
    BY <1>6, <2>1
  <2> QED BY <1>1, <1>5, <2>2, RoomAssumption DEF fits
<1>10. ASSUME NEW c PROVE Weighed(w, Carries(A, c)) = Carries(A, c)[item]
  <2> DEFINE ws == [i \in DOMAIN w |-> Carries(A, c)[w[i]]]
             v == IF c \in item.cites THEN fits ELSE 0
             Part(i) == IF c \in item.cites THEN Long(i) ELSE 0
  <2>1. \A i \in 1..count : ws[i] = Part(i)
    <3> SUFFICES ASSUME NEW i \in 1..count PROVE ws[i] = Part(i)
      OBVIOUS
    <3>1. ws[i] = Carries(A, c)[w[i]]
      BY <1>8
    <3>2. Carries(A, c)[w[i]] = IF c \in w[i].cites THEN w[i].size ELSE 0
      BY <1>6 DEF Carries
    <3> HIDE DEF ws
    <3> QED BY <1>6, <3>1, <3>2
  <2>2. \A i \in 1..count : Part(i) \in Nat
    BY <1>5
  <2>3. ws = [i \in 1..count |-> ws[i]]
    BY <1>8
  <2> HIDE DEF ws
  <2>4. ws \in Seq(Nat) /\ Len(ws) = count
    <3>1. ws \in [1..count -> Nat]
      BY <2>1, <2>2, <2>3
    <3> QED BY <1>3, <3>1
  <2>5. \A k \in 1..(Len(ws) - 1) : ws[k] = v
    <3> SUFFICES ASSUME NEW k \in 1..(count - 1) PROVE ws[k] = v
      BY <2>4
    <3>1. k \in 1..count /\ k < count
      BY <1>3
    <3> QED BY <2>1, <3>1 DEF Long
  <2>6. v \in Nat /\ Len(ws) >= 1
    BY <1>1, <1>3, <2>4
  <2> HIDE DEF v
  <2>7. AddedUp(ws) = (count - 1) * v + ws[count]
    BY <2>4, <2>5, <2>6, AddedUpEven
  <2>8. count \in 1..count /\ ~(count < count)
    BY <1>3
  <2>9. ws[count] = IF c \in item.cites THEN rest ELSE 0
    BY <2>1, <2>8 DEF Long
  <2>10. AddedUp(ws) = IF c \in item.cites THEN size ELSE 0
    <3>1. CASE c \in item.cites
      <4>1. v = fits /\ ws[count] = size - (count - 1) * fits
        BY <2>9, <3>1 DEF v, rest
      <4>2. (count - 1) * fits \in Int
        BY <1>1, <1>3
      <4> QED BY <1>1, <2>7, <3>1, <4>1, <4>2
    <3>2. CASE c \notin item.cites
      <4>1. v = 0 /\ ws[count] = 0
        BY <2>9, <3>2 DEF v
      <4>2. (count - 1) * 0 = 0
        BY <1>3
      <4> QED BY <2>7, <3>2, <4>1, <4>2
    <3> QED BY <3>1, <3>2
  <2>11. Carries(A, c)[item] = IF c \in item.cites THEN size ELSE 0
    BY DEF Carries, size
  <2> QED BY <2>10, <2>11 DEF Weighed, ws
<1> QED BY <1>8, <1>9, <1>10 DEF w

\* Every piece fits a request, and together they carry what the lines did.
LEMMA AllPiecesIs ==
  ASSUME NEW A \in SUBSET {0, Envelope}, NEW items \in Seq(Lines(A))
  PROVE  /\ AllPieces(items) \in Seq(Lines(A)) /\ \A i \in DOMAIN AllPieces(items) : Bytes(A)[AllPieces(items)[i]] <= Room
         /\ \A c : Weighed(AllPieces(items), Carries(A, c)) = Weighed(items, Carries(A, c))
<1> DEFINE L == Lines(A)
           n == Len(items)
           cuts == [i \in DOMAIN items |-> Pieces(items[i])]
           LinesFit(s) == \A i \in DOMAIN s : Bytes(A)[s[i]] <= Room
<1>1. n \in Nat /\ DOMAIN items = 1..n /\ \A i \in 1..n : items[i] \in L
  OBVIOUS
<1>2. ASSUME NEW i \in 1..n
      PROVE  Pieces(items[i]) \in Seq(L) /\ LinesFit(Pieces(items[i])) /\ \A c : Weighed(Pieces(items[i]), Carries(A, c)) = Carries(A, c)[items[i]]
  BY <1>1, PiecesIs
<1>3. DOMAIN cuts = 1..n /\ \A i \in 1..n : cuts[i] = Pieces(items[i])
  BY <1>1
<1>4. cuts \in Seq(Seq(L)) /\ Len(cuts) = n
  <2> DEFINE Q == Seq(L)
  <2>1. cuts \in [1..n -> Q]
    BY <1>1, <1>2
  <2> HIDE DEF Q, cuts, n
  <2>2. cuts \in Seq(Q) /\ Len(cuts) = n
    BY <1>1, <2>1
  <2> QED BY <2>2 DEF Q
<1>5. AllPieces(items) = Joined(cuts)
  BY DEF AllPieces
<1> HIDE DEF cuts, n
<1>6. Len(cuts) \in Nat
  BY <1>1, <1>4
<1>7. PICK all : /\ all[0] = <<>> /\ Joined(cuts) = all[Len(cuts)] /\ \A k \in 1..Len(cuts) : all[k] = all[k - 1] \o cuts[k]
  BY <1>6, JoinedSteps
<1>8. A \in SUBSET Nat
  BY RoomAssumption
<1>9. \A c : Carries(A, c) \in [L -> Nat]
  BY <1>8, WeightTypes
<1> DEFINE P(k) == SubSeq(items, 1, k)
           Ok(k) == all[k] \in Seq(L) /\ LinesFit(all[k]) /\ \A c : Weighed(all[k], Carries(A, c)) = Weighed(P(k), Carries(A, c))
           T == {k \in Nat : k <= n => Ok(k)}
<1>10. P(n) = items /\ P(0) = <<>>
  BY DEF n
<1>11. \A k \in Nat : k < n => P(k) \in Seq(L) /\ P(k + 1) = Append(P(k), items[k + 1]) /\ items[k + 1] \in L
  BY DEF n
<1> HIDE DEF P, L
<1>12. 0 \in T
  <2>1. all[0] \in Seq(L) /\ LinesFit(all[0]) /\ \A c : Weighed(all[0], Carries(A, c)) = Weighed(P(0), Carries(A, c))
    BY <1>7, <1>10
  <2> HIDE DEF LinesFit
  <2> QED BY <2>1
<1>13. ASSUME NEW k \in T PROVE k + 1 \in T
  <2> SUFFICES ASSUME k + 1 <= n PROVE Ok(k + 1)
    BY <1>13
  <2>1. k \in Nat /\ Ok(k) /\ k < n /\ k + 1 \in 1..n /\ (k + 1) - 1 = k
    <3> HIDE DEF Ok
    <3> QED BY <1>1, <1>13
  <2> DEFINE x == items[k + 1]
             p == Pieces(x)
             old == all[k]
             new == all[k + 1]
  <2>2. new = old \o p
    BY <1>3, <1>4, <1>7, <2>1
  <2>3. old \in Seq(L) /\ LinesFit(old)
    <3> HIDE DEF LinesFit
    <3> QED BY <2>1
  <2>4. p \in Seq(L) /\ LinesFit(p) /\ x \in L
    <3> HIDE DEF LinesFit
    <3> QED BY <1>1, <1>2, <2>1
  <2>5. \A c : Weighed(p, Carries(A, c)) = Carries(A, c)[x]
    BY <1>2, <2>1
  <2>6. \A c : Weighed(old, Carries(A, c)) = Weighed(P(k), Carries(A, c))
    BY <2>1
  <2> HIDE DEF x, p, old, new
  <2>7. new \in Seq(L)
    BY <2>2, <2>3, <2>4
  <2>8. LinesFit(new)
    <3> SUFFICES ASSUME NEW i \in DOMAIN new PROVE Bytes(A)[new[i]] <= Room
      OBVIOUS
    <3>1. (i \in DOMAIN old /\ new[i] = old[i]) \/ (i - Len(old) \in DOMAIN p /\ new[i] = p[i - Len(old)])
      BY <2>2, <2>3, <2>4
    <3> QED BY <2>3, <2>4, <3>1
  <2>9. ASSUME NEW c PROVE Weighed(new, Carries(A, c)) = Weighed(P(k + 1), Carries(A, c))
    <3> DEFINE w == Carries(A, c)
    <3>1. w \in [L -> Nat]
      BY <1>9
    <3>2. Weighed(p, w) = w[x] /\ Weighed(old, w) = Weighed(P(k), w)
      BY <2>5, <2>6
    <3> HIDE DEF w
    <3>3. Weighed(new, w) = Weighed(old, w) + Weighed(p, w)
      BY <2>2, <2>3, <2>4, <3>1, WeighedBoth
    <3>4. P(k + 1) = Append(P(k), x) /\ P(k) \in Seq(L)
      BY <1>11, <2>1 DEF x
    <3>5. Weighed(Append(P(k), x), w) = Weighed(P(k), w) + w[x]
      BY <2>4, <3>1, <3>4, WeighedAppend
    <3> QED BY <3>2, <3>3, <3>4, <3>5 DEF w
  <2> HIDE DEF LinesFit
  <2> QED BY <2>7, <2>8, <2>9 DEF new
<1>14. T = Nat
  <2> HIDE DEF T
  <2>1. T \in SUBSET Nat
    BY DEF T
  <2> QED BY <1>12, <1>13, <2>1, NatsFromZero
<1>15. Ok(n)
  <2> HIDE DEF Ok
  <2>1. n \in T /\ n <= n
    BY <1>1, <1>14
  <2> QED BY <2>1
<1>16. AllPieces(items) = all[n]
  BY <1>4, <1>5, <1>7
<1> QED BY <1>10, <1>15, <1>16 DEF L

\* Packed in order, every request is within its room and together they carry what
\* the lines did.
Packed(A, packed, items) ==
  /\ packed \in Seq(Seq(Lines(A))) /\ \A i \in DOMAIN packed : Weighed(packed[i], Bytes(A)) <= Room
  /\ \A c : Weighed(Joined(packed), Carries(A, c)) = Weighed(items, Carries(A, c))

LEMMA PackItemsIs ==
  ASSUME NEW A \in SUBSET {0, Envelope}, NEW items \in Seq(Lines(A))
  PROVE  Packed(A, PackItems(items), items)
<1> DEFINE L == Lines(A)
           pieces == AllPieces(items)
           n == Len(pieces)
           first == [last |-> <<>>, full |-> <<>>, used |-> 0]
           Put(p, k) == LET bytes == LineBytes(pieces[k]) IN
                        IF p.used + bytes <= Room \/ p.last = <<>>
                        THEN [last |-> Append(p.last, pieces[k]), full |-> p.full, used |-> p.used + bytes]
                        ELSE [last |-> <<pieces[k]>>, full |-> Append(p.full, p.last), used |-> bytes]
           S == [last : Seq(L), full : Seq(Seq(L)), used : Nat]
           go == [p \in (1..n) \X S |-> Put(p[2], p[1])]
           Body(f) == [k \in 0..n |-> IF k = 0 THEN first ELSE Put(f[k - 1], k)]
<1>1. pieces \in Seq(L) /\ (\A i \in DOMAIN pieces : Bytes(A)[pieces[i]] <= Room)
      /\ \A c : Weighed(pieces, Carries(A, c)) = Weighed(items, Carries(A, c))
  BY AllPiecesIs
<1>2. PackItems(items) = LET placed[k \in 0..n] == IF k = 0 THEN first ELSE Put(placed[k - 1], k)
                         IN  IF pieces = <<>> THEN <<>> ELSE Append(placed[n].full, placed[n].last)
  BY DEF PackItems
<1> HIDE DEF pieces
<1>3. n \in Nat /\ DOMAIN pieces = 1..n /\ \A k \in 1..n : pieces[k] \in L
  BY <1>1
<1>4. \A k \in 1..n : LineBytes(pieces[k]) = Bytes(A)[pieces[k]] /\ LineBytes(pieces[k]) \in Nat /\ LineBytes(pieces[k]) <= Room
  <2> SUFFICES ASSUME NEW k \in 1..n
               PROVE  LineBytes(pieces[k]) = Bytes(A)[pieces[k]] /\ LineBytes(pieces[k]) \in Nat /\ LineBytes(pieces[k]) <= Room
    OBVIOUS
  <2> HIDE DEF n
  <2>1. pieces[k] \in Lines(A) /\ Bytes(A)[pieces[k]] <= Room
    BY <1>1, <1>3
  <2>2. Bytes(A)[pieces[k]] = pieces[k].size + pieces[k].around
    BY <2>1 DEF Bytes
  <2>3. A \in SUBSET Nat
    BY RoomAssumption
  <2>4. Bytes(A)[pieces[k]] \in Nat
    BY <2>1, <2>3, WeightTypes
  <2> QED BY <2>1, <2>2, <2>4 DEF LineBytes
<1>5. A \in SUBSET Nat
  BY RoomAssumption
<1>6. Bytes(A) \in [L -> Nat] /\ \A c : Carries(A, c) \in [L -> Nat]
  BY <1>5, WeightTypes
<1> HIDE DEF n, L
<1>7. first \in S
  <2>1. <<>> \in Seq(L) /\ <<>> \in Seq(Seq(L))
    OBVIOUS
  <2> QED BY <2>1
<1>8. ASSUME NEW p \in S, NEW k \in 1..n PROVE Put(p, k) \in S
  <2> DEFINE bytes == LineBytes(pieces[k])
             x == pieces[k]
             Q == Seq(L)
  <2>1. bytes \in Nat /\ x \in L /\ p.last \in Q /\ p.full \in Seq(Q) /\ p.used \in Nat
    BY <1>3, <1>4
  <2>2. Put(p, k) = IF p.used + bytes <= Room \/ p.last = <<>>
                    THEN [last |-> Append(p.last, x), full |-> p.full, used |-> p.used + bytes]
                    ELSE [last |-> <<x>>, full |-> Append(p.full, p.last), used |-> bytes]
    OBVIOUS
  <2>3. Append(p.last, x) \in Q /\ <<x>> \in Q
    <3> HIDE DEF x
    <3> QED BY <2>1
  <2>4. S = [last : Q, full : Seq(Q), used : Nat]
    OBVIOUS
  <2> HIDE DEF Q, bytes, x, S, Put
  <2>5. Append(p.full, p.last) \in Seq(Q) /\ p.used + bytes \in Nat
    BY <2>1
  <2> QED BY <2>1, <2>2, <2>3, <2>4, <2>5
<1>9. go \in [(1..n) \X S -> S]
  <2> HIDE DEF Put, S
  <2> QED BY <1>8
<1>10. \E f : StepsOf(n, S, first, go, f)
  <2> HIDE DEF go, S, first
  <2> QED BY <1>3, <1>7, <1>9, StepwiseFrom, Zenon
<1> HIDE DEF Put, S, first
<1>11. PICK f \in [0..n -> S] : f[0] = first /\ \A k \in 1..n : f[k] = go[<<k, f[k - 1]>>]
  BY <1>10, Zenon DEF StepsOf
<1>12. \A k \in 1..n : f[k] = Put(f[k - 1], k)
  <2> SUFFICES ASSUME NEW k \in 1..n PROVE f[k] = Put(f[k - 1], k)
    OBVIOUS
  <2>1. k - 1 \in 0..n /\ f[k - 1] \in S
    BY <1>3, <1>11
  <2>2. f[k] = go[<<k, f[k - 1]>>] /\ <<k, f[k - 1]>> \in (1..n) \X S
    BY <1>11, <2>1
  <2> QED BY <2>2
<1>13. f = Body(f)
  <2>1. \A k \in 0..n : f[k] = Body(f)[k]
    <3> SUFFICES ASSUME NEW k \in 0..n PROVE f[k] = Body(f)[k]
      OBVIOUS
    <3>1. CASE k = 0
      BY <1>11, <3>1
    <3>2. CASE k # 0
      <4>1. k \in 1..n
        BY <1>3, <3>2
      <4> QED BY <1>12, <3>2, <4>1
    <3> QED BY <3>1, <3>2
  <2> QED BY <1>11, <2>1
<1> DEFINE g == CHOOSE h : h = Body(h)
<1>14. g = Body(g)
  <2> HIDE DEF Body
  <2> QED BY <1>13
<1>15. PackItems(items) = IF pieces = <<>> THEN <<>> ELSE Append(g[n].full, g[n].last)
  BY <1>2
<1> HIDE DEF g
<1>16. g[0] = first /\ \A k \in 1..n : g[k] = Put(g[k - 1], k)
  <2>1. \A k \in 0..n : g[k] = Body(g)[k]
    <3> HIDE DEF Body
    <3> QED BY <1>14
  <2>2. 0 \in 0..n /\ \A k \in 1..n : k \in 0..n /\ k # 0
    BY <1>3
  <2> QED BY <2>1, <2>2
<1> HIDE DEF go, Body
<1> DEFINE P(k) == SubSeq(pieces, 1, k)
           Holds(s) == Weighed(s, Bytes(A)) <= Room
           Ok(k) == /\ g[k] \in S /\ g[k].used = Weighed(g[k].last, Bytes(A)) /\ Holds(g[k].last)
                    /\ \A i \in DOMAIN g[k].full : Holds(g[k].full[i])
                    /\ \A c : Weighed(P(k), Carries(A, c)) = Weighed(Joined(g[k].full), Carries(A, c)) + Weighed(g[k].last, Carries(A, c))
           T == {k \in Nat : k <= n => Ok(k)}
<1>17. P(n) = pieces /\ P(0) = <<>>
  BY <1>1 DEF n
<1>18. \A k \in Nat : k < n => P(k) \in Seq(L) /\ P(k + 1) = Append(P(k), pieces[k + 1]) /\ pieces[k + 1] \in L
  BY <1>1 DEF n
<1> HIDE DEF P
<1>19. 0 \in T
  <2>1. first.last = <<>> /\ first.full = <<>> /\ first.used = 0
    BY DEF first
  <2>2. Room \in Nat /\ Joined(<<>>) = <<>> /\ \A w : Weighed(<<>>, w) = 0
    BY RoomAssumption, JoinedNone, WeighedNone
  <2>3. g[0] \in S /\ g[0].last = <<>> /\ g[0].full = <<>> /\ g[0].used = 0
    BY <1>7, <1>16, <2>1
  <2>4. Ok(0)
    BY <1>17, <2>2, <2>3
  <2> HIDE DEF Ok
  <2> QED BY <2>4
<1>20. ASSUME NEW k \in T PROVE k + 1 \in T
  <2> SUFFICES ASSUME k + 1 <= n PROVE Ok(k + 1)
    BY <1>20
  <2>1. k \in Nat /\ Ok(k) /\ k < n /\ k + 1 \in 1..n /\ (k + 1) - 1 = k
    <3> HIDE DEF Ok
    <3> QED BY <1>3, <1>20
  <2> DEFINE p == g[k]
             q == g[k + 1]
             x == pieces[k + 1]
             b == LineBytes(x)
             old == p.last
             full == p.full
  <2>2. q = Put(p, k + 1) /\ p \in S
    BY <1>16, <2>1
  <2>3. q \in S
    BY <1>8, <2>1, <2>2
  <2>4. x \in L /\ b \in Nat /\ b = Bytes(A)[x] /\ b <= Room
    BY <1>3, <1>4, <2>1
  <2>5. old \in Seq(L) /\ full \in Seq(Seq(L)) /\ p.used \in Nat /\ p.used = Weighed(old, Bytes(A)) /\ Holds(old)
        /\ \A i \in DOMAIN full : Holds(full[i])
    <3> HIDE DEF Holds
    <3>1. p.used = Weighed(old, Bytes(A)) /\ Holds(old) /\ \A i \in DOMAIN full : Holds(full[i])
      BY <2>1
    <3> QED BY <2>2, <3>1 DEF S
  <2>6. \A c : Weighed(P(k), Carries(A, c)) = Weighed(Joined(full), Carries(A, c)) + Weighed(old, Carries(A, c))
    BY <2>1
  <2>7. q = IF p.used + b <= Room \/ old = <<>>
            THEN [last |-> Append(old, x), full |-> full, used |-> p.used + b]
            ELSE [last |-> <<x>>, full |-> Append(full, old), used |-> b]
    BY <2>2 DEF Put
  <2> HIDE DEF p, q, x, b, old, full
  <2>8. P(k + 1) = Append(P(k), x) /\ P(k) \in Seq(L)
    BY <1>18, <2>1 DEF x
  <2>9. Joined(full) \in Seq(L)
    BY <2>5, JoinedIsSeq
  <2>10. \A w \in [L -> Nat] :
           /\ Weighed(Append(old, x), w) = Weighed(old, w) + w[x] /\ Weighed(Append(P(k), x), w) = Weighed(P(k), w) + w[x]
           /\ Weighed(old, w) \in Nat /\ w[x] \in Nat
    BY <2>4, <2>5, <2>8, WeighedAppend
  <2>11. \A w \in [L -> Nat] :
           /\ Weighed(Joined(full) \o old, w) = Weighed(Joined(full), w) + Weighed(old, w)
           /\ Weighed(Joined(full), w) \in Nat
    BY <2>5, <2>9, WeighedBoth
  <2>12. \A w \in [L -> Nat] : Weighed(<<x>>, w) = w[x]
    <3>1. Append(<<>>, x) = <<x>> /\ <<>> \in Seq(L)
      OBVIOUS
    <3> SUFFICES ASSUME NEW w \in [L -> Nat] PROVE Weighed(<<x>>, w) = w[x]
      OBVIOUS
    <3>2. Weighed(Append(<<>>, x), w) = Weighed(<<>>, w) + w[x]
      BY <2>4, <3>1, WeighedAppend
    <3>3. Weighed(<<>>, w) = 0 /\ w[x] \in Nat
      BY <2>4, WeighedNone
    <3> QED BY <3>1, <3>2, <3>3
  <2>13. CASE p.used + b <= Room \/ old = <<>>
    <3>1. q.last = Append(old, x) /\ q.full = full /\ q.used = p.used + b
      BY <2>7, <2>13
    <3>2. q.used = Weighed(q.last, Bytes(A))
      BY <1>6, <2>4, <2>5, <2>10, <3>1
    <3>3. q.used <= Room
      <4>1. CASE p.used + b <= Room
        BY <3>1, <4>1
      <4>2. CASE old = <<>>
        <5>1. p.used = 0
          BY <2>5, <4>2, WeighedNone
        <5> QED BY <2>4, <3>1, <5>1
      <4> QED BY <2>13, <4>1, <4>2
    <3>4. Holds(q.last) /\ \A i \in DOMAIN q.full : Holds(q.full[i])
      BY <2>5, <3>1, <3>2, <3>3
    <3>5. ASSUME NEW c PROVE Weighed(P(k + 1), Carries(A, c)) = Weighed(Joined(q.full), Carries(A, c)) + Weighed(q.last, Carries(A, c))
      <4> DEFINE w == Carries(A, c)
      <4>1. w \in [L -> Nat] /\ Weighed(P(k), w) = Weighed(Joined(full), w) + Weighed(old, w)
        BY <1>6, <2>6
      <4> HIDE DEF w
      <4>2. Weighed(P(k + 1), w) = Weighed(Joined(q.full), w) + Weighed(q.last, w)
        <5>1. Weighed(P(k + 1), w) = Weighed(P(k), w) + w[x] /\ Weighed(q.last, w) = Weighed(old, w) + w[x]
          BY <2>8, <2>10, <3>1, <4>1
        <5>2. Weighed(old, w) \in Nat /\ w[x] \in Nat /\ Weighed(Joined(full), w) \in Nat /\ Joined(q.full) = Joined(full)
          BY <2>10, <2>11, <3>1, <4>1
        <5> QED BY <4>1, <5>1, <5>2
      <4> QED BY <4>2 DEF w
    <3> HIDE DEF Holds
    <3> QED BY <2>3, <3>2, <3>4, <3>5 DEF q
  <2>14. CASE ~(p.used + b <= Room \/ old = <<>>)
    <3>1. q.last = <<x>> /\ q.full = Append(full, old) /\ q.used = b
      BY <2>7, <2>14
    <3>2. q.used = Weighed(q.last, Bytes(A)) /\ Holds(q.last)
      BY <1>6, <2>4, <2>12, <3>1
    <3>3. \A i \in DOMAIN q.full : Holds(q.full[i])
      <4> HIDE DEF Holds
      <4> DEFINE Q == Seq(L)
      <4> HIDE DEF Q
      <4>1. full \in Seq(Q) /\ old \in Q
        BY <2>5 DEF Q
      <4>2. \A i \in DOMAIN Append(full, old) : (i \in DOMAIN full /\ Append(full, old)[i] = full[i]) \/ Append(full, old)[i] = old
        BY <4>1
      <4> QED BY <2>5, <3>1, <4>2
    <3>4. ASSUME NEW c PROVE Weighed(P(k + 1), Carries(A, c)) = Weighed(Joined(q.full), Carries(A, c)) + Weighed(q.last, Carries(A, c))
      <4> DEFINE w == Carries(A, c)
      <4>1. w \in [L -> Nat] /\ Weighed(P(k), w) = Weighed(Joined(full), w) + Weighed(old, w)
        BY <1>6, <2>6
      <4> HIDE DEF w
      <4>2. Joined(q.full) = Joined(full) \o old
        BY <2>5, <3>1, JoinedAppend
      <4>3. Weighed(q.last, w) = w[x]
        BY <2>12, <3>1, <4>1
      <4>4. Weighed(P(k + 1), w) = Weighed(P(k), w) + w[x]
        BY <2>8, <2>10, <4>1
      <4>5. Weighed(Joined(q.full), w) = Weighed(Joined(full), w) + Weighed(old, w)
        BY <2>11, <4>1, <4>2
      <4>6. Weighed(P(k + 1), w) = Weighed(Joined(q.full), w) + Weighed(q.last, w)
        BY <4>1, <4>3, <4>4, <4>5
      <4> QED BY <4>6 DEF w
    <3> HIDE DEF Holds
    <3> QED BY <2>3, <3>2, <3>3, <3>4 DEF q
  <2> QED BY <2>13, <2>14
<1>21. T = Nat
  <2> HIDE DEF T
  <2>1. T \in SUBSET Nat
    BY DEF T
  <2> QED BY <1>19, <1>20, <2>1, NatsFromZero
<1>22. Ok(n)
  <2> HIDE DEF Ok
  <2>1. n \in T /\ n <= n
    BY <1>3, <1>21
  <2> QED BY <2>1
<1>23. CASE pieces = <<>>
  <2> DEFINE packed == PackItems(items)
  <2>1. packed = <<>>
    BY <1>15, <1>23
  <2> HIDE DEF packed
  <2>2. packed \in Seq(Seq(L)) /\ DOMAIN packed = {}
    BY <2>1
  <2>3. \A c : Weighed(Joined(packed), Carries(A, c)) = Weighed(items, Carries(A, c))
    BY <1>1, <1>23, <2>1, JoinedNone
  <2>4. Packed(A, packed, items)
    BY <2>2, <2>3 DEF Packed, L
  <2> QED BY <2>4 DEF packed
<1>24. CASE pieces # <<>>
  <2> DEFINE packed == PackItems(items)
             full == g[n].full
             old == g[n].last
             Q == Seq(L)
  <2>1. packed = Append(full, old)
    BY <1>15, <1>24
  <2>2. full \in Seq(Q) /\ old \in Q
    BY <1>22 DEF S
  <2>3. Holds(old) /\ \A i \in DOMAIN full : Holds(full[i])
    <3> HIDE DEF Holds
    <3> QED BY <1>22
  <2>4. \A c : Weighed(pieces, Carries(A, c)) = Weighed(Joined(full), Carries(A, c)) + Weighed(old, Carries(A, c))
    BY <1>17, <1>22
  <2> HIDE DEF packed, full, old
  <2>5. Joined(packed) = Joined(full) \o old /\ Joined(full) \in Seq(L)
    BY <2>1, <2>2, JoinedAppend, JoinedIsSeq
  <2>6. ASSUME NEW c PROVE Weighed(Joined(packed), Carries(A, c)) = Weighed(items, Carries(A, c))
    <3> DEFINE w == Carries(A, c)
    <3>1. w \in [L -> Nat] /\ Weighed(pieces, w) = Weighed(Joined(full), w) + Weighed(old, w) /\ Weighed(pieces, w) = Weighed(items, w)
      BY <1>1, <1>6, <2>4
    <3> HIDE DEF w
    <3>2. Weighed(Joined(full) \o old, w) = Weighed(Joined(full), w) + Weighed(old, w)
      BY <2>2, <2>5, <3>1, WeighedBoth
    <3>3. Weighed(Joined(packed), w) = Weighed(items, w)
      BY <2>5, <3>1, <3>2
    <3> QED BY <3>3 DEF w
  <2> HIDE DEF Q, Holds
  <2>7. packed \in Seq(Q) /\ \A i \in DOMAIN packed : (i \in DOMAIN full /\ packed[i] = full[i]) \/ packed[i] = old
    BY <2>1, <2>2
  <2>8. \A i \in DOMAIN packed : Holds(packed[i])
    BY <2>3, <2>7
  <2>9. Packed(A, packed, items)
    BY <2>6, <2>7, <2>8 DEF Packed, Q, Holds, L
  <2> QED BY <2>9 DEF packed
<1> QED BY <1>23, <1>24

----------------------------------------------------------------------------
(* What a round has before it.                                             *)

Around == {0, Envelope}
Claims == [size : Nat, cites : SUBSET Nat]
\* A request of the notes as they were read carries each of them whole.
CarriesNotes == (\E p \in Range(parts) : \E i \in Range(p) : i.around > 0) =>
  \A i \in 1..read : Weighed(Joined(parts), Carries(Around, i)) = NoteSize[i]
\* Every request of a round fits, there are no more drafts than requests, and the
\* requests of the notes carry each note whole.
RoundInv ==
  /\ stage \in {"acting", "compose", "review", "ended"} /\ (stage = "ended" <=> shown # Absent)
  /\ stage = "acting" => parts = <<>>
  /\ read \in 1..Len(NoteSize) /\ replaced \subseteq 1..read /\ picked \subseteq 1..read
  /\ reduced \in BOOLEAN /\ writeUp \in BOOLEAN
  /\ drafted \in Seq(Seq(Claims)) /\ parts \in Seq(Seq(Lines(Around))) /\ Len(drafted) <= Len(parts)
  /\ \A i \in DOMAIN parts : Weighed(parts[i], Bytes(Around)) <= Room
  /\ CarriesNotes

LEMMA AroundNat == Around \in SUBSET Nat /\ Around \in SUBSET {0, Envelope} /\ {0} \in SUBSET {0, Envelope} /\ {0} \in SUBSET Nat
BY RoomAssumption DEF Around

\* The notes, packed.
LEMMA NotesPacked ==
  ASSUME RoundInv
  PROVE  LET packed == PackItems(InitialItems) IN
         /\ packed \in Seq(Seq(Lines(Around))) /\ \A i \in DOMAIN packed : Weighed(packed[i], Bytes(Around)) <= Room
         /\ \A i \in 1..read : Weighed(Joined(packed), Carries(Around, i)) = NoteSize[i]
<1> DEFINE items == InitialItems
           packed == PackItems(items)
<1>1. read \in Nat /\ read <= Len(NoteSize) /\ NoteSize \in Seq(Nat)
  BY RoomAssumption DEF RoundInv
<1>2. \A i \in 1..read : NoteSize[i] \in Nat
  BY <1>1
<1>3. items = [i \in 1..read |-> Item(NoteSize[i], Envelope, {i})]
  BY DEF InitialItems
<1> HIDE DEF items
<1>4. ASSUME NEW i \in 1..read
      PROVE  items[i] \in Lines(Around) /\ items[i].size = NoteSize[i] /\ items[i].cites = {i}
  <2>1. items[i] = [size |-> NoteSize[i], around |-> Envelope, cites |-> {i}]
    BY <1>3 DEF Item
  <2>2. i \in Nat /\ NoteSize[i] \in Nat /\ Envelope \in Around
    BY <1>1, <1>2 DEF Around
  <2> QED BY <2>1, <2>2 DEF Lines
<1>5. items \in Seq(Lines(Around)) /\ DOMAIN items = 1..read
  <2> DEFINE L == Lines(Around)
  <2>1. items \in [1..read -> L]
    BY <1>3, <1>4
  <2> HIDE DEF L
  <2>2. items \in Seq(L) /\ DOMAIN items = 1..read
    BY <1>1, <2>1
  <2> QED BY <2>2 DEF L
<1>6. Packed(Around, packed, items)
  BY <1>5, AroundNat, PackItemsIs
<1> HIDE DEF packed
<1>7. ASSUME NEW c \in 1..read PROVE Weighed(items, Carries(Around, c)) = NoteSize[c]
  <2> DEFINE ws == [i \in DOMAIN items |-> Carries(Around, c)[items[i]]]
  <2>1. \A i \in 1..read : ws[i] = IF i = c THEN NoteSize[i] ELSE 0
    <3> SUFFICES ASSUME NEW i \in 1..read PROVE ws[i] = IF i = c THEN NoteSize[i] ELSE 0
      OBVIOUS
    <3>1. ws[i] = Carries(Around, c)[items[i]]
      BY <1>5
    <3>2. Carries(Around, c)[items[i]] = IF c \in items[i].cites THEN items[i].size ELSE 0
      BY <1>4 DEF Carries
    <3> HIDE DEF ws
    <3> QED BY <1>4, <3>1, <3>2
  <2>2. ws = [i \in 1..read |-> ws[i]]
    BY <1>5
  <2> HIDE DEF ws
  <2>3. ws \in [1..read -> Nat]
    BY <1>2, <2>1, <2>2
  <2>4. ws \in Seq(Nat) /\ Len(ws) = read
    BY <1>1, <2>3
  <2>5. c \in 1..Len(ws) /\ \A k \in 1..Len(ws) : k # c => ws[k] = 0
    BY <2>1, <2>4
  <2>6. AddedUp(ws) = ws[c]
    BY <2>4, <2>5, AddedUpOne
  <2> QED BY <2>1, <2>6 DEF Weighed, ws
<1> QED BY <1>6, <1>7 DEF Packed, packed, items

\* The claims of a round, packed: nothing goes around them.
LEMMA ClaimsPacked ==
  ASSUME NEW claims \in Seq(Claims)
  PROVE  LET packed == PackItems(ClaimItems(claims)) IN
         /\ packed \in Seq(Seq(Lines(Around))) /\ \A i \in DOMAIN packed : Weighed(packed[i], Bytes(Around)) <= Room
         /\ ~\E p \in Range(packed) : \E i \in Range(p) : i.around > 0
<1> DEFINE items == ClaimItems(claims)
           packed == PackItems(items)
           L == Lines({0})
           n == Len(claims)
<1>1. n \in Nat /\ DOMAIN claims = 1..n /\ \A i \in 1..n : claims[i] \in Claims
  OBVIOUS
<1> HIDE DEF n
<1>2. items = [i \in 1..n |-> Item(claims[i].size, 0, claims[i].cites)]
  BY <1>1 DEF ClaimItems
<1> HIDE DEF items
<1>3. ASSUME NEW i \in 1..n PROVE items[i] \in L
  <2>1. items[i] = [size |-> claims[i].size, around |-> 0, cites |-> claims[i].cites]
    BY <1>2 DEF Item
  <2>2. claims[i].size \in Nat /\ claims[i].cites \in SUBSET Nat
    BY <1>1 DEF Claims
  <2> QED BY <2>1, <2>2 DEF Lines
<1>4. items \in Seq(L)
  <2>1. items \in [1..n -> L]
    BY <1>2, <1>3
  <2> HIDE DEF L
  <2> QED BY <1>1, <2>1
<1>5. Packed({0}, packed, items)
  BY <1>4, AroundNat, PackItemsIs
<1>6. L \subseteq Lines(Around)
  BY DEF Lines, Around
<1>7. \A l \in L : l.around = 0 /\ Bytes({0})[l] = l.size + l.around /\ Bytes(Around)[l] = l.size + l.around
  BY <1>6 DEF Lines, Bytes
<1> HIDE DEF packed, L
<1>8. packed \in Seq(Seq(L)) /\ \A i \in DOMAIN packed : Weighed(packed[i], Bytes({0})) <= Room
  BY <1>5 DEF Packed, L
<1>9. \A p \in Seq(L) : p \in Seq(Lines(Around)) /\ Weighed(p, Bytes({0})) = Weighed(p, Bytes(Around))
  <2> SUFFICES ASSUME NEW p \in Seq(L) PROVE p \in Seq(Lines(Around)) /\ Weighed(p, Bytes({0})) = Weighed(p, Bytes(Around))
    OBVIOUS
  <2>1. p \in Seq(Lines(Around))
    <3> DEFINE M == Lines(Around)
    <3> HIDE DEF M
    <3>1. L \subseteq M
      BY <1>6 DEF M
    <3>2. p \in Seq(M)
      BY <3>1
    <3> QED BY <3>2 DEF M
  <2>2. \A i \in DOMAIN p : Bytes({0})[p[i]] = Bytes(Around)[p[i]]
    <3>1. \A i \in DOMAIN p : p[i] \in L
      OBVIOUS
    <3> QED BY <1>7, <3>1
  <2>3. [i \in DOMAIN p |-> Bytes({0})[p[i]]] = [i \in DOMAIN p |-> Bytes(Around)[p[i]]]
    BY <2>2
  <2> QED BY <2>1, <2>3 DEF Weighed
<1>10. \A i \in DOMAIN packed : packed[i] \in Seq(L)
  BY <1>8
<1>11. packed \in Seq(Seq(Lines(Around)))
  <2> DEFINE Q == Seq(L)
             R == Seq(Lines(Around))
  <2>1. Q \subseteq R
    BY <1>9
  <2>2. packed \in Seq(Q)
    BY <1>8
  <2> HIDE DEF Q, R
  <2>3. packed \in Seq(R)
    BY <2>1, <2>2
  <2> QED BY <2>3 DEF R
<1>12. \A i \in DOMAIN packed : Weighed(packed[i], Bytes(Around)) <= Room
  BY <1>8, <1>9, <1>10
<1>13. ~\E p \in Range(packed) : \E i \in Range(p) : i.around > 0
  <2> SUFFICES ASSUME NEW p \in Range(packed), NEW i \in Range(p) PROVE ~(i.around > 0)
    OBVIOUS
  <2>1. p \in Seq(L)
    BY <1>10 DEF Range
  <2>2. i \in L
    BY <2>1 DEF Range
  <2> QED BY <1>7, <2>2
<1> QED BY <1>11, <1>12, <1>13 DEF packed, items

LEMMA WritesAreClaims ==
  ASSUME NEW lines \in Seq(Lines(Around)), NEW lone \in BOOLEAN, NEW claims \in Writes(lines, lone)
  PROVE  claims \in Seq(Claims)
<1>1. CASE claims = <<>>
  BY <1>1
<1>2. CASE claims # <<>>
  <2> DEFINE one == UNION {{Claim(size, i.cites) : size \in Writings} : i \in Range(lines)}
             strays == IF lone THEN {Claim(CHOOSE size \in Writings : TRUE, {Unknown})} ELSE {}
             Y == one \cup strays
             most == IF lone THEN 2 ELSE 1
  <2>1. Writes(lines, lone) = {<<>>} \cup UNION {[1..n -> Y] : n \in 1..most}
    BY DEF Writes
  <2>2. one \subseteq Claims
    <3> SUFFICES ASSUME NEW i \in Range(lines), NEW size \in Writings PROVE Claim(size, i.cites) \in Claims
      OBVIOUS
    <3>1. i \in Lines(Around)
      BY DEF Range
    <3>2. i.cites \in SUBSET Nat /\ size \in Nat
      BY <3>1, RoomAssumption DEF Lines
    <3> QED BY <3>2 DEF Claim, Claims
  <2>3. strays \subseteq Claims
    <3> DEFINE size == CHOOSE s \in Writings : TRUE
    <3>1. size \in Writings
      BY RoomAssumption
    <3>2. size \in Nat
      BY <3>1, RoomAssumption
    <3> HIDE DEF size
    <3>3. Claim(size, {Unknown}) \in Claims
      BY <3>2 DEF Claim, Claims, Unknown
    <3> QED BY <3>3 DEF size
  <2>4. Y \subseteq Claims
    BY <2>2, <2>3
  <2> HIDE DEF Y
  <2>5. PICK n \in 1..most : claims \in [1..n -> Y]
    BY <1>2, <2>1
  <2>6. claims \in [1..n -> Claims] /\ n \in Nat
    BY <2>4, <2>5
  <2> HIDE DEF Y
  <2> QED BY <2>6
<1> QED BY <1>1, <1>2

\* A step that drops the round: the run ended, or goes on acting.
Resets == parts' = <<>> /\ drafted' = <<>> /\ ((stage' = "ended" /\ shown' # Absent) \/ (stage' = "acting" /\ shown' = shown))

LEMMA EndsRunResets ==
  ASSUME NEW status, NEW by, NEW whole, NEW unread, EndsRun(status, by, whole, unread)
  PROVE  Resets
<1>1. stage' = "ended" /\ parts' = <<>> /\ drafted' = <<>> /\ shown' = Ending(status, by, whole, unread)
  BY DEF EndsRun
<1>2. "by" \in DOMAIN Ending(status, by, whole, unread) /\ "by" \notin DOMAIN Absent
  BY DEF Ending, Absent
<1>3. shown' # Absent
  BY <1>1, <1>2
<1> QED BY <1>1, <1>3 DEF Resets

LEMMA PartialResets ==
  ASSUME NEW status, PartialResult(status)
  PROVE  Resets
BY EndsRunResets DEF PartialResult

LEMMA SettlesResets ==
  ASSUME NEW draft, NEW upheld, NEW problem, NEW rejection, Settles(draft, upheld, problem, rejection)
  PROVE  Resets
<1>1. CASE stage' = "acting" /\ parts' = <<>> /\ drafted' = <<>> /\ shown' = shown
  BY <1>1 DEF Resets
<1>2. CASE \E status, by, whole, unread : EndsRun(status, by, whole, unread)
  BY <1>2, EndsRunResets
<1>3. CASE \E status : PartialResult(status)
  BY <1>3, PartialResets
<1>4. CASE \E unread \in BOOLEAN : LET status == IF problem \/ unread THEN "unverified" ELSE "complete" IN
        IF problem /\ CheckedComposition THEN EndsRun(status, "kept", FALSE, unread) ELSE EndsRun(status, "composed", upheld = draft, unread)
  BY <1>2, <1>4
<1> QED BY <1>1, <1>2, <1>3, <1>4 DEF Settles

LEMMA ResetKeeps ==
  ASSUME RoundInv, stage # "ended", Resets, noteState' = noteState, reduced' \in BOOLEAN, writeUp' \in BOOLEAN
  PROVE  RoundInv'
<1>1. shown = Absent /\ read' = read /\ replaced' = replaced /\ picked' = picked
  BY DEF RoundInv, noteState
<1>2. parts' = <<>> /\ drafted' = <<>>
  BY DEF Resets
<1>3. /\ drafted' \in Seq(Seq(Claims)) /\ parts' \in Seq(Seq(Lines(Around))) /\ Len(drafted') <= Len(parts')
      /\ DOMAIN parts' = {} /\ Range(parts') = {}
  BY <1>2 DEF Range
<1>4. CarriesNotes'
  BY <1>3 DEF CarriesNotes
<1>5. stage' \in {"acting", "compose", "review", "ended"} /\ (stage' = "ended" <=> shown' # Absent)
  BY <1>1 DEF Resets
<1>6. \A i \in DOMAIN parts' : Weighed(parts'[i], Bytes(Around)) <= Room
  BY <1>3
<1> QED BY <1>1, <1>2, <1>3, <1>4, <1>5, <1>6 DEF RoundInv

LEMMA StartKeeps ==
  ASSUME RoundInv, stage = "acting", stage' = "compose", drafted' = <<>>, parts' = PackItems(InitialItems), reduced' \in BOOLEAN,
         UNCHANGED <<noteState, shown, writeUp>>
  PROVE  RoundInv'
<1> DEFINE packed == PackItems(InitialItems)
<1>1. /\ packed \in Seq(Seq(Lines(Around))) /\ \A i \in DOMAIN packed : Weighed(packed[i], Bytes(Around)) <= Room
      /\ \A i \in 1..read : Weighed(Joined(packed), Carries(Around, i)) = NoteSize[i]
  BY NotesPacked
<1>2. read' = read /\ replaced' = replaced /\ picked' = picked /\ shown' = shown /\ writeUp' = writeUp /\ parts' = packed
  BY DEF noteState
<1> HIDE DEF packed
<1>3. drafted' \in Seq(Seq(Claims)) /\ Len(drafted') <= Len(parts')
  BY <1>1, <1>2
<1>4. CarriesNotes'
  BY <1>1, <1>2 DEF CarriesNotes
<1>5. parts' \in Seq(Seq(Lines(Around))) /\ \A i \in DOMAIN parts' : Weighed(parts'[i], Bytes(Around)) <= Room
  BY <1>1, <1>2
<1> QED BY <1>2, <1>3, <1>4, <1>5 DEF RoundInv

LEMMA RoundBegins == ComposeInit => RoundInv
<1> SUFFICES ASSUME ComposeInit PROVE RoundInv
  OBVIOUS
<1>1. parts = <<>> /\ drafted = <<>> /\ read = 1 /\ replaced = {} /\ picked \in {{}, {1}} /\ stage = "acting" /\ shown = Absent
      /\ reduced \in BOOLEAN /\ writeUp \in BOOLEAN
  BY DEF ComposeInit
<1>2. /\ drafted \in Seq(Seq(Claims)) /\ parts \in Seq(Seq(Lines(Around))) /\ Len(drafted) <= Len(parts)
      /\ DOMAIN parts = {} /\ Range(parts) = {}
  BY <1>1 DEF Range
<1>3. 1 \in 1..Len(NoteSize)
  BY RoomAssumption
<1>4. CarriesNotes
  BY <1>2 DEF CarriesNotes
<1>5. read \in 1..Len(NoteSize) /\ replaced \subseteq 1..read /\ picked \subseteq 1..read
  BY <1>1, <1>3
<1> QED BY <1>1, <1>2, <1>4, <1>5 DEF RoundInv

LEMMA RoundKept == RoundInv /\ [ComposingNext]_composeVars => RoundInv'
<1> SUFFICES ASSUME RoundInv, [ComposingNext]_composeVars PROVE RoundInv'
  OBVIOUS
<1>1. CASE UNCHANGED composeVars
  BY <1>1 DEF composeVars, RoundInv, CarriesNotes
<1>2. CASE ReadsOn
  <2>1. stage = "acting" /\ UNCHANGED <<parts, drafted, reduced, shown, stage>> /\ parts = <<>>
    BY <1>2 DEF ReadsOn, RoundInv
  <2>2. read \in 1..Len(NoteSize) /\ replaced \subseteq 1..read /\ picked \subseteq 1..read /\ writeUp \in BOOLEAN
    BY DEF RoundInv
  <2>3. Len(NoteSize) \in Nat
    BY RoomAssumption
  <2>4. read' \in 1..Len(NoteSize) /\ replaced' \subseteq 1..read' /\ picked' \subseteq 1..read' /\ writeUp' \in BOOLEAN
    <3>1. CASE read < Len(NoteSize) /\ read' = read + 1 /\ UNCHANGED <<replaced, picked, writeUp>>
      BY <2>2, <2>3, <3>1
    <3>2. CASE \E i \in {1} \ replaced : replaced' = replaced \cup {i} /\ picked' = picked \ {i} /\ UNCHANGED <<read, writeUp>>
      BY <2>2, <2>3, <3>2
    <3>3. CASE ~writeUp /\ writeUp' = TRUE /\ UNCHANGED noteState
      BY <2>2, <3>3 DEF noteState
    <3> QED BY <1>2, <3>1, <3>2, <3>3 DEF ReadsOn
  <2>5. Range(parts') = {}
    BY <2>1 DEF Range
  <2>6. CarriesNotes'
    BY <2>5 DEF CarriesNotes
  <2> QED BY <2>1, <2>4, <2>6 DEF RoundInv
<1>3. CASE Conclude
  <2>1. stage = "acting" /\ reduced \in BOOLEAN /\ writeUp \in BOOLEAN
    BY <1>3 DEF Conclude, RoundInv
  <2>2. CASE Verdict
    <3>1. (\E claims : Settles(claims, claims, FALSE, FALSE)) /\ UNCHANGED <<noteState, writeUp, reduced>>
      BY <2>2 DEF Verdict
    <3>2. Resets
      BY <3>1, SettlesResets
    <3> QED BY <2>1, <3>1, <3>2, ResetKeeps
  <2>3. CASE StartsComposing
    <3>1. stage' = "compose" /\ drafted' = <<>> /\ parts' = PackItems(InitialItems) /\ reduced' = TRUE /\ UNCHANGED <<noteState, writeUp, shown>>
      BY <2>3 DEF StartsComposing
    <3> QED BY <2>1, <3>1, StartKeeps
  <2>4. CASE DraftReviewed
    <3>1. PICK coverage \in {"yes", "no", "unanswered"} :
            writeUp' = (coverage # "yes") /\ Settles(Picks, Picks, coverage # "yes", coverage = "no") /\ UNCHANGED <<noteState, reduced>>
      BY <2>4 DEF DraftReviewed
    <3>2. Resets
      BY <3>1, SettlesResets
    <3>3. writeUp' \in BOOLEAN
      BY <3>1, Zenon
    <3> QED BY <2>1, <3>1, <3>2, <3>3, ResetKeeps
  <2>5. CASE Settles(Picks, Picks, FALSE, FALSE) /\ UNCHANGED <<noteState, asked, writeUp, reduced>>
    <3>1. Resets
      BY <2>5, SettlesResets
    <3> QED BY <2>1, <2>5, <3>1, ResetKeeps
  <2> QED BY <1>3, <2>2, <2>3, <2>4, <2>5 DEF Conclude
<1>4. CASE ComposePart
  <2>1. stage = "compose" /\ Len(drafted) < Len(parts) /\ UNCHANGED <<stage, noteState, writeUp, parts, reduced, shown>>
    BY <1>4 DEF ComposePart
  <2>2. PICK claims \in Writes(parts[Len(drafted) + 1], Len(parts) = 1) : drafted' = Append(drafted, claims)
    BY <1>4 DEF ComposePart
  <2>3. drafted \in Seq(Seq(Claims)) /\ parts \in Seq(Seq(Lines(Around)))
    BY DEF RoundInv
  <2> DEFINE lines == parts[Len(drafted) + 1]
             lone == Len(parts) = 1
  <2>4. lines \in Seq(Lines(Around))
    BY <2>1, <2>3
  <2>5. lone \in BOOLEAN
    OBVIOUS
  <2> HIDE DEF lines, lone
  <2>6. claims \in Seq(Claims)
    BY <2>2, <2>4, <2>5, WritesAreClaims DEF lines, lone
  <2> DEFINE Q == Seq(Claims)
  <2>7. drafted \in Seq(Q) /\ claims \in Q
    BY <2>3, <2>6
  <2> HIDE DEF Q
  <2>8. drafted' \in Seq(Q) /\ Len(drafted') <= Len(parts)
    BY <2>1, <2>2, <2>3, <2>7
  <2>9. drafted' \in Seq(Seq(Claims)) /\ Len(drafted') <= Len(parts')
    BY <2>1, <2>8 DEF Q
  <2>10. read' = read /\ replaced' = replaced /\ picked' = picked /\ parts' = parts /\ stage' = stage /\ shown' = shown
         /\ reduced' = reduced /\ writeUp' = writeUp
    BY <2>1 DEF noteState
  <2>11. CarriesNotes'
    BY <2>10 DEF RoundInv, CarriesNotes
  <2> QED BY <2>9, <2>10, <2>11 DEF RoundInv
<1>5. CASE RoundEnds
  <2> DEFINE claims == Joined(drafted)
             next == PackItems(ClaimItems(claims))
  <2>1. stage = "compose" /\ UNCHANGED <<noteState, writeUp, shown>>
        /\ ((parts' = next /\ drafted' = <<>> /\ stage' = stage /\ reduced' = reduced)
            \/ (stage' = "review" /\ reduced' = (Len(parts) = 1) /\ UNCHANGED <<parts, drafted>>))
    BY <1>5 DEF RoundEnds
  <2>2. drafted \in Seq(Seq(Claims)) /\ parts \in Seq(Seq(Lines(Around))) /\ reduced \in BOOLEAN /\ writeUp \in BOOLEAN /\ shown = Absent
    BY <2>1 DEF RoundInv
  <2>3. claims \in Seq(Claims)
    BY <2>2, JoinedIsSeq
  <2> HIDE DEF claims
  <2>4. /\ next \in Seq(Seq(Lines(Around))) /\ \A i \in DOMAIN next : Weighed(next[i], Bytes(Around)) <= Room
        /\ ~\E p \in Range(next) : \E i \in Range(p) : i.around > 0
    BY <2>3, ClaimsPacked
  <2> HIDE DEF next
  <2>5. read' = read /\ replaced' = replaced /\ picked' = picked /\ shown' = shown /\ writeUp' = writeUp
    BY <2>1 DEF noteState
  <2>6. CASE parts' = next /\ drafted' = <<>> /\ stage' = stage /\ reduced' = reduced
    <3>1. drafted' \in Seq(Seq(Claims)) /\ Len(drafted') <= Len(parts')
      BY <2>4, <2>6
    <3>2. CarriesNotes'
      BY <2>4, <2>6 DEF CarriesNotes
    <3>3. parts' \in Seq(Seq(Lines(Around))) /\ \A i \in DOMAIN parts' : Weighed(parts'[i], Bytes(Around)) <= Room
      BY <2>4, <2>6
    <3> QED BY <2>1, <2>5, <2>6, <3>1, <3>2, <3>3 DEF RoundInv
  <2>7. CASE stage' = "review" /\ reduced' = (Len(parts) = 1) /\ UNCHANGED <<parts, drafted>>
    <3>1. CarriesNotes'
      BY <2>5, <2>7 DEF RoundInv, CarriesNotes
    <3>2. reduced' \in BOOLEAN
      BY <2>7, Zenon
    <3> QED BY <2>1, <2>2, <2>5, <2>7, <3>1, <3>2 DEF RoundInv
  <2> QED BY <2>1, <2>6, <2>7
<1>6. CASE Review
  <2>1. stage = "review" /\ UNCHANGED <<noteState, writeUp, reduced>> /\ reduced \in BOOLEAN /\ writeUp \in BOOLEAN
    BY <1>6 DEF Review, RoundInv
  <2>2. Resets
    BY <1>6, ReviewWell, SettlesResets
  <2> QED BY <2>1, <2>2, ResetKeeps
<1>7. CASE ComposeFails
  <2>1. stage = "compose" /\ (\E status : PartialResult(status)) /\ UNCHANGED <<noteState, writeUp, reduced>> /\ reduced \in BOOLEAN /\ writeUp \in BOOLEAN
    BY <1>7 DEF ComposeFails, RoundInv
  <2>2. Resets
    BY <2>1, PartialResets
  <2> QED BY <2>1, <2>2, ResetKeeps
<1>8. CASE StopsShort
  <2>1. stage = "acting" /\ noteState' = noteState /\ writeUp' = writeUp /\ reduced \in BOOLEAN /\ writeUp \in BOOLEAN
    BY <1>8 DEF StopsShort, RoundInv
  <2>2. CASE (\E status : PartialResult(status)) /\ reduced' = reduced
    <3>1. Resets
      BY <2>2, PartialResets
    <3> QED BY <2>1, <2>2, <3>1, ResetKeeps
  <2>3. CASE stage' = "compose" /\ parts' = PackItems(InitialItems) /\ drafted' = <<>> /\ reduced' = TRUE /\ shown' = shown
    BY <2>1, <2>3, StartKeeps
  <2> QED BY <1>8, <2>2, <2>3 DEF StopsShort
<1> QED BY <1>1, <1>2, <1>3, <1>4, <1>5, <1>6, <1>7, <1>8 DEF ComposingNext, Compose, ComposeEnded

LEMMA RoundTyped == RoundInv => ComposeTypeOK
<1> SUFFICES ASSUME RoundInv PROVE ComposeTypeOK
  OBVIOUS
<1>1. ASSUME NEW i \in DOMAIN parts PROVE AddedUp([j \in DOMAIN parts[i] |-> LineBytes(parts[i][j])]) <= Room
  <2> DEFINE p == parts[i]
  <2>1. p \in Seq(Lines(Around)) /\ Weighed(p, Bytes(Around)) <= Room
    BY DEF RoundInv
  <2> HIDE DEF p
  <2>2. \A j \in DOMAIN p : p[j] \in Lines(Around)
    BY <2>1
  <2>3. \A j \in DOMAIN p : Bytes(Around)[p[j]] = LineBytes(p[j])
    BY <2>2 DEF Bytes, LineBytes
  <2>4. [j \in DOMAIN p |-> Bytes(Around)[p[j]]] = [j \in DOMAIN p |-> LineBytes(p[j])]
    BY <2>3
  <2> QED BY <2>1, <2>4 DEF Weighed, p
<1>2. (stage = "ended") = (shown # Absent)
  BY DEF RoundInv
<1> QED BY <1>1, <1>2 DEF RoundInv, ComposeTypeOK

LEMMA RoundWhole == RoundInv => NothingDropped
<1> SUFFICES ASSUME RoundInv, \E p \in Range(parts) : \E i \in Range(p) : i.around > 0, NEW i \in 1..read
             PROVE  AddedUp([k \in DOMAIN Joined(parts) |-> IF i \in Joined(parts)[k].cites THEN Joined(parts)[k].size ELSE 0]) = NoteSize[i]
  BY DEF NothingDropped
<1> DEFINE o == Joined(parts)
           w == Carries(Around, i)
<1>1. Weighed(o, w) = NoteSize[i]
  BY DEF RoundInv, CarriesNotes
<1>2. o \in Seq(Lines(Around))
  BY JoinedIsSeq DEF RoundInv
<1> HIDE DEF o
<1>3. \A k \in DOMAIN o : o[k] \in Lines(Around)
  BY <1>2
<1>4. \A k \in DOMAIN o : w[o[k]] = IF i \in o[k].cites THEN o[k].size ELSE 0
  BY <1>3 DEF Carries
<1> HIDE DEF w
<1>5. [k \in DOMAIN o |-> w[o[k]]] = [k \in DOMAIN o |-> IF i \in o[k].cites THEN o[k].size ELSE 0]
  BY <1>4
<1> QED BY <1>1, <1>5 DEF Weighed, o

\* For notes of any sizes and however a composer rewords them, every note reaches
\* it whole, round after round; claims kept from a rejected draft are shown only
\* while the notes they were judged against are the notes there are; and an answer
\* ends the run complete only when it was checked (answers.rs `compose_packed`,
\* `review_claims`, state.rs `checked_composition`).
THEOREM AnswerIsKept == ComposingSpec => AnswerKept
<1>1. ComposingSpec => []RoundInv
  BY RoundBegins, RoundKept, PTL DEF ComposingSpec
<1>2. RoundInv => ComposeTypeOK /\ NothingDropped
  BY RoundTyped, RoundWhole
<1>3. ComposingSpec => []ShownWasJudged
  BY KeptClaimsWereJudged
<1>4. ComposingSpec => CompleteWasChecked
  BY CompleteIsChecked
<1> QED BY <1>1, <1>2, <1>3, <1>4, PTL DEF AnswerKept
=============================================================================
