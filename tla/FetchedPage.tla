----------------------------- MODULE FetchedPage -----------------------------
(* A page read over HTTP with no browser behind it (fetch/mod.rs): documents    *)
(* opened and links followed within the run's grant, redirects followed one at  *)
(* a time, and everything else left to a browser.                               *)
EXTENDS Integers, Sequences

CONSTANTS
  FetchUrls,        \* addresses: [origin, scheme, credentials]
  FetchGrant,       \* the allowed origins
  MaxRedirects,     \* MAX_REDIRECTS
  BlockLengths,     \* documents, each as the lengths of its blocks
  MaxFetchCalls     \* bound on the calls

ASSUME FetchAssumption == MaxRedirects \in Nat \ {0} /\ MaxFetchCalls \in Nat /\ BlockLengths \subseteq Seq(Nat)

VARIABLES
  gph,       \* idle, gate, fetch, got
  gcall,     \* the call: [op, url, guess]
  target,    \* the address to send next
  hops,
  requests,  \* every address a request was sent to
  loaded,    \* Loaded: [url, text, blocks, generation]
  escalates, \* needed_browser
  answered,      \* the last answer
  gcalls

fetchVars == <<gph, gcall, target, hops, requests, loaded, escalates, answered, gcalls>>

NoUrl == [origin |-> "none", scheme |-> "none", credentials |-> FALSE]
Nothing == [url |-> NoUrl, text |-> <<>>, blocks |-> <<>>, generation |-> 0]

\* The blocks one after the other, each followed by a blank line of two characters.
StartOf(lengths, i) ==
  LET at[k \in 1..Len(lengths)] == IF k = 1 THEN 0 ELSE at[k - 1] + lengths[k - 1] + 2 IN at[i]
SpanOf(lengths, i) == [start |-> StartOf(lengths, i), end |-> StartOf(lengths, i) + lengths[i]]
\* Each character named by the block it is of; 0 is the space between two.
TextOf(lengths) ==
  LET upTo[k \in 0..Len(lengths)] ==
        IF k = 0 THEN <<>> ELSE upTo[k - 1] \o [c \in 1..lengths[k] |-> k] \o <<0, 0>>
  IN upTo[Len(lengths)]
Captured(url, lengths) ==
  [url |-> url, text |-> TextOf(lengths), blocks |-> [i \in 1..Len(lengths) |-> SpanOf(lengths, i)]]

EligibleAtStart(url) == hops > 0 \/ (url.scheme \in {"http", "https"} /\ ~url.credentials /\ url.origin \in FetchGrant)
\* An address this may read: a document, without credentials, within the grant.
Eligible(url) == url.scheme \in {"http", "https"} /\ ~url.credentials /\ url.origin \in FetchGrant

\* What the answer's body comes to: the blocks of a document, or none.  None is a
\* coding this does not undo, a body past the bound once inflated, or no text.
Decoded == BlockLengths \cup {<<>>}

FetchInit ==
  /\ gph = "idle" /\ gcall = [op |-> "none", url |-> NoUrl, guess |-> FALSE] /\ target = NoUrl /\ hops = 0
  /\ requests = {} /\ loaded = Nothing /\ escalates = FALSE /\ answered = "none" /\ gcalls = 0

\* The run's call.  A click opens a link to another document; any other control, a
\* link to a place in this one, and any other operation is a browser's.
FetchCall ==
  /\ gph = "idle" /\ gcalls < MaxFetchCalls /\ gcalls' = gcalls + 1 /\ gph' = "gate"
  /\ \/ \E url \in FetchUrls, guess \in BOOLEAN : gcall' = [op |-> "navigate", url |-> url, guess |-> guess]
     \/ \E url \in FetchUrls : gcall' = [op |-> "follow", url |-> url, guess |-> FALSE]
     \/ \E op \in {"read", "screenshot", "press"} : gcall' = [op |-> op, url |-> NoUrl, guess |-> FALSE]
  /\ UNCHANGED <<target, hops, requests, loaded, escalates, answered>>

Answering(answer) == answered' = answer /\ gph' = "idle"
NeedsBrowser == Answering("needs browser") /\ escalates' = TRUE
\* A guessed address that is not fetched is a failure of the guess, no reason for a browser.
NotFetched ==
  IF gcall.guess THEN Answering("failed") /\ UNCHANGED escalates ELSE NeedsBrowser

\* The caller's gate, asked again at every call; then what the call needs.
GateCall ==
  /\ gph = "gate"
  /\ \/ Answering("denied") /\ UNCHANGED <<target, hops, escalates>>
     \/ /\ gcall.op \in {"navigate", "follow"}
        /\ IF gcall.op = "navigate" \/ (loaded # Nothing /\ gcall.url # loaded.url /\ gcall.url.scheme \in {"http", "https"})
           THEN gph' = "fetch" /\ target' = gcall.url /\ hops' = 0 /\ UNCHANGED <<answered, escalates>>
           ELSE NeedsBrowser /\ UNCHANGED <<target, hops>>
     \/ /\ gcall.op = "read" /\ UNCHANGED <<target, hops>>
        /\ IF loaded = Nothing THEN NeedsBrowser ELSE Answering("read") /\ UNCHANGED escalates
     \/ gcall.op = "screenshot" /\ Answering("no pixels") /\ UNCHANGED <<target, hops, escalates>>
     \/ gcall.op = "press" /\ NeedsBrowser /\ UNCHANGED <<target, hops>>
  /\ UNCHANGED <<gcall, requests, loaded, gcalls>>

\* One request at a time, its address judged before it is sent.
FetchDocument ==
  /\ gph = "fetch"
  /\ IF ~Eligible(target) \/ hops = MaxRedirects
     THEN NotFetched /\ UNCHANGED <<target, hops, requests, loaded>>
     ELSE /\ requests' = requests \cup {target} /\ hops' = hops + 1
          /\ \/ \E url \in FetchUrls : target' = url /\ UNCHANGED <<gph, loaded, answered, escalates>>
             \* Unreachable, an error status or a type this does not read end as no text does.
             \/ \E lengths \in Decoded :
                  /\ UNCHANGED target
                  /\ IF lengths = <<>> THEN NotFetched /\ UNCHANGED loaded
                     ELSE /\ LET c == Captured(target, lengths) IN
                             loaded' = [url |-> c.url, text |-> c.text, blocks |-> c.blocks,
                                        generation |-> loaded.generation + 1]
                          /\ Answering("executed") /\ UNCHANGED escalates
  /\ UNCHANGED <<gcall, gcalls>>

FetchWork == GateCall \/ FetchDocument
FetchNext == FetchCall \/ FetchWork

----------------------------------------------------------------------------

\* No request leaves for an address outside the grant, one carrying credentials, or
\* one that is no document, however the pages before it redirect
\* (`fetch_document`); and the page read is one a request was sent for.
RequestsWithinGrant ==
  /\ \A url \in requests : url.scheme \in {"http", "https"} /\ ~url.credentials /\ url.origin \in FetchGrant
  /\ loaded # Nothing => loaded.url \in requests

\* What a quote is checked against is the block's own text: every span holds the
\* characters of its block and of no other (`capture`).
SpansAreTheBlocks ==
  \A i \in 1..Len(loaded.blocks) :
    LET b == loaded.blocks[i] IN
    /\ b.end <= Len(loaded.text)
    /\ {c \in 1..Len(loaded.text) : loaded.text[c] = i} = (b.start + 1)..b.end
=============================================================================
