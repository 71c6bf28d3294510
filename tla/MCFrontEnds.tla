---------------------------- MODULE MCFrontEnds ----------------------------
(* The two servers for TLC, one of them in each behaviour: `serve` with two   *)
(* run requests of one client, and the MCP server with three calls, the third *)
(* under the id of the first.                                                 *)
EXTENDS ServeSession, McpServer

CONSTANTS first, second

VARIABLE part

OwnNames == [r \in Requests |-> r]

Shop == [scheme |-> "https", host |-> <<"shop", "example">>, port |-> 0]
Secret(o) == [name |-> "password", origin |-> [scheme |-> "https", host |-> o, port |-> 0, wild |-> FALSE], set |-> TRUE]
Setup == [http |-> FALSE, token |-> FALSE, loopback |-> TRUE, local |-> TRUE, headed |-> FALSE, profile |-> FALSE, extension |-> FALSE,
          cloudProfile |-> FALSE, key |-> FALSE, chrome |-> TRUE, models |-> TRUE, concurrent |-> 1, above0 |-> TRUE, ceilings |-> 2,
          authorize |-> TRUE, secrets |-> <<Secret(Shop.host)>>]
MCSetups ==
  {[Setup EXCEPT !.concurrent = n, !.ceilings = s, !.profile = p] : n \in {0, 1, 2}, s \in {0, 2}, p \in BOOLEAN}
  \cup {[Setup EXCEPT !.http = TRUE, !.token = t, !.loopback = l] : t, l \in BOOLEAN}
  \cup {[Setup EXCEPT !.authorize = FALSE], [Setup EXCEPT !.extension = TRUE], [Setup EXCEPT !.local = FALSE], [Setup EXCEPT !.models = FALSE]}

Browse(id) == [id |-> id, tool |-> TRUE, valid |-> TRUE, start |-> "page", origin |-> Shop, authorize |-> FALSE, item |-> "none", token |-> TRUE,
               seconds |-> 1, hangs |-> FALSE]
MCBrowses == <<[Browse("a") EXCEPT !.hangs = TRUE], [Browse("b") EXCEPT !.seconds = 0, !.token = FALSE, !.authorize = TRUE], [Browse("a") EXCEPT !.token = FALSE]>>

Http(s) == [path |-> "mcp", method |-> "POST", bearer |-> TRUE, json |-> TRUE, host |-> TRUE, origin |-> TRUE, accepts |-> TRUE,
            version |-> TRUE, session |-> s]
MCWire == {Http("none"), Http("ours"), [Http("ours") EXCEPT !.method = "DELETE"]}

MCInit ==
  /\ Init /\ McpInit
  /\ part \in {"serve", "mcp"}
  /\ part = "serve" => conf = CHOOSE a \in Setups : Configure(a)
MCNext ==
  \/ part = "serve" /\ Next /\ UNCHANGED <<mvars, part>>
  \/ part = "mcp" /\ McpNext /\ UNCHANGED <<vars, part>>
  \/ part = "mcp" /\ posted = Len(Browses) /\ (\A c \in DOMAIN call : call[c].at = "gone") /\ UNCHANGED <<vars, mvars, part>>
MCSpec == MCInit /\ [][MCNext]_<<vars, mvars, part>> /\ Fairness /\ McpFairness

----------------------------------------------------------------------------
\* Whatever a client sends or stops sending, every MCP call is answered, `serve`
\* ends once its input has, and refuses a run as busy only while an earlier one is
\* unanswered.
FrontEndsAnswer == BusyMeansUnanswered /\ ServerExits /\ EveryCallAnswered
=============================================================================
