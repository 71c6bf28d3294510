------------------------------ MODULE MCAgentLoop ------------------------------
(* A shop of two addresses: its front page, which can draw nothing, and the *)
(* list's next page, served with an error status.  Each task meets a choice *)
(* of its own on each view, so that the tasks add up and do not multiply.   *)
EXTENDS AgentLoop
CONSTANTS home, blank, next

Url == [v \in Views |-> IF v = next THEN next ELSE home]

Says(ops, fails, shows, walls) ==
  [op : ops, fails : fails, shows : shows, wall : walls]
Plainly(ops) == Says(ops, {FALSE}, {FALSE}, {"none"})

Any == [authorized |-> FALSE, intent |-> "text", schema |-> FALSE, every_page |-> FALSE,
        until |-> FALSE, http |-> FALSE, limited |-> FALSE, fails |-> FALSE, moves |-> 0]
Buying  == [Any EXCEPT !.authorized = TRUE, !.intent = "carried_out", !.moves = 1]
Listing == [Any EXCEPT !.every_page = TRUE, !.until = TRUE]
Fetched == [Any EXCEPT !.intent = "text_image", !.http = TRUE, !.limited = TRUE,
                       !.fails = TRUE]
Filling == [Any EXCEPT !.schema = TRUE]
Checked == [Any EXCEPT !.until = TRUE]

Buys == [v \in Views |->
  CASE v = home  -> Plainly({"click"})
    [] v = next  -> Says({"navigate"}, {TRUE}, {FALSE}, {"none"})
    [] v = blank -> Plainly({"done"})]
Reads == [v \in Views |->
  CASE v = home  -> Says({"done"}, {FALSE}, BOOLEAN, {"none"})
    [] v = next  -> Plainly({"read", "done"}) \cup Says({"done"}, {TRUE}, {TRUE}, {"none"})
    [] v = blank -> Says({"other"}, {FALSE}, {FALSE}, {"none", "login", "bot"})]
Fills == [v \in Views |->
  CASE v = home  -> Plainly({"fill"})
    [] v = next  -> Plainly({"done"})
    [] v = blank -> Plainly({"fill"})]
Shop == [t \in Tasks |-> IF t.intent = "carried_out" THEN Buys
                         ELSE IF t.schema THEN Fills ELSE Reads]

Given == {Buying, Listing, Fetched, Filling}
GivenUntil == {Checked}

----------------------------------------------------------------------------
\* A run without limits ends, and is never long without getting anywhere
\* (`count_progress`, `recover`).
RunEndsInTime == RunEnds /\ []StallBounded
=============================================================================
