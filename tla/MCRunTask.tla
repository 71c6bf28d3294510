------------------------------ MODULE MCRunTask ------------------------------
(* RunTask for TLC.                                                         *)
EXTENDS RunTask

Option(via, attach, reads, fetch, record, dollars) ==
  [via |-> via, attach |-> attach, reads |-> reads, fetch |-> fetch,
   record |-> record, dollars |-> dollars, banners |-> TRUE]

(* A run that reads first carries no recording and attaches to nothing.     *)
ReadingTasks ==
  { Option("local", FALSE, TRUE, TRUE, FALSE, FALSE),
    Option("local", FALSE, TRUE, FALSE, FALSE, TRUE),
    Option("cloud", FALSE, TRUE, FALSE, FALSE, FALSE) }

BrowserTasks ==
  { Option("handed", TRUE, FALSE, FALSE, TRUE, FALSE),
    Option("extension", FALSE, FALSE, FALSE, TRUE, FALSE),
    [Option("local", FALSE, FALSE, FALSE, TRUE, FALSE) EXCEPT !.banners = FALSE],
    Option("cloud", FALSE, FALSE, FALSE, TRUE, FALSE) }

AllTasks == ReadingTasks \cup BrowserTasks

(* A run ends: nothing is left to do but what goes on behind it.            *)
Over == Done /\ UNCHANGED vars

MCSpec     == Init /\ [][Next \/ Over]_vars
MCFairSpec == MCSpec /\ Fairness

----------------------------------------------------------------------------
\* A stop is heeded: a cancelled run returns, and with a dollar limit no call is
\* sent after an unpriced one (`Cancel::guard`, `Ledger::reserve`).
StopsHeeded == CancelReturns /\ NothingPastUnpriced
=============================================================================
