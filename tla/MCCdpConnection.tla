-------------------------- MODULE MCCdpConnection --------------------------
(* Instances of the connection for TLC: `click` and `check` (a `wedged`    *)
(* check) address the tab, `read` a frame of it.                           *)
EXTENDS CdpConnection, TLC

CONSTANTS click, read, check, tab, frame

MCSessionOf == [c \in Commands |-> IF c = read THEN frame ELSE tab]

\* The rounds a command has before its deadline.  Two commands in a round at
\* once only repeat what one does to the table.
NoRounds == [c \in Commands |-> 0]
ReadOnly == [c \in Commands |-> IF c = read THEN 1 ELSE 0]
=============================================================================
