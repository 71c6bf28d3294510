----------------------------- MODULE ActPromise -----------------------------
(***************************************************************************)
(* What one call of `act` promises its caller                              *)
(* (crates/fastbrowse-browser/src/page/act.rs): the action has its effect  *)
(* at most once; STALE and COVERED mean it had none, EXECUTED that it had, *)
(* and a failure or an error may come after it.                            *)
(***************************************************************************)
EXTENDS Naturals

VARIABLES phase, effects
pvars == <<phase, effects>>

PromiseInit == phase = "idle" /\ effects = 0
Ask == phase = "idle" /\ phase' = "asked" /\ UNCHANGED effects
Effect == phase \in {"asked"} /\ effects = 0 /\ effects' = 1 /\ phase' \in {"asked", "failed", "error", "executed"}
Refuse == phase \in {"idle", "asked"} /\ effects = 0 /\ phase' \in {"stale", "covered"} /\ UNCHANGED effects
Fail == phase = "asked" /\ phase' \in {"failed", "error"} /\ UNCHANGED effects
Execute == phase = "asked" /\ effects = 1 /\ phase' = "executed" /\ UNCHANGED effects

PromiseNext == Ask \/ Effect \/ Refuse \/ Fail \/ Execute
PromiseSpec == PromiseInit /\ [][PromiseNext]_pvars
=============================================================================
