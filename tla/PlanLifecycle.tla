----------------------------- MODULE PlanLifecycle -----------------------------
(***************************************************************************)
(* What the plugin promises about one plan, without processes, locks,      *)
(* files or a NetBox: the state machine of docs/architecture.md read off   *)
(* executor.apply_plan and executor.rollback_plan.  A plan is applied at   *)
(* most once, its steps are done in order, a done step is reverted at most *)
(* once and only by a rollback, and the two final statuses of a rollback   *)
(* say whether anything is left to revert.                                 *)
(***************************************************************************)
EXTENDS Naturals, FiniteSets

VARIABLES
    size,      \* how many steps the plan has
    status,    \* plan["status"]
    handled,   \* how many steps have a journal entry
    done,      \* the steps whose entry is "done"
    reverted   \* the steps whose entry has revert_status "reverted"

lifecycle == <<size, status, handled, done, reverted>>

Rollbackable == {"applied", "failed", "partially_rolled_back"}

Init ==
    /\ size \in Nat
    /\ status = "planned"
    /\ handled = 0
    /\ done = {}
    /\ reverted = {}

StartApply ==
    /\ status = "planned"
    /\ status' = "applying"
    /\ UNCHANGED <<size, handled, done, reverted>>

\* The next step gets its journal entry: done, or skipped, conflict or failed.
Journal ==
    /\ status = "applying"
    /\ handled < size
    /\ handled' = handled + 1
    /\ done' \in {done, done \cup {handled + 1}}
    /\ UNCHANGED <<size, status, reverted>>

FinishApply ==
    /\ status = "applying"
    /\ status' \in IF handled = size THEN {"applied", "failed"} ELSE {"failed"}
    /\ UNCHANGED <<size, handled, done, reverted>>

StartRollback ==
    /\ status \in Rollbackable
    /\ status' = "rolling_back"
    /\ UNCHANGED <<size, handled, done, reverted>>

Revert ==
    /\ status = "rolling_back"
    /\ \E i \in done \ reverted : reverted' = reverted \cup {i}
    /\ UNCHANGED <<size, status, handled, done>>

FinishRollback ==
    /\ status = "rolling_back"
    /\ status' = IF done = reverted THEN "rolled_back" ELSE "partially_rolled_back"
    /\ UNCHANGED <<size, handled, done, reverted>>

Next ==
    \/ StartApply \/ Journal \/ FinishApply
    \/ StartRollback \/ Revert \/ FinishRollback

Spec == Init /\ [][Next]_lifecycle
================================================================================
