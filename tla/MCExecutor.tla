------------------------------- MODULE MCExecutor -------------------------------
(***************************************************************************)
(* Small instances of Executor: a gateway thread "g" (a model's tool call) *)
(* and a shell "c" (`hermes netbox`), two or three NetBox objects and room *)
(* for what a plan creates.                                                *)
(***************************************************************************)
EXTENDS Executor

CONSTANTS g, g2, c, gateway, shell, k

MCHost == [p \in Procs |-> IF p = c THEN shell ELSE gateway]
MCFull == [p \in Procs |-> [write_mode |-> "full", allow_delete |-> TRUE,
                            url_matches |-> TRUE, link_changelog |-> p = c]]
\* operator_only, deletes off: the gateway's model may check, not write.
MCGated == [p \in Procs |-> [write_mode |-> "operator_only", allow_delete |-> FALSE,
                             url_matches |-> TRUE, link_changelog |-> FALSE]]
MCNoParent == [i \in Ids |-> NoId]
\* Deleting object 1 deletes object 2.
MCParent == [i \in Ids |-> IF i = 2 THEN 1 ELSE NoId]

St(action, obj, key) ==
    [action |-> action, obj |-> obj, key |-> key,
     stamp |-> IF action \in {"update", "delete"} /\ obj \notin Stampless THEN 1 ELSE 0]
Upd(i) == St("update", i, NoKey)
Del(i) == St("delete", i, NoKey)
Cre == St("create", NoId, k)
CreFree == St("create", NoId, NoKey)
Noop(i) == St("noop", i, NoKey)

CorePlans == {<<Upd(1), Cre>>, <<Cre, Del(1)>>, <<Del(1), Upd(2)>>}
OnePlan == {<<Upd(1), CreFree>>}
OneStep == {<<Upd(1)>>}

Req(op, flag) == [op |-> op, flag |-> flag]
CoreRequests == {Req("apply", TRUE), Req("rollback", FALSE)}
WithForce == CoreRequests \cup {Req("rollback", TRUE)}
WithCheck == {Req("apply", FALSE), Req("check", FALSE)}
EveryTool == CoreRequests \cup {Req("check", FALSE), Req("prune", FALSE)}
================================================================================
