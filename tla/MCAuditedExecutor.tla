--------------------------- MODULE MCAuditedExecutor ---------------------------
(***************************************************************************)
(* The instances of MCExecutor, with the audit trail.                      *)
(***************************************************************************)
EXTENDS AuditedExecutor, MCExecutor, TLC

\* A step that meets what an earlier one did to its object, with a stamp,
\* without one and by a cascade; and a create.
FaultPlans == {<<Noop(1), Upd(1), Upd(1)>>, <<Upd(2), Upd(2)>>, <<Del(1), Upd(2)>>, <<Cre>>}
FaultRequests == {Req("apply", TRUE), Req("apply", FALSE), Req("rollback", FALSE)}

\* Both callers have the same settings, so the two with their processes can
\* trade places.
MCLinked == [p \in Procs |-> [write_mode |-> "full", allow_delete |-> TRUE,
                              url_matches |-> TRUE, link_changelog |-> TRUE]]
Swap == {f \in Permutations({g, c, gateway, shell}) :
            {f[g], f[c]} = {g, c} /\ (f[g] = g <=> f[gateway] = gateway)}
================================================================================
