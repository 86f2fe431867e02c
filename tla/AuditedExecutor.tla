----------------------------- MODULE AuditedExecutor -----------------------------
(***************************************************************************)
(* Executor with the audit trail it writes.  Every handler and every save   *)
(* of the executor is followed by one audit.emit; the two are not atomic,   *)
(* so another caller may act, or the process die, in between, and the       *)
(* append to the trail may be refused without anybody being told.           *)
(*                                                                          *)
(* An event is its name and the journal position it is about, 0 for none.   *)
(* The trail has the events about an entry of the journal; those of a call  *)
(* (started, finished, refused, checked, pruned, linked) are owed and       *)
(* emitted like the rest, and not kept.                                     *)
(***************************************************************************)
EXTENDS Executor

VARIABLES
    owed,     \* per caller: the event that follows its last save, or Silence
    trail,    \* audit.jsonl: the events about journal entries, oldest first
    \* history
    unsaid    \* events about entries whose teller died or raised, or whose append was refused

audit == <<owed, trail, unsaid>>
auditedVars == <<vars, audit>>

Told(name) == [event |-> name, n |-> 0]
Silence == Told("")
StepEvent(n, e) ==
    [event |-> CASE e.status = "done" -> "step_done"
                 [] e.status = "skipped" -> "step_skipped"
                 [] e.status = "conflict" -> "step_conflict"
                 [] OTHER -> "step_failed",
     n |-> n]
RevertEvent(n, e) ==
    [event |-> CASE e.revert = "reverted" -> "revert_reverted"
                 [] e.revert = "conflict" -> "revert_conflict"
                 [] OTHER -> "revert_failed",
     n |-> n]

AuditInit ==
    /\ Init
    /\ owed = [p \in Procs |-> Silence] /\ trail = <<>> /\ unsaid = {}

\* Nothing is due: the caller may go on.
Settled(p) == owed[p] = Silence
Owes(p, e) == owed' = [owed EXCEPT ![p] = e] /\ UNCHANGED <<trail, unsaid>>
Quietly == UNCHANGED audit

-----------------------------------------------------------------------------
(* Calls and claims.                                                       *)

Refusal(op) == Told(IF op = "rollback" THEN "rollback_refused" ELSE "apply_refused")

Arrives(p) ==
    \/ CallTurnedAway(p) /\ Owes(p, Refusal(req'[p].op))
    \/ CallAdmitted(p) /\ Quietly
    \/ PruneReads(p) /\ Quietly
    \/ PruneUnlinks(p) /\ Owes(p, Told("plans_pruned"))
    \/ CheckSaves(p) /\ Owes(p, Told("plan_checked"))

\* The claim of an automatic rollback is refused in the name of its apply.
Claims(p) ==
    \/ TakeStoreLock(p) /\ Quietly
    \/ ClaimRefused(p) /\ Owes(p, Refusal(req[p].op))
    \/ ClaimReads(p) /\ Quietly
    \/ ApplyClaimSaves(p) /\ Owes(p, Told("apply_started"))
    \/ RollbackClaimSaves(p) /\ Owes(p, Told("rollback_started"))

-----------------------------------------------------------------------------
(* The two loops: save the entry, then say so.                             *)

\* Mutant: the event goes out as soon as NetBox has answered.
RunsStepsSaidFirst(p) ==
    \/ CheckStep(p) /\ Quietly
    \/ StepWrites(p) /\ Owes(p, StepEvent(Position(p), entry'[p]))
    \/ StepRejected(p) /\ Quietly
    \/ RecordStep(p) /\ Quietly
RunsSteps(p) ==
    \/ CheckStep(p) /\ Quietly
    \/ StepWrites(p) /\ Quietly
    \/ StepRejected(p) /\ Quietly
    \/ RecordStep(p) /\ Owes(p, StepEvent(Position(p), entry[p]))

RunsReverts(p) ==
    \/ ReadBack(p) /\ Quietly
    \/ UndoWrites(p) /\ Quietly
    \/ UndoRejected(p) /\ Quietly
    \/ /\ RecordRevert(p)
       /\ \E i \in Newest(todo[p]) : Owes(p, RevertEvent(i, entry[p]))

Finishes(p) ==
    \/ Link(p) /\ Owes(p, IF Settings[p].link_changelog THEN Told("changelog_linked") ELSE Silence)
    \/ FinishApply(p) /\ Owes(p, Told("apply_finished"))
    \/ FinishRollback(p) /\ Owes(p, Told("rollback_finished"))

-----------------------------------------------------------------------------
(* audit.emit, and what happens around it.                                 *)

AboutAnEntry(e) == e.n # 0

\* The callers S will never say what they owe.
Mute(S) ==
    /\ owed' = [p \in Procs |-> IF p \in S THEN Silence ELSE owed[p]]
    /\ unsaid' = unsaid \cup {e \in {owed[p] : p \in S} : AboutAnEntry(e)}
    /\ UNCHANGED trail

Says(p) ==
    /\ ~Settled(p)
    /\ owed' = [owed EXCEPT ![p] = Silence]
    /\ trail' = IF AboutAnEntry(owed[p]) THEN Append(trail, owed[p]) ELSE trail
    /\ UNCHANGED <<vars, unsaid>>

\* The append to audit.jsonl raises: emit logs that, and the run goes on.
AppendRefused(p) ==
    /\ "audit" \in Faults
    /\ ~Settled(p) /\ Mute({p})
    /\ UNCHANGED vars

\* A call has returned in Executor and has yet to say so.
OnlyBreaks(S, how) ==
    /\ broken' = [p \in Procs |-> IF p \in S THEN how ELSE broken[p]]
    /\ UNCHANGED <<plan, world, locks, pc, req, calls, work, edits, history>>

\* A save that raises is not followed by its event: what is owed is owed for
\* the save that has just put its text into place.
Raises(p) ==
    /\ \/ StoreRaises(p) /\ (IF Settled(p) THEN WritesNext(p) ELSE JustSaved(p))
       \/ /\ "store" \in Faults /\ pc[p] = "idle"
          /\ owed[p].event \in {"apply_finished", "rollback_finished", "plan_checked"}
          /\ OnlyBreaks({p}, "raised")
    /\ Mute({p})

\* A process may also die when all that is left of a call is to say so.
Dies(h) ==
    LET mute == {p \in Procs : Host[p] = h /\ ~Settled(p)} IN
    /\ \/ Crash(h)
       \/ /\ "crash" \in Faults /\ mute # {}
          /\ \A p \in Procs : Host[p] = h => pc[p] = "idle"
          /\ OnlyBreaks(mute, "died")
    /\ Mute(mute)

Others == (ForeignEdit \/ ForeignDelete \/ ForeignCreate \/ PlanAges \/ RetentionPasses) /\ Quietly

AuditedNext ==
    \/ \E p \in Procs :
          \/ Settled(p) /\ (Arrives(p) \/ Claims(p) \/ RunsSteps(p) \/ RunsReverts(p) \/ Finishes(p))
          \/ Says(p) \/ AppendRefused(p) \/ Raises(p)
    \/ \E h \in Hosts : Dies(h)
    \/ Others

AuditedSpec == AuditInit /\ [][AuditedNext]_auditedVars

-----------------------------------------------------------------------------
(* Properties.                                                             *)

IsStep(e) == e.event \in {"step_done", "step_skipped", "step_conflict", "step_failed"}
IsRevert(e) == e.event \in {"revert_reverted", "revert_conflict", "revert_failed"}

\* About to be said, or lost: its teller died or raised, or the append was refused.
Unsaid(e) == (\E p \in Procs : owed[p] = e) \/ e \in unsaid
Said(e) == \E k \in DOMAIN trail : trail[k] = e
\* The latest revert told of position n is this one.
LastSaid(e) ==
    \E k \in DOMAIN trail :
        trail[k] = e /\ \A j \in k..Len(trail) : IsRevert(trail[j]) /\ trail[j].n = e.n => trail[j] = e

\* "The executor emits an audit event after every persisted state change, so
\* the stream and the plan file never disagree about what was attempted"
\* (docs/architecture.md): what the journal says of a position is the last
\* thing the trail says of it, or is about to be said, or was lost with its
\* teller or to a refused append; the trail is never ahead of the journal, and
\* what it does tell it tells in order, every step before the first revert,
\* which is of a step done.
TrailAgrees ==
    file # NoPlan =>
        /\ \A n \in DOMAIN file.journal :
              LET step == StepEvent(n, file.journal[n])
                  revert == RevertEvent(n, file.journal[n]) IN
              /\ Said(step) \/ Unsaid(step)
              /\ file.journal[n].revert # "none" => LastSaid(revert) \/ Unsaid(revert)
        /\ \A k \in DOMAIN trail : LET e == trail[k] IN
              /\ IsStep(e) =>
                    /\ e.n \in DOMAIN file.journal /\ e = StepEvent(e.n, file.journal[e.n])
                    /\ \A j \in 1..(k - 1) : ~IsRevert(trail[j]) /\ (IsStep(trail[j]) => trail[j].n < e.n)
              /\ IsRevert(e) => e.n \in DonePositions(file)
================================================================================
