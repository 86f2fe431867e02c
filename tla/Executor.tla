-------------------------------- MODULE Executor --------------------------------
(***************************************************************************)
(* One plan file, the callers that apply it, check it, roll it back or     *)
(* prune it, and the NetBox they write to.                                 *)
(*                                                                         *)
(* A caller is one thread: a gateway tool call, a /netbox command or a     *)
(* `hermes netbox` shell command.  Threads with the same Host share a      *)
(* Python process: its PlanStore lock, its death.  Each network call, each *)
(* file write and each wait for a lock is one step, so callers and foreign *)
(* NetBox users interleave wherever the code lets them.                    *)
(*                                                                         *)
(* Data are abstracted to what decides a branch: an object is its life,    *)
(* its match key, who wrote the planned fields last and its last_updated   *)
(* stamp (0: the object type has none).                                    *)
(***************************************************************************)
EXTENDS Naturals, Sequences, FiniteSets

CONSTANTS
    Procs,          \* callers
    Host,           \* [Procs -> process the caller runs in]
    Operators,      \* callers whose actor kind is "operator"
    Settings,       \* [Procs -> settings the caller's process has loaded]
    Ids,            \* NetBox object ids, handed out in increasing order
    Existing,       \* ids of the objects there are at planning time
    Stampless,      \* ids whose API object has no last_updated
    Parent,         \* [Ids -> id whose deletion cascades to the object]
    Keys,           \* what an upsert's match looks for
    Plans,          \* step sequences a plan may have
    Requests,       \* calls made: subset of Request
    Faults,         \* subset of {"reject", "lost", "crash", "store", "audit", "age", "retention"}
    MaxCalls,       \* bound: calls made
    MaxEdits,       \* bound: foreign writes to NetBox
    NoPlan, NoId, NoKey, Nobody

Request == [op : {"apply", "rollback", "check", "prune"}, flag : BOOLEAN]
Step == [action : {"noop", "create", "update", "delete"},
         obj : Ids \cup {NoId}, key : Keys \cup {NoKey}, stamp : Nat]
Setting == [write_mode : {"full", "operator_only", "read_only"},
            allow_delete : BOOLEAN, url_matches : BOOLEAN, link_changelog : BOOLEAN]

\* create carries no id and the others name an object, with the stamp it
\* had at planning time if it has one; that is how planner._step builds them.
WellFormed(s) ==
    /\ s.action = "create" => s.obj = NoId
    /\ s.action # "create" => s.obj \in Existing
    /\ s.action \in {"update", "delete"} => s.stamp = IF s.obj \in Stampless THEN 0 ELSE 1

ASSUME ConstantsAssumption ==
    /\ Operators \subseteq Procs
    /\ DOMAIN Host = Procs
    /\ Settings \in [Procs -> Setting]
    /\ Ids \subseteq Nat
    /\ Existing \subseteq Ids /\ Stampless \subseteq Ids
    /\ Parent \in [Ids -> Ids \cup {NoId}]
    /\ Requests \subseteq Request
    /\ MaxCalls \in Nat /\ MaxEdits \in Nat
    /\ NoId \notin Ids /\ NoKey \notin Keys /\ Nobody \notin Procs

ASSUME PlansAssumption ==
    \A s \in Plans : s \in Seq(Step) /\ \A i \in 1..Len(s) : WellFormed(s[i])

VARIABLES
    steps,     \* plan["steps"]
    world,     \* NetBox
    file,      \* the plan file: [status, journal], or NoPlan
    old,       \* updated_at in the file is past plan_retention_days
    aged,      \* created_at is past max_plan_age_hours
    rlock,     \* per process: holder of PlanStore._lock
    flock,     \* holder of <plans>/.lock
    pc,        \* where each caller is
    req,       \* what it was asked
    mem,       \* its in-memory copy of the plan
    todo,      \* rollback: positions of `pending` not yet reverted
    missed,    \* rollback: counts["conflict"] + counts["failed"] > 0
    entry,     \* the journal entry the step in progress will save
    seen,      \* the stamp its latest GET returned
    broken,    \* its latest call broke off: "no", "raised" or "died"
    calls, edits,
    \* history, read by properties only
    claims,    \* successful planned -> applying claims
    landed,    \* steps whose apply write took effect in NetBox
    undone,    \* steps whose inverse write took effect, per position
    clobbered  \* unforced plan writes that overwrote a foreign edit

plan == <<steps, file, old, aged>>
locks == <<rlock, flock>>
work == <<mem, todo, missed, entry, seen>>
asked == <<req, broken, calls>>
history == <<claims, landed, undone, clobbered>>
vars == <<steps, world, file, old, aged, rlock, flock, pc, req, mem, todo, missed,
          entry, seen, broken, calls, edits, claims, landed, undone, clobbered>>

Hosts == {Host[p] : p \in Procs}
N == Len(steps)
APPLYABLE == {"planned"}
\* Mutant: a rollback in progress may be rolled back.
RollbackableAnyway == {"applied", "failed", "partially_rolled_back", "rolling_back"}
ROLLBACKABLE == {"applied", "failed", "partially_rolled_back"}
IN_FLIGHT == {"applying", "rolling_back"}
Status == APPLYABLE \cup ROLLBACKABLE \cup IN_FLIGHT \cup {"rolled_back"}

Entry == [status : {"done", "skipped", "conflict", "failed"},
          obj : Ids \cup {NoId},      \* entry["object_id"]
          after : Nat,                \* entry["after_last_updated"]
          revert : {"none", "reverted", "conflict", "failed"},
          new : Ids \cup {NoId},      \* entry["revert"]["new_object_id"]
          dropped : BOOLEAN]          \* entry["revert"]["dropped_fields"] names some
Doc == [status : Status, journal : Seq(Entry)]

ASSUME SentinelAssumption == NoPlan \notin Doc

\* Mutant: revert_status starts out as the status.
NewEntryReverted(status, obj, after) ==
    [status |-> status, obj |-> obj, after |-> after, revert |-> status,
     new |-> NoId, dropped |-> FALSE]
NewEntry(status, obj, after) ==
    [status |-> status, obj |-> obj, after |-> after, revert |-> "none",
     new |-> NoId, dropped |-> FALSE]
NoEntry == NewEntry("skipped", NoId, 0)

Object == [live : BOOLEAN, val : {"none", "orig", "partial", "plan", "foreign"},
           ver : Nat, key : Keys \cup {NoKey}]
TypeOK ==
    /\ steps \in Plans
    /\ world \in [Ids -> Object]
    /\ file \in Doc \cup {NoPlan}
    /\ old \in BOOLEAN /\ aged \in BOOLEAN
    /\ rlock \in [Hosts -> Procs \cup {Nobody}]
    /\ flock \in Procs \cup {Nobody}
    /\ pc \in [Procs -> {"idle", "claim", "wait", "save", "step", "write", "record",
                         "undo", "unwrite", "repost", "rerecord", "link", "finish",
                         "check", "prune"}]
    /\ req \in [Procs -> Request]
    /\ mem \in [Procs -> Doc \cup {NoPlan}]
    /\ todo \in [Procs -> SUBSET Nat]
    /\ missed \in [Procs -> BOOLEAN]
    /\ entry \in [Procs -> Entry]
    /\ seen \in [Procs -> Nat]
    /\ broken \in [Procs -> {"no", "raised", "died"}]
    /\ calls \in Nat /\ edits \in Nat
    /\ claims \in Nat
    /\ landed \subseteq Nat
    /\ undone \in [1..N -> Nat]
    /\ clobbered \subseteq {"apply", "rollback"} \X {"raced", "blind"}

Init ==
    /\ steps \in Plans
    /\ world = [i \in Ids |->
                  IF i \in Existing
                  THEN [live |-> TRUE, val |-> "orig", ver |-> 1, key |-> NoKey]
                  ELSE [live |-> FALSE, val |-> "none", ver |-> 0, key |-> NoKey]]
    /\ file = [status |-> "planned", journal |-> <<>>]
    /\ old = FALSE /\ aged = FALSE
    /\ rlock = [h \in Hosts |-> Nobody] /\ flock = Nobody
    /\ pc = [p \in Procs |-> "idle"]
    /\ req = [p \in Procs |-> [op |-> "apply", flag |-> FALSE]]
    /\ mem = [p \in Procs |-> NoPlan]
    /\ todo = [p \in Procs |-> {}]
    /\ missed = [p \in Procs |-> FALSE]
    /\ entry = [p \in Procs |-> NoEntry]
    /\ seen = [p \in Procs |-> 0]
    /\ broken = [p \in Procs |-> "no"]
    /\ calls = 0 /\ edits = 0 /\ claims = 0
    /\ landed = {}
    /\ undone = [i \in 1..N |-> 0]
    /\ clobbered = {}

-----------------------------------------------------------------------------
(* Helpers shared by the handlers.                                         *)

Goto(p, at) == pc' = [pc EXCEPT ![p] = at]

\* PlanStore methods run under the process's own lock.
StoreFree(p) == rlock[Host[p]] \in {Nobody, p}

\* PlanStore.save: the file is replaced and gets a new updated_at.
Save(p, doc) == StoreFree(p) /\ file' = doc /\ old' = FALSE

\* The handler returns a result or a refusal; its local variables are gone.
Return(p) ==
    /\ Goto(p, "idle")
    /\ mem' = [mem EXCEPT ![p] = NoPlan]
    /\ todo' = [todo EXCEPT ![p] = {}]
    /\ missed' = [missed EXCEPT ![p] = FALSE]
    /\ entry' = [entry EXCEPT ![p] = NoEntry]
    /\ seen' = [seen EXCEPT ![p] = 0]

\* An apply claim is told from a rollback claim by the status in memory.
Applying(p) == mem[p] # NoPlan /\ mem[p].status \in {"planned", "applying"}
Forced(p) == req[p].op = "rollback" /\ req[p].flag
RollbackOnFailure(p) == req[p].op = "apply" /\ req[p].flag

DonePositions(doc) == {i \in 1..Len(doc.journal) : doc.journal[i].status = "done"}
\* Mutant: every done entry is pending again.
PendingAll(doc) == DonePositions(doc)
Pending(doc) == {i \in DonePositions(doc) : doc.journal[i].revert # "reverted"}
\* Mutant: a conflict does not count as a failure.
StoppedByErrorOnly(doc) == doc.journal # <<>> /\ doc.journal[Len(doc.journal)].status = "failed"
Stopped(doc) == doc.journal # <<>> /\ doc.journal[Len(doc.journal)].status \in {"conflict", "failed"}

-----------------------------------------------------------------------------
(* NetBox.  Each operator is the set of outcomes of an accepted request:   *)
(* empty when the object is not there (404), or when there is no id left,  *)
(* the bound on Ids.                                                       *)

Live == {i \in Ids : world[i].live}
Stamp(i) == IF i \in Stampless THEN 0 ELSE world[i].ver
Unused == {i \in Ids : world[i].ver = 0}
NextId == {i \in Unused : \A j \in Unused : i <= j}

Posted(val, key) ==
    {[at |-> i, now |-> [world EXCEPT ![i] = [live |-> TRUE, val |-> val, ver |-> 1, key |-> key]]]
        : i \in NextId}
Patched(i, val) ==
    {[at |-> j, now |-> [world EXCEPT ![j] = [live |-> TRUE, val |-> val, ver |-> @.ver + 1, key |-> @.key]]]
        : j \in {i} \cap Live}
Deleted(i) ==
    {[at |-> j, now |-> [k \in Ids |-> IF k = j \/ Parent[k] = j
                                       THEN [world[k] EXCEPT !.live = FALSE] ELSE world[k]]]
        : j \in {i} \cap Live}

\* An unforced write that lands on an object a foreign user wrote last.
Clobber(p, i, phase) ==
    {<<phase, IF seen[p] = Stamp(j) THEN "blind" ELSE "raced">>
        : j \in {j \in {i} \cap Live : world[j].val = "foreign"}}

-----------------------------------------------------------------------------
(* Calls: netbox_apply, netbox_rollback and netbox_plan's retention sweep. *)

\* handlers.write_gate
WriteGate(p, r) ==
    \/ r.op = "check"
    \/ /\ Settings[p].write_mode # "read_only"
       /\ Settings[p].write_mode = "operator_only" => p \in Operators

\* executor.preflight_apply and the tests rollback_plan opens with; both
\* read only the copy just loaded.
Preflight(p, r, doc) ==
    /\ Settings[p].url_matches
    /\ IF r.op = "rollback"
       THEN doc.status \in ROLLBACKABLE
       ELSE /\ doc.status \in APPLYABLE
            /\ ~aged
            /\ Settings[p].allow_delete \/ \A i \in 1..N : steps[i].action # "delete"

Admitted(p, r) == file # NoPlan /\ WriteGate(p, r) /\ Preflight(p, r, file)

Arrive(p, r) ==
    /\ pc[p] = "idle" /\ StoreFree(p)
    /\ calls < MaxCalls /\ calls' = calls + 1
    /\ req' = [req EXCEPT ![p] = r]
    /\ broken' = [broken EXCEPT ![p] = "no"]
    /\ UNCHANGED <<plan, world, flock, edits, claims, landed, undone, clobbered>>

\* The plan is not there, or the gate or the preflight refuses.
CallTurnedAway(p) ==
    \E r \in {r \in Requests : r.op # "prune"} :
        /\ Arrive(p, r)
        /\ ~Admitted(p, r)
        /\ Return(p)
        /\ UNCHANGED rlock

CallAdmitted(p) ==
    \E r \in {r \in Requests : r.op # "prune"} :
        /\ Arrive(p, r)
        /\ Admitted(p, r)
        /\ mem' = [mem EXCEPT ![p] = file]
        /\ Goto(p, IF r.op = "check" THEN "check" ELSE "claim")
        /\ UNCHANGED <<rlock, todo, missed, entry, seen>>

\* PlanStore.prune reads every plan, then unlinks the expired ones, all
\* under the lock of its own process and no other.
PruneReads(p) ==
    \E r \in {r \in Requests : r.op = "prune"} :
        /\ Arrive(p, r)
        /\ IF file # NoPlan /\ old /\ file.status \notin IN_FLIGHT
           THEN /\ Goto(p, "prune")
                /\ rlock' = [rlock EXCEPT ![Host[p]] = p]
                /\ UNCHANGED work
           ELSE Return(p) /\ UNCHANGED rlock

PruneUnlinks(p) ==
    /\ pc[p] = "prune"
    /\ file' = NoPlan
    /\ rlock' = [rlock EXCEPT ![Host[p]] = Nobody]
    /\ Return(p)
    /\ UNCHANGED <<steps, old, aged, world, flock, asked, edits, history>>

\* apply_plan(dry_run=True): the GETs change nothing, the save writes back
\* the copy loaded when the call arrived, without a claim.
CheckSaves(p) ==
    /\ pc[p] = "check"
    /\ Save(p, mem[p])
    /\ Return(p)
    /\ UNCHANGED <<steps, aged, world, locks, asked, edits, history>>

-----------------------------------------------------------------------------
(* The claim, common to apply_plan and rollback_plan: store.exclusive,     *)
(* re-read, test, save.  The file lock binds processes; the store lock is  *)
(* held while waiting for it.                                              *)

TakeStoreLock(p) ==
    /\ pc[p] = "claim" /\ StoreFree(p)
    /\ rlock' = [rlock EXCEPT ![Host[p]] = p]
    /\ Goto(p, "wait")
    /\ UNCHANGED <<plan, world, flock, asked, work, edits, history>>

\* store.load(plan["id"]) or plan
Current(p) == IF file = NoPlan THEN mem[p] ELSE file
\* Mutant: the status is tested on the copy loaded before the lock.
ClaimableStale(p) == mem[p].status \in IF Applying(p) THEN {"planned"} ELSE ROLLBACKABLE
Claimable(p) == Current(p).status \in IF Applying(p) THEN {"planned"} ELSE ROLLBACKABLE

ClaimRefused(p) ==
    /\ pc[p] = "wait"
    /\ flock # Nobody \/ ~Claimable(p)      \* TimeoutError, or the status moved on
    /\ rlock' = [rlock EXCEPT ![Host[p]] = Nobody]
    /\ Return(p)
    /\ UNCHANGED <<plan, world, flock, asked, edits, history>>

ClaimReads(p) ==
    /\ pc[p] = "wait"
    /\ flock = Nobody /\ Claimable(p)
    /\ flock' = p
    /\ mem' = [mem EXCEPT ![p] = Current(p)]
    /\ Goto(p, "save")
    /\ UNCHANGED <<plan, world, rlock, asked, todo, missed, entry, seen, edits, history>>

\* Mutant: the in-process lock is not given back.
UnlockHalf(p) == flock' = Nobody /\ UNCHANGED rlock
Unlock(p) ==
    /\ flock' = Nobody
    /\ rlock' = [rlock EXCEPT ![Host[p]] = Nobody]

\* Where the apply loop goes with this journal: the next step, or out.
\* Mutant: the loop does not break on failure.
AfterStepGoOn(doc) == IF Len(doc.journal) = N THEN "link" ELSE "step"
AfterStep(doc) == IF Stopped(doc) \/ Len(doc.journal) = N THEN "link" ELSE "step"
AfterRevert(left) == IF left = {} THEN "link" ELSE "undo"

ApplyClaimSaves(p) ==
    /\ pc[p] = "save" /\ Applying(p)
    /\ LET claimed == [status |-> "applying", journal |-> <<>>] IN
       /\ Save(p, claimed)
       /\ mem' = [mem EXCEPT ![p] = claimed]
       /\ Goto(p, AfterStep(claimed))
    /\ Unlock(p)
    /\ claims' = claims + 1
    /\ UNCHANGED <<steps, aged, world, asked, todo, missed, entry, seen, edits,
                   landed, undone, clobbered>>

RollbackClaimSaves(p) ==
    /\ pc[p] = "save" /\ ~Applying(p)
    /\ LET claimed == [mem[p] EXCEPT !.status = "rolling_back"] IN
       /\ Save(p, claimed)
       /\ mem' = [mem EXCEPT ![p] = claimed]
       /\ todo' = [todo EXCEPT ![p] = Pending(claimed)]
       /\ Goto(p, AfterRevert(Pending(claimed)))
    /\ missed' = [missed EXCEPT ![p] = FALSE]
    /\ Unlock(p)
    /\ UNCHANGED <<steps, aged, world, asked, entry, seen, edits, history>>

-----------------------------------------------------------------------------
(* The apply loop.                                                         *)

Position(p) == Len(mem[p].journal) + 1

\* check_step_precondition found the world moved.
\* Mutant: an object without last_updated counts as moved.
StampMovedStrict(i, expected) == Stamp(i) # expected \/ expected = 0
\* Mutant: last_updated is not compared.
StampIgnored(i, expected) == FALSE
StampMoved(i, expected) == expected # 0 /\ Stamp(i) # expected
Conflict(s) ==
    CASE s.action = "noop" -> FALSE
      [] s.action = "create" -> s.key # NoKey /\ \E i \in Live : world[i].key = s.key
      [] OTHER -> s.obj \notin Live \/ StampMoved(s.obj, s.stamp)

\* Only a create without a match, or a noop, sends no GET.
Reads(s) == s.action # "noop" /\ (s.action = "create" => s.key # NoKey)

Prepare(p, e, at) == entry' = [entry EXCEPT ![p] = e] /\ Goto(p, at)
LoopUnchanged == UNCHANGED <<plan, locks, asked, mem, todo, missed, edits, claims, undone>>

CheckStep(p) ==
    /\ pc[p] = "step"
    /\ LET s == steps[Position(p)] IN
       \/ /\ s.action = "noop"
          /\ Prepare(p, NewEntry("skipped", s.obj, 0), "record")
          /\ UNCHANGED seen
       \/ /\ Conflict(s) \/ ("reject" \in Faults /\ Reads(s))
          /\ Prepare(p, NewEntry("conflict", s.obj, 0), "record")
          /\ UNCHANGED seen
       \/ /\ s.action # "noop" /\ ~Conflict(s)
          /\ seen' = [seen EXCEPT ![p] = IF s.obj = NoId THEN 0 ELSE Stamp(s.obj)]
          /\ Goto(p, "write") /\ UNCHANGED entry
    /\ UNCHANGED <<world, landed, clobbered>>
    /\ LoopUnchanged

\* _execute_step's request, when NetBox accepts it.
Effects(s) ==
    CASE s.action = "create" -> Posted("plan", s.key)
      [] s.action = "update" -> Patched(s.obj, "plan")
      [] OTHER -> Deleted(s.obj)

\* The response reached the caller (entry "done" with the new stamp) or was
\* lost on the way (a NetBoxError with status 0, entry "failed").
StepWrites(p) ==
    /\ pc[p] = "write"
    /\ LET s == steps[Position(p)] IN
       \E e \in Effects(s) :
          /\ world' = e.now
          /\ \/ Prepare(p, NewEntry("done", e.at,
                            IF s.action = "delete" \/ e.at \in Stampless THEN 0 ELSE e.now[e.at].ver),
                        "record")
             \/ "lost" \in Faults /\ Prepare(p, NewEntry("failed", s.obj, 0), "record")
          /\ clobbered' = clobbered \cup Clobber(p, s.obj, "apply")
    /\ landed' = landed \cup {Position(p)}
    /\ UNCHANGED seen
    /\ LoopUnchanged

StepRejected(p) ==
    /\ pc[p] = "write"
    /\ LET s == steps[Position(p)] IN
       /\ "reject" \in Faults \/ Effects(s) = {}
       /\ Prepare(p, NewEntry("failed", s.obj, 0), "record")
    /\ UNCHANGED <<world, seen, landed, clobbered>>
    /\ LoopUnchanged

\* The journal entry is appended and saved before the next step starts.
RecordStep(p) ==
    /\ pc[p] = "record"
    /\ LET doc == [mem[p] EXCEPT !.journal = Append(@, entry[p])] IN
       /\ Save(p, doc)
       /\ mem' = [mem EXCEPT ![p] = doc]
       /\ Goto(p, AfterStep(doc))
    /\ entry' = [entry EXCEPT ![p] = NoEntry]
    /\ seen' = [seen EXCEPT ![p] = 0]
    /\ UNCHANGED <<steps, aged, world, locks, asked, todo, missed, edits, history>>

\* _link_changelog saves the plan once more, whether the log was readable
\* or not; what it attaches decides nothing here.
Link(p) ==
    /\ pc[p] = "link"
    /\ IF Settings[p].link_changelog THEN Save(p, mem[p]) ELSE UNCHANGED <<file, old>>
    /\ Goto(p, "finish")
    /\ UNCHANGED <<steps, aged, world, locks, asked, work, edits, history>>

\* Mutant: a failed run leaves the status as it is.
ApplyStatusKept(doc) == IF Stopped(doc) THEN doc.status ELSE "applied"
ApplyStatus(doc) == IF Stopped(doc) THEN "failed" ELSE "applied"

\* A failed apply with something done goes on to an automatic rollback,
\* which has to claim the plan again.
FinishApply(p) ==
    /\ pc[p] = "finish" /\ Applying(p)
    /\ LET doc == [mem[p] EXCEPT !.status = ApplyStatus(mem[p])] IN
       /\ Save(p, doc)
       /\ IF Stopped(doc) /\ RollbackOnFailure(p) /\ DonePositions(doc) # {}
          THEN /\ mem' = [mem EXCEPT ![p] = doc]
               /\ Goto(p, "claim")
               /\ UNCHANGED <<todo, missed, entry, seen>>
          ELSE Return(p)
    /\ UNCHANGED <<steps, aged, world, locks, asked, edits, history>>

-----------------------------------------------------------------------------
(* The rollback loop: newest pending entry first.                          *)

\* The position the loop is at: the last one of those left.
\* Mutant: oldest first.
Oldest(S) == {i \in S : \A j \in S : i <= j}
Newest(S) == {i \in S : \A j \in S : j <= i}

\* What the journal gets of one revert; the copy a retry made lacks fields.
Outcome(p, i, how, id) ==
    [mem[p].journal[i] EXCEPT !.revert = how, !.new = id,
                              !.dropped = (id # NoId /\ pc[p] = "repost")]
UndoUnchanged == UNCHANGED <<plan, locks, asked, mem, todo, missed, edits, claims, landed>>

\* The GET that precedes undoing a create or an update.
ReadBack(p) ==
    /\ pc[p] = "undo"
    /\ \E i \in Newest(todo[p]) :
       LET inverse == steps[i].action    \* of which action the inverse is due
           id == mem[p].journal[i].obj
           moved == ~Forced(p) /\ StampMoved(id, mem[p].journal[i].after)
       IN
       /\ inverse # "delete"
       /\ \/ /\ id \notin Live
             /\ Prepare(p, Outcome(p, i, IF inverse = "create" THEN "reverted" ELSE "failed", NoId),
                        "rerecord")
             /\ UNCHANGED seen
          \/ /\ id \in Live /\ moved
             /\ Prepare(p, Outcome(p, i, "conflict", NoId), "rerecord")
             /\ UNCHANGED seen
          \/ /\ id \in Live /\ ~moved
             /\ seen' = [seen EXCEPT ![p] = Stamp(id)]
             /\ Goto(p, "unwrite") /\ UNCHANGED entry
          \/ /\ "reject" \in Faults
             /\ Prepare(p, Outcome(p, i, "failed", NoId), "rerecord")
             /\ UNCHANGED seen
    /\ UNCHANGED <<world, undone, clobbered>>
    /\ UndoUnchanged

\* Undoing a delete reads nothing; "repost" is its one retry after a 400
\* that names fields of the payload, without those fields.
AboutToUndo(p, i) ==
    pc[p] \in {"unwrite", "repost"} \/ (pc[p] = "undo" /\ steps[i].action = "delete")

UndoEffects(p, i) ==
    CASE steps[i].action = "create" -> Deleted(mem[p].journal[i].obj)
      [] steps[i].action = "update" -> Patched(mem[p].journal[i].obj, "orig")
      [] OTHER -> Posted(IF pc[p] = "repost" THEN "partial" ELSE "orig", NoKey)

UndoWrites(p) ==
    /\ \E i \in Newest(todo[p]) :
       /\ AboutToUndo(p, i)
       /\ \E e \in UndoEffects(p, i) :
             /\ world' = e.now
             /\ \/ Prepare(p, Outcome(p, i, "reverted",
                                     IF steps[i].action = "delete" THEN e.at ELSE NoId),
                           "rerecord")
                \/ "lost" \in Faults /\ Prepare(p, Outcome(p, i, "failed", NoId), "rerecord")
       /\ undone' = [undone EXCEPT ![i] = @ + 1]
       /\ clobbered' = IF Forced(p) THEN clobbered
                       ELSE clobbered \cup Clobber(p, mem[p].journal[i].obj, "rollback")
    /\ UNCHANGED seen
    /\ UndoUnchanged

UndoRejected(p) ==
    /\ \E i \in Newest(todo[p]) :
       /\ AboutToUndo(p, i)
       /\ "reject" \in Faults \/ UndoEffects(p, i) = {}
       /\ \/ Prepare(p, Outcome(p, i, "failed", NoId), "rerecord")
          \/ /\ steps[i].action = "delete" /\ pc[p] = "undo"
             /\ Goto(p, "repost") /\ UNCHANGED entry
    /\ UNCHANGED <<world, seen, undone, clobbered>>
    /\ UndoUnchanged

\* Mutant: failed reverts are not counted.
MissedConflict(e) == e.revert = "conflict"
Missed(e) == e.revert # "reverted"

RecordRevert(p) ==
    /\ pc[p] = "rerecord"
    /\ \E i \in Newest(todo[p]) :
       LET doc == [mem[p] EXCEPT !.journal = [@ EXCEPT ![i] = entry[p]]]
           left == todo[p] \ {i}
       IN
       /\ Save(p, doc)
       /\ mem' = [mem EXCEPT ![p] = doc]
       /\ todo' = [todo EXCEPT ![p] = left]
       /\ Goto(p, AfterRevert(left))
    /\ missed' = [missed EXCEPT ![p] = @ \/ Missed(entry[p])]
    /\ entry' = [entry EXCEPT ![p] = NoEntry]
    /\ seen' = [seen EXCEPT ![p] = 0]
    /\ UNCHANGED <<steps, aged, world, locks, asked, edits, history>>

FinishRollback(p) ==
    /\ pc[p] = "finish" /\ ~Applying(p)
    /\ Save(p, [mem[p] EXCEPT !.status = IF missed[p] THEN "partially_rolled_back" ELSE "rolled_back"])
    /\ Return(p)
    /\ UNCHANGED <<steps, aged, world, locks, asked, edits, history>>

-----------------------------------------------------------------------------
(* What happens around the callers.                                        *)

\* The calls of the callers S end half-way and give back what they hold.
Drops(S, how) ==
    /\ pc' = [p \in Procs |-> IF p \in S THEN "idle" ELSE pc[p]]
    /\ broken' = [p \in Procs |-> IF p \in S THEN how ELSE broken[p]]
    /\ mem' = [p \in Procs |-> IF p \in S THEN NoPlan ELSE mem[p]]
    /\ todo' = [p \in Procs |-> IF p \in S THEN {} ELSE todo[p]]
    /\ missed' = [p \in Procs |-> IF p \in S THEN FALSE ELSE missed[p]]
    /\ entry' = [p \in Procs |-> IF p \in S THEN NoEntry ELSE entry[p]]
    /\ seen' = [p \in Procs |-> IF p \in S THEN 0 ELSE seen[p]]
    /\ flock' = IF flock \in S THEN Nobody ELSE flock
    /\ rlock' = [h \in Hosts |-> IF rlock[h] \in S THEN Nobody ELSE rlock[h]]
    /\ UNCHANGED <<plan, world, req, calls, edits, history>>

\* A process dies with every thread it runs; the OS drops its file lock.
Crash(h) ==
    /\ "crash" \in Faults
    /\ LET dead == {p \in Procs : Host[p] = h /\ pc[p] # "idle"} IN
       dead # {} /\ Drops(dead, "died")

\* A write to the plans directory raises and ends the call: the disk is full,
\* or another process's os.replace took the .json.tmp both were writing.  The
\* file is as it was (WritesNext), or that other replace has put this
\* caller's own text into place before it (JustSaved).
WritesNext(p) ==
    \/ pc[p] \in {"check", "prune", "wait", "save", "record", "rerecord", "finish"}
    \/ pc[p] = "link" /\ Settings[p].link_changelog
JustSaved(p) ==
    \/ pc[p] \in {"step", "undo", "link"}
    \/ pc[p] = "finish" /\ Settings[p].link_changelog
    \/ pc[p] = "claim" /\ mem[p].status = "failed" /\ req[p].op = "apply"

StoreRaises(p) ==
    /\ "store" \in Faults
    /\ StoreFree(p) /\ (WritesNext(p) \/ JustSaved(p))
    /\ Drops({p}, "raised")

\* Somebody else writes to NetBox.
ForeignWrite(e) ==
    /\ edits < MaxEdits /\ edits' = edits + 1
    /\ world' = e.now
    /\ UNCHANGED <<plan, locks, pc, asked, work, history>>

ForeignEdit == \E i \in Ids : \E e \in Patched(i, "foreign") : ForeignWrite(e)
ForeignDelete == \E i \in Ids : \E e \in Deleted(i) : ForeignWrite(e)
ForeignCreate == \E k \in Keys : \E e \in Posted("foreign", k) : ForeignWrite(e)

\* max_plan_age_hours go by; only a planned plan's age decides anything.
PlanAges ==
    /\ "age" \in Faults /\ ~aged
    /\ file # NoPlan /\ file.status = "planned"
    /\ aged' = TRUE
    /\ UNCHANGED <<steps, file, old, world, locks, pc, asked, work, edits, history>>

\* plan_retention_days go by: nobody is in the middle of a call that long.
RetentionPasses ==
    /\ "retention" \in Faults /\ ~old
    /\ \A p \in Procs : pc[p] = "idle"
    /\ old' = TRUE /\ aged' \in {aged, TRUE}
    /\ UNCHANGED <<steps, file, world, locks, pc, asked, work, edits, history>>

-----------------------------------------------------------------------------

Calls(p) == CallTurnedAway(p) \/ CallAdmitted(p) \/ PruneReads(p)

Proceed(p) ==
    \/ PruneUnlinks(p) \/ CheckSaves(p)
    \/ TakeStoreLock(p) \/ ClaimRefused(p) \/ ClaimReads(p)
    \/ ApplyClaimSaves(p) \/ RollbackClaimSaves(p)
    \/ CheckStep(p) \/ StepWrites(p) \/ StepRejected(p) \/ RecordStep(p)
    \/ ReadBack(p) \/ UndoWrites(p) \/ UndoRejected(p) \/ RecordRevert(p)
    \/ Link(p) \/ FinishApply(p) \/ FinishRollback(p)

Environment ==
    \/ \E h \in Hosts : Crash(h)
    \/ \E p \in Procs : StoreRaises(p)
    \/ ForeignEdit \/ ForeignDelete \/ ForeignCreate
    \/ PlanAges \/ RetentionPasses

Next == (\E p \in Procs : Calls(p) \/ Proceed(p)) \/ Environment

Spec == Init /\ [][Next]_vars

\* HTTP calls time out, the file lock is waited for with a timeout and the
\* store lock is released at the end of every call, so a caller that can
\* proceed does; nobody has to make a call and NetBox need not be edited.
FairSpec == Spec /\ \A p \in Procs : WF_vars(Proceed(p))

-----------------------------------------------------------------------------
(* Properties.                                                             *)

Running(p) == pc[p] \in {"step", "write", "record", "undo", "unwrite", "repost",
                         "rerecord", "link", "finish"}

\* One caller at a time works on the plan, and while it does the file says
\* what the caller believes: nobody else's save comes between its own.
\* (The claim under store.exclusive, and plan.update(current).)
OneRunner ==
    \A p \in Procs : Running(p) =>
        /\ file = mem[p]
        /\ \A q \in Procs : Running(q) => q = p

\* "A plan applies at most once" (executor.py): one planned -> applying
\* claim in the plan's whole life, whoever races for it.
AtMostOnce == claims <= 1

\* The journal accounts for every write that took effect: it is a "done"
\* entry of the file, or the caller is about to save it; only a lost
\* response, a death or a failing save in between leaves one write out, and
\* then it is the last step the journal got to, never an earlier one.
JournalAccounts ==
    file # NoPlan =>
        /\ DonePositions(file) \subseteq landed
        /\ \A i \in landed \ DonePositions(file) :
              /\ i >= Len(file.journal)
              /\ \/ \E p \in Procs : pc[p] = "record" /\ Position(p) = i
                 \/ Faults \cap {"lost", "crash", "store"} # {}

\* A plan reported "applied" has every step written or skipped.
AppliedIsComplete ==
    file # NoPlan /\ file.status = "applied" =>
        \A i \in 1..N : steps[i].action # "noop" => i \in DonePositions(file) \cap landed

\* When nobody else touched NetBox and no response was lost, "rolled_back"
\* means the planned objects are what they were at planning time, a deleted
\* one as its re-created copy, and nothing the plan made is left.  A copy
\* lacks the fields its journal entry lists as dropped, and no others; what a
\* delete cascaded to is lost, as the code notes.
Cascaded(i) == \E n \in landed : steps[n].action = "delete" /\ steps[n].obj = Parent[i]
Recreated(i, j) ==
    \E n \in DonePositions(file) :
        LET e == file.journal[n] IN
        /\ steps[n].obj = i /\ e.new = j
        /\ world[j].val = IF e.dropped THEN "partial" ELSE "orig"
Restored(i) == \E j \in Live : (j = i /\ world[j].val = "orig") \/ Recreated(i, j)
RolledBackRestores ==
    (/\ file # NoPlan /\ file.status = "rolled_back"
     /\ edits = 0 /\ "lost" \notin Faults) =>
        /\ \A i \in Existing : Restored(i) \/ Cascaded(i)
        /\ \A i \in Live : world[i].val # "plan"

\* A write that overwrites somebody's edit without force can only do so when
\* the edit came between this step's own GET and its PATCH or DELETE, or the
\* object has no last_updated to compare.
NoBlindOverwrite == Stampless = {} => \A c \in clobbered : c[2] = "raced"

\* An inverse takes effect at most once, however often the plan is rolled
\* back, and only for a step that took effect.
InverseAtMostOnce ==
    \A i \in 1..N : undone[i] <= 1 /\ (undone[i] = 1 => i \in landed)

\* A step the apply loop is at conflicts for a reason: somebody else wrote to
\* NetBox, or an earlier step of this very plan moved the object's stamp,
\* deleted it or what it hangs on, or created what it was to create.  With
\* nobody else writing, the plan's own steps are the only reason and always
\* one: of two steps on a stamped object the second never goes through
\* (check_step_precondition compares with the stamp of planning time).
MovedBy(n, s) ==
    \/ steps[n].action = "create" /\ s.action = "create" /\ s.key # NoKey /\ steps[n].key = s.key
    \/ /\ s.action \in {"update", "delete"}
       /\ \/ steps[n].action = "update" /\ steps[n].obj = s.obj /\ s.stamp # 0
          \/ steps[n].action = "delete" /\ steps[n].obj \in {s.obj, Parent[s.obj]}
ConflictsHaveCause ==
    edits = 0 =>
        \A p \in Procs : pc[p] = "step" =>
            LET s == steps[Position(p)] IN
            Conflict(s) <=> \E n \in landed : n < Position(p) /\ MovedBy(n, s)

\* Rollback works from the newest entry to the oldest: when step i is undone
\* every later done step has had its revert journaled.
NewestFirst ==
    [][\A i \in 1..N : undone'[i] > undone[i] =>
          \A j \in DonePositions(file) : j > i => file.journal[j].revert # "none"]_vars

\* The plan file goes through the states of docs/architecture.md and no
\* others: this is the refinement of PlanLifecycle.
Lifecycle == INSTANCE PlanLifecycle WITH
    size <- N,
    status <- file.status,
    handled <- Len(file.journal),
    done <- DonePositions(file),
    reverted <- {i \in DonePositions(file) : file.journal[i].revert = "reverted"}
ImplementsLifecycle == Lifecycle!Spec

\* "An interrupted apply leaves a file that netbox_rollback can act on"
\* (store.py): when nobody is working and something done is not reverted,
\* rollback_plan accepts the status.
InterruptedIsRollbackable ==
    (file # NoPlan /\ Pending(file) # {} /\ \A p \in Procs : pc[p] = "idle")
        => file.status \in ROLLBACKABLE

\* Every call is answered, whatever the other callers do: nobody waits for
\* a lock for ever.
EveryCallEnds == \A p \in Procs : pc[p] # "idle" ~> pc[p] = "idle"

\* Whoever works on a plan gets it out of "applying" and "rolling_back", into
\* a status its owner can act on, however the others race with it and whatever
\* NetBox refuses; all that leaves a plan in flight is the death of the process
\* or a save that raised.
NoPlanStaysInFlight ==
    \A p \in Procs :
        Running(p) ~>
            /\ ~Running(p)
            /\ \/ broken[p] # "no"
               \/ file = NoPlan
               \/ file.status \notin IN_FLIGHT
================================================================================
