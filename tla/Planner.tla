--------------------------------- MODULE Planner ---------------------------------
(***************************************************************************)
(* Building a plan (planner.build_plan and its call in                     *)
(* handlers.netbox_plan): each operation in turn is validated, its target  *)
(* read from NetBox and compared, while other users go on writing; then    *)
(* everything wrong is reported together, or the plan is saved.            *)
(*                                                                         *)
(* Of an object the planner looks at: whether it is there, what match      *)
(* finds it, whether it already is as the operation wants it, its stamp.   *)
(***************************************************************************)
EXTENDS Naturals, Sequences, FiniteSets

CONSTANTS
    Ids, Existing, Stampless,
    Keys,                       \* what a match can look for
    Submissions,                \* operation lists a caller sends
    MaxOperations,              \* the setting
    MaxEdits,                   \* bound: foreign writes
    NoId, BadId, NoKey, BadKey  \* absent, and not what the schema allows

Operation == [op : {"create", "update", "delete", "unknown", "not an object"},
              id : Ids \cup {NoId, BadId}, match : Keys \cup {NoKey, BadKey},
              data : BOOLEAN, endpoint : BOOLEAN]

ASSUME PlannerAssumption ==
    /\ Ids \subseteq Nat /\ IsFiniteSet(Ids) /\ Existing \subseteq Ids /\ Stampless \subseteq Ids
    /\ Submissions \subseteq Seq(Operation)
    /\ MaxOperations \in Nat /\ MaxEdits \in Nat
    /\ NoId \notin Ids /\ BadId \notin Ids /\ {NoKey, BadKey} \cap Keys = {} /\ NoKey # BadKey

VARIABLES
    allowDelete,       \* the setting
    world, edits,
    pc, ops, next,     \* the call, and the operation it is at
    steps, errors,     \* built so far
    outcome,           \* "none", "saved" or "rejected"
    reads              \* history: NetBox as each step was built from it

vars == <<allowDelete, world, edits, pc, ops, next, steps, errors, outcome, reads>>

Object == [live : BOOLEAN, key : Keys \cup {NoKey}, same : BOOLEAN, ver : Nat]
Step == [action : {"noop", "create", "update", "delete"}, obj : Ids \cup {NoId},
         key : Keys \cup {NoKey}, stamp : Nat]
Trouble == {"not a list", "too many", "not an object", "endpoint", "op", "id", "match", "data", "target", "both",
            "delete disabled", "missing", "ambiguous", "netbox"}

TypeOK ==
    /\ allowDelete \in BOOLEAN
    /\ world \in [Ids -> Object] /\ edits \in 0..MaxEdits
    /\ pc \in {"idle", "planning"}
    /\ ops \in Submissions \cup {<<>>} /\ next \in 1..(Len(ops) + 1)
    /\ steps \in Seq(Step)
    /\ errors \subseteq (0..Len(ops)) \X Trouble
    /\ outcome \in {"none", "saved", "rejected"}
    /\ reads \in Seq([Ids -> Object]) /\ Len(reads) = Len(steps)

Init ==
    /\ allowDelete \in BOOLEAN
    /\ \E key \in [Existing -> Keys \cup {NoKey}], same \in [Existing -> BOOLEAN] :
          world = [i \in Ids |->
                     IF i \in Existing THEN [live |-> TRUE, key |-> key[i], same |-> same[i], ver |-> 1]
                     ELSE [live |-> FALSE, key |-> NoKey, same |-> FALSE, ver |-> 0]]
    /\ edits = 0 /\ pc = "idle" /\ ops = <<>> /\ next = 1
    /\ steps = <<>> /\ errors = {} /\ outcome = "none" /\ reads = <<>>

-----------------------------------------------------------------------------
(* _validate_operation                                                     *)

\* A bad match is dropped after it is reported.
Match(o) == IF o.match = BadKey THEN NoKey ELSE o.match
Targeted(o) == o.id \in Ids \/ Match(o) # NoKey

Invalid(o) ==
    {t \in Trouble :
        \/ t = "not an object" /\ o.op = "not an object"
        \/ t = "endpoint" /\ o.op # "not an object" /\ ~o.endpoint
        \/ t = "op" /\ o.op = "unknown"
        \/ /\ o.op \in {"create", "update", "delete"}
           /\ \/ t = "id" /\ (o.id = BadId \/ (o.op = "create" /\ o.id \in Ids))
              \/ t = "match" /\ o.match = BadKey
              \/ t = "data" /\ (o.op \in {"create", "update"} <=> ~o.data)
              \/ t = "target" /\ o.op \in {"update", "delete"} /\ ~Targeted(o)
              \/ t = "both" /\ o.id \in Ids /\ Match(o) # NoKey
              \/ t = "delete disabled" /\ o.op = "delete" /\ ~allowDelete}

-----------------------------------------------------------------------------
(* _resolve_target, _step and the three _plan_ functions                   *)

Live == {i \in Ids : world[i].live}
Stamp(i) == IF i \in Stampless THEN 0 ELSE world[i].ver

\* What the GET by id, or the list by match, shows.
\* Mutant: the first of several matches is taken.
FoundFirst(o) ==
    LET hits == IF o.id \in Ids THEN {o.id} \cap Live ELSE {i \in Live : world[i].key = o.match}
    IN {i \in hits : \A j \in hits : i <= j}
Found(o) == IF o.id \in Ids THEN {o.id} \cap Live ELSE {i \in Live : world[i].key = o.match}

Unresolved(o) ==
    {t \in Trouble :
        \/ t = "ambiguous" /\ Cardinality(Found(o)) > 1
        \/ t = "missing" /\ o.op # "create" /\ Found(o) = {}}

\* Mutant: an upsert's step carries no precondition.
StampUnlessUpsert(o, i) == IF o.op = "create" THEN 0 ELSE Stamp(i)
Expected(o, i) == Stamp(i)

Planned(o, i) ==
    [action |-> IF o.op = "delete" THEN "delete" ELSE IF world[i].same THEN "noop" ELSE "update",
     obj |-> i, key |-> NoKey, stamp |-> Expected(o, i)]
Creation(o) == [action |-> "create", obj |-> NoId, key |-> o.match, stamp |-> 0]

Adds(step) == steps' = Append(steps, step) /\ reads' = Append(reads, world) /\ UNCHANGED errors
\* Mutant: only the first failing operation is reported.
ReportsOnlyFirst(troubles) ==
    errors' = (IF errors = {} THEN {next} \X troubles ELSE errors) /\ UNCHANGED <<steps, reads>>
Reports(troubles) == errors' = errors \cup ({next} \X troubles) /\ UNCHANGED <<steps, reads>>

-----------------------------------------------------------------------------

Submit ==
    /\ pc = "idle" /\ outcome = "none"
    /\ \E s \in Submissions :
       /\ ops' = s
       /\ IF s = <<>> \/ Len(s) > MaxOperations
          THEN /\ errors' = {<<0, IF s = <<>> THEN "not a list" ELSE "too many">>}
               /\ outcome' = "rejected" /\ UNCHANGED pc
          ELSE pc' = "planning" /\ UNCHANGED <<errors, outcome>>
    /\ UNCHANGED <<allowDelete, world, edits, next, steps, reads>>

Current == ops[next]
Advance ==
    /\ pc = "planning" /\ next <= Len(ops)
    /\ next' = next + 1
    /\ UNCHANGED <<allowDelete, world, edits, pc, ops, outcome>>

RefuseOperation ==
    /\ Advance
    /\ Invalid(Current) # {}
    /\ Reports(Invalid(Current))

\* A create without a match reads nothing.
Reads(o) == o.op # "create" \/ o.match # NoKey

PlanOperation ==
    /\ Advance
    /\ Invalid(Current) = {}
    /\ IF ~Reads(Current) THEN Adds(Creation(Current))
       ELSE \/ Reports({"netbox"})          \* the GET is refused or lost
            \/ Unresolved(Current) # {} /\ Reports(Unresolved(Current))
            \/ /\ Unresolved(Current) = {}
               /\ IF Found(Current) = {} THEN Adds(Creation(Current))
                  ELSE \E i \in Found(Current) : Adds(Planned(Current, i))

\* Mutant: the plan is saved with the operations that were fine.
SavedAnyway == steps # <<>>
Sound == errors = {}

\* PlanError: plan_rejected, nothing saved; else PlanStore.create.
Finish ==
    /\ pc = "planning" /\ next > Len(ops)
    /\ outcome' = IF Sound THEN "saved" ELSE "rejected"
    /\ pc' = "idle"
    /\ UNCHANGED <<allowDelete, world, edits, ops, next, steps, errors, reads>>

\* An object is changed, or a new one created.
ForeignEdit ==
    /\ edits < MaxEdits /\ edits' = edits + 1
    /\ \E i \in Ids, key \in Keys \cup {NoKey}, same \in BOOLEAN :
         /\ world[i].live \/ world[i].ver = 0
         /\ world' = [world EXCEPT ![i] = [live |-> TRUE, key |-> key, same |-> same, ver |-> @.ver + 1]]
    /\ UNCHANGED <<allowDelete, pc, ops, next, steps, errors, outcome, reads>>

ForeignDelete ==
    /\ edits < MaxEdits /\ edits' = edits + 1
    /\ \E i \in Live : world' = [world EXCEPT ![i].live = FALSE]
    /\ UNCHANGED <<allowDelete, pc, ops, next, steps, errors, outcome, reads>>

Next == Submit \/ RefuseOperation \/ PlanOperation \/ Finish \/ ForeignEdit \/ ForeignDelete

Spec == Init /\ [][Next]_vars

-----------------------------------------------------------------------------
(* Properties.                                                             *)

\* What the executor relies on: a saved plan has one step per operation, in
\* their order, of an action the operation allows, a create without an
\* object and every other step with the one it was read from.
SavedPlansAreWellFormed ==
    outcome = "saved" =>
        /\ Len(steps) = Len(ops)
        /\ \A n \in DOMAIN steps :
             /\ steps[n].action \in (CASE ops[n].op = "create" -> {"create", "update", "noop"}
                                       [] ops[n].op = "update" -> {"update", "noop"}
                                       [] OTHER -> {"delete"})
             /\ steps[n].action = "create" <=> steps[n].obj = NoId
             /\ steps[n].action = "delete" => allowDelete

\* executor.check_step_precondition on a step of the plan.
Conflict(s) ==
    IF s.action = "create" THEN s.key # NoKey /\ \E i \in Live : world[i].key = s.key
    ELSE s.action # "noop" /\ (s.obj \notin Live \/ (s.stamp # 0 /\ s.stamp # Stamp(s.obj)))

\* Whatever was written while the plan was being built or since: an update or
\* a delete of an object that is not as its step read it is a conflict at
\* apply time, unless the object has no stamp; so is a create once an object
\* its operation's match finds has appeared; a noop never is.
StalenessShows ==
    outcome = "saved" => \A n \in DOMAIN steps :
        LET s == steps[n] IN
        /\ s.action \in {"update", "delete"} /\ s.obj \notin Stampless /\ world[s.obj] # reads[n][s.obj]
              => Conflict(s)
        /\ s.action = "create" /\ ops[n].match # NoKey /\ (\E i \in Live : world[i].key = ops[n].match)
              => Conflict(s)
        /\ s.action = "noop" => ~Conflict(s)

\* A match that finds several objects never decides which one is written,
\* others writing or not: an object the match of a saved step finds is the one
\* the step acts on, or was changed or created after the step was built.
AmbiguityRefused ==
    outcome = "saved" => \A n \in DOMAIN steps : \A i \in Live :
        ops[n].match # NoKey /\ world[i].key = ops[n].match /\ world[i] = reads[n][i]
            => steps[n].obj = i

\* Everything wrong is reported at once: when nobody else writes, a
\* rejection names the operations that are invalid, whose target is missing
\* or ambiguous, or whose GET failed, every one of them and no other.
Faulty(o) == Invalid(o) # {} \/ (Reads(o) /\ Unresolved(o) # {})
RejectionIsComplete ==
    outcome = "rejected" /\ edits = 0 /\ Len(ops) \in 1..MaxOperations =>
        \A n \in DOMAIN ops :
            LET troubles == {e[2] : e \in {e \in errors : e[1] = n}} IN
            IF Faulty(ops[n]) THEN troubles # {} ELSE troubles \subseteq {"netbox"}
================================================================================
