------------------------------ MODULE PlannerProofs ------------------------------
(***************************************************************************)
(* Theorems about Planner for any NetBox, submissions and limits.          *)
(***************************************************************************)
EXTENDS Planner, FiniteSetTheorems, TLAPS

-----------------------------------------------------------------------------
(* The invariant.                                                          *)

\* An object that is there has a stamp.
WorldInv == \A i \in Ids : world[i].live => world[i].ver >= 1

\* Where a call is decides how much it has built and what it may have found
\* wrong.
CallInv ==
    /\ errors = {} => Len(steps) = next - 1
    /\ outcome = "none" /\ pc = "idle" => next = 1 /\ ops = <<>> /\ errors = {}
    /\ pc = "planning" => outcome = "none"
    /\ outcome = "saved" => errors = {} /\ next = Len(ops) + 1
    /\ outcome = "rejected" => next = Len(ops) + 1 \/ Len(ops) \notin 1..MaxOperations
    /\ \A e \in errors : e[1] < next

Allowed(o) ==
    CASE o.op = "create" -> {"create", "update", "noop"}
      [] o.op = "update" -> {"update", "noop"}
      [] OTHER -> {"delete"}

\* The step was read from the object as it was then, and stamps only grow.
ReadInv(s, read) ==
    /\ s.obj \in Ids /\ read \in Object /\ s.stamp = IF s.obj \in Stampless THEN 0 ELSE read.ver
    /\ read.ver >= 1 /\ world[s.obj].ver >= read.ver
    /\ world[s.obj].ver = read.ver /\ world[s.obj].live => world[s.obj] = read

\* As long as nothing is wrong, step n is what operation n became.
StepInv(n) ==
    /\ steps[n].action \in Allowed(ops[n])
    /\ steps[n].action = "create" <=> steps[n].obj = NoId
    /\ steps[n].action = "delete" => allowDelete
    /\ steps[n].action # "create" => ReadInv(steps[n], reads[n][steps[n].obj])
    /\ steps[n].action = "create" => steps[n].key = ops[n].match
    /\ ops[n].match # NoKey => \A i \in Ids :
          reads[n][i].live /\ reads[n][i].key = ops[n].match => steps[n].obj = i
StepsInv == errors = {} => \A n \in 1..Len(steps) : StepInv(n)

\* What is reported of an operation the call is past.
ReportInv ==
    edits = 0 /\ Len(ops) \in 1..MaxOperations =>
        \A n \in 1..Len(ops) : n < next =>
            IF Faulty(ops[n]) THEN \E e \in errors : e[1] = n
            ELSE \A e \in errors : e[1] = n => e[2] = "netbox"

PlannerInv == TypeOK /\ WorldInv /\ CallInv /\ StepsInv /\ ReportInv

-----------------------------------------------------------------------------
(* What the operators return.                                              *)

LEMMA Appended ==
    ASSUME NEW S, NEW s \in Seq(S), NEW x \in S
    PROVE  /\ Append(s, x) \in Seq(S) /\ Len(Append(s, x)) = Len(s) + 1 /\ Len(s) \in Nat
           /\ \A n \in 1..Len(s) : Append(s, x)[n] = s[n]
           /\ Append(s, x)[Len(s) + 1] = x
OBVIOUS

\* An operation _validate_operation finds nothing wrong with.
LEMMA ValidOperation ==
    ASSUME NEW o \in Operation, Invalid(o) = {}
    PROVE  /\ o.op \in {"create", "update", "delete"}
           /\ o.match \in Keys \cup {NoKey} /\ Match(o) = o.match
           /\ ~(o.id \in Ids /\ o.match # NoKey)
           /\ o.op # "create" => o.id \in Ids \/ o.match # NoKey
           /\ o.op = "delete" => allowDelete
<1>1. {"not an object", "op", "match", "both", "target", "delete disabled"} \subseteq Trouble
  BY DEF Trouble
<1>2. \A t \in Trouble : t \notin Invalid(o)
  OBVIOUS
<1>3. o.op \in {"create", "update", "delete"}
  BY <1>1, <1>2 DEF Invalid, Operation
<1>4. o.match # BadKey
  BY <1>1, <1>2, <1>3 DEF Invalid
<1>5. ~(o.id \in Ids /\ Match(o) # NoKey)
  BY <1>1, <1>2, <1>3 DEF Invalid
<1>6. o.op \in {"update", "delete"} => Targeted(o)
  BY <1>1, <1>2, <1>3 DEF Invalid
<1>7. o.op = "delete" => allowDelete
  BY <1>1, <1>2, <1>3 DEF Invalid
<1> QED BY <1>3, <1>4, <1>5, <1>6, <1>7 DEF Operation, Match, Targeted

\* What _resolve_target finds is there, and is one object unless it says so.
LEMMA Resolved ==
    ASSUME NEW o \in Operation
    PROVE  /\ Found(o) \subseteq Live
           /\ Unresolved(o) = {} =>
                 /\ \A i, j \in Found(o) : i = j
                 /\ o.op # "create" => Found(o) # {}
<1>1. Found(o) \subseteq Live /\ Live \subseteq Ids
  BY DEF Found, Live
<1>2. IsFiniteSet(Found(o)) /\ Cardinality(Found(o)) \in Nat
  BY <1>1, FS_Subset, FS_CardinalityType, PlannerAssumption
<1>3. ASSUME Unresolved(o) = {} PROVE \A i, j \in Found(o) : i = j
  <2>1. "ambiguous" \in Trouble
    BY DEF Trouble
  <2>2. ~(Cardinality(Found(o)) > 1)
    BY <1>3, <2>1 DEF Unresolved
  <2>3. ASSUME NEW i \in Found(o), NEW j \in Found(o), i # j PROVE FALSE
    <3>1. IsFiniteSet({i}) /\ Cardinality({i}) = 1 /\ j \notin {i}
      BY <2>3, FS_Singleton
    <3>2. Cardinality({i} \cup {j}) = 2
      BY <3>1, FS_AddElement
    <3>3. Cardinality({i} \cup {j}) <= Cardinality(Found(o))
      BY <1>2, FS_Subset
    <3> QED BY <1>2, <2>2, <3>2, <3>3
  <2> QED BY <2>3
<1>4. ASSUME Unresolved(o) = {}, o.op # "create" PROVE Found(o) # {}
  <2>1. "missing" \in Trouble
    BY DEF Trouble
  <2> QED BY <1>4, <2>1 DEF Unresolved
<1> QED BY <1>1, <1>3, <1>4

\* What a step built for operation o says of the object it was read from.
Fits(o, step) ==
    /\ step \in Step
    /\ step.action \in Allowed(o)
    /\ step.action = "create" <=> step.obj = NoId
    /\ step.action = "delete" => allowDelete
    /\ step.action # "create" => step.obj \in Live /\ step.stamp = Stamp(step.obj)
    /\ step.action = "create" => step.key = o.match
    /\ o.match # NoKey => \A i \in Live : world[i].key = o.match => step.obj = i

LEMMA CreationFits ==
    ASSUME NEW o \in Operation, Invalid(o) = {}, o.op = "create", Reads(o) => Found(o) = {}
    PROVE  Fits(o, Creation(o))
<1>1. o.match \in Keys \cup {NoKey} /\ ~(o.id \in Ids /\ o.match # NoKey)
  BY ValidOperation
<1>2. Creation(o) = [action |-> "create", obj |-> NoId, key |-> o.match, stamp |-> 0] /\ NoId \notin Ids
  BY PlannerAssumption DEF Creation
<1>3. Creation(o) \in Step
  BY <1>1, <1>2 DEF Step
<1>4. ASSUME o.match # NoKey, NEW i \in Live, world[i].key = o.match PROVE FALSE
  BY <1>1, <1>4 DEF Reads, Found
<1> QED BY <1>2, <1>3, <1>4 DEF Fits, Allowed

LEMMA PlannedFits ==
    ASSUME TypeOK, NEW o \in Operation, Invalid(o) = {}, Unresolved(o) = {}, NEW i \in Found(o)
    PROVE  Fits(o, Planned(o, i))
<1>1. /\ o.op \in {"create", "update", "delete"} /\ (o.op = "delete" => allowDelete)
      /\ ~(o.id \in Ids /\ o.match # NoKey)
  BY ValidOperation
<1>2. i \in Live /\ i \in Ids /\ \A j \in Found(o) : i = j
  BY Resolved DEF Live
<1>3. world[i] \in Object /\ world[i].ver \in Nat /\ Stamp(i) \in Nat
  BY <1>2 DEF TypeOK, Object, Stamp
<1> DEFINE step == Planned(o, i)
<1>4. /\ step.obj = i /\ step.stamp = Stamp(i) /\ step.key = NoKey
      /\ step.action = IF o.op = "delete" THEN "delete" ELSE IF world[i].same THEN "noop" ELSE "update"
  BY DEF Planned, Expected
<1>5. step \in Step
  BY <1>2, <1>3, <1>4 DEF Planned, Expected, Step
<1>6. step.action \in Allowed(o) /\ step.action # "create" /\ (step.action = "delete" => allowDelete)
  BY <1>1, <1>4 DEF Allowed
<1>7. i # NoId
  BY <1>2, PlannerAssumption
<1>8. ASSUME o.match # NoKey PROVE \A j \in Live : world[j].key = o.match => i = j
  BY <1>1, <1>2, <1>8 DEF Found
<1> HIDE DEF step
<1>9. Fits(o, step)
  BY <1>2, <1>3, <1>4, <1>5, <1>6, <1>7, <1>8 DEF Fits
<1> QED BY <1>9 DEF step

\* An operation either adds a step that fits or is reported, and one that is
\* reported without a fault of its own had its GET fail.
LEMMA PlanOutcome ==
    ASSUME TypeOK, PlanOperation, Current \in Operation
    PROVE  \/ /\ \E step \in Step : Fits(Current, step) /\ Adds(step)
              /\ ~Faulty(Current)
           \/ \E troubles \in SUBSET Trouble :
                 troubles # {} /\ Reports(troubles) /\ (~Faulty(Current) => troubles = {"netbox"})
<1>1. Invalid(Current) = {} /\ NoId \notin Ids
  BY PlannerAssumption DEF PlanOperation
<1>2. CASE ~Reads(Current)
  <2>1. Current.op = "create" /\ Adds(Creation(Current))
    BY <1>2 DEF PlanOperation, Reads
  <2>2. Fits(Current, Creation(Current))
    BY <1>1, <1>2, <2>1, CreationFits
  <2>3. Creation(Current) \in Step
    BY <2>2 DEF Fits
  <2> QED BY <1>1, <1>2, <2>1, <2>2, <2>3 DEF Faulty
<1>3. CASE Reads(Current) /\ Reports({"netbox"})
  <2>1. {"netbox"} \in SUBSET Trouble /\ {"netbox"} # {}
    BY DEF Trouble
  <2> QED BY <1>3, <2>1
<1>4. CASE Reads(Current) /\ Unresolved(Current) # {} /\ Reports(Unresolved(Current))
  <2>1. Unresolved(Current) \in SUBSET Trouble
    BY DEF Unresolved
  <2> QED BY <1>4, <2>1 DEF Faulty
<1>5. CASE Reads(Current) /\ Unresolved(Current) = {} /\ Found(Current) = {} /\ Adds(Creation(Current))
  <2>1. Current.op = "create"
    BY <1>5, Resolved
  <2>2. Fits(Current, Creation(Current))
    BY <1>1, <1>5, <2>1, CreationFits
  <2>3. Creation(Current) \in Step
    BY <2>2 DEF Fits
  <2> QED BY <1>1, <1>5, <2>2, <2>3 DEF Faulty
<1>6. CASE Reads(Current) /\ Unresolved(Current) = {} /\ \E i \in Found(Current) : Adds(Planned(Current, i))
  <2>1. PICK i \in Found(Current) : Adds(Planned(Current, i))
    BY <1>6
  <2>2. Fits(Current, Planned(Current, i))
    BY <1>1, <1>6, PlannedFits
  <2>3. Planned(Current, i) \in Step
    BY <2>2 DEF Fits
  <2> QED BY <1>1, <1>6, <2>1, <2>2, <2>3 DEF Faulty
<1> QED BY <1>2, <1>3, <1>4, <1>5, <1>6 DEF PlanOperation

-----------------------------------------------------------------------------
(* Every action keeps the invariant.                                       *)

LEMMA AtOperation ==
    ASSUME TypeOK, Advance
    PROVE  /\ Current \in Operation /\ next \in 1..Len(ops) /\ Len(ops) \in Nat
           /\ next' = next + 1 /\ Len(steps) \in Nat /\ Len(reads) = Len(steps)
<1>1. ops \in Seq(Operation)
  <2>1. <<>> \in Seq(Operation)
    OBVIOUS
  <2> QED BY <2>1, PlannerAssumption DEF TypeOK
<1>2. next \in 1..Len(ops) /\ Len(ops) \in Nat
  BY <1>1 DEF TypeOK, Advance
<1> QED BY <1>1, <1>2 DEF TypeOK, Advance, Current

LEMMA ReportsTyped ==
    ASSUME TypeOK, Advance, NEW troubles \in SUBSET Trouble, Reports(troubles)
    PROVE  errors' \subseteq (0..Len(ops')) \X Trouble
<1>1. next \in 0..Len(ops)
  BY AtOperation
<1>2. {next} \X troubles \subseteq (0..Len(ops)) \X Trouble
  BY <1>1
<1> QED BY <1>2 DEF TypeOK, Advance, Reports

LEMMA TypePreserved == ASSUME TypeOK, CallInv, [Next]_vars PROVE TypeOK'
<1> USE PlannerAssumption
<1>0. CASE UNCHANGED vars
  BY <1>0 DEF vars, TypeOK, Live
<1>1. CASE Submit
  <2>1. PICK s \in Submissions :
          /\ ops' = s
          /\ IF s = <<>> \/ Len(s) > MaxOperations
             THEN /\ errors' = {<<0, IF s = <<>> THEN "not a list" ELSE "too many">>}
                  /\ outcome' = "rejected" /\ UNCHANGED pc
             ELSE pc' = "planning" /\ UNCHANGED <<errors, outcome>>
    BY <1>1 DEF Submit
  <2>2. Len(s) \in Nat /\ errors = {} /\ next = 1
    <3>1. s \in Seq(Operation)
      OBVIOUS
    <3>2. errors = {} /\ next = 1
      BY <1>1 DEF Submit, CallInv
    <3> QED BY <3>1, <3>2
  <2>3. 0 \in 0..Len(s) /\ {"not a list", "too many"} \subseteq Trouble
    BY <2>2 DEF Trouble
  <2>4. errors' \subseteq (0..Len(ops')) \X Trouble
    <3>1. errors' = {} \/ \E t \in {"not a list", "too many"} : errors' = {<<0, t>>}
      BY <2>1, <2>2
    <3>2. ops' = s
      BY <2>1
    <3>3. \A t \in Trouble : <<0, t>> \in (0..Len(s)) \X Trouble
      BY <2>3
    <3>4. \A t \in {"not a list", "too many"} : <<0, t>> \in (0..Len(s)) \X Trouble
      BY <2>3, <3>3
    <3> QED BY <3>1, <3>2, <3>4
  <2>5. ops' \in Submissions \cup {<<>>} /\ next' \in 1..(Len(ops') + 1)
    <3>1. next' = 1 /\ ops' = s
      BY <1>1, <2>1, <2>2 DEF Submit
    <3> QED BY <2>2, <3>1
  <2> QED BY <1>1, <2>1, <2>4, <2>5 DEF Submit, TypeOK
<1>2. CASE RefuseOperation
  <2>1. Invalid(Current) \in SUBSET Trouble
    BY DEF Invalid
  <2>2. errors' \subseteq (0..Len(ops')) \X Trouble
    BY <1>2, <2>1, ReportsTyped DEF RefuseOperation
  <2>3. next' \in 1..(Len(ops') + 1)
    BY <1>2, AtOperation DEF RefuseOperation, Advance
  <2> QED BY <1>2, <2>2, <2>3 DEF RefuseOperation, Advance, Reports, TypeOK
<1>3. CASE PlanOperation
  <2>0. Advance /\ Current \in Operation
    BY <1>3, AtOperation DEF PlanOperation
  <2>1. next' \in 1..(Len(ops') + 1)
    BY <2>0, AtOperation DEF Advance
  <2>2. ASSUME NEW step \in Step, Adds(step) PROVE TypeOK'
    <3>1. steps' \in Seq(Step) /\ reads' \in Seq([Ids -> Object]) /\ Len(reads') = Len(steps')
      BY <2>2, Appended DEF Adds, TypeOK
    <3> QED BY <2>0, <2>1, <2>2, <3>1 DEF Advance, Adds, TypeOK
  <2>3. ASSUME NEW troubles \in SUBSET Trouble, Reports(troubles) PROVE TypeOK'
    <3>1. errors' \subseteq (0..Len(ops')) \X Trouble
      BY <2>0, <2>3, ReportsTyped
    <3> QED BY <2>0, <2>1, <2>3, <3>1 DEF Advance, Reports, TypeOK
  <2> QED BY <1>3, <2>0, <2>2, <2>3, PlanOutcome
<1>4. CASE Finish
  BY <1>4 DEF Finish, TypeOK
<1>5. CASE ForeignEdit
  <2>1. world' \in [Ids -> Object]
    <3>1. PICK i \in Ids, key \in Keys \cup {NoKey}, same \in BOOLEAN :
             world' = [world EXCEPT ![i] = [live |-> TRUE, key |-> key, same |-> same, ver |-> @.ver + 1]]
      BY <1>5 DEF ForeignEdit
    <3>2. world \in [Ids -> Object] /\ world[i].ver + 1 \in Nat
      BY DEF TypeOK, Object
    <3>3. [live |-> TRUE, key |-> key, same |-> same, ver |-> world[i].ver + 1] \in Object
      BY <3>2, Zenon DEF Object
    <3> QED BY <3>1, <3>2, <3>3
  <2>2. edits' \in 0..MaxEdits
    BY <1>5 DEF ForeignEdit, TypeOK
  <2> QED BY <1>5, <2>1, <2>2 DEF ForeignEdit, TypeOK
<1>6. CASE ForeignDelete
  <2>1. world' \in [Ids -> Object]
    <3>1. PICK i \in Ids : world' = [world EXCEPT ![i].live = FALSE]
      BY <1>6 DEF ForeignDelete, Live
    <3>2. world \in [Ids -> Object]
      BY DEF TypeOK
    <3>3. [world[i] EXCEPT !.live = FALSE] \in Object
      BY <3>2, Zenon DEF Object
    <3> QED BY <3>1, <3>2, <3>3
  <2>2. edits' \in 0..MaxEdits
    BY <1>6 DEF ForeignDelete, TypeOK
  <2> QED BY <1>6, <2>1, <2>2 DEF ForeignDelete, TypeOK
<1> QED BY <1>0, <1>1, <1>2, <1>3, <1>4, <1>5, <1>6 DEF Next

LEMMA WorldPreserved == ASSUME TypeOK, WorldInv, [Next]_vars PROVE WorldInv'
<1>1. CASE UNCHANGED world
  BY <1>1 DEF WorldInv
<1>2. CASE ForeignEdit
  <2>1. \A i \in Ids : world[i].ver \in Nat
    BY DEF TypeOK, Object
  <2> QED BY <1>2, <2>1 DEF ForeignEdit, WorldInv, TypeOK
<1>3. CASE ForeignDelete
  BY <1>3 DEF ForeignDelete, Live, WorldInv, TypeOK, Object
<1> QED
  BY <1>1, <1>2, <1>3 DEF Next, vars, Submit, RefuseOperation, PlanOperation, Advance, Finish

LEMMA CallPreserved == ASSUME TypeOK, CallInv, [Next]_vars PROVE CallInv'
<1>0. CASE UNCHANGED <<pc, ops, next, steps, errors, outcome>>
  BY <1>0 DEF CallInv
<1>1. CASE Submit
  <2>1. next = 1 /\ next' = 1 /\ errors = {} /\ steps' = steps /\ pc = "idle" /\ outcome = "none"
    BY <1>1 DEF Submit, CallInv
  <2>6. Len(steps) = next - 1
    BY <2>1 DEF CallInv
  <2>2. PICK s \in Submissions :
          /\ ops' = s
          /\ IF s = <<>> \/ Len(s) > MaxOperations
             THEN /\ errors' = {<<0, IF s = <<>> THEN "not a list" ELSE "too many">>}
                  /\ outcome' = "rejected" /\ UNCHANGED pc
             ELSE pc' = "planning" /\ UNCHANGED <<errors, outcome>>
    BY <1>1 DEF Submit
  <2>3. s \in Seq(Operation) /\ MaxOperations \in Nat
    BY PlannerAssumption
  <2>4. CASE s = <<>> \/ Len(s) > MaxOperations
    <3>1. Len(s) \notin 1..MaxOperations
      BY <2>3, <2>4
    <3>2. \E t : errors' = {<<0, t>>}
      BY <2>2, <2>4
    <3>3. \A e \in errors' : e[1] = 0
      BY <3>2
    <3>4. errors' # {}
      BY <3>2
    <3>5. outcome' = "rejected" /\ pc' = "idle" /\ ops' = s
      BY <2>1, <2>2, <2>4
    <3> QED BY <2>1, <3>1, <3>3, <3>4, <3>5 DEF CallInv
  <2>5. CASE ~(s = <<>> \/ Len(s) > MaxOperations)
    BY <2>1, <2>2, <2>5, <2>6 DEF CallInv
  <2> QED BY <2>4, <2>5
<1>2. ASSUME Advance, NEW troubles, troubles # {}, Reports(troubles) PROVE CallInv'
  <2>1. errors' # {} /\ \A e \in errors' : e \in errors \/ e[1] = next
    <3>1. PICK t \in troubles : TRUE
      BY <1>2
    <3>2. errors' = errors \cup ({next} \X troubles)
      BY <1>2 DEF Reports
    <3>3. <<next, t>> \in {next} \X troubles
      BY <3>1
    <3>4. \A e \in {next} \X troubles : e[1] = next
      OBVIOUS
    <3> QED BY <3>2, <3>3, <3>4
  <2>2. \A e \in errors' : e[1] < next'
    <3>1. next \in Nat /\ next' = next + 1 /\ \A e \in errors : e[1] \in Nat /\ e[1] < next
      BY <1>2, AtOperation DEF TypeOK, CallInv
    <3> QED BY <2>1, <3>1
  <2> QED BY <1>2, <2>1, <2>2 DEF Advance, CallInv
<1>3. ASSUME Advance, NEW step \in Step, Adds(step) PROVE CallInv'
  <2>1. next \in Nat /\ next' = next + 1 /\ \A e \in errors : e[1] \in Nat /\ e[1] < next
    BY <1>3, AtOperation DEF TypeOK, CallInv
  <2>2. Len(steps') = Len(steps) + 1 /\ Len(steps) \in Nat /\ errors' = errors
    BY <1>3, Appended DEF Adds, TypeOK
  <2> QED BY <1>3, <2>1, <2>2 DEF Advance, CallInv
<1>4. CASE RefuseOperation
  BY <1>2, <1>4 DEF RefuseOperation
<1>5. CASE PlanOperation
  <2>1. Advance /\ Current \in Operation
    BY <1>5, AtOperation DEF PlanOperation
  <2> QED BY <1>2, <1>3, <1>5, <2>1, PlanOutcome
<1>6. CASE Finish
  <2>1. next = Len(ops) + 1
    <3>1. ops \in Seq(Operation)
      <4>1. <<>> \in Seq(Operation)
        OBVIOUS
      <4> QED BY <4>1, PlannerAssumption DEF TypeOK
    <3> QED BY <1>6, <3>1 DEF Finish, TypeOK
  <2> QED BY <1>6, <2>1 DEF Finish, Sound, CallInv
<1> QED
  BY <1>0, <1>1, <1>4, <1>5, <1>6 DEF Next, vars, ForeignEdit, ForeignDelete

LEMMA ReportPreserved == ASSUME TypeOK, CallInv, ReportInv, [Next]_vars PROVE ReportInv'
<1>0. CASE UNCHANGED vars
  <2>1. \A n \in 1..Len(ops) : Faulty(ops[n])' <=> Faulty(ops[n])
    BY <1>0 DEF vars, Faulty, Reads, Invalid, Match, Targeted, Unresolved, Found, Live
  <2> QED BY <1>0, <2>1 DEF vars, ReportInv
<1>1. CASE Submit
  <2>1. next' = 1
    BY <1>1 DEF Submit, CallInv
  <2> QED BY <2>1 DEF ReportInv
<1>2. CASE Advance
  <2>1. /\ next \in 1..Len(ops) /\ Len(ops) \in Nat /\ next' = next + 1
        /\ UNCHANGED <<allowDelete, world, edits, ops>>
    BY <1>2, AtOperation DEF Advance
  <2>2. \A n \in 1..Len(ops) : Faulty(ops[n])' <=> Faulty(ops[n])
    BY <2>1 DEF Faulty, Reads, Invalid, Match, Targeted, Unresolved, Found, Live
  <2>3. SUFFICES ASSUME edits = 0, Len(ops) \in 1..MaxOperations, NEW n \in 1..Len(ops), n < next'
                 PROVE  IF Faulty(ops[n]) THEN \E e \in errors' : e[1] = n
                        ELSE \A e \in errors' : e[1] = n => e[2] = "netbox"
    BY <2>1, <2>2 DEF ReportInv
  <2>4. \A e \in errors : e[1] < next
    BY DEF CallInv
  <2>5. ASSUME NEW troubles \in SUBSET Trouble, troubles # {}, Reports(troubles),
               ~Faulty(Current) => troubles = {"netbox"}
        PROVE  IF Faulty(ops[n]) THEN \E e \in errors' : e[1] = n
               ELSE \A e \in errors' : e[1] = n => e[2] = "netbox"
    <3>1. errors' = errors \cup ({next} \X troubles)
      BY <2>5 DEF Reports
    <3>2. CASE n < next
      <4>1. \A e \in errors' : e[1] = n => e \in errors
        BY <3>1, <3>2
      <4> QED BY <3>1, <3>2, <4>1, <2>3 DEF ReportInv
    <3>3. CASE n = next
      <4>1. PICK t \in troubles : TRUE
        BY <2>5
      <4>2. <<next, t>> \in errors' /\ <<next, t>>[1] = next
        BY <3>1, <4>1
      <4>3. \A e \in errors' : e[1] = n => e[2] \in troubles
        BY <2>1, <2>4, <3>1, <3>3
      <4> QED BY <2>5, <3>3, <4>2, <4>3 DEF Current
    <3> QED BY <2>1, <2>3, <3>2, <3>3
  <2>6. ASSUME NEW step, Adds(step), ~Faulty(Current)
        PROVE  IF Faulty(ops[n]) THEN \E e \in errors' : e[1] = n
               ELSE \A e \in errors' : e[1] = n => e[2] = "netbox"
    <3>1. errors' = errors
      BY <2>6 DEF Adds
    <3>2. CASE n < next
      BY <2>3, <3>1, <3>2 DEF ReportInv
    <3>3. CASE n = next
      <4>1. \A e \in errors' : e[1] # n
        BY <2>1, <2>4, <3>1, <3>3
      <4> QED BY <2>6, <3>3, <4>1 DEF Current
    <3> QED BY <2>1, <2>3, <3>2, <3>3
  <2>7. CASE RefuseOperation
    <3>1. Invalid(Current) \in SUBSET Trouble /\ Faulty(Current) /\ Invalid(Current) # {} /\ Reports(Invalid(Current))
      BY <2>7 DEF RefuseOperation, Invalid, Faulty
    <3> QED BY <2>5, <3>1
  <2>8. CASE PlanOperation
    BY <1>2, <2>5, <2>6, <2>8, PlanOutcome, AtOperation
  <2>9. RefuseOperation \/ PlanOperation
    <3>1. pc = "planning" /\ next' # next /\ ~(next > Len(ops))
      BY <1>2, <2>1 DEF Advance
    <3> QED BY <3>1 DEF Next, vars, Submit, Finish, ForeignEdit, ForeignDelete
  <2> QED BY <2>7, <2>8, <2>9
<1>3. CASE Finish
  <2>1. \A n \in 1..Len(ops) : Faulty(ops[n])' <=> Faulty(ops[n])
    BY <1>3 DEF Finish, Faulty, Reads, Invalid, Match, Targeted, Unresolved, Found, Live
  <2> QED BY <1>3, <2>1 DEF Finish, ReportInv
<1>4. CASE ForeignEdit \/ ForeignDelete
  <2>1. edits' # 0
    BY <1>4 DEF ForeignEdit, ForeignDelete, TypeOK
  <2> QED BY <2>1 DEF ReportInv
<1> QED BY <1>0, <1>1, <1>2, <1>3, <1>4 DEF Next, RefuseOperation, PlanOperation

\* NetBox only moves on: what keeps its stamp and its life is what it was.
LEMMA WorldMovesOn ==
    ASSUME TypeOK, [Next]_vars, NEW i \in Ids
    PROVE  /\ world[i].ver \in Nat /\ world'[i].ver \in Nat /\ world'[i].ver >= world[i].ver
           /\ world'[i].ver = world[i].ver /\ world'[i].live => world'[i] = world[i]
<1>0. world \in [Ids -> Object] /\ world[i].ver \in Nat
  BY DEF TypeOK, Object
<1>1. CASE UNCHANGED world
  BY <1>0, <1>1
<1>2. CASE ForeignEdit
  <2>1. PICK j \in Ids, key \in Keys \cup {NoKey}, same \in BOOLEAN :
           world' = [world EXCEPT ![j] = [live |-> TRUE, key |-> key, same |-> same, ver |-> @.ver + 1]]
    BY <1>2 DEF ForeignEdit
  <2>2. world'[i] = IF i = j THEN [live |-> TRUE, key |-> key, same |-> same, ver |-> world[i].ver + 1] ELSE world[i]
    BY <1>0, <2>1
  <2> QED BY <1>0, <2>2
<1>3. CASE ForeignDelete
  <2>1. PICK j \in Ids : world' = [world EXCEPT ![j].live = FALSE]
    BY <1>3 DEF ForeignDelete, Live
  <2>2. world'[i] = IF i = j THEN [world[i] EXCEPT !.live = FALSE] ELSE world[i]
    BY <1>0, <2>1
  <2>3. [world[i] EXCEPT !.live = FALSE].ver = world[i].ver /\ ~[world[i] EXCEPT !.live = FALSE].live
    BY <1>0 DEF Object
  <2> QED BY <1>0, <2>2, <2>3
<1> QED
  BY <1>1, <1>2, <1>3 DEF Next, vars, Submit, RefuseOperation, PlanOperation, Advance, Finish

LEMMA StepsPreserved ==
    ASSUME TypeOK, WorldInv, CallInv, StepsInv, [Next]_vars PROVE StepsInv'
<1>0. CASE UNCHANGED <<allowDelete, world, edits, ops, steps, errors, reads>>
  <2>1. \A n \in 1..Len(steps) : StepInv(n)' <=> StepInv(n)
    BY <1>0 DEF StepInv, ReadInv, Live
  <2> QED BY <1>0, <2>1 DEF StepsInv
<1>1. CASE Submit
  <2>1. next = 1 /\ errors = {} /\ steps' = steps
    BY <1>1 DEF Submit, CallInv
  <2>2. Len(steps) = next - 1
    BY <2>1 DEF CallInv
  <2> QED BY <2>1, <2>2 DEF StepsInv
<1>2. ASSUME NEW troubles, troubles # {}, Reports(troubles) PROVE StepsInv'
  <2>1. PICK t \in troubles : TRUE
    BY <1>2
  <2>2. <<next, t>> \in errors'
    BY <1>2, <2>1 DEF Reports
  <2> QED BY <2>2 DEF StepsInv
<1>3. ASSUME Advance, NEW step \in Step, Fits(Current, step), Adds(step)
      PROVE  StepsInv'
  <2>1. SUFFICES ASSUME errors = {}, NEW n \in 1..Len(steps') PROVE StepInv(n)'
    BY <1>3 DEF StepsInv, Adds
  <2>2. /\ steps \in Seq(Step) /\ reads \in Seq([Ids -> Object]) /\ world \in [Ids -> Object] /\ Len(reads) = Len(steps)
        /\ Len(steps) = next - 1 /\ next \in Nat /\ Len(steps) \in Nat
    BY <1>3, <2>1, AtOperation DEF TypeOK, CallInv
  <2>3. /\ Len(steps') = Len(steps) + 1
        /\ \A m \in 1..Len(steps) : steps'[m] = steps[m] /\ reads'[m] = reads[m]
        /\ steps'[next] = step /\ reads'[next] = world
    BY <1>3, <2>2, Appended DEF Adds
  <2>4. UNCHANGED <<allowDelete, world, edits, ops>>
    BY <1>3 DEF Advance
  <2>5. CASE n \in 1..Len(steps)
    <3>1. StepInv(n)
      BY <2>1, <2>5 DEF StepsInv
    <3>2. steps'[n] = steps[n] /\ reads'[n] = reads[n]
      BY <2>3, <2>5
    <3> QED BY <2>4, <3>1, <3>2 DEF StepInv, ReadInv, Live
  <2>6. CASE n = next
    <3>1. steps'[n] = step /\ reads'[n] = world /\ ops[n] = Current
      BY <2>3, <2>6 DEF Current
    <3>2. ASSUME step.action # "create" PROVE ReadInv(step, world[step.obj])
      <4>1. step.obj \in Live /\ step.stamp = Stamp(step.obj)
        BY <1>3, <3>2 DEF Fits
      <4>2. step.obj \in Ids /\ world[step.obj].live /\ world[step.obj] \in Object
        BY <4>1 DEF Live, TypeOK
      <4>3. world[step.obj].ver >= 1 /\ world[step.obj].ver \in Nat
        BY <4>2 DEF WorldInv, Object
      <4> QED BY <4>1, <4>2, <4>3 DEF ReadInv, Stamp
    <3> QED BY <1>3, <2>4, <3>1, <3>2 DEF Fits, StepInv, ReadInv, Live
  <2> QED BY <2>2, <2>3, <2>5, <2>6
<1>4. CASE RefuseOperation
  BY <1>2, <1>4 DEF RefuseOperation
<1>5. CASE PlanOperation
  <2>1. Advance /\ Current \in Operation
    BY <1>5, AtOperation DEF PlanOperation
  <2> QED BY <1>2, <1>3, <1>5, <2>1, PlanOutcome
<1>6. CASE ForeignEdit \/ ForeignDelete
  <2>1. edits' # 0 /\ UNCHANGED <<allowDelete, ops, steps, errors, reads>>
    BY <1>6 DEF ForeignEdit, ForeignDelete, TypeOK
  <2>2. ASSUME NEW s, NEW read, ReadInv(s, read) PROVE ReadInv(s, read)'
    <3>1. s.obj \in Ids /\ read.ver \in Nat
      BY <2>2 DEF ReadInv, Object
    <3> QED BY <2>2, <3>1, WorldMovesOn DEF ReadInv
  <2>3. ASSUME NEW n \in 1..Len(steps), StepInv(n) PROVE StepInv(n)'
    BY <2>1, <2>2, <2>3 DEF StepInv
  <2> QED BY <2>1, <2>3 DEF StepsInv
<1> QED
  BY <1>0, <1>1, <1>4, <1>5, <1>6 DEF Next, vars, Finish

LEMMA PlannerInvInit == Init => PlannerInv
<1> SUFFICES ASSUME Init PROVE PlannerInv
  OBVIOUS
<1> USE PlannerAssumption
<1>1. PICK key \in [Existing -> Keys \cup {NoKey}], same \in [Existing -> BOOLEAN] :
        world = [i \in Ids |->
                   IF i \in Existing THEN [live |-> TRUE, key |-> key[i], same |-> same[i], ver |-> 1]
                   ELSE [live |-> FALSE, key |-> NoKey, same |-> FALSE, ver |-> 0]]
  BY DEF Init
<1>2. ASSUME NEW i \in Ids PROVE world[i] \in Object /\ (world[i].live => world[i].ver = 1)
  <2>1. CASE i \in Existing
    <3>1. key[i] \in Keys \cup {NoKey} /\ same[i] \in BOOLEAN
      BY <2>1
    <3>2. world[i] = [live |-> TRUE, key |-> key[i], same |-> same[i], ver |-> 1]
      BY <1>1, <2>1
    <3>3. 1 \in Nat
      OBVIOUS
    <3>4. [live |-> TRUE, key |-> key[i], same |-> same[i], ver |-> 1] \in Object
      BY <3>1, <3>3, Zenon DEF Object
    <3> QED BY <3>2, <3>4
  <2>2. CASE i \notin Existing
    <3>1. world[i] = [live |-> FALSE, key |-> NoKey, same |-> FALSE, ver |-> 0]
      BY <1>1, <2>2
    <3>2. 0 \in Nat
      OBVIOUS
    <3>3. [live |-> FALSE, key |-> NoKey, same |-> FALSE, ver |-> 0] \in Object
      BY <3>2, Zenon DEF Object
    <3> QED BY <3>1, <3>3
  <2> QED BY <2>1, <2>2
<1>3. world \in [Ids -> Object]
  BY <1>1, <1>2
<1>4. TypeOK
  <2>1. steps \in Seq(Step) /\ reads \in Seq([Ids -> Object]) /\ Len(reads) = Len(steps)
    BY DEF Init
  <2>2. ops \in Submissions \cup {<<>>} /\ next \in 1..(Len(ops) + 1) /\ edits \in 0..MaxEdits
    BY DEF Init
  <2>3. errors \subseteq (0..Len(ops)) \X Trouble
    BY DEF Init
  <2> QED BY <1>3, <2>1, <2>2, <2>3 DEF Init, TypeOK
<1>5. WorldInv
  BY <1>2 DEF WorldInv
<1>6. CallInv
  BY DEF Init, CallInv
<1>7. StepsInv /\ ReportInv
  BY DEF Init, StepsInv, ReportInv
<1> QED BY <1>4, <1>5, <1>6, <1>7 DEF PlannerInv

LEMMA PlannerInvNext == PlannerInv /\ [Next]_vars => PlannerInv'
BY TypePreserved, WorldPreserved, CallPreserved, StepsPreserved, ReportPreserved DEF PlannerInv

LEMMA PlannerInvAlways == Spec => []PlannerInv
BY PlannerInvInit, PlannerInvNext, PTL DEF Spec

-----------------------------------------------------------------------------
(* What follows from it.                                                   *)

LEMMA SavedSteps ==
    ASSUME PlannerInv, outcome = "saved"
    PROVE  Len(steps) = Len(ops) /\ \A n \in DOMAIN steps : steps[n] \in Step /\ StepInv(n)
<1>1. errors = {} /\ next = Len(ops) + 1 /\ steps \in Seq(Step)
  BY DEF PlannerInv, CallInv, TypeOK
<1>2. Len(steps) = next - 1 /\ \A n \in 1..Len(steps) : StepInv(n)
  BY <1>1 DEF PlannerInv, CallInv, StepsInv
<1>3. ops \in Seq(Operation)
  <2>1. <<>> \in Seq(Operation)
    OBVIOUS
  <2> QED BY <2>1, PlannerAssumption DEF PlannerInv, TypeOK
<1> QED BY <1>1, <1>2, <1>3

\* A plan that build_plan returns and the store saves has one step per
\* operation, of an action the operation may become, with an object unless it
\* creates one, and deletes only if the setting lets it.
THEOREM SavedPlansAreWellFormedAlways == Spec => []SavedPlansAreWellFormed
<1>1. PlannerInv => SavedPlansAreWellFormed
  BY SavedSteps DEF SavedPlansAreWellFormed, StepInv, Allowed
<1> QED BY <1>1, PlannerInvAlways, PTL

\* An object that is not as planner._step read it fails the precondition the
\* executor checks, however often and by whomever it was written since; so does
\* a create whose match finds an object by now, and no noop ever does.
THEOREM StalenessShowsAlways == Spec => []StalenessShows
<1>1. PlannerInv => StalenessShows
  <2> SUFFICES ASSUME PlannerInv, outcome = "saved", NEW n \in DOMAIN steps
               PROVE  /\ /\ steps[n].action \in {"update", "delete"} /\ steps[n].obj \notin Stampless
                         /\ world[steps[n].obj] # reads[n][steps[n].obj]
                         => Conflict(steps[n])
                      /\ /\ steps[n].action = "create" /\ ops[n].match # NoKey
                         /\ \E i \in Live : world[i].key = ops[n].match
                         => Conflict(steps[n])
                      /\ steps[n].action = "noop" => ~Conflict(steps[n])
    BY DEF StalenessShows
  <2>1. CASE steps[n].action \in {"update", "delete"} /\ steps[n].obj \notin Stampless
    <3> DEFINE read == reads[n][steps[n].obj]
    <3>1. ReadInv(steps[n], read) /\ read.ver \in Nat
      BY <2>1, SavedSteps DEF StepInv, ReadInv, Object
    <3>2. world[steps[n].obj] # read /\ steps[n].obj \in Live => world[steps[n].obj].ver # read.ver
      BY <3>1 DEF ReadInv, Live
    <3> QED BY <2>1, <3>1, <3>2 DEF ReadInv, Conflict, Stamp
  <2>2. CASE steps[n].action = "create"
    BY <2>2, SavedSteps DEF StepInv, Conflict
  <2> QED BY <2>1, <2>2 DEF Conflict
<1> QED BY <1>1, PlannerInvAlways, PTL

\* An object a match finds is the one its step acts on, unless it was written
\* after the step was built (_resolve_target refuses several, and a create
\* found none).
THEOREM AmbiguityRefusedAlways == Spec => []AmbiguityRefused
<1>1. PlannerInv => AmbiguityRefused
  BY SavedSteps DEF AmbiguityRefused, StepInv, Live
<1> QED BY <1>1, PlannerInvAlways, PTL

\* build_plan goes through every operation before it gives up: what a
\* rejection names is what is wrong, all of it.
THEOREM RejectionIsCompleteAlways == Spec => []RejectionIsComplete
<1>1. PlannerInv => RejectionIsComplete
  <2> SUFFICES ASSUME PlannerInv, outcome = "rejected", edits = 0, Len(ops) \in 1..MaxOperations,
                      NEW n \in DOMAIN ops, NEW troubles,
                      troubles = {e[2] : e \in {e \in errors : e[1] = n}}
               PROVE  IF Faulty(ops[n]) THEN troubles # {} ELSE troubles \subseteq {"netbox"}
    BY DEF RejectionIsComplete
  <2>1. ops \in Seq(Operation)
    <3>1. <<>> \in Seq(Operation)
      OBVIOUS
    <3> QED BY <3>1, PlannerAssumption DEF PlannerInv, TypeOK
  <2>2. n \in 1..Len(ops) /\ n < next
    BY <2>1 DEF PlannerInv, CallInv
  <2>3. IF Faulty(ops[n]) THEN \E e \in errors : e[1] = n ELSE \A e \in errors : e[1] = n => e[2] = "netbox"
    BY <2>2 DEF PlannerInv, ReportInv
  <2> QED BY <2>3
<1> QED BY <1>1, PlannerInvAlways, PTL
================================================================================
