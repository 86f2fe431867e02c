----------------------------- MODULE ExecutorProofs -----------------------------
(***************************************************************************)
(* Theorems about Executor and AuditedExecutor, for every set of callers,  *)
(* settings, plans, faults and bounds.                                     *)
(*                                                                         *)
(*   1  TypeInv, ClaimInv: each caller's program counter and its local     *)
(*      variables; the lock and the re-read status; mutual exclusion.      *)
(*   2  JInv: the journal and the status against what happened in NetBox;  *)
(*      PlanLifecycle.                                                     *)
(*   3  WorldInv, ApplyInv, RInv: the objects of NetBox.                   *)
(*   4  AuditedInv: the audit trail against the journal.                   *)
(***************************************************************************)
EXTENDS AuditedExecutor, SequenceTheorems, TLAPS

-----------------------------------------------------------------------------
(***************************************************************************)
(* 1. Types and claims.                                                    *)
(*                                                                         *)
(* TypeInv strengthens TypeOK with what each caller's program counter says *)
(* of its local variables; ClaimInv strengthens the mutual-exclusion       *)
(* properties with what the lock and the re-read status guarantee between  *)
(* them.                                                                   *)
(***************************************************************************)

Undoing == {"undo", "unwrite", "repost", "rerecord"}

\* What a caller holds at each point of its code.
LocalInv ==
    \A p \in Procs :
        /\ pc[p] \notin {"idle", "prune"} => mem[p] # NoPlan
        /\ pc[p] \in Undoing => todo[p] \subseteq 1..Len(mem[p].journal)
        /\ pc[p] \notin Undoing => todo[p] = {}
        /\ pc[p] \in {"step", "write", "record"} => Len(mem[p].journal) < N

TypeInv == TypeOK /\ LocalInv

-----------------------------------------------------------------------------
(* Helpers of the model.                                                   *)

LEMMA StepsTyped ==
    ASSUME TypeOK
    PROVE  /\ steps \in Seq(Step) /\ N \in Nat
           /\ \A i \in 1..N : steps[i] \in Step /\ WellFormed(steps[i])
  BY PlansAssumption DEF TypeOK, N

LEMMA NewEntryTyped ==
    ASSUME NEW status \in {"done", "skipped", "conflict", "failed"},
           NEW obj \in Ids \cup {NoId}, NEW after \in Nat
    PROVE  NewEntry(status, obj, after) \in Entry
  BY DEF NewEntry, Entry

LEMMA NoEntryTyped == NoEntry \in Entry
  BY NewEntryTyped DEF NoEntry, NewEntry, Entry

Vals == {"none", "orig", "partial", "plan", "foreign"}

LEMMA PostedTyped ==
    ASSUME world \in [Ids -> Object], NEW val \in Vals, NEW key \in Keys \cup {NoKey},
           NEW e \in Posted(val, key)
    PROVE  e.at \in Ids /\ e.now \in [Ids -> Object]
<1> DEFINE o == [live |-> TRUE, val |-> val, ver |-> 1, key |-> key]
<1>1. PICK i \in NextId : e = [at |-> i, now |-> [world EXCEPT ![i] = o]]
  BY DEF Posted
<1>2. i \in Ids
  BY DEF NextId, Unused
<1>3. o \in Object
  BY DEF Object, Vals
<1> HIDE DEF o
<1> QED BY <1>1, <1>2, <1>3

LEMMA PatchedTyped ==
    ASSUME world \in [Ids -> Object], NEW i, NEW val \in Vals, NEW e \in Patched(i, val)
    PROVE  e.at \in Ids /\ e.now \in [Ids -> Object]
<1> DEFINE o(j) == [live |-> TRUE, val |-> val, ver |-> world[j].ver + 1, key |-> world[j].key]
<1>1. PICK j \in {i} \cap Live : e = [at |-> j, now |-> [world EXCEPT ![j] = o(j)]]
  BY DEF Patched
<1>2. j \in Ids
  BY DEF Live
<1>3. o(j) \in Object
  BY <1>2 DEF Object, Vals
<1> HIDE DEF o
<1> QED BY <1>1, <1>2, <1>3

LEMMA DeletedTyped ==
    ASSUME world \in [Ids -> Object], NEW i, NEW e \in Deleted(i)
    PROVE  e.at \in Ids /\ e.now \in [Ids -> Object]
<1>1. PICK j \in {i} \cap Live :
        e = [at |-> j, now |-> [k \in Ids |-> IF k = j \/ Parent[k] = j
                                              THEN [world[k] EXCEPT !.live = FALSE] ELSE world[k]]]
  BY DEF Deleted
<1>2. \A k \in Ids : [world[k] EXCEPT !.live = FALSE] \in Object
  BY DEF Object
<1> QED BY <1>1, <1>2 DEF Live

LEMMA StampTyped == ASSUME TypeOK, NEW i \in Ids PROVE Stamp(i) \in Nat
  BY DEF TypeOK, Stamp, Object

LEMMA JournalExcept ==
    ASSUME NEW s \in Seq(Entry), NEW i \in 1..Len(s), NEW e \in Entry
    PROVE  [s EXCEPT ![i] = e] \in Seq(Entry) /\ Len([s EXCEPT ![i] = e]) = Len(s)
  BY ExceptSeq

LEMMA OutcomeTyped ==
    ASSUME NEW e \in Entry, NEW how \in {"reverted", "conflict", "failed"}, NEW id \in Ids \cup {NoId},
           NEW lacks \in BOOLEAN
    PROVE  [e EXCEPT !.revert = how, !.new = id, !.dropped = lacks] \in Entry
  BY DEF Entry

LEMMA ClobberTyped ==
    ASSUME NEW p, NEW i, NEW phase \in {"apply", "rollback"}
    PROVE  Clobber(p, i, phase) \subseteq {"apply", "rollback"} \X {"raced", "blind"}
  BY DEF Clobber

LEMMA NoPlanNoDoc == NoPlan \notin Doc
  BY SentinelAssumption

LEMMA DocTyped ==
    ASSUME NEW doc \in Doc
    PROVE  /\ doc.status \in Status /\ doc.journal \in Seq(Entry) /\ Len(doc.journal) \in Nat
           /\ \A i \in 1..Len(doc.journal) : doc.journal[i] \in Entry
           /\ \A status \in Status : [doc EXCEPT !.status = status] \in Doc
           /\ \A j \in Seq(Entry) : [doc EXCEPT !.journal = j] \in Doc
  BY DEF Doc

\* A caller's copy of the plan, wherever its code has one.
LEMMA MemTyped ==
    ASSUME TypeInv, NEW p \in Procs, pc[p] \notin {"idle", "prune"}
    PROVE  mem[p] \in Doc
  BY DEF TypeInv, TypeOK, LocalInv

LEMMA StepTyped ==
    ASSUME TypeInv, NEW p \in Procs, pc[p] \in {"step", "write", "record"}
    PROVE  /\ Position(p) \in 1..N
           /\ steps[Position(p)] \in Step
           /\ WellFormed(steps[Position(p)])
<1>1. mem[p] \in Doc
  BY MemTyped
<1>2. Len(mem[p].journal) < N /\ Len(mem[p].journal) \in Nat /\ N \in Nat
  BY <1>1, DocTyped, StepsTyped DEF TypeInv, LocalInv
<1>3. Position(p) \in 1..N
  BY <1>2 DEF Position
<1> QED BY <1>3, StepsTyped DEF TypeInv

-----------------------------------------------------------------------------
(* TypeInv is kept by every action; first the ones that do more than move  *)
(* a program counter.                                                      *)

LEMMA PruneReadsTyped == ASSUME TypeInv, NEW p \in Procs, PruneReads(p) PROVE TypeInv'
<1>0. PICK r \in Requests : Arrive(p, r) /\
         \/ /\ Goto(p, "prune") /\ rlock' = [rlock EXCEPT ![Host[p]] = p]
            /\ UNCHANGED work
         \/ Return(p) /\ UNCHANGED rlock
  BY DEF PruneReads
<1>a. CASE Goto(p, "prune") /\ rlock' = [rlock EXCEPT ![Host[p]] = p]
           /\ UNCHANGED work
  <2>0. req' \in [Procs -> Request] /\ rlock' \in [Hosts -> Procs \cup {Nobody}]
    BY <1>0, <1>a, ConstantsAssumption DEF TypeInv, TypeOK, Arrive
  <2>1. TypeOK'
    BY <1>0, <1>a, <2>0, SMTT(30) DEF TypeInv, TypeOK, Arrive, Goto, plan, work, N
  <2>2. pc[p] = "idle" /\ todo[p] = {}
    BY <1>0 DEF TypeInv, LocalInv, Arrive, Undoing
  <2>3. LocalInv'
    BY <1>0, <1>a, <2>2 DEF TypeInv, TypeOK, LocalInv, Arrive, Goto, plan, work, N, Undoing
  <2> QED BY <2>1, <2>3 DEF TypeInv
<1>b. CASE Return(p) /\ UNCHANGED rlock
  <2>1. TypeOK'
    BY <1>0, <1>b, NoEntryTyped, ConstantsAssumption DEF TypeInv, TypeOK, Arrive, Return, Goto, plan, N
  <2>2. LocalInv'
    BY <1>0, <1>b DEF TypeInv, TypeOK, LocalInv, Arrive, Return, Goto, plan, N, Undoing
  <2> QED BY <2>1, <2>2 DEF TypeInv
<1> QED BY <1>0, <1>a, <1>b

\* A step that saves a document, goes on from there and leaves the rest of
\* the caller's variables typed.
Saving(p, doc, at, left) ==
    /\ file' = doc
    /\ mem' = [mem EXCEPT ![p] = doc]
    /\ pc' = [pc EXCEPT ![p] = at]
    /\ todo' = [todo EXCEPT ![p] = left]
    /\ old' = FALSE
    /\ UNCHANGED <<steps, aged, world, req, broken, calls, edits, landed, undone, clobbered>>
LocksTyped ==
    rlock \in [Hosts -> Procs \cup {Nobody}] /\ flock \in Procs \cup {Nobody}
LocalsTyped ==
    /\ missed \in [Procs -> BOOLEAN] /\ entry \in [Procs -> Entry] /\ seen \in [Procs -> Nat]
    /\ claims \in Nat

LEMMA SavingTyped ==
    ASSUME TypeInv, NEW p \in Procs, NEW doc \in Doc, NEW left \in SUBSET (1..Len(doc.journal)),
           NEW at \in {"step", "undo", "link", "claim"}, Saving(p, doc, at, left),
           at = "step" => Len(doc.journal) < N, at # "undo" => left = {},
           LocksTyped', LocalsTyped'
    PROVE  TypeInv'
<1>0. left \in SUBSET Nat
  BY DocTyped
<1>1. TypeOK'
  BY <1>0 DEF TypeInv, TypeOK, Saving, LocksTyped, LocalsTyped, N
<1>2. ASSUME NEW q \in Procs
      PROVE  /\ pc'[q] \notin {"idle", "prune"} => mem'[q] # NoPlan
             /\ pc'[q] \in Undoing => todo'[q] \subseteq 1..Len(mem'[q].journal)
             /\ pc'[q] \notin Undoing => todo'[q] = {}
             /\ pc'[q] \in {"step", "write", "record"} => Len(mem'[q].journal) < N'
  <2>1. CASE q = p
    <3>1. pc'[p] = at /\ mem'[p] = doc /\ todo'[p] = left /\ N' = N
      BY DEF Saving, TypeInv, TypeOK, N
    <3>2. doc # NoPlan
      BY NoPlanNoDoc
    <3> QED BY <2>1, <3>1, <3>2 DEF Undoing
  <2>2. CASE q # p
    <3>1. pc'[q] = pc[q] /\ mem'[q] = mem[q] /\ todo'[q] = todo[q] /\ N' = N
      BY <2>2 DEF Saving, TypeInv, TypeOK, N
    <3> QED BY <3>1 DEF TypeInv, LocalInv
  <2> QED BY <2>1, <2>2
<1> QED BY <1>1, <1>2 DEF TypeInv, LocalInv

LEMMA ApplyClaimSavesTyped == ASSUME TypeInv, NEW p \in Procs, ApplyClaimSaves(p) PROVE TypeInv'
<1> DEFINE claimed == [status |-> "applying", journal |-> <<>>]
<1>1. claimed \in Doc /\ Len(claimed.journal) = 0 /\ N \in Nat
  BY StepsTyped DEF Doc, Status, IN_FLIGHT, TypeInv
<1>2. todo[p] = {} /\ todo \in [Procs -> SUBSET Nat]
  BY DEF TypeInv, TypeOK, LocalInv, ApplyClaimSaves, Undoing
<1>3. AfterStep(claimed) \in {"link", "step"} /\ (AfterStep(claimed) = "step" => Len(claimed.journal) < N)
  BY <1>1 DEF AfterStep
<1>4. Saving(p, claimed, AfterStep(claimed), {})
  BY <1>2 DEF Saving, ApplyClaimSaves, Save, Goto, asked
<1>5. LocksTyped'
  BY DEF LocksTyped, TypeInv, TypeOK, ApplyClaimSaves, Unlock
<1>6. LocalsTyped'
  BY DEF LocalsTyped, TypeInv, TypeOK, ApplyClaimSaves
<1> HIDE DEF claimed
<1> QED BY <1>1, <1>3, <1>4, <1>5, <1>6, SavingTyped

LEMMA RollbackClaimSavesTyped == ASSUME TypeInv, NEW p \in Procs, RollbackClaimSaves(p) PROVE TypeInv'
<1> DEFINE claimed == [mem[p] EXCEPT !.status = "rolling_back"]
<1>0. pc[p] = "save" /\ mem[p] \in Doc
  BY MemTyped DEF RollbackClaimSaves
<1>1. claimed \in Doc
  BY <1>0, DocTyped DEF Status, IN_FLIGHT
<1>2. Pending(claimed) \in SUBSET (1..Len(claimed.journal))
  BY DEF Pending, DonePositions
<1>3. Saving(p, claimed, AfterRevert(Pending(claimed)), Pending(claimed))
  BY DEF Saving, RollbackClaimSaves, Save, Goto, asked, history
<1>4. \/ AfterRevert(Pending(claimed)) = "link" /\ Pending(claimed) = {}
      \/ AfterRevert(Pending(claimed)) = "undo"
  BY DEF AfterRevert
<1>5. LocksTyped' /\ LocalsTyped'
  BY DEF LocksTyped, LocalsTyped, TypeInv, TypeOK, RollbackClaimSaves, Unlock, history
<1> HIDE DEF claimed
<1> QED BY <1>1, <1>2, <1>3, <1>4, <1>5, SavingTyped

LEMMA RecordStepTyped == ASSUME TypeInv, NEW p \in Procs, RecordStep(p) PROVE TypeInv'
<1> DEFINE doc == [mem[p] EXCEPT !.journal = Append(@, entry[p])]
<1>0. pc[p] = "record" /\ mem[p] \in Doc /\ entry[p] \in Entry
  BY MemTyped DEF RecordStep, TypeInv, TypeOK
<1>1. doc \in Doc /\ Len(doc.journal) = Len(mem[p].journal) + 1 /\ Len(mem[p].journal) \in Nat
  BY SMTT(30), <1>0, DocTyped DEF Doc
<1>2. todo[p] = {} /\ todo \in [Procs -> SUBSET Nat] /\ Len(mem[p].journal) < N /\ N \in Nat
  BY <1>0, StepsTyped DEF TypeInv, TypeOK, LocalInv, Undoing
<1>3. AfterStep(doc) \in {"link", "step"} /\ (AfterStep(doc) = "step" => Len(doc.journal) < N)
  BY <1>1, <1>2 DEF AfterStep
<1>4. Saving(p, doc, AfterStep(doc), {})
  BY <1>2 DEF Saving, RecordStep, Save, Goto, asked, history
<1>5. LocksTyped' /\ LocalsTyped'
  BY NoEntryTyped DEF LocksTyped, LocalsTyped, TypeInv, TypeOK, RecordStep, locks, history
<1> HIDE DEF doc
<1> QED BY <1>1, <1>3, <1>4, <1>5, SavingTyped

LEMMA RecordRevertTyped == ASSUME TypeInv, NEW p \in Procs, RecordRevert(p) PROVE TypeInv'
<1>0. pc[p] = "rerecord" /\ mem[p] \in Doc /\ entry[p] \in Entry
  BY MemTyped DEF RecordRevert, TypeInv, TypeOK
<1>1. PICK i \in todo[p] :
        LET doc == [mem[p] EXCEPT !.journal = [@ EXCEPT ![i] = entry[p]]] IN
        /\ file' = doc /\ old' = FALSE
        /\ mem' = [mem EXCEPT ![p] = doc]
        /\ todo' = [todo EXCEPT ![p] = todo[p] \ {i}]
        /\ pc' = [pc EXCEPT ![p] = AfterRevert(todo[p] \ {i})]
  BY DEF RecordRevert, Save, Goto, Newest
<1>2. todo[p] \subseteq 1..Len(mem[p].journal)
  BY <1>0 DEF TypeInv, LocalInv, Undoing
<1> DEFINE doc == [mem[p] EXCEPT !.journal = [@ EXCEPT ![i] = entry[p]]]
           left == todo[p] \ {i}
<1>3. [mem[p].journal EXCEPT ![i] = entry[p]] \in Seq(Entry)
      /\ Len([mem[p].journal EXCEPT ![i] = entry[p]]) = Len(mem[p].journal)
  BY <1>0, <1>1, <1>2, DocTyped, JournalExcept
<1>4. doc \in Doc /\ Len(doc.journal) = Len(mem[p].journal)
  BY <1>0, <1>3, DocTyped DEF Doc
<1>5. left \in SUBSET (1..Len(doc.journal))
  BY <1>2, <1>4
<1>6. (AfterRevert(left) = "link" /\ left = {}) \/ AfterRevert(left) = "undo"
  BY DEF AfterRevert
<1>7. Saving(p, doc, AfterRevert(left), left)
  BY <1>1 DEF Saving, RecordRevert, asked, history
<1>8. LocksTyped' /\ LocalsTyped'
  BY NoEntryTyped DEF LocksTyped, LocalsTyped, TypeInv, TypeOK, RecordRevert, locks, history, Missed
<1> HIDE DEF doc, left
<1> QED BY <1>4, <1>5, <1>6, <1>7, <1>8, SavingTyped

\* A step that talks to NetBox: it keeps the plan and the loop's variables
\* and stays inside the loop it is in.
Talking(p, at) ==
    /\ pc' = [pc EXCEPT ![p] = at]
    /\ \/ pc[p] \in {"step", "write"} /\ at \in {"write", "record"}
       \/ pc[p] \in Undoing /\ at \in Undoing
    /\ UNCHANGED <<plan, locks, asked, mem, todo, missed, edits, claims>>
TalkTyped ==
    /\ world \in [Ids -> Object]
    /\ entry \in [Procs -> Entry] /\ seen \in [Procs -> Nat]
    /\ landed \subseteq Nat /\ undone \in [1..N -> Nat]
    /\ clobbered \subseteq {"apply", "rollback"} \X {"raced", "blind"}

LEMMA TalkingTyped ==
    ASSUME TypeInv, NEW p \in Procs, NEW at, Talking(p, at), TalkTyped'
    PROVE  TypeInv'
<1>1. TypeOK'
  BY DEF TypeInv, TypeOK, Talking, TalkTyped, plan, locks, asked, N, Undoing
<1>2. LocalInv'
  BY DEF TypeInv, TypeOK, LocalInv, Talking, plan, locks, asked, N, Undoing
<1> QED BY <1>1, <1>2 DEF TypeInv

LEMMA CheckStepTyped == ASSUME TypeInv, NEW p \in Procs, CheckStep(p) PROVE TypeInv'
<1> DEFINE s == steps[Position(p)]
<1>1. pc[p] = "step" /\ s \in Step /\ WellFormed(s)
  BY StepTyped DEF CheckStep
<1>2. s.obj \in Ids \cup {NoId}
  BY <1>1 DEF Step
<1>3. /\ NewEntry("skipped", s.obj, 0) \in Entry
      /\ NewEntry("conflict", s.obj, 0) \in Entry
      /\ (IF s.obj = NoId THEN 0 ELSE Stamp(s.obj)) \in Nat
  BY <1>2, NewEntryTyped, StampTyped DEF TypeInv
<1>4. \E at \in {"write", "record"} : Talking(p, at)
  BY <1>1 DEF CheckStep, Prepare, Goto, Talking, LoopUnchanged
<1>5. \/ seen' = seen
      \/ seen' = [seen EXCEPT ![p] = IF s.obj = NoId THEN 0 ELSE Stamp(s.obj)]
  BY DEF CheckStep
<1>6. \/ entry' = entry
      \/ \E status \in {"skipped", "conflict"} :
            entry' = [entry EXCEPT ![p] = NewEntry(status, s.obj, 0)]
  BY DEF CheckStep, Prepare
<1>e. entry' = entry \/ \E v \in Entry : entry' = [entry EXCEPT ![p] = v]
  BY <1>3, <1>6
<1>t. entry \in [Procs -> Entry] /\ seen \in [Procs -> Nat]
  BY DEF TypeInv, TypeOK
<1>7. entry' \in [Procs -> Entry] /\ seen' \in [Procs -> Nat]
  <2>1. entry' \in [Procs -> Entry]
    BY <1>e, <1>t
  <2>2. seen' \in [Procs -> Nat]
    BY <1>3, <1>5, <1>t
  <2> QED BY <2>1, <2>2
<1>8. TalkTyped'
  BY <1>7 DEF CheckStep, LoopUnchanged, TalkTyped, TypeInv, TypeOK, plan, N
<1> QED BY <1>4, <1>8, TalkingTyped

LEMMA StepRejectedTyped == ASSUME TypeInv, NEW p \in Procs, StepRejected(p) PROVE TypeInv'
<1> DEFINE s == steps[Position(p)]
<1>1. pc[p] = "write" /\ s \in Step
  BY StepTyped DEF StepRejected
<1>2. NewEntry("failed", s.obj, 0) \in Entry
  BY <1>1, NewEntryTyped DEF Step
<1>3. Talking(p, "record")
  BY <1>1 DEF StepRejected, Prepare, Goto, Talking, LoopUnchanged
<1>4. TalkTyped'
  BY <1>2 DEF StepRejected, Prepare, LoopUnchanged, TalkTyped, TypeInv, TypeOK, plan, N
<1> QED BY <1>3, <1>4, TalkingTyped

LEMMA EffectsTyped ==
    ASSUME world \in [Ids -> Object], NEW s \in Step, NEW e \in Effects(s)
    PROVE  e.at \in Ids /\ e.now \in [Ids -> Object]
<1>1. s.key \in Keys \cup {NoKey}
  BY DEF Step
<1>2. CASE s.action = "create"
  BY <1>1, <1>2, PostedTyped DEF Effects, Vals
<1>3. CASE s.action = "update"
  BY <1>3, PatchedTyped DEF Effects, Vals
<1>4. CASE s.action \notin {"create", "update"}
  BY <1>4, DeletedTyped DEF Effects
<1> QED BY <1>2, <1>3, <1>4

LEMMA StepWritesTyped == ASSUME TypeInv, NEW p \in Procs, StepWrites(p) PROVE TypeInv'
<1> DEFINE s == steps[Position(p)]
           after(e) == IF s.action = "delete" \/ e.at \in Stampless THEN 0 ELSE e.now[e.at].ver
<1>1. pc[p] = "write" /\ s \in Step /\ Position(p) \in Nat
  BY StepTyped, StepsTyped DEF StepWrites, TypeInv
<1>2. PICK e \in Effects(s) :
        /\ world' = e.now
        /\ \/ entry' = [entry EXCEPT ![p] = NewEntry("done", e.at, after(e))]
           \/ entry' = [entry EXCEPT ![p] = NewEntry("failed", s.obj, 0)]
        /\ clobbered' = clobbered \cup Clobber(p, s.obj, "apply")
  BY DEF StepWrites, Prepare
<1>3. e.at \in Ids /\ e.now \in [Ids -> Object]
  BY <1>1, EffectsTyped DEF TypeInv, TypeOK
<1>4. after(e) \in Nat
  BY <1>3 DEF Object
<1>5. NewEntry("done", e.at, after(e)) \in Entry /\ NewEntry("failed", s.obj, 0) \in Entry
  BY <1>1, <1>3, <1>4, NewEntryTyped DEF Step
<1>6. entry' \in [Procs -> Entry]
  BY <1>2, <1>5 DEF TypeInv, TypeOK
<1>7. clobbered' \subseteq {"apply", "rollback"} \X {"raced", "blind"}
  BY <1>2, ClobberTyped DEF TypeInv, TypeOK
<1>8. Talking(p, "record")
  BY <1>1 DEF StepWrites, Prepare, Goto, Talking, LoopUnchanged
<1>9. TalkTyped'
  BY <1>1, <1>2, <1>3, <1>6, <1>7 DEF StepWrites, LoopUnchanged, TalkTyped, TypeInv, TypeOK, plan, N
<1> QED BY <1>8, <1>9, TalkingTyped

\* The journal entry the rollback loop is at.
LEMMA PendingTyped ==
    ASSUME TypeInv, NEW p \in Procs, pc[p] \in Undoing, NEW i \in Newest(todo[p])
    PROVE  /\ mem[p].journal[i] \in Entry /\ i \in Nat
           /\ \A how \in {"reverted", "conflict", "failed"}, id \in Ids \cup {NoId} :
                 Outcome(p, i, how, id) \in Entry
<1>1. mem[p] \in Doc
  BY MemTyped DEF Undoing
<1>2. i \in 1..Len(mem[p].journal)
  BY DEF TypeInv, LocalInv, Newest
<1>3. mem[p].journal[i] \in Entry /\ i \in Nat
  BY <1>1, <1>2, DocTyped
<1> QED BY <1>3, OutcomeTyped DEF Outcome

LEMMA ReadBackTyped == ASSUME TypeInv, NEW p \in Procs, ReadBack(p) PROVE TypeInv'
<1>1. pc[p] = "undo" /\ pc[p] \in Undoing
  BY DEF ReadBack, Undoing
<1>2. PICK i \in Newest(todo[p]) :
        \/ /\ \E how \in {"reverted", "conflict", "failed"} :
                entry' = [entry EXCEPT ![p] = Outcome(p, i, how, NoId)]
           /\ pc' = [pc EXCEPT ![p] = "rerecord"]
           /\ seen' = seen
        \/ /\ mem[p].journal[i].obj \in Live
           /\ seen' = [seen EXCEPT ![p] = Stamp(mem[p].journal[i].obj)]
           /\ pc' = [pc EXCEPT ![p] = "unwrite"]
           /\ entry' = entry
  BY DEF ReadBack, Prepare, Goto
<1>e. entry' = entry \/ \E v \in Entry : entry' = [entry EXCEPT ![p] = v]
  BY <1>1, <1>2, PendingTyped
<1>3. entry' \in [Procs -> Entry]
  BY <1>e DEF TypeInv, TypeOK
<1>4. seen' \in [Procs -> Nat]
  BY <1>2, StampTyped DEF TypeInv, TypeOK, Live
<1>5. \E at \in {"rerecord", "unwrite"} : Talking(p, at)
  BY <1>1, <1>2 DEF ReadBack, Talking, UndoUnchanged, Undoing
<1>6. TalkTyped'
  BY <1>3, <1>4 DEF ReadBack, UndoUnchanged, TalkTyped, TypeInv, TypeOK, plan, N
<1> QED BY <1>5, <1>6, TalkingTyped

LEMMA UndoEffectsTyped ==
    ASSUME world \in [Ids -> Object], NEW p \in Procs, NEW i, NEW e \in UndoEffects(p, i)
    PROVE  e.at \in Ids /\ e.now \in [Ids -> Object]
<1>1. CASE steps[i].action = "create"
  BY <1>1, DeletedTyped DEF UndoEffects
<1>2. CASE steps[i].action = "update"
  BY <1>2, PatchedTyped DEF UndoEffects, Vals
<1>3. CASE steps[i].action \notin {"create", "update"}
  BY <1>3, PostedTyped DEF UndoEffects, Vals
<1> QED BY <1>1, <1>2, <1>3

LEMMA UndoWritesTyped == ASSUME TypeInv, NEW p \in Procs, UndoWrites(p) PROVE TypeInv'
<1>1. pc[p] \in Undoing
  BY DEF UndoWrites, AboutToUndo, Undoing
<1>a. PICK i \in Newest(todo[p]) :
        /\ \E e \in UndoEffects(p, i) :
              /\ world' = e.now
              /\ \E how \in {"reverted", "failed"}, id \in {e.at, NoId} :
                    entry' = [entry EXCEPT ![p] = Outcome(p, i, how, id)]
        /\ undone' = [undone EXCEPT ![i] = @ + 1]
        /\ \/ clobbered' = clobbered
           \/ clobbered' = clobbered \cup Clobber(p, mem[p].journal[i].obj, "rollback")
  BY DEF UndoWrites, Prepare
<1>2. PICK e \in UndoEffects(p, i) :
        /\ world' = e.now
        /\ \E how \in {"reverted", "failed"}, id \in {e.at, NoId} :
              entry' = [entry EXCEPT ![p] = Outcome(p, i, how, id)]
  BY <1>a
<1>3. e.at \in Ids /\ e.now \in [Ids -> Object]
  BY UndoEffectsTyped DEF TypeInv, TypeOK
<1>4. \E v \in Entry : entry' = [entry EXCEPT ![p] = v]
  BY <1>1, <1>2, <1>3, PendingTyped
<1>5. entry' \in [Procs -> Entry]
  BY <1>4 DEF TypeInv, TypeOK
<1>6. clobbered' \subseteq {"apply", "rollback"} \X {"raced", "blind"}
  BY <1>a, ClobberTyped DEF TypeInv, TypeOK
<1>7. Talking(p, "rerecord")
  BY <1>1 DEF UndoWrites, Prepare, Goto, Talking, UndoUnchanged, Undoing
<1>u. undone' \in [1..N -> Nat]
  <2>1. undone \in [1..N -> Nat]
    BY DEF TypeInv, TypeOK
  <2>2. undone' = [undone EXCEPT ![i] = undone[i] + 1]
    BY <1>a
  <2>3. i \in 1..N => undone[i] + 1 \in Nat
    BY <2>1
  <2> QED BY <2>1, <2>2, <2>3
<1>n. N' = N /\ seen' = seen /\ landed' = landed
  BY DEF UndoWrites, UndoUnchanged, plan, N
<1>8. TalkTyped'
  BY <1>2, <1>3, <1>5, <1>6, <1>u, <1>n DEF TalkTyped, TypeInv, TypeOK
<1> QED BY <1>7, <1>8, TalkingTyped

LEMMA UndoRejectedTyped == ASSUME TypeInv, NEW p \in Procs, UndoRejected(p) PROVE TypeInv'
<1>1. pc[p] \in Undoing
  BY DEF UndoRejected, AboutToUndo, Undoing
<1>2. PICK i \in Newest(todo[p]) :
        \/ entry' = [entry EXCEPT ![p] = Outcome(p, i, "failed", NoId)] /\ pc' = [pc EXCEPT ![p] = "rerecord"]
        \/ entry' = entry /\ pc' = [pc EXCEPT ![p] = "repost"]
  BY DEF UndoRejected, Prepare, Goto
<1>3. entry' = entry \/ \E v \in Entry : entry' = [entry EXCEPT ![p] = v]
  BY <1>1, <1>2, PendingTyped
<1>4. entry' \in [Procs -> Entry]
  BY <1>3 DEF TypeInv, TypeOK
<1>5. \E at \in {"rerecord", "repost"} : Talking(p, at)
  BY <1>1, <1>2 DEF UndoRejected, Talking, UndoUnchanged, Undoing
<1>6. TalkTyped'
  BY <1>4 DEF UndoRejected, UndoUnchanged, TalkTyped, TypeInv, TypeOK, plan, N
<1> QED BY <1>5, <1>6, TalkingTyped

LEMMA FinishApplyTyped == ASSUME TypeInv, NEW p \in Procs, FinishApply(p) PROVE TypeInv'
<1> DEFINE doc == [mem[p] EXCEPT !.status = ApplyStatus(mem[p])]
<1>1. pc[p] = "finish" /\ mem[p] \in Doc
  BY MemTyped DEF FinishApply
<1>2. ApplyStatus(mem[p]) \in Status
  BY DEF ApplyStatus, Status, ROLLBACKABLE
<1>3. doc \in Doc
  BY <1>1, <1>2, DocTyped
<1>4. todo[p] = {} /\ todo \in [Procs -> SUBSET Nat]
  BY <1>1 DEF TypeInv, TypeOK, LocalInv, Undoing
<1>5. file' = doc /\ old' = FALSE /\ UNCHANGED <<steps, aged, world, locks, asked, edits, history>>
  BY DEF FinishApply, Save
<1>6. CASE /\ mem' = [mem EXCEPT ![p] = doc] /\ Goto(p, "claim")
           /\ UNCHANGED <<todo, missed, entry, seen>>
  <2>1. Saving(p, doc, "claim", {})
    BY <1>4, <1>5, <1>6 DEF Saving, Goto, asked, history
  <2>2. LocksTyped' /\ LocalsTyped'
    BY <1>5, <1>6 DEF LocksTyped, LocalsTyped, TypeInv, TypeOK, locks, history
  <2> HIDE DEF doc
  <2> QED BY <1>3, <2>1, <2>2, SavingTyped
<1>7. CASE Return(p)
  <2> HIDE DEF doc
  <2>1. TypeOK'
    BY <1>3, <1>5, <1>7, NoEntryTyped DEF TypeInv, TypeOK, Return, Goto, locks, asked, history, N
  <2>2. LocalInv'
    BY <1>5, <1>7 DEF TypeInv, TypeOK, LocalInv, Return, Goto, N, Undoing
  <2> QED BY <2>1, <2>2 DEF TypeInv
<1> QED BY <1>6, <1>7 DEF FinishApply

LEMMA FinishRollbackTyped == ASSUME TypeInv, NEW p \in Procs, FinishRollback(p) PROVE TypeInv'
<1>1. pc[p] = "finish" /\ mem[p] \in Doc
  BY MemTyped DEF FinishRollback
<1>2. file' \in Doc
  BY <1>1, DocTyped DEF FinishRollback, Save, Status, ROLLBACKABLE
<1>3. old' = FALSE /\ Return(p)
      /\ UNCHANGED <<steps, aged, world, locks, asked, edits, history>>
  BY DEF FinishRollback, Save
<1>4. TypeOK'
  BY <1>2, <1>3, NoEntryTyped DEF TypeInv, TypeOK, Return, Goto, locks, asked, history, N
<1>5. LocalInv'
  BY <1>3 DEF TypeInv, TypeOK, LocalInv, Return, Goto, N, Undoing
<1> QED BY <1>4, <1>5 DEF TypeInv

\* A death or a save that raises: some callers' calls end half-way.
Breaking(S, how) ==
    /\ S \subseteq Procs /\ how \in {"raised", "died"}
    /\ Faults \cap {"crash", "store"} # {}
    /\ Drops(S, how)

LEMMA CrashBreaks == ASSUME NEW h, Crash(h) PROVE \E S, how : Breaking(S, how)
<1> DEFINE dead == {p \in Procs : Host[p] = h /\ pc[p] # "idle"}
<1>1. Breaking(dead, "died")
  BY DEF Crash, Breaking
<1> QED BY <1>1

LEMMA StoreBreaks == ASSUME NEW p \in Procs, StoreRaises(p) PROVE Breaking({p}, "raised")
  BY DEF StoreRaises, Breaking

LEMMA WhoBreaks ==
    ASSUME Environment
    PROVE  \/ \E S, how : Breaking(S, how)
           \/ ForeignEdit \/ ForeignDelete \/ ForeignCreate \/ PlanAges \/ RetentionPasses
  BY CrashBreaks, StoreBreaks DEF Environment

LEMMA BreakingTyped == ASSUME TypeInv, NEW S, NEW how, Breaking(S, how) PROVE TypeInv'
<1>1. TypeOK'
  BY NoEntryTyped DEF TypeInv, TypeOK, Breaking, Drops, plan, history, N
<1>2. LocalInv'
  BY DEF TypeInv, TypeOK, LocalInv, Breaking, Drops, plan, history, N, Undoing
<1> QED BY <1>1, <1>2 DEF TypeInv

-----------------------------------------------------------------------------

LEMMA TypeInit == Init => TypeInv
<1> SUFFICES ASSUME Init PROVE TypeInv
  OBVIOUS
<1>1. [status |-> "planned", journal |-> <<>>] \in Doc
  BY DEF Doc, Status, APPLYABLE
<1>2. TypeOK
  BY <1>1, NoEntryTyped, ConstantsAssumption DEF Init, TypeOK, Object, Request
<1>3. LocalInv
  BY DEF Init, LocalInv, Undoing
<1> QED BY <1>2, <1>3 DEF TypeInv

\* The other actions move a program counter, a lock or the environment.
LEMMA CallsTyped ==
    ASSUME TypeInv, NEW p \in Procs, CallTurnedAway(p) \/ CallAdmitted(p)
    PROVE  TypeInv'
<1>1. CASE CallTurnedAway(p)
  <2>1. TypeOK'
    BY <1>1, NoEntryTyped, ConstantsAssumption
    DEF TypeInv, TypeOK, CallTurnedAway, Return, Arrive, Goto, plan, N
  <2>2. LocalInv'
    BY <1>1 DEF TypeInv, TypeOK, LocalInv, CallTurnedAway, Return, Arrive, Goto, plan, N, Undoing
  <2> QED BY <2>1, <2>2 DEF TypeInv
<1>2. CASE CallAdmitted(p)
  <2>1. TypeOK'
    BY <1>2, ConstantsAssumption DEF TypeInv, TypeOK, CallAdmitted, Arrive, Goto, plan, N
  <2>2. LocalInv'
    BY <1>2 DEF TypeInv, TypeOK, LocalInv, CallAdmitted, Admitted, Arrive, Goto, plan, N, Undoing
  <2> QED BY <2>1, <2>2 DEF TypeInv
<1> QED BY <1>1, <1>2

LEMMA ReturningTyped ==
    ASSUME TypeInv, NEW p \in Procs, PruneUnlinks(p) \/ CheckSaves(p) \/ ClaimRefused(p)
    PROVE  TypeInv'
<1>1. CASE PruneUnlinks(p)
  BY <1>1, NoEntryTyped DEF TypeInv, TypeOK, LocalInv, PruneUnlinks, Return, Goto, asked, history, N, Undoing
<1>2. CASE CheckSaves(p)
  BY <1>2, NoEntryTyped, MemTyped
  DEF TypeInv, TypeOK, LocalInv, CheckSaves, Save, Return, Goto, locks, asked, history, N, Undoing
<1>3. CASE ClaimRefused(p)
  BY <1>3, NoEntryTyped DEF TypeInv, TypeOK, LocalInv, ClaimRefused, Return, Goto, plan, asked, history, N, Undoing
<1> QED BY <1>1, <1>2, <1>3

LEMMA MovingTyped ==
    ASSUME TypeInv, NEW p \in Procs, TakeStoreLock(p) \/ ClaimReads(p) \/ Link(p)
    PROVE  TypeInv'
<1>1. CASE TakeStoreLock(p)
  BY <1>1 DEF TypeInv, TypeOK, LocalInv, TakeStoreLock, Goto, plan, asked, work, history, N, Undoing
<1>2. CASE ClaimReads(p)
  BY <1>2, MemTyped, NoPlanNoDoc
  DEF TypeInv, TypeOK, LocalInv, ClaimReads, Current, Goto, plan, asked, history, N, Undoing
<1>3. CASE Link(p)
  BY <1>3, MemTyped DEF TypeInv, TypeOK, LocalInv, Link, Save, Goto, locks, asked, work, history, N, Undoing
<1> QED BY <1>1, <1>2, <1>3

LEMMA EnvironmentTyped == ASSUME TypeInv, Environment PROVE TypeInv'
<1>1. CASE \E S, how : Breaking(S, how)
  BY <1>1, BreakingTyped
<1>2. CASE ForeignEdit \/ ForeignDelete \/ ForeignCreate
  <2>1. PICK e : ForeignWrite(e) /\ e.now \in [Ids -> Object]
    BY <1>2, PatchedTyped, DeletedTyped, PostedTyped
    DEF ForeignEdit, ForeignDelete, ForeignCreate, TypeInv, TypeOK, Vals
  <2> QED
    BY <2>1 DEF TypeInv, TypeOK, LocalInv, ForeignWrite, plan, locks, asked, work, history, N, Undoing
<1>3. CASE PlanAges \/ RetentionPasses
  BY <1>3
  DEF TypeInv, TypeOK, LocalInv, PlanAges, RetentionPasses, locks, asked, work, history, N, Undoing
<1> QED BY <1>1, <1>2, <1>3, WhoBreaks

LEMMA TypeStep == TypeInv /\ [Next]_vars => TypeInv'
<1> SUFFICES ASSUME TypeInv, [Next]_vars PROVE TypeInv'
  OBVIOUS
<1>1. ASSUME NEW p \in Procs, Calls(p) \/ Proceed(p) PROVE TypeInv'
  BY <1>1, CallsTyped, PruneReadsTyped, ReturningTyped, MovingTyped, ApplyClaimSavesTyped,
     RollbackClaimSavesTyped, CheckStepTyped, StepWritesTyped, StepRejectedTyped, RecordStepTyped,
     ReadBackTyped, UndoWritesTyped, UndoRejectedTyped, RecordRevertTyped, FinishApplyTyped,
     FinishRollbackTyped
  DEF Calls, Proceed
<1>2. CASE UNCHANGED vars
  BY <1>2 DEF vars, TypeInv, TypeOK, LocalInv, N
<1> QED BY <1>1, <1>2, EnvironmentTyped DEF Next

\* Every variable keeps its type, and every caller's local variables fit
\* the line of apply_plan or rollback_plan it is at.
THEOREM TypeCorrect == Spec => []TypeOK
<1>1. TypeInv => TypeOK
  BY DEF TypeInv
<1> QED BY <1>1, TypeInit, TypeStep, PTL DEF Spec

-----------------------------------------------------------------------------
(* Mutual exclusion and at-most-once, when every call is an apply or a     *)
(* rollback: a dry run saves without a claim and a sweep unlinks without   *)
(* one, and with either the theorems are false (run FindAppliedTwice).     *)

WritesOnly == \A r \in Requests : r.op \in {"apply", "rollback"}

\* Between the re-read under the lock and the last save, the file is the
\* caller's: nobody else holds a copy it may save.
Owner(p) == pc[p] = "save" \/ Running(p)

ClaimInv ==
    /\ file # NoPlan
    /\ \A p \in Procs :
          /\ pc[p] \notin {"check", "prune"}
          /\ Owner(p) => file = mem[p]
          /\ pc[p] = "save" => flock = p /\ file.status \notin IN_FLIGHT
          /\ Running(p) => file.status \in IN_FLIGHT
          /\ \A q \in Procs : Owner(p) /\ Owner(q) => p = q
    /\ claims <= 1
    /\ file.status = "planned" => claims = 0

IInv == TypeInv /\ ClaimInv

\* A step that leaves the file alone and makes no owner.
LEMMA FileKept ==
    ASSUME IInv, UNCHANGED <<file, claims>>,
           \A q \in Procs :
              /\ pc'[q] \notin {"check", "prune"}
              /\ Owner(q)' =>
                    /\ Owner(q)
                    /\ mem'[q] = mem[q]
                    /\ pc'[q] = "save" <=> pc[q] = "save"
                    /\ pc[q] = "save" => flock' = flock
    PROVE  ClaimInv'
<1>0. ASSUME NEW q \in Procs
      PROVE  /\ Running(q)' => Running(q)
             /\ Owner(q)' => Owner(q) /\ file' = mem'[q]
             /\ pc'[q] = "save" => flock' = q /\ file'.status \notin IN_FLIGHT
  <2>1. CASE Owner(q)'
    <3>1. Owner(q) /\ mem'[q] = mem[q] /\ (pc'[q] = "save" <=> pc[q] = "save")
          /\ (pc[q] = "save" => flock' = flock)
      BY <2>1
    <3>2. Running(q)' => pc'[q] # "save"
      BY DEF Running
    <3>3. Running(q)' => Running(q)
      BY <3>1, <3>2 DEF Owner
    <3> QED BY <3>1, <3>3 DEF IInv, ClaimInv
  <2>2. CASE ~Owner(q)'
    BY <2>2 DEF Owner
  <2> QED BY <2>1, <2>2
<1>1. \A q \in Procs : Running(q)' => Running(q)
  BY <1>0
<1>2. \A q \in Procs :
        /\ Owner(q)' => Owner(q) /\ file' = mem'[q]
        /\ pc'[q] = "save" => flock' = q /\ file'.status \notin IN_FLIGHT
  BY <1>0
<1>3. \A q \in Procs : Running(q)' => file'.status \in IN_FLIGHT
  BY <1>1 DEF IInv, ClaimInv
<1> QED BY <1>1, <1>2, <1>3 DEF IInv, ClaimInv

\* A step by which the owner saves: it runs on, or it is owner no longer.
LEMMA OwnerSaves ==
    ASSUME IInv, NEW p \in Procs, Owner(p),
           \A q \in Procs : q # p => pc'[q] = pc[q] /\ mem'[q] = mem[q],
           pc'[p] \notin {"check", "prune", "save"}, file' # NoPlan,
           Running(p)' => file' = mem'[p] /\ file'.status \in IN_FLIGHT,
           claims' <= 1, file'.status = "planned" => claims' = 0
    PROVE  ClaimInv'
<1>1. \A q \in Procs : q # p => ~Owner(q)
  BY DEF IInv, ClaimInv
<1>2. \A q \in Procs : q # p => ~Owner(q)' /\ pc'[q] # "save" /\ ~Running(q)'
  BY <1>1 DEF Owner, Running
<1>3. Owner(p)' <=> Running(p)'
  BY DEF Owner
<1>4. \A q \in Procs : pc'[q] \notin {"check", "prune"}
  BY DEF IInv, ClaimInv
<1> QED BY <1>2, <1>3, <1>4 DEF ClaimInv

LEMMA ClaimInit == Init => ClaimInv
<1>1. [status |-> "planned", journal |-> <<>>] \in Doc
  BY DEF Doc, Status, APPLYABLE
<1>2. Init => file # NoPlan
  BY <1>1, NoPlanNoDoc DEF Init
<1> QED BY <1>2 DEF Init, ClaimInv, Owner, Running

LEMMA CallsKeepClaim ==
    ASSUME IInv, WritesOnly, NEW p \in Procs, Calls(p)
    PROVE  ClaimInv'
<1>1. pc[p] = "idle" /\ file' = file /\ claims' = claims /\ flock' = flock
  BY DEF Calls, CallTurnedAway, CallAdmitted, PruneReads, Arrive, plan, WritesOnly
<1>2. pc'[p] \in {"idle", "claim"} /\ \A q \in Procs : q # p => pc'[q] = pc[q] /\ mem'[q] = mem[q]
  BY DEF Calls, CallTurnedAway, CallAdmitted, PruneReads, Return, Goto, WritesOnly,
         IInv, TypeInv, TypeOK
<1>3. \A q \in Procs : pc[q] \notin {"check", "prune"}
  BY DEF IInv, ClaimInv
<1> QED BY <1>1, <1>2, <1>3, FileKept DEF Owner, Running

LEMMA ClaimingKeepsClaim ==
    ASSUME IInv, NEW p \in Procs, TakeStoreLock(p) \/ ClaimRefused(p) \/ ClaimReads(p)
    PROVE  ClaimInv'
<1>0. \A q \in Procs : pc[q] \notin {"check", "prune"}
  BY DEF IInv, ClaimInv
<1>1. CASE TakeStoreLock(p) \/ ClaimRefused(p)
  <2>1. file' = file /\ claims' = claims /\ flock' = flock
    BY <1>1 DEF TakeStoreLock, ClaimRefused, plan, history
  <2>2. /\ pc'[p] \in {"wait", "idle"}
        /\ \A q \in Procs : q # p => pc'[q] = pc[q] /\ mem'[q] = mem[q]
    BY <1>1 DEF TakeStoreLock, ClaimRefused, Return, Goto, work, IInv, TypeInv, TypeOK
  <2> QED BY <1>0, <2>1, <2>2, FileKept DEF Owner, Running
<1>2. CASE ClaimReads(p)
  <2>1. /\ file' = file /\ claims' = claims /\ flock = Nobody /\ flock' = p
        /\ pc'[p] = "save" /\ mem'[p] = file /\ file.status \notin IN_FLIGHT
        /\ \A q \in Procs : q # p => pc'[q] = pc[q] /\ mem'[q] = mem[q]
    BY <1>2 DEF ClaimReads, Claimable, Current, Goto, plan, history, IInv, ClaimInv, TypeInv, TypeOK,
                ROLLBACKABLE, IN_FLIGHT
  <2>2. \A q \in Procs : ~Owner(q)
    BY <2>1, ConstantsAssumption DEF Owner, IInv, ClaimInv
  <2>3. \A q \in Procs : q # p => ~Owner(q)' /\ pc'[q] # "save" /\ ~Running(q)'
    BY <2>1, <2>2 DEF Owner, Running
  <2>4. ~Running(p)' /\ \A q \in Procs : pc'[q] \notin {"check", "prune"}
    BY <1>0, <2>1 DEF Running
  <2> QED BY <2>1, <2>3, <2>4 DEF IInv, ClaimInv, Owner
<1> QED BY <1>1, <1>2

LEMMA ClaimSavesKeepsClaim ==
    ASSUME IInv, NEW p \in Procs, ApplyClaimSaves(p) \/ RollbackClaimSaves(p)
    PROVE  ClaimInv'
<1>1. pc[p] = "save" /\ Owner(p) /\ mem[p] \in Doc /\ mem[p] = file /\ file.status \notin IN_FLIGHT
  BY MemTyped DEF ApplyClaimSaves, RollbackClaimSaves, Owner, IInv, ClaimInv
<1>2. CASE ApplyClaimSaves(p)
  <2> DEFINE claimed == [status |-> "applying", journal |-> <<>>]
  <2>1. claimed \in Doc
    BY DEF Doc, Status, IN_FLIGHT
  <2>2. claims = 0
    BY <1>1, <1>2 DEF ApplyClaimSaves, Applying, IInv, ClaimInv, IN_FLIGHT
  <2>3. /\ file' = claimed /\ mem'[p] = claimed /\ claims' = 1
        /\ pc'[p] \notin {"check", "prune", "save"}
        /\ \A q \in Procs : q # p => pc'[q] = pc[q] /\ mem'[q] = mem[q]
    BY <1>2, <2>2 DEF ApplyClaimSaves, Save, Goto, AfterStep, IInv, TypeInv, TypeOK
  <2>4. file' # NoPlan /\ file'.status = "applying"
    BY <2>1, <2>3, NoPlanNoDoc
  <2> QED BY <1>1, <2>3, <2>4, OwnerSaves DEF IN_FLIGHT
<1>3. CASE RollbackClaimSaves(p)
  <2> DEFINE claimed == [mem[p] EXCEPT !.status = "rolling_back"]
  <2>1. claimed \in Doc /\ claimed.status = "rolling_back"
    BY <1>1, DocTyped DEF Status, IN_FLIGHT, Doc
  <2>2. /\ file' = claimed /\ mem'[p] = claimed /\ claims' = claims
        /\ pc'[p] \notin {"check", "prune", "save"}
        /\ \A q \in Procs : q # p => pc'[q] = pc[q] /\ mem'[q] = mem[q]
    BY <1>3 DEF RollbackClaimSaves, Save, Goto, AfterRevert, history, IInv, TypeInv, TypeOK
  <2>3. file' # NoPlan /\ file'.status = "rolling_back"
    BY <2>1, <2>2, NoPlanNoDoc
  <2> QED BY <1>1, <2>2, <2>3, OwnerSaves DEF IN_FLIGHT, IInv, ClaimInv
<1> QED BY <1>2, <1>3

\* A caller between its claim and its last save.
LEMMA RunnerOwns ==
    ASSUME IInv, NEW p \in Procs, Running(p)
    PROVE  /\ Owner(p) /\ mem[p] = file /\ file \in Doc /\ file.status \in IN_FLIGHT
           /\ pc[p] \notin {"check", "prune", "save"}
  BY MemTyped DEF Owner, Running, IInv, ClaimInv

LEMMA TalkingKeepsClaim ==
    ASSUME IInv, NEW p \in Procs,
           CheckStep(p) \/ StepWrites(p) \/ StepRejected(p)
           \/ ReadBack(p) \/ UndoWrites(p) \/ UndoRejected(p)
    PROVE  ClaimInv'
<1>1. Running(p)
  BY DEF CheckStep, StepWrites, StepRejected, ReadBack, UndoWrites, UndoRejected, AboutToUndo, Running
<1>2. /\ file' = file /\ mem' = mem /\ claims' = claims /\ flock' = flock
      /\ pc'[p] \notin {"check", "prune", "save"}
      /\ \A q \in Procs : q # p => pc'[q] = pc[q]
  BY DEF CheckStep, StepWrites, StepRejected, ReadBack, UndoWrites, UndoRejected, Prepare, Goto,
         LoopUnchanged, UndoUnchanged, plan, locks, IInv, TypeInv, TypeOK
<1>3. \A q \in Procs : pc[q] \notin {"check", "prune"}
  BY DEF IInv, ClaimInv
<1>4. pc[p] # "save" /\ Owner(p)
  BY <1>1, RunnerOwns
<1>5. ASSUME NEW q \in Procs, q # p
      PROVE  pc'[q] \notin {"check", "prune"} /\ (Owner(q)' => Owner(q)) /\ pc'[q] = pc[q]
  BY <1>2, <1>3, <1>5 DEF Owner, Running
<1> QED BY <1>2, <1>4, <1>5, FileKept

LEMMA RecordingKeepsClaim ==
    ASSUME IInv, NEW p \in Procs, RecordStep(p) \/ RecordRevert(p) \/ Link(p)
    PROVE  ClaimInv'
<1>1. Running(p)
  BY DEF RecordStep, RecordRevert, Link, Running
<1>2. \E doc \in Doc : doc.status = mem[p].status /\ file' = doc /\ mem'[p] = doc
  <2>1. mem[p] \in Doc
    BY <1>1, RunnerOwns
  <2>2. CASE RecordStep(p)
    <3>1. TypeInv'
      BY <2>2, RecordStepTyped DEF IInv
    <3>2. file' = [mem[p] EXCEPT !.journal = Append(@, entry[p])] /\ mem'[p] = file'
      BY <2>2 DEF RecordStep, Save, IInv, TypeInv, TypeOK
    <3>3. pc'[p] \in {"link", "step"}
      BY <2>2 DEF RecordStep, Goto, AfterStep, IInv, TypeInv, TypeOK
    <3>4. mem'[p] # NoPlan /\ mem'[p] \in Doc \cup {NoPlan}
      BY <3>1, <3>3 DEF TypeInv, LocalInv, TypeOK
    <3> QED BY <2>1, <3>2, <3>4 DEF Doc
  <2>3. CASE RecordRevert(p)
    <3>1. TypeInv'
      BY <2>3, RecordRevertTyped DEF IInv
    <3>2. PICK i : file' = [mem[p] EXCEPT !.journal = [@ EXCEPT ![i] = entry[p]]] /\ mem'[p] = file'
      BY <2>3 DEF RecordRevert, Save, IInv, TypeInv, TypeOK
    <3>3. pc'[p] \in {"link", "undo"}
      BY <2>3 DEF RecordRevert, Goto, AfterRevert, IInv, TypeInv, TypeOK
    <3>4. mem'[p] # NoPlan /\ mem'[p] \in Doc \cup {NoPlan}
      BY <3>1, <3>3 DEF TypeInv, LocalInv, TypeOK
    <3> QED BY <2>1, <3>2, <3>4 DEF Doc
  <2>4. CASE Link(p)
    BY <1>1, <2>1, <2>4, RunnerOwns DEF Link, Save, work
  <2> QED BY <2>2, <2>3, <2>4
<1>3. /\ claims' = claims /\ pc'[p] \notin {"check", "prune", "save"}
      /\ \A q \in Procs : q # p => pc'[q] = pc[q] /\ mem'[q] = mem[q]
  BY DEF RecordStep, RecordRevert, Link, Goto, AfterStep, AfterRevert, work, history, IInv, TypeInv, TypeOK
<1>4. file' # NoPlan /\ file' = mem'[p] /\ file'.status \in IN_FLIGHT
  BY <1>1, <1>2, RunnerOwns, NoPlanNoDoc
<1>5. claims' <= 1 /\ file'.status # "planned"
  BY <1>3, <1>4 DEF IInv, ClaimInv, IN_FLIGHT
<1>6. Owner(p)
  BY <1>1 DEF Owner
<1> QED BY <1>3, <1>4, <1>5, <1>6, OwnerSaves

LEMMA FinishingKeepsClaim ==
    ASSUME IInv, NEW p \in Procs, FinishApply(p) \/ FinishRollback(p)
    PROVE  ClaimInv'
<1>1. Running(p)
  BY DEF FinishApply, FinishRollback, Running
<1>2. PICK status \in Status \ {"planned"} : file' = [mem[p] EXCEPT !.status = status]
  BY DEF FinishApply, FinishRollback, Save, ApplyStatus, Status, ROLLBACKABLE, APPLYABLE, Stopped
<1>3. mem[p] \in Doc
  BY <1>1, RunnerOwns
<1>4. file' \in Doc /\ file'.status = status
  BY <1>2, <1>3 DEF Doc
<1>5. /\ claims' = claims /\ pc'[p] \in {"idle", "claim"}
      /\ \A q \in Procs : q # p => pc'[q] = pc[q] /\ mem'[q] = mem[q]
  BY DEF FinishApply, FinishRollback, Return, Goto, history, IInv, TypeInv, TypeOK
<1>6. ~Running(p)'
  BY <1>5 DEF Running
<1> QED BY <1>1, <1>4, <1>5, <1>6, NoPlanNoDoc, RunnerOwns, OwnerSaves DEF IInv, ClaimInv

LEMMA EnvironmentKeepsClaim == ASSUME IInv, Environment PROVE ClaimInv'
<1>1. CASE \E S, how : Breaking(S, how)
  <2>1. PICK S, how : Breaking(S, how)
    BY <1>1
  <2>2. /\ file' = file /\ claims' = claims
        /\ \A q \in Procs : \/ pc'[q] = "idle"
                            \/ /\ pc'[q] = pc[q] /\ mem'[q] = mem[q]
                               /\ flock = q => flock' = flock
    BY <2>1 DEF Breaking, Drops, plan, history
  <2>3. \A q \in Procs : pc[q] \notin {"check", "prune"} /\ (pc[q] = "save" => flock = q)
    BY DEF IInv, ClaimInv
  <2> QED BY <2>2, <2>3, FileKept DEF Owner, Running
<1>2. CASE ForeignEdit \/ ForeignDelete \/ ForeignCreate \/ PlanAges \/ RetentionPasses
  <2>1. UNCHANGED <<file, pc, mem, flock, claims>>
    BY <1>2 DEF ForeignEdit, ForeignDelete, ForeignCreate, ForeignWrite, PlanAges, RetentionPasses,
                plan, locks, work, history
  <2>2. \A q \in Procs : pc[q] \notin {"check", "prune"}
    BY DEF IInv, ClaimInv
  <2> QED BY <2>1, <2>2, FileKept DEF Owner, Running
<1> QED BY <1>1, <1>2, WhoBreaks

LEMMA ClaimStep == ASSUME WritesOnly, IInv, [Next]_vars PROVE IInv'
<1>1. TypeInv'
  BY TypeStep DEF IInv
<1>2. ASSUME NEW p \in Procs, PruneUnlinks(p) \/ CheckSaves(p) PROVE FALSE
  BY <1>2 DEF PruneUnlinks, CheckSaves, IInv, ClaimInv
<1>3. ASSUME NEW p \in Procs, Calls(p) \/ Proceed(p) PROVE ClaimInv'
  BY <1>2, <1>3, CallsKeepClaim, ClaimingKeepsClaim, ClaimSavesKeepsClaim, TalkingKeepsClaim,
     RecordingKeepsClaim, FinishingKeepsClaim
  DEF Proceed
<1>4. ASSUME UNCHANGED vars PROVE ClaimInv'
  BY <1>4 DEF vars, plan, IInv, ClaimInv, Owner, Running
<1>5. ClaimInv'
  BY <1>3, <1>4, EnvironmentKeepsClaim DEF Next
<1> QED BY <1>1, <1>5 DEF IInv

LEMMA IInvAlways == ASSUME WritesOnly PROVE Spec => []IInv
<1>1. Init => IInv
  BY TypeInit, ClaimInit DEF IInv
<1>2. IInv /\ [Next]_vars => IInv'
  BY ClaimStep
<1> QED BY <1>1, <1>2, PTL DEF Spec

\* Whatever the callers, processes, settings, plans, faults and foreign
\* writes: one caller at a time works on the plan, and nobody saves between
\* its saves.
THEOREM OneRunnerAlways == ASSUME WritesOnly PROVE Spec => []OneRunner
<1>1. IInv => OneRunner
  BY DEF IInv, ClaimInv, OneRunner, Owner
<1> QED BY <1>1, IInvAlways, PTL

\* "A plan applies at most once", for every number of concurrent applies
\* and rollbacks and every crash.
THEOREM AtMostOnceAlways == ASSUME WritesOnly PROVE Spec => []AtMostOnce
<1>1. IInv => AtMostOnce
  BY DEF IInv, ClaimInv, AtMostOnce
<1> QED BY <1>1, IInvAlways, PTL

-----------------------------------------------------------------------------
(***************************************************************************)
(* 2. What Executor writes down.                                           *)
(*                                                                         *)
(* The journal and the status against what happened in NetBox, when every  *)
(* call is an apply or a rollback (WritesOnly).                            *)
(*                                                                         *)
(* The invariant has four parts.  JournalInv and LandedInv say what the    *)
(* file and the writes that landed have to do with each other whoever is at *)
(* work, UndoneInv the same for the inverse writes, and CallerInv what the *)
(* owner of the plan knows at each line of its two loops.                  *)
(***************************************************************************)

Stepping == {"step", "write", "record"}

\* The position the apply loop is at.
Here == Len(file.journal) + 1

\* The owner has undone step i and is about to say so.
Undid(p, i) == pc[p] = "rerecord" /\ i \in Newest(todo[p]) /\ entry[p].revert = "reverted"

JournalInv ==
    /\ Len(file.journal) <= N
    /\ \A i \in 1..Len(file.journal) :
          /\ i < Len(file.journal) => file.journal[i].status \in {"done", "skipped"}
          /\ file.journal[i].status = "done" => i \in landed
          /\ file.journal[i].status = "skipped" => steps[i].action = "noop"
    /\ file.status = "planned" => file.journal = <<>> /\ landed = {}
    /\ file.status = "applied" => Len(file.journal) = N /\ ~Stopped(file)

LandedInv ==
    /\ landed \subseteq 1..N
    /\ \A i \in landed : steps[i].action # "noop" /\ i <= Here
    /\ \A i \in landed \ DonePositions(file) :
          /\ i >= Len(file.journal)
          /\ Faults \cap {"lost", "crash", "store"} = {} => i = Here /\ \E p \in Procs : pc[p] = "record"

UndoneInv ==
    \A i \in 1..N : undone[i] >= 1 =>
        /\ i \in DonePositions(file)
        /\ "lost" \notin Faults =>
              /\ undone[i] = 1
              /\ \/ file.journal[i].revert = "reverted"
                 \/ file.status = "rolling_back" /\ \A p \in Procs : Running(p) => Undid(p, i)

StepperInv(p) ==
    /\ pc[p] = "save" => file.status \in APPLYABLE \cup ROLLBACKABLE
    /\ pc[p] \in Stepping => file.status = "applying" /\ ~Stopped(file)
    /\ pc[p] \in {"step", "write"} => Here \notin landed
    /\ pc[p] = "write" => steps[Here].action # "noop"
    /\ pc[p] = "record" =>
          /\ entry[p].revert = "none"
          /\ entry[p].status = "done" => Here \in landed
          /\ entry[p].status = "skipped" => steps[Here].action = "noop"
          /\ Here \in landed /\ "lost" \notin Faults => entry[p].status = "done"
    /\ pc[p] \in {"link", "finish"} /\ file.status = "applying" =>
          Stopped(file) \/ Len(file.journal) = N

\* What a rollback writes over an entry of the journal.
Revises(e, was) ==
    \E how \in {"reverted", "conflict", "failed"}, to \in Ids \cup {NoId} :
       \E lacks \in BOOLEAN : e = [was EXCEPT !.revert = how, !.new = to, !.dropped = lacks]

ReverterInv(p) ==
    /\ pc[p] \in Undoing =>
          /\ file.status = "rolling_back"
          /\ todo[p] # {} /\ todo[p] \subseteq Pending(file)
          /\ \A j \in DonePositions(file) \ todo[p] : file.journal[j].revert # "none"
    /\ pc[p] = "rerecord" => \A i \in Newest(todo[p]) : Revises(entry[p], file.journal[i])
    /\ Running(p) /\ file.status = "rolling_back" =>
          (missed[p] <=> Pending(file) \ todo[p] # {})

CallerInv(p) == StepperInv(p) /\ ReverterInv(p)

PlanInv == JournalInv /\ LandedInv /\ UndoneInv /\ \A p \in Procs : CallerInv(p)
JInv == IInv /\ PlanInv

-----------------------------------------------------------------------------
(* Lemmas about the owner and its plan.                                    *)

LEMMA Bystander == ASSUME NEW q \in Procs, ~Owner(q) PROVE CallerInv(q)
  BY DEF Owner, Running, CallerInv, StepperInv, ReverterInv, Stepping, Undoing

LEMMA FileTyped ==
    ASSUME IInv
    PROVE  /\ file \in Doc /\ file.journal \in Seq(Entry) /\ Len(file.journal) \in Nat /\ N \in Nat
           /\ \A i \in 1..Len(file.journal) : file.journal[i] \in Entry
<1>1. file \in Doc
  BY DEF IInv, TypeInv, TypeOK, ClaimInv
<1> QED BY <1>1, DocTyped, StepsTyped DEF IInv, TypeInv

LEMMA OwnerAlone ==
    ASSUME IInv, NEW p \in Procs, Owner(p)
    PROVE  mem[p] = file /\ \A q \in Procs : q # p => ~Owner(q)
  BY DEF IInv, ClaimInv

LEMMA NewestOne ==
    ASSUME NEW S \in SUBSET Nat, NEW i \in Newest(S), NEW j \in Newest(S)
    PROVE  i = j
  BY DEF Newest

\* The owner's step leaves every other caller a bystander.
LEMMA OthersStand ==
    ASSUME IInv, NEW p \in Procs, Owner(p), NEW at, pc' = [pc EXCEPT ![p] = at]
    PROVE  /\ \A q \in Procs : q # p => ~Owner(q)' /\ CallerInv(q)'
           /\ pc'[p] = at
<1>2. \A q \in Procs : q # p => pc'[q] = pc[q] /\ ~Owner(q)
  BY OwnerAlone DEF IInv, TypeInv, TypeOK
<1>3. \A q \in Procs : q # p => ~Owner(q)'
  BY <1>2 DEF Owner, Running
<1>4. \A q \in Procs : ~Owner(q)' => CallerInv(q)'
  BY DEF Owner, Running, CallerInv, StepperInv, ReverterInv, Stepping, Undoing
<1>5. pc'[p] = at
  BY DEF IInv, TypeInv, TypeOK
<1> QED BY <1>3, <1>4, <1>5

-----------------------------------------------------------------------------
(* Steps that leave the plan alone.                                        *)

Same(q) ==
    /\ pc'[q] = pc[q]
    /\ entry'[q] = entry[q] /\ todo'[q] = todo[q] /\ missed'[q] = missed[q]

LEMMA PlanKept ==
    ASSUME JInv, UNCHANGED <<steps, file, landed, undone>>,
           \A q \in Procs : Owner(q)' =>
              Same(q) \/ (pc'[q] = "save" /\ file.status \in APPLYABLE \cup ROLLBACKABLE),
           Faults \cap {"crash", "store"} = {} => \A q \in Procs : pc[q] = "record" => pc'[q] = "record"
    PROVE  PlanInv'
<1>1. JournalInv'
  BY DEF JInv, PlanInv, JournalInv, Stopped, N
<1>2. LandedInv'
  BY DEF JInv, PlanInv, LandedInv, DonePositions, Here, N
<1>3. UndoneInv'
  <2>1. ASSUME NEW q \in Procs, Running(q)' PROVE Running(q) /\ \A i \in 1..N : Undid(q, i) => Undid(q, i)'
    BY <2>1 DEF Running, Owner, Undid, Same
  <2> QED BY <2>1 DEF JInv, PlanInv, UndoneInv, DonePositions, N
<1>4. ASSUME NEW q \in Procs PROVE CallerInv(q)'
  <2>1. CASE ~Owner(q)'
    BY <2>1 DEF Owner, Running, CallerInv, StepperInv, ReverterInv, Stepping, Undoing
  <2>2. CASE pc'[q] = "save" /\ file.status \in APPLYABLE \cup ROLLBACKABLE
    BY <2>2 DEF Running, CallerInv, StepperInv, ReverterInv, Stepping, Undoing
  <2>3. CASE Same(q)
    <3>1. CallerInv(q) /\ pc'[q] = pc[q] /\ entry'[q] = entry[q] /\ todo'[q] = todo[q] /\ missed'[q] = missed[q]
      BY <2>3 DEF JInv, PlanInv, Same
    <3>2. StepperInv(q)'
      BY <3>1 DEF CallerInv, StepperInv, Stepping, Stopped, Here, N
    <3>3. Pending(file)' = Pending(file) /\ DonePositions(file)' = DonePositions(file)
      BY DEF Pending, DonePositions
    <3>4. (missed'[q] <=> missed[q]) /\ (Running(q)' <=> Running(q)) /\ Newest(todo[q])' = Newest(todo[q])
      BY <3>1 DEF Running, Newest
    <3>5. ReverterInv(q)'
      <4>1. pc'[q] \in Undoing =>
              /\ file'.status = "rolling_back"
              /\ todo'[q] # {} /\ todo'[q] \subseteq Pending(file)'
              /\ \A j \in DonePositions(file)' \ todo'[q] : file'.journal[j].revert # "none"
        BY <3>1, <3>3 DEF CallerInv, ReverterInv
      <4>2. pc'[q] = "rerecord" => \A i \in Newest(todo[q])' : Revises(entry'[q], file'.journal[i])
        BY <3>1, <3>4 DEF CallerInv, ReverterInv
      <4>3. Running(q)' /\ file'.status = "rolling_back" =>
              (missed'[q] <=> Pending(file)' \ todo'[q] # {})
        BY <3>1, <3>3, <3>4 DEF CallerInv, ReverterInv
      <4> QED BY <4>1, <4>2, <4>3 DEF ReverterInv
    <3> QED BY <3>2, <3>5 DEF CallerInv
  <2> QED BY <2>1, <2>2, <2>3
<1> QED BY <1>1, <1>2, <1>3, <1>4 DEF PlanInv

LEMMA CallsKeepPlan == ASSUME JInv, WritesOnly, NEW p \in Procs, Calls(p) PROVE PlanInv'
<1>1. pc[p] = "idle" /\ UNCHANGED <<steps, file, landed, undone>>
  BY DEF Calls, CallTurnedAway, CallAdmitted, PruneReads, Arrive, plan, WritesOnly
<1>2. pc'[p] \in {"idle", "claim"} /\ \A q \in Procs : q # p => Same(q)
  BY DEF Calls, CallTurnedAway, CallAdmitted, PruneReads, Return, Goto, WritesOnly, Same,
         JInv, IInv, TypeInv, TypeOK
<1> QED BY <1>1, <1>2, PlanKept DEF Owner, Running, Same

LEMMA ClaimingKeepsPlan ==
    ASSUME JInv, NEW p \in Procs, TakeStoreLock(p) \/ ClaimRefused(p) \/ ClaimReads(p)
    PROVE  PlanInv'
<1>1. /\ pc[p] \in {"claim", "wait"} /\ UNCHANGED <<steps, file, landed, undone>>
      /\ \A q \in Procs : q # p => Same(q)
  BY DEF TakeStoreLock, ClaimRefused, ClaimReads, Return, Goto, Same, plan, work, history,
         JInv, IInv, TypeInv, TypeOK
<1>2. \/ pc'[p] \in {"wait", "idle"}
      \/ pc'[p] = "save" /\ file.status \in APPLYABLE \cup ROLLBACKABLE
  <2>1. CASE TakeStoreLock(p) \/ ClaimRefused(p)
    BY <2>1 DEF TakeStoreLock, ClaimRefused, Return, Goto, JInv, IInv, TypeInv, TypeOK
  <2>2. CASE ClaimReads(p)
    BY <2>2 DEF ClaimReads, Claimable, Current, Goto, APPLYABLE, JInv, IInv, ClaimInv, TypeInv, TypeOK
  <2> QED BY <2>1, <2>2
<1> QED BY <1>1, <1>2, PlanKept DEF Owner, Running, Same

LEMMA EnvironmentKeepsPlan == ASSUME JInv, Environment PROVE PlanInv'
<1>1. CASE \E S, how : Breaking(S, how)
  <2>1. PICK S, how : Breaking(S, how)
    BY <1>1
  <2>2. UNCHANGED <<steps, file, landed, undone>> /\ Faults \cap {"crash", "store"} # {}
    BY <2>1 DEF Breaking, Drops, plan, history
  <2>3. ASSUME NEW q \in Procs PROVE pc'[q] = "idle" \/ Same(q)
    BY <2>1 DEF Breaking, Drops, Same
  <2> QED BY <2>2, <2>3, PlanKept DEF Owner, Running
<1>2. CASE ForeignEdit \/ ForeignDelete \/ ForeignCreate \/ PlanAges \/ RetentionPasses
  <2>1. UNCHANGED <<steps, file, landed, undone, pc, entry, todo, missed>>
    BY <1>2 DEF ForeignEdit, ForeignDelete, ForeignCreate, ForeignWrite, PlanAges, RetentionPasses,
                plan, work, history
  <2> QED BY <2>1, PlanKept DEF Same
<1> QED BY <1>1, <1>2, WhoBreaks

-----------------------------------------------------------------------------
(* The claims.                                                             *)

LEMMA ApplyClaimKeepsPlan == ASSUME JInv, NEW p \in Procs, ApplyClaimSaves(p) PROVE PlanInv'
<1>1. Owner(p) /\ mem[p] = file /\ pc[p] = "save" /\ file.status = "planned"
  BY OwnerAlone DEF ApplyClaimSaves, Applying, Owner, JInv, IInv, ClaimInv, IN_FLIGHT
<1>2. /\ file' = [status |-> "applying", journal |-> <<>>]
      /\ pc' = [pc EXCEPT ![p] = AfterStep([status |-> "applying", journal |-> <<>>])]
      /\ UNCHANGED <<steps, landed, undone>>
  BY DEF ApplyClaimSaves, Save, Goto
<1>3. file.journal = <<>> /\ landed = {} /\ landed' = {}
  BY <1>1, <1>2 DEF JInv, PlanInv, JournalInv
<1>4. /\ Len(file'.journal) = 0 /\ file'.journal = <<>> /\ file'.status = "applying"
      /\ ~Stopped(file)' /\ DonePositions(file)' = {} /\ N \in Nat /\ N' = N
      /\ DonePositions(file) = {}
  BY <1>2, <1>3, FileTyped DEF Stopped, DonePositions, N, JInv
<1>5. JournalInv'
  BY <1>3, <1>4 DEF JournalInv
<1>6. LandedInv'
  BY <1>3, <1>4 DEF LandedInv
<1>7. UndoneInv'
  BY <1>2, <1>4 DEF JInv, PlanInv, UndoneInv
<1>8. pc'[p] = "step" \/ (pc'[p] = "link" /\ N = 0)
  BY <1>1, <1>2, <1>4, OthersStand DEF AfterStep, Stopped, JInv
<1>9. CallerInv(p)'
  BY <1>3, <1>4, <1>8 DEF CallerInv, StepperInv, ReverterInv, Stepping, Undoing, Here
<1> QED BY <1>1, <1>2, <1>5, <1>6, <1>7, <1>9, OthersStand DEF JInv, PlanInv

LEMMA RollbackClaimKeepsPlan == ASSUME JInv, NEW p \in Procs, RollbackClaimSaves(p) PROVE PlanInv'
<1>0. Owner(p) /\ mem[p] = file /\ pc[p] = "save" /\ file \in Doc
  BY OwnerAlone, FileTyped DEF RollbackClaimSaves, Owner, JInv
<1>1. file.status \in ROLLBACKABLE
  BY <1>0, NoPlanNoDoc DEF RollbackClaimSaves, Applying, APPLYABLE, JInv, PlanInv, CallerInv, StepperInv
<1> DEFINE claimed == [file EXCEPT !.status = "rolling_back"]
<1>2. /\ file' = claimed
      /\ pc' = [pc EXCEPT ![p] = AfterRevert(Pending(claimed))]
      /\ todo'[p] = Pending(claimed) /\ missed'[p] = FALSE
      /\ UNCHANGED <<steps, landed, undone>>
  BY <1>0 DEF RollbackClaimSaves, Save, Goto, history, JInv, IInv, TypeInv, TypeOK
<1>3. claimed.status = "rolling_back" /\ claimed.journal = file.journal
  BY <1>0 DEF Doc
<1>4. /\ file'.journal = file.journal /\ file'.status = "rolling_back" /\ N' = N
      /\ DonePositions(file)' = DonePositions(file) /\ Pending(claimed) = Pending(file)
      /\ Pending(file)' = Pending(file)
  BY <1>2, <1>3 DEF DonePositions, Pending, N
<1>5. JournalInv'
  BY <1>2, <1>4 DEF JInv, PlanInv, JournalInv, Stopped
<1>o. \A q \in Procs : ~Running(q)
  BY <1>0, <1>1, OwnerAlone DEF Owner, Running, JInv
<1>6. LandedInv'
  <2>1. \A q \in Procs : pc[q] # "record"
    BY <1>o DEF Running
  <2> QED BY <1>2, <1>4, <2>1 DEF JInv, PlanInv, LandedInv, Here
<1>7. UndoneInv'
  BY <1>1, <1>2, <1>4 DEF JInv, PlanInv, UndoneInv, ROLLBACKABLE
<1>8. pc'[p] = AfterRevert(Pending(file))
  BY <1>0, <1>2, <1>4, OthersStand DEF JInv
<1>9. CallerInv(p)'
  <2>1. CASE Pending(file) = {}
    BY <1>2, <1>4, <1>8, <2>1
    DEF AfterRevert, CallerInv, StepperInv, ReverterInv, Stepping, Undoing
  <2>2. CASE Pending(file) # {}
    BY <1>2, <1>4, <1>8, <2>2
    DEF AfterRevert, CallerInv, StepperInv, ReverterInv, Stepping, Undoing, Pending
  <2> QED BY <2>1, <2>2
<1> QED BY <1>0, <1>2, <1>5, <1>6, <1>7, <1>9, OthersStand DEF JInv, PlanInv

-----------------------------------------------------------------------------
(* The apply loop.                                                         *)

\* Where the caller in the apply loop stands.
LEMMA StepperStands ==
    ASSUME JInv, NEW p \in Procs, pc[p] \in Stepping
    PROVE  /\ Owner(p) /\ mem[p] = file /\ Position(p) = Here /\ Here \in 1..N
           /\ file.status = "applying" /\ ~Stopped(file)
<1>1. Owner(p) /\ mem[p] = file
  BY OwnerAlone DEF Owner, Running, Stepping, JInv
<1>2. Position(p) = Here /\ Position(p) \in 1..N
  BY <1>1, StepTyped DEF Stepping, Position, Here, JInv, IInv
<1> QED BY <1>1, <1>2 DEF JInv, PlanInv, CallerInv, StepperInv

\* A step of the apply loop that talks to NetBox, with what it may find out.
Learns(p, at) ==
    /\ pc[p] \in {"step", "write"} /\ at \in {"write", "record"}
    /\ pc' = [pc EXCEPT ![p] = at]
    /\ UNCHANGED <<steps, file, undone>>
    /\ \/ landed' = landed
       \/ pc[p] = "write" /\ at = "record" /\ landed' = landed \cup {Here}
    /\ at = "write" => landed' = landed /\ steps[Here].action # "noop"
    /\ at = "record" =>
          /\ entry'[p].revert = "none"
          /\ entry'[p].status = "done" => Here \in landed'
          /\ entry'[p].status = "skipped" => steps[Here].action = "noop"
          /\ landed' # landed /\ "lost" \notin Faults => entry'[p].status = "done"

LEMMA LearningKeepsPlan ==
    ASSUME JInv, NEW p \in Procs, NEW at, Learns(p, at)
    PROVE  PlanInv'
<1>1. /\ Owner(p) /\ Here \in 1..N /\ file.status = "applying" /\ ~Stopped(file)
      /\ Here \notin landed /\ (pc[p] = "write" => steps[Here].action # "noop")
  BY StepperStands DEF Learns, Stepping, JInv, PlanInv, CallerInv, StepperInv
<1>2. /\ N' = N /\ Here' = Here /\ DonePositions(file)' = DonePositions(file)
      /\ Stopped(file)' = Stopped(file) /\ file' = file /\ steps' = steps /\ undone' = undone
      /\ pc'[p] = at
  BY <1>1, OthersStand DEF Learns, N, Here, DonePositions, Stopped, JInv
<1>3. JournalInv'
  BY <1>1, <1>2 DEF Learns, JInv, PlanInv, JournalInv
<1>4. LandedInv'
  <2>1. landed' \subseteq 1..N /\ \A i \in landed' : steps[i].action # "noop" /\ i <= Here
    <3>1. landed \subseteq 1..N /\ \A i \in landed : steps[i].action # "noop" /\ i <= Here
      BY DEF JInv, PlanInv, LandedInv
    <3>2. landed' = landed \/ (landed' = landed \cup {Here} /\ steps[Here].action # "noop")
      BY <1>1 DEF Learns
    <3>3. Here \in 1..N /\ Here <= Here
      BY <1>1
    <3> QED BY <3>1, <3>2, <3>3
  <2>2. ASSUME NEW i \in landed' \ DonePositions(file)
        PROVE  /\ i >= Len(file.journal)
               /\ Faults \cap {"lost", "crash", "store"} = {} => i = Here /\ pc'[p] = "record"
    <3>1. CASE i \in landed
      BY <1>1, <2>2, <3>1 DEF JInv, PlanInv, LandedInv
    <3>2. CASE i \notin landed
      <4>1. i = Here /\ at = "record"
        BY <2>2, <3>2 DEF Learns
      <4> QED BY <1>1, <1>2, <4>1, FileTyped DEF Here, JInv
    <3> QED BY <3>1, <3>2
  <2> QED BY <1>2, <2>1, <2>2 DEF LandedInv
<1>5. UndoneInv'
  BY <1>1, <1>2 DEF JInv, PlanInv, UndoneInv
<1>6. CallerInv(p)'
  <2>1. StepperInv(p)'
    BY <1>1, <1>2 DEF Learns, StepperInv, Stepping
  <2>2. ReverterInv(p)'
    BY <1>1, <1>2 DEF Learns, ReverterInv, Undoing
  <2> QED BY <2>1, <2>2 DEF CallerInv
<1> QED BY <1>1, <1>3, <1>4, <1>5, <1>6, OthersStand DEF Learns, JInv, PlanInv

LEMMA NewEntrySays ==
    ASSUME NEW status, NEW obj, NEW after
    PROVE  NewEntry(status, obj, after).status = status /\ NewEntry(status, obj, after).revert = "none"
  BY DEF NewEntry

LEMMA SteppingKeepsPlan ==
    ASSUME JInv, NEW p \in Procs, CheckStep(p) \/ StepWrites(p) \/ StepRejected(p)
    PROVE  PlanInv'
<1> DEFINE s == steps[Here]
<1>1. pc[p] \in {"step", "write"} /\ Position(p) = Here /\ entry \in [Procs -> Entry]
      /\ Here \notin landed
  BY StepperStands DEF CheckStep, StepWrites, StepRejected, Stepping, JInv, IInv, TypeInv, TypeOK,
                       PlanInv, CallerInv, StepperInv
<1>2. CASE CheckStep(p)
  <2>1. \/ /\ s.action = "noop" /\ Goto(p, "record")
           /\ entry' = [entry EXCEPT ![p] = NewEntry("skipped", s.obj, 0)]
        \/ /\ Goto(p, "record")
           /\ entry' = [entry EXCEPT ![p] = NewEntry("conflict", s.obj, 0)]
        \/ s.action # "noop" /\ Goto(p, "write")
    BY <1>1, <1>2 DEF CheckStep, Prepare
  <2>2. UNCHANGED <<steps, file, undone, landed>>
    BY <1>2 DEF CheckStep, LoopUnchanged, plan
  <2>3. Learns(p, "record") \/ Learns(p, "write")
    BY <1>1, <2>1, <2>2, NewEntrySays DEF Learns, Goto
  <2> QED BY <2>3, LearningKeepsPlan
<1>3. CASE StepWrites(p)
  <2>1. \/ \E obj, after : entry' = [entry EXCEPT ![p] = NewEntry("done", obj, after)]
        \/ "lost" \in Faults /\ entry' = [entry EXCEPT ![p] = NewEntry("failed", s.obj, 0)]
    BY <1>1, <1>3 DEF StepWrites, Prepare
  <2>2. /\ UNCHANGED <<steps, file, undone>> /\ landed' = landed \cup {Here} /\ pc[p] = "write"
        /\ Goto(p, "record")
    BY <1>1, <1>3 DEF StepWrites, Prepare, LoopUnchanged, plan
  <2>3. Learns(p, "record")
    BY <1>1, <2>1, <2>2, NewEntrySays DEF Learns, Goto
  <2> QED BY <2>3, LearningKeepsPlan
<1>4. CASE StepRejected(p)
  <2>1. /\ UNCHANGED <<steps, file, undone, landed>> /\ Goto(p, "record")
        /\ entry' = [entry EXCEPT ![p] = NewEntry("failed", s.obj, 0)]
    BY <1>1, <1>4 DEF StepRejected, Prepare, LoopUnchanged, plan
  <2>2. Learns(p, "record")
    BY <1>1, <2>1, NewEntrySays DEF Learns, Goto
  <2> QED BY <2>2, LearningKeepsPlan
<1> QED BY <1>2, <1>3, <1>4

LEMMA RecordStepKeepsPlan == ASSUME JInv, NEW p \in Procs, RecordStep(p) PROVE PlanInv'
<1>1. /\ Owner(p) /\ mem[p] = file /\ Here \in 1..N /\ file.status = "applying" /\ ~Stopped(file)
      /\ pc[p] = "record" /\ file \in Doc /\ file.journal \in Seq(Entry) /\ Len(file.journal) \in Nat
      /\ N \in Nat /\ entry[p] \in Entry
  BY StepperStands, FileTyped DEF RecordStep, Stepping, JInv, IInv, TypeInv, TypeOK
<1> DEFINE doc == [file EXCEPT !.journal = Append(file.journal, entry[p])]
<1>2. file' = doc /\ Goto(p, AfterStep(doc)) /\ UNCHANGED <<steps, landed, undone>>
  BY <1>1 DEF RecordStep, Save, history
<1>3. /\ file'.status = "applying" /\ file'.journal = Append(file.journal, entry[p])
      /\ Len(file'.journal) = Here /\ Here' = Here + 1 /\ N' = N
      /\ \A i \in 1..Len(file.journal) : file'.journal[i] = file.journal[i]
      /\ file'.journal[Here] = entry[p]
  BY <1>1, <1>2 DEF Doc, Here, N
<1>4. \A i : i \in DonePositions(file)' <=>
              i \in DonePositions(file) \/ (i = Here /\ entry[p].status = "done")
  BY <1>1, <1>3 DEF DonePositions, Here
<1>5. \A i \in 1..Len(file.journal) : file.journal[i].status \in {"done", "skipped"}
  <2>1. \A i \in 1..Len(file.journal) :
          i < Len(file.journal) => file.journal[i].status \in {"done", "skipped"}
    BY DEF JInv, PlanInv, JournalInv
  <2>2. file.journal # <<>> => file.journal[Len(file.journal)].status \in {"done", "skipped"}
    <3>1. file.journal # <<>> => Len(file.journal) \in 1..Len(file.journal)
      BY <1>1, EmptySeq
    <3>2. \A i \in 1..Len(file.journal) : file.journal[i].status \in {"done", "skipped", "conflict", "failed"}
      BY FileTyped DEF Entry, JInv
    <3> QED BY <1>1, <3>1, <3>2 DEF Stopped
  <2> QED BY <1>1, <2>1, <2>2
<1>6. JournalInv'
  BY <1>1, <1>2, <1>3, <1>5 DEF JInv, PlanInv, JournalInv, CallerInv, StepperInv, Here
<1>7. LandedInv'
  <2>1. ASSUME NEW i \in landed, i \notin DonePositions(file)'
        PROVE  i >= Here /\ Faults \cap {"lost", "crash", "store"} # {}
    <3>1. i \in 1..N /\ steps[i].action # "noop" /\ i >= Len(file.journal) /\ i <= Here
      BY <1>4, <2>1 DEF JInv, PlanInv, LandedInv
    <3>2. i # Len(file.journal)
      BY <1>1, <1>4, <1>5, <2>1, <3>1 DEF DonePositions, JInv, PlanInv, JournalInv
    <3>3. i = Here
      BY <1>1, <3>1, <3>2 DEF Here
    <3>4. "lost" \in Faults \/ entry[p].status = "done"
      BY <1>1, <2>1, <3>3 DEF JInv, PlanInv, CallerInv, StepperInv
    <3> QED BY <1>1, <1>4, <2>1, <3>3, <3>4
  <2>2. landed \subseteq 1..N /\ \A i \in landed : steps[i].action # "noop" /\ i <= Here
    BY DEF LandedInv, JInv, PlanInv
  <2>3. \A i \in landed : i <= Here + 1
    <3>1. Here \in Nat /\ N \in Nat
      BY <1>1
    <3> QED BY <2>2, <3>1
  <2> QED BY <1>2, <1>3, <2>1, <2>2, <2>3 DEF LandedInv
<1>8. UndoneInv'
  BY <1>1, <1>2, <1>3, <1>4 DEF JInv, PlanInv, UndoneInv, DonePositions
<1>9. \/ pc'[p] = "step" /\ ~Stopped(file)'
      \/ pc'[p] = "link" /\ (Stopped(file)' \/ Len(file'.journal) = N)
  <2>1. pc'[p] = AfterStep(doc)
    BY <1>1, <1>2, OthersStand DEF Goto, JInv
  <2>2. (Stopped(file)' <=> Stopped(doc)) /\ Len(file'.journal) = Len(doc.journal)
    BY <1>2 DEF Stopped
  <2> HIDE DEF doc
  <2> QED BY <2>1, <2>2 DEF AfterStep
<1>10. CallerInv(p)'
  <2>1. Here' \notin landed'
    BY <1>1, <1>2, <1>3 DEF JInv, PlanInv, LandedInv
  <2> QED BY <1>3, <1>9, <2>1 DEF CallerInv, StepperInv, ReverterInv, Stepping, Undoing
<1> QED BY <1>1, <1>2, <1>6, <1>7, <1>8, <1>10, OthersStand DEF JInv, PlanInv, Goto

-----------------------------------------------------------------------------
(* The rollback loop.                                                      *)

\* Where the caller in the rollback loop stands.
LEMMA ReverterStands ==
    ASSUME JInv, NEW p \in Procs, pc[p] \in Undoing
    PROVE  /\ Owner(p) /\ Running(p) /\ mem[p] = file /\ file.status = "rolling_back"
           /\ todo[p] # {} /\ todo[p] \subseteq Pending(file) /\ Pending(file) \subseteq DonePositions(file)
           /\ todo[p] \in SUBSET Nat
           /\ \A q \in Procs : Running(q) => q = p
<1>1. Owner(p) /\ Running(p) /\ mem[p] = file
  BY OwnerAlone DEF Owner, Running, Undoing, JInv
<1>2. \A q \in Procs : Running(q) => q = p
  BY <1>1, OwnerAlone DEF Owner, JInv
<1> QED BY <1>1, <1>2 DEF JInv, PlanInv, CallerInv, ReverterInv, Pending, IInv, TypeInv, TypeOK

LEMMA RevisedKeeps ==
    ASSUME NEW was \in Entry, NEW e, Revises(e, was)
    PROVE  e \in Entry /\ e.status = was.status /\ e.obj = was.obj /\ e.after = was.after
           /\ e.revert \in {"reverted", "conflict", "failed"}
  BY DEF Revises, Entry

\* What no inverse write but the last has left open.
LEMMA NoneUndid ==
    ASSUME JInv, NEW p \in Procs, Running(p), pc[p] # "rerecord"
    PROVE  \A i \in 1..N : undone[i] >= 1 =>
              /\ i \in DonePositions(file)
              /\ "lost" \notin Faults => undone[i] = 1 /\ file.journal[i].revert = "reverted"
  BY DEF JInv, PlanInv, UndoneInv, Undid

\* A step of the rollback loop that talks to NetBox.
Undoes(p, at) ==
    /\ pc[p] \in {"undo", "unwrite", "repost"} /\ at \in Undoing
    /\ pc' = [pc EXCEPT ![p] = at]
    /\ UNCHANGED <<steps, file, landed, todo, missed>>
    /\ at = "rerecord" => \A i \in Newest(todo[p]) : Revises(entry'[p], file.journal[i])
    /\ \/ undone' = undone
       \/ /\ at = "rerecord"
          /\ \E i \in Newest(todo[p]) : undone' = [undone EXCEPT ![i] = @ + 1]
          /\ "lost" \notin Faults => entry'[p].revert = "reverted"

LEMMA UndoingKeepsPlan ==
    ASSUME JInv, NEW p \in Procs, NEW at, Undoes(p, at)
    PROVE  PlanInv'
<1>1. /\ Owner(p) /\ Running(p) /\ file.status = "rolling_back" /\ pc[p] \in Undoing
      /\ todo[p] \subseteq Pending(file) /\ Pending(file) \subseteq DonePositions(file)
      /\ todo[p] \in SUBSET Nat
      /\ \A q \in Procs : Running(q) => q = p
  BY ReverterStands DEF Undoes, Undoing
<1>2. /\ N' = N /\ Here' = Here /\ DonePositions(file)' = DonePositions(file)
      /\ Pending(file)' = Pending(file) /\ file' = file /\ steps' = steps /\ todo' = todo
      /\ Stopped(file)' = Stopped(file) /\ landed' = landed /\ missed' = missed
      /\ pc'[p] = at /\ (\A q \in Procs : q # p => ~Owner(q)' /\ CallerInv(q)')
  BY <1>1, OthersStand DEF Undoes, N, Here, DonePositions, Pending, Stopped, JInv
<1>3. JournalInv'
  BY <1>2 DEF JInv, PlanInv, JournalInv
<1>4. LandedInv'
  <2>1. \A q \in Procs : pc[q] # "record"
    BY <1>1 DEF Running, Undoing
  <2> QED BY <1>2, <2>1 DEF JInv, PlanInv, LandedInv
<1>5. UndoneInv'
  <2>1. CASE undone' = undone
    BY <1>1, <1>2, <2>1, NoneUndid DEF UndoneInv, Undoes
  <2>2. CASE undone' # undone
    <3>1. PICK k \in Newest(todo[p]) : undone' = [undone EXCEPT ![k] = @ + 1]
      BY <2>2 DEF Undoes
    <3>2. /\ at = "rerecord" /\ ("lost" \notin Faults => entry'[p].revert = "reverted")
          /\ k \in todo[p] /\ file.journal[k].revert # "reverted" /\ undone \in [1..N -> Nat]
      BY <1>1, <2>2, <3>1 DEF Undoes, Newest, Pending, JInv, IInv, TypeInv, TypeOK
    <3>3. ASSUME "lost" \notin Faults PROVE \A q \in Procs : Running(q)' => Undid(q, k)'
      <4>1. \A q \in Procs : Running(q)' => q = p
        BY <1>2 DEF Owner
      <4>2. Undid(p, k)'
        BY <1>2, <3>1, <3>2, <3>3 DEF Undid, Newest
      <4> QED BY <4>1, <4>2
    <3>4. ASSUME NEW i \in 1..N, undone'[i] >= 1
          PROVE  /\ i \in DonePositions(file)
                 /\ "lost" \notin Faults =>
                       /\ undone'[i] = 1
                       /\ file.journal[i].revert = "reverted" \/ i = k
      <4>1. CASE i = k
        <5>1. i \in DonePositions(file)
          BY <1>1, <3>2, <4>1
        <5>2. "lost" \notin Faults => undone[i] = 0
          BY <1>1, <3>2, <4>1, NoneUndid DEF Undoes
        <5> QED BY <3>1, <3>2, <4>1, <5>1, <5>2
      <4>2. CASE i # k
        BY <1>1, <3>1, <3>2, <3>4, <4>2, NoneUndid DEF Undoes
      <4> QED BY <4>1, <4>2
    <3> QED BY <1>1, <1>2, <3>3, <3>4 DEF UndoneInv
  <2> QED BY <2>1, <2>2
<1>6. CallerInv(p)'
  <2>1. StepperInv(p)'
    BY <1>1, <1>2 DEF Undoes, StepperInv, Stepping, Undoing
  <2>2. ReverterInv(p) /\ Newest(todo[p])' = Newest(todo[p])
    BY <1>2 DEF JInv, PlanInv, CallerInv, Newest
  <2>3. pc'[p] \in Undoing =>
          /\ file'.status = "rolling_back"
          /\ todo'[p] # {} /\ todo'[p] \subseteq Pending(file)'
          /\ \A j \in DonePositions(file)' \ todo'[p] : file'.journal[j].revert # "none"
    BY <1>1, <1>2, <2>2 DEF ReverterInv
  <2>4. pc'[p] = "rerecord" => \A i \in Newest(todo[p])' : Revises(entry'[p], file'.journal[i])
    BY <1>2, <2>2 DEF Undoes
  <2>5. missed'[p] <=> Pending(file)' \ todo'[p] # {}
    BY <1>1, <1>2, <2>2 DEF ReverterInv
  <2> QED BY <2>1, <2>3, <2>4, <2>5 DEF CallerInv, ReverterInv
<1> QED BY <1>2, <1>3, <1>4, <1>5, <1>6 DEF PlanInv

LEMMA OutcomeRevises ==
    ASSUME JInv, NEW p \in Procs, mem[p] = file, todo[p] \in SUBSET Nat, entry \in [Procs -> Entry],
           NEW i \in Newest(todo[p]), NEW how \in {"reverted", "conflict", "failed"},
           NEW to \in Ids \cup {NoId}, entry' = [entry EXCEPT ![p] = Outcome(p, i, how, to)]
    PROVE  /\ \A j \in Newest(todo[p]) : Revises(entry'[p], file.journal[j])
           /\ file.journal[i] \in Entry => entry'[p].revert = how
<1>1. \E lacks \in BOOLEAN :
         entry'[p] = [file.journal[i] EXCEPT !.revert = how, !.new = to, !.dropped = lacks]
  BY DEF Outcome
<1>2. \A j \in Newest(todo[p]) : j = i
  BY NewestOne
<1>3. Revises(entry'[p], file.journal[i])
  BY <1>1 DEF Revises
<1> QED BY <1>1, <1>2, <1>3 DEF Entry

LEMMA RevertingKeepsPlan ==
    ASSUME JInv, NEW p \in Procs, ReadBack(p) \/ UndoWrites(p) \/ UndoRejected(p)
    PROVE  PlanInv'
<1>1. /\ pc[p] \in {"undo", "unwrite", "repost"} /\ pc[p] \in Undoing
      /\ mem[p] = file /\ todo[p] \in SUBSET Nat /\ entry \in [Procs -> Entry]
  BY ReverterStands
  DEF ReadBack, UndoWrites, UndoRejected, AboutToUndo, Undoing, JInv, IInv, TypeInv, TypeOK
<1>2. UNCHANGED <<steps, file, landed, todo, missed>>
  BY DEF ReadBack, UndoWrites, UndoRejected, UndoUnchanged, plan
<1>3. CASE ReadBack(p)
  <2>1. undone' = undone
    BY <1>3 DEF ReadBack
  <2>2. PICK i \in Newest(todo[p]) :
          \/ /\ \E how \in {"reverted", "conflict", "failed"} :
                  entry' = [entry EXCEPT ![p] = Outcome(p, i, how, NoId)]
             /\ pc' = [pc EXCEPT ![p] = "rerecord"]
          \/ pc' = [pc EXCEPT ![p] = "unwrite"]
    BY <1>3 DEF ReadBack, Prepare, Goto
  <2>3. Undoes(p, "rerecord") \/ Undoes(p, "unwrite")
    BY <1>1, <1>2, <2>1, <2>2, OutcomeRevises DEF Undoes, Undoing
  <2> QED BY <2>3, UndoingKeepsPlan
<1>4. CASE UndoWrites(p)
  <2>1. PICK i \in Newest(todo[p]) :
          /\ \E e \in UndoEffects(p, i) :
                \/ entry' = [entry EXCEPT ![p] = Outcome(p, i, "reverted",
                                IF steps[i].action = "delete" THEN e.at ELSE NoId)]
                \/ "lost" \in Faults /\ entry' = [entry EXCEPT ![p] = Outcome(p, i, "failed", NoId)]
          /\ undone' = [undone EXCEPT ![i] = @ + 1]
    BY <1>4 DEF UndoWrites, Prepare
  <2>2. \A e \in UndoEffects(p, i) : e.at \in Ids
    BY UndoEffectsTyped DEF JInv, IInv, TypeInv, TypeOK
  <2>3. file.journal[i] \in Entry
    BY <1>1, PendingTyped DEF JInv, IInv
  <2>4. /\ \A j \in Newest(todo[p]) : Revises(entry'[p], file.journal[j])
        /\ "lost" \notin Faults => entry'[p].revert = "reverted"
    <3>1. PICK how \in {"reverted", "conflict", "failed"}, to \in Ids \cup {NoId} :
            /\ entry' = [entry EXCEPT ![p] = Outcome(p, i, how, to)]
            /\ "lost" \notin Faults => how = "reverted"
      BY <2>1, <2>2
    <3>2. /\ \A j \in Newest(todo[p]) : Revises(entry'[p], file.journal[j])
          /\ entry'[p].revert = how
      BY <1>1, <2>3, <3>1, OutcomeRevises
    <3> QED BY <3>1, <3>2
  <2>5. pc' = [pc EXCEPT ![p] = "rerecord"]
    BY <1>4 DEF UndoWrites, Prepare, Goto
  <2>6. Undoes(p, "rerecord")
    BY <1>1, <1>2, <2>1, <2>4, <2>5 DEF Undoes, Undoing
  <2> QED BY <2>6, UndoingKeepsPlan
<1>5. CASE UndoRejected(p)
  <2>1. undone' = undone
    BY <1>5 DEF UndoRejected
  <2>2. PICK i \in Newest(todo[p]) :
          \/ /\ entry' = [entry EXCEPT ![p] = Outcome(p, i, "failed", NoId)]
             /\ pc' = [pc EXCEPT ![p] = "rerecord"]
          \/ pc' = [pc EXCEPT ![p] = "repost"]
    BY <1>5 DEF UndoRejected, Prepare, Goto
  <2>3. Undoes(p, "rerecord") \/ Undoes(p, "repost")
    BY <1>1, <1>2, <2>1, <2>2, OutcomeRevises DEF Undoes, Undoing
  <2> QED BY <2>3, UndoingKeepsPlan
<1> QED BY <1>3, <1>4, <1>5

\* What saving the outcome of an inverse does to the file.
LEMMA RecordRevertSaves ==
    ASSUME JInv, NEW p \in Procs, RecordRevert(p)
    PROVE  \E i \in Newest(todo[p]) :
              /\ i \in Pending(file) /\ i \in 1..Len(file.journal)
              /\ Revises(entry[p], file.journal[i]) /\ file.journal[i] \in Entry
              /\ file'.status = "rolling_back"
              /\ Len(file'.journal) = Len(file.journal)
              /\ file'.journal = [file.journal EXCEPT ![i] = entry[p]]
              /\ \A j \in 1..Len(file.journal) :
                    file'.journal[j] = IF j = i THEN entry[p] ELSE file.journal[j]
              /\ todo' = [todo EXCEPT ![p] = todo[p] \ {i}]
              /\ missed' = [missed EXCEPT ![p] = missed[p] \/ Missed(entry[p])]
              /\ pc' = [pc EXCEPT ![p] = AfterRevert(todo[p] \ {i})]
<1>1. /\ pc[p] = "rerecord" /\ pc[p] \in Undoing /\ Running(p) /\ mem[p] = file
      /\ file.status = "rolling_back" /\ todo[p] \subseteq Pending(file)
      /\ file \in Doc /\ file.journal \in Seq(Entry)
  BY ReverterStands, FileTyped DEF RecordRevert, Undoing, JInv
<1>2. PICK i \in Newest(todo[p]) :
        /\ file' = [file EXCEPT !.journal = [file.journal EXCEPT ![i] = entry[p]]]
        /\ todo' = [todo EXCEPT ![p] = todo[p] \ {i}]
        /\ pc' = [pc EXCEPT ![p] = AfterRevert(todo[p] \ {i})]
        /\ missed' = [missed EXCEPT ![p] = missed[p] \/ Missed(entry[p])]
  BY <1>1 DEF RecordRevert, Save, Goto
<1>3. i \in Pending(file) /\ i \in 1..Len(file.journal) /\ Revises(entry[p], file.journal[i])
  BY <1>1 DEF Newest, Pending, DonePositions, JInv, PlanInv, CallerInv, ReverterInv
<1>4. file.journal[i] \in Entry
  BY <1>3, FileTyped DEF JInv
<1>5. /\ Len([file.journal EXCEPT ![i] = entry[p]]) = Len(file.journal)
      /\ \A j \in 1..Len(file.journal) :
            [file.journal EXCEPT ![i] = entry[p]][j] = IF j = i THEN entry[p] ELSE file.journal[j]
  BY <1>1, <1>3, <1>4, RevisedKeeps, JournalExcept, ExceptSeq
<1>6. file'.journal = [file.journal EXCEPT ![i] = entry[p]] /\ file'.status = file.status
  BY <1>1, <1>2 DEF Doc
<1> QED BY <1>1, <1>2, <1>3, <1>4, <1>5, <1>6

LEMMA RecordRevertKeepsPlan == ASSUME JInv, NEW p \in Procs, RecordRevert(p) PROVE PlanInv'
<1>1. /\ Owner(p) /\ Running(p) /\ file.status = "rolling_back" /\ pc[p] = "rerecord"
      /\ todo[p] \subseteq Pending(file) /\ Pending(file) \subseteq DonePositions(file)
      /\ todo[p] \in SUBSET Nat /\ todo \in [Procs -> SUBSET Nat] /\ missed \in [Procs -> BOOLEAN]
      /\ UNCHANGED <<steps, landed, undone>>
  BY ReverterStands DEF RecordRevert, Undoing, history, JInv, IInv, TypeInv, TypeOK
<1>2. PICK i \in Newest(todo[p]) :
        /\ i \in Pending(file) /\ i \in 1..Len(file.journal)
        /\ Revises(entry[p], file.journal[i]) /\ file.journal[i] \in Entry
        /\ file'.status = "rolling_back" /\ Len(file'.journal) = Len(file.journal)
        /\ \A j \in 1..Len(file.journal) :
              file'.journal[j] = IF j = i THEN entry[p] ELSE file.journal[j]
        /\ todo' = [todo EXCEPT ![p] = todo[p] \ {i}]
        /\ missed' = [missed EXCEPT ![p] = missed[p] \/ Missed(entry[p])]
        /\ pc' = [pc EXCEPT ![p] = AfterRevert(todo[p] \ {i})]
  BY RecordRevertSaves
<1>3. /\ entry[p].status = file.journal[i].status
      /\ entry[p].revert \in {"reverted", "conflict", "failed"}
      /\ i \in todo[p] /\ file.journal[i].revert # "reverted" /\ file.journal[i].status = "done"
  BY <1>2, RevisedKeeps DEF Newest, Pending, DonePositions
<1>4. /\ N' = N /\ Here' = Here /\ steps' = steps /\ landed' = landed /\ undone' = undone
      /\ DonePositions(file)' = DonePositions(file)
      /\ Pending(file)' = IF entry[p].revert = "reverted" THEN Pending(file) \ {i} ELSE Pending(file)
  <2>1. \A j \in 1..Len(file.journal) : file'.journal[j].status = file.journal[j].status
    BY <1>2, <1>3
  <2>2. DonePositions(file)' = DonePositions(file)
    BY <1>2, <2>1 DEF DonePositions
  <2>3. \A j \in DonePositions(file) : j \in 1..Len(file.journal)
    BY DEF DonePositions
  <2>4. \A j : j \in Pending(file)' <=>
           j \in DonePositions(file) /\ (IF j = i THEN entry[p] ELSE file.journal[j]).revert # "reverted"
    BY <1>2, <2>2, <2>3 DEF Pending
  <2>5. Pending(file)' = IF entry[p].revert = "reverted" THEN Pending(file) \ {i} ELSE Pending(file)
    BY <1>2, <1>3, <2>4 DEF Pending
  <2> QED BY <1>1, <1>2, <2>2, <2>5 DEF N, Here
<1>5. JournalInv'
  BY <1>1, <1>2, <1>3, <1>4 DEF JInv, PlanInv, JournalInv
<1>6. LandedInv'
  <2>1. \A q \in Procs : pc[q] # "record"
    BY <1>1, ReverterStands DEF Running, Undoing
  <2> QED BY <1>2, <1>4, <2>1 DEF JInv, PlanInv, LandedInv
<1>7. UndoneInv'
  <2>1. ASSUME NEW k \in 1..N, undone[k] >= 1
        PROVE  /\ k \in DonePositions(file)
               /\ "lost" \notin Faults => undone[k] = 1 /\ file'.journal[k].revert = "reverted"
    <3>1. k \in DonePositions(file) /\ k \in 1..Len(file.journal)
      BY <2>1 DEF JInv, PlanInv, UndoneInv, DonePositions
    <3>2. "lost" \notin Faults =>
            undone[k] = 1 /\ (file.journal[k].revert = "reverted" \/ Undid(p, k))
      BY <1>1, <2>1 DEF JInv, PlanInv, UndoneInv
    <3>3. Undid(p, k) => k = i /\ entry[p].revert = "reverted"
      BY <1>1, <1>2, NewestOne DEF Undid
    <3> QED BY <1>2, <1>3, <3>1, <3>2, <3>3
  <2> QED BY <1>4, <2>1 DEF UndoneInv
<1>8. pc'[p] = AfterRevert(todo[p] \ {i}) /\ todo'[p] = todo[p] \ {i}
      /\ (missed'[p] <=> missed[p] \/ entry[p].revert # "reverted")
  BY <1>1, <1>2, OthersStand DEF JInv, Missed
<1>9. CallerInv(p)'
  <2>1. pc'[p] \in {"undo", "link"} /\ (pc'[p] = "undo" <=> todo'[p] # {})
    BY <1>8 DEF AfterRevert
  <2>2. StepperInv(p)'
    BY <1>2, <2>1 DEF StepperInv, Stepping
  <2>3. \A j \in DonePositions(file) \ todo[p] : file.journal[j].revert # "none"
    BY <1>1 DEF JInv, PlanInv, CallerInv, ReverterInv, Undoing
  <2>4. \A j \in DonePositions(file)' \ todo'[p] : file'.journal[j].revert # "none"
    BY <1>2, <1>3, <1>4, <1>8, <2>3 DEF DonePositions
  <2>5. todo'[p] \subseteq Pending(file)'
    BY <1>1, <1>4, <1>8
  <2>6. missed[p] <=> Pending(file) \ todo[p] # {}
    BY <1>1 DEF JInv, PlanInv, CallerInv, ReverterInv
  <2>7. Pending(file)' \ todo'[p] =
          IF entry[p].revert = "reverted" THEN Pending(file) \ todo[p]
          ELSE (Pending(file) \ todo[p]) \cup {i}
    BY <1>2, <1>3, <1>4, <1>8
  <2>8. missed'[p] <=> Pending(file)' \ todo'[p] # {}
    BY <1>8, <2>6, <2>7
  <2> QED BY <1>2, <2>1, <2>2, <2>4, <2>5, <2>8 DEF CallerInv, ReverterInv, Undoing
<1> QED BY <1>1, <1>2, <1>5, <1>6, <1>7, <1>9, OthersStand DEF JInv, PlanInv

-----------------------------------------------------------------------------
(* The end of a run.                                                       *)

LEMMA LinkKeepsPlan == ASSUME JInv, NEW p \in Procs, Link(p) PROVE PlanInv'
<1>1. /\ Owner(p) /\ Running(p) /\ mem[p] = file /\ pc[p] = "link"
      /\ \A q \in Procs : Running(q) => q = p
  BY RunnerOwns, OwnerAlone DEF Link, Running, Owner, JInv
<1>2. /\ file' = file /\ pc' = [pc EXCEPT ![p] = "finish"]
      /\ UNCHANGED <<steps, landed, undone, todo, missed>>
  BY <1>1 DEF Link, Save, Goto, work, history
<1>3. /\ N' = N /\ Here' = Here /\ DonePositions(file)' = DonePositions(file)
      /\ Pending(file)' = Pending(file) /\ Stopped(file)' = Stopped(file)
      /\ pc'[p] = "finish" /\ (\A q \in Procs : q # p => ~Owner(q)' /\ CallerInv(q)')
  BY <1>1, <1>2, OthersStand DEF N, Here, DonePositions, Pending, Stopped, JInv
<1>4. JournalInv'
  BY <1>2, <1>3 DEF JInv, PlanInv, JournalInv
<1>5. LandedInv'
  <2>1. \A q \in Procs : pc[q] # "record"
    BY <1>1 DEF Running
  <2> QED BY <1>2, <1>3, <2>1 DEF JInv, PlanInv, LandedInv
<1>6. UndoneInv'
  BY <1>1, <1>2, <1>3, NoneUndid DEF UndoneInv
<1>7. CallerInv(p)'
  <2>1. CallerInv(p)
    BY DEF JInv, PlanInv
  <2>2. StepperInv(p)'
    BY <1>1, <1>2, <1>3, <2>1 DEF CallerInv, StepperInv, Stepping
  <2>3. file.status = "rolling_back" => (missed'[p] <=> Pending(file)' \ todo'[p] # {})
    BY <1>1, <1>2, <1>3, <2>1 DEF CallerInv, ReverterInv
  <2> QED BY <1>2, <1>3, <2>2, <2>3 DEF CallerInv, ReverterInv, Undoing
<1> QED BY <1>3, <1>4, <1>5, <1>6, <1>7 DEF PlanInv

LEMMA FinishingKeepsPlan ==
    ASSUME JInv, NEW p \in Procs, FinishApply(p) \/ FinishRollback(p)
    PROVE  PlanInv'
<1>1. /\ Owner(p) /\ Running(p) /\ mem[p] = file /\ pc[p] = "finish" /\ file \in Doc
      /\ \A q \in Procs : Running(q) => q = p
  BY RunnerOwns, OwnerAlone DEF FinishApply, FinishRollback, Running, Owner, JInv
<1>2. UNCHANGED <<steps, landed, undone>> /\ \E at \in {"idle", "claim"} : pc' = [pc EXCEPT ![p] = at]
  BY DEF FinishApply, FinishRollback, Return, Goto, history
<1>3. PICK status \in Status \ {"planned"} :
        /\ file' = [file EXCEPT !.status = status]
        /\ status = "applied" => file.status = "applying" /\ ~Stopped(file)
  <2>1. CASE FinishApply(p)
    <3>1. file.status = "applying"
      BY <1>1, <2>1 DEF FinishApply, Applying, JInv, IInv, ClaimInv, IN_FLIGHT
    <3> QED BY <1>1, <2>1, <3>1 DEF FinishApply, Save, ApplyStatus, Status, ROLLBACKABLE, APPLYABLE
  <2>2. CASE FinishRollback(p)
    BY <1>1, <2>2 DEF FinishRollback, Save, Status, ROLLBACKABLE, APPLYABLE
  <2> QED BY <2>1, <2>2
<1>4. file'.status = status /\ file'.journal = file.journal
  BY <1>1, <1>3 DEF Doc
<1>5. /\ N' = N /\ Here' = Here /\ DonePositions(file)' = DonePositions(file)
      /\ Stopped(file)' = Stopped(file)
  BY <1>2, <1>4 DEF N, Here, DonePositions, Stopped
<1>6. JournalInv'
  <2>1. status = "applied" => Len(file.journal) = N /\ ~Stopped(file)
    BY <1>1, <1>3 DEF JInv, PlanInv, CallerInv, StepperInv
  <2> QED BY <1>2, <1>4, <1>5, <2>1 DEF JInv, PlanInv, JournalInv
<1>7. LandedInv'
  <2>1. \A q \in Procs : pc[q] # "record"
    BY <1>1 DEF Running
  <2> QED BY <1>2, <1>4, <1>5, <2>1 DEF JInv, PlanInv, LandedInv
<1>8. UndoneInv'
  BY <1>1, <1>2, <1>4, <1>5, NoneUndid DEF UndoneInv
<1>9. \A q \in Procs : CallerInv(q)'
  <2>1. PICK at \in {"idle", "claim"} : pc' = [pc EXCEPT ![p] = at]
    BY <1>2
  <2>2. pc'[p] = at /\ \A q \in Procs : q # p => CallerInv(q)'
    BY <1>1, <2>1, OthersStand DEF JInv
  <2>3. CallerInv(p)'
    BY <2>2 DEF Running, CallerInv, StepperInv, ReverterInv, Stepping, Undoing
  <2> QED BY <2>2, <2>3
<1> QED BY <1>6, <1>7, <1>8, <1>9 DEF PlanInv

-----------------------------------------------------------------------------

LEMMA PlanInit == Init => PlanInv
<1> SUFFICES ASSUME Init PROVE PlanInv
  OBVIOUS
<1>1. file = [status |-> "planned", journal |-> <<>>] /\ landed = {} /\ undone = [i \in 1..N |-> 0]
  BY DEF Init
<1>2. N \in Nat
  BY TypeInit, StepsTyped DEF TypeInv
<1>3. JournalInv
  BY <1>1, <1>2 DEF JournalInv
<1>4. LandedInv /\ UndoneInv
  BY <1>1 DEF LandedInv, UndoneInv
<1>5. \A p \in Procs : CallerInv(p)
  BY Bystander DEF Init, Owner, Running
<1> QED BY <1>3, <1>4, <1>5 DEF PlanInv

LEMMA PlanStep == ASSUME WritesOnly, JInv, [Next]_vars PROVE JInv'
<1>1. IInv'
  BY ClaimStep DEF JInv
<1>2. ASSUME NEW p \in Procs, PruneUnlinks(p) \/ CheckSaves(p) PROVE FALSE
  BY <1>2 DEF PruneUnlinks, CheckSaves, JInv, IInv, ClaimInv
<1>3. ASSUME NEW p \in Procs, Calls(p) \/ Proceed(p) PROVE PlanInv'
  BY <1>2, <1>3, CallsKeepPlan, ClaimingKeepsPlan, ApplyClaimKeepsPlan, RollbackClaimKeepsPlan,
     SteppingKeepsPlan, RecordStepKeepsPlan, RevertingKeepsPlan, RecordRevertKeepsPlan,
     LinkKeepsPlan, FinishingKeepsPlan
  DEF Proceed
<1>4. ASSUME UNCHANGED vars PROVE PlanInv'
  BY <1>4, PlanKept DEF vars, Same
<1>5. PlanInv'
  BY <1>3, <1>4, EnvironmentKeepsPlan DEF Next
<1> QED BY <1>1, <1>5 DEF JInv

LEMMA JInvAlways == ASSUME WritesOnly PROVE Spec => []JInv
<1>1. Init => JInv
  BY TypeInit, ClaimInit, PlanInit DEF JInv, IInv
<1>2. JInv /\ [Next]_vars => JInv'
  BY PlanStep
<1> QED BY <1>1, <1>2, PTL DEF Spec

-----------------------------------------------------------------------------
(* The theorems.                                                           *)

LEMMA JournalIsAccount == JInv => JournalAccounts
<1> SUFFICES ASSUME JInv PROVE JournalAccounts
  OBVIOUS
<1>1. DonePositions(file) \subseteq landed
  BY DEF DonePositions, JInv, PlanInv, JournalInv
<1>2. ASSUME NEW i \in landed \ DonePositions(file)
      PROVE  /\ i >= Len(file.journal)
             /\ \/ \E p \in Procs : pc[p] = "record" /\ Position(p) = i
                \/ Faults \cap {"lost", "crash", "store"} # {}
  <2>1. \A p \in Procs : pc[p] = "record" => Position(p) = Here
    BY StepperStands DEF Stepping
  <2> QED BY <1>2, <2>1 DEF JInv, PlanInv, LandedInv
<1> QED BY <1>1, <1>2 DEF JournalAccounts

\* The journal of a plan of any length accounts for every write that took
\* effect, whoever dies, fails to save or loses a response when: at most the
\* last step the journal got to is left out, never an earlier one.
THEOREM JournalAccountsAlways == ASSUME WritesOnly PROVE Spec => []JournalAccounts
  BY JournalIsAccount, JInvAlways, PTL

\* A plan reported "applied" has every step written, or skipped as a noop.
THEOREM AppliedIsCompleteAlways == ASSUME WritesOnly PROVE Spec => []AppliedIsComplete
<1>1. JInv => AppliedIsComplete
  <2> SUFFICES ASSUME JInv, file.status = "applied", NEW i \in 1..N, steps[i].action # "noop"
               PROVE  i \in DonePositions(file) \cap landed
    BY DEF AppliedIsComplete
  <2>1. Len(file.journal) = N /\ ~Stopped(file) /\ N \in Nat
    BY FileTyped DEF JInv, PlanInv, JournalInv
  <2>2. file.journal[i].status # "skipped"
    BY <2>1 DEF JInv, PlanInv, JournalInv
  <2>3. file.journal[i].status = "done"
    <3>1. CASE i < N
      BY <2>1, <2>2, <3>1 DEF JInv, PlanInv, JournalInv
    <3>2. CASE i = N
      <4>1. file.journal # <<>> /\ file.journal[N] \in Entry
        BY <2>1, <3>2, FileTyped, EmptySeq DEF JInv
      <4> QED BY <2>1, <2>2, <3>2, <4>1 DEF Stopped, Entry
    <3> QED BY <2>1, <3>1, <3>2
  <2> QED BY <2>1, <2>3 DEF DonePositions, JInv, PlanInv, JournalInv
<1> QED BY <1>1, JInvAlways, PTL

\* An inverse takes effect at most once, across any number of rollbacks,
\* conflicts and crashes, and only for a step that took effect.  With lost
\* responses the first half is false: the inverse that was applied but not
\* answered is journaled as failed and the next rollback sends it again.
THEOREM InverseAtMostOnceAlways ==
    ASSUME WritesOnly, "lost" \notin Faults PROVE Spec => []InverseAtMostOnce
<1>1. JInv => InverseAtMostOnce
  <2> SUFFICES ASSUME JInv, NEW i \in 1..N
               PROVE  undone[i] <= 1 /\ (undone[i] = 1 => i \in landed)
    BY DEF InverseAtMostOnce
  <2>1. undone[i] \in Nat
    BY DEF JInv, IInv, TypeInv, TypeOK
  <2>2. undone[i] >= 1 => undone[i] = 1 /\ i \in DonePositions(file)
    BY DEF JInv, PlanInv, UndoneInv
  <2>3. DonePositions(file) \subseteq landed
    BY DEF DonePositions, JInv, PlanInv, JournalInv
  <2> QED BY <2>1, <2>2, <2>3
<1> QED BY <1>1, JInvAlways, PTL

\* Only the caller in the rollback loop writes an inverse, and of the newest
\* entry it has left.
LEMMA InverseOfNewest ==
    ASSUME JInv, [Next]_vars, NEW i \in 1..N, undone'[i] > undone[i]
    PROVE  \E p \in Procs : pc[p] \in Undoing /\ i \in Newest(todo[p])
<1>0. undone \in [1..N -> Nat]
  BY DEF JInv, IInv, TypeInv, TypeOK
<1>1. undone' # undone
  <2>1. undone[i] \in Nat
    BY <1>0
  <2> QED BY <2>1
<1>2. ASSUME NEW p \in Procs, Calls(p) \/ Proceed(p) PROVE UndoWrites(p)
  BY <1>1, <1>2
  DEF Calls, Proceed, CallTurnedAway, CallAdmitted, PruneReads, Arrive, PruneUnlinks, CheckSaves,
      TakeStoreLock, ClaimRefused, ClaimReads, ApplyClaimSaves, RollbackClaimSaves, CheckStep,
      StepWrites, StepRejected, RecordStep, LoopUnchanged, ReadBack, UndoRejected, RecordRevert, Link,
      FinishApply, FinishRollback, history
<1>3. ~Environment /\ ~UNCHANGED vars
  BY <1>1 DEF Environment, Crash, StoreRaises, Drops, ForeignEdit, ForeignDelete, ForeignCreate, ForeignWrite, PlanAges,
              RetentionPasses, history, vars
<1>4. PICK p \in Procs : UndoWrites(p)
  BY <1>2, <1>3 DEF Next
<1>5. PICK k \in Newest(todo[p]) : AboutToUndo(p, k) /\ undone' = [undone EXCEPT ![k] = @ + 1]
  BY <1>4 DEF UndoWrites
<1>6. i = k
  <2>1. undone[i] \in Nat /\ (i # k => undone'[i] = undone[i])
    BY <1>0, <1>5
  <2> QED BY <2>1
<1> QED BY <1>5, <1>6 DEF AboutToUndo, Undoing

\* The last-in-first-out order of rollback, for plans of any length and
\* however often the rollback is taken up again.
THEOREM NewestFirstAlways == ASSUME WritesOnly PROVE Spec => NewestFirst
<1> DEFINE InOrder == \A i \in 1..N : undone'[i] > undone[i] =>
                         \A j \in DonePositions(file) : j > i => file.journal[j].revert # "none"
<1>1. JInv /\ [Next]_vars => InOrder
  <2> SUFFICES ASSUME JInv, [Next]_vars, NEW i \in 1..N, undone'[i] > undone[i],
                      NEW j \in DonePositions(file), j > i
               PROVE  file.journal[j].revert # "none"
    OBVIOUS
  <2>1. PICK p \in Procs : pc[p] \in Undoing /\ i \in Newest(todo[p])
    BY InverseOfNewest
  <2>2. j \in Nat /\ i \in Nat /\ j \notin todo[p]
    BY <2>1 DEF Newest, DonePositions
  <2> QED BY <2>1, <2>2 DEF JInv, PlanInv, CallerInv, ReverterInv
<1> QED BY <1>1, JInvAlways, PTL DEF Spec, NewestFirst

-----------------------------------------------------------------------------
(* The plan file implements PlanLifecycle.                                 *)

Reverted == {i \in DonePositions(file) : file.journal[i].revert = "reverted"}

LEMMA PlanUnmoved ==
    ASSUME UNCHANGED <<steps, file>>
    PROVE  UNCHANGED Lifecycle!lifecycle
  BY DEF Lifecycle!lifecycle, DonePositions, N

LEMMA StartsApply ==
    ASSUME JInv, NEW p \in Procs, ApplyClaimSaves(p)
    PROVE  Lifecycle!StartApply
<1>1. file.status = "planned" /\ file.journal = <<>>
  BY OwnerAlone DEF ApplyClaimSaves, Applying, Owner, JInv, IInv, ClaimInv, IN_FLIGHT, PlanInv, JournalInv
<1>2. file' = [status |-> "applying", journal |-> <<>>] /\ steps' = steps
  BY DEF ApplyClaimSaves, Save
<1>3. file'.status = "applying" /\ file'.journal = file.journal
  BY <1>1, <1>2
<1> QED BY <1>1, <1>2, <1>3 DEF Lifecycle!StartApply, DonePositions, N

LEMMA StartsRollback ==
    ASSUME JInv, NEW p \in Procs, RollbackClaimSaves(p)
    PROVE  Lifecycle!StartRollback
<1>1. mem[p] = file /\ file \in Doc /\ file.status \in ROLLBACKABLE
  BY OwnerAlone, FileTyped, NoPlanNoDoc
  DEF RollbackClaimSaves, Owner, Applying, APPLYABLE, JInv, PlanInv, CallerInv, StepperInv
<1>2. file' = [file EXCEPT !.status = "rolling_back"] /\ steps' = steps
  BY <1>1 DEF RollbackClaimSaves, Save
<1>3. file'.status = "rolling_back" /\ file'.journal = file.journal
  BY <1>1, <1>2 DEF Doc
<1> QED BY <1>1, <1>2, <1>3
    DEF Lifecycle!StartRollback, Lifecycle!Rollbackable, ROLLBACKABLE, DonePositions, N

LEMMA JournalsStep ==
    ASSUME JInv, NEW p \in Procs, RecordStep(p)
    PROVE  Lifecycle!Journal
<1>1. /\ mem[p] = file /\ Here \in 1..N /\ file.status = "applying" /\ pc[p] = "record"
      /\ file \in Doc /\ file.journal \in Seq(Entry) /\ Len(file.journal) \in Nat
      /\ N \in Nat /\ entry[p] \in Entry /\ entry[p].revert = "none"
  BY StepperStands, FileTyped
  DEF RecordStep, Stepping, JInv, IInv, TypeInv, TypeOK, PlanInv, CallerInv, StepperInv
<1>2. file' = [file EXCEPT !.journal = Append(file.journal, entry[p])] /\ steps' = steps
  BY <1>1 DEF RecordStep, Save
<1>3. /\ file'.status = "applying" /\ file'.journal = Append(file.journal, entry[p])
      /\ Len(file'.journal) = Len(file.journal) + 1 /\ N' = N
      /\ \A i \in 1..Len(file.journal) : file'.journal[i] = file.journal[i]
      /\ file'.journal[Here] = entry[p]
  BY <1>1, <1>2 DEF Doc, Here, N
<1>4. \A i : i \in DonePositions(file)' <=>
              i \in DonePositions(file) \/ (i = Here /\ entry[p].status = "done")
  BY <1>1, <1>3 DEF DonePositions, Here
<1>5. DonePositions(file)' \in {DonePositions(file), DonePositions(file) \cup {Here}}
  BY <1>4
<1>6. \A i : i \in DonePositions(file) => i \in 1..Len(file.journal)
  BY DEF DonePositions
<1>7. Reverted' = Reverted
  BY <1>1, <1>3, <1>4, <1>6 DEF Reverted
<1>8. Len(file.journal) < N
  BY <1>1 DEF Here
<1> QED BY <1>1, <1>3, <1>5, <1>7, <1>8 DEF Lifecycle!Journal, Reverted, Here

LEMMA RevertsOne ==
    ASSUME JInv, NEW p \in Procs, RecordRevert(p)
    PROVE  Lifecycle!Revert \/ UNCHANGED Lifecycle!lifecycle
<1>1. PICK i \in Newest(todo[p]) :
        /\ i \in Pending(file) /\ Revises(entry[p], file.journal[i]) /\ file.journal[i] \in Entry
        /\ file'.status = "rolling_back" /\ Len(file'.journal) = Len(file.journal)
        /\ \A j \in 1..Len(file.journal) :
              file'.journal[j] = IF j = i THEN entry[p] ELSE file.journal[j]
  BY RecordRevertSaves
<1>2. file.status = "rolling_back" /\ N' = N
  BY ReverterStands DEF RecordRevert, Undoing, N
<1>3. entry[p].status = "done" /\ i \in DonePositions(file) /\ i \notin Reverted
  BY <1>1, RevisedKeeps DEF Pending, DonePositions, Reverted
<1>4. \A j \in 1..Len(file.journal) : file'.journal[j].status = file.journal[j].status
  BY <1>1, <1>3 DEF DonePositions
<1>5. DonePositions(file)' = DonePositions(file) /\ DonePositions(file) \subseteq 1..Len(file.journal)
  BY <1>1, <1>4 DEF DonePositions
<1>6. \A j : j \in Reverted' <=>
         j \in DonePositions(file) /\ (IF j = i THEN entry[p] ELSE file.journal[j]).revert = "reverted"
  BY <1>1, <1>5 DEF Reverted
<1>7. Reverted' = IF entry[p].revert = "reverted" THEN Reverted \cup {i} ELSE Reverted
  BY <1>3, <1>6 DEF Reverted
<1>8. CASE entry[p].revert = "reverted"
  BY <1>1, <1>2, <1>3, <1>5, <1>7, <1>8 DEF Lifecycle!Revert, Reverted
<1>9. CASE entry[p].revert # "reverted"
  BY <1>1, <1>2, <1>5, <1>7, <1>9 DEF Lifecycle!lifecycle, Reverted
<1> QED BY <1>8, <1>9

LEMMA FinishesApply ==
    ASSUME JInv, NEW p \in Procs, FinishApply(p)
    PROVE  Lifecycle!FinishApply
<1>1. mem[p] = file /\ file \in Doc /\ file.status = "applying" /\ pc[p] = "finish"
  BY RunnerOwns DEF FinishApply, Running, Applying, JInv, IInv, ClaimInv, IN_FLIGHT
<1>2. file' = [file EXCEPT !.status = ApplyStatus(file)] /\ steps' = steps
  BY <1>1 DEF FinishApply, Save
<1>3. file'.status = ApplyStatus(file) /\ file'.journal = file.journal
  BY <1>1, <1>2 DEF Doc
<1>4. Stopped(file) \/ Len(file.journal) = N
  BY <1>1 DEF JInv, PlanInv, CallerInv, StepperInv
<1> QED BY <1>1, <1>2, <1>3, <1>4 DEF Lifecycle!FinishApply, ApplyStatus, DonePositions, N

LEMMA FinishesRollback ==
    ASSUME JInv, NEW p \in Procs, FinishRollback(p)
    PROVE  Lifecycle!FinishRollback
<1>1. /\ mem[p] = file /\ file \in Doc /\ pc[p] = "finish" /\ Running(p)
      /\ file.status = "rolling_back"
  BY RunnerOwns, NoPlanNoDoc DEF FinishRollback, Running, Applying, JInv, IInv, ClaimInv, IN_FLIGHT
<1>2. todo[p] = {}
  BY <1>1 DEF JInv, IInv, TypeInv, LocalInv, Undoing
<1>3. missed[p] <=> Pending(file) # {}
  <2>1. missed[p] <=> Pending(file) \ todo[p] # {}
    BY <1>1 DEF JInv, PlanInv, CallerInv, ReverterInv
  <2> QED BY <1>2, <2>1
<1>4. Pending(file) = {} <=> DonePositions(file) = Reverted
  BY DEF Pending, Reverted
<1>5. /\ file' = [file EXCEPT !.status = IF missed[p] THEN "partially_rolled_back" ELSE "rolled_back"]
      /\ steps' = steps
  BY <1>1 DEF FinishRollback, Save
<1>6. file'.status = (IF DonePositions(file) = Reverted THEN "rolled_back" ELSE "partially_rolled_back")
      /\ file'.journal = file.journal
  BY <1>1, <1>3, <1>4, <1>5 DEF Doc
<1> QED BY <1>1, <1>5, <1>6 DEF Lifecycle!FinishRollback, Reverted, DonePositions, N

\* A step that does not save leaves the plan where it was.
LEMMA OthersDoNotSave ==
    ASSUME JInv, WritesOnly, NEW p \in Procs,
           Calls(p) \/ TakeStoreLock(p) \/ ClaimRefused(p) \/ ClaimReads(p)
           \/ CheckStep(p) \/ StepWrites(p) \/ StepRejected(p)
           \/ ReadBack(p) \/ UndoWrites(p) \/ UndoRejected(p) \/ Link(p)
    PROVE  UNCHANGED <<steps, file>>
<1>1. CASE Link(p)
  BY <1>1, RunnerOwns DEF Link, Running, Save, JInv
<1> QED BY <1>1
    DEF Calls, CallTurnedAway, CallAdmitted, PruneReads, Arrive, TakeStoreLock, ClaimRefused, ClaimReads,
        CheckStep, StepWrites, StepRejected, LoopUnchanged, ReadBack, UndoWrites, UndoRejected,
        UndoUnchanged, plan

\* Each save of the detailed protocol is a step of PlanLifecycle or changes
\* nothing it sees.
LEMMA LifecycleStep ==
    ASSUME JInv, WritesOnly, [Next]_vars
    PROVE  [Lifecycle!Next]_(Lifecycle!lifecycle)
<1>1. ASSUME NEW p \in Procs, Calls(p) \/ Proceed(p)
      PROVE  Lifecycle!Next \/ UNCHANGED Lifecycle!lifecycle
  <2>1. ~PruneUnlinks(p) /\ ~CheckSaves(p)
    BY DEF PruneUnlinks, CheckSaves, JInv, IInv, ClaimInv
  <2>2. CASE ApplyClaimSaves(p) \/ RollbackClaimSaves(p)
    BY <2>2, StartsApply, StartsRollback DEF Lifecycle!Next
  <2>3. CASE RecordStep(p) \/ RecordRevert(p)
    BY <2>3, JournalsStep, RevertsOne DEF Lifecycle!Next
  <2>4. CASE FinishApply(p) \/ FinishRollback(p)
    BY <2>4, FinishesApply, FinishesRollback DEF Lifecycle!Next
  <2> QED BY <1>1, <2>1, <2>2, <2>3, <2>4, OthersDoNotSave, PlanUnmoved DEF Proceed
<1>2. CASE Environment \/ UNCHANGED vars
  <2>1. UNCHANGED <<steps, file>>
    BY <1>2 DEF Environment, Crash, StoreRaises, Drops, ForeignEdit, ForeignDelete, ForeignCreate, ForeignWrite, PlanAges,
                RetentionPasses, plan, vars
  <2> QED BY <2>1, PlanUnmoved
<1> QED BY <1>1, <1>2 DEF Next

\* The status, the journal and the reverts in the plan file move only as
\* docs/architecture.md has them move: each save of the detailed protocol is
\* a step of PlanLifecycle or changes nothing it sees.
THEOREM ImplementsLifecycleAlways == ASSUME WritesOnly PROVE Spec => ImplementsLifecycle
<1>1. Init => Lifecycle!Init
  <2> SUFFICES ASSUME Init PROVE Lifecycle!Init
    OBVIOUS
  <2>1. file.status = "planned" /\ file.journal = <<>> /\ Len(file.journal) = 0
    BY DEF Init
  <2>2. DonePositions(file) = {} /\ N \in Nat
    BY <2>1, TypeInit, StepsTyped DEF DonePositions, TypeInv
  <2> QED BY <2>1, <2>2 DEF Lifecycle!Init
<1>2. JInv /\ [Next]_vars => [Lifecycle!Next]_(Lifecycle!lifecycle)
  BY LifecycleStep
<1> QED BY <1>1, <1>2, JInvAlways, PTL DEF Spec, ImplementsLifecycle, Lifecycle!Spec

-----------------------------------------------------------------------------
(***************************************************************************)
(* 3. What Executor does to the objects of NetBox.                         *)
(*                                                                         *)
(* Again every call is an apply or a rollback.  The first theorem is about *)
(* objects other people write to, and every object has a last_updated stamp *)
(* there (Stampless = {}): one without cannot be compared, and the code then *)
(* writes blind.  The other two are about a NetBox nobody else writes to,  *)
(* where the plan alone decides what becomes of an object: the same NetBox *)
(* once while a plan is applied (ApplyInv) and once until it is rolled back *)
(* (RInv).                                                                 *)
(***************************************************************************)

\* An object that does not exist yet has no stamp; one that was there at
\* planning time and still has its stamp has not been written to.
WorldInv ==
    \A i \in Ids :
        /\ world[i].ver = 0 => ~world[i].live
        /\ i \in Existing => world[i].ver >= 1 /\ (world[i].ver = 1 => world[i].val = "orig")

\* As long as the object has this stamp, nobody else wrote it last.
Ours(i, stamp) ==
    /\ i \in Ids /\ stamp >= 1 /\ world[i].ver >= stamp
    /\ world[i].ver = stamp => world[i].val # "foreign"

Gone(i) == i \in Ids /\ world[i].ver >= 1 /\ ~world[i].live

\* What a done entry of step n says of the object.
EntryInv(n, e) ==
    e.status = "done" => IF steps[n].action = "delete" THEN Gone(e.obj) ELSE Ours(e.obj, e.after)

\* What a caller about to write has seen.
SeenInv(p) ==
    /\ pc[p] = "record" => EntryInv(Position(p), entry[p])
    /\ pc[p] = "write" /\ steps[Position(p)].action # "create" =>
          Ours(steps[Position(p)].obj, seen[p])
    /\ pc[p] = "unwrite" /\ ~Forced(p) =>
          \A i \in Newest(todo[p]) : Ours(mem[p].journal[i].obj, seen[p])
    /\ pc[p] = "repost" => \A i \in Newest(todo[p]) : steps[i].action = "delete"

StampInv ==
    /\ WorldInv
    /\ \A i \in DonePositions(file) : EntryInv(i, file.journal[i])
    /\ \A p \in Procs : SeenInv(p)
    /\ \A c \in clobbered : c[2] = "raced"

SInv == JInv /\ StampInv

-----------------------------------------------------------------------------
(* NetBox only moves on: stamps grow, what is deleted stays deleted, and an *)
(* object that keeps its stamp keeps its value.                            *)

Grows(now) ==
    \A i \in Ids :
        /\ now[i].ver >= world[i].ver
        /\ now[i].ver = world[i].ver => now[i].val = world[i].val
        /\ world[i].ver >= 1 /\ ~world[i].live => ~now[i].live
        /\ now[i].ver = 0 => ~now[i].live \/ world[i].live

LEMMA ObjectTyped ==
    ASSUME world \in [Ids -> Object], NEW i \in Ids
    PROVE  /\ world[i].ver \in Nat /\ world[i].live \in BOOLEAN
           /\ \A b \in BOOLEAN : /\ [world[i] EXCEPT !.live = b].ver = world[i].ver
                                 /\ [world[i] EXCEPT !.live = b].val = world[i].val
                                 /\ [world[i] EXCEPT !.live = b].live = b
  BY DEF Object

LEMMA PostedGrows ==
    ASSUME world \in [Ids -> Object], NEW val, NEW key, NEW e \in Posted(val, key)
    PROVE  /\ Grows(e.now) /\ e.at \in Ids
           /\ e.now[e.at].ver = 1 /\ e.now[e.at].val = val
<1> DEFINE o == [live |-> TRUE, val |-> val, ver |-> 1, key |-> key]
<1>1. PICK j \in NextId : e = [at |-> j, now |-> [world EXCEPT ![j] = o]]
  BY DEF Posted
<1>2. j \in Ids /\ world[j].ver = 0
  BY <1>1 DEF NextId, Unused
<1>3. e.at = j /\ e.now[j] = o /\ \A i \in Ids : i # j => e.now[i] = world[i]
  BY <1>1, <1>2
<1>4. \A i \in Ids : world[i].ver \in Nat
  BY ObjectTyped
<1> QED BY <1>2, <1>3, <1>4 DEF Grows

LEMMA PatchedGrows ==
    ASSUME world \in [Ids -> Object], NEW k, NEW val, NEW e \in Patched(k, val)
    PROVE  /\ Grows(e.now) /\ e.at \in Ids /\ e.at = k
           /\ e.now[e.at].ver >= 1 /\ e.now[e.at].val = val
<1> DEFINE o(j) == [live |-> TRUE, val |-> val, ver |-> world[j].ver + 1, key |-> world[j].key]
<1>1. PICK j \in {k} \cap Live : e = [at |-> j, now |-> [world EXCEPT ![j] = o(j)]]
  BY DEF Patched
<1>2. j \in Ids /\ world[j].live /\ j = k
  BY <1>1 DEF Live
<1>3. e.at = j /\ e.now[j] = o(j) /\ \A i \in Ids : i # j => e.now[i] = world[i]
  BY <1>1, <1>2
<1>4. \A i \in Ids : world[i].ver \in Nat
  BY ObjectTyped
<1> QED BY <1>2, <1>3, <1>4 DEF Grows

LEMMA DeletedGrows ==
    ASSUME world \in [Ids -> Object], NEW k, NEW e \in Deleted(k)
    PROVE  /\ Grows(e.now) /\ e.at \in Ids /\ e.at = k /\ world[k].live
           /\ ~e.now[k].live /\ e.now[k].ver = world[k].ver
<1>1. PICK j \in {k} \cap Live :
        e = [at |-> j, now |-> [i \in Ids |-> IF i = j \/ Parent[i] = j
                                              THEN [world[i] EXCEPT !.live = FALSE] ELSE world[i]]]
  BY DEF Deleted
<1>2. j \in Ids /\ world[j].live /\ j = k
  BY <1>1 DEF Live
<1>3. \A i \in Ids : /\ e.now[i].ver = world[i].ver /\ e.now[i].val = world[i].val
                     /\ e.now[i].live => world[i].live
                     /\ i = j => ~e.now[i].live
  BY <1>1, ObjectTyped
<1>4. \A i \in Ids : world[i].ver \in Nat
  BY ObjectTyped
<1>5. Grows(e.now)
  BY <1>3, <1>4 DEF Grows
<1>6. e.at = j
  BY <1>1
<1> QED BY <1>2, <1>3, <1>5, <1>6

LEMMA UndoEffectsGrow ==
    ASSUME world \in [Ids -> Object], NEW p, NEW i, NEW e \in UndoEffects(p, i)
    PROVE  Grows(e.now)
<1>1. CASE steps[i].action = "create"
  BY <1>1, DeletedGrows DEF UndoEffects
<1>2. CASE steps[i].action = "update"
  BY <1>2, PatchedGrows DEF UndoEffects
<1>3. CASE steps[i].action \notin {"create", "update"}
  BY <1>3, PostedGrows DEF UndoEffects
<1> QED BY <1>1, <1>2, <1>3

LEMMA EffectsGrow ==
    ASSUME world \in [Ids -> Object], NEW s, NEW e \in Effects(s)
    PROVE  Grows(e.now)
<1>1. CASE s.action = "create"
  BY <1>1, PostedGrows DEF Effects
<1>2. CASE s.action = "update"
  BY <1>2, PatchedGrows DEF Effects
<1>3. CASE s.action \notin {"create", "update"}
  BY <1>3, DeletedGrows DEF Effects
<1> QED BY <1>1, <1>2, <1>3

\* Whoever writes to NetBox, and whether the response arrives or not.
LEMMA WorldGrows == ASSUME TypeInv, [Next]_vars PROVE Grows(world')
<1>0. world \in [Ids -> Object] /\ \A i \in Ids : world[i].ver \in Nat
  BY ObjectTyped DEF TypeInv, TypeOK
<1>1. ASSUME UNCHANGED world PROVE Grows(world')
  BY <1>0, <1>1 DEF Grows
<1>2. ASSUME NEW p \in Procs, Calls(p) \/ Proceed(p) PROVE Grows(world')
  <2>1. CASE StepWrites(p)
    BY <1>0, <2>1, EffectsGrow DEF StepWrites
  <2>2. CASE UndoWrites(p)
    BY <1>0, <2>2, UndoEffectsGrow DEF UndoWrites
  <2>3. CASE ~StepWrites(p) /\ ~UndoWrites(p)
    <3>1. UNCHANGED world
      BY <1>2, <2>3
      DEF Calls, Proceed, CallTurnedAway, CallAdmitted, PruneReads, Arrive, PruneUnlinks, CheckSaves,
          TakeStoreLock, ClaimRefused, ClaimReads, ApplyClaimSaves, RollbackClaimSaves, CheckStep,
          StepRejected, RecordStep, ReadBack, UndoRejected, RecordRevert, Link, FinishApply, FinishRollback
    <3> QED BY <1>1, <3>1
  <2> QED BY <2>1, <2>2, <2>3
<1>3. CASE Environment
  <2>1. CASE ForeignEdit \/ ForeignDelete \/ ForeignCreate
    BY <1>0, <2>1, PatchedGrows, DeletedGrows, PostedGrows
    DEF ForeignEdit, ForeignDelete, ForeignCreate, ForeignWrite
  <2>2. CASE ~(ForeignEdit \/ ForeignDelete \/ ForeignCreate)
    BY <1>1, <1>3, <2>2 DEF Environment, Crash, StoreRaises, Drops, PlanAges, RetentionPasses
  <2> QED BY <2>1, <2>2
<1> QED BY <1>1, <1>2, <1>3 DEF Next, vars

\* So what is known of an object stays true.
LEMMA KnownStays ==
    ASSUME TypeInv, TypeInv', Grows(world'), steps' = steps
    PROVE  /\ WorldInv => WorldInv'
           /\ \A i, stamp : stamp \in Nat /\ Ours(i, stamp) => Ours(i, stamp)'
           /\ \A i : Gone(i) => Gone(i)'
           /\ \A n, e : e \in Entry /\ EntryInv(n, e) => EntryInv(n, e)'
<1>0. \A i \in Ids : world[i].ver \in Nat /\ world'[i].ver \in Nat
  BY DEF TypeInv, TypeOK, Object
<1>1. WorldInv => WorldInv'
  BY <1>0 DEF Grows, WorldInv
<1>2. \A i, stamp : stamp \in Nat /\ Ours(i, stamp) => Ours(i, stamp)'
  BY <1>0 DEF Grows, Ours
<1>3. \A i : Gone(i) => Gone(i)'
  BY <1>0 DEF Grows, Gone
<1>4. \A n, e : e \in Entry /\ EntryInv(n, e) => EntryInv(n, e)'
  <2>1. \A e \in Entry : e.after \in Nat
    BY DEF Entry
  <2> QED BY <1>2, <1>3, <2>1 DEF EntryInv
<1> QED BY <1>1, <1>2, <1>3, <1>4

-----------------------------------------------------------------------------
(* What the callers and the journal know.                                  *)

LEMMA StepsKept == ASSUME [Next]_vars PROVE steps' = steps
<1>1. ASSUME NEW p \in Procs, Calls(p) \/ Proceed(p) PROVE steps' = steps
  BY <1>1
  DEF Calls, Proceed, CallTurnedAway, CallAdmitted, PruneReads, Arrive, PruneUnlinks, CheckSaves,
      TakeStoreLock, ClaimRefused, ClaimReads, ApplyClaimSaves, RollbackClaimSaves, CheckStep,
      StepWrites, StepRejected, RecordStep, LoopUnchanged, ReadBack, UndoWrites, UndoRejected,
      UndoUnchanged, RecordRevert, Link, FinishApply, FinishRollback, plan
<1>2. ASSUME Environment PROVE steps' = steps
  BY <1>2 DEF Environment, Crash, StoreRaises, Drops, ForeignEdit, ForeignDelete, ForeignCreate, ForeignWrite, PlanAges,
              RetentionPasses, plan
<1> QED BY <1>1, <1>2 DEF Next, vars

\* A caller that does nothing, or gets to a line where it need know nothing.
Idles(q) ==
    /\ pc'[q] = pc[q] /\ entry'[q] = entry[q] /\ seen'[q] = seen[q]
    /\ mem'[q] = mem[q] /\ todo'[q] = todo[q] /\ req'[q] = req[q]
Forgets(q) == pc'[q] \notin {"record", "write", "unwrite", "repost"}

LEMMA SeenStays ==
    ASSUME SInv, TypeInv', Grows(world'), steps' = steps,
           NEW q \in Procs, Idles(q) \/ Forgets(q)
    PROVE  SeenInv(q)'
<1>1. CASE Forgets(q)
  BY <1>1 DEF Forgets, SeenInv
<1>2. CASE Idles(q)
  <2>1. SeenInv(q) /\ TypeInv /\ seen[q] \in Nat /\ entry[q] \in Entry
    BY DEF SInv, StampInv, JInv, IInv, TypeInv, TypeOK
  <2>2. /\ pc'[q] = pc[q] /\ entry'[q] = entry[q] /\ seen'[q] = seen[q]
        /\ Position(q)' = Position(q) /\ Newest(todo[q])' = Newest(todo[q])
        /\ mem'[q] = mem[q] /\ (Forced(q)' <=> Forced(q))
    BY <1>2 DEF Idles, Position, Newest, Forced
  <2>3. pc'[q] = "record" => EntryInv(Position(q), entry[q])'
    BY <2>1, <2>2, KnownStays DEF SeenInv
  <2>4. /\ pc'[q] = "write" /\ steps[Position(q)].action # "create" =>
              Ours(steps[Position(q)].obj, seen[q])'
        /\ pc'[q] = "unwrite" /\ ~Forced(q)' =>
              \A i \in Newest(todo[q]) : Ours(mem[q].journal[i].obj, seen[q])'
        /\ pc'[q] = "repost" => \A i \in Newest(todo[q])' : steps'[i].action = "delete"
    BY <2>1, <2>2, KnownStays DEF SeenInv
  <2> QED BY <2>2, <2>3, <2>4 DEF SeenInv
<1> QED BY <1>1, <1>2

\* Only five actions bring a caller to a line where it has to know something.
LEMMA WhoLearns ==
    ASSUME JInv, WritesOnly, NEW p \in Procs, Calls(p) \/ Proceed(p)
    PROVE  /\ \A q \in Procs : q # p => Idles(q)
           /\ \/ CheckStep(p) \/ StepWrites(p) \/ StepRejected(p) \/ ReadBack(p) \/ UndoRejected(p)
              \/ Forgets(p)
<1>1. CASE Calls(p)
  BY ZenonT(30), <1>1 DEF Calls, CallTurnedAway, CallAdmitted, PruneReads, Arrive, Return, Goto, WritesOnly,
              Idles, Forgets, JInv, IInv, TypeInv, TypeOK
<1>2. CASE TakeStoreLock(p) \/ ClaimRefused(p) \/ ClaimReads(p)
  BY <1>2 DEF TakeStoreLock, ClaimRefused, ClaimReads, Return, Goto, asked, work,
              Idles, Forgets, JInv, IInv, TypeInv, TypeOK
<1>3. CASE ApplyClaimSaves(p) \/ RollbackClaimSaves(p)
  BY <1>3 DEF ApplyClaimSaves, RollbackClaimSaves, AfterStep, AfterRevert, Goto, asked,
              Idles, Forgets, JInv, IInv, TypeInv, TypeOK
<1>4. CASE CheckStep(p) \/ StepWrites(p) \/ StepRejected(p)
  BY <1>4 DEF CheckStep, StepWrites, StepRejected, Prepare, LoopUnchanged, Goto, asked,
              Idles, JInv, IInv, TypeInv, TypeOK
<1>5. CASE ReadBack(p)
  BY <1>5 DEF ReadBack, Prepare, UndoUnchanged, Goto, asked, Idles, JInv, IInv, TypeInv, TypeOK
<1>6. CASE UndoWrites(p) \/ UndoRejected(p)
  BY <1>6 DEF UndoWrites, UndoRejected, Prepare, UndoUnchanged, Goto, asked,
              Idles, Forgets, JInv, IInv, TypeInv, TypeOK
<1>7. CASE RecordStep(p) \/ RecordRevert(p) \/ Link(p)
  BY ZenonT(30), <1>7 DEF RecordStep, RecordRevert, Link, AfterStep, AfterRevert, Goto, asked, work,
              Idles, Forgets, JInv, IInv, TypeInv, TypeOK
<1>8. CASE FinishApply(p) \/ FinishRollback(p)
  BY <1>8 DEF FinishApply, FinishRollback, Return, Goto, Idles, Forgets, asked, JInv, IInv, TypeInv,
              TypeOK
<1>9. ~PruneUnlinks(p) /\ ~CheckSaves(p)
  BY DEF PruneUnlinks, CheckSaves, JInv, IInv, ClaimInv
<1> QED BY <1>1, <1>2, <1>3, <1>4, <1>5, <1>6, <1>7, <1>8, <1>9 DEF Proceed

LEMMA CheckLearns ==
    ASSUME SInv, Stampless = {}, NEW p \in Procs, CheckStep(p)
    PROVE  SeenInv(p)'
<1> DEFINE s == steps[Position(p)]
<1>1. /\ pc[p] = "step" /\ s \in Step /\ WellFormed(s)
      /\ entry \in [Procs -> Entry] /\ seen \in [Procs -> Nat]
      /\ \A i \in Ids : world[i].ver \in Nat
  BY StepTyped, ObjectTyped DEF CheckStep, SInv, JInv, IInv, TypeInv, TypeOK
<1>2. UNCHANGED <<steps, mem, world>> /\ Position(p)' = Position(p)
  BY DEF CheckStep, LoopUnchanged, plan, Position
<1>3. \/ /\ pc'[p] = "record"
         /\ \E status \in {"skipped", "conflict"} : entry'[p] = NewEntry(status, s.obj, 0)
      \/ /\ pc'[p] = "write" /\ s.action # "noop" /\ ~Conflict(s)
         /\ seen'[p] = IF s.obj = NoId THEN 0 ELSE Stamp(s.obj)
  BY <1>1 DEF CheckStep, Prepare, Goto, SInv, JInv, IInv, TypeInv, TypeOK
<1>4. CASE pc'[p] = "record"
  <2>1. entry'[p].status # "done"
    BY <1>3, <1>4, NewEntrySays
  <2> QED BY <1>4, <2>1 DEF SeenInv, EntryInv
<1>5. CASE pc'[p] = "write"
  <2>1. ASSUME s.action # "create" PROVE Ours(s.obj, seen'[p])
    <3>1. s.action \in {"update", "delete"} /\ s.obj \in Existing /\ s.stamp = 1
      BY <1>1, <1>3, <1>5, <2>1 DEF WellFormed, Step
    <3>2. s.obj \in Ids /\ s.obj # NoId /\ Stamp(s.obj) = world[s.obj].ver
      BY <3>1, ConstantsAssumption DEF Stamp
    <3>3. world[s.obj].ver = 1
      BY <1>3, <1>5, <3>1, <3>2 DEF Conflict, StampMoved
    <3>4. seen'[p] = 1 /\ world[s.obj].val = "orig"
      BY <1>3, <1>5, <3>1, <3>2, <3>3 DEF SInv, StampInv, WorldInv
    <3> QED BY <3>2, <3>3, <3>4 DEF Ours
  <2>2. s.action # "create" => Ours(s.obj, seen[p])'
    BY <1>2, <2>1 DEF Ours
  <2> QED BY <1>2, <1>5, <2>2 DEF SeenInv
<1> QED BY <1>3, <1>4, <1>5

LEMMA WriteLearns ==
    ASSUME SInv, TypeInv', Stampless = {}, NEW p \in Procs, StepWrites(p) \/ StepRejected(p)
    PROVE  SeenInv(p)'
<1> DEFINE s == steps[Position(p)]
<1>1. /\ pc[p] = "write" /\ s \in Step /\ world \in [Ids -> Object] /\ world' \in [Ids -> Object]
      /\ entry \in [Procs -> Entry] /\ \A i \in Ids : world[i].ver \in Nat
  BY StepTyped, ObjectTyped DEF StepWrites, StepRejected, SInv, JInv, IInv, TypeInv, TypeOK
<1>2. UNCHANGED <<steps, mem>> /\ Position(p)' = Position(p) /\ pc'[p] = "record"
  BY DEF StepWrites, StepRejected, LoopUnchanged, plan, Position, Prepare, Goto,
         SInv, JInv, IInv, TypeInv, TypeOK
<1>3. CASE StepRejected(p)
  <2>1. entry'[p] = NewEntry("failed", s.obj, 0)
    BY <1>1, <1>3 DEF StepRejected, Prepare
  <2> QED BY <1>2, <2>1, NewEntrySays DEF SeenInv, EntryInv
<1>4. CASE StepWrites(p)
  <2>1. PICK e \in Effects(s) :
          /\ world' = e.now
          /\ \/ entry'[p] = NewEntry("done", e.at, IF s.action = "delete" THEN 0 ELSE e.now[e.at].ver)
             \/ entry'[p] = NewEntry("failed", s.obj, 0)
    BY <1>1, <1>4 DEF StepWrites, Prepare
  <2>2. CASE s.action = "delete"
    <3>1. Gone(e.at)'
      BY <1>1, <2>1, <2>2, DeletedGrows DEF Effects, Gone, SInv, StampInv, WorldInv
    <3> QED BY <1>2, <2>1, <2>2, <3>1 DEF SeenInv, EntryInv, NewEntry
  <2>3. CASE s.action # "delete"
    <3>1. e.at \in Ids /\ e.now[e.at].ver >= 1 /\ e.now[e.at].val = "plan"
      <4>1. CASE s.action = "create"
        BY <1>1, <2>1, <4>1, PostedGrows DEF Effects
      <4>2. CASE s.action = "update"
        BY <1>1, <2>1, <4>2, PatchedGrows DEF Effects
      <4>3. s.action # "noop"
        <5>1. mem[p] = file /\ Position(p) = Here
          BY <1>1, StepperStands DEF SInv, Stepping
        <5> QED BY <1>1, <5>1 DEF SInv, JInv, PlanInv, CallerInv, StepperInv
      <4> QED BY <1>1, <2>3, <4>1, <4>2, <4>3 DEF Step
    <3>2. e.now[e.at].ver \in Nat
      BY <1>1, <2>1, <3>1 DEF Object
    <3>3. Ours(e.at, e.now[e.at].ver)'
      BY <2>1, <3>1, <3>2 DEF Ours
    <3> QED BY <1>2, <2>1, <2>3, <3>3 DEF SeenInv, EntryInv, NewEntry
  <2> QED BY <2>2, <2>3
<1> QED BY <1>3, <1>4

\* What the caller in the rollback loop knows of the object it is at.
LEMMA UndoneIsKnown ==
    ASSUME SInv, NEW p \in Procs, pc[p] \in Undoing, NEW i \in Newest(todo[p])
    PROVE  /\ mem[p] = file /\ EntryInv(i, mem[p].journal[i])
           /\ mem[p].journal[i].status = "done" /\ mem[p].journal[i] \in Entry
<1>1. mem[p] = file /\ i \in DonePositions(file)
  BY ReverterStands DEF SInv, Newest
<1>2. mem[p].journal[i] \in Entry
  BY PendingTyped DEF SInv, JInv, IInv
<1> QED BY <1>1, <1>2 DEF DonePositions, SInv, StampInv

LEMMA ReadBackLearns ==
    ASSUME SInv, Stampless = {}, NEW p \in Procs, ReadBack(p)
    PROVE  SeenInv(p)'
<1>1. /\ pc[p] = "undo" /\ pc[p] \in Undoing /\ todo[p] \in SUBSET Nat
      /\ \A i \in Ids : world[i].ver \in Nat
  BY ObjectTyped DEF ReadBack, Undoing, SInv, JInv, IInv, TypeInv, TypeOK
<1>2. UNCHANGED <<steps, mem, world, todo, req>>
  BY DEF ReadBack, UndoUnchanged, plan, asked
<1>3. pc'[p] \in {"rerecord", "unwrite"}
  BY DEF ReadBack, Prepare, Goto, SInv, JInv, IInv, TypeInv, TypeOK
<1>4. ASSUME pc'[p] = "unwrite", ~Forced(p), NEW j \in Newest(todo[p])
      PROVE  Ours(mem[p].journal[j].obj, seen'[p])
  <2>1. PICK i \in Newest(todo[p]) :
          LET id == mem[p].journal[i].obj IN
          /\ steps[i].action # "delete" /\ id \in Live
          /\ ~StampMoved(id, mem[p].journal[i].after)
          /\ seen'[p] = Stamp(id)
    BY <1>4 DEF ReadBack, Prepare, Goto, SInv, JInv, IInv, TypeInv, TypeOK
  <2>2. i = j
    BY <1>1, NewestOne
  <2> DEFINE e == mem[p].journal[i]
  <2>3. Ours(e.obj, e.after) /\ e.after \in Nat
    BY <1>1, <2>1, UndoneIsKnown DEF EntryInv, Entry
  <2>4. seen'[p] = e.after
    BY <2>1, <2>3 DEF StampMoved, Ours
  <2> QED BY <2>2, <2>3, <2>4
<1>5. ASSUME pc'[p] = "unwrite", ~Forced(p)'
      PROVE  \A i \in Newest(todo[p])' : Ours(mem[p].journal[i].obj, seen[p])'
  BY <1>2, <1>4, <1>5 DEF Forced, Newest, Ours
<1> QED BY <1>3, <1>5 DEF SeenInv

LEMMA RejectionLearns ==
    ASSUME SInv, NEW p \in Procs, UndoRejected(p)
    PROVE  SeenInv(p)'
<1>1. PICK i \in Newest(todo[p]) :
        \/ pc'[p] = "rerecord"
        \/ pc'[p] = "repost" /\ steps[i].action = "delete"
  BY DEF UndoRejected, Prepare, Goto, SInv, JInv, IInv, TypeInv, TypeOK
<1>2. todo' = todo /\ steps' = steps /\ todo[p] \in SUBSET Nat
  BY DEF UndoRejected, UndoUnchanged, plan, SInv, JInv, IInv, TypeInv, TypeOK
<1>3. Newest(todo[p])' = Newest(todo[p]) /\ \A j \in Newest(todo[p]) : j = i
  BY <1>2, NewestOne DEF Newest
<1> QED BY <1>1, <1>2, <1>3 DEF SeenInv

\* A write that checks what it has seen overwrites no edit it could have seen.
LEMMA NeverBlind ==
    ASSUME SInv, WritesOnly, Stampless = {}, [Next]_vars
    PROVE  \A c \in clobbered' : c[2] = "raced"
<1>0. \A c \in clobbered : c[2] = "raced"
  BY DEF SInv, StampInv
<1>1. ASSUME NEW p \in Procs, NEW i, NEW phase, Ours(i, seen[p]) \/ Gone(i) \/ i \notin Ids
      PROVE  \A c \in Clobber(p, i, phase) : c[2] = "raced"
  BY <1>1 DEF Clobber, Live, Stamp, Ours, Gone
<1>2. ASSUME NEW p \in Procs, StepWrites(p) PROVE \A c \in clobbered' : c[2] = "raced"
  <2> DEFINE s == steps[Position(p)]
  <2>1. pc[p] = "write" /\ s \in Step /\ WellFormed(s)
    BY <1>2, StepTyped DEF StepWrites, SInv, JInv, IInv
  <2>2. clobbered' = clobbered \cup Clobber(p, s.obj, "apply")
    BY <1>2 DEF StepWrites
  <2>3. Ours(s.obj, seen[p]) \/ s.obj \notin Ids
    BY <2>1, ConstantsAssumption DEF WellFormed, SInv, StampInv, SeenInv
  <2> QED BY <1>0, <1>1, <2>2, <2>3
<1>3. ASSUME NEW p \in Procs, UndoWrites(p) PROVE \A c \in clobbered' : c[2] = "raced"
  <2>1. PICK i \in Newest(todo[p]) :
          /\ AboutToUndo(p, i)
          /\ clobbered' = IF Forced(p) THEN clobbered
                          ELSE clobbered \cup Clobber(p, mem[p].journal[i].obj, "rollback")
    BY <1>3 DEF UndoWrites
  <2>2. pc[p] \in Undoing
    BY <2>1 DEF AboutToUndo, Undoing
  <2> DEFINE e == mem[p].journal[i]
  <2>3. CASE Forced(p)
    BY <1>0, <2>1, <2>3
  <2>4. CASE ~Forced(p)
    <3>1. Ours(e.obj, seen[p]) \/ Gone(e.obj)
      <4>1. CASE pc[p] = "unwrite"
        BY <2>4, <4>1 DEF SInv, StampInv, SeenInv
      <4>2. CASE steps[i].action = "delete"
        BY <2>2, <4>2, UndoneIsKnown DEF EntryInv
      <4>3. CASE pc[p] = "repost" /\ steps[i].action # "delete"
        BY <4>3 DEF SInv, StampInv, SeenInv
      <4> QED BY <2>1, <4>1, <4>2, <4>3 DEF AboutToUndo
    <3> QED BY <1>0, <1>1, <2>1, <2>4, <3>1
  <2> QED BY <2>3, <2>4
<1>4. CASE \A p \in Procs : ~StepWrites(p) /\ ~UndoWrites(p)
  <2>1. ASSUME NEW p \in Procs, Calls(p) \/ Proceed(p) PROVE clobbered' = clobbered
    BY <1>4, <2>1
    DEF Calls, Proceed, CallTurnedAway, CallAdmitted, PruneReads, Arrive, PruneUnlinks, CheckSaves,
        TakeStoreLock, ClaimRefused, ClaimReads, ApplyClaimSaves, RollbackClaimSaves, CheckStep,
        StepRejected, RecordStep, ReadBack, UndoRejected, RecordRevert, Link, FinishApply,
        FinishRollback, history
  <2>2. ASSUME Environment PROVE clobbered' = clobbered
    BY <2>2 DEF Environment, Crash, StoreRaises, Drops, ForeignEdit, ForeignDelete, ForeignCreate, ForeignWrite, PlanAges,
                RetentionPasses, history
  <2> QED BY <1>0, <2>1, <2>2 DEF Next, vars
<1> QED BY <1>2, <1>3, <1>4

LEMMA CallersLearn ==
    ASSUME SInv, WritesOnly, Stampless = {}, [Next]_vars, TypeInv', NEW q \in Procs
    PROVE  SeenInv(q)'
<1>1. Grows(world') /\ steps' = steps
  BY WorldGrows, StepsKept DEF SInv, JInv, IInv
<1>2. ASSUME NEW p \in Procs, Calls(p) \/ Proceed(p) PROVE SeenInv(q)'
  BY <1>1, <1>2, WhoLearns, SeenStays, CheckLearns, WriteLearns, ReadBackLearns, RejectionLearns DEF SInv
<1>3. ASSUME Environment PROVE SeenInv(q)'
  <2>1. ASSUME NEW S, NEW how, Breaking(S, how) PROVE Idles(q) \/ Forgets(q)
    BY <2>1 DEF Breaking, Drops, Idles, Forgets
  <2>2. ASSUME ForeignEdit \/ ForeignDelete \/ ForeignCreate \/ PlanAges \/ RetentionPasses PROVE Idles(q)
    BY <2>2 DEF ForeignEdit, ForeignDelete, ForeignCreate, ForeignWrite, PlanAges, RetentionPasses,
                asked, work, Idles
  <2> QED BY <1>1, <1>3, <2>1, <2>2, SeenStays, WhoBreaks
<1>4. ASSUME UNCHANGED vars PROVE SeenInv(q)'
  BY <1>1, <1>4, SeenStays DEF vars, Idles
<1> QED BY <1>2, <1>3, <1>4 DEF Next

\* Where an entry of the journal comes from.
LEMMA EntriesFrom ==
    ASSUME JInv, WritesOnly, [Next]_vars, NEW n \in DonePositions(file)'
    PROVE  \/ /\ n \in DonePositions(file) /\ file'.journal[n] = file.journal[n]
           \/ \E p \in Procs : /\ RecordStep(p) /\ pc[p] = "record" /\ n = Position(p) /\ n = Here
                               /\ file'.journal[n] = entry[p] /\ entry[p].status = "done"
           \/ \E p \in Procs : /\ RecordRevert(p) /\ pc[p] = "rerecord" /\ n \in Newest(todo[p])
                               /\ n \in DonePositions(file) /\ Revises(entry[p], file.journal[n])
                               /\ file'.journal[n] = entry[p] /\ entry[p].status = "done"
<1>0. /\ file \in Doc /\ file.journal \in Seq(Entry) /\ Len(file.journal) \in Nat
      /\ \A i \in 1..Len(file.journal) : file.journal[i] \in Entry
      /\ file'.journal[n].status = "done"
  BY FileTyped DEF JInv, DonePositions
<1>1. ASSUME file'.journal = file.journal
      PROVE  n \in DonePositions(file) /\ file'.journal[n] = file.journal[n]
  BY <1>1 DEF DonePositions
<1>2. ASSUME NEW p \in Procs, RecordStep(p)
      PROVE  \/ n \in DonePositions(file) /\ file'.journal[n] = file.journal[n]
             \/ /\ pc[p] = "record" /\ n = Position(p) /\ n = Here
                /\ file'.journal[n] = entry[p] /\ entry[p].status = "done"
  <2>1. /\ mem[p] = file /\ Position(p) = Here /\ entry[p] \in Entry /\ pc[p] = "record"
    BY <1>2, StepperStands DEF RecordStep, Stepping, JInv, IInv, TypeInv, TypeOK
  <2>2. file' = [file EXCEPT !.journal = Append(file.journal, entry[p])]
    BY <1>2, <2>1 DEF RecordStep, Save
  <2>3. /\ file'.journal = Append(file.journal, entry[p]) /\ Len(file'.journal) = Len(file.journal) + 1
        /\ \A i \in 1..Len(file.journal) : file'.journal[i] = file.journal[i]
        /\ file'.journal[Here] = entry[p]
    BY <1>0, <2>1, <2>2 DEF Doc, Here
  <2>4. n \in 1..Len(file.journal) \/ n = Here
    BY <1>0, <2>3 DEF DonePositions, Here
  <2> QED BY <1>0, <2>1, <2>3, <2>4 DEF DonePositions
<1>3. ASSUME NEW p \in Procs, RecordRevert(p)
      PROVE  \/ n \in DonePositions(file) /\ file'.journal[n] = file.journal[n]
             \/ /\ pc[p] = "rerecord" /\ n \in Newest(todo[p])
                /\ n \in DonePositions(file) /\ Revises(entry[p], file.journal[n])
                /\ file'.journal[n] = entry[p] /\ entry[p].status = "done"
  <2>1. PICK i \in Newest(todo[p]) :
          /\ i \in Pending(file) /\ Revises(entry[p], file.journal[i]) /\ file.journal[i] \in Entry
          /\ Len(file'.journal) = Len(file.journal)
          /\ \A j \in 1..Len(file.journal) :
                file'.journal[j] = IF j = i THEN entry[p] ELSE file.journal[j]
    BY <1>3, RecordRevertSaves
  <2>2. n \in 1..Len(file.journal) /\ pc[p] = "rerecord"
    BY <1>3, <2>1 DEF DonePositions, RecordRevert
  <2> QED BY <1>0, <2>1, <2>2, RevisedKeeps DEF DonePositions
<1>4. ASSUME NEW p \in Procs, ApplyClaimSaves(p) PROVE FALSE
  <2>1. file' = [status |-> "applying", journal |-> <<>>]
    BY <1>4 DEF ApplyClaimSaves, Save
  <2>2. Len(file'.journal) = 0
    BY <2>1
  <2> QED BY <2>2 DEF DonePositions
<1>5. ASSUME NEW p \in Procs, RollbackClaimSaves(p) \/ FinishApply(p) \/ FinishRollback(p)
      PROVE  file'.journal = file.journal
  <2>1. mem[p] = file
    BY <1>5, OwnerAlone DEF RollbackClaimSaves, FinishApply, FinishRollback, Owner, Running, JInv
  <2>2. \E status : file' = [file EXCEPT !.status = status]
    BY <1>5, <2>1 DEF RollbackClaimSaves, FinishApply, FinishRollback, Save
  <2> QED BY <1>0, <2>2 DEF Doc
<1>6. ASSUME NEW p \in Procs, Calls(p) \/ Proceed(p), ~RecordStep(p), ~RecordRevert(p),
             ~ApplyClaimSaves(p), ~RollbackClaimSaves(p), ~FinishApply(p), ~FinishRollback(p)
      PROVE  file' = file
  BY <1>6, OthersDoNotSave DEF Proceed, PruneUnlinks, CheckSaves, JInv, IInv, ClaimInv
<1>7. ASSUME Environment \/ UNCHANGED vars PROVE file' = file
  BY <1>7 DEF Environment, Crash, StoreRaises, Drops, ForeignEdit, ForeignDelete, ForeignCreate, ForeignWrite, PlanAges,
              RetentionPasses, plan, vars
<1> QED BY <1>0, <1>1, <1>2, <1>3, <1>4, <1>5, <1>6, <1>7 DEF Next, DonePositions

\* So what a save puts into the journal was known before.
LEMMA EntriesKnown ==
    ASSUME SInv, WritesOnly, [Next]_vars, NEW n \in DonePositions(file)'
    PROVE  \E e \in Entry : /\ EntryInv(n, e) /\ e.status = "done"
                            /\ file'.journal[n].status = "done"
                            /\ file'.journal[n].obj = e.obj /\ file'.journal[n].after = e.after
<1>1. \A i \in DonePositions(file) : file.journal[i] \in Entry /\ EntryInv(i, file.journal[i])
  BY FileTyped DEF SInv, StampInv, JInv, DonePositions
<1>2. \A p \in Procs : pc[p] = "record" => entry[p] \in Entry /\ EntryInv(Position(p), entry[p])
  BY DEF SInv, StampInv, SeenInv, JInv, IInv, TypeInv, TypeOK
<1>3. file'.journal[n].status = "done" /\ \A i \in DonePositions(file) : file.journal[i].status = "done"
  BY DEF DonePositions
<1> QED BY <1>1, <1>2, <1>3, EntriesFrom, RevisedKeeps DEF SInv

-----------------------------------------------------------------------------

LEMMA StampInit == Init => StampInv
<1> SUFFICES ASSUME Init PROVE StampInv
  OBVIOUS
<1>1. WorldInv
  BY DEF Init, WorldInv
<1>2. file.journal = <<>> /\ Len(file.journal) = 0
  BY DEF Init
<1>3. DonePositions(file) = {}
  BY <1>2 DEF DonePositions
<1>4. \A p \in Procs : SeenInv(p)
  BY DEF Init, SeenInv
<1> QED BY <1>1, <1>3, <1>4 DEF Init, StampInv

LEMMA StampStep == ASSUME WritesOnly, Stampless = {}, SInv, [Next]_vars PROVE SInv'
<1>1. JInv' /\ TypeInv'
  BY PlanStep DEF SInv, JInv, IInv
<1>2. Grows(world') /\ steps' = steps
  BY WorldGrows, StepsKept DEF SInv, JInv, IInv
<1>3. WorldInv'
  BY <1>1, <1>2, KnownStays DEF SInv, StampInv, JInv, IInv
<1>4. ASSUME NEW n \in DonePositions(file)' PROVE EntryInv(n, file.journal[n])'
  <2>1. PICK e \in Entry : /\ EntryInv(n, e) /\ e.status = "done"
                           /\ file'.journal[n].status = "done"
                           /\ file'.journal[n].obj = e.obj /\ file'.journal[n].after = e.after
    BY EntriesKnown
  <2>2. EntryInv(n, e)'
    BY <1>1, <1>2, <2>1, KnownStays DEF SInv, JInv, IInv
  <2> QED BY <2>1, <2>2 DEF EntryInv
<1>5. \A q \in Procs : SeenInv(q)'
  BY <1>1, CallersLearn
<1>6. \A c \in clobbered' : c[2] = "raced"
  BY NeverBlind
<1>7. StampInv'
  BY <1>3, <1>4, <1>5, <1>6 DEF StampInv
<1> QED BY <1>1, <1>7 DEF SInv

\* Rollback re-reads before it undoes "so it never clobbers a change somebody
\* made after the apply" (executor.py:13-14), and neither does an apply: an
\* unforced write lands on somebody's edit only when the edit came between the
\* step's own GET and its write, for every plan, every number of callers and
\* foreign users, and every fault.
THEOREM NoBlindOverwriteAlways == ASSUME WritesOnly PROVE Spec => []NoBlindOverwrite
<1>1. CASE Stampless = {}
  <2>1. Init => SInv
    BY TypeInit, ClaimInit, PlanInit, StampInit DEF SInv, JInv, IInv
  <2>2. SInv /\ [Next]_vars => SInv'
    BY <1>1, StampStep
  <2>3. SInv => NoBlindOverwrite
    BY DEF SInv, StampInv, NoBlindOverwrite
  <2> QED BY <2>1, <2>2, <2>3, PTL DEF Spec
<1>2. CASE Stampless # {}
  <2>1. NoBlindOverwrite
    BY <1>2 DEF NoBlindOverwrite
  <2> QED BY <2>1, PTL
<1> QED BY <1>1, <1>2

-----------------------------------------------------------------------------
(* With nobody else writing to NetBox, what the plan did tells where its   *)
(* objects are.                                                            *)

\* What hangs on what was fixed among the objects of planning time.
OldHierarchy == \A i \in Ids : Parent[i] # NoId => i \in Existing /\ Parent[i] \in Existing

Deleting(n, i) == steps[n].action = "delete" /\ steps[n].obj \in {i, Parent[i]}
Updating(n, i) == steps[n].action = "update" /\ steps[n].obj = i
Creating(n, i) == steps[n].action = "create" /\ steps[n].key = world[i].key

\* An object of planning time is there, and has the stamp it had, unless a
\* step that landed deleted it or updated it; the others there are what the
\* plan created.
Traced ==
    /\ \A i \in Existing :
          /\ world[i].key = NoKey /\ world[i].ver >= 1
          /\ world[i].live <=> \A n \in landed : ~Deleting(n, i)
          /\ world[i].ver = 1 <=> \A n \in landed : ~Updating(n, i)
    /\ \A i \in Live \ Existing : \E n \in landed : Creating(n, i)
    /\ \A n \in landed : steps[n].action = "create" => \E i \in Live \ Existing : Creating(n, i)

TracedInv == edits = 0 /\ file.status \in {"planned", "applying"} => Traced
ApplyInv == JInv /\ WorldInv /\ TracedInv

LEMMA LandedStep ==
    ASSUME JInv, NEW n \in landed
    PROVE  /\ n \in Nat /\ n <= Here /\ steps[n] \in Step /\ WellFormed(steps[n])
<1>1. n \in 1..N /\ n <= Here
  BY DEF JInv, PlanInv, LandedInv
<1>2. \A i \in 1..N : steps[i] \in Step /\ WellFormed(steps[i])
  BY StepsTyped DEF JInv, IInv, TypeInv
<1> QED BY <1>1, <1>2

\* The write of the step the apply loop is at.
LEMMA WritingTells ==
    ASSUME ApplyInv, OldHierarchy, NEW p \in Procs, StepWrites(p), Traced
    PROVE  Traced'
<1> DEFINE s == steps[Here]
<1>1. /\ Position(p) = Here /\ s \in Step /\ WellFormed(s) /\ s.action # "noop"
      /\ world \in [Ids -> Object] /\ steps' = steps /\ landed' = landed \cup {Here}
  <2>1. pc[p] = "write" /\ Position(p) = Here
    BY StepperStands DEF StepWrites, Stepping, ApplyInv
  <2>2. s \in Step /\ WellFormed(s) /\ s.action # "noop" /\ world \in [Ids -> Object]
    BY <2>1, StepTyped DEF ApplyInv, JInv, IInv, TypeInv, TypeOK, PlanInv, CallerInv, StepperInv
  <2> QED BY <2>1, <2>2 DEF StepWrites, LoopUnchanged, plan
<1>2. PICK e \in Effects(s) : world' = e.now
  BY <1>1 DEF StepWrites
<1>3. /\ \A n, i : Deleting(n, i)' <=> Deleting(n, i)
      /\ \A n, i : Updating(n, i)' <=> Updating(n, i)
  BY <1>1 DEF Deleting, Updating
<1>4. /\ Existing \subseteq Ids /\ NoId \notin Ids
      /\ \A i \in Ids : world[i].ver \in Nat /\ world[i].live \in BOOLEAN
  BY <1>1, ConstantsAssumption, ObjectTyped
<1>5. CASE s.action = "create"
  <2> DEFINE o == [live |-> TRUE, val |-> "plan", ver |-> 1, key |-> s.key]
  <2>1. PICK j \in NextId : world' = [world EXCEPT ![j] = o]
    <3>1. e \in Posted("plan", s.key)
      BY <1>2, <1>5 DEF Effects
    <3>2. PICK j \in NextId : e = [at |-> j, now |-> [world EXCEPT ![j] = o]]
      BY <3>1 DEF Posted
    <3> QED BY <1>2, <3>2
  <2>2. j \in Ids /\ world[j].ver = 0 /\ j \notin Existing
    BY <2>1 DEF NextId, Unused, Traced
  <2>3. /\ world'[j].live /\ world'[j].key = s.key
        /\ \A i \in Ids : i # j => world'[i] = world[i]
    BY <1>1, <2>1, <2>2
  <2>4. \A i : ~Deleting(Here, i) /\ ~Updating(Here, i)
    BY <1>5 DEF Deleting, Updating
  <2>5. \A i \in Existing :
          /\ world'[i].key = NoKey /\ world'[i].ver >= 1
          /\ world'[i].live <=> \A n \in landed' : ~Deleting(n, i)
          /\ world'[i].ver = 1 <=> \A n \in landed' : ~Updating(n, i)
    BY <1>1, <1>4, <2>2, <2>3, <2>4 DEF Traced
  <2>6. \A i \in Live' \ Existing : \E n \in landed' : Creating(n, i)'
    BY <1>1, <1>5, <2>2, <2>3 DEF Traced, Creating, Live
  <2>7. \A n \in landed' : steps[n].action = "create" => \E i \in Live' \ Existing : Creating(n, i)'
    <3>1. ASSUME NEW n \in landed, steps[n].action = "create"
          PROVE  \E i \in Live' \ Existing : Creating(n, i)'
      <4>1. PICK i \in Live \ Existing : Creating(n, i)
        BY <3>1 DEF Traced
      <4>2. i # j
        BY <4>1, <2>2 DEF Live, ApplyInv, WorldInv
      <4> QED BY <1>1, <2>3, <4>1, <4>2 DEF Creating, Live
    <3>2. ASSUME NEW n, n = Here PROVE j \in Live' \ Existing /\ Creating(n, j)'
      BY <1>1, <1>5, <2>2, <2>3, <3>2 DEF Creating, Live
    <3> QED BY <1>1, <3>1, <3>2
  <2> QED BY <1>1, <1>3, <2>5, <2>6, <2>7 DEF Traced
<1>6. CASE s.action = "update"
  <2> DEFINE o(j) == [live |-> TRUE, val |-> "plan", ver |-> world[j].ver + 1, key |-> world[j].key]
  <2>1. /\ s.obj \in Existing /\ s.obj \in Live
        /\ world' = [world EXCEPT ![s.obj] = o(s.obj)]
    <3>1. e \in Patched(s.obj, "plan")
      BY <1>2, <1>6 DEF Effects
    <3>2. PICK j \in {s.obj} \cap Live : e = [at |-> j, now |-> [world EXCEPT ![j] = o(j)]]
      BY <3>1 DEF Patched
    <3> QED BY <1>1, <1>2, <1>6, <3>2 DEF WellFormed
  <2>2. /\ \A i \in Ids : world'[i].key = world[i].key /\ (world'[i].live <=> world[i].live)
        /\ \A i \in Ids : world'[i].ver = IF i = s.obj THEN world[i].ver + 1 ELSE world[i].ver
    BY <1>1, <1>4, <2>1 DEF Live
  <2>3. \A i : ~Deleting(Here, i) /\ (Updating(Here, i) <=> i = s.obj)
    BY <1>6 DEF Deleting, Updating
  <2>5. \A i \in Existing :
          /\ world'[i].key = NoKey /\ world'[i].ver >= 1
          /\ world'[i].live <=> \A n \in landed' : ~Deleting(n, i)
          /\ world'[i].ver = 1 <=> \A n \in landed' : ~Updating(n, i)
    BY <1>1, <1>4, <2>2, <2>3 DEF Traced
  <2>6. Live' = Live /\ \A n : \A i \in Ids : Creating(n, i)' <=> Creating(n, i)
    BY <1>1, <2>2 DEF Creating, Live
  <2> QED BY <1>1, <1>3, <1>6, <2>5, <2>6 DEF Traced, Live
<1>7. CASE s.action = "delete"
  <2>1. /\ s.obj \in Existing /\ s.obj \in Live
        /\ world' = [i \in Ids |-> IF i = s.obj \/ Parent[i] = s.obj
                                   THEN [world[i] EXCEPT !.live = FALSE] ELSE world[i]]
    <3>1. e \in Deleted(s.obj)
      BY <1>2, <1>7 DEF Effects
    <3>2. PICK j \in {s.obj} \cap Live :
            e = [at |-> j, now |-> [i \in Ids |-> IF i = j \/ Parent[i] = j
                                                THEN [world[i] EXCEPT !.live = FALSE] ELSE world[i]]]
      BY <3>1 DEF Deleted
    <3> QED BY <1>1, <1>2, <1>7, <3>2 DEF WellFormed
  <2>2. /\ \A i \in Ids : world'[i].key = world[i].key /\ world'[i].ver = world[i].ver
        /\ \A i \in Ids : world'[i].live <=> world[i].live /\ i # s.obj /\ Parent[i] # s.obj
    BY <1>1, <1>4, <2>1, ObjectTyped DEF Object
  <2>3. \A i : ~Updating(Here, i) /\ (Deleting(Here, i) <=> s.obj \in {i, Parent[i]})
    BY <1>7 DEF Deleting, Updating
  <2>5. \A i \in Existing :
          /\ world'[i].key = NoKey /\ world'[i].ver >= 1
          /\ world'[i].live <=> \A n \in landed' : ~Deleting(n, i)
          /\ world'[i].ver = 1 <=> \A n \in landed' : ~Updating(n, i)
    BY <1>1, <1>4, <2>2, <2>3 DEF Traced
  <2>6. /\ Live' \ Existing = Live \ Existing
        /\ \A n : \A i \in Ids : Creating(n, i)' <=> Creating(n, i)
    BY <1>1, <1>4, <2>1, <2>2 DEF Creating, Live, OldHierarchy
  <2> QED BY <1>1, <1>3, <1>7, <2>5, <2>6 DEF Traced, Live
<1> QED BY <1>1, <1>5, <1>6, <1>7 DEF Step

\* Only two actions of the callers write to NetBox, and what else changes it
\* is an edit.
LEMMA WhoWrites ==
    ASSUME JInv, [Next]_vars, \A p \in Procs : ~StepWrites(p) /\ ~UndoWrites(p)
    PROVE  landed' = landed /\ ((world' = world /\ edits' = edits) \/ edits' = edits + 1)
<1>1. ASSUME NEW p \in Procs, Calls(p) \/ Proceed(p)
      PROVE  landed' = landed /\ world' = world /\ edits' = edits
  BY <1>1
  DEF Calls, Proceed, CallTurnedAway, CallAdmitted, PruneReads, Arrive, PruneUnlinks, CheckSaves,
      TakeStoreLock, ClaimRefused, ClaimReads, ApplyClaimSaves, RollbackClaimSaves, CheckStep,
      StepRejected, LoopUnchanged, RecordStep, ReadBack, UndoRejected, UndoUnchanged, RecordRevert,
      Link, FinishApply, FinishRollback, history
<1>2. ASSUME Environment
      PROVE  landed' = landed /\ ((world' = world /\ edits' = edits) \/ edits' = edits + 1)
  BY <1>2 DEF Environment, Crash, StoreRaises, Drops, ForeignEdit, ForeignDelete, ForeignCreate, ForeignWrite, PlanAges,
              RetentionPasses, history
<1> QED BY <1>1, <1>2 DEF Next, vars

LEMMA CallersDoNotEdit ==
    ASSUME NEW p \in Procs, StepWrites(p) \/ UndoWrites(p)
    PROVE  edits' = edits
  BY DEF StepWrites, LoopUnchanged, UndoWrites, UndoUnchanged

LEMMA TellingGoesOn ==
    ASSUME ApplyInv, WritesOnly, OldHierarchy, [Next]_vars
    PROVE  ApplyInv'
<1>1. JInv' /\ steps' = steps /\ file # NoPlan
  BY PlanStep, StepsKept DEF ApplyInv, JInv, IInv, ClaimInv
<1>2. WorldInv'
  BY <1>1, WorldGrows, KnownStays DEF ApplyInv, JInv, IInv
<1>3. ASSUME edits' = 0, file'.status \in {"planned", "applying"} PROVE Traced'
  <2>1. file.status \in {"planned", "applying"}
    BY <1>3, LifecycleStep
    DEF ApplyInv, Lifecycle!Next, Lifecycle!StartApply, Lifecycle!Journal, Lifecycle!FinishApply,
        Lifecycle!StartRollback, Lifecycle!Revert, Lifecycle!FinishRollback, Lifecycle!lifecycle
  <2>2. edits \in Nat
    BY DEF ApplyInv, JInv, IInv, TypeInv, TypeOK
  <2>3. ASSUME NEW p \in Procs, StepWrites(p) PROVE Traced'
    BY <1>3, <2>1, <2>3, CallersDoNotEdit, WritingTells DEF ApplyInv, TracedInv
  <2>4. ASSUME NEW p \in Procs PROVE ~UndoWrites(p)
    <3>1. pc[p] \in Undoing => file.status = "rolling_back"
      BY ReverterStands DEF ApplyInv
    <3> QED BY <2>1, <3>1 DEF UndoWrites, AboutToUndo, Undoing
  <2>5. CASE \A p \in Procs : ~StepWrites(p)
    <3>1. landed' = landed /\ world' = world /\ edits' = edits
      BY <1>3, <2>2, <2>4, <2>5, WhoWrites DEF ApplyInv
    <3>2. Traced
      BY <1>3, <2>1, <3>1 DEF ApplyInv, TracedInv
    <3> QED BY <1>1, <3>1, <3>2 DEF Traced, Deleting, Updating, Creating, Live
  <2> QED BY <2>3, <2>5
<1> QED BY <1>1, <1>2, <1>3 DEF ApplyInv, TracedInv

LEMMA TellingStarts == Init => ApplyInv
<1> SUFFICES ASSUME Init PROVE ApplyInv
  OBVIOUS
<1>1. JInv
  BY TypeInit, ClaimInit, PlanInit DEF JInv, IInv
<1>2. WorldInv
  BY DEF Init, WorldInv
<1>3. landed = {} /\ \A i \in Ids : world[i] = IF i \in Existing
                  THEN [live |-> TRUE, val |-> "orig", ver |-> 1, key |-> NoKey]
                  ELSE [live |-> FALSE, val |-> "none", ver |-> 0, key |-> NoKey]
  BY DEF Init
<1>4. Existing \subseteq Ids
  BY ConstantsAssumption
<1>5. \A i \in Existing : world[i] = [live |-> TRUE, val |-> "orig", ver |-> 1, key |-> NoKey]
  BY <1>3, <1>4
<1>6. \A i \in Live : i \in Existing
  BY <1>3 DEF Live
<1>7. Traced
  BY <1>3, <1>4, <1>5, <1>6 DEF Traced
<1> QED BY <1>1, <1>2, <1>7 DEF ApplyInv, TracedInv

LEMMA CauseOfConflict ==
    ASSUME ApplyInv, OldHierarchy, edits = 0, NEW p \in Procs, pc[p] = "step",
           NEW s, s = steps[Position(p)]
    PROVE  Conflict(s) <=> \E n \in landed : n < Position(p) /\ MovedBy(n, s)
<1>1. /\ Position(p) = Here /\ s \in Step /\ WellFormed(s) /\ file.status = "applying"
      /\ Here \notin landed
  <2>1. Position(p) = Here /\ file.status = "applying"
    BY StepperStands DEF Stepping, ApplyInv
  <2> QED BY <2>1, StepTyped DEF ApplyInv, JInv, IInv, PlanInv, CallerInv, StepperInv
<1>2. Traced
  BY <1>1 DEF ApplyInv, TracedInv
<1>3. \A n \in landed : n \in Nat /\ n < Here /\ steps[n] \in Step /\ WellFormed(steps[n])
  <2>1. Here \in Nat
    BY FileTyped DEF Here, ApplyInv, JInv
  <2> QED BY <1>1, <2>1, LandedStep DEF ApplyInv
<1>4. CASE s.action = "noop"
  BY <1>4 DEF Conflict, MovedBy
<1>5. CASE s.action = "create"
  <2>1. Conflict(s) <=> s.key # NoKey /\ \E i \in Live : world[i].key = s.key
    BY <1>5 DEF Conflict
  <2>2. \A n : MovedBy(n, s) <=> steps[n].action = "create" /\ s.key # NoKey /\ steps[n].key = s.key
    BY <1>5 DEF MovedBy
  <2>3. ASSUME s.key # NoKey, NEW i \in Live, world[i].key = s.key
        PROVE  \E n \in landed : MovedBy(n, s)
    BY <1>2, <2>2, <2>3 DEF Traced, Creating
  <2>4. ASSUME NEW n \in landed, MovedBy(n, s)
        PROVE  Conflict(s)
    BY <1>2, <2>1, <2>2, <2>4 DEF Traced, Creating
  <2> QED BY <1>1, <1>3, <2>1, <2>3, <2>4
<1>6. CASE s.action \in {"update", "delete"}
  <2>1. /\ s.obj \in Existing /\ s.obj \in Ids /\ s.obj # NoId
        /\ s.stamp = IF s.obj \in Stampless THEN 0 ELSE 1
    BY <1>1, <1>6, ConstantsAssumption DEF WellFormed
  <2>2. Conflict(s) <=> ~world[s.obj].live \/ (s.stamp # 0 /\ world[s.obj].ver # 1)
    BY <1>6, <2>1 DEF Conflict, StampMoved, Stamp, Live
  <2>3. \A n : MovedBy(n, s) <=> (Updating(n, s.obj) /\ s.stamp # 0) \/ Deleting(n, s.obj)
    BY <1>6 DEF MovedBy, Updating, Deleting
  <2> QED BY <1>1, <1>2, <1>3, <2>1, <2>2, <2>3 DEF Traced
<1> QED BY <1>1, <1>4, <1>5, <1>6 DEF Step

\* A step is refused because of the plan itself only where the plan asked for
\* it: with nobody else writing to NetBox, the step the apply loop is at
\* conflicts exactly when an earlier step of this plan that took effect moved
\* the object's stamp, deleted it or what it hangs on, or created what it was
\* to create (check_step_precondition, executor.py), for every plan, every
\* number of callers and every fault, lost responses and deaths included.
THEOREM ConflictsHaveCauseAlways ==
    ASSUME WritesOnly, OldHierarchy
    PROVE  Spec => []ConflictsHaveCause
<1>1. ApplyInv /\ [Next]_vars => ApplyInv'
  BY TellingGoesOn
<1>2. ApplyInv => ConflictsHaveCause
  BY CauseOfConflict DEF ConflictsHaveCause
<1> QED BY <1>1, <1>2, TellingStarts, PTL DEF Spec

-----------------------------------------------------------------------------
(* With nobody else writing and no response lost, a rollback that says it  *)
(* undid everything did.                                                   *)

\* Every write that took effect is in the journal, or about to be; only a
\* death in an apply leaves one out, and that plan stays "applying".
AccountInv ==
    /\ file.status # "applying" => landed \subseteq DonePositions(file)
    /\ \A p \in Procs : Running(p) =>
          \A n \in landed \ DonePositions(file) : pc[p] = "record" /\ n = Position(p)

\* What PlanLifecycle says of the reverts.
RevertsInv ==
    /\ file.status \in {"planned", "applying"} => Reverted = {}
    /\ file.status = "rolled_back" => Reverted = DonePositions(file)

\* Which object an entry of step n is about, and what "reverted" says of it:
\* a copy of a deleted object lacks what the entry says it lacks.
Names(n, e) ==
    e.status = "done" =>
        IF steps[n].action = "create"
        THEN e.obj \in Ids \ Existing /\ world[e.obj].ver >= 1 /\ world[e.obj].val = "plan"
        ELSE e.obj = steps[n].obj
Back(n, e) ==
    e.status = "done" /\ e.revert = "reverted" =>
        CASE steps[n].action = "create" -> ~world[e.obj].live
          [] steps[n].action = "update" -> world[e.obj].val # "plan"
          [] OTHER -> /\ e.new \in Live \ Existing
                     /\ world[e.new].val = IF e.dropped THEN "partial" ELSE "orig"
Tells(n, e) == Names(n, e) /\ Back(n, e)

CallerSays(p) ==
    /\ pc[p] = "record" => Tells(Position(p), entry[p])
    /\ pc[p] = "rerecord" => \A n \in Newest(todo[p]) : Tells(n, entry[p])
SaysInv ==
    /\ \A n \in DonePositions(file) : Tells(n, file.journal[n])
    /\ \A p \in Procs : CallerSays(p)

\* An object of planning time is what it was but for what the plan did.
OldInv ==
    \A i \in Existing :
        /\ world[i].val \in {"orig", "plan"}
        /\ ~world[i].live => \E n \in landed : Deleting(n, i)
        /\ world[i].val = "plan" => \E n \in landed : Updating(n, i)

\* An object the plan made is somebody's entry, unless its maker died.
Makes(n, e, i) == steps[n].action = "create" /\ e.status = "done" /\ e.obj = i
Made(i) ==
    \/ \E n \in DonePositions(file) : Makes(n, file.journal[n], i)
    \/ \E p \in Procs : pc[p] = "record" /\ Makes(Position(p), entry[p], i)
    \/ file.status = "applying" /\ \A p \in Procs : ~Running(p)
NewInv == \A i \in Live \ Existing : world[i].val = "plan" => Made(i)

RestoreInv == edits = 0 => SaysInv /\ OldInv /\ NewInv
RInv == JInv /\ WorldInv /\ RevertsInv /\ AccountInv /\ RestoreInv

-----------------------------------------------------------------------------
(* Who moves, and who does not.                                            *)

\* A caller acts and the others stand still; or something happens around
\* them, and who does not die stands still.
Bystands(q) == Idles(q) \/ pc'[q] = "idle"

LEMMA WhoMoves ==
    ASSUME JInv, WritesOnly, [Next]_vars
    PROVE  \/ \E p \in Procs : (Calls(p) \/ Proceed(p)) /\ \A q \in Procs : q # p => Idles(q)
           \/ UNCHANGED <<steps, file, landed>> /\ \A q \in Procs : Bystands(q)
<1>1. ASSUME NEW p \in Procs, Calls(p) \/ Proceed(p) PROVE \A q \in Procs : q # p => Idles(q)
  BY <1>1, WhoLearns
<1>2. ASSUME NEW S, NEW how, Breaking(S, how), NEW q \in Procs PROVE Bystands(q)
  BY <1>2 DEF Breaking, Drops, Bystands, Idles
<1>3. ASSUME ForeignEdit \/ ForeignDelete \/ ForeignCreate \/ PlanAges \/ RetentionPasses \/ UNCHANGED vars,
             NEW q \in Procs
      PROVE  Bystands(q)
  BY <1>3 DEF ForeignEdit, ForeignDelete, ForeignCreate, ForeignWrite, PlanAges, RetentionPasses,
              asked, work, Idles, Bystands, vars
<1>4. ASSUME Environment \/ UNCHANGED vars PROVE UNCHANGED <<steps, file, landed>>
  BY <1>4 DEF Environment, Crash, StoreRaises, Drops, ForeignEdit, ForeignDelete, ForeignCreate, ForeignWrite, PlanAges,
              RetentionPasses, plan, vars, history
<1> QED BY <1>1, <1>2, <1>3, <1>4, WhoBreaks DEF Next

LEMMA WhoRecords ==
    ASSUME JInv, WritesOnly, NEW p \in Procs, Calls(p) \/ Proceed(p), pc'[p] \in {"record", "rerecord"}
    PROVE  CheckStep(p) \/ StepWrites(p) \/ StepRejected(p) \/ ReadBack(p) \/ UndoWrites(p) \/ UndoRejected(p)
<1>1. ~Calls(p)
  BY DEF Calls, CallTurnedAway, CallAdmitted, PruneReads, Arrive, Return, Goto, WritesOnly,
         JInv, IInv, TypeInv, TypeOK
<1>2. ~TakeStoreLock(p) /\ ~ClaimRefused(p) /\ ~ClaimReads(p)
  BY DEF TakeStoreLock, ClaimRefused, ClaimReads, Return, Goto, JInv, IInv, TypeInv, TypeOK
<1>3. ~ApplyClaimSaves(p) /\ ~RollbackClaimSaves(p)
  BY DEF ApplyClaimSaves, RollbackClaimSaves, AfterStep, AfterRevert, Goto, JInv, IInv, TypeInv, TypeOK
<1>4. ~RecordStep(p) /\ ~RecordRevert(p) /\ ~Link(p)
  BY DEF RecordStep, RecordRevert, Link, AfterStep, AfterRevert, Goto, JInv, IInv, TypeInv, TypeOK
<1>5. ~FinishApply(p) /\ ~FinishRollback(p)
  BY DEF FinishApply, FinishRollback, Return, Goto, JInv, IInv, TypeInv, TypeOK
<1>6. ~PruneUnlinks(p) /\ ~CheckSaves(p)
  BY DEF PruneUnlinks, CheckSaves, JInv, IInv, ClaimInv
<1> QED BY <1>1, <1>2, <1>3, <1>4, <1>5, <1>6 DEF Proceed

LEMMA WhoRuns ==
    ASSUME JInv, WritesOnly, NEW p \in Procs, Calls(p) \/ Proceed(p), Running(p)', ~Running(p)
    PROVE  ApplyClaimSaves(p) \/ RollbackClaimSaves(p)
<1>1. ~Calls(p)
  BY DEF Calls, CallTurnedAway, CallAdmitted, PruneReads, Arrive, Return, Goto, WritesOnly, Running,
         JInv, IInv, TypeInv, TypeOK
<1>2. ~TakeStoreLock(p) /\ ~ClaimRefused(p) /\ ~ClaimReads(p)
  BY DEF TakeStoreLock, ClaimRefused, ClaimReads, Return, Goto, Running, JInv, IInv, TypeInv, TypeOK
<1>3. ~CheckStep(p) /\ ~StepWrites(p) /\ ~StepRejected(p) /\ ~ReadBack(p)
      /\ ~RecordStep(p) /\ ~RecordRevert(p) /\ ~Link(p) /\ ~FinishApply(p) /\ ~FinishRollback(p)
  BY DEF CheckStep, StepWrites, StepRejected, ReadBack, RecordStep, RecordRevert, Link, FinishApply,
         FinishRollback, Running
<1>4. ~UndoWrites(p) /\ ~UndoRejected(p)
  <2>1. pc[p] \notin Undoing
    BY DEF Running, Undoing
  <2> QED BY <2>1 DEF UndoWrites, UndoRejected, AboutToUndo, Undoing
<1>6. ~PruneUnlinks(p) /\ ~CheckSaves(p)
  BY DEF PruneUnlinks, CheckSaves, JInv, IInv, ClaimInv
<1> QED BY <1>1, <1>2, <1>3, <1>4, <1>6 DEF Proceed

\* What the apply loop has done is one as soon as it is saved.
LEMMA RecordedIsDone ==
    ASSUME JInv, NEW p \in Procs, RecordStep(p), entry[p].status = "done"
    PROVE  /\ Position(p) \in DonePositions(file)'
           /\ file'.journal[Position(p)] = entry[p]
<1>1. mem[p] = file /\ pc[p] = "record" /\ Position(p) = Here /\ entry[p] \in Entry
      /\ file \in Doc /\ file.journal \in Seq(Entry)
  BY StepperStands, FileTyped DEF RecordStep, Stepping, JInv, IInv, TypeInv, TypeOK
<1>2. file'.journal = Append(file.journal, entry[p])
  BY <1>1 DEF RecordStep, Save, Doc
<1> QED BY <1>1, <1>2 DEF DonePositions, Here

\* A done entry stays one, of the same object.
LEMMA DoneStays ==
    ASSUME JInv, WritesOnly, [Next]_vars, NEW n \in DonePositions(file)
    PROVE  n \in DonePositions(file)' /\ file'.journal[n].obj = file.journal[n].obj
<1>1. n \in DonePositions(file)'
  BY LifecycleStep
  DEF Lifecycle!Next, Lifecycle!StartApply, Lifecycle!Journal, Lifecycle!FinishApply,
      Lifecycle!StartRollback, Lifecycle!Revert, Lifecycle!FinishRollback, Lifecycle!lifecycle
<1>2. n # Here /\ file.journal[n] \in Entry
  BY FileTyped DEF DonePositions, Here, JInv
<1> QED BY <1>1, <1>2, EntriesFrom, RevisedKeeps

-----------------------------------------------------------------------------
(* The plan and its history.                                               *)

LEMMA RevertsGoOn == ASSUME RInv, WritesOnly, [Next]_vars PROVE RevertsInv'
<1>1. [Lifecycle!Next]_(Lifecycle!lifecycle)
  BY LifecycleStep DEF RInv
<1>2. /\ file.status \in {"planned", "applying"} => Reverted = {}
      /\ file.status = "rolled_back" => Reverted = DonePositions(file)
  BY DEF RInv, RevertsInv
<1>3. /\ file'.status \in {"planned", "applying"} => Reverted' = {}
      /\ file'.status = "rolled_back" => Reverted' = DonePositions(file)'
  BY <1>1, <1>2
  DEF Lifecycle!Next, Lifecycle!StartApply, Lifecycle!Journal, Lifecycle!FinishApply,
      Lifecycle!StartRollback, Lifecycle!Rollbackable, Lifecycle!Revert, Lifecycle!FinishRollback,
      Lifecycle!lifecycle, Reverted
<1> QED BY <1>3 DEF RevertsInv

\* A caller that is not running saves no applying plan and takes it from nobody.
LEMMA IdlersStay ==
    ASSUME JInv, WritesOnly, NEW p \in Procs, ~Running(p), Calls(p) \/ Proceed(p)
    PROVE  /\ landed' = landed
           /\ file.status # "applying" \/ (file' = file /\ ~Running(p)')
<1>1. landed' = landed
  BY DEF Calls, Proceed, CallTurnedAway, CallAdmitted, PruneReads, Arrive, PruneUnlinks, CheckSaves,
      TakeStoreLock, ClaimRefused, ClaimReads, ApplyClaimSaves, RollbackClaimSaves, CheckStep,
      StepWrites, StepRejected, LoopUnchanged, RecordStep, ReadBack, UndoWrites, UndoRejected,
      UndoUnchanged, RecordRevert, Link, FinishApply, FinishRollback, Running, history
<1>2. CASE ApplyClaimSaves(p) \/ RollbackClaimSaves(p)
  BY <1>1, <1>2 DEF ApplyClaimSaves, RollbackClaimSaves, JInv, IInv, ClaimInv, IN_FLIGHT
<1>3. CASE ~ApplyClaimSaves(p) /\ ~RollbackClaimSaves(p)
  <2>1. ~RecordStep(p) /\ ~RecordRevert(p) /\ ~FinishApply(p) /\ ~FinishRollback(p)
        /\ ~PruneUnlinks(p) /\ ~CheckSaves(p)
    BY DEF RecordStep, RecordRevert, FinishApply, FinishRollback, PruneUnlinks, CheckSaves,
           Running, JInv, IInv, ClaimInv
  <2> QED BY <1>1, <1>3, <2>1, WhoRuns, OthersDoNotSave DEF Proceed
<1> QED BY <1>2, <1>3, <1>1

\* A plan leaves "applying" when its owner has journaled everything.
LEMMA AccountGoesOn ==
    ASSUME RInv, WritesOnly, "lost" \notin Faults, [Next]_vars
    PROVE  AccountInv'
<1>0. JInv /\ AccountInv
  BY DEF RInv
<1>d. \A n \in DonePositions(file) : n \in DonePositions(file)'
  BY <1>0, DoneStays
<1>1. ASSUME NEW p \in Procs, Running(p), Calls(p) \/ Proceed(p), NEW n \in landed' \ DonePositions(file)'
      PROVE  pc'[p] = "record" /\ n = Position(p)' /\ file'.status = "applying"
  <2>1. CASE StepWrites(p)
    <3>1. pc'[p] = "record" /\ landed' = landed \cup {Position(p)} /\ Position(p)' = Position(p)
          /\ file' = file /\ pc[p] = "write"
      BY <2>1 DEF StepWrites, Prepare, Goto, LoopUnchanged, plan, Position, RInv, JInv, IInv, TypeInv, TypeOK
    <3>2. file.status = "applying"
      BY <1>0, <3>1, StepperStands DEF Stepping
    <3> QED BY <1>0, <1>1, <1>d, <3>1, <3>2 DEF AccountInv
  <2>2. CASE RecordStep(p)
    <3>1. landed' = landed /\ pc[p] = "record" /\ Position(p) = Here /\ mem[p] = file /\ entry[p] \in Entry
      BY <1>0, <2>2, StepperStands DEF RecordStep, history, Stepping, JInv, IInv, TypeInv, TypeOK
    <3>2. n = Here
      BY <1>0, <1>1, <1>d, <3>1 DEF AccountInv
    <3>3. entry[p].status = "done"
      BY <1>0, <1>1, <3>1, <3>2 DEF JInv, PlanInv, CallerInv, StepperInv
    <3>4. n \in DonePositions(file)'
      BY <1>0, <2>2, <3>1, <3>2, <3>3, RecordedIsDone
    <3> QED BY <1>1, <3>4
  <2>3. CASE ~StepWrites(p) /\ ~RecordStep(p)
    <3>1. (landed' = landed /\ pc[p] # "record") \/ StepRejected(p)
      BY <1>1, <2>3
      DEF Calls, Proceed, CallTurnedAway, CallAdmitted, PruneReads, Arrive, PruneUnlinks, CheckSaves,
          TakeStoreLock, ClaimRefused, ClaimReads, ApplyClaimSaves, RollbackClaimSaves, CheckStep,
          StepRejected, LoopUnchanged, ReadBack, UndoWrites, AboutToUndo, UndoRejected, UndoUnchanged,
          RecordRevert, Link, FinishApply, FinishRollback, Running, history
    <3>2. CASE StepRejected(p)
      BY <1>0, <1>1, <1>d, <3>2 DEF StepRejected, AccountInv
    <3> QED BY <1>0, <1>1, <1>d, <3>1, <3>2 DEF AccountInv
  <2> QED BY <2>1, <2>2, <2>3
<1>2. ASSUME NEW p \in Procs, ~Running(p), Calls(p) \/ Proceed(p)
      PROVE  /\ landed' = landed
             /\ file.status # "applying" \/ (file' = file /\ ~Running(p)')
  BY <1>0, <1>2, IdlersStay
<1>3. ASSUME NEW p \in Procs, Calls(p) \/ Proceed(p), \A q \in Procs : q # p => Idles(q)
      PROVE  AccountInv'
  <2>1. CASE Running(p)
    <3>1. \A q \in Procs : Running(q)' => q = p
      BY <1>0, <1>3, <2>1, OwnerAlone DEF Owner, Running, Idles, JInv
    <3> QED BY <1>1, <1>3, <2>1, <3>1 DEF AccountInv
  <2>2. CASE ~Running(p)
    <3>1. CASE file.status # "applying"
      <4>1. landed' \subseteq DonePositions(file)'
        BY <1>0, <1>2, <1>3, <1>d, <2>2, <3>1 DEF AccountInv
      <4> QED BY <4>1 DEF AccountInv
    <3>2. CASE file' = file /\ ~Running(p)'
      <4>1. ASSUME NEW q \in Procs, Running(q)'
            PROVE  Running(q) /\ pc'[q] = pc[q] /\ Position(q)' = Position(q)
        BY <1>3, <3>2, <4>1 DEF Idles, Running, Position
      <4> QED BY <1>0, <1>2, <1>3, <1>d, <2>2, <3>2, <4>1 DEF AccountInv
    <3> QED BY <1>2, <1>3, <2>2, <3>1, <3>2
  <2> QED BY <2>1, <2>2
<1>4. ASSUME UNCHANGED <<steps, file, landed>>, \A q \in Procs : Bystands(q)
      PROVE  AccountInv'
  <2>1. ASSUME NEW q \in Procs, Running(q)'
        PROVE  Running(q) /\ pc'[q] = pc[q] /\ Position(q)' = Position(q)
    BY <1>4, <2>1 DEF Bystands, Idles, Running, Position
  <2> QED BY <1>0, <1>4, <1>d, <2>1 DEF AccountInv
<1> QED BY <1>0, <1>3, <1>4, WhoMoves

-----------------------------------------------------------------------------
(* The objects.                                                            *)

\* What nobody but the plan can do to them while nobody else writes.
CalmStep ==
    /\ \A i \in Ids \ Existing : world[i].ver >= 1 =>
          /\ world'[i].ver >= 1 /\ world'[i].val = world[i].val
          /\ world'[i].live => world[i].live
          /\ world[i].live /\ world[i].val \in {"orig", "partial"} => world'[i].live
    /\ \A i \in Existing :
          \/ world'[i].val = world[i].val \/ world'[i].val = "orig"
          \/ file.status = "applying" /\ world'[i].val = "plan"

\* The three requests, at each object.
LEMMA PostedAt ==
    ASSUME world \in [Ids -> Object], NEW val, NEW key, NEW e \in Posted(val, key)
    PROVE  \E j \in Ids : /\ world[j].ver = 0 /\ e.at = j
                          /\ e.now[j] = [live |-> TRUE, val |-> val, ver |-> 1, key |-> key]
                          /\ \A i \in Ids : i # j => e.now[i] = world[i]
<1> DEFINE o == [live |-> TRUE, val |-> val, ver |-> 1, key |-> key]
<1>1. PICK j \in NextId : e = [at |-> j, now |-> [world EXCEPT ![j] = o]]
  BY DEF Posted
<1>2. j \in Ids /\ world[j].ver = 0
  BY <1>1 DEF NextId, Unused
<1>3. e.at = j /\ e.now[j] = o /\ \A i \in Ids : i # j => e.now[i] = world[i]
  BY <1>1, <1>2
<1> QED BY <1>2, <1>3

LEMMA PatchedAt ==
    ASSUME world \in [Ids -> Object], NEW k, NEW val, NEW e \in Patched(k, val)
    PROVE  /\ k \in Ids /\ world[k].live /\ e.at = k
           /\ e.now[k] = [live |-> TRUE, val |-> val, ver |-> world[k].ver + 1, key |-> world[k].key]
           /\ \A i \in Ids : i # k => e.now[i] = world[i]
<1> DEFINE o(j) == [live |-> TRUE, val |-> val, ver |-> world[j].ver + 1, key |-> world[j].key]
<1>1. PICK j \in {k} \cap Live : e = [at |-> j, now |-> [world EXCEPT ![j] = o(j)]]
  BY DEF Patched
<1>2. j \in Ids /\ world[j].live /\ j = k
  BY <1>1 DEF Live
<1>3. e.at = j /\ e.now[j] = o(j) /\ \A i \in Ids : i # j => e.now[i] = world[i]
  BY <1>1, <1>2
<1> QED BY <1>2, <1>3

LEMMA DeletedAt ==
    ASSUME world \in [Ids -> Object], NEW k, NEW e \in Deleted(k)
    PROVE  /\ k \in Ids /\ world[k].live /\ e.at = k
           /\ \A i \in Ids :
                 /\ e.now[i].ver = world[i].ver /\ e.now[i].val = world[i].val
                 /\ e.now[i].key = world[i].key
                 /\ e.now[i].live <=> world[i].live /\ i # k /\ Parent[i] # k
<1>1. PICK j \in {k} \cap Live :
        e = [at |-> j, now |-> [i \in Ids |-> IF i = j \/ Parent[i] = j
                                              THEN [world[i] EXCEPT !.live = FALSE] ELSE world[i]]]
  BY DEF Deleted
<1>2. j \in Ids /\ world[j].live /\ j = k
  BY <1>1 DEF Live
<1>3. \A i \in Ids : e.now[i] = IF i = j \/ Parent[i] = j
                                THEN [world[i] EXCEPT !.live = FALSE] ELSE world[i]
  BY <1>1
<1>4. \A i \in Ids : /\ [world[i] EXCEPT !.live = FALSE].ver = world[i].ver
                     /\ [world[i] EXCEPT !.live = FALSE].val = world[i].val
                     /\ [world[i] EXCEPT !.live = FALSE].key = world[i].key
                     /\ ~[world[i] EXCEPT !.live = FALSE].live
                     /\ world[i].live \in BOOLEAN
  BY DEF Object
<1>5. e.at = j
  BY <1>1
<1>6. ASSUME NEW i \in Ids
      PROVE  /\ e.now[i].ver = world[i].ver /\ e.now[i].val = world[i].val
             /\ e.now[i].key = world[i].key
             /\ e.now[i].live <=> world[i].live /\ i # j /\ Parent[i] # j
  <2>1. CASE i = j \/ Parent[i] = j
    BY <1>3, <1>4, <2>1
  <2>2. CASE ~(i = j \/ Parent[i] = j)
    BY <1>3, <2>2
  <2> QED BY <2>1, <2>2
<1> QED BY <1>2, <1>5, <1>6

\* The write of a step.
LEMMA StepIsCalm ==
    ASSUME RInv, OldHierarchy, "lost" \notin Faults, NEW p \in Procs, StepWrites(p)
    PROVE  /\ CalmStep /\ Tells(Position(p), entry[p])'
           /\ \A i \in Existing :
                 /\ world[i].live => world'[i].live \/ Deleting(Position(p), i)
                 /\ world'[i].val = "plan" => world[i].val = "plan" \/ Updating(Position(p), i)
           /\ \A i \in Ids \ Existing :
                 world[i].ver = 0 /\ world'[i].live => Makes(Position(p), entry'[p], i)
<1> DEFINE s == steps[Position(p)]
<1>1. /\ s \in Step /\ WellFormed(s) /\ s.action # "noop" /\ world \in [Ids -> Object]
      /\ \A i \in Ids : world[i].ver \in Nat
      /\ file.status = "applying" /\ entry \in [Procs -> Entry] /\ steps' = steps
  <2>1. pc[p] = "write" /\ Position(p) = Here /\ file.status = "applying"
    BY StepperStands DEF StepWrites, Stepping, RInv
  <2>2. s \in Step /\ WellFormed(s) /\ s.action # "noop" /\ world \in [Ids -> Object] /\ entry \in [Procs -> Entry]
    BY <2>1, StepTyped DEF RInv, JInv, IInv, TypeInv, TypeOK, PlanInv, CallerInv, StepperInv
  <2> QED BY <2>1, <2>2, ObjectTyped DEF StepWrites, LoopUnchanged, plan
<1>2. PICK e \in Effects(s) :
        /\ world' = e.now
        /\ \E after : entry'[p] = NewEntry("done", e.at, after)
  BY <1>1 DEF StepWrites, Prepare
<1>3. entry'[p].status = "done" /\ entry'[p].obj = e.at /\ entry'[p].revert = "none"
  BY <1>2 DEF NewEntry
<1>4. /\ \A i \in Ids : world[i].ver = 0 => ~world[i].live
      /\ \A i \in Existing : i \in Ids /\ world[i].ver >= 1 /\ i # NoId
  BY ConstantsAssumption DEF RInv, WorldInv
<1>p. Position(p)' = Position(p)
  BY DEF Position, StepWrites, LoopUnchanged
<1>5. CASE s.action = "create"
  <2>1. e \in Posted("plan", s.key)
    BY <1>2, <1>5 DEF Effects
  <2>2. PICK j \in Ids :
          /\ world[j].ver = 0 /\ e.at = j
          /\ world'[j] = [live |-> TRUE, val |-> "plan", ver |-> 1, key |-> s.key]
          /\ \A i \in Ids : i # j => world'[i] = world[i]
    BY <1>1, <1>2, <2>1, PostedAt
  <2>3. j \notin Existing
    BY <1>4, <2>2
  <2>4. CalmStep
    BY <1>1, <1>4, <2>2, <2>3 DEF CalmStep
  <2>5. Tells(Position(p), entry[p])'
    BY <1>1, <1>3, <1>5, <1>p, <2>2, <2>3 DEF Tells, Names, Back
  <2> QED BY <1>1, <1>3, <1>4, <1>5, <2>2, <2>3, <2>4, <2>5 DEF Makes
<1>6. CASE s.action = "update"
  <2>1. e \in Patched(s.obj, "plan") /\ s.obj \in Existing
    BY <1>1, <1>2, <1>6 DEF Effects, WellFormed
  <2>2. /\ e.at = s.obj /\ world'[s.obj].live /\ world'[s.obj].val = "plan"
        /\ \A i \in Ids : i # s.obj => world'[i] = world[i]
    <3>1. /\ e.at = s.obj
          /\ e.now[s.obj] = [live |-> TRUE, val |-> "plan", ver |-> world[s.obj].ver + 1, key |-> world[s.obj].key]
          /\ \A i \in Ids : i # s.obj => e.now[i] = world[i]
      BY <1>1, <2>1, PatchedAt
    <3> QED BY <1>2, <3>1
  <2>3. CalmStep
    BY <1>1, <1>4, <2>1, <2>2 DEF CalmStep
  <2>4. Tells(Position(p), entry[p])'
    BY <1>1, <1>3, <1>6, <1>p, <2>2 DEF Tells, Names, Back
  <2> QED BY <1>1, <1>4, <1>6, <2>1, <2>2, <2>3, <2>4 DEF Updating
<1>7. CASE s.action = "delete"
  <2>1. e \in Deleted(s.obj) /\ s.obj \in Existing
    BY <1>1, <1>2, <1>7 DEF Effects, WellFormed
  <2>2. /\ e.at = s.obj
        /\ \A i \in Ids :
              /\ world'[i].ver = world[i].ver /\ world'[i].val = world[i].val
              /\ world'[i].live <=> world[i].live /\ i # s.obj /\ Parent[i] # s.obj
    BY <1>1, <1>2, <2>1, DeletedAt
  <2>3. \A i \in Ids \ Existing : Parent[i] # s.obj /\ i # s.obj
    BY <1>4, <2>1 DEF OldHierarchy
  <2>4. CalmStep
    BY <1>1, <1>4, <2>2, <2>3 DEF CalmStep
  <2>5. Tells(Position(p), entry[p])'
    BY <1>1, <1>3, <1>7, <1>p, <2>2 DEF Tells, Names, Back
  <2> QED BY <1>1, <1>4, <1>7, <2>1, <2>2, <2>3, <2>4, <2>5 DEF Deleting
<1> QED BY <1>1, <1>5, <1>6, <1>7 DEF Step

\* The entry a rollback is at says which object it is about.
LEMMA UndoneIsSaid ==
    ASSUME RInv, edits = 0, NEW p \in Procs, pc[p] \in Undoing, NEW i \in Newest(todo[p])
    PROVE  /\ mem[p] = file /\ i \in DonePositions(file) /\ file.status = "rolling_back"
           /\ file.journal[i] \in Entry /\ file.journal[i].status = "done"
           /\ Tells(i, file.journal[i])
           /\ steps[i] \in Step /\ WellFormed(steps[i]) /\ steps[i].action # "noop"
           /\ \A j \in Newest(todo[p]) : j = i
<1>0. JInv /\ JournalInv /\ LandedInv
  BY DEF RInv, JInv, PlanInv
<1>1. mem[p] = file /\ i \in DonePositions(file) /\ file.status = "rolling_back" /\ todo[p] \in SUBSET Nat
  BY <1>0, ReverterStands DEF Newest
<1>2. file.journal[i] \in Entry /\ file.journal[i].status = "done" /\ i \in landed
  BY <1>0, <1>1, FileTyped DEF JInv, DonePositions, JournalInv
<1>3. i \in 1..N /\ steps[i].action # "noop"
  BY <1>0, <1>2 DEF LandedInv
<1>4. steps[i] \in Step /\ WellFormed(steps[i])
  BY <1>3, StepsTyped DEF RInv, JInv, IInv, TypeInv
<1>5. Tells(i, file.journal[i])
  BY <1>1 DEF RInv, RestoreInv, SaysInv
<1>6. \A j \in Newest(todo[p]) : j = i
  BY <1>1, NewestOne
<1> QED BY <1>1, <1>2, <1>3, <1>4, <1>5, <1>6

\* The inverse write.
LEMMA UndoIsCalm ==
    ASSUME RInv, OldHierarchy, "lost" \notin Faults, edits = 0, NEW p \in Procs, UndoWrites(p)
    PROVE  /\ CalmStep /\ \A n \in Newest(todo[p]) : Tells(n, entry[p])'
           /\ \A i \in Existing :
                 /\ world[i].live => world'[i].live
                 /\ world'[i].val = "plan" => world[i].val = "plan"
           /\ \A i \in Ids \ Existing : world[i].ver = 0 /\ world'[i].live => world'[i].val # "plan"
<1>1. pc[p] \in Undoing /\ steps' = steps /\ entry \in [Procs -> Entry] /\ world \in [Ids -> Object]
      /\ \A i \in Ids : world[i].ver \in Nat
  BY ObjectTyped DEF UndoWrites, AboutToUndo, Undoing, UndoUnchanged, plan, RInv, JInv, IInv, TypeInv, TypeOK
<1>2. PICK n \in Newest(todo[p]) : \E e \in UndoEffects(p, n) :
        /\ world' = e.now
        /\ entry'[p] = Outcome(p, n, "reverted", IF steps[n].action = "delete" THEN e.at ELSE NoId)
  BY <1>1 DEF UndoWrites, Prepare
<1>3. PICK e \in UndoEffects(p, n) :
        /\ world' = e.now
        /\ entry'[p] = Outcome(p, n, "reverted", IF steps[n].action = "delete" THEN e.at ELSE NoId)
  BY <1>2
<1> DEFINE was == file.journal[n]
           s == steps[n]
<1>4. /\ mem[p] = file /\ was \in Entry /\ was.status = "done"
      /\ Tells(n, was) /\ s \in Step /\ WellFormed(s) /\ s.action # "noop"
      /\ \A j \in Newest(todo[p]) : j = n
  BY <1>1, UndoneIsSaid
<1>5. /\ entry'[p].status = "done" /\ entry'[p].obj = was.obj /\ entry'[p].revert = "reverted"
      /\ s.action = "delete" =>
            entry'[p].new = e.at /\ entry'[p].dropped = (e.at # NoId /\ pc[p] = "repost")
  BY <1>3, <1>4 DEF Outcome, Entry
<1>6. /\ \A i \in Ids : world[i].ver = 0 => ~world[i].live
      /\ \A i \in Existing : i \in Ids /\ world[i].ver >= 1 /\ i # NoId
  BY ConstantsAssumption DEF RInv, WorldInv
<1>7. CASE s.action = "create"
  <2>1. e \in Deleted(was.obj) /\ was.obj \in Ids \ Existing /\ world[was.obj].ver >= 1 /\ world[was.obj].val = "plan"
    BY <1>3, <1>4, <1>7 DEF UndoEffects, Tells, Names
  <2>2. \A i \in Ids :
              /\ world'[i].ver = world[i].ver /\ world'[i].val = world[i].val
              /\ world'[i].live <=> world[i].live /\ i # was.obj /\ Parent[i] # was.obj
    BY <1>1, <1>3, <2>1, DeletedAt
  <2>3. \A i \in Ids : Parent[i] # was.obj
    BY <1>6, <2>1, ConstantsAssumption DEF OldHierarchy
  <2>4. CalmStep
    BY <1>1, <1>6, <2>1, <2>2, <2>3 DEF CalmStep
  <2>5. Tells(n, entry[p])'
    BY <1>1, <1>5, <1>7, <2>1, <2>2 DEF Tells, Names, Back
  <2> QED BY <1>4, <1>6, <2>1, <2>2, <2>3, <2>4, <2>5
<1>8. CASE s.action = "update"
  <2>1. e \in Patched(was.obj, "orig") /\ was.obj \in Existing /\ was.obj = s.obj
    BY <1>3, <1>4, <1>8 DEF UndoEffects, Tells, Names, WellFormed
  <2>2. /\ world'[was.obj].live /\ world'[was.obj].val = "orig"
        /\ \A i \in Ids : i # was.obj => world'[i] = world[i]
    <3>1. /\ e.now[was.obj] = [live |-> TRUE, val |-> "orig", ver |-> world[was.obj].ver + 1,
                               key |-> world[was.obj].key]
          /\ \A i \in Ids : i # was.obj => e.now[i] = world[i]
      BY <1>1, <2>1, PatchedAt
    <3> QED BY <1>3, <3>1
  <2>3. CalmStep
    BY <1>1, <1>6, <2>1, <2>2 DEF CalmStep
  <2>4. Tells(n, entry[p])'
    BY <1>1, <1>5, <1>8, <2>1, <2>2 DEF Tells, Names, Back
  <2> QED BY <1>4, <1>6, <2>1, <2>2, <2>3, <2>4
<1>9. CASE s.action = "delete"
  <2> DEFINE copy == IF pc[p] = "repost" THEN "partial" ELSE "orig"
  <2>1. e \in Posted(copy, NoKey) /\ was.obj = s.obj
    BY <1>3, <1>4, <1>9 DEF UndoEffects, Tells, Names
  <2>2. PICK j \in Ids :
          /\ world[j].ver = 0 /\ e.at = j
          /\ world'[j] = [live |-> TRUE, val |-> copy, ver |-> 1, key |-> NoKey]
          /\ \A i \in Ids : i # j => world'[i] = world[i]
    BY <1>1, <1>3, <2>1, PostedAt
  <2>3. j \notin Existing
    BY <1>6, <2>2
  <2>4. CalmStep
    BY <1>1, <1>6, <2>2, <2>3 DEF CalmStep
  <2>5. entry'[p].dropped = (pc[p] = "repost")
    BY <1>5, <1>9, <2>2, ConstantsAssumption
  <2>6. /\ entry'[p].status = "done" /\ entry'[p].obj = was.obj /\ entry'[p].new = j
        /\ steps' = steps /\ steps[n].action = "delete"
    BY <1>1, <1>5, <1>9, <2>2
  <2>7. Names(n, entry[p])'
    BY <2>1, <2>6 DEF Names
  <2>8. j \in Live' \ Existing /\ world'[j].val = IF entry'[p].dropped THEN "partial" ELSE "orig"
    <3>1. world'[j].live /\ world'[j].val = copy /\ j \in Ids
      BY <2>2
    <3>2. copy = IF entry'[p].dropped THEN "partial" ELSE "orig"
      BY <2>5
    <3> HIDE DEF copy
    <3> QED BY <2>3, <3>1, <3>2 DEF Live
  <2>9. Back(n, entry[p])'
    <3> HIDE DEF copy
    <3> QED BY <2>6, <2>8 DEF Back
  <2>10. Tells(n, entry[p])'
    BY <2>7, <2>9 DEF Tells
  <2> QED BY <1>4, <1>6, <2>2, <2>3, <2>4, <2>10
<1> QED BY <1>4, <1>7, <1>8, <1>9 DEF Step

\* So what an entry says stays true, and what the plan did to the objects of
\* planning time and to new ones is known.
LEMMA CalmlyOn ==
    ASSUME RInv, WritesOnly, OldHierarchy, "lost" \notin Faults, edits = 0, edits' = 0, [Next]_vars
    PROVE  /\ CalmStep
           /\ \A i \in Existing :
                 /\ ~world'[i].live => ~world[i].live \/ \E n \in landed' : Deleting(n, i)
                 /\ world'[i].val = "plan" => world[i].val = "plan" \/ \E n \in landed' : Updating(n, i)
           /\ \A i \in Ids \ Existing : world[i].ver = 0 /\ world'[i].live =>
                 \/ world'[i].val # "plan"
                 \/ \E p \in Procs : StepWrites(p) /\ Makes(Position(p), entry'[p], i)
<1>1. \A i \in Ids : world[i].ver = 0 => ~world[i].live
  BY DEF RInv, WorldInv
<1>2. ASSUME NEW p \in Procs, StepWrites(p) PROVE Position(p) \in landed'
  BY <1>2 DEF StepWrites
<1>3. CASE \A p \in Procs : ~StepWrites(p) /\ ~UndoWrites(p)
  <2>1. world' = world
    BY <1>3, WhoWrites DEF RInv
  <2> QED BY <1>1, <2>1 DEF CalmStep
<1> QED BY <1>1, <1>2, <1>3, StepIsCalm, UndoIsCalm

LEMMA SaidStays ==
    ASSUME RInv, WritesOnly, OldHierarchy, "lost" \notin Faults, edits = 0, edits' = 0, [Next]_vars,
           NEW n \in 1..N, NEW e \in Entry, Tells(n, e), file.status = "applying" => e.revert # "reverted"
    PROVE  Tells(n, e)'
<1>1. CalmStep /\ steps' = steps
  BY CalmlyOn, StepsKept
<1>2. /\ \A i \in Ids : world[i].ver = 0 => ~world[i].live
      /\ \A i \in Ids : world[i].ver \in Nat
      /\ Existing \subseteq Ids
  BY ObjectTyped, ConstantsAssumption DEF RInv, WorldInv, JInv, IInv, TypeInv, TypeOK
<1>3. steps[n] \in Step /\ WellFormed(steps[n])
  BY StepsTyped DEF RInv, JInv, IInv, TypeInv
<1>4. Names(n, e)'
  BY <1>1, <1>2 DEF Tells, Names, CalmStep
<1>5. Back(n, e)'
  <2>1. CASE steps[n].action = "create"
    BY <1>1, <1>2, <2>1 DEF Tells, Names, Back, CalmStep
  <2>2. CASE steps[n].action = "update"
    <3>1. e.status = "done" => e.obj \in Existing
      BY <1>3, <2>2 DEF Tells, Names, WellFormed
    <3> QED BY <1>1, <2>2, <3>1 DEF Tells, Back, CalmStep
  <2>3. CASE steps[n].action \notin {"create", "update"}
    BY <1>1, <1>2, <2>3 DEF Tells, Back, CalmStep, Live
  <2> QED BY <2>1, <2>2, <2>3
<1> QED BY <1>4, <1>5 DEF Tells

-----------------------------------------------------------------------------
(* What the entries say stays true.                                        *)

\* The entries of the file.
LEMMA EntriesSay ==
    ASSUME RInv, WritesOnly, OldHierarchy, "lost" \notin Faults, edits = 0, edits' = 0, [Next]_vars,
           NEW n \in DonePositions(file)'
    PROVE  Tells(n, file.journal[n])'
<1>0. JInv /\ JournalInv /\ SaysInv
  BY DEF RInv, RestoreInv, JInv, PlanInv
<1>1. \A m \in DonePositions(file) : m \in 1..N /\ file.journal[m] \in Entry
  BY <1>0, FileTyped DEF JInv, DonePositions, JournalInv
<1>2. ASSUME NEW e \in Entry, n \in 1..N, Tells(n, e), file.status = "applying" => e.revert # "reverted",
             file'.journal[n] = e
      PROVE  Tells(n, file.journal[n])'
  <2>1. Tells(n, e)'
    BY <1>2, SaidStays
  <2> QED BY <1>2, <2>1 DEF Tells, Names, Back
<1>3. CASE n \in DonePositions(file) /\ file'.journal[n] = file.journal[n]
  <2>1. file.status = "applying" => file.journal[n].revert # "reverted"
    BY <1>3 DEF RInv, RevertsInv, Reverted
  <2> QED BY <1>0, <1>1, <1>2, <1>3, <2>1 DEF SaysInv
<1>4. ASSUME NEW p \in Procs, pc[p] = "record", n = Position(p), file'.journal[n] = entry[p]
      PROVE  Tells(n, file.journal[n])'
  <2>1. n \in 1..N /\ entry[p] \in Entry /\ entry[p].revert = "none"
    BY <1>0, <1>4, StepperStands
    DEF Stepping, JInv, IInv, TypeInv, TypeOK, PlanInv, CallerInv, StepperInv
  <2> QED BY <1>0, <1>2, <1>4, <2>1 DEF SaysInv, CallerSays
<1>5. ASSUME NEW p \in Procs, pc[p] = "rerecord", n \in Newest(todo[p]), n \in DonePositions(file),
             file'.journal[n] = entry[p]
      PROVE  Tells(n, file.journal[n])'
  <2>1. entry[p] \in Entry /\ file.status = "rolling_back"
    BY <1>0, <1>5, ReverterStands DEF Undoing, JInv, IInv, TypeInv, TypeOK
  <2> QED BY <1>0, <1>1, <1>2, <1>5, <2>1 DEF SaysInv, CallerSays
<1> QED BY <1>0, <1>3, <1>4, <1>5, EntriesFrom

\* The entry a caller is about to save.
LEMMA IdlersSay ==
    ASSUME RInv, WritesOnly, OldHierarchy, "lost" \notin Faults, edits = 0, edits' = 0, [Next]_vars,
           NEW q \in Procs, Idles(q)
    PROVE  CallerSays(q)'
<1>0. JInv /\ CallerSays(q) /\ entry[q] \in Entry
  BY DEF RInv, RestoreInv, SaysInv, JInv, IInv, TypeInv, TypeOK
<1>1. pc'[q] = pc[q] /\ entry'[q] = entry[q] /\ Position(q)' = Position(q) /\ Newest(todo[q])' = Newest(todo[q])
  BY DEF Idles, Position, Newest
<1>2. PICK e \in Entry : e = entry[q]
  BY <1>0
<1>3. ASSUME NEW n \in 1..N, Tells(n, e), file.status = "applying" => e.revert # "reverted"
      PROVE  Tells(n, e)'
  BY <1>3, SaidStays
<1>4. ASSUME pc[q] = "record" PROVE Tells(Position(q), entry[q])'
  <2>1. Position(q) \in 1..N /\ e.revert = "none" /\ Tells(Position(q), e)
    BY <1>0, <1>2, <1>4, StepperStands DEF Stepping, JInv, PlanInv, CallerInv, StepperInv, CallerSays
  <2>2. PICK n \in 1..N : n = Position(q)
    BY <2>1
  <2>3. Tells(n, e)'
    BY <1>3, <2>1, <2>2
  <2>4. n = Position(q)' /\ e = entry'[q]
    BY <1>1, <1>2, <2>2
  <2> QED BY <2>3, <2>4
<1>5. ASSUME pc[q] = "rerecord", NEW n \in Newest(todo[q]) PROVE Tells(n, entry[q])'
  <2>1. n \in DonePositions(file) /\ file.status = "rolling_back"
    BY <1>0, <1>5, ReverterStands DEF Undoing, Newest
  <2>2. n \in 1..N
    BY <1>0, <2>1, FileTyped DEF JInv, PlanInv, JournalInv, DonePositions
  <2>3. Tells(n, e)'
    BY <1>0, <1>2, <1>3, <1>5, <2>1, <2>2 DEF CallerSays
  <2> QED BY <1>1, <1>2, <2>3 DEF Tells, Names, Back
<1> QED BY <1>1, <1>4, <1>5 DEF CallerSays

LEMMA ReadBackSays ==
    ASSUME RInv, edits = 0, NEW p \in Procs, ReadBack(p), pc'[p] = "rerecord",
           NEW n \in Newest(todo[p])
    PROVE  Tells(n, entry[p])'
<1>1. pc[p] \in Undoing /\ entry \in [Procs -> Entry] /\ pc[p] = "undo" /\ DOMAIN pc = Procs
      /\ world' = world /\ steps' = steps
  BY DEF ReadBack, UndoUnchanged, plan, Undoing, RInv, JInv, IInv, TypeInv, TypeOK
<1>2. /\ mem[p] = file /\ file.journal[n] \in Entry /\ Tells(n, file.journal[n])
      /\ \A j \in Newest(todo[p]) : j = n
  BY <1>1, UndoneIsSaid
<1>3. PICK how \in {"reverted", "conflict", "failed"} :
        /\ entry'[p] = Outcome(p, n, how, NoId)
        /\ how = "reverted" => steps[n].action = "create" /\ file.journal[n].obj \notin Live
  BY <1>1, <1>2 DEF ReadBack, Prepare, Goto
<1>4. /\ entry'[p].status = file.journal[n].status /\ entry'[p].obj = file.journal[n].obj
      /\ entry'[p].revert = how
  BY <1>2, <1>3 DEF Outcome, Entry
<1> QED BY <1>1, <1>2, <1>3, <1>4 DEF Tells, Names, Back, Live

LEMMA RejectedSays ==
    ASSUME RInv, edits = 0, NEW p \in Procs, UndoRejected(p), pc'[p] = "rerecord",
           NEW n \in Newest(todo[p])
    PROVE  Tells(n, entry[p])'
<1>1. pc[p] \in Undoing /\ pc[p] # "rerecord" /\ entry \in [Procs -> Entry] /\ DOMAIN pc = Procs
      /\ world' = world /\ steps' = steps
  BY DEF UndoRejected, AboutToUndo, UndoUnchanged, plan, Undoing, RInv, JInv, IInv, TypeInv, TypeOK
<1>2. /\ mem[p] = file /\ file.journal[n] \in Entry /\ Tells(n, file.journal[n])
      /\ \A j \in Newest(todo[p]) : j = n
  BY <1>1, UndoneIsSaid
<1>3. entry'[p] = Outcome(p, n, "failed", NoId)
  BY <1>1, <1>2 DEF UndoRejected, Prepare, Goto
<1>4. /\ entry'[p].status = file.journal[n].status /\ entry'[p].obj = file.journal[n].obj
      /\ entry'[p].revert = "failed"
  BY <1>2, <1>3 DEF Outcome, Entry
<1> QED BY <1>1, <1>2, <1>4 DEF Tells, Names, Back

LEMMA ActorsSay ==
    ASSUME RInv, WritesOnly, OldHierarchy, "lost" \notin Faults, edits = 0,
           NEW p \in Procs, Calls(p) \/ Proceed(p)
    PROVE  CallerSays(p)'
<1>0. JInv /\ entry \in [Procs -> Entry] /\ DOMAIN pc = Procs
  BY DEF RInv, JInv, IInv, TypeInv, TypeOK
<1>1. ASSUME pc'[p] \in {"record", "rerecord"}
      PROVE  CheckStep(p) \/ StepWrites(p) \/ StepRejected(p) \/ ReadBack(p) \/ UndoWrites(p) \/ UndoRejected(p)
  BY <1>0, <1>1, WhoRecords
<1>2. ASSUME CheckStep(p) \/ StepRejected(p), pc'[p] \in {"record", "rerecord"} PROVE CallerSays(p)'
  <2>1. \E status \in {"skipped", "conflict", "failed"} : \E obj :
           entry'[p] = NewEntry(status, obj, 0)
    BY <1>0, <1>2 DEF CheckStep, StepRejected, Prepare, Goto
  <2>2. entry'[p].status # "done"
    BY <2>1 DEF NewEntry
  <2> QED BY <2>2 DEF CallerSays, Tells, Names, Back
<1>3. ASSUME StepWrites(p) PROVE CallerSays(p)'
  <2>1. pc'[p] = "record" /\ Tells(Position(p), entry[p])'
    BY <1>0, <1>3, StepIsCalm DEF StepWrites, Prepare, Goto
  <2> QED BY <2>1 DEF CallerSays
<1>4. ASSUME ReadBack(p) \/ UndoWrites(p) \/ UndoRejected(p) PROVE CallerSays(p)'
  <2>1. pc'[p] # "record" /\ Newest(todo[p])' = Newest(todo[p])
    BY <1>0, <1>4 DEF ReadBack, UndoWrites, UndoRejected, UndoUnchanged, Prepare, Goto, Newest
  <2>2. ASSUME pc'[p] = "rerecord", NEW n \in Newest(todo[p]) PROVE Tells(n, entry[p])'
    BY <1>4, <2>2, ReadBackSays, RejectedSays, UndoIsCalm
  <2> QED BY <2>1, <2>2 DEF CallerSays
<1>5. CASE pc'[p] \notin {"record", "rerecord"}
  BY <1>5 DEF CallerSays
<1> QED BY <1>1, <1>2, <1>3, <1>4, <1>5

LEMMA SayingGoesOn ==
    ASSUME RInv, WritesOnly, OldHierarchy, "lost" \notin Faults, edits = 0, edits' = 0, [Next]_vars
    PROVE  SaysInv'
<1>0. JInv
  BY DEF RInv
<1>1. ASSUME NEW q \in Procs PROVE CallerSays(q)'
  <2>1. CASE Idles(q)
    BY <2>1, IdlersSay
  <2>2. CASE pc'[q] = "idle"
    BY <2>2 DEF CallerSays
  <2>3. CASE Calls(q) \/ Proceed(q)
    BY <2>3, ActorsSay
  <2> QED BY <1>0, <2>1, <2>2, <2>3, WhoMoves DEF Bystands
<1> QED BY <1>1, EntriesSay DEF SaysInv

\* What becomes of the maker of an object.
LEMMA StaysMade ==
    ASSUME JInv, WritesOnly, [Next]_vars, NEW i, Made(i)
    PROVE  Made(i)'
<1>0. steps' = steps
  BY StepsKept
<1>1. ASSUME NEW n \in DonePositions(file), Makes(n, file.journal[n], i) PROVE Made(i)'
  <2>1. n \in DonePositions(file)' /\ file'.journal[n].obj = file.journal[n].obj
    BY DoneStays
  <2>2. file'.journal[n].status = "done"
    BY <2>1 DEF DonePositions
  <2> QED BY <1>0, <1>1, <2>1, <2>2 DEF Made, Makes
<1>2. ASSUME NEW p \in Procs, pc[p] = "record", Makes(Position(p), entry[p], i) PROVE Made(i)'
  <2>1. file.status = "applying" /\ \A q \in Procs : Running(q) => q = p
    BY <1>2, StepperStands, OwnerAlone DEF Stepping, Owner, JInv
  <2>2. CASE Calls(p) \/ Proceed(p)
    <3>1. RecordStep(p)
      BY <1>2, <2>2
      DEF Calls, Proceed, CallTurnedAway, CallAdmitted, PruneReads, Arrive, PruneUnlinks, CheckSaves,
          TakeStoreLock, ClaimRefused, ClaimReads, ApplyClaimSaves, RollbackClaimSaves, CheckStep,
          StepWrites, StepRejected, ReadBack, UndoWrites, AboutToUndo, UndoRejected, RecordRevert,
          Link, FinishApply, FinishRollback
    <3>2. /\ Position(p) \in DonePositions(file)' /\ file'.journal[Position(p)] = entry[p]
      BY <1>2, <3>1, RecordedIsDone DEF Makes
    <3> QED BY <1>0, <1>2, <3>2 DEF Made, Makes
  <2>3. CASE Idles(p)
    <3>1. pc'[p] = "record" /\ entry'[p] = entry[p] /\ Position(p)' = Position(p)
      BY <1>2, <2>3 DEF Idles, Position
    <3> QED BY <1>0, <1>2, <3>1 DEF Made, Makes
  <2>4. CASE pc'[p] = "idle" /\ file' = file /\ \A q \in Procs : Bystands(q)
    <3>1. ASSUME NEW q \in Procs PROVE ~Running(q)'
      BY <2>1, <2>4 DEF Bystands, Idles, Running
    <3> QED BY <2>1, <2>4, <3>1 DEF Made
  <2> QED BY <2>2, <2>3, <2>4, WhoMoves DEF Bystands
<1>3. ASSUME file.status = "applying", \A p \in Procs : ~Running(p) PROVE Made(i)'
  <2>1. file' = file /\ \A p \in Procs : ~Running(p)'
    <3>1. ASSUME NEW p \in Procs, Calls(p) \/ Proceed(p), \A q \in Procs : q # p => Idles(q)
          PROVE  file' = file /\ \A q \in Procs : ~Running(q)'
      BY <1>3, <3>1, IdlersStay DEF Idles, Running
    <3>2. ASSUME UNCHANGED <<steps, file, landed>>, \A q \in Procs : Bystands(q)
          PROVE  file' = file /\ \A q \in Procs : ~Running(q)'
      BY <1>3, <3>2 DEF Bystands, Idles, Running
    <3> QED BY <3>1, <3>2, WhoMoves
  <2> QED BY <1>3, <2>1 DEF Made
<1> QED BY <1>1, <1>2, <1>3 DEF Made

LEMMA ObjectsGoOn ==
    ASSUME RInv, WritesOnly, OldHierarchy, "lost" \notin Faults, edits = 0, edits' = 0, [Next]_vars
    PROVE  OldInv' /\ NewInv'
<1>0. JInv /\ WorldInv /\ OldInv /\ NewInv /\ steps' = steps /\ CalmStep
      /\ DOMAIN pc = Procs /\ \A i \in Ids : world[i].ver \in Nat
  BY StepsKept, CalmlyOn, ObjectTyped DEF RInv, RestoreInv, JInv, IInv, TypeInv, TypeOK
<1>1. landed \subseteq landed'
  <2>1. ASSUME NEW p \in Procs, StepWrites(p) \/ UndoWrites(p) PROVE landed \subseteq landed'
    BY <2>1 DEF StepWrites, UndoWrites, UndoUnchanged
  <2> QED BY <1>0, <2>1, WhoWrites
<1>2. \A n, i : (Deleting(n, i)' <=> Deleting(n, i)) /\ (Updating(n, i)' <=> Updating(n, i))
  BY <1>0 DEF Deleting, Updating
<1>3. OldInv'
  <2>1. ASSUME NEW i \in Existing
        PROVE  /\ world'[i].val \in {"orig", "plan"}
               /\ ~world'[i].live => \E n \in landed' : Deleting(n, i)
               /\ world'[i].val = "plan" => \E n \in landed' : Updating(n, i)
    <3>1. world'[i].val \in {"orig", "plan"}
      BY <1>0 DEF OldInv, CalmStep
    <3>2. /\ ~world[i].live => \E n \in landed : Deleting(n, i)
          /\ world[i].val = "plan" => \E n \in landed : Updating(n, i)
      BY <1>0 DEF OldInv
    <3>3. /\ ~world'[i].live => ~world[i].live \/ \E n \in landed' : Deleting(n, i)
          /\ world'[i].val = "plan" => world[i].val = "plan" \/ \E n \in landed' : Updating(n, i)
      BY CalmlyOn
    <3> QED BY <1>1, <3>1, <3>2, <3>3
  <2> QED BY <1>2, <2>1 DEF OldInv
<1>4. ASSUME NEW i \in Ids \ Existing, world'[i].live, world'[i].val = "plan" PROVE Made(i)'
  <2>1. CASE world[i].ver = 0
    <3>1. PICK p \in Procs : StepWrites(p) /\ Makes(Position(p), entry'[p], i)
      BY <1>4, <2>1, CalmlyOn
    <3>2. pc'[p] = "record" /\ Position(p)' = Position(p)
      BY <1>0, <3>1 DEF StepWrites, Prepare, Goto, LoopUnchanged, Position
    <3> QED BY <1>0, <3>1, <3>2 DEF Made, Makes
  <2>2. CASE world[i].ver # 0
    <3>1. world[i].live /\ world[i].val = "plan"
      BY <1>0, <1>4, <2>2 DEF CalmStep
    <3> QED BY <1>0, <1>4, <3>1, StaysMade DEF NewInv, Live
  <2> QED BY <2>1, <2>2
<1> QED BY <1>3, <1>4 DEF NewInv, Live

LEMMA RestoringGoesOn ==
    ASSUME RInv, WritesOnly, OldHierarchy, "lost" \notin Faults, [Next]_vars
    PROVE  RInv'
<1>1. JInv' /\ steps' = steps
  BY PlanStep, StepsKept DEF RInv
<1>2. WorldInv'
  BY <1>1, WorldGrows, KnownStays DEF RInv, JInv, IInv
<1>3. edits' = 0 => edits = 0
  <2>1. \A p \in Procs : StepWrites(p) \/ UndoWrites(p) => edits' = edits
    BY CallersDoNotEdit
  <2>2. edits' = edits \/ edits' = edits + 1
    BY <2>1, WhoWrites DEF RInv
  <2> QED BY <2>2 DEF RInv, JInv, IInv, TypeInv, TypeOK
<1>4. RestoreInv'
  BY <1>3, SayingGoesOn, ObjectsGoOn DEF RestoreInv
<1> QED BY <1>1, <1>2, <1>4, RevertsGoOn, AccountGoesOn DEF RInv

-----------------------------------------------------------------------------

LEMMA RestoringStarts == Init => RInv
<1> SUFFICES ASSUME Init PROVE RInv
  OBVIOUS
<1>1. JInv
  BY TypeInit, ClaimInit, PlanInit DEF JInv, IInv
<1>2. WorldInv
  BY DEF Init, WorldInv
<1>3. file.status = "planned" /\ file.journal = <<>> /\ Len(file.journal) = 0 /\ landed = {}
      /\ \A p \in Procs : pc[p] = "idle"
  BY DEF Init
<1>4. DonePositions(file) = {}
  BY <1>3 DEF DonePositions
<1>5. RevertsInv /\ AccountInv /\ SaysInv
  BY <1>3, <1>4 DEF RevertsInv, Reverted, AccountInv, Running, SaysInv, CallerSays
<1>6. \A i \in Ids : world[i] = IF i \in Existing
                  THEN [live |-> TRUE, val |-> "orig", ver |-> 1, key |-> NoKey]
                  ELSE [live |-> FALSE, val |-> "none", ver |-> 0, key |-> NoKey]
  BY DEF Init
<1>7. OldInv
  <2>1. \A i \in Existing : i \in Ids
    BY ConstantsAssumption
  <2>2. \A i \in Existing : world[i].live /\ world[i].val = "orig"
    BY <1>6, <2>1
  <2> QED BY <2>2 DEF OldInv
<1>8. NewInv
  BY <1>6 DEF NewInv, Live
<1> QED BY <1>1, <1>2, <1>5, <1>7, <1>8 DEF RInv, RestoreInv

\* What the status promises, from what the entries say.
LEMMA Restores ==
    ASSUME RInv, file.status = "rolled_back", edits = 0
    PROVE  /\ \A i \in Existing : Restored(i) \/ Cascaded(i)
           /\ \A i \in Live : world[i].val # "plan"
<1>0. JInv /\ SaysInv /\ OldInv /\ NewInv
  BY DEF RInv, RestoreInv
<1>1. landed \subseteq DonePositions(file)
  BY DEF RInv, AccountInv
<1>2. ASSUME NEW n \in DonePositions(file)
      PROVE  /\ Tells(n, file.journal[n])
             /\ file.journal[n].status = "done" /\ file.journal[n].revert = "reverted"
  BY <1>0, <1>2 DEF RInv, RevertsInv, Reverted, SaysInv, DonePositions
<1>3. ASSUME NEW i \in Existing PROVE world[i].val = "orig"
  <2>1. ASSUME NEW n \in landed, Updating(n, i) PROVE world[i].val # "plan"
    BY <1>1, <1>2, <2>1 DEF Updating, Tells, Names, Back
  <2> QED BY <1>0, <2>1 DEF OldInv
<1>4. ASSUME NEW i \in Existing PROVE Restored(i) \/ Cascaded(i)
  <2>1. CASE world[i].live
    BY <1>3, <2>1, ConstantsAssumption DEF Restored, Live
  <2>2. ASSUME NEW n \in landed, Deleting(n, i), steps[n].obj = i PROVE Restored(i)
    BY <1>1, <1>2, <2>2 DEF Deleting, Tells, Back, Restored, Recreated, Live
  <2> QED BY <1>0, <2>1, <2>2 DEF OldInv, Deleting, Cascaded
<1>5. ASSUME NEW i \in Live, i \notin Existing PROVE world[i].val # "plan"
  <2>1. \A p \in Procs : pc[p] # "record"
    BY <1>0, StepperStands DEF Stepping
  <2>2. ASSUME NEW n \in DonePositions(file), Makes(n, file.journal[n], i) PROVE FALSE
    BY <1>2, <1>5, <2>2 DEF Makes, Tells, Back, Live
  <2> QED BY <1>0, <1>5, <2>1, <2>2 DEF NewInv, Made
<1> QED BY <1>3, <1>4, <1>5

\* "rolled_back" is a promise about NetBox: when nobody else wrote to it and
\* no response was lost, every object of planning time is what it was, a
\* deleted one as a re-created copy that lacks the fields its journal entry
\* says were dropped and no others, and nothing the plan created or changed is
\* left, whatever conflicts, rejections, retries, deaths, failing saves and
\* repeated rollbacks lay between (rollback_plan, _recreate, executor.py).
THEOREM RolledBackRestoresAlways ==
    ASSUME WritesOnly, OldHierarchy
    PROVE  Spec => []RolledBackRestores
<1>1. CASE "lost" \notin Faults
  <2>1. RInv /\ [Next]_vars => RInv'
    BY <1>1, RestoringGoesOn
  <2>2. RInv => RolledBackRestores
    BY Restores DEF RolledBackRestores
  <2> QED BY <2>1, <2>2, RestoringStarts, PTL DEF Spec
<1>2. CASE "lost" \in Faults
  <2>1. RolledBackRestores
    BY <1>2 DEF RolledBackRestores
  <2> QED BY <2>1, PTL
<1> QED BY <1>1, <1>2

-----------------------------------------------------------------------------
(***************************************************************************)
(* 4. What Executor says of it.                                            *)
(*                                                                         *)
(* The audit trail, one event behind the journal.  What a caller owes is what *)
(* it saved last (OwedInv), so that what the trail says of a position is in   *)
(* the order it happened in, whichever of the events it lacks.             *)
(***************************************************************************)

\* What an event that tells of no step and no revert is called.
PlainNames == {"apply_refused", "rollback_refused", "plans_pruned", "plan_checked", "apply_started",
               "rollback_started", "apply_finished", "rollback_finished", "changelog_linked", ""}
StepNames == {"step_done", "step_skipped", "step_conflict", "step_failed"}
RevertNames == {"revert_reverted", "revert_conflict", "revert_failed"}
Event == [event : PlainNames \cup StepNames \cup RevertNames, n : Nat]
TrailTyped == owed \in [Procs -> Event] /\ trail \in Seq(Event)

\* What a caller that owes an event knows: it is still in its loop, and the
\* event says what it saved last.
OwedInv(p) ==
    /\ IsStep(owed[p]) =>
          /\ Running(p) /\ file.status = "applying" /\ file.journal # <<>>
          /\ owed[p] = StepEvent(Len(file.journal), file.journal[Len(file.journal)])
          /\ \A j \in DOMAIN trail : IsStep(trail[j]) => trail[j].n < Len(file.journal)
    /\ IsRevert(owed[p]) =>
          /\ Running(p) /\ file.status = "rolling_back"
          /\ \E n \in DonePositions(file) : owed[p] = RevertEvent(n, file.journal[n])

NoRevertYet ==
    file.status \in {"planned", "applying"} => \A j \in DOMAIN trail : ~IsRevert(trail[j])

TrailInv ==
    TrailTyped /\ NoRevertYet /\ TrailAgrees /\ \A p \in Procs : OwedInv(p)

AuditedInv == JInv /\ TrailInv

-----------------------------------------------------------------------------
(* Events.                                                                 *)

\* An event that tells of no step and no revert.
Plain(e) == e \in Event /\ ~IsStep(e) /\ ~IsRevert(e)

LEMMA ToldPlain == \A name \in PlainNames : Plain(Told(name))
  BY DEF PlainNames, Plain, Event, Told, IsStep, IsRevert

LEMMA StepEventSays ==
    ASSUME NEW n \in Nat, NEW e
    PROVE  /\ StepEvent(n, e) \in Event /\ StepEvent(n, e).n = n
           /\ IsStep(StepEvent(n, e)) /\ ~IsRevert(StepEvent(n, e))
           /\ e.status = "done" => StepEvent(n, e) = [event |-> "step_done", n |-> n]
           /\ \A f : f.status = e.status => StepEvent(n, f) = StepEvent(n, e)
  BY DEF StepEvent, Event, StepNames, IsStep, IsRevert

LEMMA RevertEventSays ==
    ASSUME NEW n \in Nat, NEW e
    PROVE  /\ RevertEvent(n, e) \in Event /\ RevertEvent(n, e).n = n
           /\ IsRevert(RevertEvent(n, e)) /\ ~IsStep(RevertEvent(n, e))
  BY DEF RevertEvent, Event, RevertNames, IsStep, IsRevert

\* Where the trail's positions are, and what one more event does to it.
LEMMA TrailAppend ==
    ASSUME TrailTyped, NEW e \in Event
    PROVE  /\ DOMAIN trail = 1..Len(trail) /\ Len(trail) \in Nat
           /\ Append(trail, e) \in Seq(Event)
           /\ DOMAIN Append(trail, e) = 1..(Len(trail) + 1)
           /\ Len(Append(trail, e)) = Len(trail) + 1
           /\ \A k \in 1..Len(trail) : Append(trail, e)[k] = trail[k] /\ trail[k] \in Event
           /\ Append(trail, e)[Len(trail) + 1] = e
  BY DEF TrailTyped

\* The owner of the plan has told all it saved before it goes on.
LEMMA OwnerSettled ==
    ASSUME IInv, TrailInv, NEW p \in Procs, Owner(p), Settled(p)
    PROVE  \A q \in Procs : ~IsStep(owed[q]) /\ ~IsRevert(owed[q])
<1>1. Plain(owed[p])
  BY ToldPlain DEF Settled, Silence, PlainNames
<1>2. \A q \in Procs : q # p => ~Running(q)
  BY OwnerAlone DEF Owner
<1> QED BY <1>1, <1>2 DEF TrailInv, OwedInv, Plain

-----------------------------------------------------------------------------
(* The two halves of TrailAgrees, for one position of the journal and one   *)
(* of the trail.                                                           *)

Known(n) ==
    /\ Said(StepEvent(n, file.journal[n])) \/ Unsaid(StepEvent(n, file.journal[n]))
    /\ file.journal[n].revert # "none" =>
          LastSaid(RevertEvent(n, file.journal[n])) \/ Unsaid(RevertEvent(n, file.journal[n]))

Truthful(k) ==
    /\ IsStep(trail[k]) =>
          /\ trail[k].n \in DOMAIN file.journal
          /\ trail[k] = StepEvent(trail[k].n, file.journal[trail[k].n])
          /\ \A j \in 1..(k - 1) :
                ~IsRevert(trail[j]) /\ (IsStep(trail[j]) => trail[j].n < trail[k].n)
    /\ IsRevert(trail[k]) => trail[k].n \in DonePositions(file)

LEMMA AgreesMeans ==
    TrailAgrees <=>
        (file # NoPlan => (\A n \in DOMAIN file.journal : Known(n)) /\ \A k \in DOMAIN trail : Truthful(k))
  BY DEF TrailAgrees, Known, Truthful

LEMMA AgreesNext ==
    ASSUME \A n \in DOMAIN file'.journal : Known(n)', \A k \in DOMAIN trail' : Truthful(k)'
    PROVE  TrailAgrees'
  BY DEF TrailAgrees, Known, Truthful

LEMMA NothingSilent ==
    ASSUME NEW n \in Nat, n # 0, NEW e
    PROVE  /\ IsStep(StepEvent(n, e)) /\ StepEvent(n, e).n # 0 /\ StepEvent(n, e) # Silence
           /\ IsRevert(RevertEvent(n, e)) /\ RevertEvent(n, e).n # 0 /\ RevertEvent(n, e) # Silence
  BY DEF StepEvent, RevertEvent, IsStep, IsRevert, Silence, Told

\* An entry that stays stays known while the trail stands still.
LEMMA KnownKept ==
    ASSUME NEW n \in Nat, n # 0, Known(n), file'.journal[n] = file.journal[n], trail' = trail,
           \A e : (IsStep(e) \/ IsRevert(e)) /\ e.n # 0 /\ Unsaid(e) => Unsaid(e)'
    PROVE  Known(n)'
<1> DEFINE step == StepEvent(n, file.journal[n])
           revert == RevertEvent(n, file.journal[n])
<1>1. step' = step /\ revert' = revert
  OBVIOUS
<1>2. IsStep(step) /\ step.n # 0 /\ IsRevert(revert) /\ revert.n # 0
  BY NothingSilent
<1> HIDE DEF step, revert
<1>3. (Said(step) => Said(step)') /\ (LastSaid(revert) => LastSaid(revert)')
  BY <1>1 DEF Said, LastSaid, IsRevert
<1>4. (Unsaid(step) => Unsaid(step)') /\ (Unsaid(revert) => Unsaid(revert)')
  BY <1>1, <1>2
<1> QED BY <1>3, <1>4 DEF Known, step, revert

\* What the trail says stays true when no entry changes its status.
LEMMA TruthKept ==
    ASSUME NEW k, Truthful(k), trail' = trail, DOMAIN file.journal \subseteq DOMAIN file'.journal,
           DonePositions(file) \subseteq DonePositions(file)',
           \A n \in DOMAIN file.journal : file'.journal[n].status = file.journal[n].status
    PROVE  Truthful(k)'
  BY DEF Truthful, IsStep, IsRevert, StepEvent

-----------------------------------------------------------------------------
(* Steps that neither record nor say.                                      *)

\* The journal and the trail stay; what is owed of steps and reverts stays
\* owed, or is lost.
LEMMA TrailKept ==
    ASSUME TrailInv, file # NoPlan, file' # NoPlan,
           file'.journal = file.journal, trail' = trail, owed' \in [Procs -> Event],
           \A e : (IsStep(e) \/ IsRevert(e)) /\ e.n # 0 /\ Unsaid(e) => Unsaid(e)',
           \A q \in Procs : IsStep(owed'[q]) \/ IsRevert(owed'[q]) =>
              owed'[q] = owed[q] /\ Running(q)' /\ file'.status = file.status,
           file'.status \in {"planned", "applying"} => file.status \in {"planned", "applying"},
           file.journal \in Seq(Entry)
    PROVE  TrailInv'
<1>1. TrailTyped' /\ NoRevertYet'
  BY DEF TrailInv, TrailTyped, NoRevertYet, IsStep, IsRevert
<1>2. DonePositions(file)' = DonePositions(file)
  BY DEF DonePositions
<1>3. \A q \in Procs : OwedInv(q)'
  <2>1. ASSUME NEW q \in Procs, IsStep(owed'[q]) PROVE OwedInv(q)'
    <3>1. /\ owed'[q] = owed[q] /\ Running(q)' /\ file'.status = file.status
          /\ OwedInv(q) /\ IsStep(owed[q]) /\ ~IsRevert(owed[q])
      BY <2>1 DEF TrailInv, IsStep, IsRevert
    <3> QED BY <3>1 DEF OwedInv, IsStep, IsRevert, StepEvent
  <2>2. ASSUME NEW q \in Procs, IsRevert(owed'[q]) PROVE OwedInv(q)'
    <3>1. /\ owed'[q] = owed[q] /\ Running(q)' /\ file'.status = file.status
          /\ OwedInv(q) /\ IsRevert(owed[q]) /\ ~IsStep(owed[q])
      BY <2>2 DEF TrailInv, IsStep, IsRevert
    <3>2. PICK n \in DonePositions(file) : owed[q] = RevertEvent(n, file.journal[n])
      BY <3>1 DEF OwedInv
    <3>3. n \in DonePositions(file)' /\ owed'[q] = RevertEvent(n, file'.journal[n])
      BY <1>2, <3>1, <3>2
    <3> QED BY <3>1, <3>3 DEF OwedInv, IsStep, IsRevert, RevertEvent
  <2> QED BY <2>1, <2>2 DEF OwedInv, IsStep, IsRevert
<1>4. TrailAgrees'
  <2>1. ASSUME NEW n \in DOMAIN file.journal PROVE Known(n)'
    <3>1. n \in Nat /\ n # 0
      OBVIOUS
    <3> QED BY <3>1, AgreesMeans, KnownKept DEF TrailInv
  <2>2. ASSUME NEW k \in DOMAIN trail PROVE Truthful(k)'
    BY <1>2, AgreesMeans, TruthKept DEF TrailInv
  <2> QED BY <2>1, <2>2, AgreesNext
<1> QED BY <1>1, <1>3, <1>4 DEF TrailInv

\* A caller that owes nothing moves without saving a step or a revert.
LEMMA PlainMove ==
    ASSUME IInv, TrailInv, NEW p \in Procs, Settled(p), NEW e, Plain(e), owed' = [owed EXCEPT ![p] = e],
           UNCHANGED <<trail, unsaid>>, file' # NoPlan, file'.journal = file.journal,
           \/ file' = file /\ \A q \in Procs : Running(q)' <=> Running(q)
           \/ /\ Owner(p)
              /\ file'.status \in {"planned", "applying"} => file.status \in {"planned", "applying"}
    PROVE  TrailInv'
<1>1. Plain(owed[p]) /\ owed \in [Procs -> Event] /\ file # NoPlan /\ file.journal \in Seq(Entry)
  BY ToldPlain, FileTyped DEF Settled, Silence, PlainNames, TrailInv, TrailTyped, IInv, ClaimInv
<1>2. owed' \in [Procs -> Event] /\ \A q \in Procs : owed'[q] = IF q = p THEN e ELSE owed[q]
  BY <1>1 DEF Plain
<1>3. \A f : (IsStep(f) \/ IsRevert(f)) /\ Unsaid(f) => Unsaid(f)'
  BY <1>1, <1>2 DEF Unsaid, Plain
<1>4. CASE file' = file /\ \A q \in Procs : Running(q)' <=> Running(q)
  <2>1. \A q \in Procs : IsStep(owed'[q]) \/ IsRevert(owed'[q]) =>
           owed'[q] = owed[q] /\ Running(q)' /\ file'.status = file.status
    BY <1>2, <1>4 DEF TrailInv, OwedInv, Plain
  <2> QED BY <1>1, <1>2, <1>3, <1>4, <2>1, TrailKept
<1>5. CASE /\ Owner(p)
           /\ file'.status \in {"planned", "applying"} => file.status \in {"planned", "applying"}
  <2>1. \A q \in Procs : ~IsStep(owed'[q]) /\ ~IsRevert(owed'[q])
    BY <1>2, <1>5, OwnerSettled DEF Plain
  <2> QED BY <1>1, <1>2, <1>3, <1>5, <2>1, TrailKept
<1> QED BY <1>4, <1>5

LEMMA QuietlyOwes ==
    ASSUME TrailTyped, NEW p \in Procs, Settled(p), Quietly
    PROVE  owed' = [owed EXCEPT ![p] = Silence] /\ UNCHANGED <<trail, unsaid>> /\ Plain(Silence)
  BY ToldPlain DEF TrailTyped, Settled, Quietly, audit, Silence, PlainNames

\* Steps that leave the file and everybody's place in the loops alone.
LEMMA BystandingKeepsTrail ==
    ASSUME JInv, TrailInv, NEW p \in Procs, Settled(p), NEW e, Plain(e), Owes(p, e), file' = file,
           NEW at, pc' = [pc EXCEPT ![p] = at],
           Running(p) <=> at \in {"step", "write", "record"} \cup Undoing \cup {"link", "finish"}
    PROVE  TrailInv'
<1>1. \A q \in Procs : Running(q)' <=> Running(q)
  BY DEF Running, Undoing, JInv, IInv, TypeInv, TypeOK
<1> QED BY <1>1, PlainMove DEF Owes, JInv, IInv, ClaimInv

LEMMA ArrivingKeepsTrail ==
    ASSUME WritesOnly, JInv, TrailInv, NEW p \in Procs, Settled(p), Arrives(p)
    PROVE  TrailInv'
<1>1. ~PruneReads(p) /\ ~PruneUnlinks(p) /\ ~CheckSaves(p)
  BY DEF WritesOnly, PruneReads, PruneUnlinks, CheckSaves, JInv, IInv, ClaimInv
<1>2. CASE CallTurnedAway(p) /\ Owes(p, Refusal(req'[p].op))
  <2>1. Plain(Refusal(req'[p].op))
    BY ToldPlain DEF Refusal, PlainNames
  <2>2. file' = file /\ pc' = [pc EXCEPT ![p] = "idle"] /\ ~Running(p)
    BY <1>2 DEF CallTurnedAway, Arrive, Return, Goto, Running, plan
  <2> QED BY <1>2, <2>1, <2>2, BystandingKeepsTrail DEF Undoing
<1>3. CASE CallAdmitted(p) /\ Quietly
  <2>1. Owes(p, Silence) /\ Plain(Silence)
    BY <1>3, QuietlyOwes DEF Owes, TrailInv
  <2>2. file' = file /\ ~Running(p) /\ \E at \in {"check", "claim"} : pc' = [pc EXCEPT ![p] = at]
    BY <1>3 DEF CallAdmitted, Arrive, Goto, Running, plan
  <2> QED BY <2>1, <2>2, BystandingKeepsTrail DEF Undoing
<1> QED BY <1>1, <1>2, <1>3 DEF Arrives

LEMMA ClaimingKeepsTrail ==
    ASSUME JInv, TrailInv, NEW p \in Procs, Settled(p), Claims(p)
    PROVE  TrailInv'
<1>1. CASE (TakeStoreLock(p) \/ ClaimReads(p)) /\ Quietly
  <2>1. Owes(p, Silence) /\ Plain(Silence)
    BY <1>1, QuietlyOwes DEF Owes, TrailInv
  <2>2. file' = file /\ ~Running(p) /\ \E at \in {"wait", "save"} : pc' = [pc EXCEPT ![p] = at]
    BY <1>1 DEF TakeStoreLock, ClaimReads, Goto, Running, plan
  <2> QED BY <2>1, <2>2, BystandingKeepsTrail DEF Undoing
<1>2. CASE ClaimRefused(p) /\ Owes(p, Refusal(req[p].op))
  <2>1. Plain(Refusal(req[p].op))
    BY ToldPlain DEF Refusal, PlainNames
  <2>2. file' = file /\ ~Running(p) /\ pc' = [pc EXCEPT ![p] = "idle"]
    BY <1>2 DEF ClaimRefused, Return, Goto, Running, plan
  <2> QED BY <1>2, <2>1, <2>2, BystandingKeepsTrail DEF Undoing
<1>3. CASE ApplyClaimSaves(p) /\ Owes(p, Told("apply_started"))
  <2>1. Owner(p) /\ mem[p] = file /\ file.status = "planned"
    BY <1>3, OwnerAlone DEF ApplyClaimSaves, Applying, Owner, JInv, IInv, ClaimInv, IN_FLIGHT
  <2>2. file.journal = <<>>
    BY <2>1 DEF JInv, PlanInv, JournalInv
  <2>3. file' = [status |-> "applying", journal |-> <<>>]
    BY <1>3 DEF ApplyClaimSaves, Save
  <2>4. Plain(Told("apply_started")) /\ file' # NoPlan
    BY <1>3, ToldPlain, ClaimSavesKeepsClaim DEF PlainNames, JInv, ClaimInv
  <2> QED BY <1>3, <2>1, <2>2, <2>3, <2>4, PlainMove DEF Owes, JInv
<1>4. CASE RollbackClaimSaves(p) /\ Owes(p, Told("rollback_started"))
  <2>1. Owner(p) /\ mem[p] = file /\ file \in Doc
    BY <1>4, OwnerAlone, FileTyped DEF RollbackClaimSaves, Owner, JInv
  <2>2. file'.status = "rolling_back" /\ file'.journal = file.journal
    BY <1>4, <2>1 DEF RollbackClaimSaves, Save, Doc
  <2>3. Plain(Told("rollback_started"))
    BY ToldPlain DEF PlainNames
  <2>4. file' # NoPlan
    BY <1>4, ClaimSavesKeepsClaim DEF JInv, ClaimInv
  <2> QED BY <1>4, <2>1, <2>2, <2>3, <2>4, PlainMove DEF Owes, JInv
<1> QED BY <1>1, <1>2, <1>3, <1>4 DEF Claims

LEMMA FinishingKeepsTrail ==
    ASSUME JInv, TrailInv, NEW p \in Procs, Settled(p), Finishes(p)
    PROVE  TrailInv'
<1>1. CASE Link(p) /\ Owes(p, IF Settings[p].link_changelog THEN Told("changelog_linked") ELSE Silence)
  <2>1. \E e : Plain(e) /\ Owes(p, e)
    <3>1. Plain(Told("changelog_linked")) /\ Plain(Silence)
      BY ToldPlain DEF PlainNames, Silence
    <3> QED BY <1>1, <3>1
  <2>2. file' = file /\ pc[p] = "link" /\ pc' = [pc EXCEPT ![p] = "finish"]
    BY <1>1, RunnerOwns DEF Link, Save, Goto, Running, JInv
  <2> QED BY <2>1, <2>2, BystandingKeepsTrail DEF Running
<1>2. ASSUME NEW name \in {"apply_finished", "rollback_finished"},
             FinishApply(p) \/ FinishRollback(p), Owes(p, Told(name))
      PROVE  TrailInv'
  <2>1. Owner(p) /\ mem[p] = file /\ file \in Doc /\ file.status \in IN_FLIGHT /\ Running(p)
    BY <1>2, RunnerOwns DEF FinishApply, FinishRollback, Running, JInv
  <2>2. file'.journal = file.journal /\ file'.status \notin {"planned", "applying"}
    BY <1>2, <2>1 DEF FinishApply, FinishRollback, Save, Doc, ApplyStatus
  <2>3. file' # NoPlan
    BY <1>2, FinishingKeepsClaim DEF JInv, ClaimInv
  <2>4. Plain(Told(name))
    BY ToldPlain DEF PlainNames
  <2> QED BY <1>2, <2>1, <2>2, <2>3, <2>4, PlainMove DEF Owes, JInv
<1> QED BY <1>1, <1>2 DEF Finishes

LEMMA TalkingKeepsTrail ==
    ASSUME JInv, TrailInv, NEW p \in Procs, Settled(p), Quietly,
           CheckStep(p) \/ StepWrites(p) \/ StepRejected(p)
           \/ ReadBack(p) \/ UndoWrites(p) \/ UndoRejected(p)
    PROVE  TrailInv'
<1>1. Owes(p, Silence) /\ Plain(Silence)
  BY QuietlyOwes DEF Owes, TrailInv
<1>2. file' = file /\ Running(p)
  BY DEF CheckStep, StepWrites, StepRejected, LoopUnchanged, ReadBack, UndoWrites, UndoRejected,
         UndoUnchanged, plan, Running, AboutToUndo
<1>3. \E at \in {"write", "record"} \cup Undoing : pc' = [pc EXCEPT ![p] = at]
  BY DEF CheckStep, StepWrites, StepRejected, ReadBack, UndoWrites, UndoRejected, Prepare, Goto, Undoing
<1> QED BY <1>1, <1>2, <1>3, BystandingKeepsTrail DEF Undoing

-----------------------------------------------------------------------------
(* The two saves of the loops, each followed by its event.                 *)

LEMMA RecordingStepKeepsTrail ==
    ASSUME JInv, TrailInv, NEW p \in Procs, Settled(p),
           RecordStep(p), Owes(p, StepEvent(Position(p), entry[p]))
    PROVE  TrailInv'
<1>1. /\ Owner(p) /\ mem[p] = file /\ Position(p) = Here /\ file.status = "applying"
      /\ pc[p] = "record" /\ file \in Doc /\ file.journal \in Seq(Entry) /\ Len(file.journal) \in Nat
      /\ entry[p] \in Entry /\ entry[p].revert = "none" /\ Here \in Nat /\ Here # 0
  <2>1. pc[p] = "record" /\ pc[p] \in Stepping
    BY DEF RecordStep, Stepping
  <2>2. Owner(p) /\ mem[p] = file /\ Position(p) = Here /\ file.status = "applying"
    BY <2>1, StepperStands
  <2>3. file \in Doc /\ file.journal \in Seq(Entry) /\ Len(file.journal) \in Nat
    BY FileTyped DEF JInv
  <2>4. entry[p] \in Entry
    BY <2>1 DEF JInv, IInv, TypeInv, TypeOK
  <2>5. entry[p].revert = "none"
    BY <2>1 DEF JInv, PlanInv, CallerInv, StepperInv
  <2> QED BY <2>1, <2>2, <2>3, <2>4, <2>5 DEF Here
<1>2. file' = [file EXCEPT !.journal = Append(file.journal, entry[p])]
  BY <1>1 DEF RecordStep, Save
<1>3. /\ file'.status = "applying" /\ file'.journal = Append(file.journal, entry[p])
      /\ Len(file'.journal) = Here /\ DOMAIN file'.journal = 1..Here
      /\ DOMAIN file.journal = 1..Len(file.journal) /\ file'.journal # <<>>
      /\ \A i \in 1..Len(file.journal) : file'.journal[i] = file.journal[i]
      /\ file'.journal[Here] = entry[p]
  BY <1>1, <1>2 DEF Doc, Here
<1> DEFINE told == StepEvent(Here, entry[p])
<1>4. /\ told \in Event /\ told.n = Here /\ IsStep(told) /\ ~IsRevert(told)
  BY <1>1, StepEventSays
<1>5. /\ owed \in [Procs -> Event] /\ owed[p] = Silence /\ owed' = [owed EXCEPT ![p] = told]
      /\ trail' = trail /\ unsaid' = unsaid
  BY <1>1 DEF TrailInv, TrailTyped, Settled, Owes
<1> HIDE DEF told
<1>6. /\ \A q \in Procs : owed'[q] = IF q = p THEN told ELSE owed[q]
      /\ \A q \in Procs : q # p => ~IsStep(owed'[q]) /\ ~IsRevert(owed'[q])
  BY <1>1, <1>5, OwnerSettled DEF JInv
<1>7. Running(p)'
  <2>1. pc' = [pc EXCEPT ![p] = "step"] \/ pc' = [pc EXCEPT ![p] = "link"]
    BY DEF RecordStep, Goto, AfterStep
  <2> QED BY <2>1 DEF Running, JInv, IInv, TypeInv, TypeOK
<1>8. \A k \in DOMAIN trail : IsStep(trail[k]) =>
          trail[k].n \in 1..Len(file.journal) /\ trail[k] = StepEvent(trail[k].n, file.journal[trail[k].n])
  BY <1>1, <1>3, NoPlanNoDoc DEF TrailInv, TrailAgrees
<1>9. TrailTyped' /\ NoRevertYet'
  BY <1>1, <1>3, <1>4, <1>5, <1>6 DEF TrailInv, TrailTyped, NoRevertYet, IsStep, IsRevert
<1>10. \A q \in Procs : OwedInv(q)'
  <2>1. OwedInv(p)'
    <3>1. owed'[p] = StepEvent(Here, file'.journal[Here])
      BY <1>3, <1>6 DEF told
    <3>2. \A j \in DOMAIN trail' : IsStep(trail'[j]) => trail'[j].n < Here
      BY <1>1, <1>5, <1>8 DEF Here
    <3> QED BY <1>3, <1>4, <1>6, <1>7, <3>1, <3>2 DEF OwedInv, IsStep, IsRevert
  <2> QED BY <1>6, <2>1 DEF OwedInv, IsStep, IsRevert
<1>11. TrailAgrees'
  <2>1. \A e : (IsStep(e) \/ IsRevert(e)) /\ Unsaid(e) => Unsaid(e)'
    BY <1>5, <1>6, ToldPlain DEF Unsaid, Plain, Silence, PlainNames
  <2>2. ASSUME NEW n \in DOMAIN file'.journal PROVE Known(n)'
    <3>1. CASE n = Here
      <4>1. told = StepEvent(n, file'.journal[n]) /\ file'.journal[n].revert = "none"
        BY <1>1, <1>3, <3>1 DEF told
      <4>2. \A e : e = told => Unsaid(e)'
        BY <1>6 DEF Unsaid
      <4> QED BY <4>1, <4>2 DEF Known
    <3>2. CASE n # Here
      <4>1. n \in DOMAIN file.journal /\ n \in Nat /\ n # 0 /\ file'.journal[n] = file.journal[n]
        BY <1>1, <1>3, <3>2 DEF Here
      <4> QED BY <1>1, <1>5, <2>1, <4>1, AgreesMeans, KnownKept, NoPlanNoDoc DEF TrailInv
    <3> QED BY <3>1, <3>2
  <2>3. ASSUME NEW k \in DOMAIN trail PROVE Truthful(k)'
    <3>1. /\ DOMAIN file.journal \subseteq DOMAIN file'.journal
          /\ \A n \in DOMAIN file.journal : file'.journal[n].status = file.journal[n].status
          /\ DonePositions(file) \subseteq DonePositions(file)'
      BY <1>1, <1>3 DEF Here, DonePositions
    <3> QED BY <1>1, <1>5, <3>1, AgreesMeans, TruthKept, NoPlanNoDoc DEF TrailInv
  <2> QED BY <1>5, <2>2, <2>3, AgreesNext
<1> QED BY <1>9, <1>10, <1>11 DEF TrailInv

LEMMA RecordingRevertKeepsTrail ==
    ASSUME JInv, TrailInv, NEW p \in Procs, Settled(p), RecordRevert(p),
           NEW i \in Newest(todo[p]), Owes(p, RevertEvent(i, entry[p]))
    PROVE  TrailInv'
<1>1. /\ Owner(p) /\ Running(p) /\ file.status = "rolling_back" /\ pc[p] = "rerecord"
      /\ todo[p] \in SUBSET Nat /\ file \in Doc /\ file.journal \in Seq(Entry)
      /\ file # NoPlan
  BY ReverterStands, FileTyped, NoPlanNoDoc DEF RecordRevert, Undoing, JInv
<1>2. PICK n \in Newest(todo[p]) :
        /\ n \in Pending(file) /\ n \in 1..Len(file.journal)
        /\ Revises(entry[p], file.journal[n]) /\ file.journal[n] \in Entry
        /\ file'.status = "rolling_back"
        /\ Len(file'.journal) = Len(file.journal)
        /\ file'.journal = [file.journal EXCEPT ![n] = entry[p]]
        /\ \A j \in 1..Len(file.journal) :
              file'.journal[j] = IF j = n THEN entry[p] ELSE file.journal[j]
        /\ pc' = [pc EXCEPT ![p] = AfterRevert(todo[p] \ {n})]
  BY RecordRevertSaves
<1>3. n = i
  BY <1>1, NewestOne
<1>4. entry[p].status = file.journal[i].status /\ i \in DonePositions(file)
  BY <1>2, <1>3, RevisedKeeps DEF Pending
<1>5. /\ DOMAIN file'.journal = DOMAIN file.journal /\ DOMAIN file.journal = 1..Len(file.journal)
      /\ \A j \in DOMAIN file.journal :
            /\ file'.journal[j] = IF j = i THEN entry[p] ELSE file.journal[j]
            /\ file'.journal[j].status = file.journal[j].status
  BY <1>1, <1>2, <1>3, <1>4
<1> DEFINE told == RevertEvent(i, entry[p])
<1>6. i \in Nat /\ told \in Event /\ told.n = i /\ IsRevert(told) /\ ~IsStep(told)
  BY <1>2, <1>3, RevertEventSays
<1>7. /\ owed \in [Procs -> Event] /\ owed[p] = Silence /\ owed' = [owed EXCEPT ![p] = told]
      /\ trail' = trail /\ unsaid' = unsaid
  BY <1>1 DEF TrailInv, TrailTyped, Settled, Owes
<1> HIDE DEF told
<1>8. /\ \A q \in Procs : owed'[q] = IF q = p THEN told ELSE owed[q]
      /\ \A q \in Procs : q # p => ~IsStep(owed'[q]) /\ ~IsRevert(owed'[q])
  BY <1>1, <1>7, OwnerSettled DEF JInv
<1>9. Running(p)'
  BY <1>2 DEF AfterRevert, Running, JInv, IInv, TypeInv, TypeOK
<1>10. TrailTyped' /\ NoRevertYet'
  BY <1>1, <1>2, <1>6, <1>7, <1>8 DEF TrailInv, TrailTyped, NoRevertYet
<1>11. \A q \in Procs : OwedInv(q)'
  <2>1. i \in DonePositions(file)' /\ owed'[p] = RevertEvent(i, file'.journal[i])
    BY <1>2, <1>3, <1>4, <1>5, <1>8 DEF DonePositions, told
  <2>2. OwedInv(p)'
    BY <1>2, <1>6, <1>8, <1>9, <2>1 DEF OwedInv, IsStep, IsRevert
  <2> QED BY <1>8, <2>2 DEF OwedInv, IsStep, IsRevert
<1>12. TrailAgrees'
  <2>1. \A e : (IsStep(e) \/ IsRevert(e)) /\ Unsaid(e) => Unsaid(e)'
    BY <1>7, <1>8, ToldPlain DEF Unsaid, Plain, Silence, PlainNames
  <2>2. ASSUME NEW m \in DOMAIN file.journal, m # i PROVE Known(m)'
    <3>1. m \in Nat /\ m # 0 /\ file'.journal[m] = file.journal[m] /\ Known(m)
      BY <1>1, <1>5, <2>2, AgreesMeans DEF TrailInv
    <3> QED BY <1>7, <2>1, <3>1, KnownKept
  <2>3. Known(i)'
    <3>1. told = RevertEvent(i, file'.journal[i]) /\ \A e : e = told => Unsaid(e)'
      BY <1>2, <1>3, <1>5, <1>8 DEF told, Unsaid
    <3> DEFINE step == StepEvent(i, file.journal[i])
    <3>2. IsStep(step) /\ \A f : f.status = file.journal[i].status => StepEvent(i, f) = step
      BY <1>6, StepEventSays
    <3>3. step' = step /\ IsStep(step)
      BY <1>2, <1>3, <1>5, <3>2
    <3>4. Said(step) \/ Unsaid(step)
      BY <1>1, <1>2, <1>3, <1>5, AgreesMeans DEF TrailInv, Known
    <3> HIDE DEF step
    <3>5. Said(step)' \/ Unsaid(step)'
      BY <1>7, <2>1, <3>3, <3>4 DEF Said
    <3> QED BY <3>1, <3>5 DEF Known, step
  <2>4. DonePositions(file) \subseteq DonePositions(file)'
    BY <1>2, <1>5 DEF DonePositions
  <2>5. ASSUME NEW k \in DOMAIN trail PROVE Truthful(k)'
    BY <1>1, <1>5, <1>7, <2>4, AgreesMeans, TruthKept DEF TrailInv
  <2> QED BY <1>5, <1>7, <2>2, <2>3, <2>5, AgreesNext
<1> QED BY <1>10, <1>11, <1>12 DEF TrailInv

-----------------------------------------------------------------------------
(* audit.emit.                                                             *)

LEMMA SayingKeepsTrail ==
    ASSUME JInv, TrailInv, NEW p \in Procs, Says(p)
    PROVE  TrailInv'
<1> DEFINE e == owed[p]
<1>1. /\ file \in Doc /\ file.journal \in Seq(Entry) /\ Len(file.journal) \in Nat /\ file # NoPlan
      /\ owed \in [Procs -> Event] /\ e \in Event /\ Silence \in Event /\ Plain(Silence)
      /\ DOMAIN file.journal = 1..Len(file.journal)
  <2>1. Plain(Silence) /\ Silence \in Event
    BY ToldPlain DEF Plain, Silence, PlainNames
  <2> QED BY <2>1, FileTyped, NoPlanNoDoc DEF JInv, TrailInv, TrailTyped
<1>2. /\ file' = file /\ pc' = pc /\ unsaid' = unsaid
      /\ owed' = [owed EXCEPT ![p] = Silence]
      /\ trail' = IF AboutAnEntry(e) THEN Append(trail, e) ELSE trail
  BY DEF Says, vars
<1>3. /\ \A q \in Procs : owed'[q] = IF q = p THEN Silence ELSE owed[q]
      /\ \A q \in Procs : Running(q)' <=> Running(q)
  BY <1>1, <1>2 DEF Running
<1>4. /\ IsStep(e) =>
            /\ Running(p) /\ file.status = "applying" /\ Len(file.journal) \in DOMAIN file.journal
            /\ e.n = Len(file.journal) /\ e = StepEvent(e.n, file.journal[e.n])
            /\ \A k \in DOMAIN trail : IsStep(trail[k]) => trail[k].n < e.n
      /\ IsRevert(e) =>
            /\ Running(p) /\ file.status = "rolling_back" /\ e.n \in DonePositions(file)
            /\ e = RevertEvent(e.n, file.journal[e.n])
  <2>1. ASSUME IsStep(e)
        PROVE  /\ Running(p) /\ file.status = "applying" /\ Len(file.journal) \in DOMAIN file.journal
               /\ e.n = Len(file.journal) /\ e = StepEvent(e.n, file.journal[e.n])
               /\ \A k \in DOMAIN trail : IsStep(trail[k]) => trail[k].n < e.n
    <3>1. /\ Running(p) /\ file.status = "applying" /\ file.journal # <<>>
          /\ e = StepEvent(Len(file.journal), file.journal[Len(file.journal)])
          /\ \A k \in DOMAIN trail : IsStep(trail[k]) => trail[k].n < Len(file.journal)
      BY <2>1 DEF TrailInv, OwedInv
    <3>2. Len(file.journal) \in DOMAIN file.journal
      BY <1>1, <3>1, EmptySeq
    <3>3. e.n = Len(file.journal)
      BY <1>1, <3>1, StepEventSays
    <3> QED BY <3>1, <3>2, <3>3
  <2>2. ASSUME IsRevert(e)
        PROVE  /\ Running(p) /\ file.status = "rolling_back" /\ e.n \in DonePositions(file)
               /\ e = RevertEvent(e.n, file.journal[e.n])
    <3>1. /\ Running(p) /\ file.status = "rolling_back"
          /\ \E n \in DonePositions(file) : e = RevertEvent(n, file.journal[n])
      BY <2>2 DEF TrailInv, OwedInv
    <3>2. PICK n \in DonePositions(file) : e = RevertEvent(n, file.journal[n])
      BY <3>1
    <3>3. e.n = n
      BY <1>1, <3>2, RevertEventSays DEF DonePositions
    <3> QED BY <3>1, <3>2, <3>3
  <2> QED BY <2>1, <2>2
<1>5. CASE ~AboutAnEntry(e)
  <2>1. ~IsStep(e) /\ ~IsRevert(e)
    BY <1>1, <1>4, <1>5 DEF AboutAnEntry, DonePositions
  <2>2. \A f : (IsStep(f) \/ IsRevert(f)) /\ Unsaid(f) => Unsaid(f)'
    BY <1>2, <1>3, <2>1 DEF Unsaid
  <2>3. \A q \in Procs : IsStep(owed'[q]) \/ IsRevert(owed'[q]) =>
           owed'[q] = owed[q] /\ Running(q)' /\ file'.status = file.status
    BY <1>1, <1>2, <1>3 DEF TrailInv, OwedInv, Plain
  <2> QED BY <1>1, <1>2, <1>5, <2>2, <2>3, TrailKept
<1>6. CASE AboutAnEntry(e)
  <2> DEFINE last == Len(trail) + 1
  <2>1. /\ DOMAIN trail = 1..Len(trail) /\ Len(trail) \in Nat
        /\ trail' \in Seq(Event) /\ DOMAIN trail' = 1..last /\ Len(trail') = last
        /\ \A k \in 1..Len(trail) : trail'[k] = trail[k]
        /\ trail'[last] = e
    <3>1. trail' = Append(trail, e)
      BY <1>2, <1>6
    <3> HIDE DEF e
    <3>2. e \in Event /\ TrailTyped
      BY <1>1 DEF TrailInv
    <3> QED BY <3>1, <3>2, TrailAppend
  <2>2. TrailTyped'
    BY <1>1, <1>2, <2>1 DEF TrailTyped
  <2>3. NoRevertYet'
    BY <1>2, <1>4, <2>1 DEF TrailInv, NoRevertYet, IsRevert
  <2>4. ASSUME NEW q \in Procs PROVE OwedInv(q)'
    <3>1. CASE q = p
      BY <1>1, <1>3, <3>1 DEF Plain, OwedInv, IsStep, IsRevert
    <3>2. CASE q # p
      <4>1. IsStep(owed[q]) => ~IsStep(e)
        BY <1>1, <1>4, <3>2, OwnerAlone DEF Owner, TrailInv, OwedInv, JInv
      <4>2. owed'[q] = owed[q] /\ OwedInv(q) /\ (Running(q) => Running(q)')
        BY <1>3, <3>2 DEF TrailInv
      <4>3. DonePositions(file)' = DonePositions(file)
        BY <1>2
      <4>4. IsStep(owed[q]) => \A j \in DOMAIN trail' : IsStep(trail'[j]) => trail'[j].n < Len(file.journal)
        BY <2>1, <4>1, <4>2 DEF OwedInv
      <4> QED BY <1>2, <4>2, <4>3, <4>4 DEF OwedInv, IsStep, IsRevert, StepEvent, RevertEvent
    <3> QED BY <3>1, <3>2
  <2>5. ASSUME NEW n \in DOMAIN file.journal PROVE Known(n)'
    <3> DEFINE step == StepEvent(n, file.journal[n])
               revert == RevertEvent(n, file.journal[n])
    <3>1. step' = step /\ revert' = revert
      BY <1>2
    <3>2. Known(n) /\ n \in Nat /\ n # 0 /\ revert.n = n /\ step # Silence /\ revert # Silence
      BY <1>1, AgreesMeans, RevertEventSays, NothingSilent DEF TrailInv
    <3>3. IsRevert(e) /\ e.n = n => e = revert
      BY <1>4
    <3>4. /\ Said(step) \/ Unsaid(step)
          /\ file.journal[n].revert # "none" => LastSaid(revert) \/ Unsaid(revert)
      BY <3>2 DEF Known
    <3> HIDE DEF step, revert
    <3>5. Said(step) \/ step = e => Said(step)'
      BY <2>1, <3>1 DEF Said
    <3>6. LastSaid(revert) \/ revert = e => LastSaid(revert)'
      <4>1. CASE revert = e
        <5>1. last \in DOMAIN trail' /\ trail'[last] = revert
              /\ \A j \in last..Len(trail') : trail'[j] = revert
          BY <2>1, <4>1
        <5> QED BY <3>1, <5>1 DEF LastSaid
      <4>2. CASE LastSaid(revert)
        <5>1. PICK k \in DOMAIN trail :
                 /\ trail[k] = revert
                 /\ \A j \in k..Len(trail) : IsRevert(trail[j]) /\ trail[j].n = revert.n => trail[j] = revert
          BY <4>2 DEF LastSaid
        <5>2. k \in DOMAIN trail' /\ trail'[k] = revert
          BY <2>1, <5>1
        <5>3. \A j \in k..Len(trail') : IsRevert(trail'[j]) /\ trail'[j].n = revert.n => trail'[j] = revert
          BY <2>1, <3>2, <3>3, <5>1
        <5> QED BY <3>1, <5>2, <5>3 DEF LastSaid, IsRevert
      <4> QED BY <4>1, <4>2
    <3>7. \A f : Unsaid(f) /\ f # e => Unsaid(f)'
      BY <1>2, <1>3 DEF Unsaid
    <3> HIDE DEF e
    <3>8. (Unsaid(step) /\ step # e => Unsaid(step)') /\ (Unsaid(revert) /\ revert # e => Unsaid(revert)')
      BY <3>1, <3>7
    <3>9. file'.journal[n] = file.journal[n]
      BY <1>2
    <3> QED BY <3>4, <3>5, <3>6, <3>8, <3>9 DEF Known, step, revert
  <2>6. ASSUME NEW k \in DOMAIN trail PROVE Truthful(k)'
    <3>1. Truthful(k) /\ k \in 1..Len(trail) /\ \A j \in 1..k : trail'[j] = trail[j]
      BY <1>1, <2>1, AgreesMeans DEF TrailInv
    <3>2. DonePositions(file)' = DonePositions(file)
      BY <1>2
    <3> QED BY <1>2, <2>1, <3>1, <3>2 DEF Truthful, IsStep, IsRevert, StepEvent
  <2>7. ASSUME NEW k, k = last PROVE Truthful(k)'
    <3>1. IsStep(e) => \A j \in 1..(last - 1) :
             ~IsRevert(trail'[j]) /\ (IsStep(trail'[j]) => trail'[j].n < e.n)
      BY <1>4, <2>1 DEF TrailInv, NoRevertYet
    <3>2. IsRevert(e) => e.n \in DonePositions(file)'
      BY <1>2, <1>4
    <3>3. IsStep(e) => e.n \in DOMAIN file'.journal /\ e = StepEvent(e.n, file'.journal[e.n])
      BY <1>2, <1>4
    <3> QED BY <2>1, <2>7, <3>1, <3>2, <3>3 DEF Truthful, IsStep, IsRevert
  <2> QED BY <1>2, <2>1, <2>2, <2>3, <2>4, <2>5, <2>6, <2>7, AgreesNext DEF TrailInv
<1> QED BY <1>5, <1>6

\* A death, a save that raises or a refused append takes along what was owed
\* and leaves everybody else at work.
LEMMA MutingKeepsTrail ==
    ASSUME JInv, TrailInv, NEW S \in SUBSET Procs, Mute(S), file' = file,
           \A q \in Procs \ S : owed[q] # Silence /\ Running(q) => Running(q)'
    PROVE  TrailInv'
<1>1. /\ file.journal \in Seq(Entry) /\ file # NoPlan
      /\ owed \in [Procs -> Event] /\ Silence \in Event /\ Plain(Silence)
  <2>1. Plain(Silence) /\ Silence \in Event
    BY ToldPlain DEF Plain, Silence, PlainNames
  <2> QED BY <2>1, FileTyped DEF JInv, IInv, ClaimInv, TrailInv, TrailTyped
<1>2. /\ owed' = [p \in Procs |-> IF p \in S THEN Silence ELSE owed[p]]
      /\ unsaid' = unsaid \cup {e \in {owed[p] : p \in S} : AboutAnEntry(e)}
      /\ trail' = trail
  BY DEF Mute
<1>3. \A e : (IsStep(e) \/ IsRevert(e)) /\ e.n # 0 /\ Unsaid(e) => Unsaid(e)'
  BY <1>1, <1>2 DEF Unsaid, AboutAnEntry, Plain
<1>4. \A q \in Procs : IsStep(owed'[q]) \/ IsRevert(owed'[q]) =>
         owed'[q] = owed[q] /\ Running(q)' /\ file'.status = file.status
  BY <1>1, <1>2 DEF TrailInv, OwedInv, Plain
<1>5. owed' \in [Procs -> Event]
  BY <1>1, <1>2
<1> QED BY <1>1, <1>2, <1>3, <1>4, <1>5, TrailKept

LEMMA RefusalKeepsTrail ==
    ASSUME JInv, TrailInv, NEW p \in Procs, AppendRefused(p)
    PROVE  TrailInv'
<1>1. Mute({p}) /\ file' = file /\ pc' = pc
  BY DEF AppendRefused, vars
<1>2. \A q \in Procs : Running(q) => Running(q)'
  BY <1>1 DEF Running
<1> QED BY <1>1, <1>2, MutingKeepsTrail

LEMMA RaisingKeepsTrail ==
    ASSUME JInv, TrailInv, NEW p \in Procs, Raises(p)
    PROVE  TrailInv'
<1>1. Mute({p}) /\ file' = file
  BY DEF Raises, StoreRaises, Drops, OnlyBreaks, plan
<1>2. \A q \in Procs \ {p} : pc'[q] = pc[q]
  BY DEF Raises, StoreRaises, Drops, OnlyBreaks
<1>3. \A q \in Procs \ {p} : Running(q) => Running(q)'
  BY <1>2 DEF Running
<1> QED BY <1>1, <1>3, MutingKeepsTrail

LEMMA DyingKeepsTrail ==
    ASSUME JInv, TrailInv, NEW h \in Hosts, Dies(h)
    PROVE  TrailInv'
<1> DEFINE mute == {p \in Procs : Host[p] = h /\ ~Settled(p)}
<1>1. Mute(mute) /\ file' = file
  BY DEF Dies, Crash, Drops, OnlyBreaks, plan
<1>2. \A q \in Procs : Host[q] # h => pc'[q] = pc[q]
  <2>1. CASE Crash(h)
    BY <2>1 DEF Crash, Drops
  <2>2. CASE pc' = pc
    BY <2>2
  <2> QED BY <2>1, <2>2 DEF Dies, OnlyBreaks
<1>3. \A q \in Procs \ mute : owed[q] # Silence /\ Running(q) => Running(q)'
  BY <1>2 DEF Running, Settled
<1> HIDE DEF mute
<1>4. mute \in SUBSET Procs
  BY DEF mute
<1> QED BY <1>1, <1>3, <1>4, MutingKeepsTrail

-----------------------------------------------------------------------------

LEMMA TrailInit == AuditInit => TrailInv
<1> SUFFICES ASSUME AuditInit PROVE TrailInv
  OBVIOUS
<1>1. /\ owed = [p \in Procs |-> Silence] /\ trail = <<>> /\ unsaid = {}
      /\ file.journal = <<>> /\ DOMAIN trail = {} /\ DOMAIN file.journal = {}
  BY DEF AuditInit, Init
<1>2. Plain(Silence)
  BY ToldPlain DEF Silence, PlainNames
<1>3. TrailTyped /\ NoRevertYet /\ \A p \in Procs : OwedInv(p)
  BY <1>1, <1>2 DEF TrailTyped, NoRevertYet, OwedInv, Plain
<1>4. TrailAgrees
  BY <1>1, AgreesMeans
<1> QED BY <1>3, <1>4 DEF TrailInv

\* A call has returned in Executor and breaks off with only an event to say.
OnlyBroken ==
    /\ broken' \in [Procs -> {"no", "raised", "died"}]
    /\ UNCHANGED <<plan, world, locks, pc, req, calls, work, edits, history>>

\* That is all AuditedExecutor adds to what Executor does to the plan, NetBox
\* and the callers.
LEMMA AuditedStepIsKnown ==
    ASSUME JInv, [AuditedNext]_auditedVars
    PROVE  [Next]_vars \/ OnlyBroken
<1>1. CASE UNCHANGED auditedVars
  BY <1>1 DEF auditedVars
<1>2. ASSUME NEW p \in Procs, Arrives(p) \/ Claims(p) \/ RunsSteps(p) \/ RunsReverts(p) \/ Finishes(p)
      PROVE  Next
  BY <1>2 DEF Arrives, Claims, RunsSteps, RunsReverts, Finishes, Next, Calls, Proceed
<1>3. ASSUME NEW p \in Procs, Says(p) \/ AppendRefused(p) PROVE UNCHANGED vars
  BY <1>3 DEF Says, AppendRefused
<1>4. ASSUME NEW S, NEW how \in {"raised", "died"}, OnlyBreaks(S, how) PROVE OnlyBroken
  BY <1>4 DEF OnlyBreaks, OnlyBroken, JInv, IInv, TypeInv, TypeOK
<1>5. ASSUME NEW p \in Procs, Raises(p) PROVE Next \/ OnlyBroken
  BY <1>4, <1>5 DEF Raises, Next, Environment
<1>6. ASSUME NEW h \in Hosts, Dies(h) PROVE Next \/ OnlyBroken
  BY <1>4, <1>6 DEF Dies, Next, Environment
<1>7. ASSUME Others PROVE Next
  BY <1>7 DEF Others, Next, Environment
<1> QED BY <1>1, <1>2, <1>3, <1>5, <1>6, <1>7 DEF AuditedNext

\* How a call ended is read by no invariant.
LEMMA BreakIsIdle == ASSUME JInv, OnlyBroken PROVE JInv'
<1>1. TypeInv'
  BY DEF OnlyBroken, JInv, IInv, TypeInv, TypeOK, LocalInv, plan, locks, work, history, N
<1>2. ClaimInv'
  BY DEF OnlyBroken, JInv, IInv, ClaimInv, Owner, Running, plan, locks, work, history
<1>3. JournalInv' /\ LandedInv' /\ UndoneInv'
  BY DEF OnlyBroken, JInv, PlanInv, JournalInv, LandedInv, UndoneInv, Undid, Here, Stopped, DonePositions,
         Running, N, plan, locks, work, history
<1>4. ASSUME NEW p \in Procs PROVE CallerInv(p)'
  BY DEF OnlyBroken, JInv, PlanInv, CallerInv, StepperInv, ReverterInv, Stopped, Here, N, Running, Pending,
         DonePositions, plan, locks, work, history
<1> QED BY <1>1, <1>2, <1>3, <1>4 DEF JInv, IInv, PlanInv

LEMMA AuditedKeepsJournal == ASSUME WritesOnly, JInv, [AuditedNext]_auditedVars PROVE JInv'
<1>1. CASE [Next]_vars
  BY <1>1, PlanStep
<1>2. CASE OnlyBroken
  BY <1>2, BreakIsIdle
<1> QED BY <1>1, <1>2, AuditedStepIsKnown

LEMMA TrailStep == ASSUME WritesOnly, AuditedInv, [AuditedNext]_auditedVars PROVE AuditedInv'
<1>1. JInv /\ TrailInv /\ JInv'
  BY AuditedKeepsJournal DEF AuditedInv
<1>2. CASE UNCHANGED auditedVars
  <2>1. /\ file # NoPlan /\ file' = file /\ trail' = trail /\ owed' = owed /\ unsaid' = unsaid /\ pc' = pc
        /\ file.journal \in Seq(Entry)
    BY <1>1, <1>2, FileTyped DEF auditedVars, vars, audit, JInv, IInv, ClaimInv
  <2>2. \A q \in Procs : Running(q)' <=> Running(q)
    BY <2>1 DEF Running
  <2>3. \A e : Unsaid(e) => Unsaid(e)'
    BY <2>1 DEF Unsaid
  <2>4. \A q \in Procs : IsStep(owed'[q]) \/ IsRevert(owed'[q]) =>
           owed'[q] = owed[q] /\ Running(q)' /\ file'.status = file.status
    BY <1>1, <2>1, <2>2 DEF TrailInv, OwedInv
  <2>5. owed' \in [Procs -> Event]
    BY <1>1, <2>1 DEF TrailInv, TrailTyped
  <2> QED BY <1>1, <2>1, <2>3, <2>4, <2>5, TrailKept DEF AuditedInv
<1>3. ASSUME NEW p \in Procs, Settled(p),
             Arrives(p) \/ Claims(p) \/ RunsSteps(p) \/ RunsReverts(p) \/ Finishes(p)
      PROVE  TrailInv'
  <2>1. CASE RunsSteps(p)
    BY <1>1, <1>3, <2>1, TalkingKeepsTrail, RecordingStepKeepsTrail DEF RunsSteps
  <2>2. CASE RunsReverts(p)
    BY <1>1, <1>3, <2>2, TalkingKeepsTrail, RecordingRevertKeepsTrail DEF RunsReverts
  <2> QED BY <1>1, <1>3, <2>1, <2>2, ArrivingKeepsTrail, ClaimingKeepsTrail, FinishingKeepsTrail
<1>4. ASSUME Others PROVE TrailInv'
  <2>1. /\ file # NoPlan /\ file' = file /\ trail' = trail /\ owed' = owed /\ unsaid' = unsaid /\ pc' = pc
        /\ file.journal \in Seq(Entry)
    BY <1>1, <1>4, FileTyped
    DEF Others, Quietly, audit, JInv, IInv, ClaimInv, ForeignEdit, ForeignDelete, ForeignCreate, ForeignWrite,
        PlanAges, RetentionPasses, plan
  <2>2. \A q \in Procs : Running(q)' <=> Running(q)
    BY <2>1 DEF Running
  <2>3. \A e : Unsaid(e) => Unsaid(e)'
    BY <2>1 DEF Unsaid
  <2>4. \A q \in Procs : IsStep(owed'[q]) \/ IsRevert(owed'[q]) =>
           owed'[q] = owed[q] /\ Running(q)' /\ file'.status = file.status
    BY <1>1, <2>1, <2>2 DEF TrailInv, OwedInv
  <2>5. owed' \in [Procs -> Event]
    BY <1>1, <2>1 DEF TrailInv, TrailTyped
  <2> QED BY <1>1, <2>1, <2>3, <2>4, <2>5, TrailKept
<1>5. [AuditedNext]_auditedVars => TrailInv'
  BY <1>1, <1>2, <1>3, <1>4, SayingKeepsTrail, RefusalKeepsTrail, RaisingKeepsTrail,
     DyingKeepsTrail
  DEF AuditedNext, AuditedInv
<1> QED BY <1>1, <1>5 DEF AuditedInv

LEMMA AuditedInvAlways == ASSUME WritesOnly PROVE AuditedSpec => []AuditedInv
<1>1. AuditInit => AuditedInv
  BY TypeInit, ClaimInit, PlanInit, TrailInit DEF AuditInit, AuditedInv, JInv, IInv
<1>2. AuditedInv /\ [AuditedNext]_auditedVars => AuditedInv'
  BY TrailStep
<1> QED BY <1>1, <1>2, PTL DEF AuditedSpec

\* "The executor emits an audit event after every persisted state change, so
\* the stream and the plan file never disagree about what was attempted": for
\* every plan, number of callers, death between a save and its event, failing
\* save and refused append.  What the trail lacks is exactly what was lost; what
\* it has is in order and never ahead of the journal (audit.emit).
THEOREM TrailAgreesAlways == ASSUME WritesOnly PROVE AuditedSpec => []TrailAgrees
<1>1. AuditedInv => TrailAgrees
  BY DEF AuditedInv, TrailInv
<1> QED BY <1>1, AuditedInvAlways, PTL

\* The audited executor does to plans and NetBox what the executor does.  So
\* what is proved of Executor's journal holds of it too, deaths between a
\* save and its event and refused appends included.
THEOREM AuditedJournalAccounts == ASSUME WritesOnly PROVE AuditedSpec => []JournalAccounts
<1>1. AuditedInv => JournalAccounts
  BY JournalIsAccount DEF AuditedInv
<1> QED BY <1>1, AuditedInvAlways, PTL

\* And a step of an audited apply conflicts exactly when an earlier step of
\* the plan stands in its way, when nobody else writes to NetBox.
THEOREM AuditedConflictsHaveCause ==
    ASSUME WritesOnly, OldHierarchy
    PROVE  AuditedSpec => []ConflictsHaveCause
<1>1. AuditInit => ApplyInv
  BY TellingStarts DEF AuditInit
<1>2. ASSUME ApplyInv, [AuditedNext]_auditedVars PROVE ApplyInv'
  <2>1. CASE [Next]_vars
    BY <1>2, <2>1, TellingGoesOn
  <2>2. CASE OnlyBroken
    <3>1. JInv'
      BY <1>2, <2>2, BreakIsIdle DEF ApplyInv
    <3>2. /\ world' = world /\ steps' = steps /\ landed' = landed /\ file' = file /\ edits' = edits
      BY <2>2 DEF OnlyBroken, plan, history
    <3>3. WorldInv' /\ TracedInv'
      BY <1>2, <3>2 DEF ApplyInv, WorldInv, TracedInv, Traced, Deleting, Updating, Creating, Live
    <3> QED BY <3>1, <3>3 DEF ApplyInv
  <2> QED BY <1>2, <2>1, <2>2, AuditedStepIsKnown DEF ApplyInv
<1>3. ApplyInv => ConflictsHaveCause
  BY CauseOfConflict DEF ConflictsHaveCause
<1> QED BY <1>1, <1>2, <1>3, PTL DEF AuditedSpec
=================================================================================
