-------------------------------- MODULE PlanStore --------------------------------
(***************************************************************************)
(* The plans directory and the processes that share it: one file per plan, *)
(* created exclusively, saved through <id>.json.tmp and os.replace, read   *)
(* without any lock of the file system.  PlanStore's RLock makes a process *)
(* do one operation at a time; nothing but the claim orders processes.     *)
(*                                                                         *)
(* Names point to inodes, an open descriptor keeps its inode when the name *)
(* moves on.  What a plan says is a version number, 0 for content that is  *)
(* no JSON: an empty, half-written or overlaid file.                       *)
(***************************************************************************)
EXTENDS Naturals, FiniteSets

CONSTANTS
    Procs,        \* processes
    Ids,          \* plan ids new_plan_id may return
    Attempts,     \* create(attempts=...)
    MaxVersions,  \* bound: creates and saves
    Crashes,      \* may a process die?
    NoId

ASSUME StoreAssumption ==
    /\ NoId \notin Ids /\ IsFiniteSet(Ids)
    /\ Attempts \in Nat \ {0} /\ MaxVersions \in Nat /\ Crashes \in BOOLEAN

VARIABLES
    plans,    \* <id>.json -> inode, 0 for no such file
    tmp,      \* <id>.json.tmp -> inode or 0
    data,     \* inode -> version
    pc, id, doc, fd, tries,
    expired,  \* prune: ids to unlink
    versions,
    \* history
    latest,   \* per id: the last version a create or save returned having written
    stale,    \* versions that a returned save or an unlink has superseded
    floor,    \* stale when the load in progress began
    born,     \* per id: creates that returned it since it was last free
    clashed,  \* ids that two processes have been saving at once
    made      \* ids a create has handed out

Inodes == 1..MaxVersions
Version == 0..MaxVersions

files == <<plans, tmp, data>>
history == <<latest, stale, born, clashed, made>>
vars == <<files, pc, id, doc, fd, tries, expired, versions, floor, history>>

TypeOK ==
    /\ plans \in [Ids -> 0..MaxVersions] /\ tmp \in [Ids -> 0..MaxVersions]
    /\ data \in [Inodes -> Version]
    /\ pc \in [Procs -> {"idle", "create", "fill", "open", "write", "replace", "read", "unlink"}]
    /\ id \in [Procs -> Ids \cup {NoId}]
    /\ doc \in [Procs -> Version] /\ fd \in [Procs -> 0..MaxVersions]
    /\ tries \in [Procs -> 0..Attempts]
    /\ expired \in [Procs -> SUBSET Ids]
    /\ versions \in 0..MaxVersions
    /\ latest \in [Ids -> Version] /\ stale \subseteq Version
    /\ floor \in [Procs -> SUBSET Version] /\ born \in [Ids -> Nat]
    /\ clashed \subseteq Ids /\ made \subseteq Ids

Init ==
    /\ plans = [i \in Ids |-> 0] /\ tmp = [i \in Ids |-> 0] /\ data = [n \in Inodes |-> 0]
    /\ pc = [p \in Procs |-> "idle"] /\ id = [p \in Procs |-> NoId]
    /\ doc = [p \in Procs |-> 0] /\ fd = [p \in Procs |-> 0] /\ tries = [p \in Procs |-> 0]
    /\ expired = [p \in Procs |-> {}] /\ versions = 0
    /\ latest = [i \in Ids |-> 0] /\ stale = {} /\ floor = [p \in Procs |-> {}] /\ born = [i \in Ids |-> 0]
    /\ clashed = {} /\ made = {}

Readable(i) == plans[i] # 0 /\ data[plans[i]] # 0

\* Every create and save uses at most one inode; versions number the writes.
Inode(p) == doc[p]

Goto(p, at) == pc' = [pc EXCEPT ![p] = at]
Ends(p) ==
    /\ Goto(p, "idle")
    /\ id' = [id EXCEPT ![p] = NoId] /\ doc' = [doc EXCEPT ![p] = 0] /\ fd' = [fd EXCEPT ![p] = 0]
    /\ tries' = [tries EXCEPT ![p] = 0] /\ expired' = [expired EXCEPT ![p] = {}]
    /\ floor' = [floor EXCEPT ![p] = {}]
Within(p, at) == Goto(p, at) /\ UNCHANGED <<expired, floor>>

-----------------------------------------------------------------------------
(* create                                                                  *)

Create(p, i) ==
    /\ pc[p] = "idle" /\ versions < MaxVersions
    /\ versions' = versions + 1
    /\ id' = [id EXCEPT ![p] = i] /\ doc' = [doc EXCEPT ![p] = versions']
    /\ Within(p, "create")
    /\ UNCHANGED <<files, fd, tries, history>>

\* Mutant: opened without O_EXCL, a taken id is truncated.
CreateTruncates(p) ==
    /\ pc[p] = "create"
    /\ LET inode == IF plans[id[p]] = 0 THEN Inode(p) ELSE plans[id[p]] IN
       /\ plans' = [plans EXCEPT ![id[p]] = inode]
       /\ data' = [data EXCEPT ![inode] = 0]
       /\ fd' = [fd EXCEPT ![p] = inode]
    /\ Within(p, "fill")
    /\ UNCHANGED <<tmp, id, doc, tries, versions, history>>

CreateOpens(p) ==
    /\ pc[p] = "create" /\ plans[id[p]] = 0
    /\ plans' = [plans EXCEPT ![id[p]] = Inode(p)]
    /\ fd' = [fd EXCEPT ![p] = Inode(p)]
    /\ Within(p, "fill")
    /\ UNCHANGED <<tmp, data, id, doc, tries, versions, history>>

\* FileExistsError: a fresh id, or RuntimeError after the last attempt.
CreateCollides(p) ==
    /\ pc[p] = "create" /\ plans[id[p]] # 0
    /\ IF tries[p] + 1 < Attempts
       THEN /\ tries' = [tries EXCEPT ![p] = @ + 1]
            /\ \E i \in Ids : id' = [id EXCEPT ![p] = i]
            /\ UNCHANGED <<pc, doc, fd, expired, floor>>
       ELSE Ends(p)
    /\ UNCHANGED <<files, versions, history>>

CreateFills(p) ==
    /\ pc[p] = "fill"
    /\ data' = [data EXCEPT ![fd[p]] = doc[p]]
    /\ IF plans[id[p]] = fd[p]            \* not unlinked meanwhile
       THEN /\ latest' = [latest EXCEPT ![id[p]] = doc[p]]
            /\ born' = [born EXCEPT ![id[p]] = @ + 1]
       ELSE UNCHANGED <<latest, born>>
    /\ made' = made \cup {id[p]}
    /\ Ends(p)
    /\ UNCHANGED <<plans, tmp, versions, stale, clashed>>

-----------------------------------------------------------------------------
(* save: write_text(tmp), os.replace(tmp, path)                            *)

Saving == {"open", "write", "replace"}
\* Only a plan somebody created is ever saved, from a copy in memory: also when
\* a sweep has removed its file since it was loaded.
Save(p, i) ==
    /\ pc[p] = "idle" /\ versions < MaxVersions /\ i \in made
    /\ versions' = versions + 1
    /\ id' = [id EXCEPT ![p] = i] /\ doc' = [doc EXCEPT ![p] = versions']
    /\ Within(p, "open")
    /\ clashed' = clashed \cup ({i} \cap {id[q] : q \in {q \in Procs : pc[q] \in Saving}})
    /\ UNCHANGED <<files, fd, tries, latest, stale, born, made>>

\* Mutant: the plan file itself is opened for writing.
SaveInPlace(p) ==
    /\ pc[p] = "open"
    /\ plans[id[p]] # 0
    /\ data' = [data EXCEPT ![plans[id[p]]] = 0]
    /\ fd' = [fd EXCEPT ![p] = plans[id[p]]]
    /\ tmp' = [tmp EXCEPT ![id[p]] = plans[id[p]]]
    /\ Within(p, "write")
    /\ UNCHANGED <<plans, id, doc, tries, versions, history>>

\* Mutant: opened without O_TRUNC, what a dead process left stays in it.
SaveAppends(p) ==
    /\ pc[p] = "open"
    /\ LET inode == IF tmp[id[p]] = 0 THEN Inode(p) ELSE tmp[id[p]] IN
       /\ tmp' = [tmp EXCEPT ![id[p]] = inode]
       /\ fd' = [fd EXCEPT ![p] = inode]
    /\ Within(p, "write")
    /\ UNCHANGED <<plans, data, id, doc, tries, versions, history>>

\* The temporary file is created, or the one that is there is truncated.
SaveOpens(p) ==
    /\ pc[p] = "open"
    /\ LET inode == IF tmp[id[p]] = 0 THEN Inode(p) ELSE tmp[id[p]] IN
       /\ tmp' = [tmp EXCEPT ![id[p]] = inode]
       /\ data' = [data EXCEPT ![inode] = 0]
       /\ fd' = [fd EXCEPT ![p] = inode]
    /\ Within(p, "write")
    /\ UNCHANGED <<plans, id, doc, tries, versions, history>>

\* Written from the start of the file: over what somebody else wrote there,
\* the rest of a longer text stays behind it.
SaveWrites(p) ==
    /\ pc[p] = "write"
    /\ \E now \in {doc[p]} \cup (IF data[fd[p]] = 0 THEN {} ELSE {0}) :
          data' = [data EXCEPT ![fd[p]] = now]
    /\ Within(p, "replace")
    /\ UNCHANGED <<plans, tmp, id, doc, fd, tries, versions, history>>

\* Mutant: the temporary file is removed and the old plan stays.
ReplaceForgotten(p) == UNCHANGED plans
Replaced(p) == plans' = [plans EXCEPT ![id[p]] = tmp[id[p]]]

SaveReplaces(p) ==
    /\ pc[p] = "replace" /\ tmp[id[p]] # 0
    /\ Replaced(p)
    /\ tmp' = [tmp EXCEPT ![id[p]] = 0]
    /\ latest' = [latest EXCEPT ![id[p]] = doc[p]]
    /\ stale' = stale \cup {latest[id[p]]}
    /\ Ends(p)
    /\ UNCHANGED <<data, versions, born, clashed, made>>

\* Another process has moved the temporary file away: FileNotFoundError.
SaveFails(p) ==
    /\ pc[p] = "replace" /\ tmp[id[p]] = 0
    /\ Ends(p)
    /\ UNCHANGED <<files, versions, history>>

-----------------------------------------------------------------------------
(* load and prune                                                          *)

Load(p, i) ==
    /\ pc[p] = "idle"
    /\ IF plans[i] = 0
       THEN Ends(p)
       ELSE /\ Goto(p, "read")
            /\ id' = [id EXCEPT ![p] = i]
            /\ floor' = [floor EXCEPT ![p] = stale]
            /\ UNCHANGED <<doc, fd, tries, expired>>
    /\ UNCHANGED <<files, versions, history>>

\* The file is gone since exists(), or holds no JSON, or is the plan.
LoadReads(p) ==
    /\ pc[p] = "read"
    /\ Ends(p)
    /\ UNCHANGED <<files, versions, history>>

\* prune lists the plans it can read and picks the expired ones.
Prune(p) ==
    /\ pc[p] = "idle"
    /\ \E old \in SUBSET {i \in Ids : Readable(i)} \ {{}} :
          expired' = [expired EXCEPT ![p] = old]
    /\ Goto(p, "unlink")
    /\ UNCHANGED <<files, id, doc, fd, tries, versions, floor, history>>

\* unlink(missing_ok=True), one plan after the other.
Unlink(p) ==
    /\ pc[p] = "unlink"
    /\ \E i \in expired[p] :
       /\ plans' = [plans EXCEPT ![i] = 0]
       /\ latest' = [latest EXCEPT ![i] = 0] /\ born' = [born EXCEPT ![i] = 0]
       /\ stale' = stale \cup {latest[i]}
       /\ expired' = [expired EXCEPT ![p] = @ \ {i}]
       /\ IF expired[p] = {i}
          THEN Goto(p, "idle") ELSE UNCHANGED pc
    /\ UNCHANGED <<tmp, data, id, doc, fd, tries, versions, floor, clashed, made>>

\* A file that cannot be unlinked ends the sweep: prune raises.
UnlinkFails(p) ==
    /\ pc[p] = "unlink"
    /\ Ends(p)
    /\ UNCHANGED <<files, versions, history>>

\* A process dies, or its write raises; what it has written stays.
Crash(p) ==
    /\ Crashes /\ pc[p] # "idle"
    /\ Ends(p)
    /\ UNCHANGED <<files, versions, history>>

-----------------------------------------------------------------------------

Next ==
    \E p \in Procs :
        \/ \E i \in Ids : Create(p, i) \/ Save(p, i) \/ Load(p, i)
        \/ CreateOpens(p) \/ CreateCollides(p) \/ CreateFills(p)
        \/ SaveOpens(p) \/ SaveWrites(p) \/ SaveReplaces(p) \/ SaveFails(p)
        \/ LoadReads(p) \/ Prune(p) \/ Unlink(p) \/ UnlinkFails(p) \/ Crash(p)

Spec == Init /\ [][Next]_vars

-----------------------------------------------------------------------------
(* Properties.                                                             *)

\* Once a plan can be read it can be read until it is pruned, at every step of
\* every save and after a crash in the middle of one, while no two saves of
\* it ever overlap.
StaysReadable ==
    [][\A i \in Ids \ clashed' : Readable(i) /\ plans'[i] # 0 => Readable(i)']_vars

\* What a load that began after a save returned is about to read is never an
\* older plan, while saves do not overlap: the claim's re-read under the lock
\* relies on it.
FreshReads ==
    \A p \in Procs : (pc[p] = "read" /\ Readable(id[p]) /\ clashed = {}) =>
        data[plans[id[p]]] \notin floor[p]

\* "The journal is flushed after every step so an interrupted apply leaves a
\* file that netbox_rollback can act on": what the last create or save that
\* returned has written is what the file says until a sweep removes it, whoever
\* dies in the middle of a later save or has left its temporary file behind;
\* while no two saves of that plan ever overlap.
LastSaveKept ==
    \A i \in Ids \ clashed : latest[i] # 0 => Readable(i) /\ data[plans[i]] = latest[i]

\* "An id that already exists on disk can never be overwritten": no two
\* creates hand out the same id.
CreatesNeverCollide == \A i \in Ids : born[i] <= 1
================================================================================
