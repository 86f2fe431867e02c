------------------------------- MODULE StoreProofs -------------------------------
(***************************************************************************)
(* Theorems about PlanStore for any number of processes, ids, attempts and *)
(* versions: first of Spec, the plan store alone, then of CommandsSpec,    *)
(* whose every step is a step of the store or leaves the store alone.      *)
(***************************************************************************)
EXTENDS StoreCommands, FiniteSetTheorems, TLAPS

-----------------------------------------------------------------------------
(* Types.                                                                  *)

LEMMA EndsTyped ==
    ASSUME TypeOK, NEW p \in Procs, Ends(p)
    PROVE  /\ pc' \in [Procs -> {"idle", "create", "fill", "open", "write", "replace", "read", "unlink"}]
           /\ id' \in [Procs -> Ids \cup {NoId}]
           /\ doc' \in [Procs -> Version] /\ fd' \in [Procs -> 0..MaxVersions]
           /\ tries' \in [Procs -> 0..Attempts]
           /\ expired' \in [Procs -> SUBSET Ids]
           /\ floor' \in [Procs -> SUBSET Version]
BY StoreAssumption DEF TypeOK, Ends, Goto, Version

Busy(p) == pc[p] \in {"create", "fill", "open", "write", "replace"}

\* Whoever reads or writes a file knows which plan it is of; without it the
\* types are not inductive.
NamedInv == \A p \in Procs : Busy(p) \/ pc[p] = "read" => id[p] \in Ids
TypeInv == TypeOK /\ NamedInv

LEMMA NamedPreserved == ASSUME TypeInv, [Next]_vars PROVE NamedInv'
<1> USE DEF TypeInv, NamedInv, Busy, TypeOK
<1>0. CASE UNCHANGED vars BY <1>0 DEF vars
<1>1. ASSUME NEW p \in Procs, NEW i \in Ids, Create(p, i) PROVE NamedInv'
  BY <1>1 DEF Create, Within, Goto
<1>2. ASSUME NEW p \in Procs, NEW i \in Ids, Save(p, i) PROVE NamedInv'
  BY <1>2 DEF Save, Within, Goto
<1>3. ASSUME NEW p \in Procs, NEW i \in Ids, Load(p, i) PROVE NamedInv'
  BY <1>3 DEF Load, Goto, Ends
<1>4. ASSUME NEW p \in Procs, CreateOpens(p) PROVE NamedInv'
  BY <1>4 DEF CreateOpens, Within, Goto
<1>5. ASSUME NEW p \in Procs, CreateCollides(p) PROVE NamedInv'
  BY <1>5 DEF CreateCollides, Goto, Ends
<1>6. ASSUME NEW p \in Procs, CreateFills(p) PROVE NamedInv'
  BY <1>6 DEF CreateFills, Goto, Ends
<1>7. ASSUME NEW p \in Procs, SaveOpens(p) PROVE NamedInv'
  BY <1>7 DEF SaveOpens, Within, Goto
<1>8. ASSUME NEW p \in Procs, SaveWrites(p) PROVE NamedInv'
  BY <1>8 DEF SaveWrites, Within, Goto
<1>9. ASSUME NEW p \in Procs, SaveReplaces(p) PROVE NamedInv'
  BY <1>9 DEF SaveReplaces, Goto, Ends
<1>10. ASSUME NEW p \in Procs, SaveFails(p) PROVE NamedInv'
  BY <1>10 DEF SaveFails, Goto, Ends
<1>11. ASSUME NEW p \in Procs, LoadReads(p) PROVE NamedInv'
  BY <1>11 DEF LoadReads, Goto, Ends
<1>12. ASSUME NEW p \in Procs, Prune(p) PROVE NamedInv'
  BY <1>12 DEF Prune, Goto
<1>13. ASSUME NEW p \in Procs, Unlink(p) PROVE NamedInv'
  BY <1>13 DEF Unlink, Goto
<1>14. ASSUME NEW p \in Procs, UnlinkFails(p) PROVE NamedInv'
  BY <1>14 DEF UnlinkFails, Goto, Ends
<1>15. ASSUME NEW p \in Procs, Crash(p) PROVE NamedInv'
  BY <1>15 DEF Crash, Goto, Ends
<1> QED
  BY <1>0, <1>1, <1>2, <1>3, <1>4, <1>5, <1>6, <1>7, <1>8, <1>9, <1>10, <1>11, <1>12, <1>13, <1>14, <1>15 DEF Next

LEMMA TypePreserved == ASSUME TypeInv, [Next]_vars PROVE TypeOK'
<1> USE StoreAssumption DEF TypeInv
<1>0. CASE UNCHANGED vars BY <1>0 DEF vars, files, history, TypeOK, Version, Inodes
<1>1. ASSUME NEW p \in Procs, NEW i \in Ids, Create(p, i) PROVE TypeOK'
  <2>1. versions' \in Version BY <1>1 DEF Create, TypeOK, Version
  <2> QED BY <1>1, <2>1 DEF Create, Within, Goto, files, history, TypeOK, Version, Inodes
<1>2. ASSUME NEW p \in Procs, NEW i \in Ids, Save(p, i) PROVE TypeOK'
  BY SMTT(30), <1>2 DEF Save, Within, Goto, files, history, TypeOK, Version, Inodes
<1>3. ASSUME NEW p \in Procs, NEW i \in Ids, Load(p, i) PROVE TypeOK'
  <2>1. CASE plans[i] = 0
    BY <1>3, <2>1, EndsTyped DEF Load, files, history, TypeOK, Version, Inodes
  <2>2. CASE plans[i] # 0
    <3>1. floor' \in [Procs -> SUBSET Version] BY <1>3, <2>2 DEF Load, TypeOK
    <3>2. pc' \in [Procs -> {"idle", "create", "fill", "open", "write", "replace", "read", "unlink"}]
          /\ id' \in [Procs -> Ids \cup {NoId}]
      BY <1>3, <2>2 DEF Load, Goto, TypeOK
    <3> QED BY <1>3, <2>2, <3>1, <3>2 DEF Load, files, history, TypeOK
  <2> QED BY <2>1, <2>2
<1>4. ASSUME NEW p \in Procs, CreateOpens(p) PROVE TypeOK'
  BY <1>4 DEF CreateOpens, Inode, Within, Goto, files, history, TypeOK, Version, Inodes
<1>5. ASSUME NEW p \in Procs, CreateCollides(p) PROVE TypeOK'
  <2>1. CASE tries[p] + 1 < Attempts
    <3>1. tries' \in [Procs -> 0..Attempts] BY <1>5, <2>1 DEF CreateCollides, TypeOK
    <3>2. id' \in [Procs -> Ids \cup {NoId}] BY <1>5, <2>1 DEF CreateCollides, TypeOK
    <3> QED BY <1>5, <2>1, <3>1, <3>2 DEF CreateCollides, files, history, TypeOK, Version, Inodes
  <2>2. CASE ~(tries[p] + 1 < Attempts)
    BY <1>5, <2>2, EndsTyped DEF CreateCollides, files, history, TypeOK, Version, Inodes
  <2> QED BY <2>1, <2>2
<1>6. ASSUME NEW p \in Procs, CreateFills(p) PROVE TypeOK'
  <2>1. data' \in [Inodes -> Version] BY <1>6 DEF CreateFills, TypeOK
  <2>2. latest' \in [Ids -> Version] /\ born' \in [Ids -> Nat] BY <1>6 DEF CreateFills, TypeOK
  <2>3. made' \subseteq Ids BY <1>6 DEF CreateFills, NamedInv, Busy, TypeOK
  <2> QED BY <1>6, <2>1, <2>2, <2>3, EndsTyped DEF CreateFills, TypeOK
<1>7. ASSUME NEW p \in Procs, SaveOpens(p) PROVE TypeOK'
  <2> DEFINE inode == IF tmp[id[p]] = 0 THEN Inode(p) ELSE tmp[id[p]]
  <2>1. id[p] \in Ids /\ inode \in 0..MaxVersions
    BY <1>7 DEF SaveOpens, NamedInv, Busy, TypeOK, Inode, Version
  <2>2. tmp' = [tmp EXCEPT ![id[p]] = inode] /\ data' = [data EXCEPT ![inode] = 0]
        /\ fd' = [fd EXCEPT ![p] = inode]
    BY <1>7 DEF SaveOpens
  <2> HIDE DEF inode
  <2>3. tmp' \in [Ids -> 0..MaxVersions] /\ data' \in [Inodes -> Version]
        /\ fd' \in [Procs -> 0..MaxVersions]
    BY <2>1, <2>2, 0 \in Version DEF TypeOK, Version
  <2> QED BY <1>7, <2>3 DEF SaveOpens, Within, Goto, history, TypeOK
<1>8. ASSUME NEW p \in Procs, SaveWrites(p) PROVE TypeOK'
  <2>1. PICK now \in {doc[p]} \cup {0} : data' = [data EXCEPT ![fd[p]] = now] BY <1>8 DEF SaveWrites
  <2>2. now \in Version BY <2>1 DEF TypeOK, Version
  <2>3. data' \in [Inodes -> Version] BY <2>1, <2>2 DEF TypeOK
  <2> QED BY <1>8, <2>3 DEF SaveWrites, Within, Goto, history, TypeOK
<1>9. ASSUME NEW p \in Procs, SaveReplaces(p) PROVE TypeOK'
  <2>0. id[p] \in Ids BY <1>9 DEF SaveReplaces, NamedInv, Busy
  <2>1. plans' \in [Ids -> 0..MaxVersions] /\ tmp' \in [Ids -> 0..MaxVersions]
    BY <1>9, <2>0 DEF SaveReplaces, Replaced, TypeOK, Version
  <2>2. latest' \in [Ids -> Version] BY <1>9, <2>0 DEF SaveReplaces, TypeOK
  <2>3. latest[id[p]] \in Version BY <2>0 DEF TypeOK
  <2>4. stale' \subseteq Version BY <1>9, <2>3 DEF SaveReplaces, TypeOK
  <2> QED BY <1>9, <2>1, <2>2, <2>4, EndsTyped DEF SaveReplaces, TypeOK
<1>10. ASSUME NEW p \in Procs, SaveFails(p) PROVE TypeOK'
  BY <1>10, EndsTyped DEF SaveFails, files, history, TypeOK, Version, Inodes
<1>11. ASSUME NEW p \in Procs, LoadReads(p) PROVE TypeOK'
  BY <1>11, EndsTyped DEF LoadReads, files, history, TypeOK, Version, Inodes
<1>12. ASSUME NEW p \in Procs, Prune(p) PROVE TypeOK'
  BY <1>12 DEF Prune, Goto, files, history, TypeOK, Version, Inodes
<1>13. ASSUME NEW p \in Procs, Unlink(p) PROVE TypeOK'
  <2>1. PICK i \in expired[p] :
          /\ plans' = [plans EXCEPT ![i] = 0]
          /\ latest' = [latest EXCEPT ![i] = 0] /\ born' = [born EXCEPT ![i] = 0]
          /\ stale' = stale \cup {latest[i]}
          /\ expired' = [expired EXCEPT ![p] = @ \ {i}]
          /\ IF expired[p] = {i} THEN Goto(p, "idle") ELSE UNCHANGED pc
    BY <1>13 DEF Unlink
  <2>2. i \in Ids BY DEF TypeOK
  <2>3. plans' \in [Ids -> 0..MaxVersions] /\ latest' \in [Ids -> Version] /\ born' \in [Ids -> Nat]
    BY <2>1 DEF TypeOK, Version
  <2>4. stale' \subseteq Version /\ expired' \in [Procs -> SUBSET Ids]
    BY <2>1, <2>2 DEF TypeOK, Version
  <2>5. pc' \in [Procs -> {"idle", "create", "fill", "open", "write", "replace", "read", "unlink"}]
    BY <2>1 DEF Goto, TypeOK
  <2> QED BY <1>13, <2>3, <2>4, <2>5 DEF Unlink, TypeOK
<1>14. ASSUME NEW p \in Procs, UnlinkFails(p) PROVE TypeOK'
  BY <1>14, EndsTyped DEF UnlinkFails, files, history, TypeOK, Version, Inodes
<1>15. ASSUME NEW p \in Procs, Crash(p) PROVE TypeOK'
  BY <1>15, EndsTyped DEF Crash, files, history, TypeOK, Version, Inodes
<1> QED
  BY <1>0, <1>1, <1>2, <1>3, <1>4, <1>5, <1>6, <1>7, <1>8, <1>9, <1>10, <1>11,
     <1>12, <1>13, <1>14, <1>15 DEF Next

-----------------------------------------------------------------------------
(* The invariant.                                                          *)

\* Every write has a number of its own, which is also the inode it may create.
DocsInv ==
    /\ \A p \in Procs : doc[p] <= versions /\ (Busy(p) <=> doc[p] # 0)
    /\ \A p, q \in Procs : doc[p] = doc[q] /\ doc[p] # 0 => p = q
    /\ \A p \in Procs : fd[p] <= versions /\ (fd[p] # 0 <=> pc[p] \in {"fill", "write", "replace"})
    /\ \A i \in Ids : plans[i] <= versions /\ tmp[i] <= versions

\* No inode has two names.
NamesInv ==
    /\ \A i, j \in Ids : plans[i] = plans[j] /\ plans[i] # 0 => i = j
    /\ \A i, j \in Ids : tmp[i] = tmp[j] /\ tmp[i] # 0 => i = j
    /\ \A i, j \in Ids : plans[i] = tmp[j] => plans[i] = 0

FreshInode(n) ==
    /\ data[n] = 0
    /\ \A i \in Ids : plans[i] # n /\ tmp[i] # n
    /\ \A q \in Procs : fd[q] # n

FreshInv ==
    /\ \A n \in Inodes : n > versions => data[n] = 0
    /\ \A p \in Procs : pc[p] \in {"create", "open"} => FreshInode(doc[p])

\* An open descriptor is on a file of the plan it is for, and a file that is
\* being created has nobody else's.
FdInv ==
    \A p \in Procs :
        /\ pc[p] \in {"fill", "write", "replace"} =>
              \A i \in Ids : i # id[p] => plans[i] # fd[p] /\ tmp[i] # fd[p]
        /\ pc[p] = "fill" =>
              /\ data[fd[p]] = 0
              /\ \A i \in Ids : tmp[i] # fd[p]
              /\ \A q \in Procs : q # p => fd[q] # fd[p]

\* While saves of a plan do not overlap, the temporary file is the saver's own.
SaveInv ==
    /\ \A p, q \in Procs :
          pc[p] \in Saving /\ pc[q] \in Saving /\ id[p] = id[q] /\ p # q => id[p] \in clashed
    /\ \A p \in Procs : pc[p] \in {"write", "replace"} /\ id[p] \notin clashed =>
          /\ fd[p] = tmp[id[p]]
          /\ data[fd[p]] = IF pc[p] = "write" THEN 0 ELSE doc[p]

\* Nobody is about to hand out an id that is handed out already.
BornInv ==
    /\ \A i \in Ids : born[i] <= 1 /\ (plans[i] = 0 => born[i] = 0)
    /\ \A p \in Procs : pc[p] = "fill" /\ plans[id[p]] = fd[p] => born[id[p]] = 0

\* What a returned write left is not superseded, and while no saves overlap
\* it is what the plan's file says.
LatestInv ==
    /\ \A i \in Ids : latest[i] <= versions /\ (latest[i] # 0 => latest[i] \notin stale)
    /\ \A v \in stale : v <= versions
    /\ \A i, j \in Ids : latest[i] = latest[j] /\ latest[i] # 0 => i = j
    /\ \A p \in Procs : doc[p] # 0 => doc[p] \notin stale /\ \A i \in Ids : latest[i] # doc[p]
    /\ \A p \in Procs : floor[p] \subseteq stale
    /\ \A i \in Ids : i \notin clashed => IF Readable(i) THEN data[plans[i]] = latest[i] ELSE latest[i] = 0

StoreInv ==
    /\ TypeInv /\ DocsInv /\ NamesInv /\ FreshInv /\ FdInv /\ SaveInv /\ BornInv /\ LatestInv

-----------------------------------------------------------------------------
(* One lemma per step.                                                     *)

\* What the leaves below need of the types.
Types ==
    /\ versions \in Nat /\ NoId \notin Ids
    /\ \A p \in Procs : doc[p] \in Nat /\ fd[p] \in Nat
    /\ \A p \in Procs : (doc[p] # 0 => doc[p] \in Inodes) /\ (fd[p] # 0 => fd[p] \in Inodes)
    /\ \A p \in Procs : Busy(p) => id[p] \in Ids
    /\ \A i \in Ids : plans[i] \in Nat /\ tmp[i] \in Nat /\ latest[i] \in Nat /\ born[i] \in Nat
    /\ \A i \in Ids : (plans[i] # 0 => plans[i] \in Inodes) /\ (tmp[i] # 0 => tmp[i] \in Inodes)
    /\ \A n \in Inodes : n \in Nat /\ n # 0 /\ data[n] \in Nat
    /\ stale \subseteq Nat

LEMMA Typed == ASSUME StoreInv PROVE Types
  BY StoreAssumption DEF StoreInv, TypeInv, TypeOK, NamedInv, Types, Inodes, Version

LEMMA CreateKeeps == ASSUME StoreInv, TypeInv', NEW p \in Procs, NEW i \in Ids, Create(p, i) PROVE StoreInv'
<1>1. pc[p] = "idle" /\ versions' = versions + 1 /\ versions' \in Inodes
  BY StoreAssumption, Typed DEF Create, Within, Goto, files, history, StoreInv, TypeInv, TypeOK, NamedInv, Busy, DocsInv, Inodes
<1>2. /\ \A q \in Procs : pc'[q] = IF q = p THEN "create" ELSE pc[q]
      /\ \A q \in Procs : doc'[q] = IF q = p THEN versions + 1 ELSE doc[q]
      /\ \A q \in Procs : id'[q] = IF q = p THEN i ELSE id[q]
      /\ UNCHANGED <<plans, tmp, data, fd, floor, latest, stale, born, clashed, made>>
  BY <1>1 DEF Create, Within, Goto, files, history, StoreInv, TypeInv, TypeOK
<1>3. Types BY Typed
<1>4. DocsInv'
  BY <1>1, <1>2, <1>3 DEF Types, Busy, StoreInv, DocsInv
<1>5. NamesInv'
  BY <1>1, <1>2, <1>3 DEF StoreInv, NamesInv
<1>6. FreshInv'
  BY <1>1, <1>2, <1>3 DEF Types, Busy, StoreInv, DocsInv, FreshInv, FreshInode
<1>7. FdInv'
  BY <1>1, <1>2, <1>3 DEF Types, StoreInv, FdInv
<1>8. SaveInv'
  BY <1>1, <1>2, <1>3 DEF Types, StoreInv, SaveInv, Saving
<1>9. BornInv'
  BY <1>1, <1>2, <1>3 DEF Types, StoreInv, BornInv
<1>10. LatestInv'
  BY <1>1, <1>2, <1>3 DEF Types, StoreInv, LatestInv, Readable
<1> QED BY <1>4, <1>5, <1>6, <1>7, <1>8, <1>9, <1>10 DEF StoreInv

LEMMA SaveKeeps == ASSUME StoreInv, TypeInv', NEW p \in Procs, NEW i \in Ids, Save(p, i) PROVE StoreInv'
<1>1. pc[p] = "idle" /\ versions' = versions + 1 /\ versions' \in Inodes
  BY StoreAssumption, Typed DEF Save, Within, Goto, files, history, StoreInv, TypeInv, TypeOK, NamedInv, Busy, DocsInv, Inodes
<1>2. /\ \A q \in Procs : pc'[q] = IF q = p THEN "open" ELSE pc[q]
      /\ \A q \in Procs : doc'[q] = IF q = p THEN versions + 1 ELSE doc[q]
      /\ \A q \in Procs : id'[q] = IF q = p THEN i ELSE id[q]
      /\ UNCHANGED <<plans, tmp, data, fd, floor, latest, stale, born, made>>
  BY <1>1 DEF Save, Within, Goto, files, history, StoreInv, TypeInv, TypeOK
<1>3. Types BY Typed
<1>c. clashed' = clashed \cup ({i} \cap {id[q] : q \in {q \in Procs : pc[q] \in Saving}})
  BY DEF Save
<1>4. DocsInv'
  BY <1>1, <1>2, <1>3 DEF Types, Busy, StoreInv, DocsInv
<1>5. NamesInv'
  BY <1>1, <1>2, <1>3 DEF StoreInv, NamesInv
<1>6. FreshInv'
  BY <1>1, <1>2, <1>3, SMTT(60) DEF Types, Busy, StoreInv, DocsInv, FreshInv, FreshInode, FdInv
<1>7. FdInv'
  BY <1>1, <1>2, <1>3 DEF Types, StoreInv, FdInv
<1>8. SaveInv'
  BY <1>1, <1>2, <1>3, <1>c DEF Types, StoreInv, SaveInv, Saving
<1>9. BornInv'
  BY <1>1, <1>2, <1>3 DEF Types, StoreInv, BornInv
<1>10. LatestInv'
  BY <1>1, <1>2, <1>3, <1>c DEF Types, Busy, StoreInv, DocsInv, LatestInv, Readable
<1> QED BY <1>4, <1>5, <1>6, <1>7, <1>8, <1>9, <1>10 DEF StoreInv

LEMMA CreateOpensKeeps == ASSUME StoreInv, TypeInv', NEW p \in Procs, CreateOpens(p) PROVE StoreInv'
<1>1. pc[p] = "create" /\ plans[id[p]] = 0 /\ id[p] \in Ids /\ doc[p] \in Inodes
  BY StoreAssumption, Typed DEF CreateOpens, Inode, Within, Goto, files, history, StoreInv, TypeInv, TypeOK, NamedInv, Busy, DocsInv, Inodes
<1>2. /\ \A q \in Procs : pc'[q] = IF q = p THEN "fill" ELSE pc[q]
      /\ \A i \in Ids : plans'[i] = IF i = id[p] THEN doc[p] ELSE plans[i]
      /\ \A q \in Procs : fd'[q] = IF q = p THEN doc[p] ELSE fd[q]
      /\ UNCHANGED <<tmp, data, id, doc, versions, floor, latest, stale, born, clashed, made>>
  BY <1>1 DEF CreateOpens, Inode, Within, Goto, files, history, StoreInv, TypeInv, TypeOK
<1>3. Types BY Typed
<1>4. DocsInv'
  BY <1>1, <1>2, <1>3 DEF Types, Busy, StoreInv, DocsInv
<1>5. NamesInv'
  BY <1>1, <1>2, <1>3 DEF Types, Busy, StoreInv, NamesInv, FreshInv, FreshInode
<1>6. FreshInv'
  BY <1>1, <1>2, <1>3 DEF Types, Busy, StoreInv, DocsInv, FreshInv, FreshInode
<1>7. FdInv'
  BY <1>1, <1>2, <1>3 DEF Types, Busy, StoreInv, DocsInv, FdInv, FreshInv, FreshInode
<1>8. SaveInv'
  BY <1>1, <1>2, <1>3 DEF Types, StoreInv, SaveInv, Saving
<1>9. BornInv'
  BY <1>1, <1>2, <1>3 DEF Types, Busy, StoreInv, DocsInv, BornInv
<1>10. LatestInv'
  BY <1>1, <1>2, <1>3 DEF Types, Busy, StoreInv, LatestInv, DocsInv, FreshInv, FreshInode, NamesInv, FdInv, SaveInv, Readable
<1> QED BY <1>4, <1>5, <1>6, <1>7, <1>8, <1>9, <1>10 DEF StoreInv

LEMMA CreateFillsKeeps == ASSUME StoreInv, TypeInv', NEW p \in Procs, CreateFills(p) PROVE StoreInv'
<1>1. pc[p] = "fill" /\ id[p] \in Ids /\ fd[p] \in Inodes
  BY StoreAssumption, Typed DEF CreateFills, Ends, Within, Goto, files, history, StoreInv, TypeInv, TypeOK, NamedInv, Busy, DocsInv, Inodes
<1>2. /\ \A n \in Inodes : data'[n] = IF n = fd[p] THEN doc[p] ELSE data[n]
      /\ \A i \in Ids : latest'[i] = IF i = id[p] /\ plans[i] = fd[p] THEN doc[p] ELSE latest[i]
      /\ \A i \in Ids : born'[i] = IF i = id[p] /\ plans[i] = fd[p] THEN born[i] + 1 ELSE born[i]
      /\ \A q \in Procs : pc'[q] = IF q = p THEN "idle" ELSE pc[q]
      /\ \A q \in Procs : id'[q] = IF q = p THEN NoId ELSE id[q]
      /\ \A q \in Procs : doc'[q] = IF q = p THEN 0 ELSE doc[q]
      /\ \A q \in Procs : fd'[q] = IF q = p THEN 0 ELSE fd[q]
      /\ \A q \in Procs : floor'[q] = IF q = p THEN {} ELSE floor[q]
      /\ UNCHANGED <<plans, tmp, versions, stale, clashed>>
  BY <1>1 DEF CreateFills, Ends, Within, Goto, files, history, StoreInv, TypeInv, TypeOK
<1>3. Types BY Typed
<1>4. DocsInv'
  BY <1>1, <1>2, <1>3 DEF Types, Busy, StoreInv, DocsInv
<1>5. NamesInv'
  BY <1>1, <1>2, <1>3 DEF StoreInv, NamesInv
<1>6. FreshInv'
  BY <1>1, <1>2, <1>3 DEF Types, Busy, StoreInv, DocsInv, FreshInv, FreshInode
<1>7. FdInv'
  BY <1>1, <1>2, <1>3 DEF Types, Busy, StoreInv, DocsInv, FdInv, FreshInv, FreshInode
<1>8. SaveInv'
  BY <1>1, <1>2, <1>3 DEF Types, Busy, StoreInv, DocsInv, FreshInv, FreshInode, FdInv, SaveInv, NamesInv, Saving
<1>9. BornInv'
  BY <1>1, <1>2, <1>3 DEF Types, Busy, StoreInv, BornInv, FdInv, DocsInv, FreshInv, FreshInode
<1>10. LatestInv'
  BY <1>1, <1>2, <1>3 DEF Types, Busy, StoreInv, LatestInv, DocsInv, FreshInv, FreshInode, NamesInv, FdInv, SaveInv, Readable
<1> QED BY <1>4, <1>5, <1>6, <1>7, <1>8, <1>9, <1>10 DEF StoreInv

LEMMA SaveOpensKeeps == ASSUME StoreInv, TypeInv', NEW p \in Procs, SaveOpens(p) PROVE StoreInv'
<1> DEFINE inode == IF tmp[id[p]] = 0 THEN doc[p] ELSE tmp[id[p]]
<1>1. pc[p] = "open" /\ id[p] \in Ids /\ inode \in Inodes /\ inode = IF tmp[id[p]] = 0 THEN doc[p] ELSE tmp[id[p]]
  BY StoreAssumption, Typed DEF SaveOpens, Inode, Within, Goto, files, history, StoreInv, TypeInv, TypeOK, NamedInv, Busy, DocsInv, Inodes
<1>2. /\ \A q \in Procs : pc'[q] = IF q = p THEN "write" ELSE pc[q]
      /\ \A i \in Ids : tmp'[i] = IF i = id[p] THEN inode ELSE tmp[i]
      /\ \A n \in Inodes : data'[n] = IF n = inode THEN 0 ELSE data[n]
      /\ \A q \in Procs : fd'[q] = IF q = p THEN inode ELSE fd[q]
      /\ UNCHANGED <<plans, id, doc, versions, floor, latest, stale, born, clashed, made>>
  BY <1>1 DEF SaveOpens, Inode, Within, Goto, files, history, StoreInv, TypeInv, TypeOK
<1>3. Types BY Typed
<1> HIDE DEF inode
<1>4. DocsInv'
  BY <1>1, <1>2, <1>3 DEF Types, Busy, StoreInv, DocsInv
<1>5. NamesInv'
  BY <1>1, <1>2, <1>3 DEF Types, Busy, StoreInv, NamesInv, FreshInv, FreshInode
<1>6. FreshInv'
  BY <1>1, <1>2, <1>3 DEF Types, Busy, StoreInv, DocsInv, FreshInv, FreshInode
<1>7. FdInv'
  BY <1>1, <1>2, <1>3 DEF Types, Busy, StoreInv, DocsInv, FreshInv, FreshInode, FdInv, SaveInv, NamesInv
<1>8. SaveInv'
  BY <1>1, <1>2, <1>3 DEF Types, Busy, StoreInv, DocsInv, FreshInv, FreshInode, FdInv, SaveInv, NamesInv, Saving
<1>9. BornInv'
  BY <1>1, <1>2, <1>3 DEF Types, StoreInv, BornInv
<1>10. LatestInv'
  <2>1. \A i \in Ids : plans[i] # inode
    BY <1>1, <1>3 DEF Types, StoreInv, FreshInv, FreshInode, NamesInv
  <2>2. \A i \in Ids : Readable(i)' = Readable(i) /\ (Readable(i) => data'[plans'[i]] = data[plans[i]])
    BY <1>1, <1>2, <1>3, <2>1 DEF Types, Readable
  <2> QED BY <1>1, <1>2, <1>3, <2>2 DEF Types, StoreInv, LatestInv
<1> QED BY <1>4, <1>5, <1>6, <1>7, <1>8, <1>9, <1>10 DEF StoreInv

LEMMA SaveWritesKeeps == ASSUME StoreInv, TypeInv', NEW p \in Procs, SaveWrites(p) PROVE StoreInv'
<1>p. PICK now \in {doc[p]} \cup (IF data[fd[p]] = 0 THEN {} ELSE {0}) :
          data' = [data EXCEPT ![fd[p]] = now]
  BY DEF SaveWrites
<1>1. pc[p] = "write" /\ id[p] \in Ids /\ fd[p] \in Inodes /\ now \in {doc[p], 0} /\ (data[fd[p]] = 0 => now = doc[p])
  BY <1>p, StoreAssumption, Typed DEF SaveWrites, Within, Goto, files, history, StoreInv, TypeInv, TypeOK, NamedInv, Busy, DocsInv, Inodes
<1>2. /\ \A q \in Procs : pc'[q] = IF q = p THEN "replace" ELSE pc[q]
      /\ \A n \in Inodes : data'[n] = IF n = fd[p] THEN now ELSE data[n]
      /\ UNCHANGED <<plans, tmp, id, doc, fd, versions, floor, latest, stale, born, clashed, made>>
  BY <1>p, <1>1 DEF SaveWrites, Within, Goto, files, history, StoreInv, TypeInv, TypeOK
<1>3. Types BY Typed
<1>4. DocsInv'
  BY <1>1, <1>2, <1>3 DEF Types, Busy, StoreInv, DocsInv
<1>5. NamesInv'
  BY <1>1, <1>2, <1>3 DEF StoreInv, NamesInv
<1>6. FreshInv'
  BY <1>1, <1>2, <1>3 DEF Types, Busy, StoreInv, DocsInv, FreshInv, FreshInode
<1>7. FdInv'
  BY <1>1, <1>2, <1>3 DEF Types, Busy, StoreInv, DocsInv, FdInv, FreshInv, FreshInode
<1>8. SaveInv'
  BY <1>1, <1>2, <1>3 DEF Types, Busy, StoreInv, DocsInv, FreshInv, FreshInode, FdInv, SaveInv, NamesInv, Saving
<1>9. BornInv'
  BY <1>1, <1>2, <1>3 DEF Types, StoreInv, BornInv
<1>10. LatestInv'
  BY <1>1, <1>2, <1>3 DEF Types, Busy, StoreInv, LatestInv, DocsInv, FreshInv, FreshInode, NamesInv, FdInv, SaveInv, Readable
<1> QED BY <1>4, <1>5, <1>6, <1>7, <1>8, <1>9, <1>10 DEF StoreInv

LEMMA SaveReplacesKeeps == ASSUME StoreInv, TypeInv', NEW p \in Procs, SaveReplaces(p) PROVE StoreInv'
<1>1. pc[p] = "replace" /\ id[p] \in Ids /\ tmp[id[p]] # 0 /\ tmp[id[p]] \in Inodes
  BY StoreAssumption, Typed DEF SaveReplaces, Replaced, Ends, Within, Goto, files, history, StoreInv, TypeInv, TypeOK, NamedInv, Busy, DocsInv, Inodes
<1>2. /\ \A i \in Ids : plans'[i] = IF i = id[p] THEN tmp[i] ELSE plans[i]
      /\ \A i \in Ids : tmp'[i] = IF i = id[p] THEN 0 ELSE tmp[i]
      /\ \A i \in Ids : latest'[i] = IF i = id[p] THEN doc[p] ELSE latest[i]
      /\ stale' = stale \cup {latest[id[p]]}
      /\ \A q \in Procs : pc'[q] = IF q = p THEN "idle" ELSE pc[q]
      /\ \A q \in Procs : id'[q] = IF q = p THEN NoId ELSE id[q]
      /\ \A q \in Procs : doc'[q] = IF q = p THEN 0 ELSE doc[q]
      /\ \A q \in Procs : fd'[q] = IF q = p THEN 0 ELSE fd[q]
      /\ \A q \in Procs : floor'[q] = IF q = p THEN {} ELSE floor[q]
      /\ UNCHANGED <<data, versions, born, clashed>>
  BY <1>1 DEF SaveReplaces, Replaced, Ends, Within, Goto, files, history, StoreInv, TypeInv, TypeOK
<1>3. Types BY Typed
<1>4. DocsInv'
  BY <1>1, <1>2, <1>3 DEF Types, Busy, StoreInv, DocsInv
<1>5. NamesInv'
  BY <1>1, <1>2, <1>3 DEF StoreInv, NamesInv
<1>6. FreshInv'
  BY <1>1, <1>2, <1>3 DEF Types, Busy, StoreInv, DocsInv, FreshInv, FreshInode
<1>7. FdInv'
  BY <1>1, <1>2, <1>3 DEF Types, Busy, StoreInv, DocsInv, FdInv, FreshInv, FreshInode
<1>8. SaveInv'
  BY <1>1, <1>2, <1>3 DEF Types, Busy, StoreInv, SaveInv, Saving, FdInv
<1>9. BornInv'
  BY <1>1, <1>2, <1>3 DEF Types, Busy, StoreInv, BornInv, FdInv, DocsInv, FreshInv, FreshInode
<1>10. LatestInv'
  BY <1>1, <1>2, <1>3 DEF Types, Busy, StoreInv, LatestInv, DocsInv, FreshInv, FreshInode, NamesInv, FdInv, SaveInv, Readable
<1> QED BY <1>4, <1>5, <1>6, <1>7, <1>8, <1>9, <1>10 DEF StoreInv

LEMMA PruneKeeps == ASSUME StoreInv, TypeInv', NEW p \in Procs, Prune(p) PROVE StoreInv'
<1>1. pc[p] = "idle"
  BY StoreAssumption, Typed DEF Prune, Within, Goto, files, history, StoreInv, TypeInv, TypeOK, NamedInv, Busy, DocsInv, Inodes
<1>2. /\ \A q \in Procs : pc'[q] = IF q = p THEN "unlink" ELSE pc[q]
      /\ UNCHANGED <<plans, tmp, data, id, doc, fd, versions, floor, latest, stale, born, clashed, made>>
  BY <1>1 DEF Prune, Within, Goto, files, history, StoreInv, TypeInv, TypeOK
<1>3. Types BY Typed
<1>4. DocsInv'
  BY <1>1, <1>2, <1>3 DEF Types, Busy, StoreInv, DocsInv
<1>5. NamesInv'
  BY <1>1, <1>2, <1>3 DEF StoreInv, NamesInv
<1>6. FreshInv'
  BY <1>1, <1>2, <1>3 DEF Types, StoreInv, FreshInv, FreshInode
<1>7. FdInv'
  BY <1>1, <1>2, <1>3 DEF Types, StoreInv, FdInv
<1>8. SaveInv'
  BY <1>1, <1>2, <1>3 DEF Types, StoreInv, SaveInv, Saving
<1>9. BornInv'
  BY <1>1, <1>2, <1>3 DEF Types, StoreInv, BornInv
<1>10. LatestInv'
  BY <1>1, <1>2, <1>3 DEF Types, StoreInv, LatestInv, Readable
<1> QED BY <1>4, <1>5, <1>6, <1>7, <1>8, <1>9, <1>10 DEF StoreInv

LEMMA UnlinkKeeps == ASSUME StoreInv, TypeInv', NEW p \in Procs, Unlink(p) PROVE StoreInv'
<1>p. PICK i \in expired[p] :
          /\ plans' = [plans EXCEPT ![i] = 0]
          /\ latest' = [latest EXCEPT ![i] = 0] /\ born' = [born EXCEPT ![i] = 0]
          /\ stale' = stale \cup {latest[i]}
          /\ IF expired[p] = {i} THEN Goto(p, "idle") ELSE UNCHANGED pc
  BY DEF Unlink
<1>1. pc[p] = "unlink" /\ i \in Ids
  BY <1>p, StoreAssumption, Typed DEF Unlink, Within, Goto, files, history, StoreInv, TypeInv, TypeOK, NamedInv, Busy, DocsInv, Inodes
<1>2. /\ \A q \in Procs : pc'[q] = pc[q] \/ (q = p /\ pc'[q] = "idle")
      /\ \A j \in Ids : plans'[j] = IF j = i THEN 0 ELSE plans[j]
      /\ \A j \in Ids : latest'[j] = IF j = i THEN 0 ELSE latest[j]
      /\ \A j \in Ids : born'[j] = IF j = i THEN 0 ELSE born[j]
      /\ stale' = stale \cup {latest[i]}
      /\ UNCHANGED <<tmp, data, id, doc, fd, versions, floor, clashed>>
  BY <1>p, <1>1 DEF Unlink, Within, Goto, files, history, StoreInv, TypeInv, TypeOK
<1>3. Types BY Typed
<1>4. DocsInv'
  BY <1>1, <1>2, <1>3 DEF Types, Busy, StoreInv, DocsInv
<1>5. NamesInv'
  BY <1>1, <1>2, <1>3 DEF StoreInv, NamesInv
<1>6. FreshInv'
  BY <1>1, <1>2, <1>3 DEF Types, Busy, StoreInv, DocsInv, FreshInv, FreshInode
<1>7. FdInv'
  BY <1>1, <1>2, <1>3 DEF Types, Busy, StoreInv, DocsInv, FdInv, FreshInv, FreshInode
<1>8. SaveInv'
  BY <1>1, <1>2, <1>3 DEF Types, StoreInv, SaveInv, Saving
<1>9. BornInv'
  BY <1>1, <1>2, <1>3 DEF Types, Busy, StoreInv, DocsInv, BornInv
<1>10. LatestInv'
  BY <1>1, <1>2, <1>3 DEF Types, StoreInv, LatestInv, Readable
<1> QED BY <1>4, <1>5, <1>6, <1>7, <1>8, <1>9, <1>10 DEF StoreInv


\* An operation that ends, or dies, and leaves the files alone.
LEMMA EndsKeeps ==
    ASSUME StoreInv, TypeInv', NEW p \in Procs, Ends(p), UNCHANGED <<files, versions, history>>
    PROVE  StoreInv'
<1>2. /\ \A q \in Procs : pc'[q] = IF q = p THEN "idle" ELSE pc[q]
      /\ \A q \in Procs : id'[q] = IF q = p THEN NoId ELSE id[q]
      /\ \A q \in Procs : doc'[q] = IF q = p THEN 0 ELSE doc[q]
      /\ \A q \in Procs : fd'[q] = IF q = p THEN 0 ELSE fd[q]
      /\ \A q \in Procs : floor'[q] = IF q = p THEN {} ELSE floor[q]
      /\ UNCHANGED <<plans, tmp, data, versions, latest, stale, born, clashed, made>>
  BY DEF Ends, Goto, files, history, StoreInv, TypeInv, TypeOK
<1>3. Types BY Typed
<1>4. DocsInv'
  BY <1>2, <1>3 DEF Types, Busy, StoreInv, DocsInv
<1>5. NamesInv'
  BY <1>2, <1>3 DEF StoreInv, NamesInv
<1>6. FreshInv'
  BY <1>2, <1>3 DEF Types, Busy, StoreInv, DocsInv, FreshInv, FreshInode
<1>7. FdInv'
  BY <1>2, <1>3 DEF Types, Busy, StoreInv, DocsInv, FdInv
<1>8. SaveInv'
  BY <1>2, <1>3 DEF Types, Busy, StoreInv, SaveInv, Saving
<1>9. BornInv'
  BY <1>2, <1>3 DEF Types, Busy, StoreInv, BornInv
<1>10. LatestInv'
  BY <1>2, <1>3 DEF Types, Busy, StoreInv, LatestInv, Readable
<1> QED BY <1>4, <1>5, <1>6, <1>7, <1>8, <1>9, <1>10 DEF StoreInv

LEMMA LoadKeeps ==
    ASSUME StoreInv, TypeInv', NEW p \in Procs, NEW i \in Ids, Load(p, i) PROVE StoreInv'
<1>1. CASE plans[i] = 0
  BY <1>1, EndsKeeps DEF Load
<1>2. CASE plans[i] # 0
  <2>1. /\ pc[p] = "idle"
        /\ \A q \in Procs : pc'[q] = IF q = p THEN "read" ELSE pc[q]
        /\ \A q \in Procs : id'[q] = IF q = p THEN i ELSE id[q]
        /\ \A q \in Procs : floor'[q] = IF q = p THEN stale ELSE floor[q]
        /\ UNCHANGED <<plans, tmp, data, doc, fd, versions, latest, stale, born, clashed, made>>
    BY <1>2 DEF Load, Goto, files, history, StoreInv, TypeInv, TypeOK
  <2>2. Types BY Typed
  <2>3. DocsInv' /\ NamesInv'
    BY <2>1, <2>2 DEF Types, Busy, StoreInv, DocsInv, NamesInv
  <2>4. FreshInv'
    BY <2>1, <2>2 DEF Types, StoreInv, FreshInv, FreshInode
  <2>5. FdInv'
    BY <2>1, <2>2 DEF Types, StoreInv, FdInv
  <2>6. SaveInv'
    BY <2>1, <2>2 DEF Types, StoreInv, SaveInv, Saving
  <2>7. BornInv'
    BY <2>1, <2>2 DEF Types, StoreInv, BornInv
  <2>8. LatestInv'
    BY <2>1, <2>2 DEF Types, StoreInv, LatestInv, Readable
  <2> QED BY <2>3, <2>4, <2>5, <2>6, <2>7, <2>8 DEF StoreInv
<1> QED BY <1>1, <1>2

LEMMA CreateCollidesKeeps ==
    ASSUME StoreInv, TypeInv', NEW p \in Procs, CreateCollides(p) PROVE StoreInv'
<1>1. CASE tries[p] + 1 < Attempts
  <2>1. PICK i \in Ids : id' = [id EXCEPT ![p] = i]
    BY <1>1 DEF CreateCollides
  <2>2. /\ pc[p] = "create"
        /\ \A q \in Procs : id'[q] = IF q = p THEN i ELSE id[q]
        /\ UNCHANGED <<pc, plans, tmp, data, doc, fd, versions, latest, stale, floor, born, clashed>>
    BY <1>1, <2>1 DEF CreateCollides, files, history, StoreInv, TypeInv, TypeOK
  <2>3. DocsInv' /\ NamesInv' /\ FreshInv'
    BY <2>1, <2>2 DEF TypeInv, NamedInv, Busy, StoreInv, DocsInv, NamesInv, FreshInv, FreshInode
  <2>4. FdInv'
    BY <2>2 DEF StoreInv, FdInv
  <2>5. SaveInv'
    BY <2>2 DEF StoreInv, SaveInv, Saving
  <2>6. BornInv'
    BY <2>2 DEF StoreInv, BornInv
  <2>7. LatestInv'
    BY <2>2 DEF StoreInv, LatestInv, Readable
  <2> QED BY <2>3, <2>4, <2>5, <2>6, <2>7 DEF StoreInv
<1>2. CASE ~(tries[p] + 1 < Attempts)
  BY <1>2, EndsKeeps DEF CreateCollides
<1> QED BY <1>1, <1>2

LEMMA StoreInvInit == ASSUME Init PROVE StoreInv
<1> USE StoreAssumption DEF Init
<1>1. TypeInv BY DEF TypeInv, TypeOK, NamedInv, Busy, Inodes, Version
<1>2. DocsInv /\ NamesInv BY DEF DocsInv, NamesInv, Busy
<1>3. FreshInv /\ FdInv BY DEF FreshInv, FdInv
<1>4. SaveInv /\ BornInv BY DEF SaveInv, Saving, BornInv
<1>5. LatestInv BY DEF LatestInv, Readable
<1> QED BY <1>1, <1>2, <1>3, <1>4, <1>5 DEF StoreInv

LEMMA StoreInvNext == ASSUME StoreInv, [Next]_vars PROVE StoreInv'
<1>0. CASE UNCHANGED vars
  BY <1>0 DEF vars, files, history, StoreInv, TypeInv, TypeOK, NamedInv, Busy, DocsInv, NamesInv,
     FreshInv, FreshInode, FdInv, SaveInv, Saving, BornInv, LatestInv, Readable
<1>1. TypeInv'
  BY TypePreserved, NamedPreserved DEF StoreInv, TypeInv
<1>2. ASSUME NEW p \in Procs, NEW i \in Ids, Create(p, i) \/ Save(p, i) \/ Load(p, i) PROVE StoreInv'
  BY <1>1, <1>2, CreateKeeps, SaveKeeps, LoadKeeps
<1>3. ASSUME NEW p \in Procs, CreateOpens(p) \/ CreateCollides(p) \/ CreateFills(p) PROVE StoreInv'
  BY <1>1, <1>3, CreateOpensKeeps, CreateCollidesKeeps, CreateFillsKeeps
<1>4. ASSUME NEW p \in Procs, SaveOpens(p) \/ SaveWrites(p) \/ SaveReplaces(p) PROVE StoreInv'
  BY <1>1, <1>4, SaveOpensKeeps, SaveWritesKeeps, SaveReplacesKeeps
<1>5. ASSUME NEW p \in Procs, Prune(p) \/ Unlink(p) PROVE StoreInv'
  BY <1>1, <1>5, PruneKeeps, UnlinkKeeps
<1>6. ASSUME NEW p \in Procs, SaveFails(p) \/ LoadReads(p) \/ UnlinkFails(p) \/ Crash(p) PROVE StoreInv'
  BY <1>1, <1>6, EndsKeeps DEF SaveFails, LoadReads, UnlinkFails, Crash
<1> QED BY <1>0, <1>2, <1>3, <1>4, <1>5, <1>6 DEF Next

LEMMA StoreInvAlways == Spec => []StoreInv
<1>1. Init => StoreInv BY StoreInvInit
<1>2. StoreInv /\ [Next]_vars => StoreInv' BY StoreInvNext
<1> QED BY <1>1, <1>2, PTL DEF Spec

\* What a load is about to read is what the last save or create left, and
\* that was not superseded when the load began (nor is it now).
LEMMA FreshFromInv == ASSUME StoreInv PROVE FreshReads
<1> SUFFICES ASSUME NEW p \in Procs, pc[p] = "read", Readable(id[p]), clashed = {}
             PROVE  data[plans[id[p]]] \notin floor[p]
  BY DEF FreshReads
<1>1. id[p] \in Ids
  BY DEF StoreInv, TypeInv, NamedInv
<1> QED BY <1>1 DEF StoreInv, LatestInv, Readable

LEMMA ReadableStays ==
    ASSUME StoreInv, [Next]_vars, NEW i \in Ids, i \notin clashed', Readable(i), plans'[i] # 0
    PROVE  Readable(i)'
<1>0. Types BY Typed
<1>1. CASE UNCHANGED <<plans, data>>
  BY <1>1 DEF Readable
<1>2. ASSUME NEW p \in Procs, CreateOpens(p) PROVE Readable(i)'
  BY <1>0, <1>2 DEF CreateOpens, Readable, StoreInv, TypeInv, TypeOK
<1>3. ASSUME NEW p \in Procs, CreateFills(p) PROVE Readable(i)'
  <2>1. doc[p] # 0 BY <1>3 DEF CreateFills, StoreInv, DocsInv, Busy
  <2> QED BY <1>0, <1>3, <2>1 DEF Types, CreateFills, Readable, StoreInv, TypeInv, TypeOK
<1>4. ASSUME NEW p \in Procs, SaveOpens(p) PROVE Readable(i)'
  <2> DEFINE inode == IF tmp[id[p]] = 0 THEN doc[p] ELSE tmp[id[p]]
  <2>1. UNCHANGED plans /\ data' = [data EXCEPT ![inode] = 0]
    BY <1>4 DEF SaveOpens, Inode
  <2>2. plans[i] # inode
    BY <1>0, <1>4 DEF Types, Busy, SaveOpens, Readable, StoreInv, NamesInv, FreshInv, FreshInode
  <2> HIDE DEF inode
  <2> QED BY <1>0, <2>1, <2>2 DEF Types, Readable, StoreInv, TypeInv, TypeOK
<1>5. ASSUME NEW p \in Procs, SaveWrites(p) PROVE Readable(i)'
  <2>1. PICK now : data' = [data EXCEPT ![fd[p]] = now] BY <1>5 DEF SaveWrites
  <2>2. plans[i] # fd[p]
    <3>1. CASE id[p] = i
      BY <1>0, <1>5, <3>1 DEF Types, SaveWrites, history, Readable, StoreInv, SaveInv, NamesInv
    <3>2. CASE id[p] # i
      BY <1>5, <3>2 DEF SaveWrites, StoreInv, FdInv
    <3> QED BY <3>1, <3>2
  <2> QED BY <1>0, <1>5, <2>1, <2>2 DEF Types, SaveWrites, Readable, StoreInv, TypeInv, TypeOK
<1>6. ASSUME NEW p \in Procs, SaveReplaces(p) PROVE Readable(i)'
  <2>1. id[p] = i => data[tmp[i]] # 0
    BY <1>6 DEF SaveReplaces, StoreInv, SaveInv, DocsInv, Busy
  <2> QED BY <1>6, <2>1 DEF SaveReplaces, Replaced, Readable, StoreInv, TypeInv, TypeOK
<1>7. ASSUME NEW p \in Procs, Unlink(p) PROVE Readable(i)'
  BY <1>0, <1>7 DEF Unlink, Readable, StoreInv, TypeInv, TypeOK
<1> QED
  BY <1>1, <1>2, <1>3, <1>4, <1>5, <1>6, <1>7
     DEF Next, vars, files, Create, Save, Load, CreateCollides, SaveFails, LoadReads, Prune, UnlinkFails, Crash

LEMMA StaysReadableStep ==
    ASSUME StoreInv, [Next]_vars
    PROVE  [\A i \in Ids \ clashed' : Readable(i) /\ plans'[i] # 0 => Readable(i)']_vars
  BY ReadableStays

-----------------------------------------------------------------------------
(* Commands are clients of the store.                                      *)

Picks == [cmd : {"show", "act"}, frag : Fragments, id : Ids]
CommandsTyped ==
    /\ typed \in [Procs -> Picks \cup {NoPick}] /\ shown \in [Procs -> Picks \cup {NoPick}]

CommandsInv == StoreInv /\ CommandsTyped

\* A plan that is loaded for a command is one that resolve found on disk.
LEMMA PickNamesPlan ==
    ASSUME CommandsTyped, NEW p \in Procs, typed[p] # NoPick PROVE typed[p].id \in Ids
  BY DEF CommandsTyped, Picks

LEMMA CommandsStepsStore == ASSUME CommandsTyped, [CommandsNext]_commandVars PROVE [Next]_vars
<1>1. CASE UNCHANGED vars
  BY <1>1
<1>2. ASSUME NEW p \in Procs, HandlerLoads(p) PROVE Next
  BY <1>2, PickNamesPlan DEF HandlerLoads, Next
<1>3. ASSUME NEW p \in Procs, Reads(p) PROVE Next
  BY <1>3 DEF Reads, Next
<1>5. ASSUME NEW p \in Procs, Dies(p) PROVE [Next]_vars
  BY <1>5 DEF Dies, Next
<1>4. ASSUME NEW p \in Procs, Tool(p) \/ GoesOn(p) PROVE Next
  BY <1>4 DEF Tool, GoesOn, Next
<1> QED
  BY <1>1, <1>2, <1>3, <1>4, <1>5 DEF CommandsNext, commandVars, Type

LEMMA ResolvedNamesPlan == ASSUME NEW f \in Fragments PROVE Resolved(f) \subseteq Ids
  BY DEF Resolved, Candidates, There

LEMMA CommandsTypedNext ==
    ASSUME TypeOK, CommandsTyped, [CommandsNext]_commandVars PROVE CommandsTyped'
<1> USE DEF CommandsTyped
<1>0. CASE UNCHANGED asking
  BY <1>0 DEF asking
<1>1. ASSUME NEW p \in Procs, NEW f \in Fragments, Type(p, f) PROVE CommandsTyped'
  <2>1. PICK i \in Resolved(f), cmd \in {"show", "act"} :
          typed' = [typed EXCEPT ![p] = [cmd |-> cmd, frag |-> f, id |-> i]]
    BY <1>1 DEF Type
  <2>2. [cmd |-> cmd, frag |-> f, id |-> i] \in Picks
    BY ResolvedNamesPlan DEF Picks
  <2> QED BY <1>1, <2>1, <2>2 DEF Type
<1>2. ASSUME NEW p \in Procs, HandlerLoads(p) \/ Reads(p) PROVE CommandsTyped'
  BY <1>2 DEF HandlerLoads, Reads
<1>3. ASSUME NEW p \in Procs, Dies(p) PROVE CommandsTyped'
  BY <1>3 DEF Dies
<1> QED
  BY <1>0, <1>1, <1>2, <1>3 DEF CommandsNext, commandVars

LEMMA CommandsInvInit == ASSUME CommandsInit PROVE CommandsInv
  BY StoreInvInit DEF CommandsInit, CommandsInv, CommandsTyped

LEMMA CommandsInvNext == ASSUME CommandsInv, [CommandsNext]_commandVars PROVE CommandsInv'
<1>1. StoreInv' BY CommandsStepsStore, StoreInvNext DEF CommandsInv
<1>2. CommandsTyped' BY CommandsTypedNext DEF CommandsInv, StoreInv, TypeInv
<1> QED BY <1>1, <1>2 DEF CommandsInv

LEMMA CommandsInvAlways == CommandsSpec => []CommandsInv
<1>1. CommandsInit => CommandsInv BY CommandsInvInit
<1>2. CommandsInv /\ [CommandsNext]_commandVars => CommandsInv' BY CommandsInvNext
<1> QED BY <1>1, <1>2, PTL DEF CommandsSpec

\* One candidate is the candidate.
LEMMA ResolvedIsTheOne ==
    ASSUME NEW f \in Fragments, NEW i \in Resolved(f), NEW j \in There \cap EndsWith[f]
    PROVE  i = j
<1>1. CASE f \in There
  <2>1. Contains[f] = {f} /\ EndsWith[f] \subseteq Contains[f]
    BY <1>1, CommandsAssumption DEF There
  <2> QED BY <1>1, <2>1 DEF Resolved
<1>2. CASE f \notin There
  <2>1. i \in Candidates(f) /\ Cardinality(Candidates(f)) = 1
    BY <1>2 DEF Resolved
  <2>2. IsFiniteSet(Candidates(f))
    BY StoreAssumption, FS_Subset DEF Candidates, There
  <2>3. PICK x : Candidates(f) = {x}
    BY <2>1, <2>2, FS_Singleton
  <2>4. j \in Candidates(f)
    BY DEF Candidates
  <2> QED BY <2>1, <2>3, <2>4
<1> QED BY <1>1, <1>2

LEMMA ShownIsMeantStep ==
    ASSUME CommandsTyped, [CommandsNext]_commandVars, NEW p \in Procs,
           typed'[p] # typed[p], typed'[p].cmd = "act", typed'[p].frag = shown[p].frag,
           plans[shown[p].id] # 0, shown[p].id \in EndsWith[shown[p].frag]
    PROVE  typed'[p].id = shown[p].id
<1>1. PICK q \in Procs, f \in Fragments : Type(q, f)
  <2>1. typed' # typed
    OBVIOUS
  <2>2. ASSUME NEW q \in Procs, typed' = [typed EXCEPT ![q] = NoPick] PROVE FALSE
    BY <2>2 DEF CommandsTyped, NoPick
  <2> QED
    BY <2>1, <2>2 DEF CommandsNext, commandVars, asking, HandlerLoads, Reads, Dies
<1>2. PICK i \in Resolved(f), cmd \in {"show", "act"} :
        typed' = [typed EXCEPT ![q] = [cmd |-> cmd, frag |-> f, id |-> i]]
  BY <1>1 DEF Type
<1>3. q = p /\ typed'[p].id = i /\ typed'[p].frag = f
  BY <1>2 DEF CommandsTyped
<1>4. shown[p] \in Picks
  <2>1. shown[p].frag = f /\ f # Nobody
    BY <1>3, CommandsAssumption
  <2>2. shown[p] # NoPick
    BY <2>1 DEF NoPick
  <2> QED BY <2>2 DEF CommandsTyped
<1>5. shown[p].id \in There \cap EndsWith[f]
  BY <1>3, <1>4 DEF Picks, There
<1> QED BY <1>3, <1>5, ResolvedIsTheOne

-----------------------------------------------------------------------------
(* The theorems.                                                           *)

\* Commands use the store as a client would: every behaviour of the commands
\* is one of the store, so what holds of the store holds under them.
THEOREM CommandsUseStore == CommandsSpec => Spec
<1>1. CommandsInit => Init BY DEF CommandsInit
<1>2. CommandsInv /\ [CommandsNext]_commandVars => [Next]_vars
  BY CommandsStepsStore DEF CommandsInv
<1> QED BY <1>1, <1>2, CommandsInvAlways, PTL DEF Spec, CommandsSpec

\* Every process's program counter, file names, inodes and descriptors have
\* their types in every reachable state of the store.
THEOREM StoreTypesAlways == Spec => []TypeOK
<1>1. StoreInv => TypeOK BY DEF StoreInv, TypeInv
<1> QED BY <1>1, StoreInvAlways, PTL

\* "An id that already exists on disk can never be overwritten" (store.py:88-89):
\* however many processes create plans with the same id, at most one of them
\* gets it until a sweep has removed the file.
THEOREM CreatesNeverCollideAlways == CommandsSpec => []CreatesNeverCollide
<1>1. StoreInv => CreatesNeverCollide BY DEF StoreInv, BornInv, CreatesNeverCollide
<1> QED BY <1>1, StoreInvAlways, CommandsUseStore, PTL

\* While no two saves of one plan overlap, no load reads a plan that was
\* superseded before the load began, whatever crashes, sweeps and creates
\* happen meanwhile; what a claim decides from its re-read rests on this.
THEOREM FreshReadsAlways == CommandsSpec => []FreshReads
<1>1. StoreInv => FreshReads BY FreshFromInv
<1> QED BY <1>1, StoreInvAlways, CommandsUseStore, PTL

\* While no two saves of one plan overlap, no step of any process, a crash in
\* the middle of a save included, makes a readable plan unreadable; only a
\* sweep takes it away.
THEOREM StaysReadableAlways == CommandsSpec => StaysReadable
<1>1. StoreInv /\ [Next]_vars => [\A i \in Ids \ clashed' : Readable(i) /\ plans'[i] # 0 => Readable(i)']_vars
  BY StaysReadableStep
<1> QED BY <1>1, StoreInvAlways, CommandsUseStore, PTL DEF Spec, StaysReadable

\* A create or save that has returned is not undone by anything but a sweep: not
\* by a process that dies in the middle of a later save, not by the temporary
\* file it leaves behind, not by other plans' saves, whether or not those overlap.
THEOREM LastSaveKeptAlways == CommandsSpec => []LastSaveKept
<1>1. StoreInv => LastSaveKept BY DEF StoreInv, LatestInv, LastSaveKept
<1> QED BY <1>1, StoreInvAlways, CommandsUseStore, PTL

\* A fragment that showed a plan whose id ends with it means that plan when it
\* is typed again, as long as the plan is there: several candidates are told,
\* never chosen from (PlanStore.resolve).
THEOREM ShownIsMeantAlways == CommandsSpec => ShownIsMeant
<1>1. CommandsInv /\ [CommandsNext]_commandVars =>
        [\A p \in Procs : LET was == shown[p] now == typed'[p] IN
            (now # typed[p] /\ now.cmd = "act" /\ now.frag = was.frag) =>
                \/ now.id = was.id
                \/ plans[was.id] = 0
                \/ was.id \notin EndsWith[was.frag]]_commandVars
  BY ShownIsMeantStep DEF CommandsInv
<1> QED BY <1>1, CommandsInvAlways, PTL DEF CommandsSpec, ShownIsMeant
================================================================================
