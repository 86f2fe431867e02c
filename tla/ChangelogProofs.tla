---------------------------- MODULE ChangelogProofs ----------------------------
(***************************************************************************)
(* Theorems about Changelog, for journals of any length, any difference of *)
(* the clocks, and any number of rollbacks and foreign writes.             *)
(*                                                                         *)
(* Taken is a recursive function over the entries of a run.  TakenIs gives *)
(* its equations, from Recursion; TakenOnce and TakenGrows are by          *)
(* induction on the set of entries they hold of (Reaches).                 *)
(*                                                                         *)
(* LinkedInv is enough for OneOwner: what is linked is in the log, with    *)
(* distinct ids.  OwnInv adds whose record is whose and when each run      *)
(* wrote it, which OwnLinked is about.                                     *)
(***************************************************************************)
EXTENDS Changelog, FiniteSetTheorems, TLAPS

-----------------------------------------------------------------------------
(* Numbers: induction and recursion up to a bound, for sets and functions. *)

\* A finite set of numbers has a last element.
LEMMA HasGreatest ==
    ASSUME NEW S \in SUBSET Nat, IsFiniteSet(S), S # {}
    PROVE  \E n \in S : \A i \in S : i <= n
<1> DEFINE Upto(n) == {i \in S : i <= n}
           f == [n \in S |-> Cardinality(Upto(n))]
           T == 1..Cardinality(S)
<1>1. Cardinality(S) \in Nat /\ Cardinality(S) # 0 /\ IsFiniteSet(T) /\ Cardinality(T) = Cardinality(S)
  <2>1. Cardinality(S) \in Nat /\ Cardinality(S) # 0
    BY FS_CardinalityType, FS_EmptySet
  <2>2. IsFiniteSet(T) /\ Cardinality(T) = Cardinality(S)
    BY <2>1, FS_Interval
  <2> QED BY <2>1, <2>2
<1>2. ASSUME NEW n \in S
      PROVE  /\ IsFiniteSet(Upto(n)) /\ Cardinality(Upto(n)) \in Nat
             /\ Cardinality(Upto(n)) <= Cardinality(S) /\ Cardinality(Upto(n)) # 0
  <2>1. Upto(n) \in SUBSET S /\ n \in Upto(n)
    OBVIOUS
  <2> HIDE DEF Upto
  <2> QED BY <2>1, FS_Subset, FS_CardinalityType, FS_EmptySet
<1>3. ASSUME NEW m \in S, NEW n \in S, m < n
      PROVE  f[m] < f[n]
  <2>1. Upto(m) \in SUBSET Upto(n) /\ n \in Upto(n) /\ n \notin Upto(m)
    <3>1. m \in Nat /\ n \in Nat /\ n <= n /\ ~(n <= m) /\ \A i \in Nat : i <= m => i <= n
      BY <1>3
    <3> QED BY <3>1
  <2>2. IsFiniteSet(Upto(n)) /\ Cardinality(Upto(n)) \in Nat /\ Cardinality(Upto(m)) \in Nat
    BY <1>2
  <2>3. Cardinality(Upto(m)) <= Cardinality(Upto(n)) /\ Cardinality(Upto(m)) # Cardinality(Upto(n))
    <3> HIDE DEF Upto
    <3> QED BY <2>1, <2>2, FS_Subset
  <2> QED BY <2>2, <2>3
<1>4. f \in [S -> T]
  BY <1>1, <1>2
<1>5. \A m, n \in S : f[m] = f[n] => m = n
  <2>1. \A n \in S : f[n] \in Nat /\ n \in Nat
    BY <1>2
  <2> HIDE DEF f
  <2> QED BY <1>3, <2>1
<1> HIDE DEF f
<1>6. f \in Surjection(S, T)
  <2>1. f \in Injection(S, T)
    BY <1>4, <1>5 DEF Injection, IsInjective
  <2> QED BY <1>1, <2>1, FS_Injection
<1>7. PICK n \in S : f[n] = Cardinality(S)
  BY <1>1, <1>6 DEF Surjection
<1>8. \A i \in S : f[i] <= f[n] /\ f[i] \in Nat /\ i \in Nat
  BY <1>1, <1>4, <1>7
<1>9. \A i \in S : ~(n < i)
  BY <1>3, <1>8
<1> QED BY <1>8, <1>9

\* Induction up to n, for the set of numbers a statement holds of.
LEMMA Reaches ==
    ASSUME NEW n \in Nat, NEW S, 0 \in S, \A m \in 0..(n - 1) : m \in S => m + 1 \in S
    PROVE  0..n \subseteq S
<1> SUFFICES ASSUME NEW k \in 0..n, k \notin S PROVE FALSE
  OBVIOUS
<1> DEFINE T == {m \in 0..k : \A j \in 0..m : j \in S}
<1>1. T \in SUBSET Nat /\ IsFiniteSet(T) /\ 0 \in T
  <2>1. IsFiniteSet(0..k) /\ T \in SUBSET (0..k)
    BY FS_Interval
  <2>2. IsFiniteSet(T)
    BY <2>1, FS_Subset
  <2> QED BY <2>2
<1>2. PICK m \in T : \A i \in T : i <= m
  BY <1>1, HasGreatest
<1>3. m \in 0..k /\ m # k
  BY <1>2
<1>4. m + 1 \in T
  BY <1>2, <1>3
<1> QED BY <1>2, <1>3, <1>4

\* A function of the numbers up to n is defined by its first value and the
\* step from one to the next.
Steps(n, T, a, step) == n \in Nat /\ a \in T /\ \A i \in 1..n, x \in T : step[i][x] \in T
Follows(f, n, T, a, step) == f \in [0..n -> T] /\ f[0] = a /\ \A i \in 1..n : f[i] = step[i][f[i - 1]]

LEMMA Recursion ==
    ASSUME NEW n, NEW T, NEW a, NEW step, Steps(n, T, a, step)
    PROVE  \E f : Follows(f, n, T, a, step)
<1> USE DEF Steps
<1>0. n \in Nat
  OBVIOUS
<1> DEFINE Upto(m, f) == f \in [0..m -> T] /\ f[0] = a /\ \A i \in 1..m : f[i] = step[i][f[i - 1]]
           S == {m \in 0..n : \E f : Upto(m, f)}
<1>1. 0 \in S
  <2> DEFINE f == [i \in 0..0 |-> a]
  <2>1. Upto(0, f)
    OBVIOUS
  <2> HIDE DEF f, Upto
  <2> QED BY <2>1
<1>2. ASSUME NEW m \in 0..(n - 1), m \in S PROVE m + 1 \in S
  <2>1. PICK f : Upto(m, f)
    BY <1>2
  <2> DEFINE g == [i \in 0..(m + 1) |-> IF i = m + 1 THEN step[m + 1][f[m]] ELSE f[i]]
  <2>2. m + 1 \in 1..n /\ f[m] \in T
    BY <2>1
  <2>3. step[m + 1][f[m]] \in T
    BY <2>2
  <2>4. g \in [0..(m + 1) -> T] /\ g[0] = a
    BY <2>1, <2>3
  <2>5. ASSUME NEW i \in 1..(m + 1) PROVE g[i] = step[i][g[i - 1]]
    BY <2>1
  <2>6. Upto(m + 1, g)
    BY <2>4, <2>5
  <2> HIDE DEF g, Upto
  <2> QED BY <2>2, <2>6
<1>3. n \in S
  <2> HIDE DEF S
  <2>1. 0..n \subseteq S
    BY <1>0, <1>1, <1>2, Reaches
  <2> QED BY <1>0, <2>1
<1> QED BY <1>3 DEF Follows

-----------------------------------------------------------------------------
(* What the entries of a run take.                                         *)

LEMMA LastIs == Last \in Nat /\ Entries \subseteq 1..Last
<1>1. CASE Entries = {}
  BY <1>1 DEF Last
<1>2. CASE Entries # {}
  <2>1. \E n \in Entries : \A i \in Entries : i <= n
    BY <1>2, HasGreatest, ChangelogAssumption
  <2>2. Last \in Entries /\ \A i \in Entries : i <= Last
    BY <1>2, <2>1 DEF Last
  <2> QED BY <2>2, ChangelogAssumption
<1> QED BY <1>1, <1>2

LEMMA HitsAre ==
    ASSUME NEW i, NEW claimed
    PROVE  /\ Hits(i, claimed) \subseteq {r \in log : r.key = Target(i) /\ r.id \notin claimed}
           /\ Ids(Hits(i, claimed)) \subseteq {r.id : r \in log}
           /\ Ids(Hits(i, claimed)) \cap claimed = {}
<1>1. Hits(i, claimed) \subseteq {r \in log : r.key = Target(i) /\ r.id \notin claimed}
  BY DEF Hits, Preferred, Strictly, Rows
<1> QED BY <1>1 DEF Ids

\* Taken is the function its equation describes.
LEMMA TakenIs ==
    /\ Taken[0] = Claimed
    /\ \A i \in 1..Last :
          Taken[i] = IF i \in Entries THEN Taken[i - 1] \cup Ids(Hits(i, Taken[i - 1])) ELSE Taken[i - 1]
<1> DEFINE T == SUBSET (Claimed \cup {r.id : r \in log})
           More(i, x) == IF i \notin Entries THEN x ELSE x \cup Ids(Hits(i, x))
           step == [i \in 1..Last |-> [x \in T |-> More(i, x)]]
           Body(f) == [i \in 0..Last |->
                         IF i = 0 THEN Claimed
                         ELSE IF i \notin Entries THEN f[i - 1]
                         ELSE f[i - 1] \cup Ids(Hits(i, f[i - 1]))]
<1>1. Last \in Nat
  BY LastIs
<1>2. \A i, x : x \in T => More(i, x) \in T
  BY HitsAre
<1>3. Claimed \in T /\ \A i \in 1..Last, x \in T : step[i][x] \in T
  <2>1. Claimed \in T
    OBVIOUS
  <2> HIDE DEF T, More
  <2> QED BY <1>2, <2>1
<1>4. PICK f \in [0..Last -> T] : f[0] = Claimed /\ \A i \in 1..Last : f[i] = step[i][f[i - 1]]
  <2> HIDE DEF T, step, More, Body
  <2>1. Steps(Last, T, Claimed, step)
    BY <1>1, <1>3 DEF Steps
  <2>2. \E f : Follows(f, Last, T, Claimed, step)
    BY <2>1, Recursion
  <2> QED BY <2>2 DEF Follows
<1>5. f = Body(f)
  <2>1. \A i \in 1..Last : f[i - 1] \in T /\ f[i] = More(i, f[i - 1])
    <3>1. \A i \in 1..Last : i - 1 \in 0..Last
      BY <1>1
    <3>2. \A i \in 1..Last : f[i - 1] \in T
      <4> HIDE DEF T
      <4> QED BY <1>4, <3>1
    <3>3. \A i \in 1..Last, x \in T : step[i][x] = More(i, x)
      <4> HIDE DEF T, More
      <4> QED OBVIOUS
    <3> HIDE DEF T, More, step
    <3> QED BY <1>4, <3>2, <3>3
  <2>2. \A i \in 0..Last : f[i] = Body(f)[i]
    <3>1. \A i \in 0..Last : i = 0 \/ i \in 1..Last
      BY <1>1
    <3>2. \A i \in 0..Last :
             Body(f)[i] = IF i = 0 THEN Claimed
                          ELSE IF i \notin Entries THEN f[i - 1] ELSE f[i - 1] \cup Ids(Hits(i, f[i - 1]))
      OBVIOUS
    <3>3. f[0] = Claimed
      BY <1>4
    <3> HIDE DEF T, step, Body
    <3> QED BY <2>1, <3>1, <3>2, <3>3
  <2> HIDE DEF Body
  <2>3. Body(f) = [i \in 0..Last |-> Body(f)[i]]
    BY DEF Body
  <2> QED BY <1>4, <2>2, <2>3
<1>6. Taken = CHOOSE g : g = Body(g)
  BY DEF Taken
<1> HIDE DEF Body
<1>7. Taken = Body(Taken)
  BY <1>5, <1>6
<1>8. \A g, i : i \in 0..Last =>
         Body(g)[i] = IF i = 0 THEN Claimed
                      ELSE IF i \notin Entries THEN g[i - 1] ELSE g[i - 1] \cup Ids(Hits(i, g[i - 1]))
  BY DEF Body
<1>9. 0 \in 0..Last /\ \A i \in 1..Last : i \in 0..Last /\ i # 0
  BY <1>1
<1> QED BY <1>7, <1>8, <1>9

\* What is taken stays taken.
LEMMA TakenGrows ==
    ASSUME NEW j \in 0..Last, NEW i \in 0..j
    PROVE  Taken[i] \subseteq Taken[j]
<1> DEFINE S == {n \in 0..Last : \A m \in 0..n : Taken[m] \subseteq Taken[n]}
<1>1. Last \in Nat
  BY LastIs
<1>2. 0 \in S
  BY <1>1
<1>3. ASSUME NEW n \in 0..(Last - 1), n \in S PROVE n + 1 \in S
  <2>1. n + 1 \in 1..Last /\ n \in 0..n /\ (n + 1) - 1 = n
    BY <1>1
  <2>2. Taken[n] \subseteq Taken[n + 1]
    BY <2>1, TakenIs
  <2>3. ASSUME NEW m \in 0..(n + 1) PROVE Taken[m] \subseteq Taken[n + 1]
    <3>1. m = n + 1 \/ m \in 0..n
      BY <1>1
    <3> QED BY <1>3, <2>2, <3>1
  <2> QED BY <2>1, <2>3
<1>4. 0..Last \subseteq S
  <2> HIDE DEF S
  <2> QED BY <1>1, <1>2, <1>3, Reaches
<1> QED BY <1>4

\* What an entry takes no other entry takes, and nobody had it before.
LEMMA TakenOnce ==
    ASSUME NEW i \in Entries
    PROVE  /\ Ids(Hits(i, Taken[i - 1])) \cap Claimed = {}
           /\ \A j \in Entries : i # j =>
                 Ids(Hits(i, Taken[i - 1])) \cap Ids(Hits(j, Taken[j - 1])) = {}
<1> DEFINE It(m) == Ids(Hits(m, Taken[m - 1]))
<1>1. Last \in Nat /\ Entries \subseteq 1..Last
  BY LastIs
<1>2. \A m \in Entries : It(m) \cap Taken[m - 1] = {} /\ It(m) \subseteq Taken[m]
  <2>1. \A m \in Entries : It(m) \cap Taken[m - 1] = {}
    BY HitsAre
  <2>2. \A m \in Entries : Taken[m] = Taken[m - 1] \cup It(m)
    BY <1>1, TakenIs
  <2> QED BY <2>1, <2>2
<1>3. ASSUME NEW m \in Entries, NEW n \in Entries, m < n
      PROVE  It(m) \cap It(n) = {}
  <2>1. n - 1 \in 0..Last /\ m \in 0..(n - 1)
    BY <1>1, <1>3
  <2>2. Taken[m] \subseteq Taken[n - 1]
    BY <2>1, TakenGrows
  <2> QED BY <1>2, <2>2
<1>4. Claimed \subseteq Taken[i - 1]
  <2>1. i - 1 \in 0..Last /\ 0 \in 0..(i - 1)
    BY <1>1
  <2> QED BY <2>1, TakenGrows, TakenIs
<1>5. ASSUME NEW j \in Entries, i # j
      PROVE  It(i) \cap It(j) = {}
  <2> HIDE DEF It
  <2>1. i < j \/ j < i
    BY <1>1, <1>5
  <2> QED BY <1>3, <2>1
<1> QED BY <1>2, <1>4, <1>5

-----------------------------------------------------------------------------
(* What is linked where, whoever wrote it.                                 *)

Types ==
    /\ phase \in Phases \cup {"none"}
    /\ reverted \in [Entries -> {"no", "gone", "yes"}]
    /\ links \in [Phases -> [Entries -> SUBSET Nat]]
    /\ now \in Nat /\ since \in Nat /\ rollbacks \in Nat /\ foreign \in Nat
    /\ since <= now /\ offset \in Int

\* Every record has an id and a time.
LogInv ==
    /\ IsFiniteSet(log)
    /\ \A r \in log : r.id \in 1..Cardinality(log) /\ r.time \in offset..(now + offset)
    /\ \A r, q \in log : r.id = q.id => r = q

\* An entry that has not been reverted has nothing of a rollback.
LinksInv == \A i \in Entries : reverted[i] # "yes" => links["rollback"][i] = {}

LinkedInv == Types /\ LogInv /\ LinksInv

LEMMA LinkedStart == Init => LinkedInv /\ OneOwner
<1> SUFFICES ASSUME Init PROVE LinkedInv /\ OneOwner
  OBVIOUS
<1>1. Types /\ LinksInv /\ OneOwner
  BY DEF Init, Types, LinksInv, OneOwner, Phases
<1>2. LogInv
  BY FS_EmptySet DEF Init, LogInv
<1> QED BY <1>1, <1>2 DEF LinkedInv

\* The newest record has the next id.
LEMMA LogGrows ==
    ASSUME Types, LogInv, NEW key, NEW by, Logs(key, by), now' = now, offset' = offset
    PROVE  /\ LogInv'
           /\ log \subseteq log'
           /\ \E new : /\ log' = log \cup {new} /\ new \notin log
                       /\ new.key = key /\ new.by = by /\ new.time = now + offset
<1> DEFINE new == [id |-> Cardinality(log) + 1, key |-> key, time |-> now + offset, by |-> by]
<1>1. log' = log \cup {new}
  BY DEF Logs
<1>2. Cardinality(log) \in Nat /\ now \in Nat /\ offset \in Int
  BY FS_CardinalityType DEF Types, LogInv
<1>3. new \notin log
  BY <1>2 DEF LogInv
<1>4. IsFiniteSet(log') /\ Cardinality(log') = Cardinality(log) + 1
  <2> HIDE DEF new
  <2> QED BY <1>1, <1>3, FS_AddElement DEF LogInv
<1>5. LogInv'
  <2>1. \A r \in log' : r = new \/ r \in log
    BY <1>1
  <2>2. \A r \in log' : r.id \in 1..Cardinality(log)' /\ r.time \in (offset..(now + offset))'
    BY <1>2, <1>4, <2>1 DEF LogInv
  <2>3. \A r, q \in log' : r.id = q.id => r = q
    BY <1>2, <2>1 DEF LogInv
  <2> QED BY <1>4, <2>2, <2>3 DEF LogInv
<1> QED BY <1>1, <1>3, <1>5

LEMMA MatchingIs ==
    ASSUME LinkedInv, phase \in Phases
    PROVE  /\ Matching \in [Entries -> SUBSET Nat]
           /\ \A i \in Entries :
                 /\ Matching[i] = {} \/ Matching[i] = Ids(Hits(i, Taken[i - 1]))
                 /\ phase = "rollback" /\ reverted[i] # "yes" => Matching[i] = {}
                 /\ phase = "apply" \/ reverted[i] = "yes" =>
                       Matching[i] = Ids(Hits(i, Taken[i - 1])) /\ Target(i) = Key[phase][i]
<1> SUFFICES ASSUME NEW i \in Entries
             PROVE  /\ Matching[i] \in SUBSET Nat
                    /\ Matching[i] = {} \/ Matching[i] = Ids(Hits(i, Taken[i - 1]))
                    /\ phase = "rollback" /\ reverted[i] # "yes" => Matching[i] = {}
                    /\ phase = "apply" \/ reverted[i] = "yes" =>
                          Matching[i] = Ids(Hits(i, Taken[i - 1])) /\ Target(i) = Key[phase][i]
  BY DEF Matching
<1>1. Ids(Hits(i, Taken[i - 1])) \in SUBSET Nat
  <2>1. \A r \in log : r.id \in Nat
    BY FS_CardinalityType DEF LinkedInv, LogInv
  <2> QED BY <2>1, HitsAre
<1>2. Matching[i] = IF Target(i) = NoKey THEN links[phase][i] ELSE Ids(Hits(i, Taken[i - 1]))
  BY DEF Matching
<1>3. CASE phase = "apply" \/ reverted[i] = "yes"
  <2>1. Target(i) = Key[phase][i] /\ Target(i) # NoKey
    BY <1>3, ChangelogAssumption DEF Target
  <2> QED BY <1>1, <1>2, <1>3, <2>1
<1>4. CASE ~(phase = "apply" \/ reverted[i] = "yes")
  <2>1. phase = "rollback" /\ Target(i) = NoKey
    BY <1>4 DEF Target, Phases
  <2>2. links["rollback"][i] = {}
    BY <1>4 DEF LinkedInv, LinksInv
  <2> QED BY <1>2, <1>4, <2>1, <2>2
<1> QED BY <1>3, <1>4

LEMMA LinkedStep == LinkedInv /\ OneOwner /\ [Next]_vars => LinkedInv' /\ OneOwner'
<1> SUFFICES ASSUME LinkedInv, OneOwner, [Next]_vars PROVE LinkedInv' /\ OneOwner'
  OBVIOUS
<1> USE DEF LinkedInv
<1>1. CASE Tick
  <2>1. Types' /\ LinksInv' /\ OneOwner'
    BY <1>1 DEF Tick, Types, LinksInv, OneOwner
  <2>2. LogInv'
    BY <1>1 DEF Tick, Types, LogInv
  <2> QED BY <2>1, <2>2
<1>2. CASE Foreign
  <2>1. Types' /\ LinksInv' /\ OneOwner'
    BY <1>2 DEF Foreign, Types, LinksInv, OneOwner
  <2>2. LogInv'
    BY <1>2, LogGrows DEF Foreign
  <2> QED BY <2>1, <2>2
<1>3. ASSUME NEW i \in Entries, Apply(i) PROVE LinkedInv' /\ OneOwner'
  <2>1. Types' /\ LinksInv' /\ OneOwner'
    BY <1>3 DEF Apply, Types, LinksInv, OneOwner
  <2>2. LogInv'
    BY <1>3, LogGrows DEF Apply
  <2> QED BY <2>1, <2>2
<1>4. CASE RollbackStarts
  <2>1. Types' /\ LinksInv' /\ OneOwner'
    BY <1>4 DEF RollbackStarts, Types, LinksInv, OneOwner, Phases
  <2>2. LogInv'
    BY <1>4 DEF RollbackStarts, LogInv
  <2> QED BY <2>1, <2>2
<1>5. ASSUME NEW i \in Entries, Revert(i) PROVE LinkedInv' /\ OneOwner'
  <2>1. reverted' \in [Entries -> {"no", "gone", "yes"}]
    BY <1>5 DEF Revert, Types
  <2>2. Types' /\ LinksInv' /\ OneOwner'
    BY <1>5, <2>1 DEF Revert, Types, LinksInv, OneOwner
  <2>3. CASE log' = log
    BY <1>5, <2>2, <2>3 DEF Revert, LogInv
  <2>4. CASE Logs(Key["rollback"][i], <<"rollback", i>>)
    BY <1>5, <2>2, <2>4, LogGrows DEF Revert
  <2> QED BY <1>5, <2>3, <2>4 DEF Revert
<1>6. CASE Link
  <2>1. phase \in Phases
    BY <1>6 DEF Link, Phases
  <2>2. LogInv'
    BY <1>6 DEF Link, LogInv
  <2>3. CASE links' = links
    BY <1>6, <2>2, <2>3 DEF Link, Types, LinksInv, OneOwner
  <2>4. CASE links' = [links EXCEPT ![phase] = Matching]
    <3>1. links' \in [Phases -> [Entries -> SUBSET Nat]] /\ links'[phase] = Matching /\ \A ph \in Phases : ph # phase => links'[ph] = links[ph]
      BY <2>1, <2>4, MatchingIs DEF Types
    <3>2. Types'
      BY <1>6, <3>1 DEF Link, Types
    <3>3. LinksInv'
      BY <1>6, <2>1, <3>1, MatchingIs DEF Link, LinksInv, Phases
    <3>4. \A i \in Entries : links'[phase][i] \cap Claimed = {}
      BY <2>1, <3>1, MatchingIs, TakenOnce
    <3>5. \A i, j \in Entries : i # j => links'[phase][i] \cap links'[phase][j] = {}
      BY <2>1, <3>1, MatchingIs, TakenOnce
    <3>6. \A ph \in Phases, i \in Entries : ph # phase => links'[ph][i] \subseteq Claimed
      BY <2>1, <3>1 DEF Claimed, Other, Phases
    <3>7. \A ph \in Phases, i, j \in Entries : ph # phase /\ i # j => links'[ph][i] \cap links'[ph][j] = {}
      BY <2>1, <3>1 DEF OneOwner
    <3>8. OneOwner'
      <4> SUFFICES ASSUME NEW ph \in Phases, NEW qh \in Phases, NEW i \in Entries, NEW j \in Entries,
                          <<ph, i>> # <<qh, j>>
                   PROVE  links'[ph][i] \cap links'[qh][j] = {}
        BY DEF OneOwner
      <4>1. CASE ph = phase /\ qh = phase
        BY <3>5, <4>1
      <4>2. CASE ph = phase /\ qh # phase
        BY <3>4, <3>6, <4>2
      <4>3. CASE ph # phase /\ qh = phase
        BY <3>4, <3>6, <4>3
      <4>4. CASE ph # phase /\ qh # phase
        BY <2>1, <3>7, <4>4 DEF Phases
      <4> QED BY <4>1, <4>2, <4>3, <4>4
    <3> QED BY <2>2, <3>2, <3>3, <3>8
  <2> QED BY <1>6, <2>3, <2>4 DEF Link
<1>7. CASE UNCHANGED vars
  BY <1>7 DEF vars, Types, LogInv, LinksInv, OneOwner
<1> QED BY <1>1, <1>2, <1>3, <1>4, <1>5, <1>6, <1>7 DEF Next

\* A change record is attributed to one entry and one phase (_link_changelog's
\* claimed set): whoever else writes and however many rollbacks there are.
THEOREM OneOwnerAlways == Spec => []OneOwner
<1>1. Spec => [](LinkedInv /\ OneOwner)
  BY LinkedStart, LinkedStep, PTL DEF Spec
<1> QED BY <1>1, PTL

-----------------------------------------------------------------------------
(* What the plan's own writes find.                                        *)

\* Every record stands for one write, of another user or of one entry in one
\* phase.
WrittenInv ==
    /\ foreign = 0 => \A r \in log : r.by # <<"foreign">>
    /\ \A r \in log : r.by # <<"foreign">> =>
          \E ph \in Phases, i \in Entries : r.by = <<ph, i>> /\ r.key = Key[ph][i]
    /\ \A r \in log, i \in Entries :
          /\ r.by = <<"apply", i>> => i \in applied
          /\ r.by = <<"rollback", i>> => reverted[i] = "yes"
    /\ \A r, q \in log : r.by # <<"foreign">> /\ r.by = q.by => r = q

\* The runs of a plan follow one another.
RunsInv ==
    /\ phase = "apply" =>
          rollbacks = 0 /\ since = 0 /\ \A ph \in Phases, i \in Entries : links[ph][i] = {}
    /\ rollbacks = 0 =>
          /\ \A r \in log, i \in Entries : r.by # <<"rollback", i>>
          /\ \A i \in Entries : links["rollback"][i] = {}
    /\ phase = "rollback" =>
          /\ rollbacks >= 1
          /\ \A r \in log, i \in Entries : r.by = <<"apply", i>> => r.time <= since + offset
    /\ phase = "rollback" /\ rollbacks = 1 =>
          /\ \A r \in log, i \in Entries : r.by = <<"rollback", i>> => r.time >= since + offset
          /\ \A i \in Entries : links["rollback"][i] = {}

OwnInv == LinkedInv /\ WrittenInv /\ RunsInv

\* A record matches by object, action and app: two entries of a phase that
\* share all three share their records.
KeysDiffer == \A ph \in Phases : \A i, j \in Entries : i # j => Key[ph][i] # Key[ph][j]

LEMMA WritersDiffer ==
    /\ \A ph, i : <<"foreign">> # <<ph, i>>
    /\ \A ph, qh, i, j : <<ph, i>> = <<qh, j>> <=> ph = qh /\ i = j
  OBVIOUS

LEMMA OwnStart == Init => OwnInv /\ OwnLinked
<1> SUFFICES ASSUME Init PROVE OwnInv /\ OwnLinked
  OBVIOUS
<1>1. LinkedInv
  BY LinkedStart
<1>2. WrittenInv /\ RunsInv
  BY DEF Init, WrittenInv, RunsInv, Phases
<1>3. OwnLinked
  BY DEF Init, OwnLinked, Linked, Phases
<1> QED BY <1>1, <1>2, <1>3 DEF OwnInv

\* Whoever has taken a record had it before or hit on it.
LEMMA TakenFrom ==
    ASSUME NEW n \in 0..Last, NEW x \in Taken[n]
    PROVE  x \in Claimed \/ \E j \in Entries : j <= n /\ x \in Ids(Hits(j, Taken[j - 1]))
<1> DEFINE Hit(m, y) == \E j \in Entries : j <= m /\ y \in Ids(Hits(j, Taken[j - 1]))
           S == {m \in 0..Last : \A y \in Taken[m] : y \in Claimed \/ Hit(m, y)}
<1>1. Last \in Nat
  BY LastIs
<1>2. 0 \in S
  BY <1>1, TakenIs
<1>3. ASSUME NEW m \in 0..(Last - 1), m \in S PROVE m + 1 \in S
  <2>1. m + 1 \in 1..Last /\ m + 1 \in 0..Last /\ (m + 1) - 1 = m
    BY <1>1
  <2>2. \A y : Hit(m, y) => Hit(m + 1, y)
    BY <1>1, ChangelogAssumption
  <2>3. \A y \in Ids(Hits(m + 1, Taken[m])) : m + 1 \in Entries => Hit(m + 1, y)
    BY <2>1
  <2>4. Taken[m + 1] = IF m + 1 \in Entries THEN Taken[m] \cup Ids(Hits(m + 1, Taken[m])) ELSE Taken[m]
    BY <2>1, TakenIs
  <2>5. \A y \in Taken[m] : y \in Claimed \/ Hit(m, y)
    BY <1>3
  <2> HIDE DEF Hit
  <2>6. \A y \in Taken[m + 1] : y \in Claimed \/ Hit(m + 1, y)
    BY <2>2, <2>3, <2>4, <2>5
  <2> QED BY <2>1, <2>6
<1>4. 0..Last \subseteq S
  <2> HIDE DEF S
  <2> QED BY <1>1, <1>2, <1>3, Reaches
<1> QED BY <1>4

LEMMA PreferredIs ==
    ASSUME NEW h
    PROVE  Preferred(h) = h \/ (Preferred(h) = Strictly(h) /\ Strictly(h) # {})
  BY DEF Preferred

\* The plan's writes alone: a record with the key of an entry's write in this
\* run is that write, unless it is the apply's and this is a rollback; and the
\* apply's are not in the rollback's strict window if NetBox's clock is not
\* ahead.
LEMMA OwnOnly ==
    ASSUME OwnInv, KeysDiffer, foreign = 0, phase \in Phases, rollbacks <= 1,
           NEW i \in Entries, NEW q \in log, q.key = Target(i),
           \/ phase = "apply"
           \/ offset <= 0 /\ since < q.time
           \/ \A j \in Entries : q.by # <<"apply", j>>
    PROVE  q.by = <<phase, i>>
<1> USE DEF OwnInv
<1>1. PICK ph \in Phases, j \in Entries : q.by = <<ph, j>> /\ q.key = Key[ph][j]
  BY DEF WrittenInv
<1>2. Target(i) = Key[phase][i]
  BY <1>1, ChangelogAssumption DEF Target
<1>3. ph = phase
  <2>1. CASE phase = "apply"
    BY <1>1, <2>1 DEF RunsInv, Phases
  <2>2. CASE phase = "rollback" /\ offset <= 0 /\ since < q.time
    <3>1. q.by = <<"apply", j>> => q.time <= since + offset
      BY <2>2 DEF RunsInv
    <3>2. q.time \in Int /\ since \in Nat /\ offset \in Int /\ now \in Nat
      BY DEF LinkedInv, LogInv, Types
    <3>3. q.by # <<"apply", j>>
      BY <2>2, <3>1, <3>2
    <3> QED BY <1>1, <2>2, <3>3 DEF Phases
  <2>3. CASE \A k \in Entries : q.by # <<"apply", k>>
    BY <1>1, <2>1, <2>3 DEF Phases
  <2> QED BY <2>1, <2>2, <2>3 DEF Phases
<1>4. j = i
  BY <1>1, <1>2, <1>3 DEF KeysDiffer
<1> QED BY <1>1, <1>3, <1>4

\* A write of this run is free when its entry's turn comes.
LEMMA OwnFree ==
    ASSUME OwnInv, OwnLinked, ClocksClose, KeysDiffer, foreign = 0, phase \in Phases, rollbacks <= 1,
           NEW i \in Entries, NEW r \in log, r.by = <<phase, i>>
    PROVE  r.id \notin Taken[i - 1]
<1> USE DEF OwnInv
<1>1. Last \in Nat /\ Entries \subseteq 1..Last /\ i - 1 \in 0..Last
  BY LastIs
<1>2. r.id \notin Claimed
  <2>1. CASE phase = "apply"
    BY <2>1 DEF Claimed, Other, RunsInv, Phases
  <2>2. CASE phase = "rollback"
    <3>1. \A j \in Entries : links["apply"][j] = {} \/ links["apply"][j] = Own("apply", j)
      BY DEF OwnLinked, Linked
    <3>2. \A j \in Entries : r.id \notin Own("apply", j)
      BY <2>2, WritersDiffer DEF Own, LinkedInv, LogInv
    <3> QED BY <2>2, <3>1, <3>2 DEF Claimed, Other
  <2> QED BY <2>1, <2>2 DEF Phases
<1>3. ASSUME NEW j \in Entries, j <= i - 1 PROVE r.id \notin Ids(Hits(j, Taken[j - 1]))
  <2>1. j # i
    BY <1>1, <1>3
  <2>2. r.key = Key[phase][i]
    BY WritersDiffer DEF WrittenInv
  <2>3. r.key # Target(j)
    BY <2>1, <2>2, ChangelogAssumption DEF Target, KeysDiffer
  <2>4. \A q \in log : q.id = r.id => q = r
    BY DEF LinkedInv, LogInv
  <2>5. Hits(j, Taken[j - 1]) \subseteq {q \in log : q.key = Target(j)}
    BY HitsAre
  <2> QED BY <2>3, <2>4, <2>5 DEF Ids
<1> QED BY <1>1, <1>2, <1>3, TakenFrom

\* The apply's records are told from the rollback's: they are attributed, or
\* older than the rollback by NetBox's clock too.
ToldApart == phase = "apply" \/ Linked("apply") \/ offset <= 0

\* It falls in the run's window, and no other record hides it.
LEMMA OwnHit ==
    ASSUME OwnInv, OwnLinked, ClocksClose, ToldApart, KeysDiffer, foreign = 0, phase \in Phases, rollbacks <= 1,
           NEW i \in Entries, NEW r \in log, r.by = <<phase, i>>
    PROVE  r \in Hits(i, Taken[i - 1])
<1> USE DEF OwnInv
<1> DEFINE h == {q \in Rows : q.key = Target(i) /\ q.id \notin Taken[i - 1]}
<1>1. r.key = Target(i)
  BY WritersDiffer DEF WrittenInv, Target, Phases
<1>2. r \in Rows
  <2>1. /\ r.time \in Int /\ since \in Nat /\ Skew \in Nat /\ offset \in Int /\ now \in Nat
        /\ offset <= r.time /\ r.time <= now + offset
    BY ChangelogAssumption DEF LinkedInv, LogInv, Types
  <2>2. since + offset <= r.time
    <3>1. CASE phase = "apply"
      BY <2>1, <3>1 DEF RunsInv
    <3>2. CASE phase = "rollback"
      <4>1. rollbacks = 1
        BY <3>2 DEF RunsInv, LinkedInv, Types
      <4> QED BY <2>1, <3>2, <4>1 DEF RunsInv
    <3> QED BY <3>1, <3>2 DEF Phases
  <2> QED BY <2>1, <2>2 DEF Rows, ClocksClose
<1>3. r \in h
  BY <1>1, <1>2, OwnFree
<1>4. ASSUME NEW q \in Strictly(h) PROVE q = r
  <2>1. q \in log /\ q.key = Target(i) /\ since < q.time /\ q.id \notin Taken[i - 1]
    BY DEF Strictly, Rows
  <2>2. q.by = <<phase, i>>
    <3>1. CASE phase = "apply" \/ offset <= 0
      BY <2>1, <3>1, OwnOnly
    <3>2. CASE phase = "rollback" /\ Linked("apply")
      <4>1. Claimed \subseteq Taken[i - 1]
        <5>1. Last \in Nat /\ i - 1 \in 0..Last /\ 0 \in 0..(i - 1)
          BY LastIs
        <5> QED BY <5>1, TakenGrows, TakenIs
      <4>2. \A j \in Entries : links["apply"][j] = Own("apply", j)
        BY <3>2 DEF OwnLinked
      <4>3. \A j \in Entries : q.id \notin Own("apply", j)
        BY <2>1, <3>2, <4>1, <4>2 DEF Claimed, Other
      <4>4. \A j \in Entries : q.by # <<"apply", j>>
        BY <2>1, <4>3 DEF Own
      <4> QED BY <2>1, <4>4, OwnOnly
    <3> QED BY <3>1, <3>2 DEF ToldApart, Phases
  <2> QED BY <2>1, <2>2, WritersDiffer DEF WrittenInv
<1>5. Hits(i, Taken[i - 1]) = Preferred(h)
  BY DEF Hits
<1> HIDE DEF h
<1> QED BY <1>3, <1>4, <1>5, PreferredIs

\* A step adds at most one record, and says whose write it stands for.
LEMMA WrittenStep == OwnInv /\ [Next]_vars => WrittenInv'
<1> SUFFICES ASSUME OwnInv, [Next]_vars PROVE WrittenInv'
  OBVIOUS
<1> USE DEF OwnInv, LinkedInv
<1>1. CASE Foreign
  <2>1. PICK key : Logs(key, <<"foreign">>)
    BY <1>1 DEF Foreign
  <2>2. PICK new : log' = log \cup {new} /\ new.by = <<"foreign">>
    BY <1>1, <2>1, LogGrows DEF Foreign
  <2>3. foreign' # 0 /\ applied' = applied /\ reverted' = reverted
    BY <1>1 DEF Foreign, Types
  <2>4. \A r \in log' : r.by = <<"foreign">> \/ r \in log
    BY <2>2
  <2> QED BY <2>3, <2>4, WritersDiffer DEF WrittenInv
<1>2. ASSUME NEW i \in Entries, Apply(i) PROVE WrittenInv'
  <2>1. PICK new : log' = log \cup {new} /\ new.key = Key["apply"][i] /\ new.by = <<"apply", i>>
    BY <1>2, LogGrows DEF Apply
  <2>2. applied' = applied \cup {i} /\ i \notin applied /\ reverted' = reverted /\ foreign' = foreign
    BY <1>2 DEF Apply
  <2>3. \A r \in log' : r = new \/ (r \in log /\ r.by # new.by)
    BY <2>1, <2>2 DEF WrittenInv
  <2> QED BY <2>1, <2>2, <2>3, WritersDiffer DEF WrittenInv, Phases
<1>3. ASSUME NEW i \in Entries, Revert(i) PROVE WrittenInv'
  <2>1. CASE /\ Logs(Key["rollback"][i], <<"rollback", i>>)
             /\ reverted' = [reverted EXCEPT ![i] = "yes"]
    <3>1. PICK new : log' = log \cup {new} /\ new.key = Key["rollback"][i] /\ new.by = <<"rollback", i>>
      BY <1>3, <2>1, LogGrows DEF Revert
    <3>2. /\ reverted'[i] = "yes" /\ reverted[i] # "yes" /\ applied' = applied /\ foreign' = foreign
          /\ \A j \in Entries : reverted[j] = "yes" => reverted'[j] = "yes"
      BY <1>3, <2>1 DEF Revert, Types
    <3>3. \A r \in log' : r = new \/ (r \in log /\ r.by # new.by)
      BY <3>1, <3>2 DEF WrittenInv
    <3> QED BY <3>1, <3>2, <3>3, WritersDiffer DEF WrittenInv, Phases
  <2>2. CASE log' = log /\ \A j \in Entries : reverted[j] = "yes" => reverted'[j] = "yes"
    BY <1>3, <2>2 DEF Revert, WrittenInv
  <2>3. \/ Logs(Key["rollback"][i], <<"rollback", i>>) /\ reverted' = [reverted EXCEPT ![i] = "yes"]
        \/ log' = log /\ \A j \in Entries : reverted[j] = "yes" => reverted'[j] = "yes"
    BY <1>3 DEF Revert, Types
  <2> QED BY <2>1, <2>2, <2>3
<1>4. CASE Tick \/ RollbackStarts \/ Link \/ UNCHANGED vars
  BY <1>4 DEF Tick, RollbackStarts, Link, vars, WrittenInv
<1> QED BY <1>1, <1>2, <1>3, <1>4 DEF Next

\* The runs of the plan, one after the other.
LEMMA RunsStep == OwnInv /\ [Next]_vars => RunsInv'
<1> SUFFICES ASSUME OwnInv, [Next]_vars PROVE RunsInv'
  OBVIOUS
<1> USE DEF OwnInv, LinkedInv
<1>1. CASE Foreign
  <2>1. PICK key : Logs(key, <<"foreign">>)
    BY <1>1 DEF Foreign
  <2>2. PICK new : log' = log \cup {new} /\ new.by = <<"foreign">>
    BY <1>1, <2>1, LogGrows DEF Foreign
  <2>3. \A r \in log' : r.by = <<"foreign">> \/ r \in log
    BY <2>2
  <2> QED BY <1>1, <2>3, WritersDiffer DEF Foreign, RunsInv
<1>2. ASSUME NEW i \in Entries, Apply(i) PROVE RunsInv'
  <2>1. PICK new : log' = log \cup {new} /\ new.by = <<"apply", i>>
    BY <1>2, LogGrows DEF Apply
  <2>2. \A r \in log' : r = new \/ r \in log
    BY <2>1
  <2> QED BY <1>2, <2>1, <2>2, WritersDiffer DEF Apply, RunsInv
<1>3. ASSUME NEW i \in Entries, Revert(i) PROVE RunsInv'
  <2>1. /\ phase = "rollback" /\ phase' = phase /\ links' = links /\ rollbacks' = rollbacks
        /\ since' = since /\ rollbacks >= 1 /\ rollbacks # 0
    BY <1>3 DEF Revert, RunsInv, Types
  <2>2. \A r \in log' : r \in log \/ (r.by = <<"rollback", i>> /\ r.time = now + offset)
    <3>1. CASE Logs(Key["rollback"][i], <<"rollback", i>>)
      BY <1>3, <3>1, LogGrows DEF Revert
    <3>2. CASE log' = log
      BY <3>2
    <3> QED BY <1>3, <3>1, <3>2 DEF Revert
  <2>3. now + offset >= since + offset /\ offset' = offset
    BY <1>3 DEF Types, Revert
  <2> QED BY <2>1, <2>2, <2>3, WritersDiffer DEF RunsInv
<1>4. CASE RollbackStarts
  <2>1. /\ phase = "none" /\ phase' = "rollback" /\ since' = now /\ rollbacks' = rollbacks + 1
        /\ log' = log /\ links' = links /\ offset' = offset
    BY <1>4 DEF RollbackStarts
  <2>2. rollbacks' >= 1 /\ rollbacks' # 0 /\ (rollbacks' = 1 => rollbacks = 0)
    BY <2>1 DEF Types
  <2>3. \A r \in log : r.time <= now + offset
    BY DEF LogInv
  <2> QED BY <2>1, <2>2, <2>3 DEF RunsInv
<1>5. CASE Link
  <2>1. phase \in Phases /\ phase' = "none" /\ log' = log /\ rollbacks' = rollbacks /\ offset' = offset
    BY <1>5 DEF Link, Phases
  <2>2. rollbacks = 0 => phase = "apply"
    BY <2>1 DEF RunsInv, Phases, Types
  <2>3. phase = "apply" => links'["rollback"] = links["rollback"]
    BY <1>5 DEF Link, Types, Phases
  <2> QED BY <2>1, <2>2, <2>3 DEF RunsInv
<1>6. CASE Tick \/ UNCHANGED vars
  BY <1>6 DEF Tick, vars, RunsInv
<1> QED BY <1>1, <1>2, <1>3, <1>4, <1>5, <1>6 DEF Next

\* A step that adds no record of an entry's write leaves what is its own.
LEMMA OwnSame ==
    ASSUME NEW ph, NEW i, log \subseteq log', \A r \in log' : r \in log \/ r.by # <<ph, i>>
    PROVE  Own(ph, i)' = Own(ph, i)
  BY DEF Own

LEMMA OwnLinkedSame ==
    ASSUME OwnLinked, log' = log, links' = links, foreign' = foreign, offset' = offset,
           rollbacks' <= 1 => rollbacks <= 1
    PROVE  OwnLinked'
<1>1. \A ph, i : Own(ph, i)' = Own(ph, i)
  BY DEF Own
<1>2. \A ph : Linked(ph)' <=> Linked(ph)
  BY DEF Linked
<1>3. OwnLinked' <=>
        (foreign = 0 /\ ClocksClose =>
            /\ Linked("apply") => \A i \in Entries : links["apply"][i] = Own("apply", i)
            /\ rollbacks' <= 1 /\ Linked("rollback") /\ (Linked("apply") \/ offset <= 0) =>
                  \A i \in Entries : Own("rollback", i) \subseteq links["rollback"][i])
  BY <1>1, <1>2 DEF OwnLinked, ClocksClose
<1> QED BY <1>3 DEF OwnLinked

LEMMA OwnLinks ==
    ASSUME KeysDiffer, OwnInv, OwnLinked, ClocksClose, Link, foreign = 0, links' = [links EXCEPT ![phase] = Matching]
    PROVE  OwnLinked'
<1> USE DEF OwnInv, LinkedInv
<1>1. /\ phase \in Phases /\ log' = log /\ rollbacks' = rollbacks /\ offset' = offset
      /\ \A ph, i : Own(ph, i)' = Own(ph, i)
  BY DEF Link, Phases, Own
<1>2. links'[phase] = Matching /\ \A ph \in Phases : ph # phase => links'[ph] = links[ph]
  BY <1>1 DEF Types
<1>3. ASSUME ToldApart, rollbacks <= 1, NEW i \in Entries, Matching[i] = Ids(Hits(i, Taken[i - 1]))
      PROVE  Own(phase, i) \subseteq Matching[i]
  BY <1>1, <1>3, OwnHit DEF Own, Ids
<1>4. CASE phase = "apply"
  <2>1. rollbacks = 0 /\ rollbacks <= 1 /\ \A i \in Entries : links'["rollback"][i] = {}
    BY <1>2, <1>4 DEF RunsInv, Phases
  <2>2. ASSUME NEW i \in Entries PROVE Matching[i] = Own("apply", i)
    <3>1. Matching[i] = Ids(Hits(i, Taken[i - 1]))
      BY <1>1, <1>4, MatchingIs
    <3>2. \A q \in Hits(i, Taken[i - 1]) : q \in log /\ q.key = Target(i)
      BY HitsAre
    <3>3. \A q \in Hits(i, Taken[i - 1]) : q.by = <<"apply", i>>
      BY <1>1, <1>4, <2>1, <3>2, OwnOnly
    <3>4. Ids(Hits(i, Taken[i - 1])) \subseteq Own("apply", i)
      BY <3>2, <3>3 DEF Ids, Own
    <3> QED BY <1>3, <1>4, <2>1, <3>1, <3>4 DEF ToldApart
  <2> QED BY <1>1, <1>2, <1>4, <2>1, <2>2 DEF OwnLinked, Linked
<1>5. CASE phase = "rollback"
  <2>1. links'["apply"] = links["apply"]
    BY <1>2, <1>5 DEF Phases
  <2>2. ASSUME ToldApart, rollbacks <= 1, NEW i \in Entries PROVE Own("rollback", i) \subseteq Matching[i]
    <3>1. CASE reverted[i] = "yes"
      BY <1>1, <1>3, <1>5, <2>2, <3>1, MatchingIs
    <3>2. CASE reverted[i] # "yes"
      BY <3>2 DEF WrittenInv, Own
    <3> QED BY <3>1, <3>2
  <2>3. (Linked("apply") \/ offset <= 0)' => ToldApart
    BY <1>1, <2>1 DEF ToldApart, Linked
  <2>4. Linked("apply")' <=> Linked("apply")
    BY <2>1 DEF Linked
  <2> QED BY <1>1, <1>2, <1>5, <2>1, <2>2, <2>3, <2>4 DEF OwnLinked
<1> QED BY <1>1, <1>4, <1>5 DEF Phases

LEMMA OwnStep == ASSUME KeysDiffer PROVE OwnInv /\ OneOwner /\ OwnLinked /\ [Next]_vars => OwnInv' /\ OneOwner' /\ OwnLinked'
<1> SUFFICES ASSUME OwnInv, OneOwner, OwnLinked, [Next]_vars PROVE OwnInv' /\ OneOwner' /\ OwnLinked'
  OBVIOUS
<1>1. OwnInv' /\ OneOwner'
  BY LinkedStep, WrittenStep, RunsStep DEF OwnInv
<1> USE DEF OwnInv, LinkedInv
<1>2. CASE Foreign
  <2>1. foreign' # 0
    BY <1>2 DEF Foreign, Types
  <2> QED BY <1>1, <2>1 DEF OwnLinked
<1>3. ASSUME NEW i \in Entries, Apply(i) PROVE OwnLinked'
  <2>1. \A ph \in Phases, j \in Entries : links'[ph][j] = {}
    BY <1>3 DEF Apply, RunsInv
  <2> QED BY <2>1 DEF OwnLinked, Linked, Phases
<1>4. ASSUME NEW i \in Entries, Revert(i) PROVE OwnLinked'
  <2>1. log \subseteq log' /\ \A r \in log' : r \in log \/ r.by = <<"rollback", i>>
    <3>1. CASE Logs(Key["rollback"][i], <<"rollback", i>>)
      BY <1>4, <3>1, LogGrows DEF Revert
    <3>2. CASE log' = log
      BY <3>2
    <3> QED BY <1>4, <3>1, <3>2 DEF Revert
  <2>2. \A j \in Entries : Own("apply", j)' = Own("apply", j)
    <3> TAKE j \in Entries
    <3>1. \A r \in log' : r \in log \/ r.by # <<"apply", j>>
      BY <2>1, WritersDiffer
    <3> QED BY <2>1, <3>1, OwnSame
  <2>3. /\ links' = links /\ foreign' = foreign /\ rollbacks' = rollbacks /\ phase = "rollback"
        /\ offset' = offset
    BY <1>4 DEF Revert
  <2>4. rollbacks <= 1 => \A j \in Entries : links["rollback"][j] = {}
    BY <2>3 DEF RunsInv, Types
  <2> QED BY <2>2, <2>3, <2>4 DEF OwnLinked, Linked, ClocksClose
<1>5. CASE RollbackStarts
  <2>1. log' = log /\ links' = links /\ foreign' = foreign /\ offset' = offset
    BY <1>5 DEF RollbackStarts
  <2>2. rollbacks' <= 1 => rollbacks <= 1
    BY <1>5 DEF RollbackStarts, Types
  <2> QED BY <2>1, <2>2, <1>1, OwnLinkedSame
<1>6. CASE Link
  <2>1. log' = log /\ foreign' = foreign /\ rollbacks' = rollbacks /\ offset' = offset
    BY <1>6 DEF Link
  <2>2. links' = links \/ links' = [links EXCEPT ![phase] = Matching]
    BY <1>6 DEF Link
  <2>3. CASE foreign # 0
    BY <1>1, <2>1, <2>3 DEF OwnLinked
  <2>4. CASE links' = links
    BY <1>1, <2>1, <2>4, OwnLinkedSame
  <2>5. CASE ~ClocksClose
    BY <1>1, <2>1, <2>5 DEF OwnLinked, ClocksClose
  <2> QED BY <1>1, <1>6, <2>2, <2>3, <2>4, <2>5, OwnLinks
<1>7. CASE Tick \/ UNCHANGED vars
  <2>1. /\ log' = log /\ links' = links /\ foreign' = foreign /\ rollbacks' = rollbacks
        /\ offset' = offset
    BY <1>7 DEF Tick, vars
  <2> QED BY <1>1, <2>1, OwnLinkedSame
<1> QED BY <1>1, <1>2, <1>3, <1>4, <1>5, <1>6, <1>7 DEF Next

\* Where the entries of a phase can be told apart and the two clocks are within
\* the skew _link_changelog allows for, linking finds every write of the apply
\* and of the first rollback, in the widened window and through the preference
\* for the narrow one: whatever the pace of the runs.
THEOREM OwnLinkedAlways == ASSUME KeysDiffer PROVE Spec => []OwnLinked
<1>1. Init => OwnInv /\ OneOwner /\ OwnLinked
  BY OwnStart, LinkedStart
<1>2. OwnInv /\ OneOwner /\ OwnLinked /\ [Next]_vars => (OwnInv /\ OneOwner /\ OwnLinked)'
  BY OwnStep
<1>3. Spec => [](OwnInv /\ OneOwner /\ OwnLinked)
  BY <1>1, <1>2, PTL DEF Spec
<1> QED BY <1>3, PTL

=============================================================================
