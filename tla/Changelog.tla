-------------------------------- MODULE Changelog --------------------------------
(***************************************************************************)
(* Cross-referencing a plan's journal with NetBox's change log             *)
(* (executor._link_changelog): after the apply and after every rollback    *)
(* the records of the run's time window are matched to the journal entries *)
(* written in that phase.                                                  *)
(*                                                                         *)
(* A key stands for what a record must share with an entry to match: the   *)
(* object id, the action and the app of the object type.  The key an       *)
(* entry's apply write has may be the one its revert has (an update) or    *)
(* another (create and delete).  Time passes in seconds; a stamp of the    *)
(* plan is the second it was taken in by the plugin's clock, a record      *)
(* falls within a second of NetBox's, which is offset seconds ahead.       *)
(***************************************************************************)
EXTENDS Integers, FiniteSets

CONSTANTS
    Entries,       \* 1..n: the journal's "done" entries, all of them written
    Key,           \* [{"apply", "rollback"} -> [Entries -> key]]
    Skew,          \* _CLOCK_SKEW_SECONDS
    MaxTime,       \* bound: seconds
    MaxRollbacks,  \* bound: rollbacks of the plan
    MaxForeign,    \* bound: writes of other users
    MaxOffset,     \* bound: how far apart the two clocks are
    NoKey          \* nothing was written ("object already gone")

Phases == {"apply", "rollback"}
ASSUME ChangelogAssumption ==
    /\ Entries \subseteq Nat \ {0} /\ IsFiniteSet(Entries)
    /\ DOMAIN Key = Phases
    /\ \A ph \in Phases : DOMAIN Key[ph] = Entries /\ \A i \in Entries : Key[ph][i] # NoKey
    /\ Skew \in Nat /\ MaxTime \in Nat /\ MaxRollbacks \in Nat /\ MaxForeign \in Nat
    /\ MaxOffset \in Nat

VARIABLES
    offset,     \* NetBox's clock less the plugin's
    now,        \* seconds, by the plugin's clock
    log,        \* NetBox's change log: a set of records
    phase,      \* the run in progress, or "none"
    since,      \* its started_at
    applied,    \* entries written by the apply
    reverted,   \* [entry -> "no" | "gone" | "yes"], revert_status and its note
    tried,      \* entries the rollback in progress has been through
    rollbacks, foreign,
    links       \* per phase and entry: ids of the records attached

vars == <<offset, now, log, phase, since, applied, reverted, tried, rollbacks, foreign, links>>

MaxRecords == Cardinality(Entries) * (1 + MaxRollbacks) + MaxForeign
AllKeys == {Key[ph][i] : ph \in Phases, i \in Entries}
Record == [id : 1..MaxRecords, key : AllKeys, time : (-MaxOffset)..(MaxTime + MaxOffset),
           by : ({"apply", "rollback"} \X Entries) \cup {<<"foreign">>}]

TypeOK ==
    /\ offset \in (-MaxOffset)..MaxOffset
    /\ now \in 0..MaxTime /\ log \subseteq Record
    /\ phase \in Phases \cup {"none"} /\ since \in 0..MaxTime
    /\ applied \subseteq Entries /\ reverted \in [Entries -> {"no", "gone", "yes"}]
    /\ tried \subseteq Entries
    /\ rollbacks \in 0..MaxRollbacks /\ foreign \in 0..MaxForeign
    /\ links \in [Phases -> [Entries -> SUBSET (1..MaxRecords)]]

Init ==
    /\ offset \in (-MaxOffset)..MaxOffset /\ now = 0 /\ log = {}
    /\ phase = "apply" /\ since = 0
    /\ applied = {} /\ reverted = [i \in Entries |-> "no"] /\ tried = {}
    /\ rollbacks = 0 /\ foreign = 0
    /\ links = [ph \in Phases |-> [i \in Entries |-> {}]]

\* NetBox writes a record of a change, by its own clock.
Logs(key, by) ==
    log' = log \cup {[id |-> Cardinality(log) + 1, key |-> key, time |-> now + offset, by |-> by]}

Tick ==
    /\ now < MaxTime /\ now' = now + 1
    /\ UNCHANGED <<offset, log, phase, since, applied, reverted, tried, rollbacks, foreign, links>>

Foreign ==
    /\ foreign < MaxForeign /\ foreign' = foreign + 1
    /\ \E key \in AllKeys : Logs(key, <<"foreign">>)
    /\ UNCHANGED <<offset, now, phase, since, applied, reverted, tried, rollbacks, links>>

\* The apply loop writes the next entry.
Apply(i) ==
    /\ phase = "apply" /\ i \notin applied /\ \A j \in Entries : j < i => j \in applied
    /\ Logs(Key["apply"][i], <<"apply", i>>)
    /\ applied' = applied \cup {i}
    /\ UNCHANGED <<offset, now, phase, since, reverted, tried, rollbacks, foreign, links>>

RollbackStarts ==
    /\ phase = "none" /\ rollbacks < MaxRollbacks
    /\ \E i \in Entries : reverted[i] = "no"
    /\ phase' = "rollback" /\ since' = now /\ tried' = {} /\ rollbacks' = rollbacks + 1
    /\ UNCHANGED <<offset, now, log, applied, reverted, foreign, links>>

\* One pending entry, newest first: reverted, found gone, or left (a
\* conflict or a failure).  Only a create's object can be found gone.
Revert(i) ==
    /\ phase = "rollback" /\ reverted[i] = "no" /\ i \notin tried
    /\ \A j \in Entries : j > i => reverted[j] # "no" \/ j \in tried
    /\ tried' = tried \cup {i}
    /\ \/ /\ Logs(Key["rollback"][i], <<"rollback", i>>)
          /\ reverted' = [reverted EXCEPT ![i] = "yes"]
       \/ /\ Key["rollback"][i] # Key["apply"][i]
          /\ reverted' = [reverted EXCEPT ![i] = "gone"] /\ UNCHANGED log
       \/ UNCHANGED <<log, reverted>>
    /\ UNCHANGED <<offset, now, phase, since, applied, rollbacks, foreign, links>>

-----------------------------------------------------------------------------
(* _link_changelog                                                         *)

\* _link_targets
Target(i) ==
    IF phase = "apply" \/ reverted[i] = "yes" THEN Key[phase][i] ELSE NoKey

\* object_changes(since - skew, now + skew): the bounds are whole seconds, so
\* that of the last second nothing is inside.
Rows == {r \in log : since - Skew <= r.time /\ r.time < now + Skew}

Other == IF phase = "apply" THEN "rollback" ELSE "apply"
\* Mutant: records of the other phase are up for grabs.
NothingClaimed == {}
Claimed == UNION {links[Other][i] : i \in Entries}

\* strict[0] <= r["time"] <= strict[1] compares strings: "…50.412Z" sorts
\* before "…50Z", so a record of the second the run started in is outside.
Strictly(hits) == {r \in hits : since < r.time /\ r.time <= now}

\* Mutant: only records inside the unwidened window count.
StrictHits(hits) == Strictly(hits)
Preferred(hits) ==
    IF Cardinality(hits) > 1 /\ Strictly(hits) # {} THEN Strictly(hits) ELSE hits

\* The entries take their records one after the other, each from what the
\* earlier ones have left: Taken[i] is what entries up to i have.
Hits(i, claimed) ==
    Preferred({r \in Rows : r.key = Target(i) /\ r.id \notin claimed})
Ids(hits) == {r.id : r \in hits}
Last == IF Entries = {} THEN 0 ELSE CHOOSE n \in Entries : \A i \in Entries : i <= n
Taken[i \in 0..Last] ==
    IF i = 0 THEN Claimed
    ELSE IF i \notin Entries THEN Taken[i - 1]
    ELSE Taken[i - 1] \cup Ids(Hits(i, Taken[i - 1]))
Matching ==
    [i \in Entries |-> IF Target(i) = NoKey THEN links[phase][i] ELSE Ids(Hits(i, Taken[i - 1]))]

\* The run is over: its records are attached, or the log was unreadable.
Link ==
    /\ \/ phase = "apply" /\ applied = Entries
       \/ phase = "rollback" /\ \A i \in Entries : reverted[i] # "no" \/ i \in tried
    /\ links' \in {[links EXCEPT ![phase] = Matching], links}
    /\ phase' = "none"
    /\ UNCHANGED <<offset, now, log, since, applied, reverted, tried, rollbacks, foreign>>

Next == Tick \/ Foreign \/ RollbackStarts \/ Link \/ \E i \in Entries : Apply(i) \/ Revert(i)

Spec == Init /\ [][Next]_vars

-----------------------------------------------------------------------------
(* Properties.                                                             *)

\* A change record is attributed to one entry and one phase, however often
\* the plan is rolled back and whoever else writes.
OneOwner ==
    \A ph, qh \in Phases, i, j \in Entries :
        <<ph, i>> # <<qh, j>> => links[ph][i] \cap links[qh][j] = {}

Own(ph, i) == {r.id : r \in {r \in log : r.by = <<ph, i>>}}

Linked(ph) == \E i \in Entries : links[ph][i] # {}

\* NetBox's clock and the plugin's are within the skew the window allows for.
ClocksClose == -Skew <= offset /\ offset < Skew

\* With the plan's own writes alone and clocks as close as the window allows
\* for, linking finds every write of the apply and of the first rollback, in
\* neighbouring seconds and in runs that follow each other at once or not:
\* when one entry of the apply has links, all have their own write and nothing
\* else; when one of the rollback has, all have their own write among them,
\* provided the apply's records were attributed or NetBox's clock is not ahead
\* (with both failing, the narrow window may prefer the apply's record).
OwnLinked ==
    foreign = 0 /\ ClocksClose =>
        /\ Linked("apply") => \A i \in Entries : links["apply"][i] = Own("apply", i)
        /\ rollbacks <= 1 /\ Linked("rollback") /\ (Linked("apply") \/ offset <= 0) =>
              \A i \in Entries : Own("rollback", i) \subseteq links["rollback"][i]
================================================================================
