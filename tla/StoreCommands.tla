------------------------------ MODULE StoreCommands ------------------------------
(***************************************************************************)
(* PlanStore as operators use it: `/netbox show|check|apply|rollback`       *)
(* resolve what was typed to a plan id and hand it to the tool handlers,    *)
(* while tools and sweeps go on in this and in other processes.             *)
(*                                                                          *)
(* A fragment is what it matches: the ids that end with it and the ids that *)
(* contain it.  "act" stands for check, apply and rollback.                 *)
(***************************************************************************)
EXTENDS PlanStore

CONSTANTS
    Fragments,   \* what operators type; an id may be among them
    EndsWith,    \* [Fragments -> ids that end with the fragment]
    Contains,    \* [Fragments -> ids that contain it]
    Operators,   \* processes commands are typed into
    Nobody       \* no command

ASSUME CommandsAssumption ==
    /\ EndsWith \in [Fragments -> SUBSET Ids] /\ Contains \in [Fragments -> SUBSET Ids]
    /\ \A f \in Fragments : EndsWith[f] \subseteq Contains[f]
    /\ \A f \in Fragments \cap Ids : Contains[f] = {f}
    /\ Operators \subseteq Procs /\ Nobody \notin Fragments

VARIABLES
    typed,      \* per process: the command whose plan is resolved and not yet loaded
    shown       \* per process: the latest show that came back with a plan

asking == <<typed, shown>>
commandVars == <<vars, asking>>

NoPick == [cmd |-> "none", frag |-> Nobody, id |-> NoId]
CommandsInit ==
    /\ Init
    /\ typed = [p \in Procs |-> NoPick] /\ shown = [p \in Procs |-> NoPick]

\* The process has finished its last command.
AtPrompt(p) == pc[p] = "idle" /\ typed[p] = NoPick

-----------------------------------------------------------------------------
(* resolve, and the command that uses what it returned.                    *)

There == {i \in Ids : plans[i] # 0}
Candidates(f) ==
    IF There \cap EndsWith[f] # {} THEN There \cap EndsWith[f] ELSE There \cap Contains[f]
\* Mutant: of several candidates one is taken.
ResolvedAnyhow(f) ==
    IF f \in There THEN {f} ELSE IF Candidates(f) = {} THEN {} ELSE {CHOOSE i \in Candidates(f) : TRUE}
\* An exact id wins; otherwise a single candidate does.
Resolved(f) ==
    IF f \in There THEN {f} ELSE IF Cardinality(Candidates(f)) = 1 THEN Candidates(f) ELSE {}

\* Nothing or several: told so, and nothing is loaded.
Type(p, f) ==
    /\ AtPrompt(p)
    /\ \E i \in Resolved(f), cmd \in {"show", "act"} :
          typed' = [typed EXCEPT ![p] = [cmd |-> cmd, frag |-> f, id |-> i]]
    /\ UNCHANGED <<vars, shown>>

\* The handler loads the plan by its id, like a tool call that names it.
HandlerLoads(p) ==
    /\ pc[p] = "idle" /\ typed[p] # NoPick
    /\ Load(p, typed[p].id)
    /\ typed' = IF pc'[p] = "idle" THEN [typed EXCEPT ![p] = NoPick] ELSE typed
    /\ UNCHANGED shown

Reads(p) ==
    /\ LoadReads(p)
    /\ shown' = IF typed[p].cmd = "show" /\ Readable(id[p])
                THEN [shown EXCEPT ![p] = typed[p]] ELSE shown
    /\ typed' = [typed EXCEPT ![p] = NoPick]

Dies(p) ==
    /\ Crashes
    /\ Crash(p) \/ (pc[p] = "idle" /\ ~AtPrompt(p) /\ UNCHANGED vars)
    /\ typed' = [typed EXCEPT ![p] = NoPick]
    /\ UNCHANGED shown

-----------------------------------------------------------------------------

Tool(p) == AtPrompt(p) /\ (Prune(p) \/ \E i \in Ids : Create(p, i) \/ Save(p, i) \/ Load(p, i))
GoesOn(p) ==
    \/ CreateOpens(p) \/ CreateCollides(p) \/ CreateFills(p)
    \/ SaveOpens(p) \/ SaveWrites(p) \/ SaveReplaces(p) \/ SaveFails(p)
    \/ Unlink(p) \/ UnlinkFails(p)

CommandsNext ==
    \E p \in Procs :
        \/ p \in Operators /\ \E f \in Fragments : Type(p, f)
        \/ HandlerLoads(p) \/ Reads(p) \/ Dies(p)
        \/ (Tool(p) \/ GoesOn(p)) /\ UNCHANGED asking

CommandsSpec == CommandsInit /\ [][CommandsNext]_commandVars

-----------------------------------------------------------------------------
(* Properties.                                                             *)

\* An operator who was shown a plan for a fragment and then acts on the same
\* fragment acts on that plan, whoever creates and removes plans meanwhile;
\* unless the plan is gone, or the fragment was found only inside its id and
\* a newer id ends with it (PlanStore.resolve, commands.run).
ShownIsMeant ==
    [][\A p \in Procs : LET was == shown[p] now == typed'[p] IN
          (now # typed[p] /\ now.cmd = "act" /\ now.frag = was.frag) =>
              \/ now.id = was.id
              \/ plans[was.id] = 0
              \/ was.id \notin EndsWith[was.frag]]_commandVars
================================================================================
