# A TLA+ model of hermes-plugin-netbox

The plugin lets an agent change NetBox through *plans*: `netbox_plan` resolves and diffs a list of
operations and saves a plan file, `netbox_apply` executes it step by step with a journal,
`netbox_rollback` undoes it from that journal. Operators do the same from `/netbox` and from the
`hermes netbox` shell command, which is another process. This directory models that machinery,
checks it with TLC on small instances and proves most of its safety with TLAPS for all instances.

Line numbers below are those of the sources beside this directory.

## 1. The system

| Part | State it keeps | Operations | Correct when |
|---|---|---|---|
| Executor (`executor.py`) | the plan in memory: status, journal | preflight, claim, step loop, automatic rollback, rollback loop, dry run, change-log linking | a plan is applied once, one caller at a time works on it, the journal accounts for what was written, a rollback undoes exactly that, newest first, without overwriting others |
| Plan store (`store.py`) | `<id>.json`, `<id>.json.tmp`, `.lock` | create, save, load, list, resolve, prune, delete, `exclusive` | a plan can always be read, a load sees the last save, ids do not collide, claims exclude each other |
| Handlers (`handlers.py`) | time of the last sweep | the five tools, the write gate, the retention sweep | a call is refused before it writes or is carried out; nothing raises |
| Planner (`planner.py`) | none between calls | validate, resolve, diff, all or nothing | saved plans are well formed and carry the stamps that make staleness visible |
| Diff (`diff.py`) | none | `values_equal`, `to_writable`, `compute_changes` | a noop really is one, an applied change is not planned again, "from" restores the field |
| Client (`client.py`) | session, `last_call` | one HTTP request, pagination, lookup | errors are told from answers, a lookup was true at some moment, a listing ends |
| Audit log (`audit.py`) | `audit.jsonl` | `emit` | the file has what the sinks have and says what the journal says; auditing never breaks an operation |
| Sinks (`sinks.py`) | queue, worker thread, the process-wide worker, a socket | enqueue, deliver with retries, flush, close, replace | bounded, ordered, never blocking; no frame is glued to another |
| Commands (`commands.py`) | none | from a typed fragment to a plan id to a tool call | the plan acted on is the plan shown |
| Settings, schemas, registration, timefmt | current settings | configuration, text | values decide branches elsewhere |

How they interact: handlers call planner or executor; the executor calls client and store and emits
audit events; `emit` appends to the file and hands the event to the sink worker's thread. Callers
are threads of a gateway process or shell processes. Threads of one process share the `PlanStore`'s
RLock; processes share only the files and the lock file, which is taken for the claim and for
nothing else. NetBox is shared with everybody.

What is hard: callers that interleave between any two network calls or file writes; copies loaded
before a lock and used after it; a death, or a lost response, between a write to NetBox and the
journal entry that records it; foreign edits between a read and a write; a retention sweep and dry
runs that do not claim; a save that raises in the middle of a run; a second rollback of a plan that was
partly rolled back; pages fetched while rows come and go; two clocks that differ; a hung collector, and
a socket that two threads close.
`PROJECT.json` lists these hazards at their lines.

## 2. The modules

| Module | Models | Relation |
|---|---|---|
| `PlanLifecycle` | what a plan goes through, without processes, files or NetBox | abstract specification of `Executor` |
| `Executor` | apply, rollback, dry run, prune, the claim and its two locks, NetBox, crashes | implements `PlanLifecycle` (property `ImplementsLifecycle`) |
| `AuditedExecutor` | `Executor` with the audit event that follows each save, not atomically | composes `Executor` with `AuditSinks`' `Emit` seen from the caller |
| `PlanStore` | the plan files below the granularity `Executor` assumes | justifies `Executor`'s atomic `Save` and load |
| `StoreCommands` | `resolve` and the commands that use it | extends `PlanStore` |
| `Client` | the reading calls, request by request, while others change NetBox | justifies `Executor`'s and `Planner`'s one-step reads |
| `Planner` | building a plan while others write | justifies `Executor`'s `WellFormed` plans and their stamps |
| `Diff` | one field through plan, apply, replan, revert | justifies `Executor`'s "plan" and "orig" values |
| `Changelog` | matching a journal with NetBox's change log | the contents of what `Executor`'s `Link` saves |
| `Forwarding` | what the forwarder promises one sink | abstract specification of `AuditSinks` |
| `AuditSinks` | `emit`, the queue, the worker thread, reload and exit | implements `Forwarding` (property `KeepsPromise`) |
| `Syslog` | the syslog connection below the granularity of `AuditSinks` | justifies that `AuditSinks` takes a send for one step that works or fails |
| `MCExecutor`, `MCAuditedExecutor`, `MCStoreCommands`, `MCClient`, `MCPlanner`, `MCDiff`, `MCChangelog` | – | constants of the TLC instances; the other modules are instantiated by their `.cfg` alone |
| `ExecutorProofs` | – | theorems about `Executor` and `AuditedExecutor`, in four parts: types and the claim; journal, status and `PlanLifecycle`; the objects of NetBox; the audit trail |
| `StoreProofs`, `AuditSinksProofs`, `SyslogProofs`, `PlannerProofs`, `ClientProofs`, `ChangelogProofs`, `DiffProofs` | – | theorems about `PlanStore` and `StoreCommands`, and about the module each is named after |

Operators whose comment begins with "Mutant:" are what a plausible bug would make of the definition
that follows them. No specification uses them; each is substituted for that definition to see that
a property notices (`PROJECT.json`, `mutants`).

### Executor

State: `steps` is `plan["steps"]`; `file` the plan file (status and journal); `old` and `aged` what
its stamps say against the clock; `rlock` and `flock` the two locks; per caller `pc`, the request,
its in-memory copy `mem`, what is left of `pending` (`todo`), the entry about to be saved, the
stamp of its last GET and whether its latest call broke off (`broken`: it raised, or its process died).
`world` is NetBox. `claims`, `landed`, `undone` and `clobbered` are history: no guard reads them.

| Code | Actions |
|---|---|
| `netbox_apply`, `netbox_rollback` up to the claim: load, `write_gate`, `preflight_apply` or `rollback_plan`'s tests | `CallTurnedAway`, `CallAdmitted` |
| `apply_plan(dry_run=True)` | `CheckSaves` |
| `prune_plans`, `PlanStore.prune` | `PruneReads`, `PruneUnlinks` |
| `store.exclusive`, re-read, test, save | `TakeStoreLock`, then `ClaimRefused` or `ClaimReads`, then `ApplyClaimSaves` or `RollbackClaimSaves` |
| the apply loop | `CheckStep`, `StepWrites`, `StepRejected`, `RecordStep` |
| `_link_changelog` (its save) | `Link` |
| end of `apply_plan`, on to the automatic rollback | `FinishApply` |
| `_revert_entry` and the rollback loop | `ReadBack`, `UndoWrites`, `UndoRejected`, `RecordRevert` |
| end of `rollback_plan` | `FinishRollback` |
| a write to the plans directory that raises | `StoreRaises` |
| outside | `Crash`, `ForeignEdit`, `ForeignDelete`, `ForeignCreate`, `PlanAges`, `RetentionPasses` |

Each network call, each save and each wait for a lock is a step of its own. The file lock is
attempted without queueing: `ClaimRefused` covers the timeout, at any time the lock is taken. A
response may be lost after NetBox made the change (`"lost"`), any request may be refused
(`"reject"`), a process may die with all its threads (`"crash"`). A save may raise (`"store"`,
`store.py:109-114`: a full disk, or the temporary file it shares with a save of another process was moved
away): `StoreRaises` drops the call and the locks it holds, as the exception does on its way out. What
the file then says is what it said before, or the caller's own text, which the other process's
`os.replace` moved into place (`WritesNext`, `JustSaved`). That another process may also move a torn text
into place is left to `PlanStore`.

An object is reduced to its life, the key a match finds it by, who wrote the planned fields last and its
stamp; two states of an object differ for the code only in those. A re-created object has the value
"orig", or "partial" when it was posted again without the fields a 400 had named (`UndoEffects` at
`"repost"`). The journal entry of a step keeps its status, object, new stamp, revert outcome, the new
object's id and whether fields were dropped; the inverse is determined by the step's action.

### AuditedExecutor

Every action of `Executor` that the code follows with `audit.emit` leaves the event *owed* (`owed`); the
caller does nothing else until it has said it (`Says`) or the append was refused, which `emit` logs and
swallows (`AppendRefused`, `audit.py:188-195`). In between others may act and the process may die
(`Dies`); a save that raises is followed by no event, and when another process had already moved its
text into place the file is one event ahead of the trail (`Raises`). `trail` keeps the events about
entries of the journal, steps and reverts; those of a call are owed and emitted like the rest. An event
is its name and the journal position it is about. `unsaid` is history: the events about entries that
were never appended.

### PlanStore and StoreCommands

Names point to inodes and an open descriptor keeps its inode, so that a save by two processes
through one `.json.tmp`, a crash after `open`, and a load during `os.replace` do in the model what
they do on disk. A version number stands for a plan's text, 0 for text that is no JSON. `clashed` is
history: the plans two processes have been saving at once. While every save is made under a claim it
stays empty, which is what `Executor`'s `OneRunner` gives; a dry run elsewhere fills it. A load is two
steps, the test that the file exists (`Load`) and the read (`LoadReads`); a sweep unlinks its plans
one by one and ends early when it cannot (`UnlinkFails`). A plan is saved from memory, so also after a
sweep has removed its file; `made` holds the ids there can be such a copy of.

`StoreCommands` adds what an operator does with it. `Type` is `resolve` in `commands.run`: a fragment
is the sets of ids that end with it and that contain it, and `Resolved` the order in which they win.
What it picks is then loaded by id (`HandlerLoads`, `Reads`), so that others act between the two.

### Client

One call, `list`, `find`, `get_object` or `object_changes`, as its requests: `Lists` is a page and what
the caller of `list` makes of the last one, `Gets` a detail request (two when `netbox_query` was asked
for fields), `Fails` a status, a transport error or a body of the wrong shape, with the second
change-log endpoint after a 404. Between any two requests `Edit` adds or removes an object that matches.
NetBox may grant smaller pages than asked for (`PageCap`). The order of a listing (`Listed`) is defined
by rank, the n-th object being the one with n objects up to it, so that the proofs can see it.

### Planner, Diff, Changelog, AuditSinks, Syslog

`Planner` takes the operations one by one (`RefuseOperation`, `PlanOperation`), each read a step, and
ends in `Finish`: saved or rejected; `reads` is history, NetBox as each step was built from it.

`Diff` translates `diff.py` over tagged values and uses it as the plugin does, with NetBox's answer to a
PATCH modelled per kind of field (`Stored`): it converts what it takes, "2" of a decimal field to 2.0,
"true" of a boolean to true, text to what is left when it is trimmed, and returns the field's own form.
A number carries its text, which is what `str()` compares, and `Number` says which texts stand for the
same number, which is what `==` compares. A field may also be read-only (a PATCH is taken and changes
nothing), write-only (NetBox does not return it, the `field not in current` branch of `diff.py:133`), or
unknown (both).

`Changelog` has the plugin's clock (`now`), NetBox's (`offset` seconds ahead of it, or behind), the
records, stamped by NetBox's, and `Link` at the end of each run, whose windows are the plugin's; the
second rollback of a plan is there because its entries are matched again.

In `AuditSinks` an emitter goes `Emit`, `LookUp`, `Enqueue`; a worker's thread `LoopHead`, `Get`, `Sent`
or `SendFails` per sink and try; `Reload` and `AtExit` begin `close`, whose flush and join may each time
out.

`Syslog` takes one `SyslogSink` over TCP or TLS apart: `Connects` is `_connect`, `Sends` and
`SendBreaks` the `sendall`, which may leave a piece of a frame behind, and `Tests`, `Closes`, `Clears`
the three steps of `close()`, which the sender's thread takes after a failure and `SinkWorker.close`
takes in its own thread, whether or not its `join` timed out. `_sock` and the connection a send holds
(`mine`) are two things, as in the code.

## 3. The runs

| Run | Properties | What it shows |
|---|---|---|
| `ExecutorCore` | `TypeOK`, `OneRunner`, `AtMostOnce`, `AppliedIsComplete`, `RolledBackRestores`, `NoBlindOverwrite`, `InverseAtMostOnce`, `NewestFirst`, `ImplementsLifecycle` | a gateway thread and a shell, three calls between them, rollbacks forced and not, three plans of two steps (every pair of action kinds that interact), any request refused, any save raising, either process dying anywhere, one foreign write |
| `ExecutorFaults` | `JournalAccounts`, `ConflictsHaveCause`, `TrailAgrees` | the audited executor with lost responses, refusals, crashes and saves that raise, also between a save and its event, and appends the disk refuses; plans whose steps meet on one object, with a noop, a cascade and an object without a stamp, a plan that grows too old |
| `ExecutorLive` | `EveryCallEnds`, `NoPlanStaysInFlight` | three callers in two processes, every tool and saves that raise, under fairness |
| `Store` | `FreshReads`, `CreatesNeverCollide`, `LastSaveKept`, `StaysReadable`, `ShownIsMeant` | two processes, two ids, crashes anywhere, an operator at one of them who shows a plan by a fragment and acts on it |
| `Planner` | `SavedPlansAreWellFormed`, `StalenessShows`, `AmbiguityRefused`, `RejectionIsComplete` | all pairs of six good and eight bad operations, one foreign write, failing GETs |
| `DiffFields` | `NoopMeansSame`, `ReplanIsNoop`, `RevertRestores` | eight kinds of field, plain, read-only, write-only and unknown, all values they hold and the values that are asked for, in several spellings |
| `ChangelogLinks` | `OneOwner`, `OwnLinked` | an update and a create, two rollbacks, a foreign write, NetBox's clock up to two seconds ahead or behind, a window widened by two |
| `Listing` | `ListingDriftsWithEdits`, `LookupsHoldAtOneMoment`, `RequestsAreBounded`, `ErrorsAreNotListings` | one call of each kind over any subset of five objects, three edits while it is paged, every way to fail |
| `Sinks` | `FileFirst`, `FlushMeansSettled`, `KeepsPromise`, `EveryRecordSettles`, `EveryEmitEnds` | two emitters, two sinks, a queue of one, two tries, two workers |
| `Syslog` | `FramesIntact`, `LossesHaveCause`, `ClosedMeansClosed` | three records, two tries, three outages or slow sends, a close at any point |
| `FindInterrupted` | `InterruptedIsRollbackable` | violated, see 5 |
| `FindAppliedTwice` | `AtMostOnce` | violated, see 5 |

Most modules state a `TypeOK`; the other proof modules have a `TypeInv` of their own. The core's is a
property of `ExecutorCore` and a theorem.

Bounds and why they are enough. `MaxCalls` 3: an apply, the rollback that follows it and one caller
racing either; the fourth call finds a plan in one of the statuses the first three reach. `MaxEdits` 1:
a foreign write matters to the step whose window it falls into, and steps look at one object each. Two
or three steps: enough for an order, for a failure in the middle and for something done before it. `Ids`
leaves room for every object a plan can create and a rollback re-create, so a POST is refused for want
of an id only beyond what the plans need. `ExecutorFaults` has no foreign writes, so that every conflict
in it is the plan's own; its two callers have the same settings and requests, so it is checked up to
swapping them with their processes (`Swap`), which is sound for its invariants. In `ChangelogLinks` an
offset of 2 is outside `ClocksClose` above and at its edge below, and four seconds are enough for the
seconds of two runs and the widened window to overlap or not. In `Store` three versions are a create, a
save and a save or create that races it, or two plans of which one is new; `tail` ends both ids, `mid`
is inside one and ends the other, which gives a fragment that is ambiguous, found at the end and found
only inside. In `Listing` two edits can hide one object from one page boundary and the third shows that
the drift adds up; a page cap of two makes five objects three pages and each requested page size too
large. In `Sinks` a queue of one is full as soon as the thread is slow. In `Syslog` the third record
shows what a connection is like after a record that got over a failure, and three troubles use up both
tries of one record and meet the next. Deadlock is not checked: callers need not call, and every model
reaches its bounds.

Fairness. In `ExecutorLive` every caller that can take a step takes it: HTTP calls and the wait for
the file lock have timeouts and Python schedules its threads. Calls, crashes and foreign writes are
not fair. The store lock of a process is an RLock without a queue; that a waiter gets it relies on
calls being finitely many (`MaxCalls`): threads that never stop calling could starve it, a thing the
code does not rule out. In `Sinks` only emitting threads are fair, so `EveryEmitEnds` holds with sinks
that hang for ever; `EveryRecordSettles` assumes in its statement that sends end, by their socket
timeouts.

What each property is about, beyond the comment it carries: `OneRunner` is the reason the loops may save
their copy without looking at the file; `JournalAccounts` bounds what a death can hide to one write, the
last; `NoBlindOverwrite` is what the read-then-write checks do give, a foreign change is overwritten
only inside the window of one request (or when the object has no stamp); `RolledBackRestores` is the
contract of status `rolled_back`, a re-created object counting as what it was but for the fields its
journal entry lists as dropped; `ConflictsHaveCause` says exactly when a plan stands in its own way;
`TrailAgrees` is the sentence of `docs/architecture.md:138-140` on stream and plan file, less the events
that a death or a failing save took along and those the disk refused; `NoPlanStaysInFlight` says of each
caller by itself that the only ways to leave a plan in flight are a death and a save that raised.
`LastSaveKept` is what "the journal is flushed after every step" rests on: what a save that returned has
written is what the file says, however later saves break off; the mutant, a temporary file opened
without truncation, leaves the text of an earlier dead save behind the new one. `StalenessShows` is
about what a step writes: a noop step is not looked at again when the plan is applied.
`AmbiguityRefused` also holds while others write. `OwnLinked` holds while the clocks are as close as the
window allows for (`ClocksClose`), says of the apply that it gets exactly its own writes and of the
first rollback that its own are among what it gets, the latter unless the apply stayed unlinked and
NetBox's clock is ahead; it allows a second rollback to lose links, which it does (see 5).
`ReplanIsNoop` and `RevertRestores` name what they exempt: values asked for in another spelling than
NetBox's (`Spelled`), fields that are not returned or not taken. `ListingDriftsWithEdits` is the most
paging by offset can promise, as many misses as objects vanished and as many repeats as appeared, and
breaks when a page is counted by what was asked instead of what came; `LookupsHoldAtOneMoment` is why
`Executor` and `Planner` may take a lookup for one step. `LossesHaveCause` with two tries is what the
retry is for: a connection that is found dead when it is used costs a try and not the record. One that
died while idle and still takes the frame, which TCP does once, does lose that record, and the property
counts it among the causes.

## 4. What is proved

Every invariant and action property a passing run checks, and every refinement, is also a theorem, for
all values of the constants its module's assumptions allow: any number of callers, processes, plans,
objects, faults, retries, and any bounds. Each stands on an inductive invariant, defined where its part
of the module begins, with one lemma for each group of actions that can disturb it. No theorem below
excludes crashes, refusals or foreign writes unless it says so.

The assumptions on constants are those the modules declare: ids are naturals, objects exist before a
step names them, sentinels are no members of the sets they complete, the sets of ids are finite where
something is counted, tries and queues are at least one. `Changelog` assumes that a write of an entry
has a key, `Diff` that a desired value has one of the shapes its comment names and that the choices of a
field have different values and its objects different ids, as numbers too, that of two equal numbers of
one type there is one, that text is kept as trimmed once and for all, and that true and false are
different numbers. `Client` also assumes of `find` what its code fixes: two results at most, from offset
0, pages of two or more.

### Executor

Most theorems assume `WritesOnly`: all calls are applies and rollbacks. It is needed. With dry runs
`AtMostOnce` is false (`FindAppliedTwice`); with sweeps the file can vanish under a runner and the plan
be claimed again from a copy (see 5).

* `TypeCorrect`, without `WritesOnly`. `TypeOK` alone is not inductive: a handler that writes relies on
  having a plan in memory, on the position it is at being one of the plan's, on the ids its journal
  names being ids. `TypeInv` adds that.
* `OneRunnerAlways`, `AtMostOnceAlways` (`IInv`, which is `TypeInv` and `ClaimInv`). An *owner* is a caller
  that runs, or one that has re-read the plan under the lock and is about to save its claim. There is
  at most one; the file says what the owner has in memory; one about to save holds the file lock and
  the plan is not in flight; under one that runs it is. The copy a caller brings to the claim is not
  used once it has re-read the file, which is why its staleness does no harm.
* `JournalAccountsAlways`, `AppliedIsCompleteAlways`, `InverseAtMostOnceAlways`, `NewestFirstAlways`,
  `ImplementsLifecycleAlways` (`JInv`). The file's journal and what landed agree up to the position the
  owner is at (`JournalInv`, `LandedInv`); an undone step is a done entry that is journaled as
  reverted, or is the newest one its owner is about to journal (`UndoneInv`); what is left of `pending` is
  older than what was undone (`CallerInv`). That the journal accounts for everything needs to know
  where its owner stands, and that needs `OneRunner`. `InverseAtMostOnceAlways` assumes that no response
  is lost: an inverse that was carried out but not answered is journaled as failed and the next
  rollback sends it again. The refinement maps every save to a step of `PlanLifecycle` and everything
  else to a stutter, action by action.
* `NoBlindOverwriteAlways` (`SInv`). Stamps only grow, an object that keeps its stamp keeps its value, and
  what a caller has seen is no younger than the object; so a write that follows an equal stamp meets
  no foreign value unless it came in between. Like the property it is about objects with stamps.
* `ConflictsHaveCauseAlways` (`ApplyInv`). While nobody else writes, NetBox at planning time and the set of
  landed steps determine where every planned object is: there and unmoved exactly if no landed step
  deletes or updates it. Lost responses and deaths are included: a step that landed unrecorded was the
  last one of its run.
* `RolledBackRestoresAlways` (`RInv`). An object of planning time that is not what it was has a landed
  step to blame; an object the plan made is named by a journal entry, or by one about to be saved, or
  its maker died or raised and the plan stays `applying`; of an entry marked reverted the object is put
  back, gone, or there again as a copy, a partial one exactly if the entry says that fields were
  dropped. A write missing from the journal leaves a plan that stays `applying` (`AccountInv`), and
  `rolled_back` leaves no revert open (`RevertsInv`, from `PlanLifecycle`), so that under `rolled_back`
  every landed step is such an entry. As the property, it says nothing where responses may be lost.

These two, and `AuditedConflictsHaveCause`, assume `OldHierarchy`: what hangs on what is fixed among the
objects of planning time.
`Parent` is a constant of the model, so an object the plan creates hangs on nothing there.

* `TrailAgreesAlways`, `AuditedJournalAccounts`, `AuditedConflictsHaveCause`, of `AuditedExecutor`
  (`AuditedInv`, which is `JInv` and `TrailInv`). Every step of it is a step of `Executor` or changes of
  `Executor`'s variables `broken` alone (`AuditedStepIsKnown`), which no invariant reads; so `JInv` and
  `ApplyInv` hold there too, and with them what the run `ExecutorFaults` checks. For the trail: what a caller
  owes says what it saved last, and nothing of its kind has been told from beyond it (`OwedInv`); a
  caller does nothing else until it has told it, so nobody is in its run's way; and no revert is told while the
  plan may still be applied (`NoRevertYet`). An event that nobody owes and the trail does not have is in
  `unsaid`: refused, or lost with a caller that died or raised.

### Plan store and commands

`StoreInv`: a write has a version and an inode of its own, no inode has two names, an open descriptor
is on a file of its plan, and while the saves of a plan do not overlap its temporary file is the
saver's own and its file says the latest version. From it `StoreTypesAlways`, `FreshReadsAlways`,
`StaysReadableAlways`, `LastSaveKeptAlways` and `CreatesNeverCollideAlways`. `CommandsUseStore` shows that
the plan files of `StoreCommands` behave as `PlanStore`, and carries the last four over to it.
`ShownIsMeantAlways` is about what `StoreCommands` adds; it rests on one candidate being taken only when
it is the only one, for which the ids are a finite set.

### Audit sinks and syslog

`SinksInv`: the records a worker has taken are the first of those accepted, of which the sinks before the
one being tried are done with all and the others with all but the one in hand; a collector has what was
accepted, with no more copies of the record in hand than tries so far. From it `FileFirstAlways`,
`FlushMeansSettledAlways` and `KeepsPromiseAlways`, the refinement of `Forwarding` for each worker and sink.

`SyslogInv`: a piece of a frame is the last thing in its stream, and its connection is on its way to be
given up; the newest connection alone is open, and `_sock` is it unless the closer came before the
sender had ended; the second try of a record has a connection of its own. From it `FramesIntactAlways`,
`LossesHaveCauseAlways`, `ClosedMeansClosedAlways`. `LossesHaveCause` says something with two tries or more.

### Planner and client

`PlannerInv` ties step n to operation n and to NetBox as it was read for it: what the step may have
become, that its match found no object but its own, and that stamps have only grown since. From it
`SavedPlansAreWellFormedAlways`, `StalenessShowsAlways`, `AmbiguityRefusedAlways`,
`RejectionIsCompleteAlways`.

`ClientProofs` has one invariant per property. `ListingDriftsWithEditsAlways` is the long one. A listing
stands between the objects of the world that are `Behind` it and those `Beyond`. It has missed no more
of what is behind it than vanished, and has no more rows than appeared plus the different rows of it that
are not beyond it. One edit moves at most one object over the line, and only one way (`OneMoves`); a
page is exactly what stands between two lines (`PageCounts`). `LookupsHoldAtOneMomentAlways` rests on
`find` needing one page, because it asks for two; `RequestsAreBoundedAlways` on every page but the last
bringing a row, at each of two endpoints; `ErrorsAreNotListingsAlways` on a failure ending the call,
but for the 404 of the first change log.

### Change log

`Taken` is what the entries up to i have taken of the records. It only grows (`TakenGrows`), and what
an entry takes was free before it (`TakenOnce`). `OneOwnerAlways` needs no more than that what is
linked is in the log, under ids of its own (`LinkedInv`): a second rollback replaces the links of the
first, and both leave alone what the apply has.

`OwnLinkedAlways` (`OwnInv`) adds who wrote each record and in which of the runs' seconds it falls. A
record of the run lies in the widened window, because the clocks are close (`ClocksClose`, a hypothesis
of the property); it is still free when its entry looks, as what was taken before belongs to other keys,
or to the other phase; and the narrow window cannot prefer another record of its key to it, because the
apply's are taken, or, with NetBox's clock not ahead, too early for it (`ToldApart`). It assumes
`KeysDiffer`: no two entries of a phase share the object id, the action and the app, which is all a
record is matched by. The code does not see to that (see 5).

### Diff

`RevertRestoresAlways` holds without a hypothesis: "from" is ids, choice values and scalars, which
NetBox reads one way only; what the property exempts, a write-only field, has no known old value.
`NoopMeansSameAlways` assumes `NamesDiffer`: no object's id, slug or name is another's.
`ReplanIsNoopAlways` also assumes `ListsOnce`: no list names an object twice. Each is needed, and TLC
finds the property violated on `DiffFields` changed to break it (see 5). For a list, what the greedy
matching computes is characterised in both directions: when it succeeds the desired elements can be
paired with the current ones (`EqualLists`), and when each desired element equals exactly one current
element, and no two the same, it succeeds in any order (`PairedLists`).

### Recursion

The library's induction theorems take an operator as a parameter, which the provers cannot instantiate.
What is proved of recursive functions (`Taken` of `Changelog`, `Left` of `Diff`) uses sets in place of
operators: a non-empty set of numbers has a least element (from `WFMin`), or a finite one a greatest
(from the pigeonhole principle), so a statement holds up to n when the *set* of numbers it holds of
contains 0 and is closed under successor (`Reaches`); and a function with a given first value and
given steps exists (`Recursion`), which turns the CHOOSE that a recursive definition stands for into
its equations (`TakenIs`, `LeftIs`).

### Model-checked only

Liveness (`EveryCallEnds`, `NoPlanStaysInFlight`, `EveryRecordSettles`, `EveryEmitEnds`): fairness and
ENABLED are out of the prover's reach.

## 5. Differences between the documents and the code

Shown by runs:

* `FindInterrupted`: a death between claim and last save leaves `applying` or `rolling_back`, which
  `rollback_plan` refuses (`executor.py:29`, 477). `store.py:3-4`, the README and
  `docs/architecture.md:119-120` say that rollback finishes such a plan.
* `FindAppliedTwice`: the dry run's save (`executor.py:271`) writes back the copy loaded when its call
  arrived. An apply that finished in between is undone on paper, and the plan applies again.

Seen while modelling and not kept as runs:

* Two processes that save one plan share `<id>.json.tmp` (`store.py:109`; "atomic replace",
  `store.py:106`): unreadable text can be moved into place, and the slower one's `os.replace` raises.
  `StaysReadable`, `FreshReads` and `LastSaveKept` exempt such a plan from then on.
* A save that raises in the middle of a run (`store.py:109-114`; the shell's dry run saving beside the
  gateway's apply is enough, `executor.py:271`) ends the call with the plan in `applying` or
  `rolling_back`, as a death does, and nobody may roll it back then. `NoPlanStaysInFlight` names it.
* An append to `audit.jsonl` that is refused is logged and the run goes on (`audit.py:188-195`), so any
  number of events can be missing: "the stream and the plan file never disagree"
  (`docs/architecture.md:138-140`) holds of the events that were appended.
* A second rollback replaces the links of entries the first one reverted by an empty list
  (`executor.py:136`; `docs/audit.md:80`).
* A sweep can make one plan be rolled back twice. An applied plan is past its retention; two gateway
  threads load it to roll it back; a shell's sweep reads it `applied` (`store.py:166-168`); the first
  thread claims it; the sweep unlinks the file; the second thread's claim finds none and uses its own
  copy (`executor.py:484`), in which nothing is reverted. On an instance with those three callers and
  four calls TLC finds `InverseAtMostOnce` violated; the runs that check it have no sweeps.
* An operator's fragment that was found only inside an id is taken over by a newer id that ends with
  it (`store.py:153-156`); `ShownIsMeant` exempts it.
* `prune` returns nothing of what it removed when a later unlink fails (`store.py:180`), so the trail
  has no `plans_pruned` for those plans (`handlers.py:101`).
* A listing with `truncated` false can lack an object that was there all the time and show one that
  is gone (`handlers.py:223`, `client.py:195`).
* `get_object` also returns `None` for an answer of 200 that is no object (`client.py:175`; its
  docstring, `client.py:168`, says 404), and a rollback then calls the object already gone.
* `object_changes` stops at a thousand rows (`client.py:207`): records of a long run beyond them stay
  unlinked.
* The `apply_finished` of a run may be told after the `rollback_started` of a caller that claimed the
  plan in between.
* A socket that the sender connects after `SinkWorker.close` has closed the sink stays open until the
  process exits (`sinks.py:440-444`).
* Two steps of one plan on one object: the second always conflicts, its stamp was moved by the first
  (`executor.py:202`). `schemas.py:88`: "later operations may depend on earlier ones".
* An apply whose automatic rollback loses the claim to another caller is answered as refused and
  audited as `apply_refused` after it wrote (`executor.py:409`; `docs/audit.md:110`).
* `prune` can unlink a plan another process has claimed since it was read (`store.py:180`;
  `store.py:159` says never), and the claimant's next save brings it back.
* The rollback has the same read-then-write window as the apply (`executor.py:446`);
  `docs/architecture.md:123` says it is closed on the way back. `NoBlindOverwrite` is what holds.
* A change record is matched by object id, action and app (`executor.py:122-131`), not by model: of a
  plan that updates device 5 and site 5, the first entry is linked to both records and the second to
  none. `docs/audit.md:71-72` says that each entry gets the matching ones. With such keys TLC finds
  `OwnLinked` violated; the run has different ones, and the theorem assumes them.
* A list that names an object twice, as `[1, "1"]`, is planned again after it was applied: NetBox keeps
  one, and the lengths differ (`diff.py:86`).
* The windows are the plugin's, the records' times NetBox's (`executor.py:102`, 116). With NetBox's clock
  ahead and the apply's log not linked, the apply's record of an update falls into the narrow window of a
  rollback that follows at once, is preferred to the rollback's own (`executor.py:132-134`) and linked in
  its place. With clocks further apart than the five seconds the window is widened by, own records are not
  found.
* A scalar is compared by `==` and then by `str()` (`diff.py:54`, 61): "2" asked of a decimal field that
  returns 2.0, "true" of a boolean one, "7.0" of an integer one, a text with a blank at its end, which
  NetBox trims, are planned again every time although nothing would change.
* A field NetBox does not return always differs (`diff.py:133`): a change to a write-only field is planned
  again for ever, and its revert sends the `None` recorded as "from" (`diff.py:134`), which NetBox may
  refuse or store. A field it returns and does not take is planned again for ever, too.
* The unwidened change-log window is compared as strings, and "…50.412Z" sorts before "…50Z"
  (`executor.py:133`): a record of the starting second is passed over for a later foreign one.
* `values_equal(["2", 1], …)` against objects 1 (named "2") and 2 finds no match, as matching is
  greedy (`diff.py:90`; `docs/architecture.md:104`). A single field asked to be "2" is a noop when it
  points to an object 1 named "2" (`diff.py:73`), though NetBox would point it to object 2.
* `values_equal(True, 1)` is true (`diff.py:54`; `docs/architecture.md:106`).

## 6. What is not modelled

* `netbox_plans` and `PlanStore.list` outside a sweep: they read files and format them; a file that
  cannot be read is passed over. `PlanStore.delete` has no caller.
* URL building, the token, TLS settings and the wording of filters in `client.py`.
* The HTTP sink's single POST and a UDP datagram: a send that works or fails, as in `AuditSinks`.
* Rendering, reports, audit wording, CEF, RFC 5424 and HEC encodings: no state.
* Reading the settings: pure conversion. (It lower-cases `audit_log_path`, `settings.py:64`.)
* Which fields NetBox refuses when a deleted object is re-created: that some were dropped is there
  (`"partial"`, `dropped`), which ones is not.
* What a `plans_pruned` event says: that it is emitted is there, its list of plans is not.
* In `Diff`, an id given as a number that is not whole, which is refused there. Choices with numbers for
  values are covered by the proofs and not by the run.
* Windows locking: `_acquire` behaves alike with `msvcrt`; without any file locking it would
  degrade to the process's own lock.
* A JSON custom field's inner structure, and `display` apart from `name`, in `Diff`.

## 7. Plan

Every safety property of the passing runs is proved. What would come next:

1. `RolledBackRestores` and `InverseAtMostOnce` say nothing, or do not hold, where responses may be
   lost: which weaker statement can an operator rely on there?
2. The same for `WritesOnly`: which dry runs and sweeps the theorems of `Executor` would survive, and
   what the code would have to re-read for the others.
3. A `Parent` that changes, so that an object the plan creates can hang on another.
4. Liveness by TLC on larger instances; the prover has no part in it.
