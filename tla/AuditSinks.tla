------------------------------- MODULE AuditSinks -------------------------------
(***************************************************************************)
(* One process's audit trail: threads that emit events (AuditLog.emit),    *)
(* the JSON Lines file, and the SinkWorkers whose daemon thread drains a   *)
(* bounded queue into every sink.  The process-wide worker is built on the *)
(* first event, replaced by set_worker and closed at exit.                 *)
(*                                                                         *)
(* An event is who emitted it and its number.  Timeouts (flush, join,      *)
(* queue.get) may pass at any time.                                        *)
(***************************************************************************)
EXTENDS Naturals, Sequences, FiniteSets

CONSTANTS
    Emitters,    \* threads that emit audit events
    MaxEvents,   \* bound: events per emitter
    MaxWorkers,  \* bound: workers built
    NSinks,      \* sinks configured
    QueueSize, Retries

ASSUME SinksAssumption ==
    /\ MaxEvents \in Nat /\ MaxWorkers \in Nat \ {0} /\ NSinks \in Nat
    /\ QueueSize \in Nat \ {0} /\ Retries \in Nat \ {0}

VARIABLES
    emitted,   \* events each emitter has begun
    epc,       \* where each emitter is in emit
    held,      \* the worker get_worker gave it
    file,      \* the lines of audit.jsonl
    worker,    \* _worker: a generation, or 0 for None
    built,     \* generations built
    queue,     \* per worker: _queue
    hand,      \* per worker: the record being delivered, if any
    wpc,       \* per worker: where its thread is
    sink,      \* per worker: index of the sink being tried
    attempt,   \* per worker: which try
    stop,      \* per worker: _stop
    closing,   \* the worker in close(), or 0
    cpc,       \* where that close() is
    leaving,   \* it is the atexit call
    exited,    \* the process is gone
    \* history
    refused,   \* events whose line the disk refused
    accepted,  \* per worker: records its queue took
    settled,   \* per worker and sink: how many of them are done with
    received,  \* per worker and sink: what the collector got
    drained    \* per worker: records accepted when its flush returned True

Workers == 1..MaxWorkers
Sinks == 1..NSinks
Records == Emitters \X (1..MaxEvents)
NoRecord == <<>>

emitters == <<emitted, epc, held, file, refused>>
threads == <<queue, hand, wpc, sink, attempt>>
closer == <<stop, closing, cpc, leaving, exited, drained>>
vars == <<emitters, worker, built, threads, closer, accepted, settled, received>>

TypeOK ==
    /\ emitted \in [Emitters -> 0..MaxEvents]
    /\ epc \in [Emitters -> {"idle", "lookup", "enqueue"}]
    /\ held \in [Emitters -> 0..MaxWorkers]
    /\ \A n \in DOMAIN file : file[n] \in Records
    /\ refused \subseteq Records
    /\ worker \in 0..MaxWorkers /\ built \in 0..MaxWorkers
    /\ \A w \in Workers : \A n \in DOMAIN queue[w] : queue[w][n] \in Records
    /\ \A w \in Workers : Len(queue[w]) <= QueueSize
    /\ hand \in [Workers -> Records \cup {NoRecord}]
    /\ wpc \in [Workers -> {"none", "head", "get", "deliver", "ended"}]
    /\ \A w \in Workers : wpc[w] = "deliver" =>
          sink[w] \in Sinks /\ attempt[w] \in 1..Retries /\ hand[w] # NoRecord
    /\ stop \in [Workers -> BOOLEAN]
    /\ closing \in 0..MaxWorkers /\ cpc \in {"none", "flush", "join"}
    /\ leaving \in BOOLEAN /\ exited \in BOOLEAN
    /\ settled \in [Workers -> [Sinks -> Nat]]
    /\ drained \in [Workers -> Nat]

Init ==
    /\ emitted = [e \in Emitters |-> 0] /\ epc = [e \in Emitters |-> "idle"]
    /\ held = [e \in Emitters |-> 0] /\ file = <<>> /\ refused = {}
    /\ worker = 0 /\ built = 0
    /\ queue = [w \in Workers |-> <<>>] /\ hand = [w \in Workers |-> NoRecord]
    /\ wpc = [w \in Workers |-> "none"]
    /\ sink = [w \in Workers |-> 1] /\ attempt = [w \in Workers |-> 1]
    /\ stop = [w \in Workers |-> FALSE]
    /\ closing = 0 /\ cpc = "none" /\ leaving = FALSE /\ exited = FALSE
    /\ accepted = [w \in Workers |-> <<>>]
    /\ settled = [w \in Workers |-> [s \in Sinks |-> 0]]
    /\ received = [w \in Workers |-> [s \in Sinks |-> <<>>]]
    /\ drained = [w \in Workers |-> 0]

-----------------------------------------------------------------------------
(* AuditLog.emit: append a line under the log's lock, then dispatch.       *)

Now(e) == <<e, emitted'[e]>>

\* Mutant: the sinks get the event before the file does.
Unwritten(e) == UNCHANGED <<file, refused>>
\* An append that fails is logged and the event goes on to the sinks.
Written(e) ==
    \/ file' = Append(file, Now(e)) /\ UNCHANGED refused
    \/ refused' = refused \cup {Now(e)} /\ UNCHANGED file

Emit(e) ==
    /\ ~exited /\ epc[e] = "idle" /\ emitted[e] < MaxEvents
    /\ emitted' = [emitted EXCEPT ![e] = @ + 1]
    /\ Written(e)
    /\ epc' = [epc EXCEPT ![e] = "lookup"]
    /\ UNCHANGED <<held, worker, built, threads, closer, accepted, settled, received>>

\* get_worker builds the worker, and starts its thread, under _worker_lock.
LookUp(e) ==
    /\ ~exited /\ epc[e] = "lookup"
    /\ IF worker # 0
       THEN /\ held' = [held EXCEPT ![e] = worker]
            /\ UNCHANGED <<worker, built, wpc>>
       ELSE /\ built < MaxWorkers
            /\ built' = built + 1 /\ worker' = built'
            /\ held' = [held EXCEPT ![e] = built']
            /\ wpc' = [wpc EXCEPT ![built'] = IF NSinks > 0 THEN "head" ELSE "none"]
    /\ epc' = [epc EXCEPT ![e] = "enqueue"]
    /\ UNCHANGED <<emitted, file, refused, queue, hand, sink, attempt, closer, accepted, settled, received>>

Full(w) == Len(queue[w]) >= QueueSize
Put(w, r) ==
    /\ queue' = [queue EXCEPT ![w] = Append(@, r)]
    /\ accepted' = [accepted EXCEPT ![w] = Append(@, r)]

\* Mutant: put without nowait waits for room.
EnqueueWaits(e) ==
    /\ ~exited /\ epc[e] = "enqueue"
    /\ LET w == held[e] IN ~Full(w) /\ Put(w, <<e, emitted[e]>>)
    /\ epc' = [epc EXCEPT ![e] = "idle"]
    /\ UNCHANGED <<emitted, held, file, refused, worker, built, hand, wpc, sink, attempt, closer, settled, received>>

\* put_nowait on the worker looked up before, closed since or not.
Enqueue(e) ==
    /\ ~exited /\ epc[e] = "enqueue"
    /\ LET w == held[e] IN
       IF NSinks = 0 \/ Full(w) THEN UNCHANGED <<queue, accepted>> ELSE Put(w, <<e, emitted[e]>>)
    /\ epc' = [epc EXCEPT ![e] = "idle"]
    /\ UNCHANGED <<emitted, held, file, refused, worker, built, hand, wpc, sink, attempt, closer, settled, received>>

-----------------------------------------------------------------------------
(* SinkWorker._run and _deliver.                                           *)

LoopHead(w) ==
    /\ ~exited /\ wpc[w] = "head"
    /\ wpc' = [wpc EXCEPT ![w] = IF stop[w] THEN "ended" ELSE "get"]
    /\ UNCHANGED <<emitters, worker, built, queue, hand, sink, attempt, closer, accepted, settled, received>>

\* Mutant: queue.Empty ends the thread.
GetOrEnd(w) ==
    /\ ~exited /\ wpc[w] = "get"
    /\ IF queue[w] = <<>>
       THEN wpc' = [wpc EXCEPT ![w] = "ended"] /\ UNCHANGED <<queue, hand, sink, attempt>>
       ELSE /\ hand' = [hand EXCEPT ![w] = Head(queue[w])]
            /\ queue' = [queue EXCEPT ![w] = Tail(@)]
            /\ wpc' = [wpc EXCEPT ![w] = "deliver"]
            /\ sink' = [sink EXCEPT ![w] = 1] /\ attempt' = [attempt EXCEPT ![w] = 1]
    /\ UNCHANGED <<emitters, worker, built, closer, accepted, settled, received>>
Get(w) ==
    /\ ~exited /\ wpc[w] = "get"
    /\ IF queue[w] = <<>>                \* the timeout of queue.get
       THEN wpc' = [wpc EXCEPT ![w] = "head"] /\ UNCHANGED <<queue, hand, sink, attempt>>
       ELSE /\ hand' = [hand EXCEPT ![w] = Head(queue[w])]
            /\ queue' = [queue EXCEPT ![w] = Tail(@)]
            /\ wpc' = [wpc EXCEPT ![w] = "deliver"]
            /\ sink' = [sink EXCEPT ![w] = 1] /\ attempt' = [attempt EXCEPT ![w] = 1]
    /\ UNCHANGED <<emitters, worker, built, closer, accepted, settled, received>>

\* Done with this sink: on to the next one, or task_done.
Settle(w) ==
    /\ settled' = [settled EXCEPT ![w][sink[w]] = @ + 1]
    /\ attempt' = [attempt EXCEPT ![w] = 1]
    /\ IF sink[w] < NSinks
       THEN sink' = [sink EXCEPT ![w] = @ + 1] /\ UNCHANGED <<hand, wpc>>
       ELSE /\ hand' = [hand EXCEPT ![w] = NoRecord]
            /\ wpc' = [wpc EXCEPT ![w] = "head"]
            /\ UNCHANGED sink

Arrived(w) == received' = [received EXCEPT ![w][sink[w]] = Append(@, hand[w])]
DeliverUnchanged == UNCHANGED <<emitters, worker, built, queue, closer, accepted>>

\* send returns.  A datagram, or a frame into a connection whose other end
\* is gone, need not get there (Syslog tells what does).
Sent(w) ==
    /\ ~exited /\ wpc[w] = "deliver"
    /\ Arrived(w) \/ UNCHANGED received
    /\ Settle(w)
    /\ DeliverUnchanged

\* Mutant: one try more than configured.
RetryOnceMore(w) ==
    IF attempt[w] > Retries THEN Settle(w)
    ELSE attempt' = [attempt EXCEPT ![w] = @ + 1] /\ UNCHANGED <<settled, hand, wpc, sink>>
Retry(w) ==
    IF attempt[w] = Retries THEN Settle(w)
    ELSE attempt' = [attempt EXCEPT ![w] = @ + 1] /\ UNCHANGED <<settled, hand, wpc, sink>>

\* send raises: the record did not get there, or did and the answer was lost.
SendFails(w) ==
    /\ ~exited /\ wpc[w] = "deliver"
    /\ Arrived(w) \/ UNCHANGED received
    /\ Retry(w)
    /\ DeliverUnchanged

-----------------------------------------------------------------------------
(* close(), from set_worker and from atexit.                               *)

BeginClose(exiting) ==
    /\ ~exited /\ cpc = "none" /\ worker # 0
    /\ closing' = worker /\ cpc' = "flush" /\ leaving' = exiting
    /\ UNCHANGED <<emitters, built, threads, stop, exited, drained, accepted, settled, received>>

\* A later register() call: set_worker(None), the next event builds anew.
Reload == built < MaxWorkers /\ BeginClose(FALSE) /\ worker' = 0

AtExit == BeginClose(TRUE) /\ UNCHANGED worker

\* Mutant: records taken off the queue are not waited for.
UnfinishedQueued(w) == Len(queue[w])
\* unfinished_tasks
Unfinished(w) == Len(queue[w]) + (IF wpc[w] = "deliver" THEN 1 ELSE 0)

\* flush returns, drained or out of time, and _stop is set.
FlushReturns ==
    /\ ~exited /\ cpc = "flush"
    /\ \/ Unfinished(closing) = 0
          /\ drained' = [drained EXCEPT ![closing] = Len(accepted[closing])]
       \/ UNCHANGED drained
    /\ stop' = [stop EXCEPT ![closing] = TRUE]
    /\ cpc' = "join"
    /\ UNCHANGED <<emitters, worker, built, threads, closing, leaving, exited, accepted, settled, received>>

\* join returns, the thread ended or not; after atexit the daemon thread and
\* all the others are gone.
JoinReturns ==
    /\ ~exited /\ cpc = "join"
    /\ cpc' = "none" /\ closing' = 0 /\ exited' = leaving
    /\ UNCHANGED <<emitters, worker, built, threads, stop, leaving, drained, accepted, settled, received>>

-----------------------------------------------------------------------------

EmitGoesOn(e) == LookUp(e) \/ Enqueue(e)
Work(w) == LoopHead(w) \/ Get(w) \/ Sent(w) \/ SendFails(w)

Next ==
    \/ \E e \in Emitters : Emit(e) \/ EmitGoesOn(e)
    \/ \E w \in Workers : Work(w)
    \/ Reload \/ AtExit \/ FlushReturns \/ JoinReturns

Spec == Init /\ [][Next]_vars

\* Emitting threads are scheduled.  The workers' sends may hang: what holds
\* only while they end, by their socket timeouts, says so.
FairSpec == Spec /\ \A e \in Emitters : WF_vars(EmitGoesOn(e))
SendsEnd == \A w \in Workers : WF_vars(Work(w))

-----------------------------------------------------------------------------
(* Properties.                                                             *)

\* The file is the source of truth: whatever a collector has seen is in it,
\* unless the disk refused the line.
FileFirst ==
    \A w \in Workers, s \in Sinks : \A k \in DOMAIN received[w][s] :
        \/ received[w][s][k] \in refused
        \/ \E n \in DOMAIN file : file[n] = received[w][s][k]

\* flush "returns True when drained": every record the queue had taken by
\* then has been sent to, or given up for, every sink.
FlushMeansSettled == \A w \in Workers, s \in Sinks : settled[w][s] >= drained[w]

\* Each worker keeps the promise to each sink: in order of acceptance, at
\* most Retries tries each, one settled before the next is tried.
Forward(w, s) == INSTANCE Forwarding WITH
    accepted <- accepted[w], settled <- settled[w][s], received <- received[w][s]
KeepsPromise ==
    /\ \A w \in Workers, s \in Sinks : Forward(w, s)!Init
    /\ [][\A w \in Workers, s \in Sinks :
            [Forward(w, s)!Next]_<<accepted[w], settled[w][s], received[w][s]>>]_vars

\* Sinks that refuse everything do not hold a record up for ever: it is
\* settled with each of them, unless its worker is closed.
EveryRecordSettles ==
    SendsEnd => \A w \in Workers, s \in Sinks, n \in 1..(MaxEvents * Cardinality(Emitters)) :
        Len(accepted[w]) >= n ~> settled[w][s] >= n \/ stop[w] \/ exited

\* "Emitting never blocks a NetBox operation", hung sinks and full queue or
\* not.
EveryEmitEnds == \A e \in Emitters : epc[e] # "idle" ~> epc[e] = "idle" \/ exited
================================================================================
