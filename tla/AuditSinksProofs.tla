----------------------------- MODULE AuditSinksProofs -----------------------------
(***************************************************************************)
(* Theorems about AuditSinks for any number of emitters, events, workers,  *)
(* sinks, any queue size and any number of tries.                          *)
(***************************************************************************)
EXTENDS AuditSinks, FiniteSetTheorems, TLAPS

-----------------------------------------------------------------------------
(* The invariant.                                                          *)

TypeInv ==
    /\ emitted \in [Emitters -> 0..MaxEvents] /\ epc \in [Emitters -> {"idle", "lookup", "enqueue"}]
    /\ held \in [Emitters -> 0..MaxWorkers]
    /\ \A e \in Emitters : epc[e] # "idle" => emitted[e] >= 1
    /\ \A e \in Emitters : epc[e] = "enqueue" => held[e] \in Workers
    /\ file \in Seq(Records) /\ refused \subseteq Records
    /\ worker \in 0..built /\ built \in 0..MaxWorkers
    /\ queue \in [Workers -> Seq(Records)] /\ accepted \in [Workers -> Seq(Records)]
    /\ hand \in [Workers -> Records \cup {NoRecord}]
    /\ wpc \in [Workers -> {"none", "head", "get", "deliver", "ended"}]
    /\ sink \in [Workers -> Nat] /\ attempt \in [Workers -> Nat] /\ stop \in [Workers -> BOOLEAN]
    /\ closing \in 0..MaxWorkers /\ cpc \in {"none", "flush", "join"} /\ (cpc # "none" => closing \in Workers)
    /\ leaving \in BOOLEAN /\ exited \in BOOLEAN
    /\ settled \in [Workers -> [Sinks -> Nat]] /\ received \in [Workers -> [Sinks -> Seq(Records)]]
    /\ drained \in [Workers -> Nat]
    /\ \A w \in Workers : Len(queue[w]) <= QueueSize
    /\ \A w \in Workers : wpc[w] # "none" => NSinks > 0 /\ w <= built

Taken(w) == Len(accepted[w]) - Len(queue[w])

\* What the thread has taken off the queue is what was put first, and the
\* sinks before the one being tried are done with it.
QueueInv(w) ==
    /\ Taken(w) \in Nat
    /\ \A j \in 1..Len(queue[w]) : queue[w][j] = accepted[w][Taken(w) + j]
DeliverInv(w) ==
    wpc[w] = "deliver" =>
        /\ sink[w] \in Sinks /\ attempt[w] \in 1..Retries
        /\ Taken(w) >= 1 /\ hand[w] = accepted[w][Taken(w)]
SettledInv(w) ==
    \A s \in Sinks :
        settled[w][s] = IF wpc[w] = "deliver" /\ s >= sink[w] THEN Taken(w) - 1 ELSE Taken(w)

\* A collector has seen only what was accepted, and of the event being tried
\* at most one copy per try so far.
ReceivedInv(w) ==
    \A s \in Sinks : \A k \in 1..Len(received[w][s]) :
        \E i \in 1..Len(accepted[w]) :
            /\ received[w][s][k] = accepted[w][i]
            /\ i <= settled[w][s] \/ (i = settled[w][s] + 1 /\ wpc[w] = "deliver" /\ s = sink[w])
CopiesIn(r, seq) == Cardinality({k \in 1..Len(seq) : seq[k] = r})
CopiesInv(w) ==
    wpc[w] = "deliver" => CopiesIn(hand[w], received[w][sink[w]]) < attempt[w]

\* A flush that drained the queue saw the thread with nothing in its hand.
DrainedInv(w) == drained[w] <= Taken(w) /\ (wpc[w] = "deliver" => drained[w] < Taken(w))

WorkerInv(w) ==
    /\ QueueInv(w) /\ DeliverInv(w) /\ SettledInv(w)
    /\ ReceivedInv(w) /\ CopiesInv(w) /\ DrainedInv(w)

\* No event is accepted twice.
DistinctInv ==
    \A w \in Workers :
        /\ \A i, j \in 1..Len(accepted[w]) : accepted[w][i] = accepted[w][j] => i = j
        /\ \A i \in 1..Len(accepted[w]), e \in Emitters, n \in 1..MaxEvents :
              accepted[w][i] = <<e, n>> => n <= emitted[e] /\ (epc[e] # "idle" => n < emitted[e])

\* An event is in the file, or refused by the disk, before any queue has it.
Recorded(r) == r \in refused \/ \E n \in DOMAIN file : file[n] = r
FileInv ==
    /\ \A w \in Workers : \A i \in 1..Len(accepted[w]) : Recorded(accepted[w][i])
    /\ \A e \in Emitters : epc[e] # "idle" => Recorded(<<e, emitted[e]>>)

SinksInv == TypeInv /\ DistinctInv /\ FileInv /\ \A w \in Workers : WorkerInv(w)

-----------------------------------------------------------------------------
(* Types.                                                                  *)

LEMMA NowIsRecord == ASSUME TypeInv, NEW e \in Emitters, Emit(e) PROVE Now(e) \in Records
  BY SinksAssumption DEF TypeInv, Emit, Now, Records

LEMMA HeldRecord ==
    ASSUME TypeInv, NEW e \in Emitters, epc[e] # "idle" PROVE <<e, emitted[e]>> \in Records
  BY SinksAssumption DEF TypeInv, Records

LEMMA EmitTyped == ASSUME TypeInv, NEW e \in Emitters, Emit(e) PROVE TypeInv'
<1> USE SinksAssumption
<1>1. /\ emitted' \in [Emitters -> 0..MaxEvents] /\ epc' \in [Emitters -> {"idle", "lookup", "enqueue"}]
      /\ \A f \in Emitters : epc'[f] # "idle" => emitted'[f] >= 1
      /\ \A f \in Emitters : epc'[f] = "enqueue" => epc[f] = "enqueue"
  BY DEF TypeInv, Emit
<1>2. file' \in Seq(Records) /\ refused' \subseteq Records
  <2>1. file \in Seq(Records) /\ refused \subseteq Records /\ Written(e)
    BY DEF TypeInv, Emit
  <2> QED BY <2>1, NowIsRecord DEF Written
<1> QED BY <1>1, <1>2 DEF TypeInv, Emit, threads, closer

LEMMA LookUpTyped == ASSUME TypeInv, NEW e \in Emitters, LookUp(e) PROVE TypeInv'
<1> USE SinksAssumption
<1>1. CASE worker # 0
  <2>1. worker \in Workers
    BY <1>1 DEF TypeInv, Workers
  <2>2. /\ held' \in [Emitters -> 0..MaxWorkers] /\ epc' \in [Emitters -> {"idle", "lookup", "enqueue"}]
        /\ \A f \in Emitters : epc'[f] # "idle" => epc[f] # "idle"
        /\ \A f \in Emitters : epc'[f] = "enqueue" => held'[f] \in Workers
    <3>1. epc' = [epc EXCEPT ![e] = "enqueue"] /\ held' = [held EXCEPT ![e] = worker] /\ epc[e] = "lookup"
      BY <1>1 DEF LookUp
    <3>2. /\ held \in [Emitters -> 0..MaxWorkers] /\ epc \in [Emitters -> {"idle", "lookup", "enqueue"}]
          /\ \A f \in Emitters : epc[f] = "enqueue" => held[f] \in Workers
      BY DEF TypeInv
    <3> QED BY <2>1, <3>1, <3>2 DEF Workers
  <2> QED BY SMTT(30), <1>1, <2>2 DEF TypeInv, LookUp, closer
<1>2. CASE worker = 0
  <2>1. built' \in Workers /\ built' = built + 1 /\ worker' = built'
    BY <1>2 DEF TypeInv, LookUp, Workers
  <2>2. /\ held' \in [Emitters -> 0..MaxWorkers] /\ epc' \in [Emitters -> {"idle", "lookup", "enqueue"}]
        /\ \A f \in Emitters : epc'[f] # "idle" => epc[f] # "idle"
        /\ \A f \in Emitters : epc'[f] = "enqueue" => held'[f] \in Workers
    <3>1. epc' = [epc EXCEPT ![e] = "enqueue"] /\ held' = [held EXCEPT ![e] = built'] /\ epc[e] = "lookup"
      BY <1>2 DEF LookUp
    <3>2. /\ held \in [Emitters -> 0..MaxWorkers] /\ epc \in [Emitters -> {"idle", "lookup", "enqueue"}]
          /\ \A f \in Emitters : epc[f] = "enqueue" => held[f] \in Workers
      BY DEF TypeInv
    <3> QED BY <2>1, <3>1, <3>2 DEF Workers
  <2>3. wpc' \in [Workers -> {"none", "head", "get", "deliver", "ended"}]
        /\ \A w \in Workers : wpc'[w] # "none" => NSinks > 0 /\ w <= built'
    <3>1. wpc' = [wpc EXCEPT ![built'] = IF NSinks > 0 THEN "head" ELSE "none"]
      BY <1>2 DEF LookUp
    <3>2. /\ built \in Nat /\ \A w \in Workers : w \in Nat
          /\ wpc \in [Workers -> {"none", "head", "get", "deliver", "ended"}]
          /\ \A w \in Workers : wpc[w] # "none" => NSinks > 0 /\ w <= built
      BY DEF TypeInv, Workers
    <3> QED BY <2>1, <3>1, <3>2
  <2>4. worker' \in 0..built' /\ built' \in 0..MaxWorkers
    BY <2>1 DEF Workers
  <2> QED BY <1>2, <2>2, <2>3, <2>4 DEF TypeInv, LookUp, closer
<1> QED BY <1>1, <1>2

LEMMA PutTyped ==
    ASSUME TypeInv, NEW w \in Workers, NEW r \in Records, Put(w, r), ~Full(w)
    PROVE  /\ queue' \in [Workers -> Seq(Records)] /\ accepted' \in [Workers -> Seq(Records)]
           /\ \A v \in Workers : Len(queue'[v]) <= QueueSize
<1>1. queue[w] \in Seq(Records) /\ accepted[w] \in Seq(Records)
  BY DEF TypeInv
<1>2. Append(queue[w], r) \in Seq(Records) /\ Append(accepted[w], r) \in Seq(Records)
      /\ Len(Append(queue[w], r)) = Len(queue[w]) + 1 /\ Len(queue[w]) \in Nat
  BY <1>1
<1>3. Len(queue[w]) + 1 <= QueueSize
  BY <1>2, SinksAssumption DEF Full
<1> QED BY <1>2, <1>3 DEF TypeInv, Put

LEMMA EnqueueTyped == ASSUME TypeInv, NEW e \in Emitters, Enqueue(e) PROVE TypeInv'
<1>1. held[e] \in Workers /\ <<e, emitted[e]>> \in Records
  BY HeldRecord DEF TypeInv, Enqueue
<1>2. queue' \in [Workers -> Seq(Records)] /\ accepted' \in [Workers -> Seq(Records)]
      /\ \A v \in Workers : Len(queue'[v]) <= QueueSize
  BY <1>1, PutTyped DEF Enqueue, TypeInv
<1>3. epc' \in [Emitters -> {"idle", "lookup", "enqueue"}]
      /\ \A f \in Emitters : epc'[f] # "idle" => epc'[f] = epc[f]
  BY DEF Enqueue, TypeInv
<1> QED BY <1>2, <1>3 DEF TypeInv, Enqueue, closer

LEMMA LoopHeadTyped == ASSUME TypeInv, NEW w \in Workers, LoopHead(w) PROVE TypeInv'
<1>1. /\ wpc' \in [Workers -> {"none", "head", "get", "deliver", "ended"}]
      /\ \A v \in Workers : wpc'[v] # "none" => wpc[v] # "none"
  BY DEF TypeInv, LoopHead
<1> QED BY <1>1 DEF TypeInv, LoopHead, emitters, closer

LEMMA GetTyped == ASSUME TypeInv, NEW w \in Workers, Get(w) PROVE TypeInv'
<1>1. /\ wpc' \in [Workers -> {"none", "head", "get", "deliver", "ended"}]
      /\ \A v \in Workers : wpc'[v] # "none" => wpc[v] # "none"
  BY DEF TypeInv, Get
<1>2. CASE queue[w] = <<>>
  BY <1>1, <1>2 DEF TypeInv, Get, emitters, closer
<1>3. CASE queue[w] # <<>>
  <2>1. queue[w] \in Seq(Records)
    BY DEF TypeInv
  <2>2. /\ Head(queue[w]) \in Records /\ Tail(queue[w]) \in Seq(Records)
        /\ Len(Tail(queue[w])) = Len(queue[w]) - 1 /\ Len(queue[w]) \in Nat
    BY <1>3, <2>1
  <2>3. /\ hand' \in [Workers -> Records \cup {NoRecord}]
        /\ sink' \in [Workers -> Nat] /\ attempt' \in [Workers -> Nat]
    <3>1. /\ hand \in [Workers -> Records \cup {NoRecord}]
          /\ sink \in [Workers -> Nat] /\ attempt \in [Workers -> Nat]
      BY DEF TypeInv
    <3>2. /\ hand' = [hand EXCEPT ![w] = Head(queue[w])]
          /\ sink' = [sink EXCEPT ![w] = 1] /\ attempt' = [attempt EXCEPT ![w] = 1]
      BY <1>3 DEF Get
    <3> HIDE DEF NoRecord
    <3> QED BY <2>2, <3>1, <3>2
  <2>4. queue' = [queue EXCEPT ![w] = Tail(@)]
    BY <1>3 DEF Get
  <2>5. /\ queue \in [Workers -> Seq(Records)] /\ QueueSize \in Nat
        /\ \A v \in Workers : Len(queue[v]) <= QueueSize
    BY SinksAssumption DEF TypeInv
  <2>6. queue' \in [Workers -> Seq(Records)] /\ \A v \in Workers : Len(queue'[v]) <= QueueSize
    BY <2>2, <2>4, <2>5
  <2> QED BY <1>1, <1>3, <2>3, <2>6 DEF TypeInv, Get, emitters, closer
<1> QED BY <1>2, <1>3

-----------------------------------------------------------------------------
(* A try at one sink: it arrives or not, and ends the record's business    *)
(* with this sink or is followed by another try.                           *)

Again(w) ==
    /\ attempt[w] < Retries /\ attempt' = [attempt EXCEPT ![w] = @ + 1]
    /\ UNCHANGED <<settled, hand, wpc, sink>>
Try(w) ==
    /\ wpc[w] = "deliver"
    /\ Arrived(w) \/ UNCHANGED received
    /\ Settle(w) \/ Again(w)
    /\ DeliverUnchanged

LEMMA SendsAreTries ==
    ASSUME NEW w \in Workers, DeliverInv(w), Sent(w) \/ SendFails(w) PROVE Try(w)
<1>1. wpc[w] = "deliver"
  BY DEF Sent, SendFails
<1>2. attempt[w] \in 1..Retries
  BY <1>1 DEF DeliverInv
<1>3. CASE Sent(w)
  BY <1>3 DEF Sent, Try
<1>4. CASE SendFails(w)
  BY <1>2, <1>4, SinksAssumption DEF SendFails, Retry, Try, Again
<1> QED BY <1>3, <1>4

LEMMA InHand ==
    ASSUME TypeInv, NEW w \in Workers, DeliverInv(w), QueueInv(w), wpc[w] = "deliver"
    PROVE  /\ sink[w] \in Sinks /\ sink[w] \in Nat /\ NSinks \in Nat
           /\ hand[w] \in Records
           /\ Len(accepted[w]) \in Nat /\ Taken(w) \in 1..Len(accepted[w])
<1>1. /\ sink[w] \in Sinks /\ Taken(w) >= 1 /\ hand[w] = accepted[w][Taken(w)] /\ Taken(w) \in Nat
      /\ accepted[w] \in Seq(Records) /\ queue[w] \in Seq(Records)
  BY DEF TypeInv, DeliverInv, QueueInv
<1>2. Taken(w) <= Len(accepted[w])
  <2>1. Len(queue[w]) \in Nat /\ Len(accepted[w]) \in Nat
    BY <1>1
  <2>2. \A m, n \in Nat : m - n <= m
    OBVIOUS
  <2> QED BY <2>1, <2>2 DEF Taken
<1>3. hand[w] \in Records
  BY <1>1, <1>2
<1> QED BY <1>1, <1>2, <1>3, SinksAssumption DEF Sinks

\* What a try does to the worker that makes it; the others keep theirs.
LEMMA TryEffect ==
    ASSUME TypeInv, NEW w \in Workers, DeliverInv(w), QueueInv(w), Try(w)
    PROVE  /\ \A v \in Workers : v # w =>
                 /\ wpc'[v] = wpc[v] /\ hand'[v] = hand[v] /\ sink'[v] = sink[v]
                 /\ attempt'[v] = attempt[v] /\ settled'[v] = settled[v] /\ received'[v] = received[v]
           /\ \A s \in Sinks :
                 received'[w][s] \in {received[w][s]}
                                     \cup (IF s = sink[w] THEN {Append(received[w][s], hand[w])} ELSE {})
           /\ \/ /\ wpc'[w] = "deliver" /\ hand'[w] = hand[w] /\ sink'[w] = sink[w]
                 /\ attempt[w] < Retries /\ attempt'[w] = attempt[w] + 1 /\ settled'[w] = settled[w]
              \/ /\ wpc'[w] = "deliver" /\ hand'[w] = hand[w] /\ sink[w] < NSinks
                 /\ sink'[w] = sink[w] + 1 /\ attempt'[w] = 1
                 /\ \A s \in Sinks : settled'[w][s] = IF s = sink[w] THEN settled[w][s] + 1 ELSE settled[w][s]
              \/ /\ wpc'[w] = "head" /\ sink[w] = NSinks
                 /\ \A s \in Sinks : settled'[w][s] = IF s = sink[w] THEN settled[w][s] + 1 ELSE settled[w][s]
<1>1. sink[w] \in Sinks /\ sink[w] \in Nat /\ NSinks \in Nat /\ sink[w] <= NSinks
  BY InHand DEF Try, Sinks
<1>2. \A v \in Workers : v # w => received'[v] = received[v]
  BY DEF Try, Arrived, TypeInv
<1>3. \A s \in Sinks : received'[w][s] \in {received[w][s]}
                           \cup (IF s = sink[w] THEN {Append(received[w][s], hand[w])} ELSE {})
  BY SMTT(30), <1>1 DEF Try, Arrived, TypeInv
<1>4. CASE Again(w)
  BY <1>2, <1>3, <1>4 DEF Try, Again, TypeInv
<1>5. CASE Settle(w)
  <2>1. /\ \A v \in Workers : v # w =>
              wpc'[v] = wpc[v] /\ hand'[v] = hand[v] /\ sink'[v] = sink[v] /\ attempt'[v] = attempt[v]
              /\ settled'[v] = settled[v]
        /\ \A s \in Sinks : settled'[w][s] = IF s = sink[w] THEN settled[w][s] + 1 ELSE settled[w][s]
        /\ attempt'[w] = 1
    BY <1>5 DEF Settle, TypeInv
  <2>2. CASE sink[w] < NSinks
    <3>1. sink'[w] = sink[w] + 1 /\ hand'[w] = hand[w] /\ wpc'[w] = "deliver"
      BY <1>5, <2>2 DEF Settle, Try, TypeInv
    <3> QED BY <1>2, <1>3, <2>1, <2>2, <3>1
  <2>3. CASE ~(sink[w] < NSinks)
    <3>1. wpc'[w] = "head"
      BY <1>5, <2>3 DEF Settle, TypeInv
    <3> QED BY <1>1, <1>2, <1>3, <2>1, <2>3, <3>1
  <2> QED BY <2>2, <2>3
<1> QED BY <1>4, <1>5 DEF Try

LEMMA TryTyped ==
    ASSUME TypeInv, NEW w \in Workers, DeliverInv(w), QueueInv(w), Try(w) PROVE TypeInv'
<1>1. sink[w] \in Sinks /\ hand[w] \in Records /\ settled[w][sink[w]] \in Nat /\ received[w][sink[w]] \in Seq(Records)
  BY InHand DEF Try, TypeInv
<1>2. received' \in [Workers -> [Sinks -> Seq(Records)]]
  <2>1. Append(received[w][sink[w]], hand[w]) \in Seq(Records)
    BY <1>1
  <2>2. received \in [Workers -> [Sinks -> Seq(Records)]]
    BY DEF TypeInv
  <2>3. CASE Arrived(w)
    <3>1. [received[w] EXCEPT ![sink[w]] = Append(@, hand[w])] \in [Sinks -> Seq(Records)]
      BY <2>1, <2>2
    <3>2. received' = [received EXCEPT ![w] = [received[w] EXCEPT ![sink[w]] = Append(@, hand[w])]]
      BY <2>3 DEF Arrived
    <3> QED BY <2>2, <3>1, <3>2
  <2> QED BY <2>2, <2>3 DEF Try
<1>3. settled' \in [Workers -> [Sinks -> Nat]]
  <2>1. settled \in [Workers -> [Sinks -> Nat]]
    BY DEF TypeInv
  <2>2. CASE Settle(w)
    <3>1. [settled[w] EXCEPT ![sink[w]] = @ + 1] \in [Sinks -> Nat]
      BY <1>1, <2>1
    <3>2. settled' = [settled EXCEPT ![w] = [settled[w] EXCEPT ![sink[w]] = @ + 1]]
      BY <2>2 DEF Settle
    <3> QED BY <2>1, <3>1, <3>2
  <2> QED BY <2>1, <2>2 DEF Try, Again
<1>4. /\ sink' \in [Workers -> Nat] /\ attempt' \in [Workers -> Nat]
      /\ hand' \in [Workers -> Records \cup {NoRecord}]
  <2>1. /\ hand \in [Workers -> Records \cup {NoRecord}]
        /\ sink \in [Workers -> Nat] /\ attempt \in [Workers -> Nat]
    BY DEF TypeInv
  <2> HIDE DEF NoRecord
  <2>2. CASE Settle(w)
    BY <2>1, <2>2 DEF Settle
  <2>3. CASE Again(w)
    BY <2>1, <2>3 DEF Again
  <2> QED BY <2>2, <2>3 DEF Try
<1>5. /\ wpc' \in [Workers -> {"none", "head", "get", "deliver", "ended"}]
      /\ \A v \in Workers : wpc'[v] # "none" => wpc[v] # "none"
  BY DEF Try, Settle, Again, TypeInv
<1> QED BY <1>2, <1>3, <1>4, <1>5 DEF Try, DeliverUnchanged, emitters, closer, TypeInv

-----------------------------------------------------------------------------
(* close                                                                   *)

CloserStep == Reload \/ AtExit \/ FlushReturns \/ JoinReturns

LEMMA CloserTyped == ASSUME TypeInv, CloserStep PROVE TypeInv'
<1>0. /\ worker \in 0..built /\ built \in 0..MaxWorkers /\ MaxWorkers \in Nat
      /\ closing \in 0..MaxWorkers /\ leaving \in BOOLEAN
  BY SinksAssumption DEF TypeInv
<1>1. CASE Reload
  <2>1. /\ closing' \in Workers /\ cpc' = "flush" /\ leaving' \in BOOLEAN
        /\ worker' \in 0..built /\ closing' \in 0..MaxWorkers
    <3>1. worker # 0 /\ worker' = 0 /\ closing' = worker /\ cpc' = "flush" /\ leaving' = FALSE
      BY <1>1 DEF Reload, BeginClose
    <3>2. leaving' \in BOOLEAN BY <3>1, Zenon
    <3>3. worker' \in 0..built /\ closing' \in Workers BY <1>0, <3>1 DEF Workers
    <3> QED BY <3>1, <3>2, <3>3 DEF Workers
  <2> QED BY <1>1, <2>1 DEF TypeInv, Reload, BeginClose, emitters, threads
<1>2. CASE AtExit
  <2>1. /\ closing' \in Workers /\ cpc' = "flush" /\ leaving' \in BOOLEAN
        /\ worker' \in 0..built /\ closing' \in 0..MaxWorkers
    BY <1>0, <1>2 DEF AtExit, BeginClose, Workers
  <2> QED BY <1>2, <2>1 DEF TypeInv, AtExit, BeginClose, emitters, threads
<1>3. CASE FlushReturns
  <2>1. drained' \in [Workers -> Nat]
    BY <1>3 DEF TypeInv, FlushReturns
  <2> QED BY <1>3, <2>1 DEF TypeInv, FlushReturns, emitters, threads
<1>4. CASE JoinReturns
  <2>1. cpc' = "none" /\ closing' \in 0..MaxWorkers /\ exited' \in BOOLEAN
    BY <1>0, <1>4 DEF JoinReturns
  <2> QED BY <1>4, <2>1 DEF TypeInv, JoinReturns, emitters, threads
<1> QED BY <1>1, <1>2, <1>3, <1>4 DEF CloserStep

-----------------------------------------------------------------------------
(* Sequences.                                                              *)

LEMMA AppendAt ==
    ASSUME NEW S, NEW seq \in Seq(S), NEW x \in S
    PROVE  /\ Append(seq, x) \in Seq(S) /\ Len(seq) \in Nat /\ Len(Append(seq, x)) = Len(seq) + 1
           /\ \A i \in 1..Len(seq) : Append(seq, x)[i] = seq[i]
           /\ Append(seq, x)[Len(seq) + 1] = x
OBVIOUS

LEMMA TailAt ==
    ASSUME NEW S, NEW seq \in Seq(S), seq # <<>>
    PROVE  /\ Len(seq) \in Nat /\ Len(seq) >= 1 /\ Head(seq) = seq[1]
           /\ Len(Tail(seq)) = Len(seq) - 1
           /\ \A i \in 1..Len(Tail(seq)) : Tail(seq)[i] = seq[i + 1]
OBVIOUS

LEMMA CopiesCounted ==
    ASSUME NEW S, NEW seq \in Seq(S), NEW r
    PROVE  /\ IsFiniteSet({k \in 1..Len(seq) : seq[k] = r})
           /\ CopiesIn(r, seq) \in Nat
<1>1. IsFiniteSet(1..Len(seq))
  BY FS_Interval
<1>2. IsFiniteSet({k \in 1..Len(seq) : seq[k] = r})
  BY <1>1, FS_Subset
<1> QED BY <1>2, FS_CardinalityType DEF CopiesIn

LEMMA CopiesOfAppend ==
    ASSUME NEW S, NEW seq \in Seq(S), NEW r, NEW x \in S
    PROVE  CopiesIn(r, Append(seq, x)) <= CopiesIn(r, seq) + 1
<1> DEFINE before == {k \in 1..Len(seq) : seq[k] = r}
           after == {k \in 1..Len(Append(seq, x)) : Append(seq, x)[k] = r}
<1>1. after \subseteq before \cup {Len(seq) + 1}
  BY AppendAt
<1>2. IsFiniteSet(before) /\ Cardinality(before) \in Nat
  BY CopiesCounted DEF CopiesIn
<1>3. IsFiniteSet(before \cup {Len(seq) + 1})
      /\ Cardinality(before \cup {Len(seq) + 1}) <= Cardinality(before) + 1
  <2> HIDE DEF before
  <2>1. Cardinality(before \cup {Len(seq) + 1}) =
          IF Len(seq) + 1 \in before THEN Cardinality(before) ELSE Cardinality(before) + 1
    BY <1>2, FS_AddElement
  <2> QED BY <1>2, <2>1, FS_AddElement
<1>4. Cardinality(after) <= Cardinality(before \cup {Len(seq) + 1})
  <2> HIDE DEF before, after
  <2> QED BY <1>1, <1>3, FS_Subset
<1>5. Cardinality(after) \in Nat /\ Cardinality(before \cup {Len(seq) + 1}) \in Nat
  <2>1. IsFiniteSet(after)
    <3> HIDE DEF before, after
    <3> QED BY <1>1, <1>3, FS_Subset
  <2> HIDE DEF before, after
  <2> QED BY <2>1, <1>3, FS_CardinalityType
<1> HIDE DEF before, after
<1>6. Cardinality(after) <= Cardinality(before) + 1
  BY <1>2, <1>3, <1>4, <1>5
<1> QED BY <1>6 DEF CopiesIn, before, after

LEMMA NoCopies ==
    ASSUME NEW seq, NEW r, \A k \in 1..Len(seq) : seq[k] # r PROVE CopiesIn(r, seq) = 0
<1>1. {k \in 1..Len(seq) : seq[k] = r} = {}
  OBVIOUS
<1> QED BY <1>1, FS_EmptySet DEF CopiesIn

-----------------------------------------------------------------------------
(* One lemma per step.                                                     *)

\* A worker nobody touches, or whose thread only goes round its loop.
LEMMA Untouched ==
    ASSUME NEW w \in Workers, WorkerInv(w),
           queue'[w] = queue[w], accepted'[w] = accepted[w], hand'[w] = hand[w], sink'[w] = sink[w],
           attempt'[w] = attempt[w], settled'[w] = settled[w], received'[w] = received[w],
           drained'[w] = drained[w], wpc'[w] = wpc[w] \/ "deliver" \notin {wpc[w], wpc'[w]}
    PROVE  WorkerInv(w)'
<1>1. Taken(w)' = Taken(w) BY DEF Taken
<1>2. QueueInv(w)' BY <1>1 DEF WorkerInv, QueueInv
<1>3. DeliverInv(w)' BY <1>1 DEF WorkerInv, DeliverInv
<1>4. SettledInv(w)' BY <1>1 DEF WorkerInv, SettledInv
<1>5. ReceivedInv(w)'
  <2>1. wpc'[w] = "deliver" <=> wpc[w] = "deliver" OBVIOUS
  <2>2. ReceivedInv(w) BY DEF WorkerInv
  <2> QED BY <2>1, <2>2 DEF ReceivedInv
<1>6. CopiesInv(w)' BY DEF WorkerInv, CopiesInv, CopiesIn
<1>7. DrainedInv(w)' BY <1>1 DEF WorkerInv, DrainedInv
<1> QED BY <1>2, <1>3, <1>4, <1>5, <1>6, <1>7 DEF WorkerInv

LEMMA PutKeeps ==
    ASSUME TypeInv, NEW w \in Workers, NEW r \in Records, WorkerInv(w), Put(w, r),
           UNCHANGED <<hand, wpc, sink, attempt, settled, received, drained>>
    PROVE  WorkerInv(w)'
<1>1. queue[w] \in Seq(Records) /\ accepted[w] \in Seq(Records)
  BY DEF TypeInv
<1>2. queue'[w] = Append(queue[w], r) /\ accepted'[w] = Append(accepted[w], r)
  BY DEF TypeInv, Put
<1>3. /\ Len(queue[w]) \in Nat /\ Len(queue'[w]) = Len(queue[w]) + 1
      /\ \A i \in 1..Len(queue[w]) : queue'[w][i] = queue[w][i]
      /\ queue'[w][Len(queue[w]) + 1] = r
  BY <1>1, <1>2, AppendAt
<1>4. /\ Len(accepted[w]) \in Nat /\ Len(accepted'[w]) = Len(accepted[w]) + 1
      /\ \A i \in 1..Len(accepted[w]) : accepted'[w][i] = accepted[w][i]
      /\ accepted'[w][Len(accepted[w]) + 1] = r
  BY <1>1, <1>2, AppendAt
<1>5. Taken(w)' = Taken(w) /\ Taken(w) \in Nat /\ Taken(w) + Len(queue[w]) = Len(accepted[w])
  BY <1>3, <1>4 DEF Taken, WorkerInv, QueueInv
<1>6. QueueInv(w)'
  <2>1. ASSUME NEW j \in 1..Len(queue'[w]) PROVE queue'[w][j] = accepted'[w][Taken(w) + j]
    <3>1. CASE j = Len(queue[w]) + 1
      BY SMTT(30), <1>3, <1>4, <1>5, <3>1
    <3>2. CASE j \in 1..Len(queue[w])
      <4>1. Taken(w) + j \in 1..Len(accepted[w])
        BY <1>3, <1>4, <1>5, <3>2
      <4> QED BY <1>3, <1>4, <3>2, <4>1 DEF WorkerInv, QueueInv
    <3> QED BY <1>3, <3>1, <3>2
  <2> QED BY <1>5, <2>1 DEF QueueInv
<1>7. DeliverInv(w)'
  <2>1. Taken(w) >= 1 => Taken(w) \in 1..Len(accepted[w])
    BY <1>3, <1>4, <1>5
  <2>2. Taken(w) >= 1 => accepted'[w][Taken(w)] = accepted[w][Taken(w)]
    BY <1>4, <2>1
  <2> QED BY <1>5, <2>2 DEF WorkerInv, DeliverInv
<1>8. SettledInv(w)' /\ DrainedInv(w)'
  BY <1>5 DEF WorkerInv, SettledInv, DrainedInv
<1>9. ReceivedInv(w)'
  BY <1>4 DEF WorkerInv, ReceivedInv
<1>10. CopiesInv(w)'
  BY DEF WorkerInv, CopiesInv, CopiesIn
<1> QED BY <1>6, <1>7, <1>8, <1>9, <1>10 DEF WorkerInv

LEMMA GetKeeps ==
    ASSUME TypeInv, DistinctInv, NEW w \in Workers, WorkerInv(w), Get(w), queue[w] # <<>>
    PROVE  WorkerInv(w)'
<1>1. queue[w] \in Seq(Records) /\ accepted[w] \in Seq(Records) /\ Len(accepted[w]) \in Nat
  BY DEF TypeInv
<1>2. /\ queue'[w] = Tail(queue[w]) /\ hand'[w] = Head(queue[w]) /\ sink'[w] = 1 /\ attempt'[w] = 1
      /\ wpc[w] = "get" /\ wpc'[w] = "deliver"
      /\ UNCHANGED <<accepted, settled, received, drained>>
  BY DEF TypeInv, Get, closer
<1>3. /\ Len(queue[w]) \in Nat /\ Len(queue[w]) >= 1 /\ Len(queue'[w]) = Len(queue[w]) - 1
      /\ hand'[w] = queue[w][1] /\ \A i \in 1..Len(queue'[w]) : queue'[w][i] = queue[w][i + 1]
  BY <1>1, <1>2, TailAt
<1>4. /\ Taken(w)' = Taken(w) + 1 /\ Taken(w) \in Nat /\ Taken(w) + Len(queue[w]) = Len(accepted[w])
      /\ hand'[w] = accepted[w][Taken(w) + 1] /\ drained[w] <= Taken(w)
  <2>1. Taken(w)' = Taken(w) + 1 /\ Taken(w) + Len(queue[w]) = Len(accepted[w])
    <3>1. Taken(w)' = Len(accepted[w]) - (Len(queue[w]) - 1)
      BY <1>2, <1>3 DEF Taken
    <3>2. \A m, n \in Nat : m - (n - 1) = (m - n) + 1 /\ (m - n) + n = m
      OBVIOUS
    <3> QED BY <1>1, <1>3, <3>1, <3>2 DEF Taken
  <2>2. Taken(w) \in Nat /\ queue[w][1] = accepted[w][Taken(w) + 1] /\ drained[w] <= Taken(w)
    BY <1>3 DEF WorkerInv, QueueInv, DrainedInv
  <2> QED BY <1>3, <2>1, <2>2
<1>5. \A s \in Sinks : settled[w][s] = Taken(w)
  BY <1>2 DEF WorkerInv, SettledInv
<1>6. QueueInv(w)'
  BY SMTT(30), <1>1, <1>2, <1>3, <1>4 DEF WorkerInv, QueueInv
<1>7. 1 \in Sinks /\ \A s \in Sinks : s >= 1
  BY <1>2, SinksAssumption DEF TypeInv, Sinks
<1>8. DeliverInv(w)'
  BY <1>2, <1>4, <1>7, SinksAssumption DEF DeliverInv
<1>9. SettledInv(w)'
  <2>1. Taken(w) = Taken(w)' - 1
    BY <1>4
  <2> QED BY <1>2, <1>5, <1>7, <2>1 DEF SettledInv
<1>10. \A s \in Sinks : \A k \in 1..Len(received[w][s]) :
          \E i \in 1..Len(accepted[w]) : received[w][s][k] = accepted[w][i] /\ i <= Taken(w)
  BY <1>2, <1>5 DEF WorkerInv, ReceivedInv
<1>11. ReceivedInv(w)'
  BY <1>2, <1>5, <1>10 DEF ReceivedInv
<1>12. \A k \in 1..Len(received[w][1]) : received[w][1][k] # hand'[w]
  <2> SUFFICES ASSUME NEW k \in 1..Len(received[w][1]), received[w][1][k] = hand'[w] PROVE FALSE
    OBVIOUS
  <2>1. PICK i \in 1..Len(accepted[w]) : received[w][1][k] = accepted[w][i] /\ i <= Taken(w)
    BY <1>7, <1>10
  <2>2. Taken(w) + 1 \in 1..Len(accepted[w])
    BY SMTT(30), <1>1, <1>3, <1>4
  <2>3. i = Taken(w) + 1
    BY <1>4, <2>1, <2>2 DEF DistinctInv
  <2> QED BY <1>4, <2>1, <2>3
<1>13. CopiesInv(w)'
  BY <1>2, <1>12, NoCopies DEF CopiesInv
<1>14. DrainedInv(w)'
  BY <1>2, <1>4 DEF DrainedInv, TypeInv
<1> QED BY <1>6, <1>8, <1>9, <1>11, <1>13, <1>14 DEF WorkerInv

LEMMA TryKeeps ==
    ASSUME TypeInv, DistinctInv, NEW w \in Workers, WorkerInv(w), Try(w)
    PROVE  WorkerInv(w)'
<1>0. DeliverInv(w) /\ QueueInv(w) /\ SettledInv(w) /\ ReceivedInv(w) /\ CopiesInv(w) /\ DrainedInv(w)
  BY DEF WorkerInv
<1>1. /\ sink[w] \in Sinks /\ sink[w] \in Nat /\ NSinks \in Nat /\ hand[w] \in Records
      /\ Len(accepted[w]) \in Nat /\ Taken(w) \in 1..Len(accepted[w]) /\ wpc[w] = "deliver"
  BY <1>0, InHand DEF Try
<1>2. /\ hand[w] = accepted[w][Taken(w)] /\ attempt[w] \in 1..Retries /\ Retries \in Nat \ {0}
      /\ settled[w][sink[w]] = Taken(w) - 1 /\ drained[w] < Taken(w)
  BY <1>0, <1>1, SinksAssumption DEF DeliverInv, SettledInv, DrainedInv
<1>3. /\ \A s \in Sinks : received'[w][s] \in {received[w][s]}
                              \cup (IF s = sink[w] THEN {Append(received[w][s], hand[w])} ELSE {})
      /\ \A s \in Sinks : received[w][s] \in Seq(Records)
  BY <1>0, TryEffect DEF TypeInv
<1>4. UNCHANGED <<queue, accepted, drained>> /\ Taken(w)' = Taken(w)
  BY DEF Try, DeliverUnchanged, closer, Taken
<1>5. QueueInv(w)'
  BY <1>0, <1>4 DEF QueueInv
\* Whatever is in a stream now was accepted, and is settled or in hand.
<1>6. \A s \in Sinks : \A k \in 1..Len(received'[w][s]) :
         \E i \in 1..Len(accepted[w]) :
            /\ received'[w][s][k] = accepted[w][i]
            /\ i <= settled[w][s] \/ (i = settled[w][s] + 1 /\ s = sink[w])
  <2> SUFFICES ASSUME NEW s \in Sinks, NEW k \in 1..Len(received'[w][s])
               PROVE  \E i \in 1..Len(accepted[w]) :
                         /\ received'[w][s][k] = accepted[w][i]
                         /\ i <= settled[w][s] \/ (i = settled[w][s] + 1 /\ s = sink[w])
    OBVIOUS
  <2>1. CASE received'[w][s] = received[w][s]
    BY <1>0, <2>1 DEF ReceivedInv
  <2>2. CASE s = sink[w] /\ received'[w][s] = Append(received[w][s], hand[w])
    <3>1. /\ Len(received[w][s]) \in Nat /\ Len(received'[w][s]) = Len(received[w][s]) + 1
          /\ \A i \in 1..Len(received[w][s]) : received'[w][s][i] = received[w][s][i]
          /\ received'[w][s][Len(received[w][s]) + 1] = hand[w]
      BY SMTT(30), <1>1, <1>3, <2>2, AppendAt
    <3>2. CASE k \in 1..Len(received[w][s])
      BY <1>0, <3>1, <3>2 DEF ReceivedInv
    <3>3. CASE k = Len(received[w][s]) + 1
      <4>1. received'[w][s][k] = accepted[w][Taken(w)] /\ Taken(w) = settled[w][s] + 1
        BY <1>1, <1>2, <2>2, <3>1, <3>3
      <4> QED BY <1>1, <2>2, <4>1
    <3> QED BY <3>1, <3>2, <3>3
  <2> QED BY <1>3, <2>1, <2>2
<1>7. CopiesIn(hand[w], received'[w][sink[w]]) <= CopiesIn(hand[w], received[w][sink[w]]) + 1
      /\ CopiesIn(hand[w], received[w][sink[w]]) \in Nat /\ CopiesIn(hand[w], received'[w][sink[w]]) \in Nat
  <2>1. received[w][sink[w]] \in Seq(Records)
    BY <1>1, <1>3
  <2>2. Append(received[w][sink[w]], hand[w]) \in Seq(Records)
    BY <1>1, <2>1, AppendAt
  <2>3. received'[w][sink[w]] \in {received[w][sink[w]], Append(received[w][sink[w]], hand[w])}
    BY <1>1, <1>3
  <2>4. CopiesIn(hand[w], received[w][sink[w]]) \in Nat
    BY <2>1, CopiesCounted
  <2>5. CopiesIn(hand[w], Append(received[w][sink[w]], hand[w])) \in Nat
    BY <2>2, CopiesCounted
  <2>6. CopiesIn(hand[w], Append(received[w][sink[w]], hand[w])) <= CopiesIn(hand[w], received[w][sink[w]]) + 1
    BY <1>1, <2>1, CopiesOfAppend
  <2>7. CASE received'[w][sink[w]] = received[w][sink[w]]
    BY <2>4, <2>7
  <2>8. CASE received'[w][sink[w]] = Append(received[w][sink[w]], hand[w])
    BY <2>4, <2>5, <2>6, <2>8
  <2> QED BY <2>3, <2>7, <2>8
<1>8. CASE /\ wpc'[w] = "deliver" /\ hand'[w] = hand[w] /\ sink'[w] = sink[w]
           /\ attempt[w] < Retries /\ attempt'[w] = attempt[w] + 1 /\ settled'[w] = settled[w]
  <2>1. DeliverInv(w)'
    BY <1>0, <1>1, <1>2, <1>4, <1>8 DEF DeliverInv
  <2>2. SettledInv(w)' /\ DrainedInv(w)'
    BY <1>0, <1>1, <1>4, <1>8 DEF SettledInv, DrainedInv
  <2>3. ReceivedInv(w)'
    BY <1>1, <1>4, <1>6, <1>8 DEF ReceivedInv
  <2>4. CopiesIn(hand[w], received'[w][sink[w]]) < attempt[w] + 1
    BY <1>0, <1>1, <1>2, <1>7 DEF CopiesInv
  <2>5. CopiesInv(w)'
    BY <1>8, <2>4 DEF CopiesInv, CopiesIn
  <2> QED BY <1>5, <2>1, <2>2, <2>3, <2>5 DEF WorkerInv
<1>9. CASE /\ wpc'[w] = "deliver" /\ hand'[w] = hand[w] /\ sink[w] < NSinks
           /\ sink'[w] = sink[w] + 1 /\ attempt'[w] = 1
           /\ \A s \in Sinks : settled'[w][s] = IF s = sink[w] THEN settled[w][s] + 1 ELSE settled[w][s]
  <2>1. sink'[w] \in Sinks /\ \A s \in Sinks : s \in Nat
    BY <1>1, <1>9 DEF Sinks
  <2>2. DeliverInv(w)' /\ DrainedInv(w)'
    BY <1>0, <1>1, <1>2, <1>4, <1>9, <2>1 DEF DeliverInv, DrainedInv
  <2>3. SettledInv(w)'
    BY <1>0, <1>1, <1>2, <1>4, <1>9, <2>1 DEF SettledInv
  <2>4. \A s \in Sinks : settled[w][s] \in Nat
    BY DEF TypeInv
  <2>5. ReceivedInv(w)'
    BY SMTT(30), <1>4, <1>6, <1>9, <2>4 DEF ReceivedInv
  <2>6. settled[w][sink'[w]] = Taken(w) - 1 /\ received'[w][sink'[w]] = received[w][sink'[w]]
    BY <1>0, <1>1, <1>3, <1>9, <2>1 DEF SettledInv
  <2>7. \A k \in 1..Len(received'[w][sink'[w]]) : received'[w][sink'[w]][k] # hand'[w]
    <3> SUFFICES ASSUME NEW k \in 1..Len(received'[w][sink'[w]]),
                        received'[w][sink'[w]][k] = hand'[w]
                 PROVE  FALSE
      OBVIOUS
    <3>1. PICK i \in 1..Len(accepted[w]) :
            /\ received'[w][sink'[w]][k] = accepted[w][i]
            /\ i <= Taken(w) - 1
      <4>1. sink'[w] # sink[w]
        BY <1>1, <1>9
      <4>2. PICK i \in 1..Len(accepted[w]) :
              received'[w][sink'[w]][k] = accepted[w][i] /\ i <= settled[w][sink'[w]]
        BY <1>6, <2>1, <4>1
      <4> QED BY <2>6, <4>2
    <3>2. i = Taken(w)
      BY <1>1, <1>2, <1>9, <3>1 DEF DistinctInv
    <3> QED BY <1>1, <3>1, <3>2
  <2>8. CopiesInv(w)'
    <3>1. CopiesIn(hand'[w], received'[w][sink'[w]]) = 0
      BY <2>7, NoCopies
    <3> QED BY <1>9, <3>1 DEF CopiesInv, CopiesIn
  <2> QED BY <1>5, <2>2, <2>3, <2>5, <2>8 DEF WorkerInv
<1>10. CASE /\ wpc'[w] = "head" /\ sink[w] = NSinks
            /\ \A s \in Sinks : settled'[w][s] = IF s = sink[w] THEN settled[w][s] + 1 ELSE settled[w][s]
  <2>1. DeliverInv(w)' /\ DrainedInv(w)' /\ CopiesInv(w)'
    <3>1. drained'[w] <= Taken(w)
      BY <1>0, <1>4 DEF DrainedInv
    <3> QED BY <1>4, <1>10, <3>1 DEF DeliverInv, DrainedInv, CopiesInv
  <2>2. \A s \in Sinks : s \in Nat /\ s <= NSinks
    BY <1>1 DEF Sinks
  <2>3. SettledInv(w)'
    BY <1>0, <1>1, <1>2, <1>4, <1>10, <2>2 DEF SettledInv
  <2>4. \A s \in Sinks : settled[w][s] \in Nat
    BY DEF TypeInv
  <2>5. ReceivedInv(w)'
    <3>1. \A s \in Sinks, i \in 1..Len(accepted[w]) :
            (i <= settled[w][s] \/ (i = settled[w][s] + 1 /\ s = sink[w])) => i <= settled'[w][s]
      BY <1>10, <2>4
    <3> QED BY <1>4, <1>6, <3>1 DEF ReceivedInv
  <2> QED BY <1>5, <2>1, <2>3, <2>5 DEF WorkerInv
<1> QED BY <1>0, <1>8, <1>9, <1>10, TryEffect

LEMMA EmitKeeps ==
    ASSUME SinksInv, NEW e \in Emitters, Emit(e) PROVE SinksInv'
<1>1. TypeInv' BY EmitTyped DEF SinksInv
<1>2. DistinctInv'
  <2>1. /\ \A f \in Emitters : emitted'[f] \in Nat /\ emitted[f] \in Nat /\ emitted[f] <= emitted'[f]
        /\ \A f \in Emitters : epc'[f] # "idle" /\ epc[f] = "idle" => emitted[f] < emitted'[f]
        /\ UNCHANGED accepted
    BY DEF SinksInv, TypeInv, Emit
  <2>2. \A n \in 1..MaxEvents : n \in Nat
    OBVIOUS
  <2> QED BY <2>1, <2>2 DEF SinksInv, DistinctInv
<1>3. FileInv'
  <2>1. \A r : Recorded(r) => Recorded(r)'
    <3>1. file \in Seq(Records) BY DEF SinksInv, TypeInv
    <3>2. CASE file' = Append(file, Now(e)) /\ UNCHANGED refused
      <4>1. Now(e) \in Records BY NowIsRecord DEF SinksInv
      <4>2. \A n \in DOMAIN file : n \in DOMAIN file' /\ file'[n] = file[n]
        BY <3>1, <3>2, <4>1
      <4> QED BY <3>2, <4>2 DEF Recorded
    <3>3. CASE refused' = refused \cup {Now(e)} /\ UNCHANGED file
      BY <3>3 DEF Recorded
    <3> QED BY <3>2, <3>3 DEF Emit, Written
  <2>2. Recorded(<<e, emitted[e]>>)'
    <3>1. file \in Seq(Records) BY DEF SinksInv, TypeInv
    <3>2. CASE file' = Append(file, Now(e))
      <4>1. Now(e) \in Records BY NowIsRecord DEF SinksInv
      <4>2. Len(file) + 1 \in DOMAIN file' /\ file'[Len(file) + 1] = Now(e)
        BY <3>1, <3>2, <4>1
      <4> QED BY <4>2 DEF Recorded, Now
    <3>3. CASE refused' = refused \cup {Now(e)}
      BY <3>3 DEF Recorded, Now
    <3> QED BY <3>2, <3>3 DEF Emit, Written
  <2>3. \A f \in Emitters : f # e => emitted'[f] = emitted[f] /\ epc'[f] = epc[f]
    BY DEF Emit, SinksInv, TypeInv
  <2> QED BY <2>1, <2>2, <2>3 DEF SinksInv, FileInv, Emit, Now
<1>4. \A w \in Workers : WorkerInv(w)'
  BY Untouched DEF SinksInv, Emit, threads, closer
<1> QED BY <1>1, <1>2, <1>3, <1>4 DEF SinksInv

LEMMA LookUpKeeps ==
    ASSUME SinksInv, NEW e \in Emitters, LookUp(e) PROVE SinksInv'
<1>1. TypeInv' BY LookUpTyped DEF SinksInv
<1>2. \A f \in Emitters : epc'[f] # "idle" => epc[f] # "idle"
  BY DEF LookUp, SinksInv, TypeInv
<1>3. DistinctInv' BY <1>2 DEF SinksInv, DistinctInv, LookUp
<1>4. FileInv' BY <1>2 DEF SinksInv, FileInv, Recorded, LookUp
<1>5. ASSUME NEW w \in Workers PROVE wpc'[w] = wpc[w] \/ "deliver" \notin {wpc[w], wpc'[w]}
  <2>1. CASE worker # 0
    BY <2>1 DEF LookUp
  <2>2. CASE worker = 0
    <3>1. built' = built + 1 /\ wpc' = [wpc EXCEPT ![built'] = IF NSinks > 0 THEN "head" ELSE "none"]
      BY <2>2 DEF LookUp
    <3>2. built \in Nat /\ (wpc[w] # "none" => w <= built) /\ w \in Nat
          /\ wpc \in [Workers -> {"none", "head", "get", "deliver", "ended"}]
      BY DEF SinksInv, TypeInv, Workers
    <3> QED BY <3>1, <3>2
  <2> QED BY <2>1, <2>2
<1>6. \A w \in Workers : WorkerInv(w)'
  BY <1>5, Untouched DEF SinksInv, LookUp, closer
<1> QED BY <1>1, <1>3, <1>4, <1>6 DEF SinksInv

LEMMA EnqueueKeeps ==
    ASSUME SinksInv, NEW e \in Emitters, Enqueue(e) PROVE SinksInv'
<1>1. TypeInv' BY EnqueueTyped DEF SinksInv
<1>2. held[e] \in Workers /\ <<e, emitted[e]>> \in Records
  BY HeldRecord DEF SinksInv, TypeInv, Enqueue
<1>3. /\ UNCHANGED <<emitted, file, refused, hand, wpc, sink, attempt, drained, settled, received>>
      /\ epc[e] = "enqueue" /\ epc'[e] = "idle"
      /\ \A f \in Emitters : f # e => epc'[f] = epc[f]
  BY DEF Enqueue, closer, SinksInv, TypeInv
<1>4. CASE UNCHANGED <<queue, accepted>>
  <2>1. DistinctInv' BY <1>3, <1>4 DEF SinksInv, DistinctInv
  <2>2. FileInv' BY <1>3, <1>4 DEF SinksInv, FileInv, Recorded
  <2>3. \A w \in Workers : WorkerInv(w)' BY <1>3, <1>4, Untouched DEF SinksInv
  <2> QED BY <1>1, <2>1, <2>2, <2>3 DEF SinksInv
<1>5. CASE Put(held[e], <<e, emitted[e]>>)
  <2> DEFINE r == <<e, emitted[e]>>
  <2>0. PICK w \in Workers : w = held[e]
    BY <1>2
  <2>1. /\ \A v \in Workers : v # w => accepted'[v] = accepted[v] /\ queue'[v] = queue[v]
        /\ accepted'[w] = Append(accepted[w], r)
    BY <1>2, <1>5, <2>0 DEF Put, SinksInv, TypeInv
  <2>2. accepted[w] \in Seq(Records)
    BY <1>2 DEF SinksInv, TypeInv
  <2>3. /\ Len(accepted[w]) \in Nat /\ Len(accepted'[w]) = Len(accepted[w]) + 1
        /\ \A i \in 1..Len(accepted[w]) : accepted'[w][i] = accepted[w][i]
        /\ accepted'[w][Len(accepted[w]) + 1] = r
    BY <1>2, <2>1, <2>2, AppendAt
  <2>4. emitted[e] \in 1..MaxEvents
    BY <1>2 DEF Records
  <2>5. \A i \in 1..Len(accepted[w]) : accepted[w][i] # r
    BY <1>2, <1>3, <2>4 DEF SinksInv, DistinctInv
  <2>6. DistinctInv'
    <3>1. ASSUME NEW v \in Workers, NEW i \in 1..Len(accepted'[v]), NEW j \in 1..Len(accepted'[v]),
                 accepted'[v][i] = accepted'[v][j]
          PROVE  i = j
      <4>1. CASE v # w
        BY <2>1, <3>1, <4>1 DEF SinksInv, DistinctInv
      <4>2. CASE v = w
        <5> HIDE DEF r
        <5>1. CASE i \in 1..Len(accepted[w]) /\ j \in 1..Len(accepted[w])
          BY <2>3, <3>1, <4>2, <5>1 DEF SinksInv, DistinctInv
        <5>2. CASE i = Len(accepted[w]) + 1 /\ j \in 1..Len(accepted[w])
          BY <2>3, <2>5, <3>1, <4>2, <5>2
        <5>3. CASE j = Len(accepted[w]) + 1 /\ i \in 1..Len(accepted[w])
          BY <2>3, <2>5, <3>1, <4>2, <5>3
        <5> QED BY <2>3, <4>2, <5>1, <5>2, <5>3
      <4> QED BY <4>1, <4>2
    <3>2. ASSUME NEW v \in Workers, NEW i \in 1..Len(accepted'[v]), NEW f \in Emitters,
                 NEW n \in 1..MaxEvents, accepted'[v][i] = <<f, n>>
          PROVE  n <= emitted[f] /\ (epc'[f] # "idle" => n < emitted[f])
      <4>1. CASE i \in 1..Len(accepted[v]) /\ accepted'[v][i] = accepted[v][i]
        BY <1>3, <3>2, <4>1 DEF SinksInv, DistinctInv
      <4>2. CASE accepted'[v][i] = r
        <5>1. f = e /\ n = emitted[e]
          BY <3>2, <4>2
        <5> QED BY <1>3, <2>4, <5>1
      <4>3. (i \in 1..Len(accepted[v]) /\ accepted'[v][i] = accepted[v][i]) \/ accepted'[v][i] = r
        <5> HIDE DEF r
        <5> QED BY <2>1, <2>3
      <4> QED BY <4>1, <4>2, <4>3
    <3> QED BY <1>3, <3>1, <3>2 DEF DistinctInv
  <2>7. FileInv'
    <3>1. Recorded(r)
      BY <1>3 DEF SinksInv, FileInv
    <3>2. \A v \in Workers : \A i \in 1..Len(accepted'[v]) : Recorded(accepted'[v][i])
      <4> HIDE DEF r
      <4> QED BY SMTT(30), <2>1, <2>3, <3>1 DEF SinksInv, FileInv
    <3> QED BY <1>3, <3>2 DEF SinksInv, FileInv, Recorded
  <2>8. \A v \in Workers : WorkerInv(v)'
    <3>1. WorkerInv(w)' BY <1>2, <1>3, <1>5, <2>0, PutKeeps DEF SinksInv
    <3>2. \A v \in Workers : v # w => WorkerInv(v)'
      <4> HIDE DEF r
      <4> QED BY <1>3, <2>1, Untouched DEF SinksInv
    <3> QED BY <3>1, <3>2
  <2> QED BY <1>1, <2>6, <2>7, <2>8 DEF SinksInv
<1> QED BY <1>4, <1>5 DEF Enqueue

LEMMA WorkKeeps ==
    ASSUME SinksInv, NEW w \in Workers, Work(w) PROVE SinksInv'
<1>1. WorkerInv(w) /\ DeliverInv(w) /\ QueueInv(w)
  BY DEF SinksInv, WorkerInv
<1>2. UNCHANGED <<emitted, epc, file, refused, accepted, drained>>
  BY DEF Work, LoopHead, Get, Sent, SendFails, DeliverUnchanged, emitters, closer
<1>3. DistinctInv' /\ FileInv'
  BY <1>2 DEF SinksInv, DistinctInv, FileInv, Recorded
<1>4. CASE Sent(w) \/ SendFails(w)
  <2>1. Try(w) BY <1>1, <1>4, SendsAreTries
  <2>2. TypeInv' BY <1>1, <2>1, TryTyped DEF SinksInv
  <2>3. WorkerInv(w)' BY <1>1, <2>1, TryKeeps DEF SinksInv
  <2>4. \A v \in Workers : v # w => WorkerInv(v)'
    BY <1>1, <1>2, <2>1, TryEffect, Untouched DEF SinksInv, Try, DeliverUnchanged
  <2> QED BY <1>3, <2>2, <2>3, <2>4 DEF SinksInv
<1>5. CASE LoopHead(w)
  <2>1. TypeInv' BY <1>5, LoopHeadTyped DEF SinksInv
  <2>2. ASSUME NEW v \in Workers PROVE wpc'[v] = wpc[v] \/ "deliver" \notin {wpc[v], wpc'[v]}
    BY <1>5 DEF LoopHead, SinksInv, TypeInv
  <2>3. \A v \in Workers : WorkerInv(v)'
    BY <1>2, <1>5, <2>2, Untouched DEF SinksInv, LoopHead
  <2> QED BY <1>3, <2>1, <2>3 DEF SinksInv
<1>6. CASE Get(w)
  <2>1. TypeInv' BY <1>6, GetTyped DEF SinksInv
  <2>2. CASE queue[w] = <<>>
    <3>1. ASSUME NEW v \in Workers PROVE wpc'[v] = wpc[v] \/ "deliver" \notin {wpc[v], wpc'[v]}
      BY <1>6, <2>2 DEF Get, SinksInv, TypeInv
    <3>2. \A v \in Workers : WorkerInv(v)'
      BY <1>2, <1>6, <2>2, <3>1, Untouched DEF SinksInv, Get
    <3> QED BY <1>3, <2>1, <3>2 DEF SinksInv
  <2>3. CASE queue[w] # <<>>
    <3>1. WorkerInv(w)' BY <1>1, <1>6, <2>3, GetKeeps DEF SinksInv
    <3>2. \A v \in Workers : v # w =>
             /\ queue'[v] = queue[v] /\ hand'[v] = hand[v] /\ sink'[v] = sink[v]
             /\ attempt'[v] = attempt[v] /\ wpc'[v] = wpc[v]
      BY <1>6, <2>3 DEF Get, SinksInv, TypeInv
    <3>3. \A v \in Workers : v # w => WorkerInv(v)'
      BY <1>2, <1>6, <3>2, Untouched DEF SinksInv, Get
    <3> QED BY <1>3, <2>1, <3>1, <3>3 DEF SinksInv
  <2> QED BY <2>2, <2>3
<1> QED BY <1>4, <1>5, <1>6 DEF Work

LEMMA CloserKeeps == ASSUME SinksInv, CloserStep PROVE SinksInv'
<1>1. TypeInv' BY CloserTyped DEF SinksInv
<1>2. UNCHANGED <<emitters, threads, accepted, settled, received>>
  BY DEF CloserStep, Reload, AtExit, FlushReturns, JoinReturns, BeginClose
<1>3. DistinctInv' /\ FileInv'
  BY <1>2 DEF SinksInv, DistinctInv, FileInv, Recorded, emitters
<1>4. CASE UNCHANGED drained
  BY <1>1, <1>2, <1>3, <1>4, Untouched DEF SinksInv, threads
<1>5. CASE FlushReturns /\ Unfinished(closing) = 0
           /\ drained' = [drained EXCEPT ![closing] = Len(accepted[closing])]
  <2>1. PICK w \in Workers : w = closing
    BY <1>5 DEF FlushReturns, SinksInv, TypeInv
  <2>2. /\ \A v \in Workers : v # w => drained'[v] = drained[v]
        /\ drained'[w] = Len(accepted[w])
    BY <1>5, <2>1 DEF SinksInv, TypeInv
  <2>3. \A v \in Workers : v # w => WorkerInv(v)'
    BY <1>2, <2>2, Untouched DEF SinksInv, threads
  <2>4. /\ queue[w] \in Seq(Records) /\ Len(queue[w]) \in Nat
        /\ accepted[w] \in Seq(Records) /\ Len(accepted[w]) \in Nat
    BY DEF SinksInv, TypeInv
  <2>5. wpc[w] # "deliver" /\ Len(queue[w]) = 0
    <3>1. Len(queue[w]) + (IF wpc[w] = "deliver" THEN 1 ELSE 0) = 0
      BY <1>5, <2>1 DEF Unfinished
    <3>2. \A n \in Nat : n + 1 # 0 /\ (n + 0 = 0 => n = 0)
      OBVIOUS
    <3>3. wpc[w] # "deliver"
      BY <2>4, <3>1, <3>2
    <3> QED BY <2>4, <3>1, <3>2, <3>3
  <2>6. Taken(w)' = Taken(w) /\ Taken(w) = Len(accepted[w])
    BY <1>2, <2>4, <2>5 DEF Taken, threads
  <2>7. DrainedInv(w)'
    BY <1>2, <2>2, <2>4, <2>5, <2>6 DEF DrainedInv, threads
  <2>8. QueueInv(w) /\ DeliverInv(w) /\ SettledInv(w) /\ ReceivedInv(w) /\ CopiesInv(w)
    BY DEF SinksInv, WorkerInv
  <2>9. QueueInv(w)' /\ DeliverInv(w)' /\ SettledInv(w)'
    BY <1>2, <2>6, <2>8 DEF QueueInv, DeliverInv, SettledInv, threads
  <2>10. ReceivedInv(w)' /\ CopiesInv(w)'
    BY <1>2, <2>8 DEF ReceivedInv, CopiesInv, CopiesIn, threads
  <2> QED BY <1>1, <1>3, <2>3, <2>7, <2>9, <2>10 DEF SinksInv, WorkerInv
<1> QED BY <1>4, <1>5 DEF CloserStep, Reload, AtExit, FlushReturns, JoinReturns, BeginClose

LEMMA SinksInvInit == ASSUME Init PROVE SinksInv
<1> USE SinksAssumption DEF Init
<1>1. TypeInv
  <2>1. <<>> \in Seq(Records) /\ Len(<<>>) = 0
    OBVIOUS
  <2>2. queue \in [Workers -> Seq(Records)] /\ accepted \in [Workers -> Seq(Records)]
        /\ received \in [Workers -> [Sinks -> Seq(Records)]] /\ file \in Seq(Records)
        /\ \A w \in Workers : Len(queue[w]) <= QueueSize
    BY <2>1
  <2>3. settled \in [Workers -> [Sinks -> Nat]] /\ drained \in [Workers -> Nat]
        /\ stop \in [Workers -> BOOLEAN] /\ leaving \in BOOLEAN /\ exited \in BOOLEAN
    OBVIOUS
  <2>4. hand \in [Workers -> Records \cup {NoRecord}] /\ refused \subseteq Records
    <3> HIDE DEF NoRecord
    <3> QED OBVIOUS
  <2> QED BY <2>2, <2>3, <2>4 DEF TypeInv
<1>2. DistinctInv /\ FileInv
  BY DEF DistinctInv, FileInv
<1>3. \A w \in Workers : WorkerInv(w)
  BY DEF WorkerInv, QueueInv, DeliverInv, SettledInv, ReceivedInv, CopiesInv, DrainedInv, Taken
<1> QED BY <1>1, <1>2, <1>3 DEF SinksInv

LEMMA SinksInvNext == ASSUME SinksInv, [Next]_vars PROVE SinksInv'
<1>1. CASE UNCHANGED vars
  <2>1. TypeInv' /\ DistinctInv' /\ FileInv'
    BY SMTT(30), <1>1 DEF vars, emitters, threads, closer, SinksInv, TypeInv, DistinctInv, FileInv, Recorded
  <2>2. \A w \in Workers : WorkerInv(w)'
    BY <1>1, Untouched DEF vars, threads, closer, SinksInv
  <2> QED BY <2>1, <2>2 DEF SinksInv
<1>2. ASSUME NEW e \in Emitters, Emit(e) \/ EmitGoesOn(e) PROVE SinksInv'
  BY <1>2, EmitKeeps, LookUpKeeps, EnqueueKeeps DEF EmitGoesOn
<1>3. ASSUME NEW w \in Workers, Work(w) PROVE SinksInv'
  BY <1>3, WorkKeeps
<1>4. CASE CloserStep
  BY <1>4, CloserKeeps
<1> QED BY <1>1, <1>2, <1>3, <1>4 DEF Next, CloserStep

LEMMA SinksInvAlways == Spec => []SinksInv
<1>1. Init => SinksInv BY SinksInvInit
<1>2. SinksInv /\ [Next]_vars => SinksInv' BY SinksInvNext
<1> QED BY <1>1, <1>2, PTL DEF Spec

-----------------------------------------------------------------------------
(* The refinement.                                                         *)

\* What a worker's try does to one sink's share is a step of the forwarder's
\* promise to that sink.
LEMMA TryForwards ==
    ASSUME SinksInv, NEW w \in Workers, NEW s \in Sinks, Try(w)
    PROVE  [Forward(w, s)!Next]_<<accepted[w], settled[w][s], received[w][s]>>
<1>0. TypeInv /\ DeliverInv(w) /\ QueueInv(w) /\ SettledInv(w) /\ CopiesInv(w)
  BY DEF SinksInv, WorkerInv
<1>1. /\ sink[w] \in Sinks /\ Len(accepted[w]) \in Nat /\ Taken(w) \in 1..Len(accepted[w])
      /\ wpc[w] = "deliver" /\ hand[w] \in Records /\ sink[w] \in Nat
  BY <1>0, InHand DEF Try
<1>2. UNCHANGED accepted
  BY DEF Try, DeliverUnchanged
<1>3. CASE s # sink[w]
  <2>1. settled'[w][s] = settled[w][s] /\ received'[w][s] = received[w][s]
    BY <1>0, <1>3, TryEffect
  <2> QED BY <1>2, <2>1
<1>4. CASE s = sink[w]
  <2>1. settled[w][s] = Taken(w) - 1 /\ hand[w] = accepted[w][Taken(w)] /\ attempt[w] \in 1..Retries
    BY <1>0, <1>1, <1>4 DEF SettledInv, DeliverInv
  <2>2. settled[w][s] < Len(accepted[w]) /\ hand[w] = accepted[w][settled[w][s] + 1]
    BY <1>1, <2>1
  <2>3. received[w][s] \in Seq(Records)
    BY <1>0 DEF TypeInv
  <2>4. Cardinality({k \in DOMAIN received[w][s] : received[w][s][k] = hand[w]}) < Retries
    <3>1. DOMAIN received[w][s] = 1..Len(received[w][s])
      BY <2>3
    <3>2. CopiesIn(hand[w], received[w][s]) \in Nat
      BY <2>3, CopiesCounted
    <3>3. CopiesIn(hand[w], received[w][s]) < Retries
      BY <1>0, <1>1, <1>4, <2>1, <3>2, SinksAssumption DEF CopiesInv
    <3> QED BY <3>1, <3>3 DEF CopiesIn
  <2>5. settled'[w][s] \in {settled[w][s], settled[w][s] + 1}
    BY <1>0, <1>4, TryEffect
  <2>6. received'[w][s] \in {received[w][s], Append(received[w][s], hand[w])}
    BY <1>0, <1>4, TryEffect
  <2>7. CASE received'[w][s] = Append(received[w][s], hand[w])
    <3>1. Forward(w, s)!Due = hand[w]
      BY <2>2 DEF Forward!Due
    <3>2. Forward(w, s)!Reach
      <4>1. Forward(w, s)!Copies(hand[w]) < Retries
        BY <2>4 DEF Forward!Copies, Forward!Cardinality, Cardinality
      <4>2. /\ settled[w][s] < Len(accepted[w]) /\ received'[w][s] = Append(received[w][s], hand[w])
            /\ settled'[w][s] \in {settled[w][s], settled[w][s] + 1} /\ accepted' = accepted
        BY <1>2, <2>2, <2>5, <2>7
      <4> HIDE <2>4
      <4> QED BY <3>1, <4>1, <4>2 DEF Forward!Reach
    <3> QED BY <3>2 DEF Forward!Next
  <2>8. CASE received'[w][s] = received[w][s]
    BY <1>2, <2>2, <2>5, <2>8 DEF Forward!Next, Forward!GiveUp
  <2> QED BY <2>6, <2>7, <2>8
<1> QED BY <1>3, <1>4

LEMMA StepForwards ==
    ASSUME SinksInv, [Next]_vars, NEW w \in Workers, NEW s \in Sinks
    PROVE  [Forward(w, s)!Next]_<<accepted[w], settled[w][s], received[w][s]>>
<1>1. CASE UNCHANGED <<accepted, settled, received>>
  BY <1>1
<1>2. ASSUME NEW e \in Emitters, Enqueue(e), Put(held[e], <<e, emitted[e]>>)
      PROVE  [Forward(w, s)!Next]_<<accepted[w], settled[w][s], received[w][s]>>
  <2>1. <<e, emitted[e]>> \in Records
    BY <1>2, HeldRecord DEF SinksInv, Enqueue
  <2>2. accepted'[w] \in {accepted[w], Append(accepted[w], <<e, emitted[e]>>)}
    BY <1>2 DEF Put, SinksInv, TypeInv
  <2>3. UNCHANGED <<settled, received>>
    BY <1>2 DEF Enqueue
  <2> QED BY <2>1, <2>2, <2>3 DEF Forward!Next, Forward!Accept
<1>3. ASSUME NEW v \in Workers, Try(v)
      PROVE  [Forward(w, s)!Next]_<<accepted[w], settled[w][s], received[w][s]>>
  <2>1. CASE v = w
    BY <1>3, <2>1, TryForwards
  <2>2. CASE v # w
    <3>1. settled'[w] = settled[w] /\ received'[w] = received[w] /\ accepted' = accepted
      BY <1>3, <2>2, TryEffect DEF SinksInv, WorkerInv, Try, DeliverUnchanged
    <3> QED BY <3>1
  <2> QED BY <2>1, <2>2
<1>4. ASSUME NEW v \in Workers, Work(v)
      PROVE  UNCHANGED <<accepted, settled, received>> \/ Try(v)
  BY <1>4, SendsAreTries DEF Work, LoopHead, Get, SinksInv, WorkerInv
<1>5. ASSUME NEW e \in Emitters, Emit(e) \/ EmitGoesOn(e)
      PROVE  UNCHANGED <<accepted, settled, received>> \/ (Enqueue(e) /\ Put(held[e], <<e, emitted[e]>>))
  BY <1>5 DEF Emit, EmitGoesOn, LookUp, Enqueue
<1> QED
  BY <1>1, <1>2, <1>3, <1>4, <1>5 DEF Next, vars, Reload, AtExit, FlushReturns, JoinReturns, BeginClose

-----------------------------------------------------------------------------
(* The theorems.                                                           *)

\* The JSON Lines file "stays the source of truth" (sinks.py:3): what any collector has
\* received from any worker is a line of audit.jsonl, unless the disk refused
\* that line.
THEOREM FileFirstAlways == Spec => []FileFirst
<1>1. SinksInv => FileFirst
  <2> SUFFICES ASSUME SinksInv, NEW w \in Workers, NEW s \in Sinks, NEW k \in DOMAIN received[w][s]
               PROVE  Recorded(received[w][s][k])
    BY DEF FileFirst, Recorded
  <2>1. received[w][s] \in Seq(Records)
    BY DEF SinksInv, TypeInv
  <2>2. PICK i \in 1..Len(accepted[w]) : received[w][s][k] = accepted[w][i]
    BY <2>1 DEF SinksInv, WorkerInv, ReceivedInv
  <2> QED BY <2>2 DEF SinksInv, FileInv
<1> QED BY <1>1, SinksInvAlways, PTL

\* A flush that "returns True when drained" told the truth: every record the
\* queue had taken by then has been sent to or given up for every sink, the
\* one the thread had already taken off the queue included.
THEOREM FlushMeansSettledAlways == Spec => []FlushMeansSettled
<1>1. SinksInv => FlushMeansSettled
  <2> SUFFICES ASSUME SinksInv, NEW w \in Workers, NEW s \in Sinks PROVE settled[w][s] >= drained[w]
    BY DEF FlushMeansSettled
  <2>1. SettledInv(w) /\ DrainedInv(w) /\ Taken(w) \in Nat /\ drained[w] \in Nat
    BY DEF SinksInv, WorkerInv, QueueInv, TypeInv
  <2> QED BY <2>1 DEF SettledInv, DrainedInv
<1> QED BY <1>1, SinksInvAlways, PTL

\* Each worker keeps to each sink the promise of Forwarding: in the order of
\* acceptance, at most Retries tries an event, one settled before the next,
\* whatever the other sinks, the emitters and close() do meanwhile.
THEOREM KeepsPromiseAlways == Spec => KeepsPromise
<1>1. Init => \A w \in Workers, s \in Sinks : Forward(w, s)!Init
  BY DEF Init, Forward!Init
<1>2. SinksInv /\ [Next]_vars =>
        [\A w \in Workers, s \in Sinks :
            [Forward(w, s)!Next]_<<accepted[w], settled[w][s], received[w][s]>>]_vars
  BY StepForwards
<1> QED BY <1>1, <1>2, SinksInvAlways, PTL DEF Spec, KeepsPromise
================================================================================
