--------------------------------- MODULE Syslog ---------------------------------
(***************************************************************************)
(* SyslogSink over TCP or TLS, below the granularity of AuditSinks: the     *)
(* connection the worker's thread keeps, the frames it writes into it, and  *)
(* close(), which the thread calls after a failure and SinkWorker.close     *)
(* calls from another thread, whether or not the sender has stopped.        *)
(*                                                                          *)
(* A connection is numbered when it is made.  Its stream is what the        *)
(* collector's side takes in: whole frames and pieces of one.               *)
(***************************************************************************)
EXTENDS Naturals, Sequences, FiniteSets

CONSTANTS
    NRecords,   \* bound: records the worker delivers
    Retries,
    MaxTroubles \* bound: outages of the collector and slow sends

ASSUME SyslogAssumption == NRecords \in Nat /\ Retries \in Nat \ {0} /\ MaxTroubles \in Nat

VARIABLES
    sock,      \* _sock: a connection, 0 for None
    mine,      \* the connection the send in progress got from _connect
    made,      \* connections made
    streams,   \* what the collector took in, per connection
    live,      \* connections with a collector at the other end
    closed,    \* connections this side has closed
    up,        \* the collector accepts connections
    record, attempt,  \* what the sender is at
    spc,       \* where the sender is
    cpc,       \* where SinkWorker.close is
    troubles,
    \* history
    arrived,   \* records that arrived whole, in order
    settled,   \* records done with
    unlucky,   \* records a trouble explains the loss of
    inTime     \* the sender had ended when the closer closed the sink

Connections == 1..(NRecords * Retries)
Threads == {"sender", "closer"}

collector == <<streams, live, up, troubles, arrived>>
vars == <<sock, mine, made, closed, record, attempt, spc, cpc, collector, settled, unlucky, inTime>>

Init ==
    /\ sock = 0 /\ mine = 0 /\ made = 0 /\ live = {} /\ closed = {}
    /\ streams = [c \in Connections |-> <<>>]
    /\ up = TRUE /\ troubles = 0
    /\ record = 0 /\ attempt = 1 /\ spc = "idle" /\ cpc = "none"
    /\ arrived = <<>> /\ settled = 0 /\ unlucky = {} /\ inTime = FALSE

\* The record being tried may be lost, and the code is not to blame.
Befallen == unlucky' = unlucky \cup {record}

-----------------------------------------------------------------------------
(* The collector and the network.                                          *)

\* It restarts or drops its clients; this side notices by a failing send.
GoesDown ==
    /\ up /\ troubles < MaxTroubles
    /\ up' = FALSE /\ live' = {} /\ troubles' = troubles + 1
    /\ Befallen
    /\ UNCHANGED <<sock, mine, made, streams, closed, record, attempt, spc, cpc, arrived, settled, inTime>>

ComesUp ==
    /\ ~up /\ up' = TRUE
    /\ UNCHANGED <<sock, mine, made, streams, live, closed, record, attempt, spc, cpc, troubles, arrived, settled, unlucky, inTime>>

-----------------------------------------------------------------------------
(* close(): the test, sock.close() on what _sock is by then, and finally.  *)

SenderAt(at) == spc' = at /\ UNCHANGED cpc
CloserAt(at) == cpc' = at /\ UNCHANGED spc
At(t, at) == IF t = "sender" THEN SenderAt(at) ELSE CloserAt(at)
Closing(t, at) == IF t = "sender" THEN spc = at ELSE cpc = at
Leaves(t) == IF t = "sender" THEN "failed" ELSE "done"

Tests(t) ==
    /\ Closing(t, "test")
    /\ At(t, IF sock = 0 THEN Leaves(t) ELSE "close")
    /\ UNCHANGED <<sock, mine, made, closed, record, attempt, collector, settled, unlucky, inTime>>

\* The other thread may have made it None meanwhile: AttributeError.
Closes(t) ==
    /\ Closing(t, "close")
    /\ closed' = closed \cup ({sock} \ {0})
    /\ IF t = "closer" THEN Befallen ELSE UNCHANGED unlucky
    /\ At(t, "clear")
    /\ UNCHANGED <<sock, mine, made, record, attempt, collector, settled, inTime>>

\* Mutant: no finally, a close that raises (a TLS shutdown on a dead
\* connection) leaves _sock as it is.
ClearedUnlessRaised == IF sock \in live THEN 0 ELSE sock
Cleared == 0

Clears(t) ==
    /\ Closing(t, "clear")
    /\ sock' = Cleared
    /\ At(t, Leaves(t))
    /\ UNCHANGED <<mine, made, closed, record, attempt, collector, settled, unlucky, inTime>>

Close(t) == Tests(t) \/ Closes(t) \/ Clears(t)

-----------------------------------------------------------------------------
(* send()                                                                  *)

Takes ==
    /\ spc = "idle" /\ record < NRecords
    /\ record' = record + 1 /\ attempt' = 1
    /\ SenderAt("connect")
    /\ UNCHANGED <<sock, mine, made, closed, collector, settled, unlucky, inTime>>

\* Mutant: every send connects.
NeverReusable == FALSE
Reusable == sock # 0

\* _connect hands out _sock, or None if that is cleared between its test and
\* its return, or connects.
Connects ==
    /\ spc = "connect"
    /\ \/ Reusable /\ mine' \in {sock} \cup (IF cpc = "clear" THEN {0} ELSE {}) /\ UNCHANGED <<sock, made, live>>
       \/ /\ ~Reusable /\ up
          /\ made' = made + 1 /\ mine' = made' /\ sock' = made' /\ live' = live \cup {made'}
    /\ SenderAt("send")
    /\ UNCHANGED <<streams, closed, up, record, attempt, troubles, arrived, settled, unlucky, inTime>>

\* Mutant: a send that fails keeps its connection.
KeepsConnection == SenderAt("failed")
GivesConnectionUp == SenderAt("test")

ConnectFails ==
    /\ spc = "connect" /\ ~Reusable /\ ~up
    /\ Befallen
    /\ GivesConnectionUp
    /\ UNCHANGED <<sock, mine, made, closed, record, attempt, collector, settled, inTime>>

\* sendall returns.  On a connection whose other end is gone it may, once,
\* before the reset is noticed: nothing arrives.
Sends ==
    /\ spc = "send" /\ mine \notin closed \cup {0}
    /\ IF mine \in live
       THEN /\ streams' = [streams EXCEPT ![mine] = Append(@, [rec |-> record, whole |-> TRUE])]
            /\ arrived' = Append(arrived, record)
            /\ UNCHANGED unlucky
       ELSE Befallen /\ UNCHANGED <<streams, arrived>>
    /\ settled' = record
    /\ SenderAt("idle")
    /\ UNCHANGED <<sock, mine, made, live, closed, up, record, attempt, troubles, inTime>>

\* sendall raises: the connection is dead, or was closed under it, or the
\* send ran into the timeout; part of the frame may have gone out.
SendBreaks ==
    /\ spc = "send"
    /\ IF mine \in live /\ mine \notin closed
       THEN troubles < MaxTroubles /\ troubles' = troubles + 1 /\ Befallen
       ELSE UNCHANGED <<troubles, unlucky>>
    /\ \/ /\ mine \in live
          /\ streams' = [streams EXCEPT ![mine] = Append(@, [rec |-> record, whole |-> FALSE])]
       \/ UNCHANGED streams
    /\ GivesConnectionUp
    /\ UNCHANGED <<sock, mine, made, live, closed, up, record, attempt, arrived, settled, inTime>>

\* _deliver: the next try, or the record is given up for this sink.
Retry ==
    /\ spc = "failed"
    /\ IF attempt < Retries
       THEN attempt' = attempt + 1 /\ SenderAt("connect") /\ UNCHANGED settled
       ELSE settled' = record /\ SenderAt("idle") /\ UNCHANGED attempt
    /\ UNCHANGED <<sock, mine, made, closed, record, collector, unlucky, inTime>>

-----------------------------------------------------------------------------
(* SinkWorker.close                                                        *)

Stops ==
    /\ cpc = "none" /\ CloserAt("join")
    /\ UNCHANGED <<sock, mine, made, closed, record, attempt, collector, settled, unlucky, inTime>>

\* The sender sees _stop; it may have been waiting in queue.get before.
SenderEnds ==
    /\ spc = "idle" /\ cpc # "none" /\ SenderAt("ended")
    /\ UNCHANGED <<sock, mine, made, closed, record, attempt, collector, settled, unlucky, inTime>>

\* join returns because the sender has ended, or because it takes too long.
Joins ==
    /\ cpc = "join" /\ CloserAt("test")
    /\ inTime' = (spc = "ended")
    /\ UNCHANGED <<sock, mine, made, closed, record, attempt, collector, settled, unlucky>>

-----------------------------------------------------------------------------

Next ==
    \/ GoesDown \/ ComesUp
    \/ Takes \/ Connects \/ ConnectFails \/ Sends \/ SendBreaks \/ Retry
    \/ Stops \/ SenderEnds \/ Joins
    \/ \E t \in Threads : Close(t)

Spec == Init /\ [][Next]_vars

-----------------------------------------------------------------------------
(* Properties.                                                             *)

\* Nothing follows a piece of a frame in a stream: a collector never reads
\* two records glued together, or a length that counts into the next record,
\* whatever breaks a send and whoever closes the socket under it.
FramesIntact ==
    \A c \in Connections : \A n \in DOMAIN streams[c] : streams[c][n].whole \/ n = Len(streams[c])

\* Two tries get over a connection that is found dead: a record is lost only if
\* the collector went down or refused while it was tried, the network took it
\* after the collector had gone, a send timed out, or the closer closed the
\* connection under it.
LossesHaveCause ==
    Retries >= 2 => \A r \in 1..settled : (\E n \in DOMAIN arrived : arrived[n] = r) \/ r \in unlucky

\* A sink closed after its sender ended keeps no connection open, whatever
\* failures and reconnects came before.
ClosedMeansClosed == (cpc = "done" /\ inTime) => 1..made \subseteq closed
================================================================================
