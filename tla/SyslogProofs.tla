------------------------------- MODULE SyslogProofs -------------------------------
(***************************************************************************)
(* Theorems about Syslog for any number of records, tries and troubles.    *)
(***************************************************************************)
EXTENDS Syslog, TLAPS

-----------------------------------------------------------------------------
(* The invariant.                                                          *)

Piece == [rec : Nat, whole : BOOLEAN]
TypeInv ==
    /\ made \in Nat /\ sock \in {0, made} /\ mine \in Nat
    /\ streams \in [Connections -> Seq(Piece)]
    /\ live \subseteq 1..made /\ closed \subseteq 1..made
    /\ up \in BOOLEAN /\ troubles \in Nat
    /\ record \in Nat /\ settled \in Nat /\ attempt \in 1..Retries
    /\ spc \in {"idle", "connect", "send", "test", "close", "clear", "failed", "ended"}
    /\ cpc \in {"none", "join", "test", "close", "clear", "done"}
    /\ arrived \in Seq(Nat) /\ unlucky \subseteq Nat /\ inTime \in BOOLEAN

Broken(c) == Len(streams[c]) > 0 /\ ~streams[c][Len(streams[c])].whole

\* A connection that a piece of a frame went into is on its way to be given
\* up, and the send in progress has another one.
BrokenInv ==
    /\ spc = "send" => mine \in {0, made}
    /\ \A c \in Connections : c > made => streams[c] = <<>>
    /\ \A c \in Connections : Broken(c) =>
          /\ sock = c => spc \in {"test", "close", "clear"}
          /\ spc = "send" => mine # c

\* Only the latest connection is open, and _sock is it, unless the closer
\* came before the sender had ended.
InTime == cpc \in {"none", "join"} \/ inTime
OpenInv ==
    /\ inTime => spc = "ended" /\ cpc \notin {"none", "join"}
    /\ InTime => \A c \in 1..made : c \in closed \/ c = sock
    /\ (spc = "clear" /\ cpc \in {"none", "join"}) \/ (cpc = "clear" /\ inTime) => sock \in closed \cup {0}
    /\ cpc = "done" /\ inTime => sock = 0

\* The second try of a record has a connection of its own, and fails only by
\* what befell it.
Failing == spc \in {"test", "close", "clear", "failed"}
TryInv ==
    /\ spc = "failed" \/ (spc = "connect" /\ attempt >= 2) => sock = 0
    /\ spc = "send" /\ attempt >= 2 /\ record \notin unlucky => mine \in live \ closed
    /\ Failing /\ attempt >= 2 => record \in unlucky
    /\ settled = IF spc \in {"idle", "ended"} THEN record ELSE record - 1

SyslogInv == TypeInv /\ FramesIntact /\ BrokenInv /\ OpenInv /\ TryInv /\ LossesHaveCause

-----------------------------------------------------------------------------
(* One lemma per part, one step per action.                                *)

LEMMA BefallenTyped ==
    ASSUME TypeInv, Befallen \/ UNCHANGED unlucky PROVE unlucky' \subseteq Nat
<1>1. record \in Nat /\ unlucky \subseteq Nat
  BY DEF TypeInv
<1>2. CASE Befallen
  BY <1>1, <1>2 DEF Befallen
<1> QED BY <1>1, <1>2

\* What a whole frame or a piece of one does to the streams.
LEMMA Written ==
    ASSUME TypeInv, NEW whole \in BOOLEAN,
           streams' = [streams EXCEPT ![mine] = Append(@, [rec |-> record, whole |-> whole])]
    PROVE  /\ streams' \in [Connections -> Seq(Piece)]
           /\ \A c \in Connections :
                 /\ c # mine => streams'[c] = streams[c]
                 /\ c = mine => /\ Len(streams[c]) \in Nat /\ Len(streams'[c]) = Len(streams[c]) + 1
                                /\ \A n \in 1..Len(streams[c]) : streams'[c][n] = streams[c][n]
                                /\ streams'[c][Len(streams[c]) + 1].whole = whole
<1> DEFINE piece == [rec |-> record, whole |-> whole]
<1>1. piece \in Piece /\ piece.whole = whole
  BY DEF TypeInv, Piece
<1> HIDE DEF piece
<1>2. \A s \in Seq(Piece) :
        /\ Append(s, piece) \in Seq(Piece) /\ Len(s) \in Nat /\ Len(Append(s, piece)) = Len(s) + 1
        /\ \A n \in 1..Len(s) : Append(s, piece)[n] = s[n]
        /\ Append(s, piece)[Len(s) + 1] = piece
  BY <1>1
<1>3. streams \in [Connections -> Seq(Piece)]
  BY DEF TypeInv
<1>4. streams' = [streams EXCEPT ![mine] = Append(@, piece)]
  BY DEF piece
<1>5. \A c \in Connections : streams'[c] = IF c = mine THEN Append(streams[c], piece) ELSE streams[c]
  BY <1>3, <1>4
<1>6. streams' \in [Connections -> Seq(Piece)]
  BY ZenonT(30), <1>2, <1>3, <1>4
<1> QED BY <1>1, <1>2, <1>3, <1>5, <1>6

LEMMA TypePreserved == ASSUME TypeInv, [Next]_vars PROVE TypeInv'
<1> USE SyslogAssumption
<1>0. CASE UNCHANGED vars
  BY <1>0 DEF vars, collector, TypeInv, Piece
<1>1. CASE GoesDown
  <2>1. live' \subseteq 1..made' /\ troubles' \in Nat
    BY <1>1 DEF GoesDown, TypeInv
  <2>2. up' \in BOOLEAN
    BY <1>1, Zenon DEF GoesDown
  <2>3. unlucky' \subseteq Nat
    BY <1>1, BefallenTyped DEF GoesDown
  <2> QED BY <1>1, <2>1, <2>2, <2>3 DEF GoesDown, TypeInv
<1>2. CASE ComesUp
  BY <1>2 DEF ComesUp, TypeInv, Piece
<1>3. CASE Takes
  BY <1>3 DEF Takes, SenderAt, collector, TypeInv, Piece
<1>4. CASE Connects
  <2>1. CASE Reusable
    <3>1. mine' \in {sock, 0} /\ UNCHANGED <<sock, made, live>>
      BY <1>4, <2>1 DEF Connects
    <3>2. mine' \in Nat
      BY <3>1 DEF TypeInv
    <3> QED BY <1>4, <3>1, <3>2 DEF Connects, SenderAt, TypeInv
  <2>2. CASE ~Reusable
    <3>1. /\ made' = made + 1 /\ mine' = made + 1 /\ sock' = made + 1 /\ live' = live \cup {made + 1}
      BY <1>4, <2>2 DEF Connects
    <3>2. made + 1 \in Nat /\ 1..made \subseteq 1..(made + 1) /\ made + 1 \in 1..(made + 1)
      BY DEF TypeInv
    <3>3. live' \subseteq 1..made' /\ closed' \subseteq 1..made'
      BY <1>4, <3>1, <3>2 DEF Connects, TypeInv
    <3> QED BY <1>4, <3>1, <3>2, <3>3 DEF Connects, SenderAt, TypeInv
  <2> QED BY <2>1, <2>2
<1>5. CASE ConnectFails
  BY <1>5 DEF ConnectFails, Befallen, GivesConnectionUp, SenderAt, Reusable, collector, TypeInv, Piece
<1>6. CASE Sends
  <2>1. streams' \in [Connections -> Seq(Piece)]
    <3>1. CASE mine \in live
      <4>1. streams' = [streams EXCEPT ![mine] = Append(@, [rec |-> record, whole |-> TRUE])]
        BY <1>6, <3>1 DEF Sends
      <4> QED BY <4>1, Written
    <3>2. CASE mine \notin live
      BY <1>6, <3>2 DEF Sends, TypeInv
    <3> QED BY <3>1, <3>2
  <2>3. arrived' \in Seq(Nat)
    <3>1. arrived \in Seq(Nat) /\ record \in Nat
      BY DEF TypeInv
    <3>2. arrived' = arrived \/ arrived' = Append(arrived, record)
      BY <1>6 DEF Sends
    <3> QED BY <3>1, <3>2
  <2>2. unlucky' \subseteq Nat
    BY <1>6, BefallenTyped DEF Sends
  <2> QED BY <1>6, <2>1, <2>2, <2>3 DEF Sends, SenderAt, TypeInv
<1>7. CASE SendBreaks
  <2>1. streams' \in [Connections -> Seq(Piece)]
    BY <1>7, Written DEF SendBreaks, TypeInv
  <2>2. unlucky' \subseteq Nat
    BY <1>7, BefallenTyped DEF SendBreaks
  <2>3. troubles' \in Nat
    BY <1>7 DEF SendBreaks, TypeInv
  <2> QED BY <1>7, <2>1, <2>2, <2>3 DEF SendBreaks, GivesConnectionUp, SenderAt, TypeInv
<1>8. CASE Retry
  BY <1>8 DEF Retry, SenderAt, collector, TypeInv, Piece
<1>9. CASE Stops
  BY <1>9 DEF Stops, CloserAt, collector, TypeInv, Piece
<1>10. CASE SenderEnds
  BY <1>10 DEF SenderEnds, SenderAt, collector, TypeInv, Piece
<1>11. CASE Joins
  BY <1>11 DEF Joins, CloserAt, collector, TypeInv, Piece
<1>12. CASE Tests("sender")
  BY <1>12 DEF Tests, Closing, Leaves, At, SenderAt, CloserAt, collector, TypeInv, Piece
<1>13. CASE Tests("closer")
  BY <1>13 DEF Tests, Closing, Leaves, At, SenderAt, CloserAt, collector, TypeInv, Piece
<1>14. CASE Closes("sender")
  <2>1. closed' \subseteq 1..made'
    BY <1>14 DEF Closes, collector, TypeInv
  <2>2. unlucky' \subseteq Nat
    BY <1>14, BefallenTyped DEF Closes
  <2> QED BY <1>14, <2>1, <2>2 DEF Closes, At, SenderAt, CloserAt, collector, TypeInv
<1>15. CASE Closes("closer")
  <2>1. closed' \subseteq 1..made'
    BY <1>15 DEF Closes, collector, TypeInv
  <2>2. unlucky' \subseteq Nat
    BY <1>15, BefallenTyped DEF Closes
  <2> QED BY <1>15, <2>1, <2>2 DEF Closes, At, SenderAt, CloserAt, collector, TypeInv
<1>16. CASE Clears("sender")
  BY <1>16 DEF Clears, Cleared, Closing, Leaves, At, SenderAt, CloserAt, collector, TypeInv, Piece
<1>17. CASE Clears("closer")
  BY <1>17 DEF Clears, Cleared, Closing, Leaves, At, SenderAt, CloserAt, collector, TypeInv, Piece
<1> QED
  BY <1>0, <1>1, <1>2, <1>3, <1>4, <1>5, <1>6, <1>7, <1>8, <1>9, <1>10, <1>11, <1>12, <1>13, <1>14, <1>15, <1>16, <1>17 DEF Next, Threads, Close

LEMMA OpenPreserved == ASSUME TypeInv, OpenInv, [Next]_vars PROVE OpenInv'
<1> USE SyslogAssumption
<1>0. CASE UNCHANGED vars
  BY <1>0 DEF vars, collector, TypeInv, OpenInv, InTime
<1>1. CASE GoesDown
  BY <1>1 DEF GoesDown, Befallen, TypeInv, OpenInv, InTime
<1>2. CASE ComesUp
  BY <1>2 DEF ComesUp, TypeInv, OpenInv, InTime
<1>3. CASE Takes
  BY <1>3 DEF Takes, SenderAt, collector, TypeInv, OpenInv, InTime
<1>4. CASE Connects
  BY <1>4 DEF Connects, SenderAt, Reusable, TypeInv, OpenInv, InTime
<1>5. CASE ConnectFails
  BY <1>5 DEF ConnectFails, Befallen, GivesConnectionUp, SenderAt, Reusable, collector, TypeInv, OpenInv, InTime
<1>6. CASE Sends
  BY <1>6 DEF Sends, Befallen, SenderAt, TypeInv, OpenInv, InTime
<1>7. CASE SendBreaks
  BY <1>7 DEF SendBreaks, Befallen, GivesConnectionUp, SenderAt, TypeInv, OpenInv, InTime
<1>8. CASE Retry
  BY <1>8 DEF Retry, SenderAt, collector, TypeInv, OpenInv, InTime
<1>9. CASE Stops
  BY <1>9 DEF Stops, CloserAt, collector, TypeInv, OpenInv, InTime
<1>10. CASE SenderEnds
  BY <1>10 DEF SenderEnds, SenderAt, collector, TypeInv, OpenInv, InTime
<1>11. CASE Joins
  BY <1>11 DEF Joins, CloserAt, collector, TypeInv, OpenInv, InTime
<1>12. CASE Tests("sender")
  BY <1>12 DEF Tests, Closing, Leaves, At, SenderAt, CloserAt, collector, TypeInv, OpenInv, InTime
<1>13. CASE Tests("closer")
  BY <1>13 DEF Tests, Closing, Leaves, At, SenderAt, CloserAt, collector, TypeInv, OpenInv, InTime
<1>14. CASE Closes("sender")
  BY <1>14 DEF Closes, Closing, Befallen, Leaves, At, SenderAt, CloserAt, collector, TypeInv, OpenInv, InTime
<1>15. CASE Closes("closer")
  BY <1>15 DEF Closes, Closing, Befallen, Leaves, At, SenderAt, CloserAt, collector, TypeInv, OpenInv, InTime
<1>16. CASE Clears("sender")
  BY <1>16 DEF Clears, Cleared, Closing, Leaves, At, SenderAt, CloserAt, collector, TypeInv, OpenInv, InTime
<1>17. CASE Clears("closer")
  BY <1>17 DEF Clears, Cleared, Closing, Leaves, At, SenderAt, CloserAt, collector, TypeInv, OpenInv, InTime
<1> QED
  BY <1>0, <1>1, <1>2, <1>3, <1>4, <1>5, <1>6, <1>7, <1>8, <1>9, <1>10, <1>11, <1>12, <1>13, <1>14, <1>15, <1>16, <1>17 DEF Next, Threads, Close

LEMMA TryPreserved == ASSUME TypeInv, TryInv, [Next]_vars PROVE TryInv'
<1> USE SyslogAssumption
<1>0. CASE UNCHANGED vars
  BY <1>0 DEF vars, collector, TypeInv, TryInv, Failing
<1>1. CASE GoesDown
  BY <1>1 DEF GoesDown, Befallen, TypeInv, TryInv, Failing
<1>2. CASE ComesUp
  BY <1>2 DEF ComesUp, TypeInv, TryInv, Failing
<1>3. CASE Takes
  BY <1>3 DEF Takes, SenderAt, collector, TypeInv, TryInv, Failing
<1>4. CASE Connects
  BY <1>4 DEF Connects, SenderAt, Reusable, TypeInv, TryInv, Failing
<1>5. CASE ConnectFails
  BY <1>5 DEF ConnectFails, Befallen, GivesConnectionUp, SenderAt, Reusable, collector, TypeInv, TryInv, Failing
<1>6. CASE Sends
  BY <1>6 DEF Sends, Befallen, SenderAt, TypeInv, TryInv, Failing
<1>7. CASE SendBreaks
  BY <1>7 DEF SendBreaks, Befallen, GivesConnectionUp, SenderAt, TypeInv, TryInv, Failing
<1>8. CASE Retry
  BY <1>8 DEF Retry, SenderAt, collector, TypeInv, TryInv, Failing
<1>9. CASE Stops
  BY <1>9 DEF Stops, CloserAt, collector, TypeInv, TryInv, Failing
<1>10. CASE SenderEnds
  BY <1>10 DEF SenderEnds, SenderAt, collector, TypeInv, TryInv, Failing
<1>11. CASE Joins
  BY <1>11 DEF Joins, CloserAt, collector, TypeInv, TryInv, Failing
<1>12. CASE Tests("sender")
  BY <1>12 DEF Tests, Closing, Leaves, At, SenderAt, CloserAt, collector, TypeInv, TryInv, Failing
<1>13. CASE Tests("closer")
  BY <1>13 DEF Tests, Closing, Leaves, At, SenderAt, CloserAt, collector, TypeInv, TryInv, Failing
<1>14. CASE Closes("sender")
  BY <1>14 DEF Closes, Closing, Befallen, Leaves, At, SenderAt, CloserAt, collector, TypeInv, TryInv, Failing
<1>15. CASE Closes("closer")
  BY <1>15 DEF Closes, Closing, Befallen, Leaves, At, SenderAt, CloserAt, collector, TypeInv, TryInv, Failing
<1>16. CASE Clears("sender")
  BY <1>16 DEF Clears, Cleared, Closing, Leaves, At, SenderAt, CloserAt, collector, TypeInv, TryInv, Failing
<1>17. CASE Clears("closer")
  BY <1>17 DEF Clears, Cleared, Closing, Leaves, At, SenderAt, CloserAt, collector, TypeInv, TryInv, Failing
<1> QED
  BY <1>0, <1>1, <1>2, <1>3, <1>4, <1>5, <1>6, <1>7, <1>8, <1>9, <1>10, <1>11, <1>12, <1>13, <1>14, <1>15, <1>16, <1>17 DEF Next, Threads, Close

LEMMA BrokenPreserved == ASSUME TypeInv, BrokenInv, [Next]_vars PROVE BrokenInv'
<1> USE SyslogAssumption
<1>0. CASE UNCHANGED vars
  BY <1>0 DEF vars, collector, TypeInv, BrokenInv, Broken
<1>1. CASE GoesDown
  BY <1>1 DEF GoesDown, Befallen, TypeInv, BrokenInv, Broken
<1>2. CASE ComesUp
  BY <1>2 DEF ComesUp, TypeInv, BrokenInv, Broken
<1>3. CASE Takes
  BY <1>3 DEF Takes, SenderAt, collector, TypeInv, BrokenInv, Broken
<1>4. CASE Connects
  <2>0. made \in Nat /\ sock \in {0, made} /\ \A c \in Connections : c \in Nat /\ c # 0
    BY DEF TypeInv, Connections
  <2>1. CASE Reusable
    BY <1>4, <2>0, <2>1 DEF Connects, SenderAt, Reusable, BrokenInv, Broken
  <2>2. CASE ~Reusable
    <3>1. made' = made + 1 /\ mine' = made + 1 /\ sock' = made + 1 /\ UNCHANGED streams /\ spc' = "send"
      BY <1>4, <2>2 DEF Connects, SenderAt
    <3>2. ASSUME NEW c \in Connections, c > made PROVE streams[c] = <<>> /\ ~Broken(c)
      <4>1. streams[c] = <<>> BY <3>2 DEF BrokenInv
      <4> QED BY <4>1 DEF Broken
    <3>3. \A c \in Connections : Broken(c)' => c # made + 1
      BY <2>0, <3>1, <3>2 DEF Broken
    <3>4. \A c \in Connections : c > made' => streams'[c] = <<>>
      BY <2>0, <3>1, <3>2
    <3> QED BY <3>1, <3>3, <3>4 DEF BrokenInv
  <2> QED BY <2>1, <2>2
<1>5. CASE ConnectFails
  BY <1>5 DEF ConnectFails, Befallen, GivesConnectionUp, SenderAt, Reusable, collector, TypeInv, BrokenInv, Broken
<1>6. CASE Sends
  BY <1>6 DEF Sends, Befallen, SenderAt, TypeInv, BrokenInv, Broken
<1>7. CASE SendBreaks
  BY <1>7 DEF SendBreaks, Befallen, GivesConnectionUp, SenderAt, TypeInv, BrokenInv, Broken
<1>8. CASE Retry
  BY <1>8 DEF Retry, SenderAt, collector, TypeInv, BrokenInv, Broken
<1>9. CASE Stops
  BY <1>9 DEF Stops, CloserAt, collector, TypeInv, BrokenInv, Broken
<1>10. CASE SenderEnds
  BY <1>10 DEF SenderEnds, SenderAt, collector, TypeInv, BrokenInv, Broken
<1>11. CASE Joins
  BY <1>11 DEF Joins, CloserAt, collector, TypeInv, BrokenInv, Broken
<1>12. CASE Tests("sender")
  <2>1. sock' \in {0, sock} /\ made' = made /\ mine' = mine /\ streams' = streams
        /\ (sock' # 0 => spc' = spc \/ spc' = "close") /\ (spc' = "send" => spc = "send")
    BY <1>12 DEF Tests, Closing, Leaves, At, SenderAt, collector
  <2>2. \A c \in Connections : c # 0 /\ Broken(c)' = Broken(c)
    BY <2>1 DEF Connections, Broken
  <2> QED BY <2>1, <2>2 DEF BrokenInv
<1>13. CASE Tests("closer")
  BY <1>13 DEF Tests, Closing, Leaves, At, SenderAt, CloserAt, collector, TypeInv, BrokenInv, Broken
<1>14. CASE Closes("sender")
  BY <1>14 DEF Closes, Closing, Befallen, Leaves, At, SenderAt, CloserAt, collector, TypeInv, BrokenInv, Broken
<1>15. CASE Closes("closer")
  BY <1>15 DEF Closes, Closing, Befallen, Leaves, At, SenderAt, CloserAt, collector, TypeInv, BrokenInv, Broken
<1>16. CASE Clears("sender")
  <2>1. sock' \in {0, sock} /\ made' = made /\ mine' = mine /\ streams' = streams
        /\ (sock' # 0 => spc' = spc \/ spc' = "close") /\ (spc' = "send" => spc = "send")
    BY <1>16 DEF Clears, Cleared, Closing, Leaves, At, SenderAt, collector
  <2>2. \A c \in Connections : c # 0 /\ Broken(c)' = Broken(c)
    BY <2>1 DEF Connections, Broken
  <2> QED BY <2>1, <2>2 DEF BrokenInv
<1>17. CASE Clears("closer")
  <2>1. sock' \in {0, sock} /\ made' = made /\ mine' = mine /\ streams' = streams
        /\ (sock' # 0 => spc' = spc \/ spc' = "close") /\ (spc' = "send" => spc = "send")
    BY <1>17 DEF Clears, Cleared, Closing, Leaves, At, CloserAt, collector
  <2>2. \A c \in Connections : c # 0 /\ Broken(c)' = Broken(c)
    BY <2>1 DEF Connections, Broken
  <2> QED BY <2>1, <2>2 DEF BrokenInv
<1> QED
  BY <1>0, <1>1, <1>2, <1>3, <1>4, <1>5, <1>6, <1>7, <1>8, <1>9, <1>10, <1>11, <1>12, <1>13, <1>14, <1>15, <1>16, <1>17 DEF Next, Threads, Close

LEMMA FramesPreserved == ASSUME TypeInv, BrokenInv, FramesIntact, [Next]_vars PROVE FramesIntact'
<1> USE SyslogAssumption
<1>0. CASE UNCHANGED vars
  BY <1>0 DEF vars, collector, TypeInv, BrokenInv, Broken, FramesIntact
<1>1. CASE GoesDown
  BY <1>1 DEF GoesDown, Befallen, TypeInv, BrokenInv, Broken, FramesIntact
<1>2. CASE ComesUp
  BY <1>2 DEF ComesUp, TypeInv, BrokenInv, Broken, FramesIntact
<1>3. CASE Takes
  BY <1>3 DEF Takes, SenderAt, collector, TypeInv, BrokenInv, Broken, FramesIntact
<1>4. CASE Connects
  BY <1>4 DEF Connects, SenderAt, Reusable, TypeInv, BrokenInv, Broken, FramesIntact
<1>5. CASE ConnectFails
  BY <1>5 DEF ConnectFails, Befallen, GivesConnectionUp, SenderAt, Reusable, collector, TypeInv, BrokenInv, Broken, FramesIntact
<1>6. CASE Sends
  <2>1. ASSUME NEW c \in Connections, NEW n \in DOMAIN streams'[c]
        PROVE  streams'[c][n].whole \/ n = Len(streams'[c])
    <3>1. streams[c] \in Seq(Piece) /\ (spc = "send" /\ c = mine => ~Broken(c))
      BY DEF TypeInv, BrokenInv
    <3>2. CASE streams' = streams
      BY <3>2 DEF FramesIntact
    <3>3. CASE streams' = [streams EXCEPT ![mine] = Append(@, [rec |-> record, whole |-> TRUE])]
      <4>1. CASE c # mine
        BY <3>3, <4>1, Written DEF FramesIntact
      <4>2. CASE c = mine
        <5>1. /\ Len(streams[c]) \in Nat /\ Len(streams'[c]) = Len(streams[c]) + 1
              /\ \A m \in 1..Len(streams[c]) : streams'[c][m] = streams[c][m]
              /\ streams'[c] \in Seq(Piece)
          BY <3>3, <4>2, Written
        <5>2. n \in 1..(Len(streams[c]) + 1)
          BY <5>1
        <5>3. n \in 1..Len(streams[c]) => streams[c][n].whole
          BY <1>6, <3>1, <4>2, <5>1 DEF Sends, FramesIntact, Broken
        <5> QED BY <5>1, <5>2, <5>3
      <4> QED BY <4>1, <4>2
    <3> QED BY <1>6, <3>2, <3>3 DEF Sends
  <2> QED BY <2>1 DEF FramesIntact
<1>7. CASE SendBreaks
  <2>1. ASSUME NEW c \in Connections, NEW n \in DOMAIN streams'[c]
        PROVE  streams'[c][n].whole \/ n = Len(streams'[c])
    <3>1. streams[c] \in Seq(Piece) /\ (spc = "send" /\ c = mine => ~Broken(c))
      BY DEF TypeInv, BrokenInv
    <3>2. CASE streams' = streams
      BY <3>2 DEF FramesIntact
    <3>3. CASE streams' = [streams EXCEPT ![mine] = Append(@, [rec |-> record, whole |-> FALSE])]
      <4>1. CASE c # mine
        BY <3>3, <4>1, Written DEF FramesIntact
      <4>2. CASE c = mine
        <5>1. /\ Len(streams[c]) \in Nat /\ Len(streams'[c]) = Len(streams[c]) + 1
              /\ \A m \in 1..Len(streams[c]) : streams'[c][m] = streams[c][m]
              /\ streams'[c] \in Seq(Piece)
          BY <3>3, <4>2, Written
        <5>2. n \in 1..(Len(streams[c]) + 1)
          BY <5>1
        <5>3. n \in 1..Len(streams[c]) => streams[c][n].whole
          BY <1>7, <3>1, <4>2, <5>1 DEF SendBreaks, FramesIntact, Broken
        <5> QED BY <5>1, <5>2, <5>3
      <4> QED BY <4>1, <4>2
    <3> QED BY <1>7, <3>2, <3>3 DEF SendBreaks
  <2> QED BY <2>1 DEF FramesIntact
<1>8. CASE Retry
  BY <1>8 DEF Retry, SenderAt, collector, TypeInv, BrokenInv, Broken, FramesIntact
<1>9. CASE Stops
  BY <1>9 DEF Stops, CloserAt, collector, TypeInv, BrokenInv, Broken, FramesIntact
<1>10. CASE SenderEnds
  BY <1>10 DEF SenderEnds, SenderAt, collector, TypeInv, BrokenInv, Broken, FramesIntact
<1>11. CASE Joins
  BY <1>11 DEF Joins, CloserAt, collector, TypeInv, BrokenInv, Broken, FramesIntact
<1>12. CASE Tests("sender")
  BY <1>12 DEF Tests, Closing, Leaves, At, SenderAt, CloserAt, collector, TypeInv, BrokenInv, Broken, FramesIntact
<1>13. CASE Tests("closer")
  BY <1>13 DEF Tests, Closing, Leaves, At, SenderAt, CloserAt, collector, TypeInv, BrokenInv, Broken, FramesIntact
<1>14. CASE Closes("sender")
  BY <1>14 DEF Closes, Closing, Befallen, Leaves, At, SenderAt, CloserAt, collector, TypeInv, BrokenInv, Broken, FramesIntact
<1>15. CASE Closes("closer")
  BY <1>15 DEF Closes, Closing, Befallen, Leaves, At, SenderAt, CloserAt, collector, TypeInv, BrokenInv, Broken, FramesIntact
<1>16. CASE Clears("sender")
  BY <1>16 DEF Clears, Cleared, Closing, Leaves, At, SenderAt, CloserAt, collector, TypeInv, BrokenInv, Broken, FramesIntact
<1>17. CASE Clears("closer")
  BY <1>17 DEF Clears, Cleared, Closing, Leaves, At, SenderAt, CloserAt, collector, TypeInv, BrokenInv, Broken, FramesIntact
<1> QED
  BY <1>0, <1>1, <1>2, <1>3, <1>4, <1>5, <1>6, <1>7, <1>8, <1>9, <1>10, <1>11, <1>12, <1>13, <1>14, <1>15, <1>16, <1>17 DEF Next, Threads, Close

LEMMA LossesPreserved == ASSUME TypeInv, TryInv, LossesHaveCause, [Next]_vars PROVE LossesHaveCause'
<1> USE SyslogAssumption
<1>0. CASE UNCHANGED vars
  BY <1>0 DEF vars, collector, TypeInv, TryInv, Failing, LossesHaveCause
<1>1. CASE GoesDown
  BY <1>1 DEF GoesDown, Befallen, TypeInv, TryInv, Failing, LossesHaveCause
<1>2. CASE ComesUp
  BY <1>2 DEF ComesUp, TypeInv, TryInv, Failing, LossesHaveCause
<1>3. CASE Takes
  BY <1>3 DEF Takes, SenderAt, collector, TypeInv, TryInv, Failing, LossesHaveCause
<1>4. CASE Connects
  BY <1>4 DEF Connects, SenderAt, Reusable, TypeInv, TryInv, Failing, LossesHaveCause
<1>5. CASE ConnectFails
  BY <1>5 DEF ConnectFails, Befallen, GivesConnectionUp, SenderAt, Reusable, collector, TypeInv, TryInv, Failing, LossesHaveCause
<1>6. CASE Sends
  <2>1. settled' = record /\ settled = record - 1 /\ record \in Nat /\ settled \in Nat
    BY <1>6 DEF Sends, TypeInv, TryInv
  <2>2. \A r \in Nat : (\E n \in DOMAIN arrived : arrived[n] = r) => \E n \in DOMAIN arrived' : arrived'[n] = r
    <3>1. arrived \in Seq(Nat) /\ record \in Nat
      BY DEF TypeInv
    <3>2. CASE arrived' = arrived
      BY <3>2
    <3>3. CASE arrived' = Append(arrived, record)
      <4>1. \A n \in DOMAIN arrived : n \in DOMAIN arrived' /\ arrived'[n] = arrived[n]
        BY <3>1, <3>3
      <4> QED BY <4>1
    <3> QED BY <1>6, <3>2, <3>3 DEF Sends
  <2>3. (\E n \in DOMAIN arrived' : arrived'[n] = record) \/ record \in unlucky'
    <3>1. CASE mine \in live
      <4>1. arrived' = Append(arrived, record) /\ arrived \in Seq(Nat)
        BY <1>6, <3>1 DEF Sends, TypeInv
      <4>2. Len(arrived) + 1 \in DOMAIN arrived' /\ arrived'[Len(arrived) + 1] = record
        BY <2>1, <4>1
      <4> QED BY <4>2
    <3>2. CASE mine \notin live
      BY <1>6, <3>2 DEF Sends, Befallen
    <3> QED BY <3>1, <3>2
  <2>4. \A r \in 1..settled' : r \in 1..settled \/ r = record
    BY <2>1
  <2>5. unlucky \subseteq unlucky'
    BY <1>6 DEF Sends, Befallen
  <2> QED BY <2>2, <2>3, <2>4, <2>5 DEF LossesHaveCause
<1>7. CASE SendBreaks
  BY <1>7 DEF SendBreaks, Befallen, GivesConnectionUp, SenderAt, TypeInv, TryInv, Failing, LossesHaveCause
<1>8. CASE Retry
  BY <1>8 DEF Retry, SenderAt, collector, TypeInv, TryInv, Failing, LossesHaveCause
<1>9. CASE Stops
  BY <1>9 DEF Stops, CloserAt, collector, TypeInv, TryInv, Failing, LossesHaveCause
<1>10. CASE SenderEnds
  BY <1>10 DEF SenderEnds, SenderAt, collector, TypeInv, TryInv, Failing, LossesHaveCause
<1>11. CASE Joins
  BY <1>11 DEF Joins, CloserAt, collector, TypeInv, TryInv, Failing, LossesHaveCause
<1>12. CASE Tests("sender")
  BY <1>12 DEF Tests, Closing, Leaves, At, SenderAt, CloserAt, collector, TypeInv, TryInv, Failing, LossesHaveCause
<1>13. CASE Tests("closer")
  BY <1>13 DEF Tests, Closing, Leaves, At, SenderAt, CloserAt, collector, TypeInv, TryInv, Failing, LossesHaveCause
<1>14. CASE Closes("sender")
  BY <1>14 DEF Closes, Closing, Befallen, Leaves, At, SenderAt, CloserAt, collector, TypeInv, TryInv, Failing, LossesHaveCause
<1>15. CASE Closes("closer")
  BY <1>15 DEF Closes, Closing, Befallen, Leaves, At, SenderAt, CloserAt, collector, TypeInv, TryInv, Failing, LossesHaveCause
<1>16. CASE Clears("sender")
  BY <1>16 DEF Clears, Cleared, Closing, Leaves, At, SenderAt, CloserAt, collector, TypeInv, TryInv, Failing, LossesHaveCause
<1>17. CASE Clears("closer")
  BY <1>17 DEF Clears, Cleared, Closing, Leaves, At, SenderAt, CloserAt, collector, TypeInv, TryInv, Failing, LossesHaveCause
<1> QED
  BY <1>0, <1>1, <1>2, <1>3, <1>4, <1>5, <1>6, <1>7, <1>8, <1>9, <1>10, <1>11, <1>12, <1>13, <1>14, <1>15, <1>16, <1>17 DEF Next, Threads, Close

-----------------------------------------------------------------------------
(* The invariant holds of every behaviour.                                 *)

LEMMA SyslogInvInit == Init => SyslogInv
<1> SUFFICES ASSUME Init PROVE SyslogInv
  OBVIOUS
<1> USE SyslogAssumption
<1>1. \A c \in Connections : streams[c] = <<>>
  BY DEF Init
<1>2. streams \in [Connections -> Seq(Piece)] /\ arrived \in Seq(Nat)
  BY DEF Init
<1>3. up \in BOOLEAN /\ inTime \in BOOLEAN
  BY Zenon DEF Init
<1>4. TypeInv
  BY <1>2, <1>3 DEF Init, TypeInv
<1>5. FramesIntact
  BY <1>1 DEF FramesIntact
<1>6. BrokenInv
  BY <1>1 DEF Init, BrokenInv, Broken
<1>7. OpenInv
  BY DEF Init, OpenInv
<1>8. TryInv
  BY DEF Init, TryInv, Failing
<1>9. LossesHaveCause
  BY DEF Init, LossesHaveCause
<1> QED BY <1>4, <1>5, <1>6, <1>7, <1>8, <1>9 DEF SyslogInv

LEMMA SyslogInvNext == SyslogInv /\ [Next]_vars => SyslogInv'
BY TypePreserved, FramesPreserved, BrokenPreserved, OpenPreserved, TryPreserved, LossesPreserved DEF SyslogInv

LEMMA SyslogInvAlways == Spec => []SyslogInv
BY SyslogInvInit, SyslogInvNext, PTL DEF Spec

\* Whatever breaks a send, and whoever closes the socket under it, nothing
\* is written behind a piece of a frame: the connection is given up first
\* (sinks.py, SyslogSink.send and close).
THEOREM FramesIntactAlways == Spec => []FramesIntact
<1>1. SyslogInv => FramesIntact
  BY DEF SyslogInv
<1> QED BY <1>1, SyslogInvAlways, PTL

\* With two tries or more a record the worker is done with has arrived, or an
\* outage, a slow send or the closer befell it, or sendall returned on a
\* connection whose other end was gone: one that the send finds dead costs a
\* try and no record, one that still takes the frame costs it (_deliver).
THEOREM LossesHaveCauseAlways == Spec => []LossesHaveCause
<1>1. SyslogInv => LossesHaveCause
  BY DEF SyslogInv
<1> QED BY <1>1, SyslogInvAlways, PTL

\* SinkWorker.close, when its join saw the thread end, leaves no connection
\* open: at most the last one was, and _sock is that one.
THEOREM ClosedMeansClosedAlways == Spec => []ClosedMeansClosed
<1>1. SyslogInv => ClosedMeansClosed
  <2> SUFFICES ASSUME SyslogInv, cpc = "done", inTime PROVE 1..made \subseteq closed
    BY DEF ClosedMeansClosed
  <2>1. sock = 0 /\ \A c \in 1..made : c \in closed \/ c = sock
    BY DEF SyslogInv, OpenInv, InTime
  <2>2. \A c \in 1..made : c # 0
    BY DEF SyslogInv, TypeInv
  <2> QED BY <2>1, <2>2
<1> QED BY <1>1, SyslogInvAlways, PTL
================================================================================
