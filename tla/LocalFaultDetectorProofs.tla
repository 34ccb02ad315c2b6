----------------------- MODULE LocalFaultDetectorProofs -----------------------
(***************************************************************************)
(* What holds of LocalFaultDetector for any number of connections, any     *)
(* faults of the network and any process at the port of the replica.       *)
(***************************************************************************)
EXTENDS LocalFaultDetector, TLAPS

-----------------------------------------------------------------------------
(***************************************************************************)
(* The inductive invariant.                                                *)
(***************************************************************************)
\* The connections run and stop hold, by where run is.
HoldInv ==
    /\ loop = "awaiting" <=> reading # 0
    /\ loop = "awaiting" => cur \in {0, reading}
    /\ loop \in {"replacing", "opening", "dropping", "leaving", "done"}
          => cur = 0

\* Only a running replica serves, and one that runs is known to have run.
ServerInv ==
    /\ \A k \in Slots : handler[k] = "serving" => server = "up"
    /\ loop = "awaiting" /\ server = "up" => aliveSince

\* What is unread on a connection.
QueueInv ==
    \A k \in Slots :
        /\ Len(toServer[k]) <= 1
        /\ Len(toLfd[k]) <= 1
        /\ handler[k] = "none" => toServer[k] = <<>>
        /\ handler[k] = "serving" /\ toServer[k] # <<>> => toLfd[k] = <<>>
        /\ cur = k /\ reading # k =>
              /\ toServer[k] = <<>>
              /\ handler[k] = "serving" => toLfd[k] = <<>>

\* What the connection run reads from says of the heartbeat just sent.
AckInv ==
    \A k \in Slots :
        /\ handler[k] = "foreign" /\ toLfd[k] # <<>>
              => Head(toLfd[k]).source = "other"
        /\ cur = k /\ reading # k /\ toLfd[k] # <<>>  \* it is unsolicited
              => Head(toLfd[k]).source = "other"
        /\ reading = k /\ cur = k /\ handler[k] = "serving"
              /\ toServer[k] # <<>> => Head(toServer[k]) = sentCount
        /\ reading = k /\ toLfd[k] # <<>> =>
              \/ Head(toLfd[k]).source = "other"
              \/ Head(toLfd[k]).count = sentCount /\ aliveSince

IInv == TypeOK /\ HoldInv /\ ServerInv /\ QueueInv /\ AckInv

-----------------------------------------------------------------------------
\* Heartbeat counts stay in range when they start again.
LEMMA CountTypes ==
    1 \in 1..MaxCount /\ \A n \in 1..MaxCount : NextCount(n) \in 1..MaxCount
    BY ConstantsAssumption DEF NextCount

\* An empty stream.
LEMMA EmptyType == <<>> \in Seq(1..MaxCount) /\ <<>> \in Seq(Acks)
    OBVIOUS

\* What the replica and whatever else listens at its port answer.
LEMMA AckTypes ==
    \A n \in 1..MaxCount : /\ [source |-> "replica", count |-> n] \in Acks
                           /\ [source |-> "other", count |-> n] \in Acks
    BY DEF Acks

\* The parts of a stream that holds a message.
LEMMA HeadTailType ==
    ASSUME NEW S, NEW s \in Seq(S), s # <<>>
    PROVE  Head(s) \in S /\ Tail(s) \in Seq(S)
    OBVIOUS

\* A stream of one message is empty when it has been read.
LEMMA TailOfOne ==
    ASSUME NEW S, NEW s \in Seq(S), s # <<>>, Len(s) <= 1
    PROVE  Tail(s) = <<>>
  <1>1. Len(s) = 1
    <2>1. Len(s) \in Nat
      OBVIOUS
    <2>2. Len(s) # 0
      OBVIOUS
    <2> QED
      BY <2>1, <2>2
  <1>2. Tail(s) \in Seq(S)
    BY HeadTailType
  <1>3. Len(Tail(s)) = 0
    BY <1>1
  <1> QED
    BY <1>2, <1>3

\* A message written to an empty stream.
LEMMA WriteToEmpty ==
    ASSUME NEW x
    PROVE  /\ Append(<<>>, x) = <<x>>
           /\ Len(<<x>>) = 1
           /\ <<x>> # <<>>
           /\ Head(<<x>>) = x
    OBVIOUS

\* The length of an empty stream.
LEMMA EmptyLen == Len(<<>>) = 0
    OBVIOUS

\* Every step keeps the types.
LEMMA NextTypes ==
    ASSUME TypeOK, HoldInv, Next
    PROVE  TypeOK'
  <1> USE DEF TypeOK, HoldInv, Loops
  <1>1. CASE Wake
    <2>1. CASE cur # 0 /\ ~IsClosing(cur)
      <3>1. cur \in Slots
        BY <2>1
      <3>2. Append(toServer[cur], heartbeatCount) \in Seq(1..MaxCount)
        BY <3>1
      <3>3. toServer' \in [Slots -> Seq(1..MaxCount)]
        BY <1>1, <2>1, <3>1, <3>2 DEF Wake
      <3>4. heartbeatCount' \in 1..MaxCount /\ sentCount' \in 1..MaxCount
        BY <1>1, <2>1, CountTypes DEF Wake, WriteHeartbeat
      <3>5. aliveSince' \in BOOLEAN
        BY <1>1, <2>1 DEF Wake, WriteHeartbeat
      <3>6. /\ loop' \in Loops /\ reading' \in Slots \cup {0}
            /\ UNCHANGED <<calm, server, handler, link, toLfd, stop, cur,
                           healthy, sameServer>>
        BY <1>1, <2>1, <3>1 DEF Wake, WriteHeartbeat
      <3> QED
        BY <3>3, <3>4, <3>5, <3>6
    <2>2. CASE cur = 0 \/ IsClosing(cur)
      BY <1>1, <2>2, EmptyType DEF Wake, CloseLfdEnd, countVars
    <2> QED
      BY <2>1, <2>2
  <1>2. CASE Replaced
    BY <1>2 DEF Replaced, netVars, connVars, countVars, historyVars
  <1>3. CASE OpenFails
    BY <1>3 DEF OpenFails, HeartbeatFailed, Stopped, netVars, connVars,
           countVars, historyVars
  <1>4. ASSUME NEW k \in Slots, OpenSucceeds(k) PROVE TypeOK'
    BY <1>4, CountTypes DEF OpenSucceeds, WriteHeartbeat, Free
  <1>5. CASE AcceptAck
    BY <1>5 DEF AcceptAck, ValidAck, countVars
  <1>6. CASE RejectAck
    BY <1>6 DEF RejectAck, GiveUp, CloseLfdEnd, countVars, historyVars
  <1>7. CASE ReadFails
    BY <1>7 DEF ReadFails, GiveUp, CloseLfdEnd, countVars, historyVars
  <1>8. CASE DropCompletes
    BY <1>8 DEF DropCompletes, HeartbeatFailed, Stopped, netVars, connVars,
           countVars, historyVars
  <1>9. CASE Leave
    BY <1>9, EmptyType DEF Leave, CloseLfdEnd, Stopped, countVars, historyVars
  <1>10. CASE Left
    BY <1>10 DEF Left, netVars, connVars, countVars, historyVars
  <1>11. CASE Stop
    BY <1>11, EmptyType DEF Stop, countVars, historyVars
  <1>12. CASE StopReturns
    BY <1>12 DEF StopReturns, netVars, connVars, countVars, historyVars
  <1>13. CASE LfdRestarts
    BY <1>13, CountTypes, EmptyType DEF LfdRestarts, historyVars
  <1>14. ASSUME NEW k \in Slots, AnswerHeartbeat(k) PROVE TypeOK'
    <2>1. Head(toServer[k]) \in 1..MaxCount /\ Tail(toServer[k]) \in Seq(1..MaxCount)
      BY <1>14, HeadTailType DEF AnswerHeartbeat
    <2>2. toServer' \in [Slots -> Seq(1..MaxCount)]
      BY <1>14, <2>1 DEF AnswerHeartbeat
    <2>3. [source |-> "replica", count |-> Head(toServer[k])] \in Acks
      BY <2>1, AckTypes
    <2>4. toLfd' \in [Slots -> Seq(Acks)]
      BY <1>14, <2>3 DEF AnswerHeartbeat
    <2> QED
      BY <1>14, <2>2, <2>4 DEF AnswerHeartbeat, lfdVars, connVars, countVars,
             historyVars
  <1>15. ASSUME NEW k \in Slots, HandlerEnds(k) PROVE TypeOK'
    BY <1>15 DEF HandlerEnds, CloseServerEnd, lfdVars, historyVars, connVars,
           countVars
  <1>16. ASSUME NEW k \in Slots, RejectHeartbeat(k) PROVE TypeOK'
    BY <1>16 DEF RejectHeartbeat, CloseServerEnd, lfdVars, historyVars,
           connVars, countVars
  <1>17. ASSUME NEW k \in Slots, ForeignWrites(k) PROVE TypeOK'
    <2>1. PICK n \in 1..MaxCount :
             toLfd' = [toLfd EXCEPT ![k] = <<[source |-> "other", count |-> n]>>]
      BY <1>17 DEF ForeignWrites
    <2>2. [source |-> "other", count |-> n] \in Acks
      BY AckTypes
    <2>3. toLfd' \in [Slots -> Seq(Acks)]
      BY <2>1, <2>2
    <2> QED
      BY <1>17, <2>3 DEF ForeignWrites, lfdVars, connVars, countVars, historyVars
  <1>18. ASSUME NEW k \in Slots, LinkBreaks(k) PROVE TypeOK'
    <2>1. PICK fault \in Faults : link' = [link EXCEPT ![k] = fault]
      BY <1>18 DEF LinkBreaks
    <2>2. link' \in [Slots -> {"none", "up", "reset", "dead"}]
      BY <2>1, ConstantsAssumption
    <2> QED
      BY <1>18, <2>2 DEF LinkBreaks, lfdVars, connVars, countVars, historyVars
  <1>19. ASSUME NEW who \in {"up", "foreign"}, ServerStarts(who) PROVE TypeOK'
    BY <1>19 DEF ServerStarts, netVars, lfdVars, connVars, countVars
  <1>20. ASSUME NEW silent \in BOOLEAN, ServerExits(silent) PROVE TypeOK'
    BY <1>20, EmptyType DEF ServerExits, lfdVars, connVars, countVars
  <1>21. CASE Settle
    BY <1>21 DEF Settle, netVars, lfdVars, historyVars, connVars, countVars
  <1>22. ASSUME NEW k \in Slots, WriteFails(k) PROVE TypeOK'
    BY <1>22, EmptyLen, ConstantsAssumption DEF WriteFails, GoesOn, Stopped,
           IsClosing, CloseLfdEnd, countVars, historyVars
  <1>23. ASSUME NEW k \in Slots, FirstWriteFails(k) PROVE TypeOK'
    BY <1>23, EmptyLen, ConstantsAssumption DEF FirstWriteFails, Free,
           connVars, countVars, historyVars
  <1> QED
    BY <1>1, <1>2, <1>3, <1>4, <1>5, <1>6, <1>7, <1>8, <1>9, <1>10, <1>11,
           <1>12, <1>13, <1>14, <1>15, <1>16, <1>17, <1>18, <1>19, <1>20, <1>21,
           <1>22, <1>23
           DEF Next, Run, Handle

\* Every step keeps what run and stop hold.
LEMMA NextHolds ==
    ASSUME TypeOK, HoldInv, Next
    PROVE  HoldInv'
  <1> USE DEF TypeOK, HoldInv
  <1>1. CASE Wake
    BY <1>1, ConstantsAssumption DEF Wake, GoesOn, IsClosing, WriteHeartbeat,
           CloseLfdEnd, Stopped, countVars
  <1>2. CASE Replaced
    BY <1>2 DEF Replaced, netVars, connVars, countVars, historyVars
  <1>3. CASE OpenFails
    BY <1>3 DEF OpenFails, HeartbeatFailed, Stopped, netVars, connVars,
           countVars, historyVars
  <1>4. ASSUME NEW k \in Slots, OpenSucceeds(k) PROVE HoldInv'
    BY <1>4, ConstantsAssumption DEF OpenSucceeds, WriteHeartbeat, Free
  <1>5. CASE AcceptAck
    BY <1>5 DEF AcceptAck, ValidAck, countVars
  <1>6. CASE RejectAck
    BY <1>6 DEF RejectAck, GiveUp, CloseLfdEnd, countVars, historyVars
  <1>7. CASE ReadFails
    BY <1>7 DEF ReadFails, GiveUp, CloseLfdEnd, countVars, historyVars
  <1>8. CASE DropCompletes
    BY <1>8 DEF DropCompletes, HeartbeatFailed, Stopped, netVars, connVars,
           countVars, historyVars
  <1>9. CASE Leave
    BY <1>9 DEF Leave, CloseLfdEnd, Stopped, countVars, historyVars
  <1>10. CASE Left
    BY <1>10 DEF Left, netVars, connVars, countVars, historyVars
  <1>11. CASE Stop
    BY <1>11 DEF Stop, countVars, historyVars
  <1>12. CASE StopReturns
    BY <1>12 DEF StopReturns, netVars, connVars, countVars, historyVars
  <1>13. CASE LfdRestarts
    BY <1>13 DEF LfdRestarts, historyVars
  <1>14. ASSUME NEW k \in Slots, AnswerHeartbeat(k) PROVE HoldInv'
    BY <1>14 DEF AnswerHeartbeat, lfdVars, historyVars, connVars, countVars
  <1>15. ASSUME NEW k \in Slots, HandlerEnds(k) PROVE HoldInv'
    BY <1>15 DEF HandlerEnds, CloseServerEnd, lfdVars, historyVars, connVars,
           countVars
  <1>16. ASSUME NEW k \in Slots, RejectHeartbeat(k) PROVE HoldInv'
    BY <1>16 DEF RejectHeartbeat, CloseServerEnd, lfdVars, historyVars,
           connVars, countVars
  <1>17. ASSUME NEW k \in Slots, ForeignWrites(k) PROVE HoldInv'
    BY <1>17 DEF ForeignWrites, lfdVars, historyVars, connVars, countVars
  <1>18. ASSUME NEW k \in Slots, LinkBreaks(k) PROVE HoldInv'
    BY <1>18 DEF LinkBreaks, lfdVars, historyVars, connVars, countVars
  <1>19. ASSUME NEW who \in {"up", "foreign"}, ServerStarts(who) PROVE HoldInv'
    BY <1>19 DEF ServerStarts, netVars, lfdVars, connVars, countVars
  <1>20. ASSUME NEW silent \in BOOLEAN, ServerExits(silent) PROVE HoldInv'
    BY <1>20 DEF ServerExits, lfdVars, connVars, countVars
  <1>21. CASE Settle
    BY <1>21 DEF Settle, netVars, lfdVars, historyVars, connVars, countVars
  <1>22. ASSUME NEW k \in Slots, WriteFails(k) PROVE HoldInv'
    BY <1>22, EmptyLen, ConstantsAssumption DEF WriteFails, GoesOn, Stopped,
           IsClosing, CloseLfdEnd, countVars, historyVars
  <1>23. ASSUME NEW k \in Slots, FirstWriteFails(k) PROVE HoldInv'
    BY <1>23, EmptyLen, ConstantsAssumption DEF FirstWriteFails, Free,
           connVars, countVars, historyVars
  <1> QED
    BY <1>1, <1>2, <1>3, <1>4, <1>5, <1>6, <1>7, <1>8, <1>9, <1>10, <1>11,
           <1>12, <1>13, <1>14, <1>15, <1>16, <1>17, <1>18, <1>19, <1>20, <1>21,
           <1>22, <1>23
           DEF Next, Run, Handle

\* Every step keeps what is known of the server.
LEMMA NextServer ==
    ASSUME TypeOK, HoldInv, ServerInv, Next
    PROVE  ServerInv'
  <1> USE DEF TypeOK, HoldInv, ServerInv
  <1>1. CASE Wake
    BY <1>1 DEF Wake, GoesOn, IsClosing, WriteHeartbeat, CloseLfdEnd, Stopped,
           countVars
  <1>2. CASE Replaced
    BY <1>2 DEF Replaced, netVars, connVars, countVars, historyVars
  <1>3. CASE OpenFails
    BY <1>3 DEF OpenFails, HeartbeatFailed, Stopped, netVars, connVars,
           countVars, historyVars
  <1>4. ASSUME NEW k \in Slots, OpenSucceeds(k) PROVE ServerInv'
    BY <1>4 DEF OpenSucceeds, WriteHeartbeat, Free
  <1>5. CASE AcceptAck
    BY <1>5 DEF AcceptAck, ValidAck, countVars
  <1>6. CASE RejectAck
    BY <1>6 DEF RejectAck, GiveUp, CloseLfdEnd, countVars, historyVars
  <1>7. CASE ReadFails
    BY <1>7 DEF ReadFails, GiveUp, CloseLfdEnd, countVars, historyVars
  <1>8. CASE DropCompletes
    BY <1>8 DEF DropCompletes, HeartbeatFailed, Stopped, netVars, connVars,
           countVars, historyVars
  <1>9. CASE Leave
    BY <1>9 DEF Leave, CloseLfdEnd, Stopped, countVars, historyVars
  <1>10. CASE Left
    BY <1>10 DEF Left, netVars, connVars, countVars, historyVars
  <1>11. CASE Stop
    BY <1>11 DEF Stop, countVars, historyVars
  <1>12. CASE StopReturns
    BY <1>12 DEF StopReturns, netVars, connVars, countVars, historyVars
  <1>13. CASE LfdRestarts
    BY <1>13 DEF LfdRestarts, historyVars
  <1>14. ASSUME NEW k \in Slots, AnswerHeartbeat(k) PROVE ServerInv'
    BY <1>14 DEF AnswerHeartbeat, lfdVars, historyVars, connVars, countVars
  <1>15. ASSUME NEW k \in Slots, HandlerEnds(k) PROVE ServerInv'
    BY <1>15 DEF HandlerEnds, CloseServerEnd, lfdVars, historyVars, connVars,
           countVars
  <1>16. ASSUME NEW k \in Slots, RejectHeartbeat(k) PROVE ServerInv'
    BY <1>16 DEF RejectHeartbeat, CloseServerEnd, lfdVars, historyVars,
           connVars, countVars
  <1>17. ASSUME NEW k \in Slots, ForeignWrites(k) PROVE ServerInv'
    BY <1>17 DEF ForeignWrites, lfdVars, historyVars, connVars, countVars
  <1>18. ASSUME NEW k \in Slots, LinkBreaks(k) PROVE ServerInv'
    BY <1>18 DEF LinkBreaks, lfdVars, historyVars, connVars, countVars
  <1>19. ASSUME NEW who \in {"up", "foreign"}, ServerStarts(who) PROVE ServerInv'
    BY <1>19 DEF ServerStarts, netVars, lfdVars, connVars, countVars
  <1>20. ASSUME NEW silent \in BOOLEAN, ServerExits(silent) PROVE ServerInv'
    BY <1>20 DEF ServerExits, lfdVars, connVars, countVars
  <1>21. CASE Settle
    BY <1>21 DEF Settle, netVars, lfdVars, historyVars, connVars, countVars
  <1>22. ASSUME NEW k \in Slots, WriteFails(k) PROVE ServerInv'
    BY <1>22, EmptyLen, ConstantsAssumption DEF WriteFails, GoesOn, Stopped,
           IsClosing, CloseLfdEnd, countVars, historyVars
  <1>23. ASSUME NEW k \in Slots, FirstWriteFails(k) PROVE ServerInv'
    BY <1>23, EmptyLen, ConstantsAssumption DEF FirstWriteFails, Free,
           connVars, countVars, historyVars
  <1> QED
    BY <1>1, <1>2, <1>3, <1>4, <1>5, <1>6, <1>7, <1>8, <1>9, <1>10, <1>11,
           <1>12, <1>13, <1>14, <1>15, <1>16, <1>17, <1>18, <1>19, <1>20, <1>21,
           <1>22, <1>23
           DEF Next, Run, Handle

\* Every step keeps at most one message unread.
LEMMA NextQueues ==
    ASSUME TypeOK, HoldInv, QueueInv, AckInv, Next
    PROVE  QueueInv'
  <1> USE DEF TypeOK, HoldInv, QueueInv
  <1>1. CASE Wake
    <2>1. CASE cur # 0 /\ ~IsClosing(cur)
      <3>1. cur \in Slots /\ reading = 0 /\ cur # reading
        BY <1>1, <2>1 DEF Wake
      <3>2. toServer[cur] = <<>>
        BY <3>1
      <3>3. /\ reading' = cur /\ cur' = cur
            /\ handler' = handler /\ toLfd' = toLfd
        BY <1>1, <2>1 DEF Wake, WriteHeartbeat
      <3>4. toServer' = [toServer EXCEPT ![cur] =
                           IF handler[cur] = "none" THEN <<>>
                                                    ELSE <<heartbeatCount>>]
        BY <1>1, <2>1, <3>1, <3>2, WriteToEmpty DEF Wake
      <3> QED
        BY <3>1, <3>3, <3>4, EmptyLen, WriteToEmpty
    <2>2. CASE cur # 0 /\ IsClosing(cur)
      BY <1>1, <2>2, EmptyLen, ConstantsAssumption DEF Wake, CloseLfdEnd
    <2>3. CASE cur = 0
      BY <1>1, <2>3 DEF Wake
    <2> QED
      BY <2>1, <2>2, <2>3
  <1>2. CASE Replaced
    BY <1>2 DEF Replaced, netVars, connVars, countVars, historyVars
  <1>3. CASE OpenFails
    BY <1>3 DEF OpenFails, HeartbeatFailed, Stopped, netVars, connVars,
           countVars, historyVars
  <1>4. ASSUME NEW k \in Slots, OpenSucceeds(k) PROVE QueueInv'
    BY <1>4 DEF OpenSucceeds, WriteHeartbeat, Free
  <1>5. CASE AcceptAck
    <2>1. reading \in Slots
      BY <1>5 DEF AcceptAck
    <2>2. Tail(toLfd[reading]) = <<>>
      BY <1>5, <2>1, TailOfOne DEF AcceptAck
    <2>3. toLfd' = [toLfd EXCEPT ![reading] = <<>>]
      BY <1>5, <2>2 DEF AcceptAck
    <2>4. handler[reading] # "foreign"
      BY <1>5, <2>1 DEF AcceptAck, ValidAck, AckInv
    <2>5. toServer[reading] = <<>>
      BY <1>5, <2>1, <2>4 DEF AcceptAck
    <2>6. /\ cur' \in {0, reading} /\ reading' = 0 /\ cur' = cur
          /\ handler' = handler /\ toServer' = toServer
      BY <1>5 DEF AcceptAck
    <2> QED
      BY <2>1, <2>3, <2>5, <2>6, EmptyLen, ConstantsAssumption
  <1>6. CASE RejectAck
    BY <1>6 DEF RejectAck, GiveUp, CloseLfdEnd, countVars, historyVars
  <1>7. CASE ReadFails
    BY <1>7 DEF ReadFails, GiveUp, CloseLfdEnd, countVars, historyVars
  <1>8. CASE DropCompletes
    BY <1>8 DEF DropCompletes, HeartbeatFailed, Stopped, netVars, connVars,
           countVars, historyVars
  <1>9. CASE Leave
    BY <1>9 DEF Leave, CloseLfdEnd, Stopped, countVars, historyVars
  <1>10. CASE Left
    BY <1>10 DEF Left, netVars, connVars, countVars, historyVars
  <1>11. CASE Stop
    BY <1>11, EmptyLen, ConstantsAssumption DEF Stop, countVars, historyVars
  <1>12. CASE StopReturns
    BY <1>12 DEF StopReturns, netVars, connVars, countVars, historyVars
  <1>13. CASE LfdRestarts
    BY <1>13, EmptyLen DEF LfdRestarts, historyVars
  <1>14. ASSUME NEW k \in Slots, AnswerHeartbeat(k) PROVE QueueInv'
    BY <1>14 DEF AnswerHeartbeat, lfdVars, historyVars, connVars, countVars
  <1>15. ASSUME NEW k \in Slots, HandlerEnds(k) PROVE QueueInv'
    BY <1>15 DEF HandlerEnds, CloseServerEnd, lfdVars, historyVars, connVars,
           countVars
  <1>16. ASSUME NEW k \in Slots, RejectHeartbeat(k) PROVE QueueInv'
    BY <1>16 DEF RejectHeartbeat, CloseServerEnd, lfdVars, historyVars,
           connVars, countVars
  <1>17. ASSUME NEW k \in Slots, ForeignWrites(k) PROVE QueueInv'
    BY <1>17 DEF ForeignWrites, lfdVars, historyVars, connVars, countVars
  <1>18. ASSUME NEW k \in Slots, LinkBreaks(k) PROVE QueueInv'
    BY <1>18 DEF LinkBreaks, lfdVars, historyVars, connVars, countVars
  <1>19. ASSUME NEW who \in {"up", "foreign"}, ServerStarts(who) PROVE QueueInv'
    BY <1>19 DEF ServerStarts, netVars, lfdVars, connVars, countVars
  <1>20. ASSUME NEW silent \in BOOLEAN, ServerExits(silent) PROVE QueueInv'
    BY <1>20, EmptyLen DEF ServerExits, lfdVars, connVars, countVars
  <1>21. CASE Settle
    BY <1>21 DEF Settle, netVars, lfdVars, historyVars, connVars, countVars
  <1>22. ASSUME NEW k \in Slots, WriteFails(k) PROVE QueueInv'
    BY <1>22, EmptyLen, ConstantsAssumption DEF WriteFails, GoesOn, Stopped,
           IsClosing, CloseLfdEnd, countVars, historyVars
  <1>23. ASSUME NEW k \in Slots, FirstWriteFails(k) PROVE QueueInv'
    BY <1>23, EmptyLen, ConstantsAssumption DEF FirstWriteFails, Free,
           connVars, countVars, historyVars
  <1> QED
    BY <1>1, <1>2, <1>3, <1>4, <1>5, <1>6, <1>7, <1>8, <1>9, <1>10, <1>11,
           <1>12, <1>13, <1>14, <1>15, <1>16, <1>17, <1>18, <1>19, <1>20, <1>21,
           <1>22, <1>23
           DEF Next, Run, Handle

\* Every step keeps acks the answers to the last heartbeat.
LEMMA NextAcks ==
    ASSUME IInv, Next
    PROVE  AckInv'
  <1> USE DEF IInv, TypeOK, HoldInv, ServerInv, QueueInv, AckInv
  <1>1. CASE Wake
    <2>1. CASE cur # 0 /\ ~IsClosing(cur)
      <3>1. cur \in Slots /\ reading = 0 /\ cur # reading
        BY <1>1, <2>1 DEF Wake
      <3>2. toServer[cur] = <<>>
        BY <3>1
      <3>3. /\ reading' = cur /\ cur' = cur /\ sentCount' = heartbeatCount
            /\ handler' = handler /\ toLfd' = toLfd
        BY <1>1, <2>1 DEF Wake, WriteHeartbeat
      <3>4. toServer' = [toServer EXCEPT ![cur] =
                           IF handler[cur] = "none" THEN <<>>
                                                    ELSE <<heartbeatCount>>]
        BY <1>1, <2>1, <3>1, <3>2, WriteToEmpty DEF Wake
      <3> QED
        BY <3>1, <3>3, <3>4, WriteToEmpty
    <2>2. CASE cur # 0 /\ IsClosing(cur)
      <3>1. cur \in Slots /\ reading = 0
        BY <1>1, <2>2 DEF Wake
      <3>2. /\ cur' = 0 /\ reading' = 0 /\ handler' = handler
            /\ toLfd' = [toLfd EXCEPT ![cur] = <<>>]
        BY <1>1, <2>2, <3>1 DEF Wake, CloseLfdEnd
      <3> QED
        BY <3>1, <3>2, ConstantsAssumption
    <2>3. CASE cur = 0
      BY <1>1, <2>3, ConstantsAssumption DEF Wake, countVars
    <2> QED
      BY <2>1, <2>2, <2>3
  <1>2. CASE Replaced
    BY <1>2 DEF Replaced, netVars, connVars, countVars, historyVars
  <1>3. CASE OpenFails
    BY <1>3 DEF OpenFails, HeartbeatFailed, Stopped, netVars, connVars,
           countVars, historyVars
  <1>4. ASSUME NEW k \in Slots, OpenSucceeds(k) PROVE AckInv'
    BY <1>4, ConstantsAssumption DEF OpenSucceeds, WriteHeartbeat, Free
  <1>5. CASE AcceptAck
    <2>1. reading \in Slots
      BY <1>5 DEF AcceptAck
    <2>2. Tail(toLfd[reading]) = <<>>
      BY <1>5, <2>1, TailOfOne DEF AcceptAck
    <2>3. toLfd' = [toLfd EXCEPT ![reading] = <<>>]
      BY <1>5, <2>2 DEF AcceptAck
    <2>4. /\ cur' = cur /\ cur \in {0, reading} /\ reading' = 0
          /\ handler' = handler
      BY <1>5 DEF AcceptAck
    <2> QED
      BY <2>1, <2>3, <2>4, ConstantsAssumption
  <1>6. CASE RejectAck
    BY <1>6, ConstantsAssumption DEF RejectAck, GiveUp, CloseLfdEnd, countVars,
           historyVars
  <1>7. CASE ReadFails
    BY <1>7, ConstantsAssumption DEF ReadFails, GiveUp, CloseLfdEnd, countVars,
           historyVars
  <1>8. CASE DropCompletes
    BY <1>8 DEF DropCompletes, HeartbeatFailed, Stopped, netVars, connVars,
           countVars, historyVars
  <1>9. CASE Leave
    BY <1>9, ConstantsAssumption DEF Leave, CloseLfdEnd, Stopped, countVars,
           historyVars
  <1>10. CASE Left
    BY <1>10 DEF Left, netVars, connVars, countVars, historyVars
  <1>11. CASE Stop
    BY <1>11, ConstantsAssumption DEF Stop, countVars, historyVars
  <1>12. CASE StopReturns
    BY <1>12 DEF StopReturns, netVars, connVars, countVars, historyVars
  <1>13. CASE LfdRestarts
    BY <1>13, ConstantsAssumption DEF LfdRestarts, historyVars
  <1>14. ASSUME NEW k \in Slots, AnswerHeartbeat(k) PROVE AckInv'
    <2> DEFINE ack == [source |-> "replica", count |-> Head(toServer[k])]
    <2>1. /\ handler[k] = "serving" /\ toServer[k] # <<>>
          /\ toServer' = [toServer EXCEPT ![k] = Tail(@)]
          /\ toLfd' = [toLfd EXCEPT ![k] = IF cur = k THEN Append(@, ack)
                                                     ELSE @]
          /\ UNCHANGED <<handler, cur, reading, sentCount, aliveSince>>
      BY <1>14 DEF AnswerHeartbeat, lfdVars, connVars, countVars, historyVars
    <2>2. Tail(toServer[k]) = <<>>
      BY <2>1, TailOfOne
    <2>3. CASE cur = k
      <3>1. reading = k
        BY <2>1, <2>3
      <3>2. loop = "awaiting"
        BY <3>1, ConstantsAssumption
      <3>3. ack.count = sentCount /\ aliveSince
        BY <2>1, <2>3, <3>1, <3>2
      <3>4. toLfd' = [toLfd EXCEPT ![k] = <<ack>>]
        BY <2>1, <2>3, WriteToEmpty
      <3>5. Head(<<ack>>) = ack
        BY WriteToEmpty
      <3> HIDE DEF ack
      <3> QED
        BY <2>1, <2>2, <2>3, <3>1, <3>3, <3>4, <3>5
    <2>4. CASE cur # k
      <3>1. toLfd' = toLfd
        BY <2>1, <2>4
      <3> QED
        BY <2>1, <2>2, <2>4, <3>1
    <2> QED
      BY <2>3, <2>4
  <1>15. ASSUME NEW k \in Slots, HandlerEnds(k) PROVE AckInv'
    BY <1>15 DEF HandlerEnds, CloseServerEnd, lfdVars, historyVars, connVars,
           countVars
  <1>16. ASSUME NEW k \in Slots, RejectHeartbeat(k) PROVE AckInv'
    BY <1>16 DEF RejectHeartbeat, CloseServerEnd, lfdVars, historyVars,
           connVars, countVars
  <1>17. ASSUME NEW k \in Slots, ForeignWrites(k) PROVE AckInv'
    BY <1>17 DEF ForeignWrites, lfdVars, historyVars, connVars, countVars
  <1>18. ASSUME NEW k \in Slots, LinkBreaks(k) PROVE AckInv'
    BY <1>18 DEF LinkBreaks, lfdVars, historyVars, connVars, countVars
  <1>19. ASSUME NEW who \in {"up", "foreign"}, ServerStarts(who) PROVE AckInv'
    BY <1>19 DEF ServerStarts, netVars, lfdVars, connVars, countVars
  <1>20. ASSUME NEW silent \in BOOLEAN, ServerExits(silent) PROVE AckInv'
    BY <1>20 DEF ServerExits, lfdVars, connVars, countVars
  <1>21. CASE Settle
    BY <1>21 DEF Settle, netVars, lfdVars, historyVars, connVars, countVars
  <1>22. ASSUME NEW k \in Slots, WriteFails(k) PROVE AckInv'
    BY <1>22, EmptyLen, ConstantsAssumption DEF WriteFails, GoesOn, Stopped,
           IsClosing, CloseLfdEnd, countVars, historyVars
  <1>23. ASSUME NEW k \in Slots, FirstWriteFails(k) PROVE AckInv'
    BY <1>23, EmptyLen, ConstantsAssumption DEF FirstWriteFails, Free,
           connVars, countVars, historyVars
  <1> QED
    BY <1>1, <1>2, <1>3, <1>4, <1>5, <1>6, <1>7, <1>8, <1>9, <1>10, <1>11,
           <1>12, <1>13, <1>14, <1>15, <1>16, <1>17, <1>18, <1>19, <1>20, <1>21,
           <1>22, <1>23
           DEF Next, Run, Handle

-----------------------------------------------------------------------------
\* The LFD starts with no connection and nothing in flight.
LEMMA InitInv == Init => IInv
  <1> SUFFICES ASSUME Init PROVE IInv
    OBVIOUS
  <1>1. TypeOK
    <2>1. calm \in BOOLEAN /\ healthy \in BOOLEAN
      BY Zenon DEF Init
    <2>2. aliveSince \in BOOLEAN /\ sameServer \in BOOLEAN
      BY Zenon DEF Init
    <2>3. heartbeatCount \in 1..MaxCount /\ sentCount \in 1..MaxCount
      BY CountTypes DEF Init
    <2> QED
      BY <2>1, <2>2, <2>3, EmptyType DEF Init, TypeOK, Loops
  <1>2. HoldInv /\ ServerInv
    BY DEF Init, HoldInv, ServerInv
  <1>3. QueueInv /\ AckInv
    BY EmptyLen, ConstantsAssumption DEF Init, QueueInv, AckInv
  <1> QED
    BY <1>1, <1>2, <1>3 DEF IInv

\* A step that changes nothing keeps the invariant.
LEMMA StutterInv == IInv /\ UNCHANGED vars => IInv'
    BY DEF IInv, TypeOK, HoldInv, ServerInv, QueueInv, AckInv, vars, netVars,
           lfdVars, connVars, countVars, historyVars

\* Every step keeps the invariant.
LEMMA StepInv == IInv /\ [Next]_vars => IInv'
  <1>1. IInv /\ Next => IInv'
    BY NextTypes, NextHolds, NextServer, NextQueues, NextAcks DEF IInv
  <1> QED
    BY <1>1, StutterInv

(***************************************************************************)
(* The invariant holds: run, stop and the handlers leave at most one       *)
(* message on a connection, and an ack answers the last heartbeat.         *)
(***************************************************************************)
THEOREM Invariance == Spec => []IInv
    BY InitInv, StepInv, PTL DEF Spec

\* The variables of LocalFaultDetector keep their types.
THEOREM TypeCorrect == Spec => []TypeOK
  <1>1. IInv => TypeOK
    BY DEF IInv
  <1> QED
    BY <1>1, Invariance, PTL

(***************************************************************************)
(* A connection holds at most one heartbeat or ack, and none when a        *)
(* heartbeat is written: the awaits of write_message and close_writer in   *)
(* LfdApp never wait for the replica.                                      *)
(***************************************************************************)
THEOREM AtMostOneUnanswered == Spec => []OneUnanswered
  <1>1. IInv => OneUnanswered
    <2> SUFFICES ASSUME IInv, NEW k \in Slots
                 PROVE  /\ Len(toServer[k]) + Len(toLfd[k])
                              <= IF handler[k] = "foreign" THEN 2 ELSE 1
                        /\ cur = k /\ reading # k => toServer[k] = <<>>
      BY DEF OneUnanswered
    <2>1. /\ toServer[k] \in Seq(1..MaxCount) /\ toLfd[k] \in Seq(Acks)
          /\ handler[k] \in {"none", "serving", "foreign"}
      BY DEF IInv, TypeOK
    <2>2. /\ Len(toServer[k]) \in Nat /\ Len(toLfd[k]) \in Nat
          /\ Len(toServer[k]) # 0 => toServer[k] # <<>>
      BY <2>1, EmptyLen
    <2>3. /\ Len(toServer[k]) <= 1 /\ Len(toLfd[k]) <= 1
          /\ handler[k] # "foreign" /\ toServer[k] # <<>> => Len(toLfd[k]) = 0
          /\ cur = k /\ reading # k => toServer[k] = <<>>
      BY <2>1, EmptyLen DEF IInv, QueueInv
    <2>4. \A m, n \in Nat : /\ m <= 1 /\ n <= 1 => m + n <= 2
                            /\ m <= 1 /\ n = 0 => m + n <= 1
                            /\ m = 0 /\ n <= 1 => m + n <= 1
      OBVIOUS
    <2> QED
      BY <2>2, <2>3, <2>4
  <1> QED
    BY <1>1, Invariance, PTL

(***************************************************************************)
(* The count check of _validate_ack never refuses an ack of the replica.   *)
(***************************************************************************)
THEOREM AcksMatch == Spec => []AckMatchesHeartbeat
  <1>1. IInv => AckMatchesHeartbeat
    BY DEF IInv, TypeOK, AckInv, AckMatchesHeartbeat
  <1> QED
    BY <1>1, Invariance, PTL

(***************************************************************************)
(* LfdApp finds its replica healthy only if the replica was running after  *)
(* the heartbeat was sent.                                                 *)
(***************************************************************************)
THEOREM FreshHealth == Spec => HealthIsFresh
  <1>1. IInv /\ [Next]_vars => [AckAccepted => aliveSince]_vars
    <2> SUFFICES ASSUME IInv, Next, AckAccepted PROVE aliveSince
      OBVIOUS
    <2> USE DEF AckAccepted
    <2>1. CASE AcceptAck
      BY <2>1 DEF AcceptAck, ValidAck, IInv, TypeOK, HoldInv, AckInv
    <2>2. CASE Run /\ ~AcceptAck
      BY <2>2 DEF Run, Wake, Replaced, OpenFails, OpenSucceeds, WriteFails,
             FirstWriteFails, RejectAck,
             ReadFails, GiveUp, DropCompletes, Leave, Left
    <2>3. CASE Stop \/ StopReturns \/ LfdRestarts \/ Settle
      BY <2>3 DEF Stop, StopReturns, LfdRestarts, Settle, lfdVars
    <2>4. CASE \E k \in Slots : Handle(k) \/ ForeignWrites(k) \/ LinkBreaks(k)
      BY <2>4 DEF Handle, AnswerHeartbeat, HandlerEnds, RejectHeartbeat,
             ForeignWrites, LinkBreaks, lfdVars
    <2>5. CASE \/ \E who \in {"up", "foreign"} : ServerStarts(who)
               \/ \E silent \in BOOLEAN : ServerExits(silent)
      BY <2>5 DEF ServerStarts, ServerExits, lfdVars
    <2> QED
      BY <2>1, <2>2, <2>3, <2>4, <2>5 DEF Next
  <1> QED
    BY <1>1, Invariance, PTL DEF Spec, HealthIsFresh

(***************************************************************************)
(* LfdApp.stop, called at any await of run, never makes run report the     *)
(* failure of the replica.                                                 *)
(***************************************************************************)
THEOREM SilentStop == Spec => StopIsSilent
  <1>1. [Next]_vars => [Stopped /\ Stopped' /\ healthy => healthy']_vars
    <2> SUFFICES ASSUME Next, Stopped, Stopped', healthy PROVE healthy'
      OBVIOUS
    <2>1. CASE Run
      BY <2>1 DEF Run, Wake, Replaced, OpenFails, OpenSucceeds, WriteFails,
             FirstWriteFails, AcceptAck,
             RejectAck, ReadFails, DropCompletes, Leave, Left, HeartbeatFailed
    <2>2. CASE Stop \/ StopReturns \/ LfdRestarts \/ Settle
      BY <2>2 DEF Stop, StopReturns, LfdRestarts, Settle, lfdVars, Stopped
    <2>3. CASE \E k \in Slots : Handle(k) \/ ForeignWrites(k) \/ LinkBreaks(k)
      BY <2>3 DEF Handle, AnswerHeartbeat, HandlerEnds, RejectHeartbeat,
             ForeignWrites, LinkBreaks, lfdVars
    <2>4. CASE \/ \E who \in {"up", "foreign"} : ServerStarts(who)
               \/ \E silent \in BOOLEAN : ServerExits(silent)
      BY <2>4 DEF ServerStarts, ServerExits, lfdVars
    <2> QED
      BY <2>1, <2>2, <2>3, <2>4 DEF Next
  <1> QED
    BY <1>1, PTL DEF Spec, StopIsSilent

\* A run that has ended holds no connection, wherever stop found it.
THEOREM NothingStaysOpen == Spec => []NothingLeftOpen
  <1>1. IInv => NothingLeftOpen
    BY DEF IInv, HoldInv, NothingLeftOpen
  <1> QED
    BY <1>1, Invariance, PTL

-----------------------------------------------------------------------------
(***************************************************************************)
(* A healthy replica keeps its connection until the network resets it.     *)
(* Another one is opened only then or after a failure, so a connection to  *)
(* a healthy replica leads to the process that was found healthy, or to    *)
(* one started after a reset.                                              *)
(***************************************************************************)
NoticedInv ==
    /\ loop = "awaiting" /\ cur = 0 => Stopped
    /\ healthy /\ ~Stopped /\ loop = "pausing" => cur # 0
    /\ healthy /\ ~Stopped /\ loop \in {"replacing", "opening"} => sameServer
    /\ /\ healthy /\ ~Stopped /\ cur # 0
       /\ handler[cur] # "none" \/ link[cur] = "reset"
       => sameServer

\* Every step keeps the process behind a healthy replica's connection.
LEMMA NextNoticed ==
    ASSUME TypeOK, HoldInv, NoticedInv, Next
    PROVE  NoticedInv'
  <1> USE DEF TypeOK, HoldInv, NoticedInv, Stopped
  <1>1. CASE Wake
    BY <1>1 DEF Wake, GoesOn, IsClosing, WriteHeartbeat, CloseLfdEnd, Stopped,
           countVars
  <1>2. CASE Replaced
    BY <1>2 DEF Replaced, netVars, connVars, countVars, historyVars
  <1>3. CASE OpenFails
    BY <1>3 DEF OpenFails, HeartbeatFailed, netVars, connVars,
           countVars, historyVars
  <1>4. ASSUME NEW k \in Slots, OpenSucceeds(k) PROVE NoticedInv'
    BY <1>4 DEF OpenSucceeds, WriteHeartbeat, Free
  <1>5. CASE AcceptAck
    BY <1>5 DEF AcceptAck, ValidAck, countVars
  <1>6. CASE RejectAck
    BY <1>6 DEF RejectAck, GiveUp, CloseLfdEnd, countVars, historyVars
  <1>7. CASE ReadFails
    BY <1>7 DEF ReadFails, GiveUp, CloseLfdEnd, countVars, historyVars
  <1>8. CASE DropCompletes
    BY <1>8 DEF DropCompletes, HeartbeatFailed, netVars, connVars,
           countVars, historyVars
  <1>9. CASE Leave
    BY <1>9 DEF Leave, CloseLfdEnd, countVars, historyVars
  <1>10. CASE Left
    BY <1>10 DEF Left, netVars, connVars, countVars, historyVars
  <1>11. CASE Stop
    BY <1>11 DEF Stop, countVars, historyVars
  <1>12. CASE StopReturns
    BY <1>12 DEF StopReturns, netVars, connVars, countVars, historyVars
  <1>13. CASE LfdRestarts
    BY <1>13 DEF LfdRestarts, historyVars
  <1>14. ASSUME NEW k \in Slots, AnswerHeartbeat(k) PROVE NoticedInv'
    BY <1>14 DEF AnswerHeartbeat, lfdVars, historyVars, connVars, countVars
  <1>15. ASSUME NEW k \in Slots, HandlerEnds(k) PROVE NoticedInv'
    BY <1>15 DEF HandlerEnds, CloseServerEnd, lfdVars, historyVars, connVars,
           countVars
  <1>16. ASSUME NEW k \in Slots, RejectHeartbeat(k) PROVE NoticedInv'
    BY <1>16 DEF RejectHeartbeat, CloseServerEnd, lfdVars, historyVars,
           connVars, countVars
  <1>17. ASSUME NEW k \in Slots, ForeignWrites(k) PROVE NoticedInv'
    BY <1>17 DEF ForeignWrites, lfdVars, historyVars, connVars, countVars
  <1>18. ASSUME NEW k \in Slots, LinkBreaks(k) PROVE NoticedInv'
    BY <1>18, ConstantsAssumption DEF LinkBreaks, lfdVars, historyVars,
           connVars, countVars
  <1>19. ASSUME NEW who \in {"up", "foreign"}, ServerStarts(who) PROVE NoticedInv'
    BY <1>19 DEF ServerStarts, netVars, lfdVars, connVars, countVars
  <1>20. ASSUME NEW silent \in BOOLEAN, ServerExits(silent) PROVE NoticedInv'
    BY <1>20 DEF ServerExits, lfdVars, connVars, countVars
  <1>21. CASE Settle
    BY <1>21 DEF Settle, netVars, lfdVars, historyVars, connVars, countVars
  <1>22. ASSUME NEW k \in Slots, WriteFails(k) PROVE NoticedInv'
    BY <1>22, EmptyLen, ConstantsAssumption DEF WriteFails, GoesOn, Stopped,
           IsClosing, CloseLfdEnd, countVars, historyVars
  <1>23. ASSUME NEW k \in Slots, FirstWriteFails(k) PROVE NoticedInv'
    BY <1>23, EmptyLen, ConstantsAssumption DEF FirstWriteFails, Free,
           connVars, countVars, historyVars
  <1> QED
    BY <1>1, <1>2, <1>3, <1>4, <1>5, <1>6, <1>7, <1>8, <1>9, <1>10, <1>11,
           <1>12, <1>13, <1>14, <1>15, <1>16, <1>17, <1>18, <1>19, <1>20, <1>21,
           <1>22, <1>23
           DEF Next, Run, Handle

(***************************************************************************)
(* Every end of the process of the replica is noticed before another       *)
(* process answers, unless the connection was reset before.                *)
(***************************************************************************)
THEOREM RestartNoticed == Spec => RestartIsNoticed
  <1>1. Init => NoticedInv
    BY DEF Init, NoticedInv
  <1>2. IInv /\ NoticedInv /\ [Next]_vars => NoticedInv'
    <2>1. IInv /\ NoticedInv /\ Next => NoticedInv'
      BY NextNoticed DEF IInv
    <2>2. NoticedInv /\ UNCHANGED vars => NoticedInv'
      BY DEF NoticedInv, Stopped, vars, netVars, lfdVars, connVars, countVars,
             historyVars
    <2> QED
      BY <2>1, <2>2
  <1>3. IInv /\ NoticedInv /\ [Next]_vars =>
           [AckAccepted /\ healthy /\ ~Stopped /\ handler[reading] = "serving"
               => sameServer]_vars
    BY DEF IInv, TypeOK, HoldInv, NoticedInv, AckAccepted
  <1> QED
    BY <1>1, <1>2, <1>3, Invariance, PTL DEF Spec, RestartIsNoticed
=============================================================================
