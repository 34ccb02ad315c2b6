--------------------------- MODULE MembershipProofs ---------------------------
(***************************************************************************)
(* What holds of Membership for every set of LFDs, whatever their peers    *)
(* send, and every bound.                                                  *)
(***************************************************************************)
EXTENDS Membership, TLAPS

-----------------------------------------------------------------------------
(***************************************************************************)
(* Types.                                                                  *)
(***************************************************************************)
\* What the two ends write are messages of the protocol.
LEMMA MessageTypes ==
    /\ \A h \in BOOLEAN : Report("register", h) \in Messages
    /\ \A h \in BOOLEAN : Report("membership", h) \in Messages
    /\ \A n \in 1..MaxCount : HeartbeatAck(n) \in Messages
    BY DEF Messages

\* Heartbeat counts stay in range when they start again.
LEMMA CountTypes == 1 \in 1..MaxCount /\ \A n \in 1..MaxCount :
                        (n % MaxCount) + 1 \in 1..MaxCount
    BY BoundsAssumption

\* _update keeps the members among the configured replicas.
LEMMA UpdatedType ==
    ASSUME TypeOK, NEW l \in Lfds, NEW h
    PROVE  Updated(l, h) \subseteq Servers
    BY DEF TypeOK, Updated, Servers

\* An update of one connection of a family of connections.
LEMMA PutType ==
    ASSUME NEW S, NEW f \in [Lfds -> [Slots -> S]], NEW l \in Lfds, NEW k,
           NEW v, k \in Slots => v \in S
    PROVE  [f EXCEPT ![l][k] = v] \in [Lfds -> [Slots -> S]]
    OBVIOUS

\* An empty stream.
LEMMA EmptyType == <<>> \in Seq(Messages) /\ <<>> \in Seq(1..MaxCount)
    OBVIOUS

\* The parts of a queue.
LEMMA HeadTailType ==
    ASSUME NEW S, NEW queue \in Seq(S), queue # <<>>
    PROVE  Head(queue) \in S /\ Tail(queue) \in Seq(S)
    OBVIOUS

\* Init establishes the types.
LEMMA InitTypes == Init => TypeOK
  <1> SUFFICES ASSUME Init PROVE TypeOK
    OBVIOUS
  <1> USE DEF Init, ForEachLfd, ForEachConnection
  <1>1. /\ link \in [Lfds -> [Slots -> {"none", "up", "reset", "dead"}]]
        /\ toGfd \in [Lfds -> [Slots -> Seq(Messages)]]
        /\ toLfd \in [Lfds -> [Slots -> Seq(1..MaxCount)]]
    OBVIOUS
  <1>2. calm \in BOOLEAN /\ gfdUp \in BOOLEAN
    BY Zenon
  <1>3. /\ healthy \in [Lfds -> BOOLEAN]
        /\ changed \in [Lfds -> BOOLEAN]
        /\ report \in [Lfds -> BOOLEAN]
    OBVIOUS
  <1>4. /\ reporter \in [Lfds -> Reporters]
        /\ sender \in [Lfds -> Tasks]
        /\ receiver \in [Lfds -> Tasks]
        /\ cur \in [Lfds -> Slots \cup {0}]
        /\ answer \in [Lfds -> 1..MaxCount]
    BY CountTypes DEF Reporters, Tasks
  <1>5. /\ handler \in [Lfds -> [Slots -> Handlers]]
        /\ count \in [Lfds -> [Slots -> 1..MaxCount]]
        /\ session \in [Lfds -> Slots \cup {0}]
        /\ members \subseteq Servers
    BY CountTypes DEF Handlers
  <1> QED
    BY <1>1, <1>2, <1>3, <1>4, <1>5 DEF TypeOK

\* A reporter with a connection has one of the slots.
HasConnection ==
    \A l \in Lfds : reporter[l] \in {"registering", "running", "closing"}
                        => cur[l] # 0

TypeInv == TypeOK /\ HasConnection

\* A message that is written keeps the types of the queue.
LEMMA WriteTypes ==
    ASSUME TypeOK, NEW l \in Lfds, cur[l] \in Slots, NEW m \in Messages
    PROVE  [toGfd EXCEPT ![l][cur[l]] = Append(@, m)]
                \in [Lfds -> [Slots -> Seq(Messages)]]
  <1>1. toGfd \in [Lfds -> [Slots -> Seq(Messages)]]
    BY DEF TypeOK
  <1>2. Append(toGfd[l][cur[l]], m) \in Seq(Messages)
    BY <1>1
  <1> QED
    BY <1>1, <1>2, PutType

\* A report keeps the types.
LEMMA WriteReportTypes ==
    ASSUME TypeOK, NEW l \in Lfds, cur[l] \in Slots, NEW h \in BOOLEAN,
           WriteReport(l, h)
    PROVE  /\ toGfd' \in [Lfds -> [Slots -> Seq(Messages)]]
           /\ sender' \in [Lfds -> Tasks]
  <1>1. Report("membership", h) \in Messages
    BY MessageTypes
  <1>2. toGfd' \in [Lfds -> [Slots -> Seq(Messages)]]
    BY <1>1, WriteTypes DEF WriteReport
  <1>3. sender' \in [Lfds -> Tasks]
    BY DEF TypeOK, WriteReport, AfterWrite, Tasks
  <1> QED
    BY <1>2, <1>3

\* An ack keeps the types.
LEMMA WriteAckTypes ==
    ASSUME TypeOK, NEW l \in Lfds, cur[l] \in Slots, NEW n \in 1..MaxCount,
           WriteAck(l, n)
    PROVE  /\ toGfd' \in [Lfds -> [Slots -> Seq(Messages)]]
           /\ receiver' \in [Lfds -> Tasks]
  <1>1. HeartbeatAck(n) \in Messages
    BY MessageTypes
  <1>2. toGfd' \in [Lfds -> [Slots -> Seq(Messages)]]
    BY <1>1, WriteTypes DEF WriteAck
  <1>3. receiver' \in [Lfds -> Tasks]
    BY DEF TypeOK, WriteAck, AfterWrite, Tasks
  <1> QED
    BY <1>2, <1>3

\* A step of a reporter keeps the types.
LEMMA LfdStepTypes ==
    ASSUME TypeInv, NEW l \in Lfds, LfdStep(l)
    PROVE  TypeInv'
  <1> USE DEF TypeInv, TypeOK, HasConnection, Reporters, Tasks
  <1>0. reporter[l] \in {"registering", "running", "closing"} => cur[l] \in Slots
    OBVIOUS
  <1>1. CASE OpenFails(l)
    BY <1>1 DEF OpenFails, netVars, healthVars, taskVars, gfdVars
  <1>2. CASE Registered(l)
    BY <1>2 DEF Registered, netVars, healthVars, taskVars, gfdVars
  <1>3. CASE ReportChanges(l)
    <2>1. /\ toGfd' \in [Lfds -> [Slots -> Seq(Messages)]]
          /\ sender' \in [Lfds -> Tasks]
      <3>1. CASE WriteReport(l, healthy[l])
        <4>1. healthy[l] \in BOOLEAN
          OBVIOUS
        <4> QED
          BY <1>0, <1>3, <3>1, <4>1, WriteReportTypes DEF ReportChanges
      <3>2. CASE UNCHANGED toGfd /\ sender' = [sender EXCEPT ![l] = "blocked"]
        BY <3>2
      <3> QED
        BY <1>3, <3>1, <3>2 DEF ReportChanges
    <2>2. /\ report' \in [Lfds -> BOOLEAN]
          /\ changed' \in [Lfds -> BOOLEAN]
      BY <1>3 DEF ReportChanges
    <2> QED
      BY <1>3, <2>1, <2>2 DEF ReportChanges, reporterVars, gfdVars
  <1>4. CASE AnswerHeartbeat(l)
    <2> DEFINE n == Head(toLfd[l][cur[l]])
    <2>1. cur[l] \in Slots
      BY <1>0, <1>4 DEF AnswerHeartbeat
    <2>2. toLfd[l][cur[l]] \in Seq(1..MaxCount) /\ toLfd[l][cur[l]] # <<>>
      BY <1>4, <2>1 DEF AnswerHeartbeat
    <2>3. n \in 1..MaxCount /\ Tail(toLfd[l][cur[l]]) \in Seq(1..MaxCount)
      BY <2>2, HeadTailType
    <2>4. /\ toGfd' \in [Lfds -> [Slots -> Seq(Messages)]]
          /\ receiver' \in [Lfds -> Tasks]
          /\ answer' \in [Lfds -> 1..MaxCount]
      <3>1. CASE WriteAck(l, n) /\ UNCHANGED answer
        BY <2>1, <2>3, <3>1, WriteAckTypes
      <3>2. CASE /\ answer' = [answer EXCEPT ![l] = n]
                 /\ receiver' = [receiver EXCEPT ![l] = "blocked"]
                 /\ UNCHANGED toGfd
        BY <2>3, <3>2
      <3> QED
        BY <1>4, <3>1, <3>2 DEF AnswerHeartbeat
    <2>5. toLfd' \in [Lfds -> [Slots -> Seq(1..MaxCount)]]
      BY <1>4, <2>3, PutType DEF AnswerHeartbeat
    <2> QED
      BY <1>4, <2>4, <2>5
      DEF AnswerHeartbeat, healthVars, reporterVars, gfdVars
  <1>5. CASE SenderGetsLock(l)
    <2>1. report[l] \in BOOLEAN
      OBVIOUS
    <2>2. /\ toGfd' \in [Lfds -> [Slots -> Seq(Messages)]]
          /\ sender' \in [Lfds -> Tasks]
      BY <1>0, <1>5, <2>1, WriteReportTypes DEF SenderGetsLock
    <2> QED
      BY <1>5, <2>2 DEF SenderGetsLock, healthVars, reporterVars, gfdVars
  <1>6. CASE ReceiverGetsLock(l)
    <2>1. /\ toGfd' \in [Lfds -> [Slots -> Seq(Messages)]]
          /\ receiver' \in [Lfds -> Tasks]
      BY <1>0, <1>6, WriteAckTypes DEF ReceiverGetsLock
    <2> QED
      BY <1>6, <2>1 DEF ReceiverGetsLock, healthVars, reporterVars, gfdVars
  <1>7. CASE DrainCompletes(l)
    BY <1>7 DEF DrainCompletes, netVars, healthVars, reporterVars, gfdVars
  <1>8. CASE ConnectionFails(l)
    BY <1>8, CountTypes DEF ConnectionFails, netVars, healthVars, gfdVars
  <1>9. CASE CloseCompletes(l)
    <2>1. link' \in [Lfds -> [Slots -> {"none", "up", "reset", "dead"}]]
      BY <1>0, <1>9, PutType DEF CloseCompletes, LinkWithoutLfd
    <2>2. toLfd' \in [Lfds -> [Slots -> Seq(1..MaxCount)]]
      BY <1>9, PutType DEF CloseCompletes
    <2> QED
      BY <1>9, <2>1, <2>2 DEF CloseCompletes, healthVars, taskVars, gfdVars
  <1>10. CASE Retry(l)
    BY <1>10 DEF Retry, netVars, healthVars, taskVars, gfdVars
  <1> QED
    BY <1>1, <1>2, <1>3, <1>4, <1>5, <1>6, <1>7, <1>8, <1>9, <1>10 DEF LfdStep

\* The end of a handler keeps the types.
LEMMA HandlerEndsTypes ==
    ASSUME TypeInv, NEW l \in Lfds, NEW k \in Slots, HandlerEnds(l, k)
    PROVE  TypeInv'
  <1> USE DEF TypeInv, TypeOK, HasConnection
  <1>1. /\ handler' \in [Lfds -> [Slots -> Handlers]]
        /\ count' \in [Lfds -> [Slots -> 1..MaxCount]]
    BY CountTypes DEF HandlerEnds, CloseHandler, Handlers
  <1>2. /\ link' \in [Lfds -> [Slots -> {"none", "up", "reset", "dead"}]]
        /\ toGfd' \in [Lfds -> [Slots -> Seq(Messages)]]
        /\ toLfd' \in [Lfds -> [Slots -> Seq(1..MaxCount)]]
    <2>1. LinkWithoutHandler(l, k) \in {"none", "up", "reset", "dead"}
      BY DEF LinkWithoutHandler
    <2>2. toLfd[l][k] \in Seq(1..MaxCount)
      OBVIOUS
    <2>3. (IF cur[l] = k THEN toLfd[l][k] ELSE <<>>) \in Seq(1..MaxCount)
      BY <2>2, EmptyType
    <2> QED
      BY <2>1, <2>3, EmptyType, PutType DEF HandlerEnds, CloseHandler
  <1>3. session' \in [Lfds -> Slots \cup {0}] /\ members' \subseteq Servers
    BY UpdatedType DEF HandlerEnds
  <1> QED
    BY <1>1, <1>2, <1>3
    DEF HandlerEnds, lfdVars, healthVars, reporterVars, taskVars

\* What a handler reads has its type, and so has the rest of the stream.
LEMMA ReadTypes ==
    ASSUME TypeInv, NEW l \in Lfds, NEW k \in Slots, HasMessage(l, k)
    PROVE  /\ Head(toGfd[l][k]) \in Messages
           /\ Consume(l, k) => toGfd' \in [Lfds -> [Slots -> Seq(Messages)]]
  <1>1. toGfd \in [Lfds -> [Slots -> Seq(Messages)]]
    BY DEF TypeInv, TypeOK
  <1>2. toGfd[l][k] \in Seq(Messages) /\ toGfd[l][k] # <<>>
    BY <1>1 DEF HasMessage
  <1>3. Head(toGfd[l][k]) \in Messages /\ Tail(toGfd[l][k]) \in Seq(Messages)
    BY <1>2, HeadTailType
  <1>4. [toGfd EXCEPT ![l][k] = Tail(@)] \in [Lfds -> [Slots -> Seq(Messages)]]
    BY <1>1, <1>3, PutType
  <1> QED
    BY <1>3, <1>4 DEF Consume

\* A heartbeat keeps the types.
LEMMA SendHeartbeatTypes ==
    ASSUME TypeInv, NEW l \in Lfds, NEW k \in Slots, NEW n \in 1..MaxCount,
           SendHeartbeat(l, k, n)
    PROVE  /\ count' \in [Lfds -> [Slots -> 1..MaxCount]]
           /\ toLfd' \in [Lfds -> [Slots -> Seq(1..MaxCount)]]
           /\ handler' \in [Lfds -> [Slots -> Handlers]]
  <1>1. toLfd \in [Lfds -> [Slots -> Seq(1..MaxCount)]]
    BY DEF TypeInv, TypeOK
  <1>2. Append(toLfd[l][k], n) \in Seq(1..MaxCount)
    BY <1>1
  <1>3. toLfd' \in [Lfds -> [Slots -> Seq(1..MaxCount)]]
    BY <1>1, <1>2, PutType DEF SendHeartbeat
  <1> QED
    BY <1>3 DEF TypeInv, TypeOK, SendHeartbeat, Handlers

\* A step of a handler keeps the types.
LEMMA HandlerStepTypes ==
    ASSUME TypeInv, NEW l \in Lfds, NEW k \in Slots, HandlerStep(l, k)
    PROVE  TypeInv'
  <1> USE DEF TypeInv, TypeOK, HasConnection
  <1>1. CASE HandleRegister(l, k)
    <2>1. /\ toGfd' \in [Lfds -> [Slots -> Seq(Messages)]]
          /\ members' \subseteq Servers
      BY <1>1, ReadTypes, UpdatedType DEF HandleRegister
    <2>2. /\ count' \in [Lfds -> [Slots -> 1..MaxCount]]
          /\ toLfd' \in [Lfds -> [Slots -> Seq(1..MaxCount)]]
          /\ handler' \in [Lfds -> [Slots -> Handlers]]
      BY <1>1, CountTypes, SendHeartbeatTypes DEF HandleRegister
    <2> QED
      BY <1>1, <2>1, <2>2
      DEF HandleRegister, lfdVars, healthVars, reporterVars, taskVars
  <1>2. CASE RejectDuplicate(l, k)
    BY <1>2, HandlerEndsTypes DEF RejectDuplicate
  <1>3. CASE HandleReport(l, k)
    <2>1. /\ toGfd' \in [Lfds -> [Slots -> Seq(Messages)]]
          /\ members' \subseteq Servers
      BY <1>3, ReadTypes, UpdatedType DEF HandleReport
    <2> QED
      BY <1>3, <2>1
      DEF HandleReport, lfdVars, healthVars, reporterVars, taskVars
  <1>4. CASE HandleAck(l, k)
    <2>1. toGfd' \in [Lfds -> [Slots -> Seq(Messages)]]
      BY <1>4, ReadTypes DEF HandleAck
    <2> QED
      BY <1>4, <2>1
      DEF HandleAck, Handlers, lfdVars, healthVars, reporterVars, taskVars
  <1>5. CASE HeartbeatDue(l, k)
    <2>1. (count[l][k] % MaxCount) + 1 \in 1..MaxCount
      BY CountTypes
    <2>2. /\ count' \in [Lfds -> [Slots -> 1..MaxCount]]
          /\ toLfd' \in [Lfds -> [Slots -> Seq(1..MaxCount)]]
          /\ handler' \in [Lfds -> [Slots -> Handlers]]
      BY <1>5, <2>1, SendHeartbeatTypes DEF HeartbeatDue
    <2> QED
      BY <1>5, <2>2
      DEF HeartbeatDue, lfdVars, healthVars, reporterVars, taskVars
  <1>6. CASE RejectMessage(l, k)
    BY <1>6, HandlerEndsTypes DEF RejectMessage
  <1>7. CASE SessionFails(l, k)
    BY <1>7, HandlerEndsTypes DEF SessionFails
  <1> QED
    BY <1>1, <1>2, <1>3, <1>4, <1>5, <1>6, <1>7 DEF HandlerStep

\* Every step keeps the types.
LEMMA NextTypes == TypeInv /\ [Next]_vars => TypeInv'
  <1> SUFFICES ASSUME TypeInv, [Next]_vars PROVE TypeInv'
    OBVIOUS
  <1> USE DEF TypeInv, TypeOK, HasConnection
  <1>1. CASE UNCHANGED vars
    BY <1>1 DEF vars, netVars, lfdVars, gfdVars, healthVars, reporterVars,
                taskVars
  <1>2. CASE \E l \in Lfds : LfdStep(l)
    BY <1>2, LfdStepTypes
  <1>3. CASE \E l \in Lfds, k \in Slots : HandlerStep(l, k)
    BY <1>3, HandlerStepTypes
  <1>4. ASSUME NEW l \in Lfds, SetHealth(l) PROVE TypeInv'
    BY <1>4 DEF SetHealth, netVars, reporterVars, taskVars, gfdVars
  <1>5. ASSUME NEW l \in Lfds, LfdExits(l) PROVE TypeInv'
    <2>1. /\ reporter' \in [Lfds -> Reporters]
          /\ cur' \in [Lfds -> Slots \cup {0}]
          /\ healthy' \in [Lfds -> BOOLEAN]
          /\ changed' \in [Lfds -> BOOLEAN]
          /\ sender' \in [Lfds -> Tasks]
          /\ report' \in [Lfds -> BOOLEAN]
          /\ receiver' \in [Lfds -> Tasks]
          /\ answer' \in [Lfds -> 1..MaxCount]
          /\ HasConnection'
      BY <1>5, CountTypes DEF LfdExits, Reporters, Tasks
    <2>2. /\ link' \in [Lfds -> [Slots -> {"none", "up", "reset", "dead"}]]
          /\ toLfd' \in [Lfds -> [Slots -> Seq(1..MaxCount)]]
      <3>1. CASE cur[l] = 0
        BY <1>5, <3>1 DEF LfdExits
      <3>2. CASE cur[l] # 0
        <4>1. PICK state \in {link[l][cur[l]], "dead"} :
                link' = [link EXCEPT ![l][cur[l]] =
                            IF handler[l][cur[l]] = "none" THEN "none"
                                                           ELSE state]
          BY <1>5, <3>2 DEF LfdExits
        <4>2. toLfd' = [toLfd EXCEPT ![l][cur[l]] = <<>>]
          BY <1>5, <3>2 DEF LfdExits
        <4>3. cur[l] \in Slots
          BY <3>2
        <4>4. link[l][cur[l]] \in {"none", "up", "reset", "dead"}
          BY <4>3
        <4>5. (IF handler[l][cur[l]] = "none" THEN "none" ELSE state)
                 \in {"none", "up", "reset", "dead"}
          BY <4>4
        <4>6. link' \in [Lfds -> [Slots -> {"none", "up", "reset", "dead"}]]
          BY <4>1, <4>5, PutType
        <4>7. toLfd' \in [Lfds -> [Slots -> Seq(1..MaxCount)]]
          BY <4>2, EmptyType, PutType
        <4> QED
          BY <4>6, <4>7
      <3> QED
        BY <3>1, <3>2
    <2> QED
      BY <1>5, <2>1, <2>2 DEF LfdExits, gfdVars
  <1>6. ASSUME NEW l \in Lfds, LfdStarts(l) PROVE TypeInv'
    BY <1>6 DEF LfdStarts, Reporters, netVars, healthVars, taskVars, gfdVars
  <1>7. ASSUME NEW l \in Lfds, NEW k \in Slots, OpenSucceeds(l, k)
        PROVE  TypeInv'
    <2>1. <<Report("register", healthy[l])>> \in Seq(Messages)
      <3>1. healthy[l] \in BOOLEAN
        OBVIOUS
      <3> QED
        BY <3>1, MessageTypes
    <2>2. /\ link' \in [Lfds -> [Slots -> {"none", "up", "reset", "dead"}]]
          /\ toGfd' \in [Lfds -> [Slots -> Seq(Messages)]]
          /\ toLfd' \in [Lfds -> [Slots -> Seq(1..MaxCount)]]
      BY <1>7, <2>1, PutType DEF OpenSucceeds
    <2>3. /\ reporter' \in [Lfds -> Reporters]
          /\ cur' \in [Lfds -> Slots \cup {0}]
          /\ handler' \in [Lfds -> [Slots -> Handlers]]
          /\ changed' \in [Lfds -> BOOLEAN]
      BY <1>7 DEF OpenSucceeds, Reporters, Handlers
    <2>4. HasConnection'
      BY <1>7, BoundsAssumption DEF OpenSucceeds, Reporters
    <2> QED
      BY <1>7, <2>2, <2>3, <2>4 DEF OpenSucceeds, taskVars
  <1>8. ASSUME NEW l \in Lfds, NEW k \in Slots,
               LinkBreaks(l, k) \/ TcpAborts(l, k)
        PROVE  TypeInv'
    <2>1. PICK state \in {"reset", "dead"} :
              link' = [link EXCEPT ![l][k] = state]
      BY <1>8 DEF LinkBreaks, TcpAborts
    <2>2. link' \in [Lfds -> [Slots -> {"none", "up", "reset", "dead"}]]
      BY <2>1, PutType
    <2> QED
      BY <1>8, <2>2 DEF LinkBreaks, TcpAborts, lfdVars, healthVars,
                        reporterVars, taskVars, gfdVars
  <1>9. ASSUME NEW l \in Lfds, NEW k \in Slots, RogueOpens(l, k)
        PROVE  TypeInv'
    BY <1>9 DEF RogueOpens, Handlers, lfdVars, healthVars, reporterVars,
                taskVars
  <1>10. ASSUME NEW l \in Lfds, NEW k \in Slots, RogueWrites(l, k)
         PROVE  TypeInv'
    <2>1. PICK m \in Messages : toGfd' = [toGfd EXCEPT ![l][k] = <<m>>]
      BY <1>10 DEF RogueWrites
    <2>2. /\ toGfd' \in [Lfds -> [Slots -> Seq(Messages)]]
          /\ toLfd' \in [Lfds -> [Slots -> Seq(1..MaxCount)]]
      BY <1>10, <2>1, PutType DEF RogueWrites
    <2> QED
      BY <1>10, <2>2 DEF RogueWrites, lfdVars, healthVars, reporterVars,
                         taskVars, gfdVars
  <1>11. CASE GfdExits
    <2>1. /\ handler' \in [Lfds -> [Slots -> Handlers]]
          /\ count' \in [Lfds -> [Slots -> 1..MaxCount]]
          /\ session' \in [Lfds -> Slots \cup {0}]
          /\ members' \subseteq Servers
          /\ gfdUp' \in BOOLEAN
      BY <1>11, CountTypes
      DEF GfdExits, ForEachLfd, ForEachConnection, Handlers
    <2>2. /\ link' \in [Lfds -> [Slots -> {"none", "up", "reset", "dead"}]]
          /\ toGfd' \in [Lfds -> [Slots -> Seq(Messages)]]
          /\ toLfd' \in [Lfds -> [Slots -> Seq(1..MaxCount)]]
      <3>1. PICK silent \in BOOLEAN :
              link' = [l \in Lfds |-> [k \in Slots |->
                          IF silent /\ cur[l] = k
                          THEN "dead" ELSE LinkWithoutHandler(l, k)]]
        BY <1>11 DEF GfdExits
      <3>2. link' \in [Lfds -> [Slots -> {"none", "up", "reset", "dead"}]]
        BY <3>1 DEF LinkWithoutHandler
      <3>3. toGfd' \in [Lfds -> [Slots -> Seq(Messages)]]
        BY <1>11, EmptyType DEF GfdExits, ForEachConnection
      <3>4. toLfd' \in [Lfds -> [Slots -> Seq(1..MaxCount)]]
        BY <1>11, EmptyType DEF GfdExits
      <3> QED
        BY <3>2, <3>3, <3>4
    <2> QED
      BY <1>11, <2>1, <2>2
      DEF GfdExits, lfdVars, healthVars, reporterVars, taskVars
  <1>12. CASE GfdStarts
    BY <1>12 DEF GfdStarts, netVars, lfdVars, healthVars, reporterVars, taskVars
  <1>13. CASE Settle
    BY <1>13 DEF Settle, netVars, lfdVars, healthVars, reporterVars, taskVars,
                 gfdVars
  <1> QED
    BY <1>1, <1>2, <1>3, <1>4, <1>5, <1>6, <1>7, <1>8, <1>9, <1>10, <1>11,
       <1>12, <1>13
    DEF Next

(***************************************************************************)
(* The reporters and the GFD keep their types, and a reporter that uses a  *)
(* connection has one.                                                     *)
(***************************************************************************)
THEOREM TypeInvariance == Spec => []TypeInv
  <1>1. Init => TypeInv
    BY InitTypes DEF TypeInv, HasConnection, Init, ForEachLfd
  <1> QED
    BY <1>1, NextTypes, PTL DEF Spec

\* The reporters and the GFD keep their types.
THEOREM TypeCorrect == Spec => []TypeOK
  BY TypeInvariance, PTL DEF TypeInv

-----------------------------------------------------------------------------
(***************************************************************************)
(* Sessions.  That members are watched is not inductive: it needs that a   *)
(* session and a handler past its registration are the same thing, and     *)
(* that no two LFDs share a replica.                                       *)
(***************************************************************************)
SessionInv ==
    /\ \A l \in Lfds, k \in Slots :
          session[l] = k <=> handler[l][k] \in {"ack", "between"}
    /\ \A l \in Lfds : LfdServers[l] \in members => session[l] # 0

\* The types the argument needs.
LEMMA SessionTypes ==
    ASSUME TypeOK
    PROVE  /\ handler \in [Lfds -> [Slots -> Handlers]]
           /\ session \in [Lfds -> Slots \cup {0}]
    BY DEF TypeOK

\* Steps that touch neither sessions nor members.
LEMMA SessionsUnchanged ==
    ASSUME SessionInv, UNCHANGED <<handler, session, members>>
    PROVE  SessionInv'
    BY DEF SessionInv

\* A connection that opens, for a reporter or for any peer.
LEMMA SessionOpen ==
    ASSUME TypeOK, SessionInv, NEW l \in Lfds, NEW k \in Slots,
           handler[l][k] = "none",
           handler' = [handler EXCEPT ![l][k] = "accepted"],
           UNCHANGED <<session, members>>
    PROVE  SessionInv'
    BY SessionTypes DEF SessionInv

\* The finally clause of _handle.
LEMMA SessionEnds ==
    ASSUME TypeOK, SessionInv, NEW l \in Lfds, NEW k \in Slots,
           HandlerEnds(l, k)
    PROVE  SessionInv'
  <1>1. /\ handler' = [handler EXCEPT ![l][k] = "none"]
        /\ session' = [session EXCEPT ![l] = IF @ = k THEN 0 ELSE @]
        /\ members' = IF session[l] = k THEN members \ {LfdServers[l]}
                                        ELSE members
    BY DEF HandlerEnds, CloseHandler, Updated
  <1>2. \A m \in Lfds, j \in Slots :
            session'[m] = j <=> handler'[m][j] \in {"ack", "between"}
    BY <1>1, SessionTypes, BoundsAssumption DEF SessionInv
  <1>3. \A m \in Lfds : LfdServers[m] \in members' => session'[m] # 0
    BY <1>1, SessionTypes, BoundsAssumption DEF SessionInv
  <1> QED
    BY <1>2, <1>3 DEF SessionInv

\* Every step of a handler.
LEMMA SessionHandler ==
    ASSUME TypeOK, SessionInv, NEW l \in Lfds, NEW k \in Slots,
           HandlerStep(l, k)
    PROVE  SessionInv'
  <1>1. CASE HandleRegister(l, k)
    <2>1. /\ handler' = [handler EXCEPT ![l][k] = "ack"]
          /\ session[l] = 0
          /\ session' = [session EXCEPT ![l] = k]
          /\ members' \subseteq members \cup {LfdServers[l]}
      BY <1>1 DEF HandleRegister, SendHeartbeat, Updated
    <2>2. \A m \in Lfds, j \in Slots :
              session'[m] = j <=> handler'[m][j] \in {"ack", "between"}
      BY <2>1, SessionTypes, BoundsAssumption DEF SessionInv
    <2>3. \A m \in Lfds : LfdServers[m] \in members' => session'[m] # 0
      BY <2>1, SessionTypes, BoundsAssumption, LfdsAssumption DEF SessionInv
    <2> QED
      BY <2>2, <2>3 DEF SessionInv
  <1>2. CASE HandleReport(l, k)
    <2>1. /\ UNCHANGED <<handler, session>>
          /\ handler[l][k] \in {"ack", "between"}
          /\ members' \subseteq members \cup {LfdServers[l]}
      BY <1>2 DEF HandleReport, Updated
    <2> QED
      BY <2>1, BoundsAssumption, LfdsAssumption DEF SessionInv
  <1>3. CASE HandleAck(l, k)
    <2>1. /\ handler[l][k] = "ack"
          /\ handler' = [handler EXCEPT ![l][k] = "between"]
          /\ UNCHANGED <<session, members>>
      BY <1>3 DEF HandleAck
    <2> QED
      BY <2>1, SessionTypes DEF SessionInv
  <1>4. CASE HeartbeatDue(l, k)
    <2>1. /\ handler[l][k] = "between"
          /\ handler' = [handler EXCEPT ![l][k] = "ack"]
          /\ UNCHANGED <<session, members>>
      BY <1>4 DEF HeartbeatDue, SendHeartbeat
    <2> QED
      BY <2>1, SessionTypes DEF SessionInv
  <1>5. CASE HandlerEnds(l, k)
    BY <1>5, SessionEnds
  <1> QED
    BY <1>1, <1>2, <1>3, <1>4, <1>5
    DEF HandlerStep, RejectDuplicate, RejectMessage, SessionFails

\* Every step.
LEMMA SessionNext == TypeOK /\ SessionInv /\ [Next]_vars => SessionInv'
  <1> SUFFICES ASSUME TypeOK, SessionInv, [Next]_vars PROVE SessionInv'
    OBVIOUS
  <1>1. CASE \E l \in Lfds, k \in Slots : HandlerStep(l, k)
    BY <1>1, SessionHandler
  <1>2. CASE \E l \in Lfds, k \in Slots : OpenSucceeds(l, k)
    BY <1>2, SessionOpen DEF OpenSucceeds
  <1>3. CASE \E l \in Lfds, k \in Slots : RogueOpens(l, k)
    BY <1>3, SessionOpen DEF RogueOpens
  <1>4. CASE GfdExits
    BY <1>4, BoundsAssumption
    DEF GfdExits, SessionInv, ForEachLfd, ForEachConnection
  <1>5. CASE \/ \E l \in Lfds : LfdStep(l)
             \/ \E l \in Lfds : SetHealth(l) \/ LfdExits(l) \/ LfdStarts(l)
    <2>1. UNCHANGED <<handler, session, members>>
      BY <1>5
      DEF LfdStep, OpenFails, Registered, ReportChanges, AnswerHeartbeat,
          SenderGetsLock, ReceiverGetsLock, DrainCompletes, ConnectionFails,
          CloseCompletes, Retry, SetHealth, LfdExits, LfdStarts, gfdVars
    <2> QED
      BY <2>1, SessionsUnchanged
  <1>6. CASE \/ \E l \in Lfds, k \in Slots :
                   LinkBreaks(l, k) \/ TcpAborts(l, k) \/ RogueWrites(l, k)
             \/ GfdStarts \/ Settle \/ UNCHANGED vars
    <2>1. UNCHANGED <<handler, session, members>>
      BY <1>6 DEF LinkBreaks, TcpAborts, RogueWrites, GfdStarts, Settle, vars,
                  gfdVars
    <2> QED
      BY <2>1, SessionsUnchanged
  <1> QED
    BY <1>1, <1>2, <1>3, <1>4, <1>5, <1>6 DEF Next

\* A session is a handler past its registration, and members have sessions.
THEOREM SessionInvariance == Spec => []SessionInv
  <1>1. Init => SessionInv
    BY BoundsAssumption DEF Init, SessionInv, ForEachLfd, ForEachConnection
  <1> QED
    BY <1>1, SessionNext, TypeCorrect, PTL DEF Spec

(***************************************************************************)
(* Whatever the peers of the GFD send, each member has a session whose     *)
(* handler is sending heartbeats to the LFD of that replica.               *)
(***************************************************************************)
THEOREM MembersStayWatched == Spec => []MembersAreWatched
  <1>1. TypeOK /\ SessionInv => MembersAreWatched
    BY SessionTypes DEF SessionInv, MembersAreWatched
  <1> QED
    BY <1>1, TypeCorrect, SessionInvariance, PTL

\* Whatever the peers of the GFD send, one handler serves one LFD.
THEOREM OneHandler == Spec => []OneHandlerPerLfd
  <1>1. SessionInv => OneHandlerPerLfd
    BY DEF SessionInv, OneHandlerPerLfd
  <1> QED
    BY <1>1, SessionInvariance, PTL

-----------------------------------------------------------------------------
(***************************************************************************)
(* The streams of a correct LFD.  That the GFD never meets a message it    *)
(* does not accept is a statement about the first one in a queue; it holds *)
(* because of what may stand behind it.  A round of heartbeats has one     *)
(* answer, and until the GFD reads it, it is in one place: not yet sent    *)
(* for in toLfd, owed by answer_heartbeats while report_changes holds the  *)
(* lock, or once in toGfd.                                                 *)
(***************************************************************************)
RegisterFirst(queue) ==
    /\ queue # <<>>
    /\ \A i \in DOMAIN queue :
          queue[i].type = IF i = 1 THEN "register" ELSE "membership"

AllReports(queue) == \A i \in DOMAIN queue : queue[i].type = "membership"

OneAnswer(queue, n) ==
    /\ \A i \in DOMAIN queue :
          queue[i].type = "membership" \/ queue[i] = HeartbeatAck(n)
    /\ \A i, j \in DOMAIN queue :
          queue[i] = HeartbeatAck(n) /\ queue[j] = HeartbeatAck(n) => i = j

\* answer_heartbeats has read a heartbeat and waits for the lock.
Owes(l, k) == cur[l] = k /\ receiver[l] = "blocked"

StreamOf(l, k) ==
    /\ handler[l][k] = "accepted" =>
          RegisterFirst(toGfd[l][k]) /\ toLfd[l][k] = <<>> /\ ~Owes(l, k)
    /\ handler[l][k] = "between" =>
          AllReports(toGfd[l][k]) /\ toLfd[l][k] = <<>> /\ ~Owes(l, k)
    /\ handler[l][k] = "ack" =>
          /\ OneAnswer(toGfd[l][k], count[l][k])
          /\ toLfd[l][k] \in {<<>>, <<count[l][k]>>}
          /\ toLfd[l][k] # <<>> => AllReports(toGfd[l][k]) /\ ~Owes(l, k)
          /\ Owes(l, k) => AllReports(toGfd[l][k]) /\ answer[l] = count[l][k]

StreamInv == \A l \in Correct, k \in Slots : StreamOf(l, k)

\* Between two connections report_changes and answer_heartbeats do not run.
IdleTasks ==
    \A l \in Lfds : reporter[l] # "running" =>
        sender[l] = "ready" /\ receiver[l] = "ready"

\* A report may be written at any time.
LEMMA AppendReport ==
    ASSUME NEW queue \in Seq(Messages), NEW h \in BOOLEAN, NEW n \in 1..MaxCount
    PROVE  LET longer == Append(queue, Report("membership", h)) IN
           /\ RegisterFirst(queue) => RegisterFirst(longer)
           /\ AllReports(queue) => AllReports(longer)
           /\ OneAnswer(queue, n) => OneAnswer(longer, n)
  <1> DEFINE m == Report("membership", h)
             longer == Append(queue, m)
  <1>1. /\ m.type = "membership"
        /\ m # HeartbeatAck(n)
    BY DEF Report, HeartbeatAck
  <1>2. m \in Messages
    BY MessageTypes
  <1> HIDE DEF m
  <1>3. /\ DOMAIN longer = 1..(Len(queue) + 1)
        /\ DOMAIN queue = 1..Len(queue)
        /\ longer[Len(queue) + 1] = m
        /\ \A i \in 1..Len(queue) : longer[i] = queue[i]
        /\ Len(queue) \in Nat
        /\ queue # <<>> => Len(queue) # 0
        /\ longer # <<>>
    BY <1>2
  <1> HIDE DEF longer
  <1>4. RegisterFirst(queue) => RegisterFirst(longer)
    BY <1>1, <1>3 DEF RegisterFirst
  <1>5. AllReports(queue) => AllReports(longer)
    BY <1>1, <1>3 DEF AllReports
  <1>6. OneAnswer(queue, n) => OneAnswer(longer, n)
    BY <1>1, <1>3 DEF OneAnswer
  <1> QED
    BY <1>4, <1>5, <1>6 DEF longer, m

\* The answer may be written where none is.
LEMMA AppendAnswer ==
    ASSUME NEW queue \in Seq(Messages), NEW n \in 1..MaxCount, AllReports(queue)
    PROVE  OneAnswer(Append(queue, HeartbeatAck(n)), n)
  <1> DEFINE m == HeartbeatAck(n)
             longer == Append(queue, m)
  <1>1. \A x : x.type = "membership" => x # m
    BY DEF HeartbeatAck
  <1>2. m \in Messages
    BY MessageTypes
  <1> HIDE DEF m
  <1>3. /\ DOMAIN longer = 1..(Len(queue) + 1)
        /\ DOMAIN queue = 1..Len(queue)
        /\ longer[Len(queue) + 1] = m
        /\ \A i \in 1..Len(queue) : longer[i] = queue[i]
        /\ Len(queue) \in Nat
    BY <1>2
  <1> HIDE DEF longer
  <1>4. /\ \A i \in DOMAIN longer :
              longer[i].type = "membership" \/ longer[i] = m
        /\ \A i, j \in DOMAIN longer :
              longer[i] = m /\ longer[j] = m => i = j
    BY <1>1, <1>3 DEF AllReports
  <1> QED
    BY <1>4 DEF OneAnswer, longer, m

\* Where no answer is, there is at most one.
LEMMA ReportsHaveOneAnswer ==
    ASSUME NEW queue, NEW n, AllReports(queue)
    PROVE  OneAnswer(queue, n)
    BY DEF AllReports, OneAnswer, HeartbeatAck

\* What is left of a queue when its first message is read.
LEMMA ReadQueue ==
    ASSUME NEW queue \in Seq(Messages), queue # <<>>, NEW n \in 1..MaxCount
    PROVE  /\ RegisterFirst(queue) => AllReports(Tail(queue))
           /\ AllReports(queue) => AllReports(Tail(queue))
           /\ OneAnswer(queue, n) => OneAnswer(Tail(queue), n)
           /\ OneAnswer(queue, n) /\ Head(queue) = HeartbeatAck(n)
                 => AllReports(Tail(queue))
  <1>1. /\ DOMAIN Tail(queue) = 1..(Len(queue) - 1)
        /\ DOMAIN queue = 1..Len(queue)
        /\ \A i \in 1..(Len(queue) - 1) : Tail(queue)[i] = queue[i + 1]
        /\ Head(queue) = queue[1]
        /\ Len(queue) \in Nat \ {0}
    OBVIOUS
  <1> DEFINE rest == Tail(queue)
  <1> HIDE DEF rest
  <1>2. /\ DOMAIN rest \subseteq Nat
        /\ \A i \in DOMAIN rest : /\ i + 1 \in DOMAIN queue /\ i + 1 # 1
                                  /\ rest[i] = queue[i + 1]
        /\ 1 \in DOMAIN queue
    BY <1>1 DEF rest
  <1>3. RegisterFirst(queue) => AllReports(rest)
    BY <1>2 DEF RegisterFirst, AllReports
  <1>4. AllReports(queue) => AllReports(rest)
    BY <1>2 DEF AllReports
  <1>5. OneAnswer(queue, n) => OneAnswer(rest, n)
    BY <1>2 DEF OneAnswer
  <1>6. OneAnswer(queue, n) /\ queue[1] = HeartbeatAck(n) => AllReports(rest)
    BY <1>2 DEF OneAnswer, AllReports
  <1> QED
    BY <1>1, <1>3, <1>4, <1>5, <1>6 DEF rest

\* The tasks of a reporter start with its connection and end with it.
LEMMA IdleTasksNext == TypeInv /\ IdleTasks /\ [Next]_vars => IdleTasks'
  <1> SUFFICES ASSUME TypeInv, IdleTasks, [Next]_vars PROVE IdleTasks'
    OBVIOUS
  <1>0. /\ reporter \in [Lfds -> Reporters]
        /\ sender \in [Lfds -> Tasks]
        /\ receiver \in [Lfds -> Tasks]
    BY DEF TypeInv, TypeOK
  <1>1. ASSUME UNCHANGED <<reporter, sender, receiver>> PROVE IdleTasks'
    BY <1>1 DEF IdleTasks
  <1>2. ASSUME NEW l \in Lfds, LfdStep(l) PROVE IdleTasks'
    <2>1. CASE reporter[l] = "running" /\ UNCHANGED reporter
      <3>1. \A m \in Lfds \ {l} :
                sender'[m] = sender[m] /\ receiver'[m] = receiver[m]
        BY <1>0, <1>2, <2>1
        DEF LfdStep, OpenFails, Registered, ReportChanges, AnswerHeartbeat,
            SenderGetsLock, ReceiverGetsLock, DrainCompletes, ConnectionFails,
            CloseCompletes, Retry, WriteReport, WriteAck, taskVars
      <3> QED
        BY <2>1, <3>1 DEF IdleTasks
    <2>2. CASE ~(reporter[l] = "running" /\ UNCHANGED reporter)
      <3>1. \/ OpenFails(l) \/ Registered(l) \/ ConnectionFails(l)
            \/ CloseCompletes(l) \/ Retry(l)
        BY <1>2, <2>2
        DEF LfdStep, ReportChanges, AnswerHeartbeat, SenderGetsLock,
            ReceiverGetsLock, DrainCompletes, reporterVars
      <3> QED
        BY <1>0, <3>1
        DEF OpenFails, Registered, ConnectionFails, CloseCompletes, Retry,
            taskVars, IdleTasks
    <2> QED
      BY <2>1, <2>2
  <1>3. ASSUME NEW l \in Lfds, LfdExits(l) \/ LfdStarts(l) PROVE IdleTasks'
    BY <1>0, <1>3 DEF LfdExits, LfdStarts, taskVars, IdleTasks
  <1>4. ASSUME NEW l \in Lfds, NEW k \in Slots, OpenSucceeds(l, k)
        PROVE  IdleTasks'
    BY <1>0, <1>4 DEF OpenSucceeds, taskVars, IdleTasks
  <1>5. ASSUME NEW l \in Lfds, NEW k \in Slots,
               \/ HandlerStep(l, k) \/ LinkBreaks(l, k) \/ TcpAborts(l, k)
               \/ RogueOpens(l, k) \/ RogueWrites(l, k)
        PROVE  IdleTasks'
    <2>1. UNCHANGED lfdVars
      BY <1>5
      DEF HandlerStep, HandleRegister, RejectDuplicate, HandleReport, HandleAck,
          HeartbeatDue, RejectMessage, SessionFails, HandlerEnds, LinkBreaks,
          TcpAborts, RogueOpens, RogueWrites
    <2> QED
      BY <1>1, <2>1 DEF lfdVars, reporterVars, taskVars
  <1>6. ASSUME NEW l \in Lfds, SetHealth(l) PROVE IdleTasks'
    BY <1>1, <1>6 DEF SetHealth, reporterVars, taskVars
  <1>7. CASE GfdExits \/ GfdStarts \/ Settle \/ UNCHANGED vars
    <2>1. UNCHANGED lfdVars
      BY <1>7 DEF GfdExits, GfdStarts, Settle, vars
    <2> QED
      BY <1>1, <2>1 DEF lfdVars, reporterVars, taskVars
  <1> QED
    BY <1>2, <1>3, <1>4, <1>5, <1>6, <1>7 DEF Next

\* The types the argument needs.
LEMMA StreamTypes ==
    ASSUME TypeInv
    PROVE  /\ toGfd \in [Lfds -> [Slots -> Seq(Messages)]]
           /\ toLfd \in [Lfds -> [Slots -> Seq(1..MaxCount)]]
           /\ handler \in [Lfds -> [Slots -> Handlers]]
           /\ count \in [Lfds -> [Slots -> 1..MaxCount]]
           /\ cur \in [Lfds -> Slots \cup {0}]
           /\ receiver \in [Lfds -> Tasks]
           /\ answer \in [Lfds -> 1..MaxCount]
           /\ reporter \in [Lfds -> Reporters]
           /\ healthy \in [Lfds -> BOOLEAN]
           /\ report \in [Lfds -> BOOLEAN]
           /\ changed \in [Lfds -> BOOLEAN]
           /\ sender \in [Lfds -> Tasks]
           /\ Correct \subseteq Lfds
           /\ 0 \notin Slots
    BY BoundsAssumption DEF TypeInv, TypeOK, Correct

\* A connection whose handler reads nothing and writes nothing, and whose
\* reporter neither writes nor reads a heartbeat.
LEMMA StreamFrame ==
    ASSUME NEW l, NEW k, StreamOf(l, k),
           toGfd'[l][k] = toGfd[l][k],
           toLfd'[l][k] \in {toLfd[l][k], <<>>},
           handler'[l][k] = handler[l][k],
           count'[l][k] = count[l][k],
           Owes(l, k)' => Owes(l, k) /\ answer'[l] = answer[l]
    PROVE  StreamOf(l, k)'
  <1> DEFINE O == Owes(l, k)
             P == Owes(l, k)'
  <1>1. P => O /\ answer'[l] = answer[l]
    OBVIOUS
  <1> HIDE DEF O, P
  <1>2. /\ handler[l][k] = "accepted" =>
              RegisterFirst(toGfd[l][k]) /\ toLfd[l][k] = <<>> /\ ~O
        /\ handler[l][k] = "between" =>
              AllReports(toGfd[l][k]) /\ toLfd[l][k] = <<>> /\ ~O
        /\ handler[l][k] = "ack" =>
              /\ OneAnswer(toGfd[l][k], count[l][k])
              /\ toLfd[l][k] \in {<<>>, <<count[l][k]>>}
              /\ toLfd[l][k] # <<>> => AllReports(toGfd[l][k]) /\ ~O
              /\ O => AllReports(toGfd[l][k]) /\ answer[l] = count[l][k]
    BY DEF StreamOf, O
  <1>3. /\ handler'[l][k] = "accepted" =>
              RegisterFirst(toGfd'[l][k]) /\ toLfd'[l][k] = <<>> /\ ~P
        /\ handler'[l][k] = "between" =>
              AllReports(toGfd'[l][k]) /\ toLfd'[l][k] = <<>> /\ ~P
        /\ handler'[l][k] = "ack" =>
              /\ OneAnswer(toGfd'[l][k], count'[l][k])
              /\ toLfd'[l][k] \in {<<>>, <<count'[l][k]>>}
              /\ toLfd'[l][k] # <<>> => AllReports(toGfd'[l][k]) /\ ~P
              /\ P => AllReports(toGfd'[l][k]) /\ answer'[l] = count'[l][k]
    BY <1>1, <1>2
  <1> QED
    BY <1>3 DEF StreamOf, P, RegisterFirst, AllReports, OneAnswer, HeartbeatAck

\* A connection without a handler.
LEMMA StreamEnded ==
    ASSUME NEW l, NEW k, handler'[l][k] = "none"
    PROVE  StreamOf(l, k)'
    BY DEF StreamOf

\* Steps that leave the streams and the receivers alone.
LEMMA StreamsUnchanged ==
    ASSUME StreamInv, UNCHANGED <<toGfd, toLfd, handler, count, cur, receiver,
                                  answer>>
    PROVE  StreamInv'
  <1> SUFFICES ASSUME NEW l \in Correct, NEW k \in Slots PROVE StreamOf(l, k)'
    BY DEF StreamInv, Correct
  <1> QED
    BY StreamFrame DEF StreamInv, Owes

\* A report is written.
LEMMA StreamReport ==
    ASSUME TypeInv, StreamInv, NEW l \in Lfds, NEW h \in BOOLEAN,
           reporter[l] = "running", WriteReport(l, h),
           UNCHANGED <<toLfd, handler, count, cur, receiver, answer>>
    PROVE  StreamInv'
  <1> SUFFICES ASSUME NEW m \in Correct, NEW j \in Slots PROVE StreamOf(m, j)'
    BY DEF StreamInv, Correct
  <1>0. cur[l] \in Slots
    BY StreamTypes DEF TypeInv, HasConnection
  <1>1. toGfd' = [toGfd EXCEPT ![l][cur[l]] =
                     Append(toGfd[l][cur[l]], Report("membership", h))]
    BY DEF WriteReport
  <1>2. Owes(m, j)' <=> Owes(m, j)
    BY DEF Owes
  <1>3. CASE m = l /\ j = cur[l]
    <2>1. /\ toGfd'[m][j] = Append(toGfd[m][j], Report("membership", h))
          /\ toGfd[m][j] \in Seq(Messages)
          /\ count[m][j] \in 1..MaxCount
      BY <1>0, <1>1, <1>3, StreamTypes
    <2>2. /\ RegisterFirst(toGfd[m][j]) => RegisterFirst(toGfd'[m][j])
          /\ AllReports(toGfd[m][j]) => AllReports(toGfd'[m][j])
          /\ OneAnswer(toGfd[m][j], count[m][j])
                => OneAnswer(toGfd'[m][j], count[m][j])
      BY <2>1, AppendReport
    <2>3. StreamOf(m, j)
      BY DEF StreamInv
    <2> QED
      BY <1>2, <2>2, <2>3
      DEF StreamOf, RegisterFirst, AllReports, OneAnswer, HeartbeatAck
  <1>4. CASE ~(m = l /\ j = cur[l])
    <2>1. toGfd'[m][j] = toGfd[m][j]
      BY <1>0, <1>1, <1>4, StreamTypes
    <2> QED
      BY <1>2, <2>1, StreamFrame DEF StreamInv
  <1> QED
    BY <1>3, <1>4

\* answer_heartbeats reads a heartbeat, and answers it or waits for the lock.
LEMMA StreamAnswer ==
    ASSUME TypeInv, StreamInv, NEW l \in Lfds, AnswerHeartbeat(l)
    PROVE  StreamInv'
  <1> SUFFICES ASSUME NEW m \in Correct, NEW j \in Slots PROVE StreamOf(m, j)'
    BY DEF StreamInv, Correct
  <1> DEFINE n == Head(toLfd[l][cur[l]])
  <1>0. cur[l] \in Slots
    BY StreamTypes DEF AnswerHeartbeat, TypeInv, HasConnection
  <1>1. /\ toLfd' = [toLfd EXCEPT ![l][cur[l]] = Tail(toLfd[l][cur[l]])]
        /\ toLfd[l][cur[l]] # <<>>
        /\ UNCHANGED <<handler, count, cur>>
    BY DEF AnswerHeartbeat, gfdVars, reporterVars
  <1>2. \/ /\ toGfd' = [toGfd EXCEPT ![l][cur[l]] =
                           Append(toGfd[l][cur[l]], HeartbeatAck(n))]
           /\ receiver'[l] # "blocked"
           /\ UNCHANGED answer
        \/ /\ toGfd' = toGfd
           /\ answer' = [answer EXCEPT ![l] = n]
    BY StreamTypes DEF AnswerHeartbeat, WriteAck, AfterWrite
  <1>3. \A x \in Lfds \ {l} :
            receiver'[x] = receiver[x] /\ answer'[x] = answer[x]
    BY StreamTypes DEF AnswerHeartbeat, WriteAck
  <1>4. CASE m = l /\ j = cur[l]
    <2>1. StreamOf(m, j)
      BY DEF StreamInv
    <2>2. CASE handler[m][j] = "none"
      BY <1>1, <2>2, StreamEnded
    <2>3. CASE handler[m][j] # "none"
      <3>1. /\ handler[m][j] = "ack"
            /\ toLfd[m][j] = <<count[m][j]>>
            /\ AllReports(toGfd[m][j])
        BY <1>1, <1>4, <2>1, <2>3, StreamTypes DEF StreamOf, Handlers
      <3>2. /\ n = count[m][j] /\ n \in 1..MaxCount
            /\ toLfd'[m][j] = <<>>
            /\ toGfd[m][j] \in Seq(Messages)
            /\ handler'[m][j] = "ack"
            /\ count'[m][j] = n
        BY <1>0, <1>1, <1>4, <3>1, StreamTypes
      <3> HIDE DEF n
      <3>3. CASE /\ toGfd' = [toGfd EXCEPT ![l][cur[l]] =
                                 Append(toGfd[l][cur[l]], HeartbeatAck(n))]
                 /\ receiver'[l] # "blocked"
        <4>1. toGfd'[m][j] = Append(toGfd[m][j], HeartbeatAck(n))
          BY <1>0, <1>4, <3>3, StreamTypes
        <4>2. OneAnswer(toGfd'[m][j], n)
          BY <3>1, <3>2, <4>1, AppendAnswer
        <4>3. ~Owes(m, j)'
          BY <1>4, <3>3 DEF Owes
        <4> QED
          BY <3>2, <4>2, <4>3 DEF StreamOf, OneAnswer, HeartbeatAck
      <3>4. CASE /\ toGfd' = toGfd
                 /\ answer' = [answer EXCEPT ![l] = n]
        <4>1. AllReports(toGfd'[m][j]) /\ answer'[m] = n
          BY <1>4, <3>1, <3>4, StreamTypes
        <4>2. OneAnswer(toGfd'[m][j], n)
          BY <4>1, ReportsHaveOneAnswer
        <4> QED
          BY <3>2, <4>1, <4>2
          DEF StreamOf, OneAnswer, AllReports, HeartbeatAck
      <3> QED
        BY <1>2, <3>3, <3>4
    <2> QED
      BY <2>2, <2>3
  <1>5. CASE ~(m = l /\ j = cur[l])
    <2>1. toLfd'[m][j] = toLfd[m][j] /\ toGfd'[m][j] = toGfd[m][j]
      BY <1>0, <1>1, <1>2, <1>5, StreamTypes
    <2>2. Owes(m, j)' => Owes(m, j) /\ answer'[m] = answer[m]
      BY <1>1, <1>3, <1>5, StreamTypes DEF Owes
    <2> QED
      BY <1>1, <2>1, <2>2, StreamFrame DEF StreamInv
  <1> QED
    BY <1>4, <1>5

\* The answer that waited for the lock is written.
LEMMA StreamOwed ==
    ASSUME TypeInv, StreamInv, NEW l \in Lfds, ReceiverGetsLock(l)
    PROVE  StreamInv'
  <1> SUFFICES ASSUME NEW m \in Correct, NEW j \in Slots PROVE StreamOf(m, j)'
    BY DEF StreamInv, Correct
  <1>0. cur[l] \in Slots
    BY StreamTypes DEF ReceiverGetsLock, TypeInv, HasConnection
  <1>1. /\ toGfd' = [toGfd EXCEPT ![l][cur[l]] =
                        Append(toGfd[l][cur[l]], HeartbeatAck(answer[l]))]
        /\ UNCHANGED <<toLfd, handler, count, cur, answer>>
        /\ receiver[l] = "blocked"
    BY DEF ReceiverGetsLock, WriteAck, gfdVars, reporterVars
  <1>2. /\ receiver'[l] # "blocked"
        /\ \A x \in Lfds \ {l} : receiver'[x] = receiver[x]
    BY StreamTypes DEF ReceiverGetsLock, WriteAck, AfterWrite
  <1>3. CASE m = l /\ j = cur[l]
    <2>1. StreamOf(m, j) /\ Owes(m, j)
      BY <1>1, <1>3 DEF StreamInv, Owes
    <2>2. CASE handler[m][j] = "none"
      BY <1>1, <2>2, StreamEnded
    <2>3. CASE handler[m][j] # "none"
      <3>1. /\ handler[m][j] = "ack"
            /\ toLfd[m][j] = <<>>
            /\ AllReports(toGfd[m][j])
            /\ answer[m] = count[m][j]
        BY <2>1, <2>3, StreamTypes DEF StreamOf, Handlers
      <3>2. /\ toGfd'[m][j] = Append(toGfd[m][j], HeartbeatAck(count[m][j]))
            /\ toGfd[m][j] \in Seq(Messages)
            /\ count[m][j] \in 1..MaxCount
        BY <1>0, <1>1, <1>3, <3>1, StreamTypes
      <3>3. OneAnswer(toGfd'[m][j], count[m][j])
        BY <3>1, <3>2, AppendAnswer
      <3>4. ~Owes(m, j)'
        BY <1>2, <1>3 DEF Owes
      <3> QED
        BY <1>1, <3>1, <3>3, <3>4 DEF StreamOf, OneAnswer, HeartbeatAck
    <2> QED
      BY <2>2, <2>3
  <1>4. CASE ~(m = l /\ j = cur[l])
    <2>1. toGfd'[m][j] = toGfd[m][j]
      BY <1>0, <1>1, <1>4, StreamTypes
    <2>2. Owes(m, j)' => Owes(m, j) /\ answer'[m] = answer[m]
      BY <1>1, <1>2, <1>4, StreamTypes DEF Owes
    <2> QED
      BY <1>1, <2>1, <2>2, StreamFrame DEF StreamInv
  <1> QED
    BY <1>3, <1>4

\* The reporter gives its connection up.
LEMMA StreamGivenUp ==
    ASSUME TypeInv, StreamInv, UNCHANGED <<toGfd, handler, count>>,
           \A m \in Lfds, j \in Slots : toLfd'[m][j] \in {toLfd[m][j], <<>>},
           \A m \in Lfds, j \in Slots :
               Owes(m, j)' => Owes(m, j) /\ answer'[m] = answer[m]
    PROVE  StreamInv'
  <1> SUFFICES ASSUME NEW m \in Correct, NEW j \in Slots PROVE StreamOf(m, j)'
    BY DEF StreamInv, Correct
  <1> QED
    BY StreamFrame, StreamTypes DEF StreamInv

\* Every step of a reporter.
LEMMA StreamReporter ==
    ASSUME TypeInv, IdleTasks, StreamInv, NEW l \in Lfds, LfdStep(l)
    PROVE  StreamInv'
  <1>1. CASE ReportChanges(l)
    <2>1. UNCHANGED <<toLfd, handler, count, cur, receiver, answer>>
      BY <1>1 DEF ReportChanges, gfdVars, reporterVars
    <2>2. CASE WriteReport(l, healthy[l])
      <3>1. healthy[l] \in BOOLEAN /\ reporter[l] = "running"
        BY <1>1, StreamTypes DEF ReportChanges
      <3> QED
        BY <2>1, <2>2, <3>1, StreamReport
    <2>3. CASE UNCHANGED toGfd
      BY <2>1, <2>3, StreamsUnchanged
    <2> QED
      BY <1>1, <2>2, <2>3 DEF ReportChanges
  <1>2. CASE AnswerHeartbeat(l)
    BY <1>2, StreamAnswer
  <1>3. CASE SenderGetsLock(l)
    <2>1. /\ UNCHANGED <<toLfd, handler, count, cur, receiver, answer>>
          /\ WriteReport(l, report[l])
          /\ reporter[l] = "running"
      BY <1>3 DEF SenderGetsLock, gfdVars, reporterVars
    <2>2. report[l] \in BOOLEAN
      BY StreamTypes
    <2> QED
      BY <2>1, <2>2, StreamReport
  <1>4. CASE ReceiverGetsLock(l)
    BY <1>4, StreamOwed
  <1>5. CASE OpenFails(l) \/ Registered(l) \/ Retry(l)
    BY <1>5, StreamsUnchanged
    DEF OpenFails, Registered, Retry, netVars, gfdVars, taskVars
  <1>6. CASE DrainCompletes(l) \/ ConnectionFails(l)
    <2>1. UNCHANGED <<toGfd, toLfd, handler, count, cur>>
      BY <1>6
      DEF DrainCompletes, ConnectionFails, netVars, gfdVars, reporterVars
    <2>2. \A m \in Lfds, j \in Slots :
              Owes(m, j)' => Owes(m, j) /\ answer'[m] = answer[m]
      BY <1>6, <2>1, StreamTypes DEF Owes, DrainCompletes, ConnectionFails
    <2> QED
      BY <2>1, <2>2, StreamGivenUp
  <1>7. CASE CloseCompletes(l)
    <2>1. /\ UNCHANGED <<toGfd, handler, count, receiver, answer>>
          /\ cur' = [cur EXCEPT ![l] = 0]
          /\ toLfd' = [toLfd EXCEPT ![l][cur[l]] = <<>>]
      BY <1>7 DEF CloseCompletes, gfdVars, taskVars
    <2>2. \A m \in Lfds, j \in Slots : toLfd'[m][j] \in {toLfd[m][j], <<>>}
      BY <2>1, StreamTypes
    <2>3. \A m \in Lfds, j \in Slots :
              Owes(m, j)' => Owes(m, j) /\ answer'[m] = answer[m]
      BY <2>1, StreamTypes DEF Owes
    <2> QED
      BY <2>1, <2>2, <2>3, StreamGivenUp
  <1> QED
    BY <1>1, <1>2, <1>3, <1>4, <1>5, <1>6, <1>7 DEF LfdStep

\* A step of one handler is no step of another one.
LEMMA StreamOther ==
    ASSUME TypeInv, StreamInv, NEW l \in Lfds, NEW k \in Slots,
           HandlerStep(l, k), NEW m \in Correct, NEW j \in Slots,
           ~(m = l /\ j = k)
    PROVE  StreamOf(m, j)'
  <1>1. UNCHANGED <<cur, receiver, answer>>
    BY DEF HandlerStep, HandleRegister, RejectDuplicate, HandleReport,
           HandleAck, HeartbeatDue, RejectMessage, SessionFails, HandlerEnds,
           lfdVars, reporterVars, taskVars
  <1>2. \A f, S, v : f \in [Lfds -> [Slots -> S]]
                        => [f EXCEPT ![l][k] = v][m][j] = f[m][j]
    BY StreamTypes
  <1>3. CASE HandlerEnds(l, k)
    <2>1. /\ handler'[m][j] = handler[m][j]
          /\ count'[m][j] = count[m][j]
          /\ toGfd'[m][j] = toGfd[m][j]
          /\ toLfd'[m][j] = toLfd[m][j]
      BY <1>2, <1>3, StreamTypes DEF HandlerEnds, CloseHandler
    <2> QED
      BY <1>1, <2>1, StreamFrame DEF StreamInv, Owes
  <1>4. CASE ~HandlerEnds(l, k)
    <2>1. /\ handler'[m][j] = handler[m][j]
          /\ count'[m][j] = count[m][j]
          /\ toGfd'[m][j] = toGfd[m][j]
          /\ toLfd'[m][j] = toLfd[m][j]
      <3>1. CASE HandleRegister(l, k)
        BY <1>2, <3>1, StreamTypes DEF HandleRegister, Consume, SendHeartbeat
      <3>2. CASE HandleReport(l, k) \/ HandleAck(l, k)
        BY <1>2, <3>2, StreamTypes DEF HandleReport, HandleAck, Consume
      <3>3. CASE HeartbeatDue(l, k)
        BY <1>2, <3>3, StreamTypes DEF HeartbeatDue, SendHeartbeat
      <3> QED
        BY <1>4, <3>1, <3>2, <3>3
        DEF HandlerStep, RejectDuplicate, RejectMessage, SessionFails
    <2> QED
      BY <1>1, <2>1, StreamFrame DEF StreamInv, Owes
  <1> QED
    BY <1>3, <1>4

\* Every step of a handler.
LEMMA StreamHandler ==
    ASSUME TypeInv, StreamInv, NEW l \in Lfds, NEW k \in Slots,
           HandlerStep(l, k)
    PROVE  StreamInv'
  <1> SUFFICES ASSUME l \in Correct PROVE StreamOf(l, k)'
    BY StreamOther DEF StreamInv, Correct
  <1>0. /\ toGfd[l][k] \in Seq(Messages)
        /\ count[l][k] \in 1..MaxCount
        /\ StreamOf(l, k)
    BY StreamTypes DEF StreamInv
  <1>1. CASE HandlerEnds(l, k)
    <2>1. handler'[l][k] = "none"
      BY <1>1, StreamTypes DEF HandlerEnds, CloseHandler
    <2> QED
      BY <2>1, StreamEnded
  <1>2. CASE HandleRegister(l, k) \/ HeartbeatDue(l, k)
    <2>1. PICK n \in 1..MaxCount : SendHeartbeat(l, k, n)
      BY <1>0, <1>2, CountTypes DEF HandleRegister, HeartbeatDue
    <2>2. /\ toLfd[l][k] = <<>>
          /\ UNCHANGED <<cur, receiver, answer>>
          /\ ~Owes(l, k)
          /\ AllReports(toGfd'[l][k])
      <3>1. CASE HandleRegister(l, k)
        <4>1. /\ toGfd'[l][k] = Tail(toGfd[l][k])
              /\ toGfd[l][k] # <<>>
              /\ handler[l][k] = "accepted"
          BY <3>1, StreamTypes DEF HandleRegister, HasMessage, Consume
        <4>2. RegisterFirst(toGfd[l][k]) /\ toLfd[l][k] = <<>> /\ ~Owes(l, k)
          BY <1>0, <4>1 DEF StreamOf
        <4> QED
          BY <1>0, <3>1, <4>1, <4>2, ReadQueue
          DEF HandleRegister, lfdVars, reporterVars, taskVars
      <3>2. CASE HeartbeatDue(l, k)
        BY <1>0, <3>2
        DEF StreamOf, HeartbeatDue, lfdVars, reporterVars, taskVars
      <3> QED
        BY <1>2, <3>1, <3>2
    <2>3. /\ handler'[l][k] = "ack"
          /\ count'[l][k] = n
          /\ toLfd'[l][k] = <<n>>
      BY <2>1, <2>2, StreamTypes DEF SendHeartbeat
    <2>4. OneAnswer(toGfd'[l][k], n)
      BY <2>2, ReportsHaveOneAnswer
    <2>5. ~Owes(l, k)'
      BY <2>2 DEF Owes
    <2> QED
      BY <2>2, <2>3, <2>4, <2>5
      DEF StreamOf, AllReports, OneAnswer, HeartbeatAck
  <1>3. CASE HandleReport(l, k)
    <2>1. /\ toGfd'[l][k] = Tail(toGfd[l][k])
          /\ toGfd[l][k] # <<>>
          /\ handler[l][k] \in {"ack", "between"}
          /\ UNCHANGED <<handler, count, toLfd, cur, receiver, answer>>
      BY <1>3, StreamTypes
      DEF HandleReport, HasMessage, Consume, lfdVars, reporterVars, taskVars
    <2>2. /\ AllReports(toGfd[l][k]) => AllReports(toGfd'[l][k])
          /\ OneAnswer(toGfd[l][k], count[l][k])
                => OneAnswer(toGfd'[l][k], count[l][k])
      BY <1>0, <2>1, ReadQueue
    <2>3. Owes(l, k)' <=> Owes(l, k)
      BY <2>1 DEF Owes
    <2> QED
      BY <1>0, <2>1, <2>2, <2>3
      DEF StreamOf, AllReports, OneAnswer, HeartbeatAck
  <1>4. CASE HandleAck(l, k)
    <2>1. /\ toGfd'[l][k] = Tail(toGfd[l][k])
          /\ toGfd[l][k] # <<>>
          /\ Head(toGfd[l][k]) = HeartbeatAck(count[l][k])
          /\ handler[l][k] = "ack"
          /\ handler'[l][k] = "between"
          /\ UNCHANGED <<count, toLfd, cur, receiver, answer>>
      BY <1>4, StreamTypes
      DEF HandleAck, HasMessage, Consume, lfdVars, reporterVars, taskVars
    <2>2. OneAnswer(toGfd[l][k], count[l][k])
      BY <1>0, <2>1 DEF StreamOf
    <2>3. AllReports(toGfd'[l][k])
      BY <1>0, <2>1, <2>2, ReadQueue
    <2>4. ~AllReports(toGfd[l][k])
      <3>1. 1 \in DOMAIN toGfd[l][k] /\ toGfd[l][k][1] = Head(toGfd[l][k])
        BY <1>0, <2>1
      <3> QED
        BY <2>1, <3>1 DEF AllReports, HeartbeatAck
    <2>5. toLfd[l][k] = <<>> /\ ~Owes(l, k)
      BY <1>0, <2>1, <2>4 DEF StreamOf
    <2>6. ~Owes(l, k)'
      BY <2>1, <2>5 DEF Owes
    <2> QED
      BY <2>1, <2>3, <2>5, <2>6 DEF StreamOf, AllReports
  <1> QED
    BY <1>1, <1>2, <1>3, <1>4
    DEF HandlerStep, RejectDuplicate, RejectMessage, SessionFails

\* A new connection, with the registration on it.
LEMMA StreamOpen ==
    ASSUME TypeInv, IdleTasks, StreamInv, NEW l \in Lfds, NEW k \in Slots,
           OpenSucceeds(l, k)
    PROVE  StreamInv'
  <1> SUFFICES ASSUME NEW m \in Correct, NEW j \in Slots PROVE StreamOf(m, j)'
    BY DEF StreamInv, Correct
  <1>0. /\ UNCHANGED <<receiver, answer, count>>
        /\ cur' = [cur EXCEPT ![l] = k]
        /\ receiver[l] = "ready"
    BY DEF OpenSucceeds, taskVars, IdleTasks
  <1>1. CASE m = l /\ j = k
    <2>1. /\ handler'[m][j] = "accepted"
          /\ toGfd'[m][j] = <<Report("register", healthy[l])>>
          /\ toLfd'[m][j] = <<>>
      BY <1>1, StreamTypes DEF OpenSucceeds
    <2>2. RegisterFirst(toGfd'[m][j])
      BY <2>1 DEF RegisterFirst, Report
    <2>3. ~Owes(m, j)'
      BY <1>0, <1>1 DEF Owes
    <2> QED
      BY <2>1, <2>2, <2>3 DEF StreamOf, RegisterFirst
  <1>2. CASE ~(m = l /\ j = k)
    <2>1. /\ handler'[m][j] = handler[m][j]
          /\ toGfd'[m][j] = toGfd[m][j]
          /\ toLfd'[m][j] = toLfd[m][j]
      BY <1>2, StreamTypes DEF OpenSucceeds
    <2>2. Owes(m, j)' => Owes(m, j) /\ answer'[m] = answer[m]
      BY <1>0, <1>2, StreamTypes DEF Owes
    <2> QED
      BY <1>0, <2>1, <2>2, StreamFrame DEF StreamInv
  <1> QED
    BY <1>1, <1>2

\* Every step.
LEMMA StreamNext == TypeInv /\ IdleTasks /\ StreamInv /\ [Next]_vars
                        => StreamInv'
  <1> SUFFICES ASSUME TypeInv, IdleTasks, StreamInv, [Next]_vars
               PROVE  StreamInv'
    OBVIOUS
  <1>1. ASSUME NEW l \in Lfds, LfdStep(l) PROVE StreamInv'
    BY <1>1, StreamReporter
  <1>2. ASSUME NEW l \in Lfds, NEW k \in Slots, HandlerStep(l, k)
        PROVE  StreamInv'
    BY <1>2, StreamHandler
  <1>3. ASSUME NEW l \in Lfds, NEW k \in Slots, OpenSucceeds(l, k)
        PROVE  StreamInv'
    BY <1>3, StreamOpen
  <1>4. ASSUME NEW l \in Lfds, SetHealth(l) \/ LfdStarts(l) PROVE StreamInv'
    BY <1>4, StreamsUnchanged
    DEF SetHealth, LfdStarts, netVars, gfdVars, reporterVars, taskVars
  <1>5. ASSUME NEW l \in Lfds, LfdExits(l) PROVE StreamInv'
    <2>1. /\ UNCHANGED <<toGfd, handler, count>>
          /\ cur' = [cur EXCEPT ![l] = 0]
          /\ receiver' = [receiver EXCEPT ![l] = "ready"]
          /\ answer' = [answer EXCEPT ![l] = 1]
          /\ \/ toLfd' = toLfd
             \/ toLfd' = [toLfd EXCEPT ![l][cur[l]] = <<>>]
      BY <1>5 DEF LfdExits, gfdVars
    <2>2. \A m \in Lfds, j \in Slots : toLfd'[m][j] \in {toLfd[m][j], <<>>}
      <3>1. CASE toLfd' = toLfd
        BY <3>1
      <3>2. CASE toLfd' = [toLfd EXCEPT ![l][cur[l]] = <<>>]
        BY <3>2, StreamTypes
      <3> QED
        BY <2>1, <3>1, <3>2
    <2>3. \A m \in Lfds, j \in Slots :
              Owes(m, j)' => Owes(m, j) /\ answer'[m] = answer[m]
      BY <2>1, StreamTypes DEF Owes
    <2> QED
      BY <2>1, <2>2, <2>3, StreamGivenUp
  <1>6. ASSUME NEW l \in Lfds, NEW k \in Slots,
               LinkBreaks(l, k) \/ TcpAborts(l, k)
        PROVE  StreamInv'
    BY <1>6, StreamsUnchanged
    DEF LinkBreaks, TcpAborts, lfdVars, gfdVars, reporterVars, taskVars
  <1>7. ASSUME NEW l \in Lfds, NEW k \in Slots,
               RogueOpens(l, k) \/ RogueWrites(l, k)
        PROVE  StreamInv'
    <2> SUFFICES ASSUME NEW m \in Correct, NEW j \in Slots
                 PROVE  StreamOf(m, j)'
      BY DEF StreamInv, Correct
    <2>1. m # l /\ UNCHANGED <<count, cur, receiver, answer>>
      BY <1>7
      DEF RogueOpens, RogueWrites, Correct, lfdVars, gfdVars, reporterVars,
          taskVars
    <2>2. /\ handler'[m][j] = handler[m][j]
          /\ toGfd'[m][j] = toGfd[m][j]
          /\ toLfd'[m][j] = toLfd[m][j]
      <3>1. CASE RogueOpens(l, k)
        BY <2>1, <3>1, StreamTypes DEF RogueOpens
      <3>2. CASE RogueWrites(l, k)
        BY <2>1, <3>2, StreamTypes DEF RogueWrites, gfdVars
      <3> QED
        BY <1>7, <3>1, <3>2
    <2> QED
      BY <2>1, <2>2, StreamFrame DEF StreamInv, Owes
  <1>8. CASE GfdExits
    <2>1. \A m \in Correct, j \in Slots : handler'[m][j] = "none"
      BY <1>8, StreamTypes DEF GfdExits, ForEachConnection
    <2> QED
      BY <2>1, StreamEnded DEF StreamInv, Correct
  <1>9. CASE GfdStarts \/ Settle \/ UNCHANGED vars
    BY <1>9, StreamsUnchanged
    DEF GfdStarts, Settle, vars, netVars, lfdVars, gfdVars, reporterVars,
        taskVars
  <1> QED
    BY <1>1, <1>2, <1>3, <1>4, <1>5, <1>6, <1>7, <1>8, <1>9 DEF Next

\* The invariant of the streams holds, whatever the rogue peers send.
THEOREM StreamInvariance == Spec => [](IdleTasks /\ StreamInv)
  <1>1. Init => IdleTasks /\ StreamInv
    BY DEF Init, IdleTasks, StreamInv, StreamOf, ForEachLfd, ForEachConnection,
           Correct
  <1> QED
    BY <1>1, IdleTasksNext, StreamNext, TypeInvariance, PTL DEF Spec

(***************************************************************************)
(* However reports, heartbeat rounds, late answers and new connections     *)
(* overlap, the GFD never ends the session of a correct LFD with a         *)
(* ProtocolError: what its handler meets is what it accepts there.         *)
(***************************************************************************)
THEOREM NeverRejects == Spec => []NeverRejectsLfd
  <1>1. TypeInv /\ StreamInv => NeverRejectsLfd
    <2> SUFFICES ASSUME TypeInv, StreamInv, NEW l \in Correct, NEW k \in Slots,
                        HasMessage(l, k)
                 PROVE  Expected(l, k)
      BY DEF NeverRejectsLfd
    <2> DEFINE queue == toGfd[l][k]
    <2>1. queue \in Seq(Messages) /\ queue # <<>> /\ StreamOf(l, k)
      BY StreamTypes DEF HasMessage, StreamInv
    <2>2. 1 \in DOMAIN queue /\ queue[1] = Head(queue)
      BY <2>1
    <2>3. handler[l][k] \in {"accepted", "ack", "between"}
      BY StreamTypes DEF HasMessage, Handlers
    <2> QED
      BY <2>1, <2>2, <2>3
      DEF StreamOf, Expected, RegisterFirst, AllReports, OneAnswer
  <1> QED
    BY <1>1, TypeInvariance, StreamInvariance, PTL

-----------------------------------------------------------------------------
(***************************************************************************)
(* Updates of a correct LFD.  While report_changes waits for the lock,     *)
(* what it will write is the health; once it has written, the last report  *)
(* that the GFD has not read is; and once that is read, so is the member   *)
(* set.  This has to hold from the registration on, before there is a      *)
(* session, and with an old session of the same LFD still to be ended.     *)
(***************************************************************************)
IsReport(message) == message.type \in {"register", "membership"}

\* No report is left in the queue.
Silent(queue) == \A i \in DOMAIN queue : ~IsReport(queue[i])

\* The last report in the queue, if there is one, is health.
Says(queue, health) ==
    \A i \in DOMAIN queue :
        /\ IsReport(queue[i])
        /\ \A j \in DOMAIN queue : IsReport(queue[j]) => j <= i
        => queue[i].healthy = health

Informed(l) ==
    /\ Says(toGfd[l][cur[l]], healthy[l])
    /\ Silent(toGfd[l][cur[l]])
           => (LfdServers[l] \in members <=> healthy[l] = TRUE)

Connected(l) ==
    /\ reporter[l] \in {"registering", "running"}
    /\ handler[l][cur[l]] # "none"

UpdateOf(l) ==
    Connected(l) /\ changed[l] = FALSE =>
        /\ sender[l] = "blocked" => report[l] = healthy[l]
        /\ sender[l] # "blocked" => Informed(l)

UpdateInv == \A l \in Correct : UpdateOf(l)

\* A report that is written is the last one.
LEMMA SaysReport ==
    ASSUME NEW queue \in Seq(Messages), NEW h \in BOOLEAN
    PROVE  LET longer == Append(queue, Report("membership", h)) IN
           Says(longer, h) /\ ~Silent(longer)
  <1> DEFINE m == Report("membership", h)
             longer == Append(queue, m)
  <1>1. m \in Messages /\ IsReport(m) /\ m.healthy = h
    BY MessageTypes DEF Report, IsReport
  <1> HIDE DEF m
  <1>2. /\ DOMAIN longer = 1..(Len(queue) + 1)
        /\ Len(queue) + 1 \in DOMAIN longer
        /\ longer[Len(queue) + 1] = m
        /\ Len(queue) \in Nat
    BY <1>1
  <1> HIDE DEF longer
  <1>3. \A i \in DOMAIN longer : Len(queue) + 1 <= i => i = Len(queue) + 1
    BY <1>2
  <1>4. Says(longer, h)
    BY <1>1, <1>2, <1>3 DEF Says
  <1>5. ~Silent(longer)
    BY <1>1, <1>2 DEF Silent
  <1> QED
    BY <1>4, <1>5 DEF longer, m

\* An answer between them changes nothing.
LEMMA SaysAnswer ==
    ASSUME NEW queue \in Seq(Messages), NEW h, NEW n \in 1..MaxCount
    PROVE  LET longer == Append(queue, HeartbeatAck(n)) IN
           /\ Says(queue, h) => Says(longer, h)
           /\ Silent(longer) => Silent(queue)
  <1> DEFINE m == HeartbeatAck(n)
             longer == Append(queue, m)
  <1>1. m \in Messages /\ ~IsReport(m)
    BY MessageTypes DEF HeartbeatAck, IsReport
  <1> HIDE DEF m
  <1>2. /\ DOMAIN longer = 1..(Len(queue) + 1)
        /\ DOMAIN queue = 1..Len(queue)
        /\ longer[Len(queue) + 1] = m
        /\ \A i \in 1..Len(queue) : longer[i] = queue[i]
        /\ Len(queue) \in Nat
    BY <1>1
  <1> HIDE DEF longer
  <1>3. /\ DOMAIN queue \subseteq DOMAIN longer
        /\ \A i \in DOMAIN queue : longer[i] = queue[i]
        /\ \A i \in DOMAIN longer : IsReport(longer[i]) => i \in DOMAIN queue
    BY <1>1, <1>2
  <1>4. Says(queue, h) => Says(longer, h)
    BY <1>3 DEF Says
  <1>5. Silent(longer) => Silent(queue)
    BY <1>3 DEF Silent
  <1> QED
    BY <1>4, <1>5 DEF longer, m

\* What is left to say when the first message is read.
LEMMA SaysRead ==
    ASSUME NEW queue \in Seq(Messages), queue # <<>>, NEW h
    PROVE  /\ Says(queue, h) => Says(Tail(queue), h)
           /\ Silent(Tail(queue)) /\ ~IsReport(Head(queue)) => Silent(queue)
           /\ Says(queue, h) /\ Silent(Tail(queue)) /\ IsReport(Head(queue))
                 => Head(queue).healthy = h
  <1>1. /\ DOMAIN Tail(queue) = 1..(Len(queue) - 1)
        /\ DOMAIN queue = 1..Len(queue)
        /\ \A i \in 1..(Len(queue) - 1) : Tail(queue)[i] = queue[i + 1]
        /\ Head(queue) = queue[1]
        /\ Len(queue) \in Nat \ {0}
    OBVIOUS
  <1> DEFINE rest == Tail(queue)
  <1> HIDE DEF rest
  <1>2. /\ DOMAIN rest \subseteq Nat
        /\ \A i \in DOMAIN rest : /\ i + 1 \in DOMAIN queue
                                  /\ rest[i] = queue[i + 1]
        /\ 1 \in DOMAIN queue
        /\ DOMAIN queue \subseteq Nat \ {0}
        /\ \A j \in DOMAIN queue : j # 1 => j - 1 \in DOMAIN rest
                                            /\ queue[j] = rest[j - 1]
    BY <1>1 DEF rest
  <1>3. Says(queue, h) => Says(rest, h)
    <2> SUFFICES ASSUME Says(queue, h), NEW i \in DOMAIN rest,
                        IsReport(rest[i]),
                        \A j \in DOMAIN rest : IsReport(rest[j]) => j <= i
                 PROVE  rest[i].healthy = h
      BY DEF Says
    <2>1. \A j \in DOMAIN queue : IsReport(queue[j]) => j <= i + 1
      <3> SUFFICES ASSUME NEW j \in DOMAIN queue, IsReport(queue[j]), j # 1
                   PROVE  j <= i + 1
        BY <1>2
      <3>1. j - 1 \in DOMAIN rest /\ queue[j] = rest[j - 1]
        BY <1>2
      <3>2. j - 1 <= i
        BY <3>1
      <3> QED
        BY <1>2, <3>2
    <2> QED
      BY <1>2, <2>1 DEF Says
  <1>4. Silent(rest) => \A j \in DOMAIN queue : IsReport(queue[j]) => j = 1
    BY <1>2 DEF Silent
  <1>5. Silent(rest) /\ ~IsReport(queue[1]) => Silent(queue)
    BY <1>4 DEF Silent
  <1>6. Says(queue, h) /\ Silent(rest) /\ IsReport(queue[1])
            => queue[1].healthy = h
    BY <1>2, <1>4 DEF Says
  <1> QED
    BY <1>1, <1>3, <1>5, <1>6 DEF rest

\* The registration is a report.
LEMMA RegisterSays ==
    ASSUME NEW queue \in Seq(Messages), RegisterFirst(queue)
    PROVE  ~Silent(queue)
  <1>1. 1 \in DOMAIN queue
    BY DEF RegisterFirst
  <1> QED
    BY <1>1 DEF RegisterFirst, Silent, IsReport

\* Silence and what is said, as Tells puts it.
LEMMA InformedTells ==
    ASSUME NEW l, healthy[l] \in BOOLEAN, Informed(l)
    PROVE  Tells(l, toGfd[l][cur[l]], healthy[l])
  <1> DEFINE queue == toGfd[l][cur[l]]
             h == healthy[l]
             reports == {i \in DOMAIN queue :
                            queue[i].type \in {"register", "membership"}}
  <1>1. \A i \in DOMAIN queue : i \in reports <=> IsReport(queue[i])
    BY DEF IsReport
  <1>2. ASSUME reports = {} PROVE (LfdServers[l] \in members) = h
    <2>1. Silent(queue)
      BY <1>1, <1>2 DEF Silent
    <2>2. LfdServers[l] \in members <=> h = TRUE
      BY <2>1 DEF Informed
    <2>3. h \in BOOLEAN
      OBVIOUS
    <2> HIDE DEF h
    <2> QED
      BY <2>2, <2>3
  <1>3. ASSUME NEW i \in reports, \A j \in reports : j <= i
        PROVE  queue[i].healthy = h
    <2>1. \A j \in DOMAIN queue : IsReport(queue[j]) => j <= i
      BY <1>1, <1>3
    <2> QED
      BY <1>1, <2>1 DEF Informed, Says
  <1> QED
    BY <1>2, <1>3 DEF Tells

\* A step of one connection that adds no report to it and reads none from it.
LEMMA UpdateFrame ==
    ASSUME NEW l, UpdateOf(l), Connected(l)' => Connected(l),
           changed'[l] = changed[l], report'[l] = report[l],
           healthy'[l] = healthy[l],
           sender'[l] = "blocked" <=> sender[l] = "blocked",
           Connected(l)' /\ Says(toGfd[l][cur[l]], healthy[l])
               => Says(toGfd'[l][cur'[l]], healthy[l]),
           Connected(l)' /\ Silent(toGfd'[l][cur'[l]])
               => /\ Silent(toGfd[l][cur[l]])
                  /\ LfdServers[l] \in members' <=> LfdServers[l] \in members
    PROVE  UpdateOf(l)'
  <1> SUFFICES ASSUME Connected(l)', changed'[l] = FALSE
               PROVE  /\ sender'[l] = "blocked" => report'[l] = healthy'[l]
                      /\ sender'[l] # "blocked" => Informed(l)'
    BY DEF UpdateOf
  <1>1. CASE sender[l] = "blocked"
    BY <1>1 DEF UpdateOf
  <1>2. CASE sender[l] # "blocked"
    <2>1. Informed(l)
      BY <1>2 DEF UpdateOf
    <2>2. Says(toGfd'[l][cur'[l]], healthy'[l])
      BY <2>1 DEF Informed
    <2>3. Silent(toGfd'[l][cur'[l]])
              => (LfdServers[l] \in members' <=> healthy'[l] = TRUE)
      BY <2>1 DEF Informed
    <2> QED
      BY <1>2, <2>2, <2>3 DEF Informed, Says, Silent, IsReport
  <1> QED
    BY <1>1, <1>2

\* A reporter that has no connection, or whose connection has no handler.
LEMMA UpdateNone ==
    ASSUME NEW l, ~Connected(l)'
    PROVE  UpdateOf(l)'
    BY DEF UpdateOf

\* A report is written; at the time its health is that of the reporter, or it
\* has changed since and _changed is set.
LEMMA UpdateWritten ==
    ASSUME TypeInv, NEW l \in Lfds, cur[l] \in Slots,
           UNCHANGED <<cur, healthy>>, NEW h \in BOOLEAN,
           changed'[l] = FALSE => h = healthy[l], WriteReport(l, h)
    PROVE  UpdateOf(l)'
  <1>1. /\ toGfd'[l][cur'[l]] =
               Append(toGfd[l][cur[l]], Report("membership", h))
        /\ sender'[l] # "blocked"
        /\ toGfd[l][cur[l]] \in Seq(Messages)
    BY StreamTypes DEF WriteReport, AfterWrite
  <1>2. Says(toGfd'[l][cur'[l]], h) /\ ~Silent(toGfd'[l][cur'[l]])
    BY <1>1, SaysReport
  <1>3. changed'[l] = FALSE => Informed(l)'
    BY <1>2 DEF Informed, Says, Silent, IsReport
  <1> QED
    BY <1>1, <1>3 DEF UpdateOf

\* An answer is written.
LEMMA UpdateAnswered ==
    ASSUME TypeInv, NEW l \in Lfds, cur[l] \in Slots, UpdateOf(l),
           UNCHANGED <<reporterVars, healthVars, sender, report, gfdVars>>,
           NEW n \in 1..MaxCount, WriteAck(l, n)
    PROVE  UpdateOf(l)'
  <1>1. /\ toGfd'[l][cur'[l]] = Append(toGfd[l][cur[l]], HeartbeatAck(n))
        /\ toGfd[l][cur[l]] \in Seq(Messages)
    BY StreamTypes DEF WriteAck, reporterVars
  <1>2. Connected(l)' <=> Connected(l)
    BY DEF Connected, reporterVars, gfdVars
  <1>3. /\ Says(toGfd[l][cur[l]], healthy[l])
              => Says(toGfd'[l][cur'[l]], healthy[l])
        /\ Silent(toGfd'[l][cur'[l]]) => Silent(toGfd[l][cur[l]])
    BY <1>1, SaysAnswer
  <1> QED
    BY <1>2, <1>3, UpdateFrame DEF healthVars, gfdVars

\* Steps that leave the reports of one LFD alone.
LEMMA UpdateUnchanged ==
    ASSUME NEW l, UpdateOf(l), cur'[l] = cur[l], reporter'[l] = reporter[l],
           changed'[l] = changed[l], report'[l] = report[l],
           healthy'[l] = healthy[l], sender'[l] = sender[l],
           toGfd'[l] = toGfd[l], handler'[l] = handler[l],
           LfdServers[l] \in members' <=> LfdServers[l] \in members
    PROVE  UpdateOf(l)'
  <1>1. Connected(l)' <=> Connected(l)
    BY DEF Connected
  <1>2. toGfd'[l][cur'[l]] = toGfd[l][cur[l]]
    OBVIOUS
  <1> QED
    BY <1>1, <1>2, UpdateFrame

\* A step of one reporter is no step of another one.
LEMMA UpdateOtherReporter ==
    ASSUME TypeInv, UpdateInv, NEW l \in Lfds, LfdStep(l),
           NEW m \in Correct, m # l
    PROVE  UpdateOf(m)'
  <1>1. UNCHANGED <<healthy, gfdVars>>
    BY DEF LfdStep, OpenFails, Registered, ReportChanges, AnswerHeartbeat,
           SenderGetsLock, ReceiverGetsLock, DrainCompletes, ConnectionFails,
           CloseCompletes, Retry, healthVars
  <1>2. cur'[m] = cur[m] /\ reporter'[m] = reporter[m]
    BY StreamTypes
    DEF LfdStep, OpenFails, Registered, ReportChanges, AnswerHeartbeat,
        SenderGetsLock, ReceiverGetsLock, DrainCompletes, ConnectionFails,
        CloseCompletes, Retry, reporterVars
  <1>3. changed'[m] = changed[m] /\ report'[m] = report[m]
    BY StreamTypes
    DEF LfdStep, OpenFails, Registered, ReportChanges, AnswerHeartbeat,
        SenderGetsLock, ReceiverGetsLock, DrainCompletes, ConnectionFails,
        CloseCompletes, Retry, healthVars, taskVars
  <1>4. sender'[m] = sender[m] /\ toGfd'[m] = toGfd[m]
    BY StreamTypes
    DEF LfdStep, OpenFails, Registered, ReportChanges, AnswerHeartbeat,
        SenderGetsLock, ReceiverGetsLock, DrainCompletes, ConnectionFails,
        CloseCompletes, Retry, WriteReport, WriteAck, taskVars, netVars
  <1> QED
    BY <1>1, <1>2, <1>3, <1>4, UpdateUnchanged DEF UpdateInv, gfdVars

\* Every step of a reporter.
LEMMA UpdateReporter ==
    ASSUME TypeInv, UpdateInv, NEW l \in Lfds, LfdStep(l)
    PROVE  UpdateInv'
  <1> SUFFICES ASSUME l \in Correct PROVE UpdateOf(l)'
    BY UpdateOtherReporter DEF UpdateInv, Correct
  <1>0. UpdateOf(l) /\ healthy[l] \in BOOLEAN /\ report[l] \in BOOLEAN
    BY StreamTypes DEF UpdateInv
  <1>a. reporter[l] = "running" => cur[l] \in Slots
    BY StreamTypes DEF TypeInv, HasConnection
  <1>1. CASE ReportChanges(l)
    <2>1. UNCHANGED <<cur, healthy>> /\ cur[l] \in Slots
      BY <1>1, <1>a DEF ReportChanges, reporterVars
    <2>2. CASE WriteReport(l, healthy[l])
      BY <1>0, <2>1, <2>2, UpdateWritten
    <2>3. CASE /\ report' = [report EXCEPT ![l] = healthy[l]]
               /\ sender' = [sender EXCEPT ![l] = "blocked"]
      <3>1. report'[l] = healthy'[l] /\ sender'[l] = "blocked"
        BY <2>1, <2>3, StreamTypes
      <3> QED
        BY <3>1 DEF UpdateOf
    <2> QED
      BY <1>1, <2>2, <2>3 DEF ReportChanges
  <1>2. CASE AnswerHeartbeat(l)
    <2> DEFINE n == Head(toLfd[l][cur[l]])
    <2>1. UNCHANGED <<reporterVars, healthVars, sender, report, gfdVars>>
      BY <1>2 DEF AnswerHeartbeat
    <2>2. cur[l] \in Slots /\ n \in 1..MaxCount
      <3>1. cur[l] \in Slots
        BY <1>2, <1>a DEF AnswerHeartbeat
      <3>2. toLfd[l][cur[l]] \in Seq(1..MaxCount) /\ toLfd[l][cur[l]] # <<>>
        BY <1>2, <3>1, StreamTypes DEF AnswerHeartbeat
      <3> QED
        BY <3>1, <3>2, HeadTailType
    <2>3. CASE WriteAck(l, n)
      <3> HIDE DEF n
      <3> QED
        BY <1>0, <2>1, <2>2, <2>3, UpdateAnswered
    <2>4. CASE UNCHANGED toGfd
      BY <1>0, <2>1, <2>4, UpdateUnchanged DEF reporterVars, healthVars, gfdVars
    <2> QED
      BY <1>2, <2>3, <2>4 DEF AnswerHeartbeat
  <1>3. CASE SenderGetsLock(l)
    <2>1. /\ UNCHANGED <<cur, healthy, changed>> /\ cur[l] \in Slots
          /\ WriteReport(l, report[l]) /\ sender[l] = "blocked"
      BY <1>3, <1>a DEF SenderGetsLock, reporterVars, healthVars
    <2>2. CASE Connected(l)
      <3>1. changed'[l] = FALSE => report[l] = healthy[l]
        BY <1>0, <2>1, <2>2 DEF UpdateOf
      <3> QED
        BY <1>0, <2>1, <3>1, UpdateWritten
    <2>3. CASE ~Connected(l)
      <3>1. ~Connected(l)'
        BY <1>3, <2>3 DEF SenderGetsLock, Connected, reporterVars, gfdVars
      <3> QED
        BY <3>1, UpdateNone
    <2> QED
      BY <2>2, <2>3
  <1>4. CASE ReceiverGetsLock(l)
    <2>1. /\ UNCHANGED <<reporterVars, healthVars, sender, report, gfdVars>>
          /\ cur[l] \in Slots /\ answer[l] \in 1..MaxCount
          /\ WriteAck(l, answer[l])
      BY <1>4, <1>a, StreamTypes DEF ReceiverGetsLock
    <2> QED
      BY <1>0, <2>1, UpdateAnswered
  <1>5. CASE Registered(l) \/ DrainCompletes(l)
    <2>1. UNCHANGED <<netVars, healthVars, cur, report, gfdVars>>
      BY <1>5 DEF Registered, DrainCompletes, reporterVars, taskVars
    <2>2. /\ reporter[l] \in {"registering", "running"}
          /\ sender'[l] = "blocked" <=> sender[l] = "blocked"
      BY <1>5, StreamTypes DEF Registered, DrainCompletes, taskVars
    <2>3. Connected(l)' => Connected(l)
      BY <2>1, <2>2 DEF Connected, gfdVars
    <2> QED
      BY <1>0, <2>1, <2>2, <2>3, UpdateFrame DEF netVars, healthVars, gfdVars
  <1>6. CASE \/ OpenFails(l) \/ ConnectionFails(l) \/ CloseCompletes(l)
             \/ Retry(l)
    <2>1. reporter'[l] \notin {"registering", "running"}
      BY <1>6, StreamTypes
      DEF OpenFails, ConnectionFails, CloseCompletes, Retry
    <2> QED
      BY <2>1, UpdateNone DEF Connected
  <1> QED
    BY <1>1, <1>2, <1>3, <1>4, <1>5, <1>6 DEF LfdStep

\* The end of a handler, or an update, decides on the replica of one LFD only.
LEMMA UpdatesOneServer ==
    ASSUME NEW l \in Lfds, NEW m \in Lfds, m # l, NEW h,
           members' \in {members, Updated(l, h)}
    PROVE  LfdServers[m] \in members' <=> LfdServers[m] \in members
    BY LfdsAssumption DEF Updated

\* A handler step that is on another connection than the reporter's: an old
\* session decides on the member set only while the new one says something.
LEMMA UpdateOldHandler ==
    ASSUME TypeInv, SessionInv, StreamInv, UpdateInv, NEW l \in Correct,
           NEW k \in Slots, HandlerStep(l, k), cur[l] # k
    PROVE  UpdateOf(l)'
  <1>0. l \in Lfds /\ UpdateOf(l)
    BY StreamTypes DEF UpdateInv
  <1>1. UNCHANGED lfdVars
    BY DEF HandlerStep, HandleRegister, RejectDuplicate, HandleReport,
           HandleAck, HeartbeatDue, RejectMessage, SessionFails, HandlerEnds
  <1>2. CASE ~Connected(l)'
    BY <1>2, UpdateNone
  <1>3. CASE Connected(l)'
    <2>1. cur[l] \in Slots
      BY <1>0, <1>1, <1>3, StreamTypes
      DEF TypeInv, HasConnection, Connected, lfdVars, reporterVars
    <2>2. /\ handler'[l][cur[l]] = handler[l][cur[l]]
          /\ toGfd'[l][cur[l]] = toGfd[l][cur[l]]
      <3>1. CASE HandlerEnds(l, k)
        BY <1>0, <2>1, <3>1, StreamTypes DEF HandlerEnds, CloseHandler
      <3>2. CASE HandleRegister(l, k)
        BY <1>0, <2>1, <3>2, StreamTypes
        DEF HandleRegister, Consume, SendHeartbeat
      <3>3. CASE HandleReport(l, k) \/ HandleAck(l, k)
        BY <1>0, <2>1, <3>3, StreamTypes DEF HandleReport, HandleAck, Consume
      <3>4. CASE HeartbeatDue(l, k)
        BY <1>0, <2>1, <3>4, StreamTypes DEF HeartbeatDue, SendHeartbeat
      <3> QED
        BY <3>1, <3>2, <3>3, <3>4
        DEF HandlerStep, RejectDuplicate, RejectMessage, SessionFails
    <2>3. Connected(l)
      BY <1>1, <1>3, <2>2 DEF Connected, lfdVars, reporterVars
    <2>4. ASSUME Silent(toGfd[l][cur[l]]) PROVE members' = members
      <3>1. handler[l][cur[l]] # "accepted"
        BY <1>0, <2>1, <2>4, RegisterSays, StreamTypes DEF StreamInv, StreamOf
      <3>2. handler[l][cur[l]] \in {"ack", "between"}
        BY <1>0, <2>1, <2>3, <3>1, StreamTypes DEF Connected, Handlers
      <3>3. session[l] = cur[l]
        BY <1>0, <2>1, <3>2 DEF SessionInv
      <3>4. session[l] # 0 /\ session[l] # k
        BY <2>1, <3>3, StreamTypes
      <3>5. handler[l][k] \notin {"ack", "between"}
        BY <1>0, <3>4 DEF SessionInv
      <3> QED
        BY <3>4, <3>5
        DEF HandlerStep, HandleRegister, RejectDuplicate, HandleReport,
            HandleAck, HeartbeatDue, RejectMessage, SessionFails, HandlerEnds
    <2> QED
      BY <1>0, <1>1, <2>2, <2>3, <2>4, UpdateFrame
      DEF lfdVars, healthVars, reporterVars, taskVars
  <1> QED
    BY <1>2, <1>3

\* A step of the handler that serves the reporter's connection: the member set
\* takes over what the report says that is read.
LEMMA UpdateHandler ==
    ASSUME TypeInv, UpdateInv, NEW l \in Correct, NEW k \in Slots,
           HandlerStep(l, k), cur[l] = k
    PROVE  UpdateOf(l)'
  <1>0. /\ l \in Lfds /\ UpdateOf(l)
        /\ toGfd[l][k] \in Seq(Messages)
        /\ healthy[l] \in BOOLEAN
    BY StreamTypes DEF UpdateInv
  <1>1. UNCHANGED lfdVars
    BY DEF HandlerStep, HandleRegister, RejectDuplicate, HandleReport,
           HandleAck, HeartbeatDue, RejectMessage, SessionFails, HandlerEnds
  <1>2. CASE HandlerEnds(l, k)
    <2>1. handler'[l][k] = "none" /\ cur'[l] = k
      BY <1>0, <1>1, <1>2, StreamTypes
      DEF HandlerEnds, CloseHandler, lfdVars, reporterVars
    <2> QED
      BY <2>1, UpdateNone DEF Connected
  <1>3. CASE HandleRegister(l, k) \/ HandleReport(l, k)
    <2> DEFINE queue == toGfd[l][k]
    <2>1. /\ toGfd'[l][k] = Tail(queue)
          /\ queue # <<>>
          /\ IsReport(Head(queue))
          /\ members' = Updated(l, Head(queue).healthy)
          /\ handler[l][k] # "none"
      <3>1. Consume(l, k) /\ HasMessage(l, k)
        BY <1>3 DEF HandleRegister, HandleReport
      <3>2. toGfd'[l][k] = Tail(queue) /\ queue # <<>> /\ handler[l][k] # "none"
        BY <1>0, <3>1, StreamTypes DEF Consume, HasMessage
      <3>3. Head(queue).type \in {"register", "membership"}
        BY <1>3 DEF HandleRegister, HandleReport
      <3>4. members' = Updated(l, Head(queue).healthy)
        BY <1>3 DEF HandleRegister, HandleReport
      <3> QED
        BY <3>2, <3>3, <3>4 DEF IsReport
    <2>2. UNCHANGED <<cur, reporter, changed, sender, report, healthy>>
      BY <1>1 DEF lfdVars, reporterVars, healthVars, taskVars
    <2>3. ASSUME Informed(l) PROVE Informed(l)'
      <3>1. Says(queue, healthy[l])
        BY <2>3 DEF Informed
      <3>2. Says(Tail(queue), healthy[l])
        BY <1>0, <2>1, <3>1, SaysRead
      <3>3. ASSUME Silent(Tail(queue))
            PROVE  LfdServers[l] \in members' <=> healthy[l] = TRUE
        <4>1. Head(queue).healthy = healthy[l]
          BY <1>0, <2>1, <3>1, <3>3, SaysRead
        <4>2. members' = Updated(l, healthy[l])
          BY <2>1, <4>1
        <4>3. CASE healthy[l] = TRUE
          BY <4>2, <4>3 DEF Updated
        <4>4. CASE healthy[l] = FALSE
          BY <4>2, <4>4 DEF Updated
        <4> QED
          BY <1>0, <4>3, <4>4
      <3>4. /\ Says(toGfd'[l][cur'[l]], healthy'[l])
            /\ Silent(toGfd'[l][cur'[l]])
                   => (LfdServers[l] \in members' <=> healthy'[l] = TRUE)
        BY <2>1, <2>2, <3>2, <3>3
      <3> QED
        BY <3>4 DEF Informed, Says, Silent, IsReport
    <2>4. Connected(l)' => Connected(l)
      BY <2>1, <2>2 DEF Connected
    <2> QED
      BY <1>0, <2>2, <2>3, <2>4 DEF UpdateOf
  <1>4. CASE HandleAck(l, k)
    <2> DEFINE queue == toGfd[l][k]
    <2>1. /\ toGfd'[l][k] = Tail(queue)
          /\ queue # <<>>
          /\ ~IsReport(Head(queue))
          /\ handler[l][k] # "none"
          /\ members' = members
      BY <1>0, <1>4, StreamTypes
      DEF HandleAck, Consume, HasMessage, IsReport, HeartbeatAck
    <2>2. UNCHANGED <<cur, reporter, changed, sender, report, healthy>>
      BY <1>1 DEF lfdVars, reporterVars, healthVars, taskVars
    <2>3. /\ Says(queue, healthy[l]) => Says(Tail(queue), healthy[l])
          /\ Silent(Tail(queue)) => Silent(queue)
      BY <1>0, <2>1, SaysRead
    <2>4. Connected(l)' => Connected(l)
      BY <2>1, <2>2 DEF Connected
    <2> QED
      BY <1>0, <2>1, <2>2, <2>3, <2>4, UpdateFrame
  <1>5. CASE HeartbeatDue(l, k)
    <2>1. /\ handler[l][k] # "none"
          /\ UNCHANGED <<toGfd, members>>
      BY <1>5 DEF HeartbeatDue
    <2>2. UNCHANGED <<cur, reporter, changed, sender, report, healthy>>
      BY <1>1 DEF lfdVars, reporterVars, healthVars, taskVars
    <2>3. Connected(l)' => Connected(l)
      BY <2>1, <2>2 DEF Connected
    <2> QED
      BY <1>0, <2>1, <2>2, <2>3, UpdateFrame
  <1> QED
    BY <1>2, <1>3, <1>4, <1>5
    DEF HandlerStep, RejectDuplicate, RejectMessage, SessionFails

\* A handler step of another LFD.
LEMMA UpdateOtherHandler ==
    ASSUME TypeInv, UpdateInv, NEW l \in Lfds, NEW k \in Slots,
           HandlerStep(l, k), NEW m \in Correct, m # l
    PROVE  UpdateOf(m)'
  <1>1. UNCHANGED lfdVars
    BY DEF HandlerStep, HandleRegister, RejectDuplicate, HandleReport,
           HandleAck, HeartbeatDue, RejectMessage, SessionFails, HandlerEnds
  <1>2. toGfd'[m] = toGfd[m]
    BY StreamTypes
    DEF HandlerStep, HandleRegister, RejectDuplicate, HandleReport, HandleAck,
        HeartbeatDue, RejectMessage, SessionFails, HandlerEnds, CloseHandler,
        Consume
  <1>3. handler'[m] = handler[m]
    BY StreamTypes
    DEF HandlerStep, HandleRegister, RejectDuplicate, HandleReport, HandleAck,
        HeartbeatDue, RejectMessage, SessionFails, HandlerEnds, CloseHandler,
        SendHeartbeat
  <1>4. \E h : members' \in {members, Updated(l, h)}
    BY DEF HandlerStep, HandleRegister, RejectDuplicate, HandleReport,
           HandleAck, HeartbeatDue, RejectMessage, SessionFails, HandlerEnds
  <1>5. LfdServers[m] \in members' <=> LfdServers[m] \in members
    BY <1>4, UpdatesOneServer, StreamTypes
  <1> QED
    BY <1>1, <1>2, <1>3, <1>5, UpdateUnchanged
    DEF UpdateInv, lfdVars, reporterVars, healthVars, taskVars

\* A new connection: the registration says the health.
LEMMA UpdateOpen ==
    ASSUME TypeInv, IdleTasks, UpdateInv, NEW l \in Lfds, NEW k \in Slots,
           OpenSucceeds(l, k)
    PROVE  UpdateInv'
  <1> SUFFICES ASSUME NEW m \in Correct PROVE UpdateOf(m)'
    BY DEF UpdateInv, Correct
  <1>0. UNCHANGED <<healthy, taskVars, members>>
    BY DEF OpenSucceeds
  <1>1. CASE m = l
    <2>1. /\ cur'[l] = k
          /\ toGfd'[l][k] = <<Report("register", healthy[l])>>
          /\ sender'[l] # "blocked"
      BY <1>0, StreamTypes DEF OpenSucceeds, IdleTasks, taskVars
    <2>2. Says(<<Report("register", healthy[l])>>, healthy[l])
      BY DEF Says, Report
    <2>3. ~Silent(<<Report("register", healthy[l])>>)
      BY DEF Silent, IsReport, Report
    <2>4. Says(toGfd'[l][cur'[l]], healthy'[l]) /\ ~Silent(toGfd'[l][cur'[l]])
      BY <1>0, <2>1, <2>2, <2>3
    <2>5. Informed(l)'
      BY <2>4 DEF Informed, Says, Silent, IsReport
    <2> QED
      BY <1>1, <2>1, <2>5 DEF UpdateOf
  <1>2. CASE m # l
    <2>1. /\ cur'[m] = cur[m] /\ reporter'[m] = reporter[m]
          /\ changed'[m] = changed[m] /\ toGfd'[m] = toGfd[m]
          /\ handler'[m] = handler[m]
      BY <1>2, StreamTypes DEF OpenSucceeds
    <2> QED
      BY <1>0, <2>1, UpdateUnchanged DEF UpdateInv, taskVars
  <1> QED
    BY <1>1, <1>2

\* Every step.
LEMMA UpdateNext ==
    TypeInv /\ SessionInv /\ IdleTasks /\ StreamInv /\ UpdateInv /\ [Next]_vars
        => UpdateInv'
  <1> SUFFICES ASSUME TypeInv, SessionInv, IdleTasks, StreamInv, UpdateInv,
                      [Next]_vars
               PROVE  UpdateInv'
    OBVIOUS
  <1>1. ASSUME NEW l \in Lfds, LfdStep(l) PROVE UpdateInv'
    BY <1>1, UpdateReporter
  <1>2. ASSUME NEW l \in Lfds, NEW k \in Slots, HandlerStep(l, k)
        PROVE  UpdateInv'
    BY <1>2, UpdateHandler, UpdateOldHandler, UpdateOtherHandler
    DEF UpdateInv, Correct
  <1>3. ASSUME NEW l \in Lfds, NEW k \in Slots, OpenSucceeds(l, k)
        PROVE  UpdateInv'
    BY <1>3, UpdateOpen
  <1>4. ASSUME NEW l \in Lfds, SetHealth(l) \/ LfdExits(l) \/ LfdStarts(l)
        PROVE  UpdateInv'
    <2> SUFFICES ASSUME NEW m \in Correct PROVE UpdateOf(m)'
      BY DEF UpdateInv, Correct
    <2>1. CASE m = l /\ SetHealth(l)
      <3>1. changed'[l] = TRUE
        BY <2>1, StreamTypes DEF SetHealth
      <3> QED
        BY <2>1, <3>1 DEF UpdateOf
    <2>2. CASE m = l /\ ~SetHealth(l)
      <3>1. reporter'[l] \notin {"registering", "running"}
        BY <1>4, <2>2, StreamTypes DEF LfdExits, LfdStarts
      <3> QED
        BY <2>2, <3>1, UpdateNone DEF Connected
    <2>3. CASE m # l
      <3>1. /\ UNCHANGED <<toGfd, handler, members>>
            /\ cur'[m] = cur[m] /\ reporter'[m] = reporter[m]
            /\ changed'[m] = changed[m] /\ healthy'[m] = healthy[m]
            /\ sender'[m] = sender[m] /\ report'[m] = report[m]
        BY <1>4, <2>3, StreamTypes
        DEF SetHealth, LfdExits, LfdStarts, netVars, gfdVars, reporterVars,
            taskVars, healthVars
      <3> QED
        BY <3>1, UpdateUnchanged DEF UpdateInv
    <2> QED
      BY <2>1, <2>2, <2>3
  <1>5. ASSUME NEW l \in Lfds, NEW k \in Slots,
               RogueOpens(l, k) \/ RogueWrites(l, k)
        PROVE  UpdateInv'
    <2> SUFFICES ASSUME NEW m \in Correct PROVE UpdateOf(m)'
      BY DEF UpdateInv, Correct
    <2>1. m # l /\ UNCHANGED <<lfdVars, members>>
      BY <1>5 DEF RogueOpens, RogueWrites, Correct, gfdVars
    <2>2. handler'[m] = handler[m] /\ toGfd'[m] = toGfd[m]
      BY <1>5, <2>1, StreamTypes DEF RogueOpens, RogueWrites, gfdVars
    <2> QED
      BY <2>1, <2>2, UpdateUnchanged
      DEF UpdateInv, lfdVars, reporterVars, healthVars, taskVars
  <1>6. CASE GfdExits
    <2>1. \A m \in Correct : ~Connected(m)'
      <3> SUFFICES ASSUME NEW m \in Correct, Connected(m)' PROVE FALSE
        OBVIOUS
      <3>1. m \in Lfds /\ UNCHANGED <<reporter, cur>>
        BY <1>6, StreamTypes DEF GfdExits, lfdVars, reporterVars
      <3>2. cur[m] \in Slots
        BY <3>1, StreamTypes DEF Connected, TypeInv, HasConnection
      <3>3. handler'[m][cur'[m]] = "none"
        BY <1>6, <3>1, <3>2 DEF GfdExits, ForEachConnection
      <3> QED
        BY <3>3 DEF Connected
    <2> QED
      BY <2>1, UpdateNone DEF UpdateInv, Correct
  <1>7. CASE \/ \E l \in Lfds, k \in Slots : LinkBreaks(l, k) \/ TcpAborts(l, k)
             \/ GfdStarts \/ Settle \/ UNCHANGED vars
    <2>1. UNCHANGED <<lfdVars, toGfd, handler, members>>
      BY <1>7
      DEF LinkBreaks, TcpAborts, GfdStarts, Settle, vars, netVars, gfdVars
    <2> SUFFICES ASSUME NEW m \in Correct PROVE UpdateOf(m)'
      BY DEF UpdateInv, Correct
    <2> QED
      BY <2>1, UpdateUnchanged
      DEF UpdateInv, lfdVars, reporterVars, healthVars, taskVars
  <1> QED
    BY <1>1, <1>2, <1>3, <1>4, <1>5, <1>6, <1>7 DEF Next

\* The invariant of the updates holds.
THEOREM UpdateInvariance == Spec => []UpdateInv
  <1>1. Init => UpdateInv
    BY DEF Init, UpdateInv, UpdateOf, Connected, Correct, ForEachLfd
  <1> QED
    BY <1>1, UpdateNext, TypeInvariance, SessionInvariance, StreamInvariance,
       PTL DEF Spec

(***************************************************************************)
(* No change of health is lost between set_health and the GFD: over a      *)
(* registered connection, what the GFD has and will read ends with the     *)
(* health of the reporter unless report_changes still has to send it.      *)
(***************************************************************************)
THEOREM NoUpdateIsLost == Spec => []NoLostUpdate
  <1>1. TypeInv /\ SessionInv /\ UpdateInv => NoLostUpdate
    <2> SUFFICES ASSUME TypeInv, SessionInv, UpdateInv, NEW l \in Correct,
                        reporter[l] = "running", session[l] = cur[l],
                        ~changed[l], sender[l] # "blocked"
                 PROVE  Tells(l, toGfd[l][cur[l]], healthy[l])
      BY DEF NoLostUpdate
    <2>1. l \in Lfds /\ healthy[l] \in BOOLEAN /\ changed[l] \in BOOLEAN
      BY StreamTypes
    <2>2. cur[l] \in Slots
      BY <2>1, StreamTypes DEF TypeInv, HasConnection
    <2>3. Connected(l)
      BY <2>1, <2>2 DEF SessionInv, Connected
    <2>4. changed[l] = FALSE
      BY <2>1
    <2>5. Informed(l)
      BY <2>3, <2>4 DEF UpdateInv, UpdateOf
    <2> QED
      BY <2>1, <2>5, InformedTells
  <1> QED
    BY <1>1, TypeInvariance, SessionInvariance, UpdateInvariance, PTL

=============================================================================
