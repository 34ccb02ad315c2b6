----------------------- MODULE ActiveReplicationProofs -----------------------
(***************************************************************************)
(* ActiveReplication, for all sets of clients and replicas and all bounds. *)
(* The first part holds whatever the peers do: type correctness, the       *)
(* client's numbering and the detection of divergence.  The second is      *)
(* exactly-once execution.                                                 *)
(***************************************************************************)
EXTENDS ActiveReplication, ClientListenerProofs, SequenceTheorems

\* What a faulty peer sends has the shape of a response.
LEMMA FaultyResponsesType == FaultyResponses \subseteq Responses
BY BoundsAssumption DEF FaultyResponses, ClientReply, ErrorReply, Responses,
                        ResponseTypes

\* Pruning only removes entries.
LEMMA PrunedType ==
    ASSUME NEW values \in [1..MaxRequest -> Nat \cup {None}],
           NEW connections, NEW received
    PROVE  /\ Pruned(values, connections, received)
                  \in [1..MaxRequest -> Nat \cup {None}]
           /\ \A n \in 1..MaxRequest :
                 Pruned(values, connections, received)[n] =
                    IF \E r \in Replicas : /\ connections[r] \in TaskPending
                                           /\ received[r] < n
                    THEN values[n] ELSE None
BY DEF Pruned

\* The actions of the caller keep the types.
LEMMA CallerType ==
    ASSUME TypeOK, NEW c \in Clients, Caller(c) \/ Close(c) \/ Exit(c)
    PROVE  TypeOK'
<1> USE DEF TypeOK, Phases, Tasks, serverVars, channelVars, taskVars, connVars,
            deliveryVars, callerVars
<1>1. CASE OpenReplicas(c)
  BY <1>1 DEF OpenReplicas
<1>2. Append(answers[c], lastReply[c].value) \in Seq(Nat)
  BY DEF Responses
<1>3. CASE ReturnLateReply(c)
  BY <1>2, <1>3 DEF ReturnLateReply
<1>4. CASE NoReplicas(c)
  BY <1>4 DEF NoReplicas
<1>5. CASE Broadcast(c)
  BY <1>5 DEF Broadcast
<1>6. CASE BroadcastDone(c)
  BY <1>6 DEF BroadcastDone
<1>7. CASE AwaitedReply(c)
  BY <1>2, <1>7 DEF AwaitedReply
<1>8. CASE ReplyTimeout(c)
  BY <1>8 DEF ReplyTimeout
<1>9. CASE Close(c)
  <2>1. conn' \in [Clients -> [Replicas -> Conns]]
    BY <1>9 DEF Close, Conns
  <2>2. deliveredValues' \in [Clients -> [1..MaxRequest -> Nat \cup {None}]]
    BY <1>9, PrunedType DEF Close
  <2>3. /\ phase' \in [Clients -> Phases]
        /\ task' \in [Clients -> [Replicas -> Tasks]]
        /\ replies' \in [Clients -> [Replicas -> Seq(Responses)]]
        /\ UNCHANGED <<up, counters, lastReplies, requests, lost, lastSent,
                       lastReceived, nextRequestNum, delivered, lastReply,
                       divergence, answers>>
    BY <1>9 DEF Close
  <2> QED
    BY <2>1, <2>2, <2>3
<1>10. CASE Exit(c)
  BY <1>10 DEF Exit
<1> QED
  BY <1>1, <1>3, <1>4, <1>5, <1>6, <1>7, <1>8, <1>9, <1>10 DEF Caller

\* The actions of a sender keep the types.
LEMMA SenderType ==
    ASSUME TypeOK, NEW c \in Clients, NEW r \in Replicas,
           Opening(c, r) \/ Sender(c, r)
    PROVE  TypeOK'
<1> USE DEF TypeOK, Tasks, Conns, serverVars, channelVars, taskVars, connVars,
            deliveryVars, callerVars
<1>1. CASE OpenSucceeds(c, r)
  BY <1>1 DEF OpenSucceeds
<1>2. CASE OpenFails(c, r)
  BY <1>2 DEF OpenFails
<1>3. CASE WriteRequest(c, r)
  <2>1. Append(requests[c][r], nextRequestNum[c]) \in Seq(Nat)
    OBVIOUS
  <2> QED
    BY <1>3, <2>1 DEF WriteRequest
<1>4. CASE WriteToBroken(c, r)
  <2>1. CASE task' = [task EXCEPT ![c][r] = "none"] /\ UNCHANGED conn
    BY <1>4, <2>1 DEF WriteToBroken
  <2>2. CASE task' = [task EXCEPT ![c][r] = "closing"] /\ RetiredBySender(c, r)
    BY <1>4, <2>2 DEF WriteToBroken, RetiredBySender
  <2> QED
    BY <1>4, <2>1, <2>2 DEF WriteToBroken
<1>5. CASE DrainCompletes(c, r)
  BY <1>5 DEF DrainCompletes
<1>6. CASE WriteFails(c, r)
  BY <1>6 DEF WriteFails, RetiredBySender
<1>7. CASE CloseCompletes(c, r)
  BY <1>7 DEF CloseCompletes
<1> QED
  BY <1>1, <1>2, <1>3, <1>4, <1>5, <1>6, <1>7 DEF Opening, Sender

\* The reply at the head of a connection.
LEMMA HeadReply ==
    ASSUME TypeOK, NEW c \in Clients, NEW r \in Replicas,
           replies[c][r] # <<>>
    PROVE  /\ Head(replies[c][r]) \in Responses
           /\ Head(replies[c][r]).num \in Nat
           /\ Head(replies[c][r]).value \in Nat
           /\ Tail(replies[c][r]) \in Seq(Responses)
<1>1. replies[c][r] \in Seq(Responses)
  BY DEF TypeOK
<1>2. Head(replies[c][r]) \in Responses /\ Tail(replies[c][r]) \in Seq(Responses)
  BY <1>1
<1> QED
  BY <1>2 DEF Responses

\* The actions of a receiver keep the types.
LEMMA ReceiverType ==
    ASSUME TypeOK, NEW c \in Clients, NEW r \in Replicas, Receiver(c, r)
    PROVE  TypeOK'
<1> USE DEF serverVars, channelVars, taskVars, connVars, deliveryVars, callerVars
<1> DEFINE reply == Head(replies[c][r])
           values == [deliveredValues[c] EXCEPT ![reply.num] = reply.value]
<1>1. deliveredValues[c] \in [1..MaxRequest -> Nat \cup {None}]
  BY DEF TypeOK
<1>2. CASE DeliverReply(c, r)
  <2>1. /\ reply \in Responses /\ reply.num \in Nat /\ reply.value \in Nat
        /\ Tail(replies[c][r]) \in Seq(Responses)
    BY <1>2, HeadReply DEF DeliverReply, HasReply
  <2>2. values \in [1..MaxRequest -> Nat \cup {None}]
    BY <1>1, <2>1
  <2> HIDE DEF values
  <2>3. Pruned(values, conn[c], lastReceived'[c])
            \in [1..MaxRequest -> Nat \cup {None}]
    BY <2>2, PrunedType
  <2>4. deliveredValues' = [deliveredValues EXCEPT ![c] =
                               Pruned(values, conn[c], lastReceived'[c])]
    BY <1>2 DEF DeliverReply, values
  <2> HIDE DEF reply
  <2>5. /\ delivered' = [delivered EXCEPT ![c] = reply.num]
        /\ lastReply' = [lastReply EXCEPT ![c] = reply]
        /\ lastReceived' = [lastReceived EXCEPT ![c][r] = reply.num]
        /\ replies' = [replies EXCEPT ![c][r] = Tail(@)]
        /\ UNCHANGED <<serverVars, requests, lost, taskVars, conn, lastSent,
                       divergence, callerVars>>
    BY <1>2 DEF DeliverReply, reply
  <2> QED
    BY <2>1, <2>3, <2>4, <2>5 DEF TypeOK
<1>3. CASE DiscardDuplicate(c, r)
  <2>1. /\ reply \in Responses /\ reply.num \in Nat
        /\ Tail(replies[c][r]) \in Seq(Responses)
    BY <1>3, HeadReply DEF DiscardDuplicate, HasReply
  <2>2. Pruned(deliveredValues[c], conn[c], lastReceived'[c])
            \in [1..MaxRequest -> Nat \cup {None}]
    BY <1>1, PrunedType
  <2>3. /\ divergence' = [divergence EXCEPT ![c] =
                             @ \/ Contradicts(deliveredValues[c], reply)]
        /\ lastReceived' = [lastReceived EXCEPT ![c][r] = reply.num]
        /\ deliveredValues' = [deliveredValues EXCEPT ![c] =
              Pruned(deliveredValues[c], conn[c], lastReceived'[c])]
        /\ replies' = [replies EXCEPT ![c][r] = Tail(@)]
        /\ UNCHANGED <<serverVars, requests, lost, taskVars, conn, lastSent,
                       delivered, lastReply, callerVars>>
    BY <1>3 DEF DiscardDuplicate
  <2>4. Contradicts(deliveredValues[c], reply) \in BOOLEAN
    BY DEF Contradicts
  <2> HIDE DEF reply
  <2> QED
    BY <2>1, <2>2, <2>3, <2>4 DEF TypeOK
<1>4. CASE RejectReply(c, r)
  <2>1. reply.num \in Nat
    BY <1>4, HeadReply DEF RejectReply, HasReply
  <2> DEFINE received == IF Acceptable(c, r, reply) THEN reply.num
                                                    ELSE lastReceived[c][r]
  <2>2. received \in Nat
    BY <2>1 DEF TypeOK
  <2>3. lastReceived' = [lastReceived EXCEPT ![c][r] = received]
    BY <1>4 DEF RejectReply, TypeOK
  <2>4. /\ conn' = [conn EXCEPT ![c][r] = "stopped"]
        /\ replies' = [replies EXCEPT ![c][r] = <<>>]
        /\ UNCHANGED <<serverVars, requests, lost, taskVars, lastSent,
                       deliveryVars, callerVars>>
    BY <1>4 DEF RejectReply
  <2> HIDE DEF received
  <2> QED
    BY <2>2, <2>3, <2>4 DEF TypeOK, Conns
<1>5. CASE ReceiveEof(c, r)
  BY <1>5 DEF ReceiveEof, TypeOK, Conns
<1>6. CASE ReceiverDone(c, r)
  BY <1>1, <1>6, PrunedType DEF ReceiverDone, TypeOK, Conns
<1> QED
  BY <1>2, <1>3, <1>4, <1>5, <1>6 DEF Receiver

\* A replica, a fault and a faulty peer keep the types.
LEMMA PeerType ==
    ASSUME TypeOK, NEW c \in Clients, NEW r \in Replicas,
           Serve(r, c) \/ Disconnect(c, r) \/ FaultyReply(r, c) \/ FaultyRead(r, c)
    PROVE  TypeOK'
<1> USE DEF TypeOK, serverVars, channelVars, taskVars, connVars, deliveryVars,
            callerVars
<1>1. ASSUME requests[c][r] # <<>>
      PROVE  Head(requests[c][r]) \in Nat /\ Tail(requests[c][r]) \in Seq(Nat)
  BY <1>1
<1>2. CASE Serve(r, c)
  <2> DEFINE request == Request(c, Head(requests[c][r]), "increment")
             entry == lastReplies[r][c]
  <2>1. /\ request \in [client : Clients, num : Nat, op : Operations]
        /\ Tail(requests[c][r]) \in Seq(Nat)
    BY <1>1, <1>2 DEF Serve, Request, Operations
  <2>2. entry \in Entries /\ counters[r] \in [Clients -> Nat]
    OBVIOUS
  <2> HIDE DEF request, entry
  <2>3. /\ Response(counters[r], entry, request) \in Responses
        /\ CountersAfter(counters[r], entry, request) \in [Clients -> Nat]
        /\ EntryAfter(counters[r], entry, request) \in Entries
    BY <2>1, <2>2, ResponseType, TablesType
  <2>4. Append(replies[c][r], Response(counters[r], entry, request))
            \in Seq(Responses)
    BY <2>3
  <2>5. /\ counters' = [counters EXCEPT ![r] =
                           CountersAfter(@, entry, request)]
        /\ lastReplies' = [lastReplies EXCEPT ![r][c] =
                           EntryAfter(counters[r], entry, request)]
        /\ replies' = [replies EXCEPT ![c][r] =
              IF conn[c][r] = "live" /\ ~lost[c][r]
              THEN Append(@, Response(counters[r], entry, request)) ELSE @]
        /\ requests' = [requests EXCEPT ![c][r] = Tail(@)]
        /\ UNCHANGED <<up, lost, taskVars, connVars, deliveryVars, callerVars>>
    BY <1>2 DEF Serve, request, entry
  <2>6. counters' \in [Replicas -> [Clients -> Nat]]
    BY <2>3, <2>5
  <2>7. lastReplies' \in [Replicas -> [Clients -> Entries]]
    BY <2>3, <2>5
  <2>8. /\ replies' \in [Clients -> [Replicas -> Seq(Responses)]]
        /\ requests' \in [Clients -> [Replicas -> Seq(Nat)]]
    BY <2>1, <2>4, <2>5
  <2> QED
    BY <2>5, <2>6, <2>7, <2>8
<1>3. CASE Disconnect(c, r)
  <2>1. \A k \in 0..Len(requests[c][r]) :
            SubSeq(requests[c][r], 1, k) \in Seq(Nat)
    OBVIOUS
  <2>2. PICK k \in 0..Len(requests[c][r]) :
            requests' = [requests EXCEPT ![c][r] = SubSeq(requests[c][r], 1, k)]
    BY <1>3 DEF Disconnect
  <2>3. requests' \in [Clients -> [Replicas -> Seq(Nat)]]
    BY <2>1, <2>2
  <2>4. lost' \in [Clients -> [Replicas -> BOOLEAN]]
    BY <1>3 DEF Disconnect
  <2> QED
    BY <1>3, <2>3, <2>4 DEF Disconnect
<1>4. CASE FaultyReply(r, c)
  <2>1. \A response \in FaultyResponses :
            Append(replies[c][r], response) \in Seq(Responses)
    BY FaultyResponsesType
  <2> QED
    BY <1>4, <2>1 DEF FaultyReply
<1>5. CASE FaultyRead(r, c)
  BY <1>1, <1>5 DEF FaultyRead
<1> QED
  BY <1>2, <1>3, <1>4, <1>5

\* A crash and a restart keep the types.
LEMMA ProcessType ==
    ASSUME TypeOK, NEW r \in Replicas, Crash(r) \/ Restart(r)
    PROVE  TypeOK'
<1> USE DEF TypeOK, serverVars, channelVars, taskVars, connVars, deliveryVars,
            callerVars
<1>1. CASE Crash(r)
  BY <1>1 DEF Crash
<1>2. CASE Restart(r)
  BY <1>2 DEF Restart, InitialCounters, NoEntry, Entry, Entries, Operations,
              ErrorReply, Responses, ResponseTypes
<1> QED
  BY <1>1, <1>2

\* The initial state has its types.
LEMMA InitType == Init => TypeOK
BY DEF Init, TypeOK, InitialCounters, NoEntry, Entry, Entries, Operations,
         ErrorReply, Responses, ResponseTypes, Phases, Tasks, Conns,
         ForEachConnection

\* Every step keeps the types.
LEMMA NextType == TypeOK /\ [Next]_vars => TypeOK'
<1> SUFFICES ASSUME TypeOK, [Next]_vars
             PROVE  TypeOK'
  OBVIOUS
<1>1. CASE UNCHANGED vars
  BY <1>1 DEF TypeOK, vars, serverVars, channelVars, taskVars, connVars,
              deliveryVars, callerVars
<1>2. CASE \E c \in Clients : Caller(c) \/ Close(c) \/ Exit(c)
  BY <1>2, CallerType
<1>3. CASE \E c \in Clients, r \in Replicas : Connection(c, r)
  BY <1>3, SenderType, ReceiverType, PeerType DEF Connection
<1>4. CASE \E r \in Replicas : Crash(r) \/ Restart(r)
  BY <1>4, ProcessType
<1> QED
  BY <1>1, <1>2, <1>3, <1>4 DEF Next

\* Type correctness.
THEOREM TypeCorrect == Spec => []TypeOK
BY InitType, NextType, PTL DEF Spec

-----------------------------------------------------------------------------
(***************************************************************************)
(* The client's numbering, whatever the peers send.  A send coroutine runs *)
(* only inside the gather of the broadcast, so the number it writes is the *)
(* one the call is about; a connection has received at most what was sent  *)
(* on it, and nothing beyond the outstanding request was ever sent.        *)
(***************************************************************************)
TaskInv ==
    \A c \in Clients, r \in Replicas :
        /\ task[c][r] = "opening" => phase[c] = "connecting"
        /\ task[c][r] \in {"sending", "draining", "closing"} =>
              phase[c] = "sending" /\ nextRequestNum[c] <= MaxRequest

CallerInv ==
    \A c \in Clients :
        /\ nextRequestNum[c] >= 1
        /\ delivered[c] \in {nextRequestNum[c] - 1, nextRequestNum[c]}
        /\ delivered[c] <= MaxRequest
        /\ Len(answers[c]) = nextRequestNum[c] - 1
        /\ phase[c] \in {"new", "connecting"} => delivered[c] = 0

SentInv ==
    \A c \in Clients, r \in Replicas :
        /\ lastReceived[c][r] <= lastSent[c][r]
        /\ lastSent[c][r] <= nextRequestNum[c]
        /\ lastSent[c][r] <= MaxRequest
        /\ phase[c] \in {"new", "connecting"} => lastSent[c][r] = 0

\* The types of the variables the numbering is about.
NumberTypes ==
    /\ phase \in [Clients -> Phases]
    /\ task \in [Clients -> [Replicas -> Tasks]]
    /\ lastSent \in [Clients -> [Replicas -> Nat]]
    /\ lastReceived \in [Clients -> [Replicas -> Nat]]
    /\ nextRequestNum \in [Clients -> Nat]
    /\ delivered \in [Clients -> Nat]
    /\ answers \in [Clients -> Seq(Nat)]

NumberInv == TypeOK /\ TaskInv /\ CallerInv /\ SentInv

\* The numbering leaves no room for a reply beyond the outstanding request.
LEMMA AcceptableIsExpected ==
    ASSUME NumberInv, NEW c \in Clients, NEW r \in Replicas,
           replies[c][r] # <<>>, Acceptable(c, r, Head(replies[c][r]))
    PROVE  ~Unexpected(c, Head(replies[c][r]))
<1>1. Head(replies[c][r]).num \in Nat
  BY HeadReply DEF NumberInv
<1>2. /\ nextRequestNum[c] \in Nat /\ delivered[c] \in Nat
      /\ lastSent[c][r] \in Nat
  BY DEF NumberInv, TypeOK
<1>3. /\ delivered[c] \in {nextRequestNum[c] - 1, nextRequestNum[c]}
      /\ lastSent[c][r] <= nextRequestNum[c]
  BY DEF NumberInv, CallerInv, SentInv
<1> QED
  BY <1>1, <1>2, <1>3 DEF Acceptable, Unexpected

\* The caller keeps the numbering.
LEMMA CallerNumbers ==
    ASSUME NumberInv, TypeOK', NEW c \in Clients,
           Caller(c) \/ Close(c) \/ Exit(c)
    PROVE  NumberInv'
<1>1. NumberTypes
  BY DEF NumberInv, TypeOK, NumberTypes
<1> SUFFICES TaskInv' /\ CallerInv' /\ SentInv'
  BY DEF NumberInv
<1> USE <1>1, BoundsAssumption
    DEF NumberInv, NumberTypes, TaskInv, CallerInv, SentInv,
        taskVars, connVars, deliveryVars, callerVars
<1>2. CASE OpenReplicas(c)
  <2>1. TaskInv'
    BY <1>2 DEF OpenReplicas
  <2>2. CallerInv'
    BY <1>2 DEF OpenReplicas
  <2>3. SentInv'
    BY <1>2 DEF OpenReplicas
  <2> QED
    BY <2>1, <2>2, <2>3
<1>3. CASE ReturnLateReply(c)
  <2>1. TaskInv'
    BY <1>3 DEF ReturnLateReply, AtEntry, Gathered
  <2>2. CallerInv'
    BY <1>3 DEF ReturnLateReply, AtEntry, Gathered
  <2>3. SentInv'
    BY <1>3 DEF ReturnLateReply, AtEntry, Gathered
  <2> QED
    BY <2>1, <2>2, <2>3
<1>4. CASE NoReplicas(c)
  <2>1. TaskInv'
    BY <1>4 DEF NoReplicas, AtEntry, Gathered
  <2>2. CallerInv'
    BY <1>4 DEF NoReplicas, AtEntry, Gathered
  <2>3. SentInv'
    BY <1>4 DEF NoReplicas, AtEntry, Gathered
  <2> QED
    BY <2>1, <2>2, <2>3
<1>5. CASE Broadcast(c)
  <2>1. TaskInv'
    BY <1>5 DEF Broadcast, AtEntry, Gathered
  <2>2. CallerInv'
    BY <1>5 DEF Broadcast, AtEntry, Gathered
  <2>3. SentInv'
    BY <1>5 DEF Broadcast, AtEntry, Gathered
  <2> QED
    BY <2>1, <2>2, <2>3
<1>6. CASE BroadcastDone(c)
  <2>1. TaskInv'
    BY <1>6 DEF BroadcastDone, Gathered
  <2>2. CallerInv'
    BY <1>6 DEF BroadcastDone, Gathered
  <2>3. SentInv'
    BY <1>6 DEF BroadcastDone, Gathered
  <2> QED
    BY <2>1, <2>2, <2>3
<1>7. CASE AwaitedReply(c)
  <2>1. TaskInv'
    BY <1>7 DEF AwaitedReply
  <2>2. CallerInv'
    BY <1>7 DEF AwaitedReply
  <2>3. SentInv'
    BY <1>7 DEF AwaitedReply
  <2> QED
    BY <2>1, <2>2, <2>3
<1>8. CASE ReplyTimeout(c)
  <2>1. TaskInv'
    BY <1>8 DEF ReplyTimeout
  <2>2. CallerInv'
    BY <1>8 DEF ReplyTimeout
  <2>3. SentInv'
    BY <1>8 DEF ReplyTimeout
  <2> QED
    BY <2>1, <2>2, <2>3
<1>9. CASE Close(c)
  <2>1. TaskInv'
    BY <1>9 DEF Close
  <2>2. CallerInv'
    BY <1>9 DEF Close
  <2>3. SentInv'
    BY <1>9 DEF Close
  <2> QED
    BY <2>1, <2>2, <2>3
<1>10. CASE Exit(c)
  <2>1. TaskInv'
    BY <1>10 DEF Exit
  <2>2. CallerInv'
    BY <1>10 DEF Exit
  <2>3. SentInv'
    BY <1>10 DEF Exit
  <2> QED
    BY <2>1, <2>2, <2>3
<1> QED
  BY <1>2, <1>3, <1>4, <1>5, <1>6, <1>7, <1>8, <1>9, <1>10 DEF Caller

\* The senders keep the numbering.
LEMMA SenderNumbers ==
    ASSUME NumberInv, TypeOK', NEW c \in Clients, NEW r \in Replicas,
           Opening(c, r) \/ Sender(c, r)
    PROVE  NumberInv'
<1>1. NumberTypes
  BY DEF NumberInv, TypeOK, NumberTypes
<1> SUFFICES TaskInv' /\ CallerInv' /\ SentInv'
  BY DEF NumberInv
<1> USE <1>1, BoundsAssumption
    DEF NumberInv, NumberTypes, TaskInv, CallerInv, SentInv,
        taskVars, connVars, deliveryVars, callerVars
<1>2. CASE OpenSucceeds(c, r)
  <2>1. TaskInv'
    BY <1>2 DEF OpenSucceeds
  <2>2. CallerInv'
    BY <1>2 DEF OpenSucceeds
  <2>3. SentInv'
    BY <1>2 DEF OpenSucceeds
  <2> QED
    BY <2>1, <2>2, <2>3
<1>3. CASE OpenFails(c, r)
  <2>1. TaskInv'
    BY <1>3 DEF OpenFails
  <2>2. CallerInv'
    BY <1>3 DEF OpenFails
  <2>3. SentInv'
    BY <1>3 DEF OpenFails
  <2> QED
    BY <2>1, <2>2, <2>3
<1>4. CASE WriteRequest(c, r)
  <2>1. TaskInv'
    BY <1>4 DEF WriteRequest
  <2>2. CallerInv'
    BY <1>4 DEF WriteRequest
  <2>3. SentInv'
    <3>1. /\ phase[c] = "sending" /\ nextRequestNum[c] <= MaxRequest
          /\ phase' = phase /\ nextRequestNum' = nextRequestNum
          /\ lastReceived' = lastReceived
          /\ lastSent' = [lastSent EXCEPT ![c][r] = nextRequestNum[c]]
      BY <1>4 DEF WriteRequest
    <3> QED
      BY <3>1
  <2> QED
    BY <2>1, <2>2, <2>3
<1>5. CASE WriteToBroken(c, r)
  <2>1. TaskInv'
    <3>1. /\ phase[c] = "sending" /\ nextRequestNum[c] <= MaxRequest
          /\ phase' = phase /\ nextRequestNum' = nextRequestNum
      BY <1>5 DEF WriteToBroken
    <3>2. CASE task' = [task EXCEPT ![c][r] = "none"]
      BY <3>1, <3>2
    <3>3. CASE task' = [task EXCEPT ![c][r] = "closing"]
      BY <3>1, <3>3
    <3> QED
      BY <1>5, <3>2, <3>3 DEF WriteToBroken
  <2>2. CallerInv'
    BY <1>5 DEF WriteToBroken
  <2>3. SentInv'
    BY <1>5 DEF WriteToBroken
  <2> QED
    BY <2>1, <2>2, <2>3
<1>6. CASE DrainCompletes(c, r)
  <2>1. TaskInv'
    BY <1>6 DEF DrainCompletes
  <2>2. CallerInv'
    BY <1>6 DEF DrainCompletes
  <2>3. SentInv'
    BY <1>6 DEF DrainCompletes
  <2> QED
    BY <2>1, <2>2, <2>3
<1>7. CASE WriteFails(c, r)
  <2>1. TaskInv'
    BY <1>7 DEF WriteFails
  <2>2. CallerInv'
    BY <1>7 DEF WriteFails
  <2>3. SentInv'
    BY <1>7 DEF WriteFails
  <2> QED
    BY <2>1, <2>2, <2>3
<1>8. CASE CloseCompletes(c, r)
  <2>1. TaskInv'
    BY <1>8 DEF CloseCompletes
  <2>2. CallerInv'
    BY <1>8 DEF CloseCompletes
  <2>3. SentInv'
    BY <1>8 DEF CloseCompletes
  <2> QED
    BY <2>1, <2>2, <2>3
<1> QED
  BY <1>2, <1>3, <1>4, <1>5, <1>6, <1>7, <1>8 DEF Opening, Sender

\* The receivers keep the numbering.
LEMMA ReceiverNumbers ==
    ASSUME NumberInv, TypeOK', NEW c \in Clients, NEW r \in Replicas,
           Receiver(c, r)
    PROVE  NumberInv'
<1>1. NumberTypes
  BY DEF NumberInv, TypeOK, NumberTypes
<1> SUFFICES TaskInv' /\ CallerInv' /\ SentInv'
  BY DEF NumberInv
<1> USE <1>1, BoundsAssumption
    DEF NumberInv, NumberTypes, TaskInv, CallerInv, SentInv,
        taskVars, connVars, deliveryVars, callerVars
<1>2. CASE DeliverReply(c, r)
  <2>1. TaskInv'
    BY <1>2 DEF DeliverReply, Acceptable
  <2>2. CallerInv'
    BY <1>2 DEF DeliverReply, Acceptable
  <2>3. SentInv'
    BY <1>2 DEF DeliverReply, Acceptable
  <2> QED
    BY <2>1, <2>2, <2>3
<1>3. CASE DiscardDuplicate(c, r)
  <2>1. TaskInv'
    BY <1>3 DEF DiscardDuplicate, Acceptable
  <2>2. CallerInv'
    BY <1>3 DEF DiscardDuplicate, Acceptable
  <2>3. SentInv'
    BY <1>3 DEF DiscardDuplicate, Acceptable
  <2> QED
    BY <2>1, <2>2, <2>3
<1>4. CASE RejectReply(c, r)
  <2>1. TaskInv'
    BY <1>4 DEF RejectReply, Acceptable
  <2>2. CallerInv'
    BY <1>4 DEF RejectReply, Acceptable
  <2>3. SentInv'
    BY <1>4 DEF RejectReply, Acceptable
  <2> QED
    BY <2>1, <2>2, <2>3
<1>5. CASE ReceiveEof(c, r)
  <2>1. TaskInv'
    BY <1>5 DEF ReceiveEof
  <2>2. CallerInv'
    BY <1>5 DEF ReceiveEof
  <2>3. SentInv'
    BY <1>5 DEF ReceiveEof
  <2> QED
    BY <2>1, <2>2, <2>3
<1>6. CASE ReceiverDone(c, r)
  <2>1. TaskInv'
    BY <1>6 DEF ReceiverDone
  <2>2. CallerInv'
    BY <1>6 DEF ReceiverDone
  <2>3. SentInv'
    BY <1>6 DEF ReceiverDone
  <2> QED
    BY <2>1, <2>2, <2>3
<1> QED
  BY <1>2, <1>3, <1>4, <1>5, <1>6 DEF Receiver

\* The numbering is an invariant, for arbitrary peers.
THEOREM NumberInvariant == Spec => []NumberInv
<1>1. Init => NumberInv
  <2> SUFFICES ASSUME Init PROVE NumberInv
    OBVIOUS
  <2>1. TypeOK
    BY InitType
  <2> QED
    BY <2>1, BoundsAssumption
       DEF Init, NumberInv, TaskInv, CallerInv, SentInv, ForEachConnection
<1>2. NumberInv /\ [Next]_vars => NumberInv'
  <2> SUFFICES ASSUME NumberInv, [Next]_vars
               PROVE  NumberInv'
    OBVIOUS
  <2>1. TypeOK'
    BY NextType DEF NumberInv
  <2>2. ASSUME UNCHANGED <<taskVars, connVars, deliveryVars, callerVars>>
        PROVE  NumberInv'
    BY <2>1, <2>2 DEF NumberInv, TaskInv, CallerInv, SentInv, taskVars,
                      connVars, deliveryVars, callerVars
  <2>3. CASE UNCHANGED vars
    BY <2>2, <2>3 DEF vars
  <2>4. CASE \E c \in Clients : Caller(c) \/ Close(c) \/ Exit(c)
    BY <2>1, <2>4, CallerNumbers
  <2>5. CASE \E c \in Clients, r \in Replicas : Connection(c, r)
    <3>1. PICK c \in Clients, r \in Replicas : Connection(c, r)
      BY <2>5
    <3>2. CASE Opening(c, r) \/ Sender(c, r)
      BY <2>1, <3>2, SenderNumbers
    <3>3. CASE Receiver(c, r)
      BY <2>1, <3>3, ReceiverNumbers
    <3>4. CASE Serve(r, c) \/ Disconnect(c, r) \/ FaultyReply(r, c)
                           \/ FaultyRead(r, c)
      BY <2>2, <3>4 DEF Serve, Disconnect, FaultyReply, FaultyRead
    <3> QED
      BY <3>1, <3>2, <3>3, <3>4 DEF Connection
  <2>6. CASE \E r \in Replicas : Crash(r) \/ Restart(r)
    BY <2>2, <2>6 DEF Crash, Restart
  <2> QED
    BY <2>3, <2>4, <2>5, <2>6 DEF Next
<1> QED
  BY <1>1, <1>2, PTL DEF Spec

\* The branch of _receive that rejects an "unexpected logical request number"
\* is never taken, whatever the peers send.
THEOREM UnexpectedUnreachable == Spec => []NeverUnexpected
<1>1. NumberInv => NeverUnexpected
  BY AcceptableIsExpected DEF NeverUnexpected, HasReply
<1> QED
  BY <1>1, NumberInvariant, PTL

-----------------------------------------------------------------------------
(***************************************************************************)
(* _delivered_values, whatever the peers send.  Every receiver that has    *)
(* not ended finds the delivered value of each request it has not answered *)
(* yet; nothing else is kept.                                              *)
(***************************************************************************)
ValuesInv ==
    \A c \in Clients, r \in Replicas, n \in 1..MaxRequest :
        (/\ conn[c][r] \in TaskPending
         /\ lastReceived[c][r] < n
         /\ n <= delivered[c])
        => deliveredValues[c][n] = DeliveredValue(c, n)

DivergenceInv == NumberInv /\ ValuesInv /\ DeliveredValuesBounded

\* A step that moves no number, no value and no receiver to its end or from
\* its start keeps both.
LEMMA ValuesFrame ==
    ASSUME DivergenceInv,
           UNCHANGED <<lastReceived, delivered, lastReply, deliveredValues,
                       answers>>,
           \A c \in Clients, r \in Replicas :
               conn'[c][r] \in TaskPending <=> conn[c][r] \in TaskPending
    PROVE  ValuesInv' /\ DeliveredValuesBounded'
<1>1. \A c \in Clients, n \in 1..MaxRequest :
          DeliveredValue(c, n)' = DeliveredValue(c, n)
  BY DEF DeliveredValue
<1>2. ValuesInv'
  BY <1>1 DEF DivergenceInv, ValuesInv
<1>3. DeliveredValuesBounded'
  BY DEF DivergenceInv, DeliveredValuesBounded
<1> QED
  BY <1>2, <1>3

\* A call that returns moves its value from the last reply to the answers.
LEMMA ReturnKeepsValues ==
    ASSUME DivergenceInv, NEW c \in Clients,
           delivered[c] = nextRequestNum[c],
           answers' = [answers EXCEPT ![c] = Append(@, lastReply[c].value)],
           UNCHANGED <<conn, lastReceived, delivered, lastReply,
                       deliveredValues>>
    PROVE  ValuesInv' /\ DeliveredValuesBounded'
<1>1. /\ answers \in [Clients -> Seq(Nat)] /\ lastReply[c].value \in Nat
      /\ delivered[c] \in Nat /\ nextRequestNum[c] \in Nat
      /\ Len(answers[c]) = nextRequestNum[c] - 1
  BY DEF DivergenceInv, NumberInv, TypeOK, CallerInv, Responses
<1>2. \A n \in 1..delivered[c] : DeliveredValue(c, n)' = DeliveredValue(c, n)
  <2> DEFINE old == answers[c]
             new == Append(old, lastReply[c].value)
  <2>1. /\ Len(new) = Len(old) + 1 /\ new[Len(old) + 1] = lastReply[c].value
        /\ \A n \in 1..Len(old) : new[n] = old[n]
    BY <1>1
  <2>2. answers'[c] = new
    BY <1>1
  <2> QED
    BY <1>1, <2>1, <2>2 DEF DeliveredValue
<1>3. \A d \in Clients \ {c} : answers'[d] = answers[d]
  BY <1>1
<1>4. \A d \in Clients : \A n \in 1..delivered[d] :
          DeliveredValue(d, n)' = DeliveredValue(d, n)
  BY <1>2, <1>3 DEF DeliveredValue
<1>5. \A d \in Clients : delivered[d] \in Nat
  BY DEF DivergenceInv, NumberInv, TypeOK
<1>6. ValuesInv'
  BY <1>4, <1>5, BoundsAssumption DEF DivergenceInv, ValuesInv
<1>7. DeliveredValuesBounded'
  BY DEF DivergenceInv, DeliveredValuesBounded
<1> QED
  BY <1>6, <1>7

\* Delivering a reply keeps the value for the others.
LEMMA DeliverKeepsValues ==
    ASSUME DivergenceInv, TypeOK', NEW c \in Clients, NEW r \in Replicas,
           DeliverReply(c, r)
    PROVE  ValuesInv' /\ DeliveredValuesBounded'
<1> DEFINE reply == Head(replies[c][r])
           values == [deliveredValues[c] EXCEPT ![reply.num] = reply.value]
<1>1. /\ reply.num \in Nat /\ reply.value \in Nat
      /\ deliveredValues \in [Clients -> [1..MaxRequest -> Nat \cup {None}]]
      /\ delivered \in [Clients -> Nat] /\ nextRequestNum \in [Clients -> Nat]
      /\ lastReceived \in [Clients -> [Replicas -> Nat]]
      /\ lastReply \in [Clients -> Responses]
      /\ lastSent[c][r] \in Nat /\ lastSent[c][r] <= MaxRequest
      /\ Len(answers[c]) = nextRequestNum[c] - 1
      /\ delivered[c] \in {nextRequestNum[c] - 1, nextRequestNum[c]}
  <2>1. reply.num \in Nat /\ reply.value \in Nat
    BY HeadReply DEF DivergenceInv, NumberInv, DeliverReply, HasReply
  <2> HIDE DEF reply
  <2>2. /\ deliveredValues \in [Clients -> [1..MaxRequest -> Nat \cup {None}]]
        /\ delivered \in [Clients -> Nat] /\ nextRequestNum \in [Clients -> Nat]
        /\ lastReceived \in [Clients -> [Replicas -> Nat]]
        /\ lastReply \in [Clients -> Responses]
        /\ lastSent[c][r] \in Nat
    BY DEF DivergenceInv, NumberInv, TypeOK
  <2>3. /\ lastSent[c][r] <= MaxRequest
        /\ Len(answers[c]) = nextRequestNum[c] - 1
        /\ delivered[c] \in {nextRequestNum[c] - 1, nextRequestNum[c]}
    BY DEF DivergenceInv, NumberInv, SentInv, CallerInv
  <2> QED
    BY <2>1, <2>2, <2>3
<1>2. /\ reply.num = nextRequestNum[c] /\ reply.num > delivered[c]
      /\ reply.num \in 1..MaxRequest
      /\ delivered' = [delivered EXCEPT ![c] = reply.num]
      /\ lastReply' = [lastReply EXCEPT ![c] = reply]
      /\ lastReceived' = [lastReceived EXCEPT ![c][r] = reply.num]
      /\ deliveredValues' = [deliveredValues EXCEPT ![c] =
                                Pruned(values, conn[c], lastReceived'[c])]
      /\ conn' = conn /\ answers' = answers
      /\ lastReceived[c][r] <= reply.num
  BY <1>1, BoundsAssumption DEF DeliverReply, Acceptable, callerVars
<1> HIDE DEF reply
<1>3. values \in [1..MaxRequest -> Nat \cup {None}]
  BY <1>1
<1>4. \A n \in 1..MaxRequest :
          values[n] = IF n = reply.num THEN reply.value ELSE deliveredValues[c][n]
  BY <1>1, <1>2
<1> HIDE DEF values
<1>5. \A n \in 1..MaxRequest :
          deliveredValues'[c][n] =
              IF \E s \in Replicas : /\ conn[c][s] \in TaskPending
                                     /\ lastReceived'[c][s] < n
              THEN values[n] ELSE None
  <2>1. deliveredValues'[c] = Pruned(values, conn[c], lastReceived'[c])
    BY <1>1, <1>2
  <2>2. DOMAIN values = 1..MaxRequest
    BY <1>3
  <2> QED
    BY <2>1, <2>2 DEF Pruned
<1>6. \A d \in Clients \ {c} :
          /\ deliveredValues'[d] = deliveredValues[d]
          /\ lastReceived'[d] = lastReceived[d]
          /\ delivered'[d] = delivered[d]
          /\ \A n \in 1..MaxRequest : DeliveredValue(d, n)' = DeliveredValue(d, n)
  BY <1>1, <1>2 DEF DeliveredValue
<1>7. delivered[c] = nextRequestNum[c] - 1 /\ delivered'[c] = reply.num
  BY <1>1, <1>2
<1>8. /\ \A n \in 1..MaxRequest :
             n = reply.num => DeliveredValue(c, n)' = reply.value
      /\ \A n \in 1..delivered[c] : DeliveredValue(c, n)' = DeliveredValue(c, n)
  <2>1. /\ answers'[c] = answers[c] /\ Len(answers[c]) = delivered[c]
        /\ lastReply'[c] = reply /\ reply.num > delivered[c]
    BY <1>1, <1>2, <1>7
  <2>2. ASSUME NEW n \in 1..MaxRequest, n = reply.num
        PROVE  DeliveredValue(c, n)' = reply.value
    <3>1. ~(n <= Len(answers'[c]))
      BY <1>1, <2>1, <2>2
    <3> QED
      BY <2>1, <3>1 DEF DeliveredValue
  <2>3. ASSUME NEW n \in 1..delivered[c]
        PROVE  DeliveredValue(c, n)' = DeliveredValue(c, n)
    BY <1>1, <2>1 DEF DeliveredValue
  <2> QED
    BY <2>2, <2>3
<1>9. \A s \in Replicas : lastReceived'[c][s] >= lastReceived[c][s]
                           /\ lastReceived'[c][s] \in Nat
  BY <1>1, <1>2
<1>10. ValuesInv'
  <2> SUFFICES ASSUME NEW d \in Clients, NEW s \in Replicas,
                      NEW n \in 1..MaxRequest,
                      conn'[d][s] \in TaskPending, lastReceived'[d][s] < n,
                      n <= delivered'[d]
               PROVE  deliveredValues'[d][n] = DeliveredValue(d, n)'
    BY DEF ValuesInv
  <2>1. CASE d # c
    BY <1>2, <1>6, <2>1 DEF DivergenceInv, ValuesInv
  <2>2. CASE d = c /\ n = reply.num
    <3>1. conn[c][s] \in TaskPending /\ lastReceived'[c][s] < n
      BY <1>2, <2>2
    <3>2. deliveredValues'[c][n] = values[n] /\ values[n] = reply.value
      BY <1>4, <1>5, <2>2, <3>1
    <3> QED
      BY <1>8, <2>2, <3>2
  <2>3. CASE d = c /\ n # reply.num
    <3>1. n \in 1..delivered[c] /\ n <= delivered[c]
      BY <1>1, <1>2, <1>7, <2>3
    <3>2. lastReceived[c][s] < n
      BY <1>1, <1>9, <2>3
    <3>3. deliveredValues[c][n] = DeliveredValue(c, n)
      BY <1>2, <2>3, <3>1, <3>2 DEF DivergenceInv, ValuesInv
    <3> QED
      BY <1>2, <1>4, <1>5, <1>8, <2>3, <3>1, <3>3
  <2> QED
    BY <2>1, <2>2, <2>3
<1>11. DeliveredValuesBounded'
  <2> SUFFICES ASSUME NEW d \in Clients, NEW n \in 1..MaxRequest,
                      deliveredValues'[d][n] # None
               PROVE  \E s \in Replicas : /\ conn'[d][s] \in TaskPending
                                          /\ lastReceived'[d][s] < n
    BY DEF DeliveredValuesBounded
  <2>1. CASE d # c
    BY <1>2, <1>6, <2>1 DEF DivergenceInv, DeliveredValuesBounded
  <2>2. CASE d = c
    BY <1>2, <1>5, <2>2
  <2> QED
    BY <2>1, <2>2
<1> QED
  BY <1>10, <1>11

\* Pruning on the way, or at the end of a receiver, keeps what is needed.
LEMMA PruneKeepsValues ==
    ASSUME DivergenceInv, NEW c \in Clients,
           UNCHANGED <<delivered, lastReply, answers>>,
           lastReceived' \in [Clients -> [Replicas -> Nat]],
           \A d \in Clients, s \in Replicas :
               /\ lastReceived'[d][s] >= lastReceived[d][s]
               /\ conn'[d][s] \in TaskPending => conn[d][s] \in TaskPending
               /\ d # c => /\ lastReceived'[d][s] = lastReceived[d][s]
                           /\ conn'[d][s] = conn[d][s],
           deliveredValues' = [deliveredValues EXCEPT ![c] =
               Pruned(deliveredValues[c], conn'[c], lastReceived'[c])]
    PROVE  ValuesInv' /\ DeliveredValuesBounded'
<1>1. /\ deliveredValues \in [Clients -> [1..MaxRequest -> Nat \cup {None}]]
      /\ lastReceived \in [Clients -> [Replicas -> Nat]]
  BY DEF DivergenceInv, NumberInv, TypeOK
<1>2. \A n \in 1..MaxRequest :
          deliveredValues'[c][n] =
              IF \E s \in Replicas : /\ conn'[c][s] \in TaskPending
                                     /\ lastReceived'[c][s] < n
              THEN deliveredValues[c][n] ELSE None
  <2>1. deliveredValues'[c] =
            Pruned(deliveredValues[c], conn'[c], lastReceived'[c])
    BY <1>1
  <2>2. DOMAIN deliveredValues[c] = 1..MaxRequest
    BY <1>1
  <2> QED
    BY <2>1, <2>2 DEF Pruned
<1>3. \A d \in Clients \ {c} : deliveredValues'[d] = deliveredValues[d]
  BY <1>1
<1>4. \A d \in Clients, n \in 1..MaxRequest :
          DeliveredValue(d, n)' = DeliveredValue(d, n)
  BY DEF DeliveredValue
<1>5. ValuesInv'
  <2> SUFFICES ASSUME NEW d \in Clients, NEW s \in Replicas,
                      NEW n \in 1..MaxRequest,
                      conn'[d][s] \in TaskPending, lastReceived'[d][s] < n,
                      n <= delivered'[d]
               PROVE  deliveredValues'[d][n] = DeliveredValue(d, n)'
    BY DEF ValuesInv
  <2>1. lastReceived[d][s] < n /\ n <= delivered[d] /\ conn[d][s] \in TaskPending
    BY <1>1
  <2>2. deliveredValues[d][n] = DeliveredValue(d, n)
    BY <2>1 DEF DivergenceInv, ValuesInv
  <2> QED
    BY <1>2, <1>3, <1>4, <2>2
<1>6. DeliveredValuesBounded'
  <2> SUFFICES ASSUME NEW d \in Clients, NEW n \in 1..MaxRequest,
                      deliveredValues'[d][n] # None
               PROVE  \E s \in Replicas : /\ conn'[d][s] \in TaskPending
                                          /\ lastReceived'[d][s] < n
    BY DEF DeliveredValuesBounded
  <2>1. CASE d # c
    BY <1>3, <2>1 DEF DivergenceInv, DeliveredValuesBounded
  <2>2. CASE d = c
    BY <1>2, <2>2
  <2> QED
    BY <2>1, <2>2
<1> QED
  BY <1>5, <1>6

\* Every step keeps the values a receiver may still need, and no others.
LEMMA NextValues ==
    ASSUME DivergenceInv, [Next]_vars, NumberInv'
    PROVE  ValuesInv' /\ DeliveredValuesBounded'
<1> USE DEF serverVars, channelVars, taskVars, connVars, deliveryVars, callerVars
<1>1. /\ conn \in [Clients -> [Replicas -> Conns]]
      /\ lastReceived \in [Clients -> [Replicas -> Nat]]
      /\ TypeOK'
  BY DEF DivergenceInv, NumberInv, TypeOK
<1>2. CASE UNCHANGED vars
  BY <1>2, ValuesFrame DEF vars
<1>3. ASSUME NEW c \in Clients, Caller(c) \/ Close(c) \/ Exit(c)
      PROVE  ValuesInv' /\ DeliveredValuesBounded'
  <2>1. CASE ReturnLateReply(c) \/ AwaitedReply(c)
    BY <2>1, ReturnKeepsValues DEF ReturnLateReply, AwaitedReply
  <2>2. CASE OpenReplicas(c) \/ NoReplicas(c) \/ Broadcast(c)
                \/ BroadcastDone(c) \/ ReplyTimeout(c) \/ Exit(c)
    BY <2>2, ValuesFrame DEF OpenReplicas, NoReplicas, Broadcast,
                             BroadcastDone, ReplyTimeout, Exit
  <2>3. CASE Close(c)
    <3>1. /\ UNCHANGED <<lastReceived, delivered, lastReply, answers>>
          /\ deliveredValues' = [deliveredValues EXCEPT ![c] =
                Pruned(deliveredValues[c], conn'[c], lastReceived'[c])]
      BY <2>3 DEF Close
    <3>2. \A d \in Clients, s \in Replicas :
              /\ lastReceived'[d][s] >= lastReceived[d][s]
              /\ conn'[d][s] \in TaskPending => conn[d][s] \in TaskPending
              /\ d # c => conn'[d][s] = conn[d][s]
      BY <1>1, <2>3, <3>1 DEF Close, TaskPending, Receiving
    <3> QED
      BY <1>1, <3>1, <3>2, PruneKeepsValues
  <2> QED
    BY <1>3, <2>1, <2>2, <2>3 DEF Caller
<1>4. ASSUME NEW c \in Clients, NEW r \in Replicas, Opening(c, r) \/ Sender(c, r)
      PROVE  ValuesInv' /\ DeliveredValuesBounded'
  <2>1. CASE OpenSucceeds(c, r)
    <3>1. delivered[c] = 0
      BY <2>1 DEF OpenSucceeds, DivergenceInv, NumberInv, TaskInv, CallerInv
    <3>2. /\ \A d \in Clients, s \in Replicas :
                 conn'[d][s] = IF d = c /\ s = r THEN "live" ELSE conn[d][s]
          /\ UNCHANGED <<lastReceived, deliveryVars, callerVars>>
      BY <1>1, <2>1 DEF OpenSucceeds
    <3>3. \A d \in Clients, n \in 1..MaxRequest :
              DeliveredValue(d, n)' = DeliveredValue(d, n)
      BY <3>2 DEF DeliveredValue
    <3>4. ValuesInv'
      BY <3>1, <3>2, <3>3 DEF DivergenceInv, ValuesInv
    <3>5. DeliveredValuesBounded'
      BY <3>2 DEF DivergenceInv, DeliveredValuesBounded, TaskPending
    <3> QED
      BY <3>4, <3>5
  <2>2. CASE OpenFails(c, r) \/ WriteRequest(c, r) \/ DrainCompletes(c, r)
                \/ CloseCompletes(c, r)
    BY <2>2, ValuesFrame DEF OpenFails, WriteRequest, DrainCompletes,
                             CloseCompletes
  <2>3. ASSUME RetiredBySender(c, r)
        PROVE  \A d \in Clients, s \in Replicas :
                   conn'[d][s] \in TaskPending <=> conn[d][s] \in TaskPending
    BY <1>1, <2>3 DEF RetiredBySender, TaskPending
  <2>4. CASE WriteFails(c, r)
    BY <2>3, <2>4, ValuesFrame DEF WriteFails
  <2>5. CASE WriteToBroken(c, r)
    BY <2>3, <2>5, ValuesFrame DEF WriteToBroken
  <2> QED
    BY <1>4, <2>1, <2>2, <2>4, <2>5 DEF Opening, Sender
<1>5. ASSUME NEW c \in Clients, NEW r \in Replicas, Receiver(c, r)
      PROVE  ValuesInv' /\ DeliveredValuesBounded'
  <2>1. CASE DeliverReply(c, r)
    BY <1>1, <2>1, DeliverKeepsValues
  <2>2. CASE DiscardDuplicate(c, r)
    <3>1. /\ conn' = conn
          /\ lastReceived' = [lastReceived EXCEPT ![c][r] =
                                 Head(replies[c][r]).num]
          /\ lastReceived[c][r] <= Head(replies[c][r]).num
          /\ UNCHANGED <<delivered, lastReply, answers>>
          /\ deliveredValues' = [deliveredValues EXCEPT ![c] =
                Pruned(deliveredValues[c], conn'[c], lastReceived'[c])]
      BY <2>2 DEF DiscardDuplicate, Acceptable
    <3>2. lastReceived' \in [Clients -> [Replicas -> Nat]]
      BY <1>1 DEF TypeOK
    <3>3. \A d \in Clients, s \in Replicas :
              /\ lastReceived'[d][s] >= lastReceived[d][s]
              /\ d # c => lastReceived'[d][s] = lastReceived[d][s]
      BY <1>1, <3>1
    <3> QED
      BY <3>1, <3>2, <3>3, PruneKeepsValues
  <2>3. CASE RejectReply(c, r)
    <3>1. ~Acceptable(c, r, Head(replies[c][r]))
      BY <2>3, AcceptableIsExpected DEF RejectReply, HasReply, DivergenceInv
    <3>2. /\ conn[c][r] \in Receiving
          /\ conn' = [conn EXCEPT ![c][r] = "stopped"]
          /\ UNCHANGED <<deliveryVars, callerVars>>
          /\ lastReceived' = lastReceived
      BY <1>1, <2>3, <3>1 DEF RejectReply, HasReply
    <3>3. \A d \in Clients, s \in Replicas :
              conn'[d][s] \in TaskPending <=> conn[d][s] \in TaskPending
      BY <1>1, <3>2 DEF TaskPending, Receiving
    <3> QED
      BY <3>2, <3>3, ValuesFrame
  <2>4. CASE ReceiveEof(c, r)
    <3>1. \A d \in Clients, s \in Replicas :
              conn'[d][s] \in TaskPending <=> conn[d][s] \in TaskPending
      BY <1>1, <2>4 DEF ReceiveEof, TaskPending, Receiving
    <3> QED
      BY <2>4, <3>1, ValuesFrame DEF ReceiveEof
  <2>5. CASE ReceiverDone(c, r)
    <3>1. /\ conn' = [conn EXCEPT ![c][r] = "done"]
          /\ UNCHANGED <<lastReceived, delivered, lastReply, answers>>
          /\ deliveredValues' = [deliveredValues EXCEPT ![c] =
                Pruned(deliveredValues[c], conn'[c], lastReceived'[c])]
      BY <2>5 DEF ReceiverDone
    <3>2. \A d \in Clients, s \in Replicas :
              /\ lastReceived'[d][s] >= lastReceived[d][s]
              /\ conn'[d][s] \in TaskPending => conn[d][s] \in TaskPending
              /\ d # c => conn'[d][s] = conn[d][s]
      BY <1>1, <3>1 DEF TaskPending
    <3> QED
      BY <1>1, <3>1, <3>2, PruneKeepsValues
  <2> QED
    BY <1>5, <2>1, <2>2, <2>3, <2>4, <2>5 DEF Receiver
<1>6. ASSUME NEW c \in Clients, NEW r \in Replicas,
             Serve(r, c) \/ Disconnect(c, r) \/ FaultyReply(r, c)
                         \/ FaultyRead(r, c)
      PROVE  ValuesInv' /\ DeliveredValuesBounded'
  BY <1>6, ValuesFrame DEF Serve, Disconnect, FaultyReply, FaultyRead
<1>7. ASSUME NEW r \in Replicas, Crash(r) \/ Restart(r)
      PROVE  ValuesInv' /\ DeliveredValuesBounded'
  BY <1>7, ValuesFrame DEF Crash, Restart
<1> QED
  BY <1>2, <1>3, <1>4, <1>5, <1>6, <1>7 DEF Next, Connection

\* The inductive invariant behind the detection of divergence.
THEOREM DivergenceInvariant == Spec => []DivergenceInv
<1>1. Init /\ NumberInv => DivergenceInv
  BY DEF Init, DivergenceInv, ValuesInv, DeliveredValuesBounded
<1>2. DivergenceInv /\ [Next]_vars /\ NumberInv' => DivergenceInv'
  BY NextValues DEF DivergenceInv
<1> QED
  BY <1>1, <1>2, NumberInvariant, PTL DEF Spec

\* _delivered_values never outgrows what the remaining receivers need.
THEOREM DeliveredValuesStayBounded == Spec => []DeliveredValuesBounded
BY DivergenceInvariant, PTL DEF DivergenceInv

\* No divergence between a late reply and the delivered one goes unreported.
THEOREM DivergenceReported == Spec => DivergenceIsReported
<1>1. DivergenceInv /\ [Next]_vars => [ReportsDivergence]_vars
  <2> SUFFICES ASSUME DivergenceInv, [Next]_vars,
                      NEW c \in Clients, NEW r \in Replicas,
                      lastReceived'[c][r] > lastReceived[c][r],
                      lastReceived'[c][r] <= delivered[c],
                      conn'[c][r] = conn[c][r],
                      Head(replies[c][r]).value
                          # DeliveredValue(c, lastReceived'[c][r])
               PROVE  divergence'[c]
    BY DEF ReportsDivergence
  <2> USE DEF serverVars, channelVars, taskVars, connVars, deliveryVars,
              callerVars
  <2>1. /\ lastReceived \in [Clients -> [Replicas -> Nat]]
        /\ conn \in [Clients -> [Replicas -> Conns]]
        /\ divergence \in [Clients -> BOOLEAN]
        /\ delivered[c] \in Nat
    BY DEF DivergenceInv, NumberInv, TypeOK
  <2>2. lastReceived'[c][r] # lastReceived[c][r]
    BY <2>1
  <2>3. DiscardDuplicate(c, r)
    <3>1. ~UNCHANGED lastReceived
      BY <2>2
    <3>2. PICK d \in Clients, s \in Replicas :
              DeliverReply(d, s) \/ DiscardDuplicate(d, s) \/ RejectReply(d, s)
      BY <3>1 DEF Next, vars, Caller, Close, Exit, Crash, Restart, Connection,
             Opening, Sender, Receiver, Serve, Disconnect, FaultyReply,
             FaultyRead, OpenReplicas, ReturnLateReply, NoReplicas, Broadcast,
             BroadcastDone, AwaitedReply, ReplyTimeout, OpenSucceeds,
             OpenFails, WriteRequest, WriteToBroken, DrainCompletes,
             WriteFails, CloseCompletes, ReceiveEof, ReceiverDone
    <3>3. d = c /\ s = r
      <4>1. \E x : lastReceived' = [lastReceived EXCEPT ![d][s] = x]
        <5>1. CASE DeliverReply(d, s)
          BY <5>1 DEF DeliverReply
        <5>2. CASE DiscardDuplicate(d, s)
          BY <5>2 DEF DiscardDuplicate
        <5>3. CASE RejectReply(d, s)
          BY <2>1, <5>3 DEF RejectReply
        <5> QED
          BY <3>2, <5>1, <5>2, <5>3
      <4>2. PICK x : lastReceived' = [lastReceived EXCEPT ![d][s] = x]
        BY <4>1
      <4> QED
        BY <2>1, <2>2, <4>2
    <3>4. ~DeliverReply(c, r)
      <4> SUFFICES ASSUME DeliverReply(c, r) PROVE FALSE
        OBVIOUS
      <4>1. Head(replies[c][r]).num \in Nat
        BY HeadReply DEF DeliverReply, HasReply, DivergenceInv, NumberInv
      <4>2. /\ lastReceived' = [lastReceived EXCEPT ![c][r] =
                                   Head(replies[c][r]).num]
            /\ Head(replies[c][r]).num > delivered[c]
        BY DEF DeliverReply
      <4> QED
        BY <2>1, <4>1, <4>2
    <3>5. ~RejectReply(c, r)
      BY <2>1 DEF RejectReply, HasReply, Receiving
    <3> QED
      BY <3>2, <3>3, <3>4, <3>5
  <2>4. /\ conn[c][r] \in TaskPending
        /\ lastReceived'[c][r] = Head(replies[c][r]).num
        /\ lastReceived'[c][r] \in 1..MaxRequest
    <3>1. Head(replies[c][r]).num \in Nat
      BY <2>3, HeadReply DEF DiscardDuplicate, HasReply, DivergenceInv, NumberInv
    <3>2. delivered[c] <= MaxRequest
      BY DEF DivergenceInv, NumberInv, CallerInv
    <3> QED
      BY <2>1, <2>3, <3>1, <3>2, BoundsAssumption
         DEF DiscardDuplicate, HasReply, Receiving, TaskPending, Acceptable
  <2>5. deliveredValues[c][Head(replies[c][r]).num]
            = DeliveredValue(c, Head(replies[c][r]).num)
    BY <2>4 DEF DivergenceInv, ValuesInv
  <2>6. DeliveredValue(c, Head(replies[c][r]).num) # None
    <3>1. /\ answers[c] \in Seq(Nat) /\ lastReply[c].value \in Nat
          /\ Head(replies[c][r]).num \in 1..MaxRequest
      BY <2>4 DEF DivergenceInv, NumberInv, TypeOK, Responses
    <3>2. DeliveredValue(c, Head(replies[c][r]).num) \in Nat
      BY <3>1 DEF DeliveredValue
    <3> QED
      BY <3>2 DEF None
  <2>7. Contradicts(deliveredValues[c], Head(replies[c][r]))
    BY <2>4, <2>5, <2>6 DEF Contradicts
  <2> QED
    BY <2>1, <2>3, <2>7 DEF DiscardDuplicate
<1> QED
  BY <1>1, DivergenceInvariant, PTL DEF Spec, DivergenceIsReported

-----------------------------------------------------------------------------
(***************************************************************************)
(* Exactly-once execution under active replication, for all sets of        *)
(* clients and replicas and all bounds: the counters of the replicas that  *)
(* follow the protocol (whatever the others do), and, where every peer is  *)
(* such a replica, what the clients get, as an implementation of           *)
(* CounterService.                                                         *)
(*                                                                         *)
(* The argument.  A client writes a number to all the connections it has   *)
(* before it uses the next one (SendInv); so the numbers on a connection   *)
(* rise by at most one at a time, from the last number the replica has     *)
(* executed to the last one written (RequestInv).  Hence every request     *)
(* that a replica reads is either the one it executed last, answered from  *)
(* its table, or the next one, and its counter is the number of requests   *)
(* executed (TableInv).  Hence a reply carries its own number as its value *)
(* and the replies on a connection are in order (ReplyInv), and all that   *)
(* the client keeps and returns is right (ClientInv).                      *)
(***************************************************************************)

(***************************************************************************)
(* Queues of numbers that go on from n without a gap.                      *)
(***************************************************************************)
Steady(n, queue) ==
    /\ queue # <<>> => queue[1] \in {n, n + 1}
    /\ \A i \in 1..(Len(queue) - 1) : queue[i + 1] \in {queue[i], queue[i] + 1}

\* The number a replica has executed when it has read the queue.
LastOf(n, queue) == IF queue = <<>> THEN n ELSE queue[Len(queue)]

\* The elements of a tail are those of the queue, one place on.
LEMMA TailElements ==
    ASSUME NEW S, NEW queue \in Seq(S), queue # <<>>
    PROVE  /\ Tail(queue) \in Seq(S) /\ Head(queue) = queue[1]
           /\ Len(queue) \in Nat /\ Len(queue) > 0
           /\ Len(Tail(queue)) = Len(queue) - 1
           /\ Tail(queue) = <<>> <=> Len(queue) = 1
           /\ \A i \in 1..Len(Tail(queue)) :
                 i + 1 \in 1..Len(queue) /\ Tail(queue)[i] = queue[i + 1]
<1>1. /\ Tail(queue) \in Seq(S) /\ Head(queue) = queue[1]
      /\ Len(queue) \in Nat /\ Len(queue) > 0
      /\ Len(Tail(queue)) = Len(queue) - 1
  OBVIOUS
<1>2. Tail(queue) = <<>> <=> Len(queue) = 1
  BY <1>1, EmptySeq
<1>3. \A i \in 1..Len(Tail(queue)) :
          i + 1 \in 1..Len(queue) /\ Tail(queue)[i] = queue[i + 1]
  BY <1>1
<1> QED
  BY <1>1, <1>2, <1>3

\* Writing the last number again, or the next one.
LEMMA SteadyAppend ==
    ASSUME NEW n \in Nat, NEW queue \in Seq(Nat), NEW m \in Nat,
           Steady(n, queue), m \in {LastOf(n, queue), LastOf(n, queue) + 1}
    PROVE  /\ Steady(n, Append(queue, m))
           /\ LastOf(n, Append(queue, m)) = m
<1> DEFINE new == Append(queue, m)
<1>1. /\ Len(new) = Len(queue) + 1 /\ new[Len(queue) + 1] = m
      /\ \A i \in 1..Len(queue) : new[i] = queue[i]
      /\ new # <<>> /\ Len(queue) \in Nat
      /\ queue # <<>> <=> Len(queue) > 0
  OBVIOUS
<1> HIDE DEF new
<1>2. LastOf(n, new) = m
  BY <1>1 DEF LastOf
<1>3. new[1] \in {n, n + 1}
  <2>1. CASE queue = <<>>
    BY <1>1, <2>1 DEF LastOf
  <2>2. CASE queue # <<>>
    BY <1>1, <2>2 DEF Steady
  <2> QED
    BY <2>1, <2>2
<1>4. ASSUME NEW i \in 1..(Len(new) - 1)
      PROVE  new[i + 1] \in {new[i], new[i] + 1}
  <2>1. CASE i = Len(queue)
    BY <1>1, <2>1 DEF LastOf
  <2>2. CASE i < Len(queue)
    BY <1>1, <2>2 DEF Steady
  <2> QED
    BY <1>1, <2>1, <2>2
<1> QED
  BY <1>2, <1>3, <1>4 DEF Steady, new

\* Reading the first number.
LEMMA SteadyTail ==
    ASSUME NEW n \in Nat, NEW queue \in Seq(Nat), Steady(n, queue),
           queue # <<>>
    PROVE  /\ Head(queue) \in {n, n + 1}
           /\ Steady(Head(queue), Tail(queue))
           /\ LastOf(Head(queue), Tail(queue)) = LastOf(n, queue)
<1> DEFINE rest == Tail(queue)
<1>1. /\ Len(rest) = Len(queue) - 1 /\ Head(queue) = queue[1]
      /\ \A i \in 1..Len(rest) : i + 1 \in 1..Len(queue) /\ rest[i] = queue[i + 1]
      /\ rest = <<>> <=> Len(queue) = 1
      /\ Len(queue) \in Nat /\ Len(queue) > 0
  BY TailElements
<1> HIDE DEF rest
<1>2. Head(queue) \in {n, n + 1}
  BY <1>1 DEF Steady
<1>3. ASSUME rest # <<>> PROVE rest[1] \in {Head(queue), Head(queue) + 1}
  <2>1. 1 \in 1..(Len(queue) - 1) /\ rest[1] = queue[1 + 1]
    BY <1>1, <1>3
  <2> QED
    BY <1>1, <2>1 DEF Steady
<1>4. ASSUME NEW i \in 1..(Len(rest) - 1)
      PROVE  rest[i + 1] \in {rest[i], rest[i] + 1}
  <2>1. /\ i + 1 \in 1..(Len(queue) - 1)
        /\ i \in 1..Len(rest) /\ i + 1 \in 1..Len(rest)
    BY <1>1
  <2>2. rest[i] = queue[i + 1] /\ rest[i + 1] = queue[(i + 1) + 1]
    BY <1>1, <2>1
  <2> QED
    BY <2>1, <2>2 DEF Steady
<1>5. LastOf(Head(queue), rest) = LastOf(n, queue)
  <2>1. CASE rest = <<>>
    BY <1>1, <2>1 DEF LastOf
  <2>2. CASE rest # <<>>
    <3>1. Len(rest) \in 1..Len(rest) /\ Len(rest) + 1 = Len(queue)
      BY <1>1, <2>2
    <3>2. rest[Len(rest)] = queue[Len(queue)]
      BY <1>1, <3>1
    <3> QED
      BY <2>2, <3>2 DEF LastOf
  <2> QED
    BY <2>1, <2>2
<1> QED
  BY <1>2, <1>3, <1>4, <1>5 DEF Steady, rest

\* A reset may lose the end of a queue.
LEMMA SteadyPrefix ==
    ASSUME NEW n \in Nat, NEW queue \in Seq(Nat), Steady(n, queue),
           NEW k \in 0..Len(queue)
    PROVE  Steady(n, SubSeq(queue, 1, k))
<1> DEFINE new == SubSeq(queue, 1, k)
<1>1. /\ Len(new) = k /\ \A i \in 1..k : new[i] = queue[i]
      /\ new # <<>> => k > 0 /\ queue # <<>>
  OBVIOUS
<1> HIDE DEF new
<1>2. new # <<>> => new[1] \in {n, n + 1}
  BY <1>1 DEF Steady
<1>3. \A i \in 1..(Len(new) - 1) : new[i + 1] \in {new[i], new[i] + 1}
  BY <1>1 DEF Steady
<1> QED
  BY <1>2, <1>3 DEF Steady, new

(***************************************************************************)
(* Replies that carry their own number as their value, in order, between   *)
(* two bounds.                                                             *)
(***************************************************************************)
InOrder(queue, low, high) ==
    /\ \A i \in 1..Len(queue) : /\ queue[i].num \in 1..high
                                /\ low <= queue[i].num
                                /\ queue[i] = ClientReply(queue[i].num,
                                                          queue[i].num)
    /\ \A i, j \in 1..Len(queue) : i <= j => queue[i].num <= queue[j].num

\* A replica answers with a number that is not below those it answered with.
LEMMA InOrderAppend ==
    ASSUME NEW queue \in Seq(Responses), NEW low \in Nat, NEW high \in Nat,
           NEW n \in 1..high, InOrder(queue, low, high), low <= n,
           \A i \in 1..Len(queue) : queue[i].num <= n
    PROVE  InOrder(Append(queue, ClientReply(n, n)), low, high)
<1> DEFINE new == Append(queue, ClientReply(n, n))
<1>1. /\ Len(new) = Len(queue) + 1 /\ new[Len(queue) + 1] = ClientReply(n, n)
      /\ \A i \in 1..Len(queue) : new[i] = queue[i]
      /\ Len(queue) \in Nat
  BY DEF ClientReply
<1> HIDE DEF new
<1>2. ClientReply(n, n).num = n
  BY DEF ClientReply
<1>3. ASSUME NEW i \in 1..Len(new)
      PROVE  /\ new[i].num \in 1..high /\ low <= new[i].num
             /\ new[i] = ClientReply(new[i].num, new[i].num)
             /\ new[i].num <= n
  <2>1. CASE i = Len(queue) + 1
    BY <1>1, <1>2, <2>1
  <2>2. CASE i \in 1..Len(queue)
    BY <1>1, <2>2 DEF InOrder
  <2> QED
    BY <1>1, <2>1, <2>2
<1>4. ASSUME NEW i \in 1..Len(new), NEW j \in 1..Len(new), i <= j
      PROVE  new[i].num <= new[j].num
  <2>1. CASE j = Len(queue) + 1
    BY <1>1, <1>2, <1>3, <2>1
  <2>2. CASE j \in 1..Len(queue)
    BY <1>1, <1>4, <2>2 DEF InOrder
  <2> QED
    BY <1>1, <2>1, <2>2
<1> QED
  BY <1>3, <1>4 DEF InOrder, new

\* The receiver has read the first reply.
LEMMA InOrderTail ==
    ASSUME NEW queue \in Seq(Responses), NEW low \in Nat, NEW high \in Nat,
           InOrder(queue, low, high), queue # <<>>
    PROVE  /\ Head(queue).num \in 1..high /\ low <= Head(queue).num
           /\ Head(queue) = ClientReply(Head(queue).num, Head(queue).num)
           /\ InOrder(Tail(queue), Head(queue).num, high)
           /\ \A i \in 1..Len(Tail(queue)) :
                 i + 1 \in 1..Len(queue) /\ Tail(queue)[i] = queue[i + 1]
<1> DEFINE rest == Tail(queue)
<1>1. /\ Len(rest) = Len(queue) - 1 /\ Head(queue) = queue[1]
      /\ \A i \in 1..Len(rest) : i + 1 \in 1..Len(queue) /\ rest[i] = queue[i + 1]
      /\ Len(queue) \in Nat /\ Len(queue) > 0
  BY TailElements
<1> HIDE DEF rest
<1>2. /\ Head(queue).num \in 1..high /\ low <= Head(queue).num
      /\ Head(queue) = ClientReply(Head(queue).num, Head(queue).num)
  BY <1>1 DEF InOrder
<1>3. ASSUME NEW i \in 1..Len(rest)
      PROVE  /\ rest[i].num \in 1..high
             /\ Head(queue).num <= rest[i].num
             /\ rest[i] = ClientReply(rest[i].num, rest[i].num)
  <2>1. /\ i + 1 \in 1..Len(queue) /\ 1 \in 1..Len(queue) /\ 1 <= i + 1
        /\ rest[i] = queue[i + 1]
    BY <1>1
  <2> QED
    BY <1>1, <2>1 DEF InOrder
<1>4. ASSUME NEW i \in 1..Len(rest), NEW j \in 1..Len(rest), i <= j
      PROVE  rest[i].num <= rest[j].num
  <2>1. /\ i + 1 \in 1..Len(queue) /\ j + 1 \in 1..Len(queue)
        /\ i + 1 <= j + 1 /\ rest[i] = queue[i + 1] /\ rest[j] = queue[j + 1]
    BY <1>1, <1>4
  <2> QED
    BY <2>1 DEF InOrder
<1> QED
  BY <1>1, <1>2, <1>3, <1>4 DEF InOrder, rest

\* Writing a request moves the upper bound only up.
LEMMA InOrderHigher ==
    ASSUME NEW queue, NEW low \in Nat, NEW high \in Nat, NEW higher \in Nat,
           InOrder(queue, low, high), high <= higher
    PROVE  InOrder(queue, low, higher)
BY DEF InOrder

\* No replies are always in order.
LEMMA InOrderEmpty ==
    ASSUME NEW low, NEW high
    PROVE  InOrder(<<>>, low, high)
BY DEF InOrder

-----------------------------------------------------------------------------
(***************************************************************************)
(* The broadcast leaves out no connection that is in use: a number is      *)
(* given up for the next one only when all of them have been sent it.      *)
(***************************************************************************)
SendOf(c) ==
    /\ delivered[c] = nextRequestNum[c] =>
          \E r \in Replicas : lastSent[c][r] = nextRequestNum[c]
    /\ \A r \in Replicas :
          /\ task[c][r] = "sending" => conn[c][r] # "none"
          /\ conn[c][r] = "live" \/ task[c][r] = "sending" =>
                lastSent[c][r] \in {nextRequestNum[c] - 1, nextRequestNum[c]}
          /\ conn[c][r] = "live" =>
                \/ lastSent[c][r] = nextRequestNum[c]
                \/ phase[c] \in {"new", "connecting", "closing", "closed"}
                \/ phase[c] = "sending" /\ task[c][r] = "sending"
                \/ /\ phase[c] = "idle"
                   /\ \A s \in Replicas : lastSent[c][s] # nextRequestNum[c]

SendInv == \A c \in Clients : SendOf(c)

\* The types of the variables of one client, and its numbering.
ClientTypes(c) ==
    /\ phase[c] \in Phases
    /\ task[c] \in [Replicas -> Tasks]
    /\ conn[c] \in [Replicas -> Conns]
    /\ lastSent[c] \in [Replicas -> Nat]
    /\ nextRequestNum[c] \in Nat /\ nextRequestNum[c] >= 1
    /\ delivered[c] \in {nextRequestNum[c] - 1, nextRequestNum[c]}
    /\ phase[c] \in {"new", "connecting"} => delivered[c] = 0
    /\ \A r \in Replicas :
          /\ lastSent[c][r] <= nextRequestNum[c]
          /\ phase[c] \in {"new", "connecting"} => lastSent[c][r] = 0
          /\ task[c][r] = "opening" => phase[c] = "connecting"
          /\ task[c][r] \in {"sending", "draining", "closing"} =>
                phase[c] = "sending"

LEMMA ClientTypesHold ==
    ASSUME NumberInv, NEW c \in Clients
    PROVE  ClientTypes(c)
<1>1. TypeOK /\ TaskInv /\ CallerInv /\ SentInv
  BY DEF NumberInv
<1>2. /\ phase[c] \in Phases
      /\ task[c] \in [Replicas -> Tasks]
      /\ conn[c] \in [Replicas -> Conns]
      /\ lastSent[c] \in [Replicas -> Nat]
      /\ nextRequestNum[c] \in Nat
  BY <1>1 DEF TypeOK
<1> QED
  BY <1>1, <1>2 DEF ClientTypes, TaskInv, CallerInv, SentInv

\* What a step does to other clients does not matter.
LEMMA SendFrame ==
    ASSUME NEW c \in Clients, SendOf(c),
           phase'[c] = phase[c], task'[c] = task[c], conn'[c] = conn[c],
           lastSent'[c] = lastSent[c], delivered'[c] = delivered[c],
           nextRequestNum'[c] = nextRequestNum[c]
    PROVE  SendOf(c)'
BY DEF SendOf

\* A step that only takes connections out of use, or ends send coroutines of
\* connections that have been sent the number.
LEMMA SendShrinks ==
    ASSUME NEW c \in Clients, SendOf(c), ClientTypes(c),
           nextRequestNum'[c] = nextRequestNum[c],
           delivered'[c] = delivered[c],
           lastSent'[c] = lastSent[c],
           phase'[c] = phase[c] \/ phase'[c] \in {"closing", "closed"},
           \A r \in Replicas :
              /\ conn'[c][r] = "live" => conn[c][r] = "live"
              /\ conn[c][r] # "none" => conn'[c][r] # "none"
              /\ task'[c][r] = "sending" => task[c][r] = "sending"
              /\ task[c][r] = "sending" =>
                    task'[c][r] = "sending" \/ phase'[c] = "closing"
    PROVE  SendOf(c)'
BY DEF SendOf

\* The caller.
LEMMA CallerSends ==
    ASSUME NumberInv, SendInv, NEW c \in Clients,
           Caller(c) \/ Close(c) \/ Exit(c)
    PROVE  SendInv'
<1> USE DEF serverVars, channelVars, taskVars, connVars, deliveryVars, callerVars
<1>1. TypeOK
  BY DEF NumberInv
<1>2. ClientTypes(c) /\ SendOf(c)
  BY ClientTypesHold DEF SendInv
<1>3. \A d \in Clients \ {c} : SendOf(d)'
  <2> SUFFICES ASSUME NEW d \in Clients, d # c PROVE SendOf(d)'
    OBVIOUS
  <2>1. /\ phase'[d] = phase[d] /\ task'[d] = task[d] /\ conn'[d] = conn[d]
        /\ lastSent'[d] = lastSent[d] /\ delivered'[d] = delivered[d]
        /\ nextRequestNum'[d] = nextRequestNum[d]
    BY <1>1 DEF TypeOK, Caller, Close, Exit, OpenReplicas, ReturnLateReply,
            NoReplicas, Broadcast, BroadcastDone, AwaitedReply, ReplyTimeout
  <2> QED
    BY <2>1, SendFrame DEF SendInv
<1> SUFFICES SendOf(c)'
  BY <1>3 DEF SendInv
<1>4. CASE OpenReplicas(c)
  <2>1. /\ phase'[c] = "connecting" /\ phase[c] = "new"
        /\ \A r \in Replicas : task'[c][r] = "opening"
        /\ UNCHANGED <<conn, lastSent, delivered, nextRequestNum>>
    BY <1>1, <1>4 DEF OpenReplicas, TypeOK
  <2> QED
    BY <1>2, <2>1 DEF SendOf
<1>5. CASE ReturnLateReply(c) \/ AwaitedReply(c)
  <2>1. /\ phase[c] # "sending" /\ phase[c] \notin {"new", "closing", "closed"}
        /\ delivered[c] = nextRequestNum[c]
        /\ phase'[c] = "idle" /\ nextRequestNum'[c] = nextRequestNum[c] + 1
        /\ UNCHANGED <<task, conn, lastSent, delivered>>
    BY <1>1, <1>5 DEF ReturnLateReply, AwaitedReply, AtEntry, TypeOK
  <2>2. phase[c] # "connecting"
    BY <1>2, <2>1 DEF ClientTypes
  <2>3. \A r \in Replicas : conn[c][r] = "live" =>
                               lastSent[c][r] = nextRequestNum[c]
    BY <1>2, <2>1, <2>2 DEF SendOf
  <2>4. \A r \in Replicas : /\ task[c][r] # "sending"
                            /\ lastSent[c][r] \in Nat
                            /\ lastSent[c][r] <= nextRequestNum[c]
    BY <1>2, <2>1 DEF ClientTypes
  <2>5. nextRequestNum[c] \in Nat
    BY <1>2 DEF ClientTypes
  <2> QED
    BY <2>1, <2>3, <2>4, <2>5 DEF SendOf
<1>6. CASE NoReplicas(c)
  <2>1. /\ phase'[c] = "idle" /\ \A r \in Replicas : conn[c][r] # "live"
        /\ UNCHANGED <<task, conn, lastSent, delivered, nextRequestNum>>
    BY <1>1, <1>6 DEF NoReplicas, TypeOK
  <2> QED
    BY <1>2, <2>1 DEF SendOf
<1>7. CASE Broadcast(c)
  <2>1. /\ phase'[c] = "sending"
        /\ \A r \in Replicas : task'[c][r] = IF conn[c][r] = "live"
                                             THEN "sending" ELSE "none"
        /\ UNCHANGED <<conn, lastSent, delivered, nextRequestNum>>
    BY <1>1, <1>7 DEF Broadcast, TypeOK
  <2> QED
    BY <1>2, <2>1 DEF SendOf
<1>8. CASE BroadcastDone(c)
  <2>1. /\ phase'[c] = "waiting" /\ phase[c] = "sending"
        /\ \A r \in Replicas : task[c][r] = "none"
        /\ UNCHANGED <<task, conn, lastSent, delivered, nextRequestNum>>
    BY <1>1, <1>8 DEF BroadcastDone, Gathered, TypeOK
  <2> QED
    BY <1>2, <2>1 DEF SendOf
<1>9. CASE ReplyTimeout(c)
  <2>1. /\ phase'[c] = "idle" /\ phase[c] = "waiting"
        /\ UNCHANGED <<task, conn, lastSent, delivered, nextRequestNum>>
    BY <1>1, <1>9 DEF ReplyTimeout, TypeOK
  <2> QED
    BY <1>2, <2>1 DEF SendOf
<1>10. CASE Close(c)
  <2>1. /\ phase'[c] = "closing" /\ \A r \in Replicas : task'[c][r] = "none"
        /\ UNCHANGED <<lastSent, delivered, nextRequestNum>>
    BY <1>1, <1>10 DEF Close, TypeOK
  <2>2. \A r \in Replicas : conn'[c][r] \in {conn[c][r], "stopped", "done"}
    BY <1>1, <1>10 DEF Close, TypeOK
  <2>3. \A r \in Replicas : conn[c][r] # "none" => conn'[c][r] # "none"
    BY <2>2
  <2>4. \A r \in Replicas : conn'[c][r] = "live" => conn[c][r] = "live"
    BY <2>2
  <2> QED
    BY <1>2, <2>1, <2>3, <2>4, SendShrinks
<1>11. CASE Exit(c)
  <2>1. /\ phase'[c] = "closed"
        /\ UNCHANGED <<task, conn, lastSent, delivered, nextRequestNum>>
    BY <1>1, <1>11 DEF Exit, TypeOK
  <2> QED
    BY <1>2, <2>1, SendShrinks
<1> QED
  BY <1>4, <1>5, <1>6, <1>7, <1>8, <1>9, <1>10, <1>11 DEF Caller

\* The other steps on a connection.
LEMMA ConnectionSends ==
    ASSUME NumberInv, SendInv, NEW c \in Clients, NEW r \in Replicas,
           Connection(c, r)
    PROVE  SendInv'
<1> USE DEF serverVars, channelVars, taskVars, connVars, deliveryVars, callerVars
<1>1. TypeOK
  BY DEF NumberInv
<1>2. ClientTypes(c) /\ SendOf(c)
  BY ClientTypesHold DEF SendInv
<1>3. UNCHANGED <<phase, nextRequestNum>>
  BY DEF Connection, Opening, Sender, Receiver, OpenSucceeds, OpenFails,
         WriteRequest, WriteToBroken, DrainCompletes, WriteFails,
         CloseCompletes, DeliverReply, DiscardDuplicate, RejectReply,
         ReceiveEof, ReceiverDone, Serve, Disconnect, FaultyReply, FaultyRead
<1>4. \A d \in Clients \ {c} : SendOf(d)'
  <2> SUFFICES ASSUME NEW d \in Clients, d # c PROVE SendOf(d)'
    OBVIOUS
  <2>1. /\ task'[d] = task[d] /\ conn'[d] = conn[d]
        /\ lastSent'[d] = lastSent[d] /\ delivered'[d] = delivered[d]
    <3>1. CASE Opening(c, r)
      BY <1>1, <3>1 DEF TypeOK, Opening, OpenSucceeds, OpenFails
    <3>2. CASE Sender(c, r)
      BY <1>1, <3>2 DEF TypeOK, Sender, WriteRequest, WriteToBroken,
             DrainCompletes, WriteFails, CloseCompletes, RetiredBySender
    <3>3. CASE Receiver(c, r)
      BY <1>1, <3>3 DEF TypeOK, Receiver, DeliverReply, DiscardDuplicate,
             RejectReply, ReceiveEof, ReceiverDone
    <3>4. CASE Serve(r, c) \/ Disconnect(c, r) \/ FaultyReply(r, c)
                 \/ FaultyRead(r, c)
      BY <3>4 DEF Serve, Disconnect, FaultyReply, FaultyRead
    <3> QED
      BY <3>1, <3>2, <3>3, <3>4 DEF Connection
  <2> QED
    BY <1>3, <2>1, SendFrame DEF SendInv
<1> SUFFICES SendOf(c)'
  BY <1>4 DEF SendInv
<1>5. CASE OpenSucceeds(c, r)
  <2>1. /\ task[c][r] = "opening"
        /\ \A s \in Replicas : /\ s # r => task'[c][s] = task[c][s]
                               /\ s # r => conn'[c][s] = conn[c][s]
        /\ task'[c][r] = "none" /\ conn'[c][r] = "live"
        /\ UNCHANGED <<lastSent, delivered>>
    BY <1>1, <1>5 DEF OpenSucceeds, TypeOK
  <2>2. /\ phase[c] = "connecting" /\ lastSent[c][r] = 0
        /\ nextRequestNum[c] = 1
    BY <1>2, <2>1 DEF ClientTypes
  <2> QED
    BY <1>2, <1>3, <2>1, <2>2 DEF SendOf
<1>6. CASE OpenFails(c, r)
  <2>1. /\ task[c][r] = "opening" /\ task'[c][r] = "none"
        /\ \A s \in Replicas : s # r => task'[c][s] = task[c][s]
        /\ UNCHANGED <<conn, lastSent, delivered>>
    BY <1>1, <1>6 DEF OpenFails, TypeOK
  <2> QED
    BY <1>2, <1>3, <2>1, SendShrinks
<1>7. CASE WriteRequest(c, r) \/ WriteToBroken(c, r)
  <2>1. /\ task[c][r] = "sending" /\ task'[c][r] # "sending"
        /\ \A s \in Replicas \ {r} : /\ task'[c][s] = task[c][s]
                                     /\ conn'[c][s] = conn[c][s]
                                     /\ lastSent'[c][s] = lastSent[c][s]
        /\ conn'[c][r] = "live" => conn[c][r] = "live"
        /\ lastSent'[c][r] = nextRequestNum[c]
        /\ UNCHANGED delivered
    BY <1>1, <1>7 DEF WriteRequest, WriteToBroken, RetiredBySender, TypeOK
  <2>2. phase[c] = "sending"
    BY <1>2, <2>1 DEF ClientTypes
  <2> QED
    BY <1>2, <1>3, <2>1, <2>2 DEF SendOf
<1>8. CASE DrainCompletes(c, r) \/ WriteFails(c, r) \/ CloseCompletes(c, r)
  <2>1. /\ task[c][r] \in {"draining", "closing"} /\ task'[c][r] # "sending"
        /\ \A s \in Replicas \ {r} : /\ task'[c][s] = task[c][s]
                                     /\ conn'[c][s] = conn[c][s]
        /\ conn'[c][r] = conn[c][r] \/ conn'[c][r] = "retired"
        /\ UNCHANGED <<lastSent, delivered>>
    BY <1>1, <1>8 DEF DrainCompletes, WriteFails, CloseCompletes,
                      RetiredBySender, TypeOK
  <2> QED
    BY <1>2, <1>3, <2>1, SendShrinks
<1>9. CASE DeliverReply(c, r)
  <2>1. /\ lastSent[c][r] >= nextRequestNum[c]
        /\ UNCHANGED <<task, conn, lastSent>>
    BY <1>9 DEF DeliverReply, Acceptable
  <2>2. lastSent[c][r] = nextRequestNum[c]
    BY <1>2, <2>1 DEF ClientTypes
  <2> QED
    BY <1>2, <1>3, <2>1, <2>2 DEF SendOf
<1>10. CASE \/ DiscardDuplicate(c, r) \/ RejectReply(c, r) \/ ReceiveEof(c, r)
            \/ ReceiverDone(c, r)
  <2>1. /\ \A s \in Replicas \ {r} : conn'[c][s] = conn[c][s]
        /\ conn'[c][r] = conn[c][r] \/ conn'[c][r] \in {"stopped", "done"}
        /\ UNCHANGED <<task, lastSent, delivered>>
    BY <1>1, <1>10 DEF DiscardDuplicate, RejectReply, ReceiveEof,
                       ReceiverDone, TypeOK
  <2> QED
    BY <1>2, <1>3, <2>1, SendShrinks
<1>11. CASE Serve(r, c) \/ Disconnect(c, r) \/ FaultyReply(r, c)
              \/ FaultyRead(r, c)
  BY <1>2, <1>3, <1>11, SendFrame DEF Serve, Disconnect, FaultyReply, FaultyRead
<1> QED
  BY <1>5, <1>6, <1>7, <1>8, <1>9, <1>10, <1>11
     DEF Connection, Opening, Sender, Receiver

\* The numbering and the broadcast, whatever the peers do.
THEOREM SendInvariant == Spec => []SendInv
<1>1. Init => SendInv
  <2> SUFFICES ASSUME Init, NEW c \in Clients PROVE SendOf(c)
    BY DEF SendInv
  <2>1. /\ delivered[c] = 0 /\ nextRequestNum[c] = 1
        /\ \A r \in Replicas : task[c][r] = "none" /\ conn[c][r] = "none"
    BY DEF Init, ForEachConnection
  <2> QED
    BY <2>1 DEF SendOf
<1>2. NumberInv /\ SendInv /\ [Next]_vars => SendInv'
  <2> SUFFICES ASSUME NumberInv, SendInv, [Next]_vars PROVE SendInv'
    OBVIOUS
  <2>1. ASSUME UNCHANGED <<taskVars, connVars, deliveryVars, callerVars>>
        PROVE  SendInv'
    BY <2>1, SendFrame DEF SendInv, taskVars, connVars, deliveryVars, callerVars
  <2>2. CASE UNCHANGED vars
    BY <2>1, <2>2 DEF vars
  <2>3. CASE \E r \in Replicas : Crash(r) \/ Restart(r)
    BY <2>1, <2>3 DEF Crash, Restart
  <2> QED
    BY <2>2, <2>3, CallerSends, ConnectionSends DEF Next
<1> QED
  BY <1>1, <1>2, NumberInvariant, PTL DEF Spec

-----------------------------------------------------------------------------
(***************************************************************************)
(* A connection to a replica that follows the protocol, and the replica's  *)
(* tables for the client, whatever the other peers do.                     *)
(***************************************************************************)
Correct == Replicas \ Faulty

\* The number of the last request executed.
Executed(c, r) == lastReplies[r][c].num

\* A replica that is down has lost its connections.
DownOf(c, r) ==
    ~up[r] => /\ requests[c][r] = <<>>
              /\ conn[c][r] = "none" \/ lost[c][r]

\* The replica's counter is the number of the last request it executed, whose
\* reply it remembers.
TableOf(c, r) ==
    /\ counters[r][c] = Executed(c, r)
    /\ Executed(c, r) <= lastSent[c][r]
    /\ Executed(c, r) > 0 =>
          /\ lastReplies[r][c].op = "increment"
          /\ lastReplies[r][c].reply = ClientReply(Executed(c, r),
                                                   Executed(c, r))

\* May the client still write to the connection.
InUse(c, r) ==
    /\ ~lost[c][r]
    /\ conn[c][r] = "live" \/ task[c][r] = "sending"

\* The requests on the connection go on from the last one executed, and reach
\* up to the last one written as long as there may be another.
RequestOf(c, r) ==
    /\ \A i \in 1..Len(requests[c][r]) :
          requests[c][r][i] \in 1..lastSent[c][r]
    /\ Steady(Executed(c, r), requests[c][r])
    /\ InUse(c, r) =>
          LastOf(Executed(c, r), requests[c][r]) = lastSent[c][r]

\* The replies on the connection are in order, and as long as there may be
\* another they are replies to what the replica has executed.
ReplyOf(c, r) ==
    /\ InOrder(replies[c][r], lastReceived[c][r], lastSent[c][r])
    /\ conn[c][r] = "live" /\ ~lost[c][r] =>
          /\ lastReceived[c][r] <= Executed(c, r)
          /\ \A i \in 1..Len(replies[c][r]) :
                replies[c][r][i].num <= Executed(c, r)

LinkOf(c, r) ==
    DownOf(c, r) /\ TableOf(c, r) /\ RequestOf(c, r) /\ ReplyOf(c, r)

LinkInv == \A c \in Clients, r \in Correct : LinkOf(c, r)

\* The types of the variables of one connection.
LinkTypes(c, r) ==
    /\ up[r] \in BOOLEAN
    /\ counters[r] \in [Clients -> Nat]
    /\ lastReplies[r] \in [Clients -> Entries]
    /\ Executed(c, r) \in Nat
    /\ requests[c][r] \in Seq(Nat)
    /\ replies[c][r] \in Seq(Responses)
    /\ lost[c][r] \in BOOLEAN
    /\ lastSent[c][r] \in Nat
    /\ lastReceived[c][r] \in Nat

LEMMA LinkTypesHold ==
    ASSUME TypeOK, NEW c \in Clients, NEW r \in Replicas
    PROVE  LinkTypes(c, r)
<1>1. /\ up[r] \in BOOLEAN /\ counters[r] \in [Clients -> Nat]
      /\ lastReplies[r] \in [Clients -> Entries]
      /\ requests[c][r] \in Seq(Nat) /\ replies[c][r] \in Seq(Responses)
      /\ lost[c][r] \in BOOLEAN
      /\ lastSent[c][r] \in Nat /\ lastReceived[c][r] \in Nat
  BY DEF TypeOK
<1>2. lastReplies[r][c].num \in Nat
  BY <1>1 DEF Entries
<1> QED
  BY <1>1, <1>2 DEF LinkTypes, Executed

\* A step keeps a connection in order that moves none of its numbers and at
\* most takes it out of use.
LEMMA LinkShrinks ==
    ASSUME NEW c \in Clients, NEW r \in Correct, LinkOf(c, r),
           up'[r] = up[r], counters'[r][c] = counters[r][c],
           lastReplies'[r][c] = lastReplies[r][c],
           requests'[c][r] = requests[c][r],
           replies'[c][r] \in {replies[c][r], <<>>},
           lost'[c][r] = lost[c][r],
           conn'[c][r] = "live" => conn[c][r] = "live",
           conn[c][r] = "none" => conn'[c][r] = "none",
           task'[c][r] = "sending" =>
               task[c][r] = "sending" \/ conn[c][r] = "live",
           lastSent'[c][r] = lastSent[c][r],
           lastReceived'[c][r] = lastReceived[c][r]
    PROVE  LinkOf(c, r)'
<1>1. Executed(c, r)' = Executed(c, r)
  BY DEF Executed
<1>2. DownOf(c, r)'
  BY DEF LinkOf, DownOf
<1>3. TableOf(c, r)'
  BY <1>1 DEF LinkOf, TableOf
<1>4. RequestOf(c, r)'
  BY <1>1 DEF LinkOf, RequestOf, InUse
<1>5. ReplyOf(c, r)'
  BY <1>1, InOrderEmpty DEF LinkOf, ReplyOf
<1> QED
  BY <1>2, <1>3, <1>4, <1>5 DEF LinkOf

\* The steps of a connection that move no number of it.
LEMMA QuietConnection ==
    ASSUME NumberInv, LinkInv, NEW c \in Clients, NEW r \in Correct,
           \/ OpenFails(c, r) \/ DrainCompletes(c, r) \/ WriteFails(c, r)
           \/ CloseCompletes(c, r) \/ RejectReply(c, r) \/ ReceiveEof(c, r)
           \/ ReceiverDone(c, r)
    PROVE  LinkOf(c, r)'
<1> USE DEF serverVars, channelVars, taskVars, connVars, deliveryVars, callerVars
<1>1. TypeOK /\ LinkOf(c, r) /\ r \in Replicas
  BY DEF NumberInv, LinkInv, Correct
<1>2. /\ UNCHANGED <<serverVars, requests, lost, lastSent>>
      /\ replies'[c][r] \in {replies[c][r], <<>>}
      /\ conn'[c][r] \in {conn[c][r], "retired", "stopped", "done"}
      /\ conn[c][r] = "none" => conn'[c][r] = "none"
      /\ task'[c][r] = "sending" => task[c][r] = "sending"
  BY <1>1 DEF TypeOK, OpenFails, DrainCompletes, WriteFails, CloseCompletes,
              RejectReply, ReceiveEof, ReceiverDone, RetiredBySender, HasReply,
              Receiving
<1>3. lastReceived'[c][r] = lastReceived[c][r]
  <2>1. ASSUME RejectReply(c, r) PROVE lastReceived' = lastReceived
    <3>1. ~Acceptable(c, r, Head(replies[c][r]))
      BY <1>1, <2>1, AcceptableIsExpected DEF RejectReply, HasReply
    <3> QED
      BY <1>1, <2>1, <3>1 DEF RejectReply, TypeOK
  <2> QED
    BY <2>1 DEF OpenFails, DrainCompletes, WriteFails, CloseCompletes,
                ReceiveEof, ReceiverDone
<1> QED
  BY <1>1, <1>2, <1>3, LinkShrinks

\* A connection is opened before anything is sent on it.
LEMMA OpenLinks ==
    ASSUME NumberInv, LinkInv, NEW c \in Clients, NEW r \in Correct,
           OpenSucceeds(c, r)
    PROVE  LinkOf(c, r)'
<1>1. TypeOK /\ LinkOf(c, r) /\ r \in Replicas
  BY DEF NumberInv, LinkInv, Correct
<1>2. LinkTypes(c, r) /\ ClientTypes(c)
  BY <1>1, LinkTypesHold, ClientTypesHold
<1>3. lastSent[c][r] = 0 /\ lastReceived[c][r] = 0
  <2>1. lastSent[c][r] = 0
    BY <1>1, <1>2 DEF OpenSucceeds, ClientTypes
  <2> QED
    BY <1>1, <1>2, <2>1 DEF NumberInv, SentInv, LinkTypes
<1>4. Executed(c, r) = 0
  BY <1>1, <1>2, <1>3 DEF LinkOf, TableOf, LinkTypes
<1>5. requests[c][r] = <<>> /\ replies[c][r] = <<>>
  <2>1. \A i \in 1..Len(requests[c][r]) : requests[c][r][i] \in 1..0
    BY <1>1, <1>3 DEF LinkOf, RequestOf
  <2>2. \A i \in 1..Len(replies[c][r]) : replies[c][r][i].num \in 1..0
    BY <1>1, <1>3 DEF LinkOf, ReplyOf, InOrder
  <2>3. 1 \notin 1..Len(requests[c][r]) /\ 1 \notin 1..Len(replies[c][r])
    BY <2>1, <2>2
  <2> QED
    BY <1>2, <2>3, EmptySeq DEF LinkTypes
<1>6. /\ UNCHANGED <<serverVars, requests, replies, lost, lastSent, lastReceived>>
      /\ conn'[c][r] = "live" /\ up[r]
  BY <1>1 DEF OpenSucceeds, channelVars, TypeOK
<1>7. Executed(c, r)' = Executed(c, r) /\ up'[r] = up[r]
  BY <1>6 DEF Executed, serverVars
<1>8. DownOf(c, r)'
  BY <1>6, <1>7 DEF DownOf
<1>9. TableOf(c, r)'
  BY <1>1, <1>6, <1>7 DEF LinkOf, TableOf, serverVars
<1>10. RequestOf(c, r)'
  BY <1>1, <1>3, <1>4, <1>5, <1>6, <1>7 DEF LinkOf, RequestOf, LastOf
<1>11. ReplyOf(c, r)'
  BY <1>1, <1>3, <1>4, <1>5, <1>6, <1>7, EmptySeq DEF LinkOf, ReplyOf
<1> QED
  BY <1>8, <1>9, <1>10, <1>11 DEF LinkOf

\* The client writes its number: the one it wrote last or the next one.
LEMMA WriteLinks ==
    ASSUME NumberInv, SendInv, LinkInv, NEW c \in Clients, NEW r \in Correct,
           WriteRequest(c, r)
    PROVE  LinkOf(c, r)'
<1>1. TypeOK /\ LinkOf(c, r) /\ r \in Replicas /\ SendOf(c)
  BY DEF NumberInv, LinkInv, SendInv, Correct
<1>2. LinkTypes(c, r) /\ ClientTypes(c)
  BY <1>1, LinkTypesHold, ClientTypesHold
<1> DEFINE n == nextRequestNum[c]
           q == requests[c][r]
<1>3. /\ task[c][r] = "sending" /\ ~lost[c][r]
      /\ requests'[c][r] = Append(q, n)
      /\ lastSent'[c][r] = n
      /\ task'[c][r] # "sending"
      /\ UNCHANGED <<serverVars, replies, lost, conn, lastReceived>>
  BY <1>1 DEF WriteRequest, Broken, TypeOK
<1>4. /\ Executed(c, r)' = Executed(c, r) /\ up'[r] = up[r]
      /\ n \in Nat /\ n >= 1 /\ q \in Seq(Nat) /\ lastSent[c][r] <= n
      /\ lastSent[c][r] \in {n - 1, n} /\ conn[c][r] # "none"
      /\ Executed(c, r) \in Nat /\ lastSent[c][r] \in Nat
  BY <1>1, <1>2, <1>3 DEF Executed, serverVars, ClientTypes, LinkTypes, SendOf
<1>5. LastOf(Executed(c, r), q) = lastSent[c][r] /\ Steady(Executed(c, r), q)
  BY <1>1, <1>3 DEF LinkOf, RequestOf, InUse
<1>6. DownOf(c, r)'
  BY <1>1, <1>3, <1>4 DEF LinkOf, DownOf
<1>7. TableOf(c, r)'
  <2>1. Executed(c, r) <= n
    BY <1>1, <1>4 DEF LinkOf, TableOf
  <2> QED
    BY <1>1, <1>3, <1>4, <2>1 DEF LinkOf, TableOf, serverVars
<1>8. RequestOf(c, r)'
  <2>1. Steady(Executed(c, r), Append(q, n))
        /\ LastOf(Executed(c, r), Append(q, n)) = n
    BY <1>4, <1>5, SteadyAppend
  <2>2. \A i \in 1..Len(Append(q, n)) : Append(q, n)[i] \in 1..n
    <3>1. \A i \in 1..Len(q) : q[i] \in 1..lastSent[c][r]
      BY <1>1 DEF LinkOf, RequestOf
    <3> HIDE DEF n, q
    <3>2. /\ Len(Append(q, n)) = Len(q) + 1 /\ Append(q, n)[Len(q) + 1] = n
          /\ \A i \in 1..Len(q) : Append(q, n)[i] = q[i]
          /\ Len(q) \in Nat
      BY <1>4
    <3> QED
      BY <1>4, <3>1, <3>2
  <2> QED
    BY <1>3, <1>4, <2>1, <2>2 DEF RequestOf
<1>9. ReplyOf(c, r)'
  <2>1. InOrder(replies[c][r], lastReceived[c][r], n)
    BY <1>1, <1>2, <1>4, InOrderHigher DEF LinkOf, ReplyOf, LinkTypes
  <2> QED
    BY <1>1, <1>3, <1>4, <2>1 DEF LinkOf, ReplyOf
<1> QED
  BY <1>6, <1>7, <1>8, <1>9 DEF LinkOf

\* What is written to a broken connection does not get there, and nothing is
\* written to it after that.
LEMMA BrokenLinks ==
    ASSUME NumberInv, SendInv, LinkInv, NEW c \in Clients, NEW r \in Correct,
           WriteToBroken(c, r)
    PROVE  LinkOf(c, r)'
<1>1. TypeOK /\ LinkOf(c, r) /\ r \in Replicas
  BY DEF NumberInv, LinkInv, Correct
<1>2. LinkTypes(c, r) /\ ClientTypes(c)
  BY <1>1, LinkTypesHold, ClientTypesHold
<1> DEFINE n == nextRequestNum[c]
<1>3. /\ lost[c][r] \/ conn[c][r] # "live"
      /\ lastSent'[c][r] = n
      /\ task'[c][r] # "sending"
      /\ conn'[c][r] = "live" => conn[c][r] = "live"
      /\ conn[c][r] = "none" => conn'[c][r] = "none"
      /\ UNCHANGED <<serverVars, requests, replies, lost, lastReceived>>
  BY <1>1 DEF WriteToBroken, Broken, RetiredBySender, channelVars, TypeOK
<1>4. /\ Executed(c, r)' = Executed(c, r) /\ up'[r] = up[r]
      /\ n \in Nat /\ lastSent[c][r] <= n
      /\ Executed(c, r) \in Nat /\ lastSent[c][r] \in Nat
  BY <1>1, <1>2, <1>3 DEF Executed, serverVars, ClientTypes, LinkTypes
<1>5. DownOf(c, r)'
  BY <1>1, <1>3, <1>4 DEF LinkOf, DownOf
<1>6. TableOf(c, r)'
  <2>1. Executed(c, r) <= n
    BY <1>1, <1>4 DEF LinkOf, TableOf
  <2> QED
    BY <1>1, <1>3, <1>4, <2>1 DEF LinkOf, TableOf, serverVars
<1>7. RequestOf(c, r)'
  <2>1. \A i \in 1..Len(requests[c][r]) : requests[c][r][i] \in 1..n
    BY <1>1, <1>4 DEF LinkOf, RequestOf
  <2> QED
    BY <1>1, <1>3, <1>4, <2>1 DEF LinkOf, RequestOf, InUse
<1>8. ReplyOf(c, r)'
  <2>1. InOrder(replies[c][r], lastReceived[c][r], n)
    BY <1>1, <1>2, <1>4, InOrderHigher DEF LinkOf, ReplyOf, LinkTypes
  <2> QED
    BY <1>1, <1>3, <1>4, <2>1 DEF LinkOf, ReplyOf
<1> QED
  BY <1>5, <1>6, <1>7, <1>8 DEF LinkOf

\* The receiver takes a reply.
LEMMA ReceiveLinks ==
    ASSUME NumberInv, LinkInv, NEW c \in Clients, NEW r \in Correct,
           DeliverReply(c, r) \/ DiscardDuplicate(c, r)
    PROVE  LinkOf(c, r)'
<1>1. TypeOK /\ LinkOf(c, r) /\ r \in Replicas
  BY DEF NumberInv, LinkInv, Correct
<1>2. LinkTypes(c, r)
  BY <1>1, LinkTypesHold
<1> DEFINE p == replies[c][r]
<1>3. /\ p # <<>> /\ replies'[c][r] = Tail(p)
      /\ lastReceived'[c][r] = Head(p).num
      /\ UNCHANGED <<serverVars, requests, lost, task, conn, lastSent>>
  <2>1. /\ replies \in [Clients -> [Replicas -> Seq(Responses)]]
        /\ lastReceived \in [Clients -> [Replicas -> Nat]]
    BY <1>1 DEF TypeOK
  <2>2. CASE DeliverReply(c, r)
    BY <1>1, <2>1, <2>2 DEF DeliverReply, HasReply, taskVars
  <2>3. CASE DiscardDuplicate(c, r)
    BY <1>1, <2>1, <2>3 DEF DiscardDuplicate, HasReply, taskVars
  <2> QED
    BY <2>2, <2>3
<1>4. Executed(c, r)' = Executed(c, r) /\ up'[r] = up[r]
  BY <1>3 DEF Executed, serverVars
<1>5. DownOf(c, r)'
  BY <1>1, <1>3, <1>4 DEF LinkOf, DownOf
<1>6. TableOf(c, r)'
  BY <1>1, <1>3, <1>4 DEF LinkOf, TableOf, serverVars
<1>7. RequestOf(c, r)'
  BY <1>1, <1>3, <1>4 DEF LinkOf, RequestOf, InUse
<1>8. ReplyOf(c, r)'
  <2>1. /\ InOrder(Tail(p), Head(p).num, lastSent[c][r])
        /\ \A i \in 1..Len(Tail(p)) :
              i + 1 \in 1..Len(p) /\ Tail(p)[i] = p[i + 1]
    BY <1>1, <1>2, <1>3, InOrderTail DEF LinkOf, ReplyOf, LinkTypes
  <2>2. 1 \in 1..Len(p) /\ Head(p) = p[1]
    BY <1>2, <1>3, TailElements DEF LinkTypes
  <2> HIDE DEF p
  <2>3. conn[c][r] = "live" /\ ~lost[c][r] =>
           /\ Head(p).num <= Executed(c, r)
           /\ \A i \in 1..Len(Tail(p)) : Tail(p)[i].num <= Executed(c, r)
    BY <1>1, <2>1, <2>2 DEF LinkOf, ReplyOf, p
  <2> QED
    BY <1>3, <1>4, <2>1, <2>3 DEF ReplyOf
<1> QED
  BY <1>5, <1>6, <1>7, <1>8 DEF LinkOf

\* What the replica does with the request it reads: the last one again is
\* answered from the table, the next one is counted and answered with its
\* number.
LEMMA ServeTable ==
    ASSUME NumberInv, LinkInv, NEW c \in Clients, NEW r \in Correct,
           Serve(r, c)
    PROVE  LET n == Head(requests[c][r]) IN
           /\ n \in Nat /\ n >= 1 /\ n \in {Executed(c, r), Executed(c, r) + 1}
           /\ Executed(c, r)' = n
           /\ counters'[r][c] = n
           /\ lastReplies'[r][c].op = "increment"
           /\ lastReplies'[r][c].reply = ClientReply(n, n)
           /\ replies'[c][r] = IF conn[c][r] = "live" /\ ~lost[c][r]
                               THEN Append(replies[c][r], ClientReply(n, n))
                               ELSE replies[c][r]
           /\ requests'[c][r] = Tail(requests[c][r])
           /\ \A d \in Clients \ {c} : counters'[r][d] = counters[r][d]
<1> DEFINE n == Head(requests[c][r])
           entry == lastReplies[r][c]
           request == Request(c, n, "increment")
<1>1. TypeOK /\ LinkOf(c, r) /\ r \in Replicas
  BY DEF NumberInv, LinkInv, Correct
<1>2. LinkTypes(c, r)
  BY <1>1, LinkTypesHold
<1>3. requests[c][r] # <<>>
  BY DEF Serve
<1>4. n \in Nat /\ n >= 1 /\ n \in {Executed(c, r), Executed(c, r) + 1}
  <2>1. n \in {Executed(c, r), Executed(c, r) + 1}
    BY <1>1, <1>2, <1>3, SteadyTail DEF LinkOf, RequestOf, LinkTypes
  <2>2. 1 \in 1..Len(requests[c][r]) /\ n = requests[c][r][1]
    BY <1>2, <1>3, TailElements DEF LinkTypes
  <2>3. n \in 1..lastSent[c][r]
    BY <1>1, <2>2 DEF LinkOf, RequestOf
  <2> QED
    BY <1>2, <2>1, <2>3 DEF LinkTypes
<1>5. /\ entry \in Entries /\ counters[r] \in [Clients -> Nat]
      /\ entry.num = Executed(c, r) /\ counters[r][c] = Executed(c, r)
      /\ Executed(c, r) \in Nat
      /\ Executed(c, r) > 0 =>
            /\ entry.op = "increment"
            /\ entry.reply = ClientReply(Executed(c, r), Executed(c, r))
  BY <1>1, <1>2 DEF LinkOf, TableOf, LinkTypes, Executed
<1>6. /\ counters' = [counters EXCEPT ![r] = CountersAfter(@, entry, request)]
      /\ lastReplies' = [lastReplies EXCEPT ![r][c] =
                            EntryAfter(counters[r], entry, request)]
      /\ replies' = [replies EXCEPT ![c][r] =
            IF conn[c][r] = "live" /\ ~lost[c][r]
            THEN Append(@, Response(counters[r], entry, request)) ELSE @]
      /\ requests' = [requests EXCEPT ![c][r] = Tail(@)]
  BY DEF Serve
<1> HIDE DEF n, entry, request
<1>7. /\ counters'[r] = CountersAfter(counters[r], entry, request)
      /\ lastReplies'[r][c] = EntryAfter(counters[r], entry, request)
      /\ replies'[c][r] =
            IF conn[c][r] = "live" /\ ~lost[c][r]
            THEN Append(replies[c][r], Response(counters[r], entry, request))
            ELSE replies[c][r]
      /\ requests'[c][r] = Tail(requests[c][r])
  <2>1. /\ counters \in [Replicas -> [Clients -> Nat]]
        /\ lastReplies \in [Replicas -> [Clients -> Entries]]
        /\ replies \in [Clients -> [Replicas -> Seq(Responses)]]
        /\ requests \in [Clients -> [Replicas -> Seq(Nat)]]
    BY <1>1 DEF TypeOK
  <2> QED
    BY <1>1, <1>6, <2>1
<1>8. /\ Response(counters[r], entry, request) = ClientReply(n, n)
      /\ counters'[r][c] = n
      /\ \A d \in Clients \ {c} : counters'[r][d] = counters[r][d]
      /\ lastReplies'[r][c].num = n
      /\ lastReplies'[r][c].op = "increment"
      /\ lastReplies'[r][c].reply = ClientReply(n, n)
  <2>1. CASE n = Executed(c, r) + 1
    <3>1. /\ Response(counters[r], entry, request) = ClientReply(n, n)
          /\ CountersAfter(counters[r], entry, request)
                = [counters[r] EXCEPT ![c] = @ + 1]
          /\ EntryAfter(counters[r], entry, request)
                = Entry(n, "increment", ClientReply(n, n))
      BY <1>4, <1>5, <2>1, NewIncrement DEF request
    <3> QED
      BY <1>4, <1>5, <1>7, <2>1, <3>1 DEF Entry
  <2>2. CASE n = Executed(c, r)
    <3>1. /\ Response(counters[r], entry, request) = entry.reply
          /\ CountersAfter(counters[r], entry, request) = counters[r]
          /\ EntryAfter(counters[r], entry, request) = entry
      BY <1>4, <1>5, <2>2, RepeatedIncrement DEF request
    <3> QED
      BY <1>4, <1>5, <1>7, <2>2, <3>1
  <2> QED
    BY <1>4, <2>1, <2>2
<1> QED
  BY <1>4, <1>7, <1>8 DEF Executed, n

\* A replica serves a request.
LEMMA ServeLinks ==
    ASSUME NumberInv, LinkInv, NEW c \in Clients, NEW r \in Correct,
           Serve(r, c)
    PROVE  LinkOf(c, r)'
<1> DEFINE n == Head(requests[c][r])
           q == requests[c][r]
           p == replies[c][r]
<1>1. TypeOK /\ LinkOf(c, r) /\ r \in Replicas
  BY DEF NumberInv, LinkInv, Correct
<1>2. LinkTypes(c, r)
  BY <1>1, LinkTypesHold
<1>3. /\ n \in Nat /\ n >= 1 /\ n \in {Executed(c, r), Executed(c, r) + 1}
      /\ Executed(c, r)' = n /\ counters'[r][c] = n
      /\ lastReplies'[r][c].op = "increment"
      /\ lastReplies'[r][c].reply = ClientReply(n, n)
      /\ replies'[c][r] = IF conn[c][r] = "live" /\ ~lost[c][r]
                          THEN Append(p, ClientReply(n, n)) ELSE p
      /\ requests'[c][r] = Tail(q)
  BY ServeTable
<1>4. /\ up[r] /\ q # <<>> /\ UNCHANGED <<up, lost, task, conn, lastSent,
                                           lastReceived>>
  BY DEF Serve, taskVars, connVars
<1>5. /\ q \in Seq(Nat) /\ p \in Seq(Responses) /\ Executed(c, r) \in Nat
      /\ lastSent[c][r] \in Nat /\ lastReceived[c][r] \in Nat
  BY <1>2 DEF LinkTypes
<1>6. /\ Tail(q) \in Seq(Nat)
      /\ 1 \in 1..Len(q) /\ n = q[1]
      /\ \A i \in 1..Len(Tail(q)) : i + 1 \in 1..Len(q) /\ Tail(q)[i] = q[i + 1]
  BY <1>4, <1>5, TailElements
<1>7. \A i \in 1..Len(q) : q[i] \in 1..lastSent[c][r]
  BY <1>1 DEF LinkOf, RequestOf
<1>8. n \in 1..lastSent[c][r]
  BY <1>6, <1>7
<1> HIDE DEF n, q, p
<1>9. DownOf(c, r)'
  BY <1>4 DEF DownOf
<1>10. TableOf(c, r)'
  BY <1>3, <1>4, <1>8 DEF TableOf
<1>11. RequestOf(c, r)'
  <2>1. /\ Steady(n, Tail(q))
        /\ LastOf(n, Tail(q)) = LastOf(Executed(c, r), q)
    BY <1>1, <1>4, <1>5, SteadyTail DEF LinkOf, RequestOf, n, q
  <2>2. \A i \in 1..Len(Tail(q)) : Tail(q)[i] \in 1..lastSent[c][r]
    BY <1>6, <1>7
  <2> QED
    BY <1>1, <1>3, <1>4, <2>1, <2>2 DEF LinkOf, RequestOf, InUse, q
<1>12. ReplyOf(c, r)'
  <2>1. CASE conn[c][r] = "live" /\ ~lost[c][r]
    <3>1. /\ lastReceived[c][r] <= Executed(c, r)
          /\ \A i \in 1..Len(p) : p[i].num <= Executed(c, r)
          /\ InOrder(p, lastReceived[c][r], lastSent[c][r])
      BY <1>1, <2>1 DEF LinkOf, ReplyOf, p
    <3>2. /\ lastReceived[c][r] <= n
          /\ \A i \in 1..Len(p) : p[i].num <= n
      <4>1. \A i \in 1..Len(p) : p[i].num \in Nat
        BY <3>1 DEF InOrder
      <4> QED
        BY <1>3, <1>5, <3>1, <4>1
    <3>3. InOrder(Append(p, ClientReply(n, n)), lastReceived[c][r],
                  lastSent[c][r])
      BY <1>5, <1>8, <3>1, <3>2, InOrderAppend
    <3>4. \A i \in 1..Len(Append(p, ClientReply(n, n))) :
              Append(p, ClientReply(n, n))[i].num <= n
      <4> DEFINE m == ClientReply(n, n)
      <4>1. m.num = n
        BY DEF ClientReply
      <4> HIDE DEF m
      <4>2. /\ Len(Append(p, m)) = Len(p) + 1 /\ Append(p, m)[Len(p) + 1] = m
            /\ \A i \in 1..Len(p) : Append(p, m)[i] = p[i]
            /\ Len(p) \in Nat
        BY <1>5
      <4>3. \A i \in 1..Len(Append(p, m)) : Append(p, m)[i].num <= n
        BY <1>3, <3>2, <4>1, <4>2
      <4> QED
        BY <4>3 DEF m
    <3> QED
      BY <1>3, <1>4, <2>1, <3>2, <3>3, <3>4 DEF ReplyOf
  <2>2. CASE ~(conn[c][r] = "live" /\ ~lost[c][r])
    BY <1>1, <1>3, <1>4, <2>2 DEF LinkOf, ReplyOf, p
  <2> QED
    BY <2>1, <2>2
<1> QED
  BY <1>9, <1>10, <1>11, <1>12 DEF LinkOf

\* A reset loses the end of what is on its way.
LEMMA DisconnectLinks ==
    ASSUME NumberInv, LinkInv, NEW c \in Clients, NEW r \in Correct,
           Disconnect(c, r)
    PROVE  LinkOf(c, r)'
<1>1. TypeOK /\ LinkOf(c, r) /\ r \in Replicas
  BY DEF NumberInv, LinkInv, Correct
<1>2. LinkTypes(c, r)
  BY <1>1, LinkTypesHold
<1> DEFINE q == requests[c][r]
<1>3. PICK k \in 0..Len(q) : requests'[c][r] = SubSeq(q, 1, k)
  BY <1>1 DEF Disconnect, TypeOK
<1>4. /\ lost'[c][r]
      /\ UNCHANGED <<serverVars, replies, task, conn, lastSent, lastReceived>>
  BY <1>1 DEF Disconnect, TypeOK, taskVars, connVars
<1>5. Executed(c, r)' = Executed(c, r) /\ up'[r] = up[r]
  BY <1>4 DEF Executed, serverVars
<1>6. DownOf(c, r)'
  <2>1. q = <<>> => SubSeq(q, 1, k) = <<>>
    BY <1>2 DEF LinkTypes
  <2> QED
    BY <1>1, <1>3, <1>4, <1>5, <2>1 DEF LinkOf, DownOf
<1>7. TableOf(c, r)'
  BY <1>1, <1>4, <1>5 DEF LinkOf, TableOf, serverVars
<1>8. RequestOf(c, r)'
  <2>1. Steady(Executed(c, r), SubSeq(q, 1, k))
    BY <1>1, <1>2, SteadyPrefix DEF LinkOf, RequestOf, LinkTypes
  <2>2. \A i \in 1..Len(SubSeq(q, 1, k)) :
            SubSeq(q, 1, k)[i] \in 1..lastSent[c][r]
    <3>1. \A i \in 1..Len(q) : q[i] \in 1..lastSent[c][r]
      BY <1>1 DEF LinkOf, RequestOf
    <3>2. q \in Seq(Nat)
      BY <1>2 DEF LinkTypes
    <3> HIDE DEF q
    <3> QED
      BY <3>1, <3>2
  <2> QED
    BY <1>3, <1>4, <1>5, <2>1, <2>2 DEF RequestOf, InUse
<1>9. ReplyOf(c, r)'
  BY <1>1, <1>4, <1>5 DEF LinkOf, ReplyOf
<1> QED
  BY <1>6, <1>7, <1>8, <1>9 DEF LinkOf

\* A crash loses the connections with their requests, a restart the tables.
LEMMA ProcessLinks ==
    ASSUME NumberInv, SendInv, LinkInv, NEW r \in Correct,
           Crash(r) \/ Restart(r), NEW c \in Clients
    PROVE  LinkOf(c, r)'
<1>1. TypeOK /\ LinkOf(c, r) /\ r \in Replicas /\ SendOf(c)
  BY DEF NumberInv, LinkInv, SendInv, Correct
<1>2. LinkTypes(c, r) /\ ClientTypes(c)
  BY <1>1, LinkTypesHold, ClientTypesHold
<1>3. /\ UNCHANGED <<replies, task, conn, lastSent, lastReceived>>
      /\ requests'[c][r] = <<>>
      /\ conn[c][r] = "none" \/ lost'[c][r]
  <2>1. CASE Crash(r)
    BY <1>1, <2>1 DEF Crash, TypeOK, taskVars, connVars
  <2>2. CASE Restart(r)
    BY <1>1, <2>2 DEF Restart, LinkOf, DownOf, channelVars, taskVars, connVars
  <2> QED
    BY <2>1, <2>2
<1>4. ~InUse(c, r)' /\ ~(conn'[c][r] = "live" /\ ~lost'[c][r])
  BY <1>1, <1>3 DEF InUse, SendOf
<1>5. DownOf(c, r)'
  BY <1>3 DEF DownOf
<1>6. TableOf(c, r)'
  <2>1. CASE Crash(r)
    BY <1>1, <1>3, <2>1 DEF Crash, LinkOf, TableOf, Executed
  <2>2. CASE Restart(r)
    <3>1. counters'[r][c] = 0 /\ lastReplies'[r][c] = NoEntry
      BY <1>1, <2>2 DEF Restart, TypeOK, InitialCounters
    <3>2. Executed(c, r)' = 0
      BY <3>1 DEF Executed, NoEntry, Entry
    <3> QED
      BY <1>2, <1>3, <3>1, <3>2 DEF TableOf, LinkTypes
  <2> QED
    BY <2>1, <2>2
<1>7. RequestOf(c, r)'
  BY <1>3, <1>4, EmptySeq DEF RequestOf, Steady
<1>8. ReplyOf(c, r)'
  BY <1>1, <1>3, <1>4 DEF LinkOf, ReplyOf
<1> QED
  BY <1>5, <1>6, <1>7, <1>8 DEF LinkOf

\* The caller moves no number of any connection.
LEMMA CallerLinks ==
    ASSUME NumberInv, LinkInv, NEW c \in Clients,
           Caller(c) \/ Close(c) \/ Exit(c)
    PROVE  LinkInv'
<1> USE DEF serverVars, channelVars, taskVars, connVars, deliveryVars, callerVars
<1> SUFFICES ASSUME NEW d \in Clients, NEW s \in Correct PROVE LinkOf(d, s)'
  BY DEF LinkInv
<1>1. TypeOK /\ LinkOf(d, s) /\ s \in Replicas
  BY DEF NumberInv, LinkInv, Correct
<1>2. /\ replies \in [Clients -> [Replicas -> Seq(Responses)]]
      /\ conn \in [Clients -> [Replicas -> Conns]]
      /\ task \in [Clients -> [Replicas -> Tasks]]
  BY <1>1 DEF TypeOK
<1>3. UNCHANGED <<serverVars, requests, lost, lastSent, lastReceived>>
  BY DEF Caller, Close, Exit, OpenReplicas, ReturnLateReply, NoReplicas,
         Broadcast, BroadcastDone, AwaitedReply, ReplyTimeout
<1>4. /\ replies'[d][s] \in {replies[d][s], <<>>}
      /\ conn'[d][s] = "live" => conn[d][s] = "live"
      /\ conn[d][s] = "none" => conn'[d][s] = "none"
      /\ task'[d][s] = "sending" => task[d][s] = "sending" \/ conn[d][s] = "live"
  <2>1. CASE Close(c)
    BY <1>1, <1>2, <2>1 DEF Close, Receiving
  <2>2. CASE OpenReplicas(c)
    BY <1>1, <1>2, <2>2 DEF OpenReplicas
  <2>3. CASE Broadcast(c)
    BY <1>1, <1>2, <2>3 DEF Broadcast
  <2>4. CASE \/ ReturnLateReply(c) \/ NoReplicas(c) \/ BroadcastDone(c)
             \/ AwaitedReply(c) \/ ReplyTimeout(c) \/ Exit(c)
    BY <2>4 DEF ReturnLateReply, NoReplicas, BroadcastDone, AwaitedReply,
                ReplyTimeout, Exit
  <2> QED
    BY <2>1, <2>2, <2>3, <2>4 DEF Caller
<1> QED
  BY <1>1, <1>3, <1>4, LinkShrinks

\* A step on one connection leaves the others and their tables alone.
LEMMA OtherLinks ==
    ASSUME NumberInv, LinkInv, NEW c \in Clients, NEW r \in Replicas,
           Connection(c, r), NEW d \in Clients, NEW s \in Correct,
           d # c \/ s # r
    PROVE  LinkOf(d, s)'
<1> USE DEF serverVars, channelVars, taskVars, connVars, deliveryVars, callerVars
<1>1. TypeOK /\ LinkOf(d, s) /\ s \in Replicas
  BY DEF NumberInv, LinkInv, Correct
<1>2. /\ requests \in [Clients -> [Replicas -> Seq(Nat)]]
      /\ replies \in [Clients -> [Replicas -> Seq(Responses)]]
      /\ lost \in [Clients -> [Replicas -> BOOLEAN]]
      /\ task \in [Clients -> [Replicas -> Tasks]]
      /\ conn \in [Clients -> [Replicas -> Conns]]
      /\ lastSent \in [Clients -> [Replicas -> Nat]]
      /\ lastReceived \in [Clients -> [Replicas -> Nat]]
  BY <1>1 DEF TypeOK
<1>3. ASSUME NEW f, NEW S, f \in [Clients -> [Replicas -> S]], NEW x
      PROVE  [f EXCEPT ![c][r] = x][d][s] = f[d][s]
  BY <1>1, <1>3
<1>4. CASE Opening(c, r)
  <2>1. UNCHANGED <<serverVars, channelVars, lastSent, lastReceived>>
    BY <1>4 DEF Opening, OpenSucceeds, OpenFails
  <2>2. task'[d][s] = task[d][s] /\ conn'[d][s] = conn[d][s]
    BY <1>1, <1>2, <1>3, <1>4 DEF Opening, OpenSucceeds, OpenFails
  <2> QED
    BY <1>1, <2>1, <2>2, LinkShrinks
<1>5. CASE Sender(c, r)
  <2>1. UNCHANGED <<serverVars, replies, lost, lastReceived>>
    BY <1>5 DEF Sender, WriteRequest, WriteToBroken, DrainCompletes, WriteFails,
                CloseCompletes
  <2>2. requests'[d][s] = requests[d][s] /\ lastSent'[d][s] = lastSent[d][s]
    BY <1>1, <1>2, <1>3, <1>5 DEF Sender, WriteRequest, WriteToBroken,
           DrainCompletes, WriteFails, CloseCompletes
  <2>3. task'[d][s] = task[d][s] /\ conn'[d][s] = conn[d][s]
    BY <1>1, <1>2, <1>3, <1>5 DEF Sender, WriteRequest, WriteToBroken,
           DrainCompletes, WriteFails, CloseCompletes, RetiredBySender
  <2> QED
    BY <1>1, <2>1, <2>2, <2>3, LinkShrinks
<1>6. CASE Receiver(c, r)
  <2>1. UNCHANGED <<serverVars, requests, lost, task, lastSent>>
    BY <1>6 DEF Receiver, DeliverReply, DiscardDuplicate, RejectReply,
                ReceiveEof, ReceiverDone
  <2>2. replies'[d][s] = replies[d][s] /\ conn'[d][s] = conn[d][s]
    BY <1>1, <1>2, <1>3, <1>6 DEF Receiver, DeliverReply, DiscardDuplicate,
           RejectReply, ReceiveEof, ReceiverDone
  <2>3. lastReceived'[d][s] = lastReceived[d][s]
    BY <1>1, <1>2, <1>3, <1>6 DEF Receiver, DeliverReply, DiscardDuplicate,
           RejectReply, ReceiveEof, ReceiverDone
  <2> QED
    BY <1>1, <2>1, <2>2, <2>3, LinkShrinks
<1>7. CASE Serve(r, c)
  <2>1. r \in Correct /\ UNCHANGED <<up, lost, taskVars, connVars>>
    BY <1>7 DEF Serve, Correct
  <2>2. s = r => counters'[s][d] = counters[s][d]
    BY <1>7, <2>1, ServeTable
  <2>3. s # r => counters'[s][d] = counters[s][d]
    BY <1>1, <1>7 DEF Serve, TypeOK
  <2>4. PICK entry, queue :
            /\ lastReplies' = [lastReplies EXCEPT ![r][c] = entry]
            /\ replies' = [replies EXCEPT ![c][r] = queue]
            /\ requests' = [requests EXCEPT ![c][r] = Tail(@)]
    BY <1>7 DEF Serve
  <2>5. lastReplies'[s][d] = lastReplies[s][d]
    <3>1. lastReplies \in [Replicas -> [Clients -> Entries]]
      BY <1>1 DEF TypeOK
    <3> QED
      BY <1>1, <2>4, <3>1
  <2>6. requests'[d][s] = requests[d][s] /\ replies'[d][s] = replies[d][s]
    BY <1>1, <1>2, <1>3, <2>4
  <2> QED
    BY <1>1, <2>1, <2>2, <2>3, <2>5, <2>6, LinkShrinks
<1>8. CASE Disconnect(c, r) \/ FaultyReply(r, c) \/ FaultyRead(r, c)
  <2>1. UNCHANGED <<serverVars, taskVars, connVars>>
    BY <1>8 DEF Disconnect, FaultyReply, FaultyRead
  <2>2. lost'[d][s] = lost[d][s]
    BY <1>1, <1>2, <1>3, <1>8 DEF Disconnect, FaultyReply, FaultyRead
  <2>3. replies'[d][s] = replies[d][s]
    <3>1. replies' = replies \/ \E x : replies' = [replies EXCEPT ![c][r] = x]
      BY <1>8 DEF Disconnect, FaultyReply, FaultyRead
    <3> QED
      BY <1>1, <1>2, <1>3, <3>1
  <2>4. requests'[d][s] = requests[d][s]
    <3>1. requests' = requests \/ \E x : requests' = [requests EXCEPT ![c][r] = x]
      BY <1>8 DEF Disconnect, FaultyReply, FaultyRead
    <3> QED
      BY <1>1, <1>2, <1>3, <3>1
  <2> QED
    BY <1>1, <2>1, <2>2, <2>3, <2>4, LinkShrinks
<1> QED
  BY <1>4, <1>5, <1>6, <1>7, <1>8 DEF Connection

\* A step on a connection keeps that connection in order.
LEMMA OwnLink ==
    ASSUME NumberInv, SendInv, LinkInv, NEW c \in Clients, NEW r \in Correct,
           Connection(c, r)
    PROVE  LinkOf(c, r)'
<1>1. ~FaultyReply(r, c) /\ ~FaultyRead(r, c)
  BY DEF FaultyReply, FaultyRead, Correct
<1> QED
  BY <1>1, QuietConnection, OpenLinks, WriteLinks, BrokenLinks, ReceiveLinks,
     ServeLinks, DisconnectLinks
     DEF Connection, Opening, Sender, Receiver

\* The connections to correct replicas stay in order, whatever the others do.
THEOREM LinkInvariant == Spec => []LinkInv
<1>1. Init => LinkInv
  <2> SUFFICES ASSUME Init, NEW c \in Clients, NEW r \in Correct
               PROVE  LinkOf(c, r)
    BY DEF LinkInv
  <2>1. /\ up[r] /\ counters[r][c] = 0 /\ lastReplies[r][c] = NoEntry
        /\ requests[c][r] = <<>> /\ replies[c][r] = <<>>
        /\ task[c][r] = "none" /\ conn[c][r] = "none"
        /\ lastSent[c][r] = 0
    BY DEF Init, ForEachConnection, InitialCounters, Correct
  <2>2. Executed(c, r) = 0
    BY <2>1 DEF Executed, NoEntry, Entry
  <2>3. DownOf(c, r) /\ TableOf(c, r)
    BY <2>1, <2>2 DEF DownOf, TableOf
  <2>4. RequestOf(c, r)
    BY <2>1, <2>2, EmptySeq DEF RequestOf, Steady, InUse
  <2>5. ReplyOf(c, r)
    BY <2>1, InOrderEmpty DEF ReplyOf
  <2> QED
    BY <2>3, <2>4, <2>5 DEF LinkOf
<1>2. NumberInv /\ SendInv /\ LinkInv /\ [Next]_vars => LinkInv'
  <2> SUFFICES ASSUME NumberInv, SendInv, LinkInv, [Next]_vars PROVE LinkInv'
    OBVIOUS
  <2>1. CASE UNCHANGED vars
    BY <2>1, LinkShrinks DEF LinkInv, vars, serverVars, channelVars, taskVars,
                             connVars
  <2>2. CASE \E c \in Clients : Caller(c) \/ Close(c) \/ Exit(c)
    BY <2>2, CallerLinks
  <2>3. CASE \E c \in Clients, r \in Replicas : Connection(c, r)
    BY <2>3, OwnLink, OtherLinks DEF LinkInv
  <2>4. CASE \E r \in Replicas : Crash(r) \/ Restart(r)
    <3>1. PICK r \in Replicas : Crash(r) \/ Restart(r)
      BY <2>4
    <3> SUFFICES ASSUME NEW d \in Clients, NEW s \in Correct PROVE LinkOf(d, s)'
      BY DEF LinkInv
    <3>2. CASE s = r
      BY <3>1, <3>2, ProcessLinks
    <3>3. CASE s # r
      <4>1. TypeOK /\ LinkOf(d, s) /\ s \in Replicas
        BY DEF NumberInv, LinkInv, Correct
      <4>2. /\ up'[s] = up[s] /\ counters'[s] = counters[s]
            /\ lastReplies'[s] = lastReplies[s]
            /\ requests'[d][s] = requests[d][s] /\ lost'[d][s] = lost[d][s]
            /\ UNCHANGED <<replies, task, conn, lastSent, lastReceived>>
        <5>1. CASE Crash(r)
          BY <3>3, <4>1, <5>1 DEF Crash, TypeOK, taskVars, connVars
        <5>2. CASE Restart(r)
          BY <3>3, <4>1, <5>2 DEF Restart, TypeOK, channelVars, taskVars,
                                  connVars
        <5> QED
          BY <3>1, <5>1, <5>2
      <4> QED
        BY <4>1, <4>2, LinkShrinks
    <3> QED
      BY <3>2, <3>3
  <2> QED
    BY <2>1, <2>2, <2>3, <2>4 DEF Next
<1> QED
  BY <1>1, <1>2, NumberInvariant, SendInvariant, PTL DEF Spec

\* The counter of a running replica is the number of the last request it
\* executed, and never beyond what was written to it, whatever the other
\* replicas do.
THEOREM ReplicaStateHolds == Spec => []ReplicaState
<1>1. LinkInv => ReplicaState
  BY DEF LinkInv, LinkOf, TableOf, Executed, ReplicaState, Correct
<1> QED
  BY <1>1, LinkInvariant, PTL

\* Replicas a client is connected to and that have read all it wrote agree on
\* its counter, however many crash, stall or send nonsense.
THEOREM ReplicasStayInAgreement == Spec => []ReplicasAgree
<1>1. NumberInv /\ SendInv /\ LinkInv => ReplicasAgree
  <2> SUFFICES ASSUME NumberInv, SendInv, LinkInv, NEW c \in Clients,
                      NEW r \in Correct, NEW s \in Correct,
                      phase[c] \in {"idle", "waiting"},
                      \A x \in {r, s} : /\ up[x] /\ conn[c][x] = "live"
                                        /\ ~lost[c][x] /\ requests[c][x] = <<>>
               PROVE  counters[r][c] = counters[s][c]
    BY DEF ReplicasAgree, Correct
  <2>1. \A x \in {r, s} : counters[x][c] = lastSent[c][x]
    BY DEF LinkInv, LinkOf, TableOf, RequestOf, InUse, LastOf
  <2>2. lastSent[c][r] = lastSent[c][s]
    BY DEF SendInv, SendOf, Correct
  <2> QED
    BY <2>1, <2>2
<1> QED
  BY <1>1, NumberInvariant, SendInvariant, LinkInvariant, PTL

-----------------------------------------------------------------------------
(***************************************************************************)
(* What the clients get when every peer follows the protocol.              *)
(***************************************************************************)
ClientOf(c) ==
    /\ ~divergence[c]
    /\ delivered[c] > 0 => lastReply[c].value = delivered[c]
    /\ \A n \in 1..MaxRequest : deliveredValues[c][n] \in {None, n}
    /\ \A n \in 1..Len(answers[c]) : answers[c][n] = n

ClientInv == \A c \in Clients : ClientOf(c)

\* The next reply of a correct replica passes every check of the client and
\* carries its own number as its value.
LEMMA HonestReply ==
    ASSUME NumberInv, LinkInv, NEW c \in Clients, NEW r \in Correct,
           replies[c][r] # <<>>
    PROVE  LET reply == Head(replies[c][r]) IN
           /\ reply.num \in 1..MaxRequest
           /\ reply.value = reply.num
           /\ Acceptable(c, r, reply)
<1> DEFINE reply == Head(replies[c][r])
<1>1. TypeOK /\ LinkOf(c, r) /\ r \in Replicas /\ SentInv
  BY DEF NumberInv, LinkInv, Correct
<1>2. LinkTypes(c, r)
  BY <1>1, LinkTypesHold
<1>3. /\ reply.num \in 1..lastSent[c][r] /\ lastReceived[c][r] <= reply.num
      /\ reply = ClientReply(reply.num, reply.num)
  BY <1>1, <1>2, InOrderTail DEF LinkOf, ReplyOf, LinkTypes
<1>4. lastSent[c][r] <= MaxRequest /\ lastSent[c][r] \in Nat
  BY <1>1, <1>2 DEF SentInv, LinkTypes
<1> HIDE DEF reply
<1>5. reply.num \in 1..MaxRequest
  BY <1>3, <1>4, BoundsAssumption
<1>6. reply.value = reply.num /\ reply.type = "client_reply"
  BY <1>3 DEF ClientReply
<1>7. Acceptable(c, r, reply)
  BY <1>3, <1>4, <1>6 DEF Acceptable
<1> QED
  BY <1>5, <1>6, <1>7 DEF reply

\* Pruning keeps values that are right.
LEMMA PrunedValues ==
    ASSUME NEW values \in [1..MaxRequest -> Nat \cup {None}],
           \A n \in 1..MaxRequest : values[n] \in {None, n},
           NEW connections, NEW received
    PROVE  \A n \in 1..MaxRequest :
               Pruned(values, connections, received)[n] \in {None, n}
<1> SUFFICES ASSUME NEW n \in 1..MaxRequest
             PROVE  Pruned(values, connections, received)[n] \in {None, n}
  OBVIOUS
<1>1. Pruned(values, connections, received)[n] \in {values[n], None}
  BY DEF Pruned
<1> QED
  BY <1>1

LEMMA ClientFrame ==
    ASSUME NEW c \in Clients, ClientOf(c), divergence'[c] = divergence[c],
           delivered'[c] = delivered[c], lastReply'[c] = lastReply[c],
           deliveredValues'[c] = deliveredValues[c], answers'[c] = answers[c]
    PROVE  ClientOf(c)'
BY DEF ClientOf

\* A call returns the value it was called for.
LEMMA ReturnAnswers ==
    ASSUME NumberInv, ClientInv, NEW c \in Clients,
           ReturnLateReply(c) \/ AwaitedReply(c)
    PROVE  /\ answers' = [answers EXCEPT ![c] =
                             Append(answers[c], Len(answers[c]) + 1)]
           /\ ClientInv'
<1> USE DEF deliveryVars
<1>1. /\ answers \in [Clients -> Seq(Nat)] /\ nextRequestNum[c] \in Nat
      /\ nextRequestNum[c] >= 1 /\ Len(answers[c]) = nextRequestNum[c] - 1
  BY DEF NumberInv, TypeOK, CallerInv
<1>2. /\ delivered[c] = nextRequestNum[c]
      /\ answers' = [answers EXCEPT ![c] = Append(@, lastReply[c].value)]
      /\ UNCHANGED deliveryVars
  BY DEF ReturnLateReply, AwaitedReply
<1>3. lastReply[c].value = Len(answers[c]) + 1
  BY <1>1, <1>2 DEF ClientInv, ClientOf
<1>4. answers' = [answers EXCEPT ![c] = Append(answers[c], Len(answers[c]) + 1)]
  BY <1>1, <1>2, <1>3
<1>5. \A n \in 1..Len(answers'[c]) : answers'[c][n] = n
  <2> DEFINE s == answers[c]
             new == Append(s, Len(s) + 1)
  <2>1. \A n \in 1..Len(s) : s[n] = n
    BY DEF ClientInv, ClientOf
  <2>2. answers'[c] = new /\ s \in Seq(Nat)
    BY <1>1, <1>4
  <2> HIDE DEF s
  <2>3. /\ Len(new) = Len(s) + 1 /\ new[Len(s) + 1] = Len(s) + 1
        /\ \A n \in 1..Len(s) : new[n] = s[n]
        /\ Len(s) \in Nat
    BY <2>2
  <2> QED
    BY <2>1, <2>2, <2>3
<1>6. ClientOf(c)'
  BY <1>2, <1>5 DEF ClientInv, ClientOf
<1>7. \A d \in Clients \ {c} : ClientOf(d)'
  BY <1>1, <1>2, ClientFrame DEF ClientInv
<1> QED
  BY <1>4, <1>6, <1>7 DEF ClientInv

\* Pruning alone takes nothing from what the client answers.
LEMMA PruneAnswers ==
    ASSUME NumberInv, ClientInv, NEW c \in Clients,
           NEW connections, NEW received,
           deliveredValues' = [deliveredValues EXCEPT ![c] =
               Pruned(deliveredValues[c], connections, received)],
           UNCHANGED <<divergence, delivered, lastReply, answers>>
    PROVE  ClientInv'
<1>1. deliveredValues \in [Clients -> [1..MaxRequest -> Nat \cup {None}]]
  BY DEF NumberInv, TypeOK
<1>2. ClientOf(c)
  BY DEF ClientInv
<1>3. /\ \A n \in 1..MaxRequest : deliveredValues'[c][n] \in {None, n}
      /\ \A d \in Clients \ {c} : deliveredValues'[d] = deliveredValues[d]
  <2>1. deliveredValues'[c] = Pruned(deliveredValues[c], connections, received)
    BY <1>1
  <2> QED
    BY <1>1, <1>2, <2>1, PrunedValues DEF ClientOf
<1>4. ClientOf(c)'
  BY <1>2, <1>3 DEF ClientOf
<1>5. \A d \in Clients \ {c} : ClientOf(d)'
  BY <1>3, ClientFrame DEF ClientInv
<1> QED
  BY <1>4, <1>5 DEF ClientInv

\* The receiver of a correct replica.
LEMMA ReceiveAnswers ==
    ASSUME NumberInv, LinkInv, ClientInv, NEW c \in Clients, NEW r \in Correct,
           Receiver(c, r)
    PROVE  ClientInv'
<1> USE DEF deliveryVars, callerVars
<1> DEFINE reply == Head(replies[c][r])
<1>1. /\ deliveredValues \in [Clients -> [1..MaxRequest -> Nat \cup {None}]]
      /\ divergence \in [Clients -> BOOLEAN]
      /\ delivered \in [Clients -> Nat]
      /\ lastReply \in [Clients -> Responses]
  BY DEF NumberInv, TypeOK
<1>2. ClientOf(c)
  BY DEF ClientInv
<1>3. ASSUME NEW values \in [1..MaxRequest -> Nat \cup {None}],
             \A n \in 1..MaxRequest : values[n] \in {None, n},
             NEW connections, NEW received,
             deliveredValues' = [deliveredValues EXCEPT ![c] =
                                    Pruned(values, connections, received)]
      PROVE  /\ \A n \in 1..MaxRequest : deliveredValues'[c][n] \in {None, n}
             /\ \A d \in Clients \ {c} : deliveredValues'[d] = deliveredValues[d]
  <2>1. deliveredValues'[c] = Pruned(values, connections, received)
    BY <1>1, <1>3
  <2> QED
    BY <1>1, <1>3, <2>1, PrunedValues
<1>4. /\ deliveredValues[c] \in [1..MaxRequest -> Nat \cup {None}]
      /\ \A n \in 1..MaxRequest : deliveredValues[c][n] \in {None, n}
  BY <1>1, <1>2 DEF ClientOf
<1>5. CASE DeliverReply(c, r)
  <2> DEFINE values == [deliveredValues[c] EXCEPT ![reply.num] = reply.value]
  <2>1. reply.num \in 1..MaxRequest /\ reply.value = reply.num
    BY <1>5, HonestReply DEF DeliverReply, HasReply
  <2>2. /\ deliveredValues' = [deliveredValues EXCEPT ![c] =
                                  Pruned(values, conn[c], lastReceived'[c])]
        /\ delivered' = [delivered EXCEPT ![c] = reply.num]
        /\ lastReply' = [lastReply EXCEPT ![c] = reply]
        /\ UNCHANGED <<divergence, answers>>
    BY <1>5 DEF DeliverReply
  <2> HIDE DEF reply
  <2>3. /\ values \in [1..MaxRequest -> Nat \cup {None}]
        /\ \A n \in 1..MaxRequest : values[n] \in {None, n}
    BY <1>4, <2>1, BoundsAssumption
  <2> HIDE DEF values
  <2>4. /\ \A n \in 1..MaxRequest : deliveredValues'[c][n] \in {None, n}
        /\ \A d \in Clients \ {c} : deliveredValues'[d] = deliveredValues[d]
    BY <1>3, <2>2, <2>3
  <2>5. ClientOf(c)'
    BY <1>1, <1>2, <2>1, <2>2, <2>4 DEF ClientOf
  <2>6. \A d \in Clients \ {c} : ClientOf(d)'
    BY <1>1, <2>2, <2>4, ClientFrame DEF ClientInv
  <2> QED
    BY <2>5, <2>6 DEF ClientInv
<1>6. CASE DiscardDuplicate(c, r)
  <2>1. reply.num \in 1..MaxRequest /\ reply.value = reply.num
    BY <1>6, HonestReply DEF DiscardDuplicate, HasReply
  <2>2. ~Contradicts(deliveredValues[c], reply)
    BY <1>4, <2>1 DEF Contradicts
  <2>3. /\ deliveredValues' = [deliveredValues EXCEPT ![c] =
              Pruned(deliveredValues[c], conn[c], lastReceived'[c])]
        /\ divergence' = [divergence EXCEPT ![c] =
              @ \/ Contradicts(deliveredValues[c], reply)]
        /\ UNCHANGED <<delivered, lastReply, answers>>
    BY <1>6 DEF DiscardDuplicate
  <2> HIDE DEF reply
  <2>4. \A d \in Clients : divergence'[d] = divergence[d]
    BY <1>1, <2>2, <2>3
  <2>5. /\ \A n \in 1..MaxRequest : deliveredValues'[c][n] \in {None, n}
        /\ \A d \in Clients \ {c} : deliveredValues'[d] = deliveredValues[d]
    BY <1>3, <1>4, <2>3
  <2>6. ClientOf(c)'
    BY <1>2, <2>3, <2>4, <2>5 DEF ClientOf
  <2>7. \A d \in Clients \ {c} : ClientOf(d)'
    BY <2>3, <2>4, <2>5, ClientFrame DEF ClientInv
  <2> QED
    BY <2>6, <2>7 DEF ClientInv
<1>7. CASE ReceiverDone(c, r)
  <2>1. /\ deliveredValues' = [deliveredValues EXCEPT ![c] =
              Pruned(deliveredValues[c], conn'[c], lastReceived[c])]
        /\ UNCHANGED <<divergence, delivered, lastReply, answers>>
    BY <1>7 DEF ReceiverDone
  <2> QED
    BY <2>1, PruneAnswers
<1>8. CASE RejectReply(c, r) \/ ReceiveEof(c, r)
  BY <1>8, ClientFrame DEF RejectReply, ReceiveEof, ClientInv
<1> QED
  BY <1>5, <1>6, <1>7, <1>8 DEF Receiver

\* Only a receiver and a call that returns change what the client keeps.
LEMMA NextAnswers ==
    ASSUME Faulty = {}, NumberInv, LinkInv, ClientInv, [Next]_vars
    PROVE  ClientInv'
<1> USE DEF deliveryVars, callerVars
<1>1. ASSUME UNCHANGED <<divergence, delivered, lastReply, deliveredValues,
                         answers>>
      PROVE  ClientInv'
  BY <1>1, ClientFrame DEF ClientInv
<1>2. CASE UNCHANGED vars
  BY <1>1, <1>2 DEF vars
<1>3. ASSUME NEW c \in Clients, Caller(c) \/ Close(c) \/ Exit(c)
      PROVE  ClientInv'
  <2>1. CASE ReturnLateReply(c) \/ AwaitedReply(c)
    BY <2>1, ReturnAnswers
  <2>2. CASE Close(c)
    <3>1. /\ deliveredValues' = [deliveredValues EXCEPT ![c] =
                Pruned(deliveredValues[c], conn'[c], lastReceived[c])]
          /\ UNCHANGED <<divergence, delivered, lastReply, answers>>
      BY <2>2 DEF Close
    <3> QED
      BY <3>1, PruneAnswers
  <2>3. CASE ~(ReturnLateReply(c) \/ AwaitedReply(c) \/ Close(c))
    BY <1>1, <1>3, <2>3 DEF Caller, Exit, OpenReplicas, NoReplicas,
           Broadcast, BroadcastDone, ReplyTimeout
  <2> QED
    BY <2>1, <2>2, <2>3
<1>4. ASSUME NEW c \in Clients, NEW r \in Replicas, Connection(c, r)
      PROVE  ClientInv'
  <2>1. CASE Receiver(c, r)
    BY <2>1, ReceiveAnswers DEF Correct
  <2>2. CASE ~Receiver(c, r)
    BY <1>1, <1>4, <2>2 DEF Connection, Opening, Sender, OpenSucceeds,
           OpenFails, WriteRequest, WriteToBroken, DrainCompletes, WriteFails,
           CloseCompletes, Serve, Disconnect, FaultyReply, FaultyRead
  <2> QED
    BY <2>1, <2>2
<1>5. CASE \E r \in Replicas : Crash(r) \/ Restart(r)
  BY <1>1, <1>5 DEF Crash, Restart
<1> QED
  BY <1>2, <1>3, <1>4, <1>5 DEF Next

\* What the clients keep and return is right.
THEOREM ClientInvariant ==
    ASSUME Faulty = {}
    PROVE  Spec => []ClientInv
<1>1. Init => ClientInv
  <2> SUFFICES ASSUME Init, NEW c \in Clients PROVE ClientOf(c)
    BY DEF ClientInv
  <2>1. /\ divergence[c] = FALSE /\ delivered[c] = 0 /\ answers[c] = <<>>
        /\ \A n \in 1..MaxRequest : deliveredValues[c][n] = None
    BY DEF Init
  <2> QED
    BY <2>1, EmptySeq DEF ClientOf
<1>2. NumberInv /\ LinkInv /\ ClientInv /\ [Next]_vars => ClientInv'
  BY NextAnswers
<1> QED
  BY <1>1, <1>2, NumberInvariant, LinkInvariant, PTL DEF Spec

\* Exactly once: the n-th call that returns, returns n, for any number of
\* clients, replicas, crashes, resets, timeouts and retries.
THEOREM ExactlyOnceHolds ==
    ASSUME Faulty = {}
    PROVE  Spec => []ExactlyOnce
<1>1. NumberInv /\ ClientInv => ExactlyOnce
  <2> SUFFICES ASSUME NumberInv, ClientInv, NEW c \in Clients
               PROVE  answers[c] = [n \in 1..(nextRequestNum[c] - 1) |-> n]
    BY DEF ExactlyOnce
  <2>1. /\ answers[c] \in Seq(Nat) /\ Len(answers[c]) = nextRequestNum[c] - 1
    BY DEF NumberInv, TypeOK, CallerInv
  <2>2. \A n \in 1..Len(answers[c]) : answers[c][n] = n
    BY DEF ClientInv, ClientOf
  <2> QED
    BY <2>1, <2>2
<1> QED
  BY <1>1, NumberInvariant, ClientInvariant, PTL

\* No correct replica is retired, or reported as divergent, for what it says.
THEOREM NobodyFalselyAccused ==
    ASSUME Faulty = {}
    PROVE  Spec => []NoFalseAccusation
<1>1. NumberInv /\ LinkInv /\ ClientInv => NoFalseAccusation
  BY HonestReply DEF ClientInv, ClientOf, NoFalseAccusation, HasReply, Correct
<1> QED
  BY <1>1, NumberInvariant, LinkInvariant, ClientInvariant, PTL

-----------------------------------------------------------------------------
(***************************************************************************)
(* The clients see CounterService: a call is asked for when its number is  *)
(* first written, and answered when it returns.                            *)
(***************************************************************************)
AskedMap == [c \in Clients |-> Asked(c)]

\* A step that moves no number of the client's requests and no answer.
LEMMA AskedFrame ==
    ASSUME UNCHANGED <<lastSent, nextRequestNum>>
    PROVE  AskedMap' = AskedMap
BY DEF AskedMap, Asked

\* Writing a number asks for its call, unless that has been done.
LEMMA WriteAsks ==
    ASSUME NumberInv, NEW c \in Clients, NEW r \in Replicas,
           lastSent' = [lastSent EXCEPT ![c][r] = nextRequestNum[c]],
           UNCHANGED <<nextRequestNum, answers>>
    PROVE  \/ AskedMap' = AskedMap
           \/ /\ AskedMap[c] = Len(answers[c])
              /\ AskedMap' = [AskedMap EXCEPT ![c] = @ + 1]
<1>1. /\ lastSent \in [Clients -> [Replicas -> Nat]]
      /\ nextRequestNum[c] \in Nat /\ Len(answers[c]) = nextRequestNum[c] - 1
  BY DEF NumberInv, TypeOK, CallerInv
<1>2. \A d \in Clients \ {c} : Asked(d)' = Asked(d)
  BY <1>1 DEF Asked
<1>3. Asked(c)' = nextRequestNum[c]
  BY <1>1 DEF Asked
<1>4. CASE \E s \in Replicas : lastSent[c][s] = nextRequestNum[c]
  BY <1>2, <1>3, <1>4 DEF AskedMap, Asked
<1>5. CASE ~\E s \in Replicas : lastSent[c][s] = nextRequestNum[c]
  <2>1. Asked(c) = nextRequestNum[c] - 1
    BY <1>5 DEF Asked
  <2>2. AskedMap' = [AskedMap EXCEPT ![c] = @ + 1]
    <3>1. Asked(c)' = Asked(c) + 1
      BY <1>1, <1>3, <2>1
    <3> QED
      BY <1>2, <3>1 DEF AskedMap
  <2> QED
    BY <1>1, <2>1, <2>2 DEF AskedMap
<1> QED
  BY <1>4, <1>5

\* A call that returns has been asked for, and the next one has not.
LEMMA ReturnIsAsked ==
    ASSUME NumberInv, SendInv, NEW c \in Clients,
           ReturnLateReply(c) \/ AwaitedReply(c)
    PROVE  AskedMap[c] > Len(answers[c]) /\ AskedMap' = AskedMap
<1>1. /\ nextRequestNum \in [Clients -> Nat] /\ nextRequestNum[c] \in Nat
      /\ Len(answers[c]) = nextRequestNum[c] - 1
      /\ \A r \in Replicas : /\ lastSent[c][r] \in Nat
                             /\ lastSent[c][r] <= nextRequestNum[c]
  BY DEF NumberInv, TypeOK, CallerInv, SentInv
<1>2. /\ delivered[c] = nextRequestNum[c] /\ lastSent' = lastSent
      /\ nextRequestNum' = [nextRequestNum EXCEPT ![c] = @ + 1]
  BY DEF ReturnLateReply, AwaitedReply, connVars
<1>3. Asked(c) = nextRequestNum[c]
  BY <1>2 DEF SendInv, SendOf, Asked
<1>4. Asked(c)' = nextRequestNum[c]
  <2>1. nextRequestNum'[c] = nextRequestNum[c] + 1
    BY <1>1, <1>2
  <2>2. \A r \in Replicas : lastSent'[c][r] # nextRequestNum'[c]
    BY <1>1, <1>2, <2>1
  <2> QED
    BY <1>1, <2>1, <2>2 DEF Asked
<1>5. \A d \in Clients \ {c} : Asked(d)' = Asked(d)
  BY <1>1, <1>2 DEF Asked
<1> QED
  BY <1>1, <1>3, <1>4, <1>5 DEF AskedMap

\* Active replication implements the one counter that never fails: whatever
\* crashes, resets, delays and retries do, a step of the system is a step of
\* the service or invisible to its callers.
THEOREM ServiceImplemented ==
    ASSUME Faulty = {}
    PROVE  Spec => ImplementsService
<1> USE DEF serverVars, channelVars, taskVars, connVars, deliveryVars, callerVars
<1>1. Init => Service!Init
  <2> SUFFICES ASSUME Init PROVE Service!Init
    OBVIOUS
  <2>1. \A c \in Clients : Asked(c) = 0
    <3>1. \A c \in Clients : /\ nextRequestNum[c] = 1
                             /\ \A r \in Replicas : lastSent[c][r] = 0
      BY DEF Init, ForEachConnection
    <3>2. ASSUME NEW c \in Clients PROVE Asked(c) = 0
      <4>1. ~\E r \in Replicas : lastSent[c][r] = nextRequestNum[c]
        BY <3>1
      <4> QED
        BY <3>1, <4>1 DEF Asked
    <3> QED
      BY <3>2
  <2> QED
    BY <2>1 DEF Init, Service!Init
<1>2. NumberInv /\ SendInv /\ LinkInv /\ ClientInv /\ [Next]_vars
        => [Service!Next]_Service!vars
  <2> SUFFICES ASSUME NumberInv, SendInv, LinkInv, ClientInv, [Next]_vars
               PROVE  [Service!Next]_Service!vars
    OBVIOUS
  <2>1. ASSUME AskedMap' = AskedMap, answers' = answers
        PROVE  UNCHANGED Service!vars
    BY <2>1 DEF Service!vars, AskedMap
  <2>2. ASSUME NEW c \in Clients, ReturnLateReply(c) \/ AwaitedReply(c)
        PROVE  Service!Next
    <3>1. Service!Answer(c)
      BY <2>2, ReturnAnswers, ReturnIsAsked DEF Service!Answer, AskedMap
    <3> QED
      BY <3>1 DEF Service!Next
  <2>3. ASSUME NEW c \in Clients, NEW r \in Replicas,
               WriteRequest(c, r) \/ WriteToBroken(c, r)
        PROVE  [Service!Next]_Service!vars
    <3>1. /\ lastSent' = [lastSent EXCEPT ![c][r] = nextRequestNum[c]]
          /\ UNCHANGED <<nextRequestNum, answers>>
      BY <2>3 DEF WriteRequest, WriteToBroken
    <3>2. CASE AskedMap' = AskedMap
      BY <2>1, <3>1, <3>2
    <3>3. CASE /\ AskedMap[c] = Len(answers[c])
               /\ AskedMap' = [AskedMap EXCEPT ![c] = @ + 1]
      <4>1. Service!Ask(c)
        BY <3>1, <3>3 DEF Service!Ask, AskedMap
      <4> QED
        BY <4>1 DEF Service!Next
    <3> QED
      BY <3>1, <3>2, <3>3, WriteAsks
  <2>4. ASSUME UNCHANGED <<lastSent, nextRequestNum, answers>>
        PROVE  UNCHANGED Service!vars
    BY <2>1, <2>4, AskedFrame
  <2>5. CASE UNCHANGED vars
    BY <2>4, <2>5 DEF vars
  <2>6. ASSUME NEW c \in Clients, Caller(c) \/ Close(c) \/ Exit(c)
        PROVE  [Service!Next]_Service!vars
    BY <2>2, <2>4, <2>6 DEF Caller, Close, Exit, OpenReplicas, NoReplicas,
           Broadcast, BroadcastDone, ReplyTimeout
  <2>7. ASSUME NEW c \in Clients, NEW r \in Replicas, Connection(c, r)
        PROVE  [Service!Next]_Service!vars
    BY <2>3, <2>4, <2>7 DEF Connection, Opening, Sender, Receiver,
           OpenSucceeds, OpenFails, DrainCompletes, WriteFails, CloseCompletes,
           DeliverReply, DiscardDuplicate, RejectReply, ReceiveEof,
           ReceiverDone, Serve, Disconnect, FaultyReply, FaultyRead
  <2>8. CASE \E r \in Replicas : Crash(r) \/ Restart(r)
    BY <2>4, <2>8 DEF Crash, Restart
  <2> QED
    BY <2>5, <2>6, <2>7, <2>8 DEF Next
<1> QED
  BY <1>1, <1>2, NumberInvariant, SendInvariant, LinkInvariant,
     ClientInvariant, PTL DEF Spec, ImplementsService, Service!Spec
=============================================================================
