-------------------------- MODULE ActiveReplication --------------------------
(***************************************************************************)
(* Active replication of one counter per client, end to end: the clients   *)
(* of src/ft_system/client/active.py (class ActiveClientApp, driven by the *)
(* loops of client/main.py and client/app.py), the replicas that run the   *)
(* handler of module ClientListener, and a TCP connection with its asyncio *)
(* transport between every client and every replica.                       *)
(*                                                                         *)
(* A client writes every request to each replica it is connected to and    *)
(* delivers the first valid reply; one receiver task per connection reads  *)
(* the replies.  A connection that fails is removed and never reopened.    *)
(*                                                                         *)
(* asyncio is cooperative: a step of the model is what one task does       *)
(* between two awaits that can suspend it.                                 *)
(***************************************************************************)
EXTENDS ClientListener, Integers, Sequences

CONSTANTS
    Replicas,     \* the replica ids of the configuration
    Responsive,   \* replicas that never crash, disconnect or delay a write
                  \* beyond connect_timeout: the hypothesis of liveness
    Faulty,       \* peers that send what they like (external)
    MaxRequest,   \* bound: the last request number a client uses
    KernelBuf,    \* requests the two kernels hold on one connection
    HighWater     \* requests an asyncio transport buffers before it pauses

ASSUME ReplicasAssumption ==
    /\ Responsive \subseteq Replicas
    /\ Faulty \subseteq Replicas
    /\ Responsive \cap Faulty = {}

ASSUME BoundsAssumption ==
    /\ MaxRequest \in Nat
    /\ KernelBuf \in Nat
    /\ HighWater \in Nat

VARIABLES
    up,               \* is the process of the replica running
    counters,         \* DeterministicStateMachine._state of every replica
    lastReplies,      \* ClientListener._last_replies of every replica
    requests,         \* request numbers written to a connection and unread
    replies,          \* replies written to a connection and unread
    lost,             \* has the TCP connection been reset
    phase,            \* where the caller of send_increment is
    task,             \* the coroutine of a connection that gather waits for
    conn,             \* the state of a ReplicaConnection
    lastSent,         \* ReplicaConnection.last_sent
    lastReceived,     \* ReplicaConnection.last_received
    nextRequestNum,   \* ActiveClientApp._next_request_num
    delivered,        \* ActiveClientApp._delivered
    lastReply,        \* ActiveClientApp._last_reply
    deliveredValues,  \* ActiveClientApp._delivered_values
    divergence,       \* has the client logged "replica state divergence"
    answers           \* history: the values send_increment has returned

serverVars == <<up, counters, lastReplies>>
channelVars == <<requests, replies, lost>>
taskVars == <<phase, task>>
connVars == <<conn, lastSent, lastReceived>>
deliveryVars == <<delivered, lastReply, deliveredValues, divergence>>
callerVars == <<nextRequestNum, answers>>
vars == <<serverVars, channelVars, taskVars, connVars, deliveryVars, callerVars>>

None == -1    \* a request number with no entry in _delivered_values

(***************************************************************************)
(* phase: "new" before the first call of send_increment, "connecting" in   *)
(* connect, "idle" between two calls, "sending" in the gather of the       *)
(* broadcast, "waiting" for the pending reply, "closing" in close.         *)
(***************************************************************************)
Phases == {"new", "connecting", "idle", "sending", "waiting",
           "closing", "closed"}

(***************************************************************************)
(* task: the open_replica or send coroutine of the connection: "opening",  *)
(* "sending" before its write, "draining" in the drain of write_message,   *)
(* "closing" in the close_writer of _retire.                               *)
(***************************************************************************)
Tasks == {"none", "opening", "sending", "draining", "closing"}

(***************************************************************************)
(* conn: "live" is in _connections; "retired" was removed by its sender    *)
(* and its receiver still reads what it has; "stopped" has its receiver in *)
(* close_writer; "done" has its receiver task done.                        *)
(***************************************************************************)
Conns == {"none", "live", "retired", "stopped", "done"}

Receiving == {"live", "retired"}
TaskPending == {"live", "retired", "stopped"}    \* not task.done()

TypeOK ==
    /\ up \in [Replicas -> BOOLEAN]
    /\ counters \in [Replicas -> [Clients -> Nat]]
    /\ lastReplies \in [Replicas -> [Clients -> Entries]]
    /\ requests \in [Clients -> [Replicas -> Seq(Nat)]]
    /\ replies \in [Clients -> [Replicas -> Seq(Responses)]]
    /\ lost \in [Clients -> [Replicas -> BOOLEAN]]
    /\ phase \in [Clients -> Phases]
    /\ task \in [Clients -> [Replicas -> Tasks]]
    /\ conn \in [Clients -> [Replicas -> Conns]]
    /\ lastSent \in [Clients -> [Replicas -> Nat]]
    /\ lastReceived \in [Clients -> [Replicas -> Nat]]
    /\ nextRequestNum \in [Clients -> Nat]
    /\ delivered \in [Clients -> Nat]
    /\ lastReply \in [Clients -> Responses]
    /\ deliveredValues \in [Clients -> [1..MaxRequest -> Nat \cup {None}]]
    /\ divergence \in [Clients -> BOOLEAN]
    /\ answers \in [Clients -> Seq(Nat)]

ForEachConnection(x) == [c \in Clients |-> [r \in Replicas |-> x]]

Init ==
    /\ up = [r \in Replicas |-> TRUE]
    /\ counters = [r \in Replicas |-> InitialCounters]
    /\ lastReplies = [r \in Replicas |-> [c \in Clients |-> NoEntry]]
    /\ requests = ForEachConnection(<<>>)
    /\ replies = ForEachConnection(<<>>)
    /\ lost = ForEachConnection(FALSE)
    /\ phase = [c \in Clients |-> "new"]
    /\ task = ForEachConnection("none")
    /\ conn = ForEachConnection("none")
    /\ lastSent = ForEachConnection(0)
    /\ lastReceived = ForEachConnection(0)
    /\ nextRequestNum = [c \in Clients |-> 1]
    /\ delivered = [c \in Clients |-> 0]
    /\ lastReply = [c \in Clients |-> ErrorReply("stale_request")]
    /\ deliveredValues = [c \in Clients |-> [n \in 1..MaxRequest |-> None]]
    /\ divergence = [c \in Clients |-> FALSE]
    /\ answers = [c \in Clients |-> <<>>]

-----------------------------------------------------------------------------
(***************************************************************************)
(* The asyncio transport and TCP (external).  A transport keeps what the   *)
(* kernel does not take; above its high-water mark drain suspends; a       *)
(* closed transport reports connection_lost, which ends wait_closed, only  *)
(* once its buffer is flushed or the connection is reset.                  *)
(***************************************************************************)
Paused(queue) == Len(queue) > KernelBuf + HighWater

Flushed(queue) == Len(queue) <= KernelBuf

TransportClosed(c, r) == lost[c][r] \/ Flushed(requests[c][r])

\* A write to a reset, or to a closed and flushed transport goes nowhere.
Broken(c, r) ==
    \/ lost[c][r]
    \/ conn[c][r] # "live" /\ Flushed(requests[c][r])

-----------------------------------------------------------------------------
(***************************************************************************)
(* connect: open every replica at once; only the first call does anything. *)
(***************************************************************************)
OpenReplicas(c) ==
    /\ phase[c] = "new"
    /\ phase' = [phase EXCEPT ![c] = "connecting"]
    /\ task' = [task EXCEPT ![c] = [r \in Replicas |-> "opening"]]
    /\ UNCHANGED <<serverVars, channelVars, connVars, deliveryVars, callerVars>>

OpenSucceeds(c, r) ==
    /\ task[c][r] = "opening"
    /\ up[r]
    /\ task' = [task EXCEPT ![c][r] = "none"]
    /\ conn' = [conn EXCEPT ![c][r] = "live"]
    /\ UNCHANGED <<serverVars, channelVars, phase, lastSent, lastReceived,
                   deliveryVars, callerVars>>

\* Refused, unreachable, or later than connect_timeout.
OpenFails(c, r) ==
    /\ task[c][r] = "opening"
    /\ r \notin Responsive
    /\ task' = [task EXCEPT ![c][r] = "none"]
    /\ UNCHANGED <<serverVars, channelVars, phase, connVars, deliveryVars,
                   callerVars>>

-----------------------------------------------------------------------------
(***************************************************************************)
(* send_increment, under _send_lock.                                       *)
(***************************************************************************)
Gathered(c) == \A r \in Replicas : task[c][r] = "none"

\* The call is past connect.
AtEntry(c) ==
    \/ phase[c] = "idle"
    \/ phase[c] = "connecting" /\ Gathered(c)

\* The reply came after the previous call gave up.
ReturnLateReply(c) ==
    /\ AtEntry(c)
    /\ delivered[c] = nextRequestNum[c]
    /\ phase' = [phase EXCEPT ![c] = "idle"]
    /\ nextRequestNum' = [nextRequestNum EXCEPT ![c] = @ + 1]
    /\ answers' = [answers EXCEPT ![c] = Append(@, lastReply[c].value)]
    /\ UNCHANGED <<serverVars, channelVars, task, connVars, deliveryVars>>

\* ConnectionError("no replicas remain"); the calling loop tries again.
NoReplicas(c) ==
    /\ AtEntry(c)
    /\ delivered[c] # nextRequestNum[c]
    /\ \A r \in Replicas : conn[c][r] # "live"
    /\ phase' = [phase EXCEPT ![c] = "idle"]
    /\ UNCHANGED <<serverVars, channelVars, task, connVars, deliveryVars,
                   callerVars>>

\* Mutation of Broadcast: a replica that is behind is left out.
BroadcastToCurrent(c) ==
    /\ AtEntry(c)
    /\ nextRequestNum[c] <= MaxRequest
    /\ delivered[c] # nextRequestNum[c]
    /\ \E r \in Replicas : conn[c][r] = "live"
    /\ phase' = [phase EXCEPT ![c] = "sending"]
    /\ task' = [task EXCEPT ![c] = [r \in Replicas |->
                   IF conn[c][r] = "live" /\ lastReceived[c][r] = delivered[c]
                   THEN "sending" ELSE "none"]]
    /\ UNCHANGED <<serverVars, channelVars, connVars, deliveryVars, callerVars>>

\* Start one send coroutine for every connection in _connections.
Broadcast(c) ==
    /\ AtEntry(c)
    /\ nextRequestNum[c] <= MaxRequest
    /\ delivered[c] # nextRequestNum[c]
    /\ \E r \in Replicas : conn[c][r] = "live"
    /\ phase' = [phase EXCEPT ![c] = "sending"]
    /\ task' = [task EXCEPT ![c] = [r \in Replicas |->
                   IF conn[c][r] = "live" THEN "sending" ELSE "none"]]
    /\ UNCHANGED <<serverVars, channelVars, connVars, deliveryVars, callerVars>>

\* The write reaches the transport; a paused transport suspends the drain.
WriteRequest(c, r) ==
    /\ task[c][r] = "sending"
    /\ ~Broken(c, r)
    /\ lastSent' = [lastSent EXCEPT ![c][r] = nextRequestNum[c]]
    /\ requests' = [requests EXCEPT ![c][r] = Append(@, nextRequestNum[c])]
    /\ task' = [task EXCEPT ![c][r] =
                   IF Paused(requests'[c][r]) THEN "draining" ELSE "none"]
    /\ UNCHANGED <<serverVars, replies, lost, phase, conn, lastReceived,
                   deliveryVars, callerVars>>

\* Mutation of RetiredBySender: the connection record is deleted.
ForgottenBySender(c, r) ==
    conn' = [conn EXCEPT ![c] = [s \in Replicas \ {r} |-> @[s]]]

\* What _retire does to _connections; a receiver keeps what it has read.
RetiredBySender(c, r) ==
    conn' = [conn EXCEPT ![c][r] = IF @ = "live" THEN "retired" ELSE @]

\* The write goes nowhere and the drain may or may not notice.
WriteToBroken(c, r) ==
    /\ task[c][r] = "sending"
    /\ Broken(c, r)
    /\ lastSent' = [lastSent EXCEPT ![c][r] = nextRequestNum[c]]
    /\ \/ /\ task' = [task EXCEPT ![c][r] = "none"]
          /\ UNCHANGED conn
       \/ /\ task' = [task EXCEPT ![c][r] = "closing"]
          /\ RetiredBySender(c, r)
    /\ UNCHANGED <<serverVars, channelVars, phase, lastReceived, deliveryVars,
                   callerVars>>

DrainCompletes(c, r) ==
    /\ task[c][r] = "draining"
    /\ ~lost[c][r]
    /\ ~Paused(requests[c][r])
    /\ task' = [task EXCEPT ![c][r] = "none"]
    /\ UNCHANGED <<serverVars, channelVars, phase, connVars, deliveryVars,
                   callerVars>>

\* Mutation of WriteFails: only the timeout of a standing connection counts.
WriteTimesOut(c, r) ==
    /\ task[c][r] = "draining"
    /\ r \notin Responsive
    /\ ~lost[c][r]
    /\ task' = [task EXCEPT ![c][r] = "closing"]
    /\ RetiredBySender(c, r)
    /\ UNCHANGED <<serverVars, channelVars, phase, lastSent, lastReceived,
                   deliveryVars, callerVars>>

\* The wait_for of the write times out, or the drain finds the reset.
WriteFails(c, r) ==
    /\ task[c][r] = "draining"
    /\ r \notin Responsive
    /\ task' = [task EXCEPT ![c][r] = "closing"]
    /\ RetiredBySender(c, r)
    /\ UNCHANGED <<serverVars, channelVars, phase, lastSent, lastReceived,
                   deliveryVars, callerVars>>

\* wait_closed of the sender's _retire returns.
CloseCompletes(c, r) ==
    /\ task[c][r] = "closing"
    /\ TransportClosed(c, r)
    /\ task' = [task EXCEPT ![c][r] = "none"]
    /\ UNCHANGED <<serverVars, channelVars, phase, connVars, deliveryVars,
                   callerVars>>

\* The gather of the broadcast returns.
BroadcastDone(c) ==
    /\ phase[c] = "sending"
    /\ Gathered(c)
    /\ phase' = [phase EXCEPT ![c] = "waiting"]
    /\ UNCHANGED <<serverVars, channelVars, task, connVars, deliveryVars,
                   callerVars>>

\* The pending future has its result: the reply just delivered.
AwaitedReply(c) ==
    /\ phase[c] = "waiting"
    /\ delivered[c] = nextRequestNum[c]
    /\ phase' = [phase EXCEPT ![c] = "idle"]
    /\ nextRequestNum' = [nextRequestNum EXCEPT ![c] = @ + 1]
    /\ answers' = [answers EXCEPT ![c] = Append(@, lastReply[c].value)]
    /\ UNCHANGED <<serverVars, channelVars, task, connVars, deliveryVars>>

\* Mutation of ReplyTimeout: the request is given up and its number used up.
ReplyTimeoutSkips(c) ==
    /\ phase[c] = "waiting"
    /\ phase' = [phase EXCEPT ![c] = "idle"]
    /\ nextRequestNum' = [nextRequestNum EXCEPT ![c] = @ + 1]
    /\ UNCHANGED <<serverVars, channelVars, task, connVars, deliveryVars,
                   answers>>

\* read_timeout passes, possibly just when the reply has come.
ReplyTimeout(c) ==
    /\ phase[c] = "waiting"
    /\ phase' = [phase EXCEPT ![c] = "idle"]
    /\ UNCHANGED <<serverVars, channelVars, task, connVars, deliveryVars,
                   callerVars>>

-----------------------------------------------------------------------------
(***************************************************************************)
(* _receive, one task per connection.                                      *)
(***************************************************************************)
\* Mutation of Acceptable: a repeated reply is out of sequence.
AcceptableOnce(c, r, reply) ==
    /\ reply.num >= 1
    /\ lastReceived[c][r] < reply.num
    /\ reply.num <= lastSent[c][r]
    /\ reply.type = "client_reply"

\* A reply within the sent request sequence that passes _validate_reply.
Acceptable(c, r, reply) ==
    /\ reply.num >= 1
    /\ lastReceived[c][r] <= reply.num
    /\ reply.num <= lastSent[c][r]
    /\ reply.type = "client_reply"

\* Mutation of Pruned: a connection whose receiver has ended still counts.
PrunedByReply(values, connections, received) ==
    [n \in DOMAIN values |->
        IF \E r \in Replicas : connections[r] # "none" /\ received[r] < n
        THEN values[n] ELSE None]

\* Mutation of Pruned: the first other replica to answer frees the value.
PrunedByAnyReply(values, connections, received) ==
    [n \in DOMAIN values |->
        IF \A r \in Replicas : connections[r] \in TaskPending => received[r] < n
        THEN values[n] ELSE None]

\* _prune_delivered_values: keep a value while some replica may answer it.
Pruned(values, connections, received) ==
    [n \in DOMAIN values |->
        IF \E r \in Replicas : /\ connections[r] \in TaskPending
                               /\ received[r] < n
        THEN values[n] ELSE None]

\* Mutation of HasReply: replies are read only while a call waits for one.
HasReplyInCall(c, r) ==
    /\ phase[c] \in {"sending", "waiting"}
    /\ conn[c][r] \in Receiving
    /\ replies[c][r] # <<>>

\* The receiver has a reply to look at.
HasReply(c, r) == conn[c][r] \in Receiving /\ replies[c][r] # <<>>

\* The first reply to the outstanding request.
DeliverReply(c, r) ==
    /\ HasReply(c, r)
    /\ LET reply == Head(replies[c][r])
           values == [deliveredValues[c] EXCEPT ![reply.num] = reply.value]
       IN  /\ Acceptable(c, r, reply)
           /\ reply.num > delivered[c]
           /\ reply.num = nextRequestNum[c]
           /\ delivered' = [delivered EXCEPT ![c] = reply.num]
           /\ lastReply' = [lastReply EXCEPT ![c] = reply]
           /\ lastReceived' = [lastReceived EXCEPT ![c][r] = reply.num]
           /\ deliveredValues' = [deliveredValues EXCEPT ![c] =
                                    Pruned(values, conn[c], lastReceived'[c])]
    /\ replies' = [replies EXCEPT ![c][r] = Tail(@)]
    /\ UNCHANGED <<serverVars, requests, lost, taskVars, conn, lastSent,
                   divergence, callerVars>>

\* Does the kept value of an earlier delivery contradict the reply.
Contradicts(values, reply) ==
    values[reply.num] # None /\ values[reply.num] # reply.value

\* A reply to a request that has been delivered: compare and discard.
DiscardDuplicate(c, r) ==
    /\ HasReply(c, r)
    /\ LET reply == Head(replies[c][r])
       IN  /\ Acceptable(c, r, reply)
           /\ reply.num <= delivered[c]
           /\ divergence' = [divergence EXCEPT ![c] =
                                @ \/ Contradicts(deliveredValues[c], reply)]
           /\ lastReceived' = [lastReceived EXCEPT ![c][r] = reply.num]
           /\ deliveredValues' = [deliveredValues EXCEPT ![c] =
                                    Pruned(@, conn[c], lastReceived'[c])]
    /\ replies' = [replies EXCEPT ![c][r] = Tail(@)]
    /\ UNCHANGED <<serverVars, requests, lost, taskVars, conn, lastSent,
                   delivered, lastReply, callerVars>>

\* A reply to a request that is neither delivered nor outstanding.
Unexpected(c, reply) ==
    reply.num > delivered[c] /\ reply.num # nextRequestNum[c]

\* ProtocolError: the receiver retires its connection.
RejectReply(c, r) ==
    /\ HasReply(c, r)
    /\ LET reply == Head(replies[c][r])
       IN  /\ \/ ~Acceptable(c, r, reply)
              \/ Unexpected(c, reply)
           /\ lastReceived' = [lastReceived EXCEPT ![c][r] =
                 IF Acceptable(c, r, reply) THEN reply.num ELSE @]
    /\ conn' = [conn EXCEPT ![c][r] = "stopped"]
    /\ replies' = [replies EXCEPT ![c][r] = <<>>]
    /\ UNCHANGED <<serverVars, requests, lost, taskVars, lastSent,
                   deliveryVars, callerVars>>

\* EOFError or ConnectionError; replies not yet received are gone.
ReceiveEof(c, r) ==
    /\ conn[c][r] \in Receiving
    /\ \/ lost[c][r]
       \/ conn[c][r] = "retired" /\ TransportClosed(c, r)
    /\ conn' = [conn EXCEPT ![c][r] = "stopped"]
    /\ replies' = [replies EXCEPT ![c][r] = <<>>]
    /\ UNCHANGED <<serverVars, requests, lost, taskVars, lastSent,
                   lastReceived, deliveryVars, callerVars>>

\* close_writer returns; the done callback prunes.  (It runs one turn of the
\* event loop later, in which only a repeated reply could look a value up.)
ReceiverDone(c, r) ==
    /\ conn[c][r] = "stopped"
    /\ TransportClosed(c, r)
    /\ conn' = [conn EXCEPT ![c][r] = "done"]
    /\ deliveredValues' = [deliveredValues EXCEPT ![c] =
                              Pruned(@, conn'[c], lastReceived[c])]
    /\ UNCHANGED <<serverVars, channelVars, taskVars, lastSent, lastReceived,
                   delivered, lastReply, divergence, callerVars>>

-----------------------------------------------------------------------------
(***************************************************************************)
(* close: at the end of the calling loop, or on a keyboard interrupt that  *)
(* cancels send_increment wherever it is.  Every receiver is cancelled and *)
(* goes to its close_writer, which returns at once if a task that waited   *)
(* in one for this connection has been cancelled there: the receiver       *)
(* itself, or a sender.                                                    *)
(***************************************************************************)
Close(c) ==
    /\ phase[c] \notin {"closing", "closed"}
    /\ phase' = [phase EXCEPT ![c] = "closing"]
    /\ task' = [task EXCEPT ![c] = [r \in Replicas |-> "none"]]
    /\ conn' = [conn EXCEPT ![c] = [r \in Replicas |->
                   IF \/ @[r] = "stopped"
                      \/ @[r] = "retired" /\ task[c][r] = "closing"
                   THEN "done"
                   ELSE IF @[r] \in Receiving THEN "stopped" ELSE @[r]]]
    /\ deliveredValues' = [deliveredValues EXCEPT ![c] =
                              Pruned(@, conn'[c], lastReceived[c])]
    /\ replies' = [replies EXCEPT ![c] = [r \in Replicas |-> <<>>]]
    /\ UNCHANGED <<serverVars, requests, lost, lastSent, lastReceived,
                   delivered, lastReply, divergence, callerVars>>

\* Mutation of Exit: waits for endpoints that were never connected.
ExitAwaitsEveryEndpoint(c) ==
    /\ phase[c] = "closing"
    /\ \A r \in Replicas : conn[c][r] = "done"
    /\ phase' = [phase EXCEPT ![c] = "closed"]
    /\ UNCHANGED <<serverVars, channelVars, task, connVars, deliveryVars,
                   callerVars>>

\* The gather over the receiver tasks returns.
Exit(c) ==
    /\ phase[c] = "closing"
    /\ \A r \in Replicas : conn[c][r] \in {"none", "done"}
    /\ phase' = [phase EXCEPT ![c] = "closed"]
    /\ UNCHANGED <<serverVars, channelVars, task, connVars, deliveryVars,
                   callerVars>>

-----------------------------------------------------------------------------
(***************************************************************************)
(* A replica reads one request, processes it and writes the response.  It  *)
(* reads on when the client no longer does; nobody gets that response.     *)
(***************************************************************************)
Serve(r, c) ==
    /\ up[r]
    /\ r \notin Faulty
    /\ requests[c][r] # <<>>
    /\ ~Paused(replies[c][r])
    /\ LET request == Request(c, Head(requests[c][r]), "increment")
           entry == lastReplies[r][c]
           response == Response(counters[r], entry, request)
       IN  /\ counters' = [counters EXCEPT ![r] =
                              CountersAfter(@, entry, request)]
           /\ lastReplies' = [lastReplies EXCEPT ![r][c] =
                              EntryAfter(counters[r], entry, request)]
           /\ replies' = [replies EXCEPT ![c][r] =
                 IF conn[c][r] = "live" /\ ~lost[c][r]
                 THEN Append(@, response) ELSE @]
    /\ requests' = [requests EXCEPT ![c][r] = Tail(@)]
    /\ UNCHANGED <<up, lost, taskVars, connVars, deliveryVars, callerVars>>

\* The connection is reset; requests in flight may still be read.
Disconnect(c, r) ==
    /\ conn[c][r] # "none"
    /\ r \in Responsive => conn[c][r] # "live"
    /\ ~lost[c][r]
    /\ lost' = [lost EXCEPT ![c][r] = TRUE]
    /\ \E k \in 0..Len(requests[c][r]) :
          requests' = [requests EXCEPT ![c][r] = SubSeq(@, 1, k)]
    /\ UNCHANGED <<serverVars, replies, taskVars, connVars, deliveryVars,
                   callerVars>>

\* The process dies with its state and its connections.
Crash(r) ==
    /\ up[r]
    /\ r \notin Responsive
    /\ up' = [up EXCEPT ![r] = FALSE]
    /\ lost' = [c \in Clients |-> [lost[c] EXCEPT ![r] =
                                      @ \/ conn[c][r] # "none"]]
    /\ requests' = [c \in Clients |-> [requests[c] EXCEPT ![r] = <<>>]]
    /\ UNCHANGED <<counters, lastReplies, replies, taskVars, connVars,
                   deliveryVars, callerVars>>

\* A new process starts from the initial state.
Restart(r) ==
    /\ ~up[r]
    /\ up' = [up EXCEPT ![r] = TRUE]
    /\ counters' = [counters EXCEPT ![r] = InitialCounters]
    /\ lastReplies' = [lastReplies EXCEPT ![r] = [c \in Clients |-> NoEntry]]
    /\ UNCHANGED <<channelVars, taskVars, connVars, deliveryVars, callerVars>>

-----------------------------------------------------------------------------
(***************************************************************************)
(* A peer that is not this server: any reply at any time.                  *)
(***************************************************************************)
FaultyResponses ==
    {ClientReply(n, v) : n \in 0..(MaxRequest + 1), v \in 0..1}
        \cup {ErrorReply("stale_request")}

FaultyReply(r, c) ==
    /\ r \in Faulty
    /\ conn[c][r] = "live"
    /\ ~lost[c][r]
    /\ ~Paused(replies[c][r])
    /\ \E response \in FaultyResponses :
          replies' = [replies EXCEPT ![c][r] = Append(@, response)]
    /\ UNCHANGED <<serverVars, requests, lost, taskVars, connVars,
                   deliveryVars, callerVars>>

FaultyRead(r, c) ==
    /\ r \in Faulty
    /\ requests[c][r] # <<>>
    /\ requests' = [requests EXCEPT ![c][r] = Tail(@)]
    /\ UNCHANGED <<serverVars, replies, lost, taskVars, connVars,
                   deliveryVars, callerVars>>

-----------------------------------------------------------------------------
Opening(c, r) == OpenSucceeds(c, r) \/ OpenFails(c, r)

Sender(c, r) ==
    \/ WriteRequest(c, r)
    \/ WriteToBroken(c, r)
    \/ DrainCompletes(c, r)
    \/ WriteFails(c, r)
    \/ CloseCompletes(c, r)

Receiver(c, r) ==
    \/ DeliverReply(c, r)
    \/ DiscardDuplicate(c, r)
    \/ RejectReply(c, r)
    \/ ReceiveEof(c, r)
    \/ ReceiverDone(c, r)

Caller(c) ==
    \/ OpenReplicas(c)
    \/ ReturnLateReply(c)
    \/ NoReplicas(c)
    \/ Broadcast(c)
    \/ BroadcastDone(c)
    \/ AwaitedReply(c)
    \/ ReplyTimeout(c)

Connection(c, r) ==
    \/ Opening(c, r)
    \/ Sender(c, r)
    \/ Receiver(c, r)
    \/ Serve(r, c)
    \/ Disconnect(c, r)
    \/ FaultyReply(r, c)
    \/ FaultyRead(r, c)

Next ==
    \/ \E c \in Clients : Caller(c) \/ Close(c) \/ Exit(c)
    \/ \E c \in Clients, r \in Replicas : Connection(c, r)
    \/ \E r \in Replicas : Crash(r) \/ Restart(r)

Spec == Init /\ [][Next]_vars

(***************************************************************************)
(* Fairness.  The event loop runs every task that can run and every timer  *)
(* that is due; run_automatic calls send_increment again after every call. *)
(* Nothing is assumed of faults, of resets or of the user who stops a      *)
(* client.                                                                 *)
(***************************************************************************)
ClientFairness ==
    /\ \A c \in Clients : WF_vars(Caller(c)) /\ WF_vars(Exit(c))
    /\ \A c \in Clients, r \in Replicas :
          /\ WF_vars(Opening(c, r))
          /\ WF_vars(Sender(c, r))
          /\ WF_vars(Receiver(c, r))

\* Every replica that is up serves.
FairSpec ==
    /\ Spec
    /\ ClientFairness
    /\ \A c \in Clients, r \in Replicas : WF_vars(Serve(r, c))

\* A replica that is not responsive may also stall without crashing.
StallSpec ==
    /\ Spec
    /\ ClientFairness
    /\ \A c \in Clients, r \in Responsive : WF_vars(Serve(r, c))

-----------------------------------------------------------------------------
(***************************************************************************)
(* Safety.                                                                 *)
(***************************************************************************)
\* Exactly once: the n-th call of send_increment that returns, returns n.  A
\* request may be written again after a timeout, be answered from
\* _last_replies, reach a replica after another answered it, or outlive its
\* connection; no replica counts it twice and none skips one.  (No Faulty.)
ExactlyOnce ==
    \A c \in Clients : answers[c] = [n \in 1..(nextRequestNum[c] - 1) |-> n]

\* The two tables of a running replica stay in step: a client's counter is
\* the number of the last request executed for it, and never exceeds the
\* last number written to that replica, also after a restart that reset both
\* while requests were in flight.
ReplicaState ==
    \A r \in Replicas \ Faulty, c \in Clients :
        up[r] => /\ counters[r][c] = lastReplies[r][c].num
                 /\ counters[r][c] <= lastSent[c][r]

\* Replicas that a client is still connected to and that have read all it
\* wrote hold the same counter for it: a broadcast leaves nobody out, not
\* even a replica that has fallen behind.
ReplicasAgree ==
    \A c \in Clients, r, s \in Replicas \ Faulty :
        (/\ phase[c] \in {"idle", "waiting"}
         /\ \A x \in {r, s} : /\ up[x] /\ conn[c][x] = "live" /\ ~lost[c][x]
                             /\ requests[c][x] = <<>>)
        => counters[r][c] = counters[s][c]

\* A correct replica is never retired or accused for what it says: whatever
\* a retry, a late reply or a replayed reply makes it send, _receive accepts
\* it and finds no divergence.  (No Faulty.)
NoFalseAccusation ==
    \A c \in Clients :
        /\ ~divergence[c]
        /\ \A r \in Replicas :
              HasReply(c, r) => Acceptable(c, r, Head(replies[c][r]))

\* The "unexpected logical request number" branch of _receive is never taken,
\* whatever a peer sends: no reply within the sent sequence is beyond the
\* outstanding request.
NeverUnexpected ==
    \A c \in Clients, r \in Replicas :
        HasReply(c, r) /\ Acceptable(c, r, Head(replies[c][r]))
            => ~Unexpected(c, Head(replies[c][r]))

\* _delivered_values keeps a value only for a receiver that may still get a
\* reply to compare with it, so a replica that is gone does not make it grow.
DeliveredValuesBounded ==
    \A c \in Clients, n \in 1..MaxRequest :
        deliveredValues[c][n] # None =>
            \E r \in Replicas : /\ conn[c][r] \in TaskPending
                               /\ lastReceived[c][r] < n

\* The value the client delivered for request n, from the history.
DeliveredValue(c, n) ==
    IF n <= Len(answers[c]) THEN answers[c][n] ELSE lastReply[c].value

\* A step that reads a connection's first reply to a delivered request with
\* a value other than the delivered one logs it.
ReportsDivergence ==
    \A c \in Clients, r \in Replicas :
        LET n == lastReceived'[c][r] IN
        (/\ n > lastReceived[c][r]
         /\ n <= delivered[c]
         /\ conn'[c][r] = conn[c][r]
         /\ Head(replies[c][r]).value # DeliveredValue(c, n))
        => divergence'[c]

\* Divergence is always reported: the first reply a connection gives to a
\* delivered request, if its value differs from the delivered one, is logged
\* as a divergence, however late it comes.  (_prune_delivered_values never
\* drops a value that is still needed.)
DivergenceIsReported == [][ReportsDivergence]_vars

(***************************************************************************)
(* Liveness.                                                               *)
(***************************************************************************)
Stopping(c) == phase[c] \in {"closing", "closed"}

\* With one responsive replica a client that is not stopped gets an answer
\* to every request, whatever the other replicas do: docs/DESIGN.md, "A
\* failed connection is removed, and the client continues using the
\* remaining connections."
Progress ==
    \A c \in Clients, n \in 1..MaxRequest :
        nextRequestNum[c] = n ~> nextRequestNum[c] > n \/ Stopping(c)

\* Late replicas catch up: what is written to a replica is executed there,
\* unless the connection goes or the client stops.
EveryReplicaExecutes ==
    \A c \in Clients, r \in Replicas, n \in 1..MaxRequest :
        lastSent[c][r] = n ~>
            \/ counters[r][c] >= n
            \/ lost[c][r]
            \/ conn[c][r] # "live"
            \/ Stopping(c)

\* close returns: every receiver task and transport it waits for ends.
ShutdownTerminates ==
    \A c \in Clients : phase[c] = "closing" ~> phase[c] = "closed"

(***************************************************************************)
(* The clients see the unreplicated counter of CounterService.             *)
(***************************************************************************)
Asked(c) ==
    IF \E r \in Replicas : lastSent[c][r] = nextRequestNum[c]
    THEN nextRequestNum[c] ELSE nextRequestNum[c] - 1

Service == INSTANCE CounterService
    WITH asked <- [c \in Clients |-> Asked(c)], answers <- answers

ImplementsService == Service!Spec
=============================================================================
