------------------------ MODULE PersistentClientProofs ------------------------
(***************************************************************************)
(* The Milestone 1 client, its replica and every failure between them, for *)
(* every number of requests, restarts and connections: the client is given *)
(* what one counter per process of the replica would give it.              *)
(***************************************************************************)
EXTENDS PersistentClient, TLAPS

-----------------------------------------------------------------------------
(***************************************************************************)
(* Types.                                                                  *)
(***************************************************************************)
\* Appending to, and reading from, one of a family of queues.
LEMMA QueueTypes ==
    ASSUME NEW S, NEW f \in [Connections -> Seq(S)], NEW k \in Connections
    PROVE  /\ \A x \in S : [f EXCEPT ![k] = Append(f[k], x)]
                               \in [Connections -> Seq(S)]
           /\ [f EXCEPT ![k] = <<>>] \in [Connections -> Seq(S)]
           /\ f[k] # <<>> => /\ Head(f[k]) \in S
                             /\ Tail(f[k]) \in Seq(S)
                             /\ [f EXCEPT ![k] = Tail(f[k])]
                                    \in [Connections -> Seq(S)]
  <1>1. f[k] \in Seq(S) /\ <<>> \in Seq(S)
    OBVIOUS
  <1>2. \A x \in S : Append(f[k], x) \in Seq(S)
    BY <1>1
  <1>3. f[k] # <<>> => Head(f[k]) \in S /\ Tail(f[k]) \in Seq(S)
    BY <1>1
  <1>4. \A q \in Seq(S) : [f EXCEPT ![k] = q] \in [Connections -> Seq(S)]
    OBVIOUS
  <1> QED
    BY <1>1, <1>2, <1>3, <1>4

\* What the state consists of.
LEMMA Types ==
    ASSUME TypeOK
    PROVE  /\ counters \in [{Client} -> Nat]
           /\ lastReplies \in [{Client} -> Server!Entries]
           /\ status \in [Connections -> Server!Statuses]
           /\ inbox \in [Connections -> Seq(Server!Messages)]
           /\ outbox \in [Connections -> Seq(Server!Responses)]
           /\ lastReplies[Client].num \in Nat
           /\ lastReplies[Client].reply \in Server!Responses
           /\ counters[Client] \in Nat
           /\ requestNum \in 1..(MaxRequests + 1)
           /\ requestNum \in Nat
           /\ None \notin Connections
  <1>1. Server!Ids = {Client}
    BY DEF Server!Ids
  <1>2. lastReplies[Client] \in Server!Entries
    BY <1>1 DEF TypeOK, Server!TypeOK
  <1>3. requestNum \in Nat
    BY PersistentAssumption DEF TypeOK
  <1> QED
    BY <1>1, <1>2, <1>3, PersistentAssumption
    DEF TypeOK, Server!TypeOK, Server!Entries

\* The messages of the two sides.
LEMMA MessageTypes ==
    /\ [kind |-> "eof"] \in Server!Messages
    /\ TypeOK /\ requestNum <= MaxRequests => CurrentRequest \in Server!Messages
    /\ \A n, v \in Nat : Server!ClientReply(n, v) \in Server!Responses
    /\ Server!ErrorReply("stale_request") \in Server!Responses
  <1>1. TypeOK /\ requestNum <= MaxRequests => requestNum \in 1..MaxRequests
    BY PersistentAssumption DEF TypeOK
  <1> QED
    BY <1>1
    DEF Server!Messages, Server!Kinds, CurrentRequest, Server!Request,
        Server!Requests, Server!Ids, Server!Operations, Server!Responses,
        Server!ResponseTypes, Server!ClientReply, Server!ErrorReply

\* A request that is read.
LEMMA RequestOf ==
    ASSUME NEW m \in Server!Messages, m.kind = "request"
    PROVE  m.request \in Server!Requests /\ m.request.num \in Nat \ {0}
  <1>1. m.request \in Server!Requests
    BY DEF Server!Messages, Server!Kinds
  <1> QED
    BY <1>1, PersistentAssumption DEF Server!Requests

-----------------------------------------------------------------------------
(***************************************************************************)
(* The inductive invariant.  The client waits for the reply to requestNum; *)
(* the replica has executed that request or only earlier ones, and its     *)
(* counter is the number of calls this process answered, and one more when *)
(* the current one is executed and its reply not yet returned.  What is    *)
(* still on a dropped connection is the current request or one that this   *)
(* process has executed, and the connection in use is quiet but for the    *)
(* exchange in progress.                                                   *)
(***************************************************************************)
CallInv ==
    /\ phase \in {"writing", "reading"} => cur # None
    /\ phase \in {"connecting", "closed"} => cur = None
    /\ asked \in {requestNum - 1, requestNum}
    /\ phase \in {"connecting", "writing", "reading"}
           => asked = requestNum /\ requestNum <= MaxRequests

TableInv ==
    LET entry == lastReplies[Client] IN
    /\ entry.num <= requestNum
    /\ entry.num > 0 =>
           /\ entry.op = "increment"
           /\ entry.reply = Server!ClientReply(entry.num, counters[Client])

CounterInv ==
    counters[Client] = Len(answers[restarts])
                         + IF lastReplies[Client].num = requestNum THEN 1 ELSE 0

FutureInv == \A p \in Processes : p > restarts => answers[p] = <<>>

Known(message) ==
    \/ message.kind = "eof"
    \/ /\ message.kind = "request"
       /\ message.request.client = Client
       /\ message.request.op = "increment"
       /\ \/ message.request.num = requestNum
          \/ message.request.num <= lastReplies[Client].num

RequestInv ==
    \A k \in Connections : \A i \in DOMAIN inbox[k] : Known(inbox[k][i])

CurrentReply == Server!ClientReply(requestNum, counters[Client])

Quiet(k) == inbox[k] = <<>> /\ outbox[k] = <<>>

Written(k) == inbox[k] = <<CurrentRequest>> /\ outbox[k] = <<>>

Answered(k) ==
    /\ inbox[k] = <<>>
    /\ outbox[k] = <<CurrentReply>>
    /\ lastReplies[Client].num = requestNum

ExchangeInv ==
    cur # None =>
        /\ phase # "reading" => Quiet(cur)
        /\ phase = "reading" => Quiet(cur) \/ Written(cur) \/ Answered(cur)

Inv ==
    /\ TypeOK
    /\ CallInv
    /\ TableInv
    /\ CounterInv
    /\ FutureInv
    /\ RequestInv
    /\ ExchangeInv

\* Calls of _process: requests are executed once, in order, and a repeated one
\* is given the reply of the first.
LEMMA HandleOutcome ==
    ASSUME Inv, NEW k \in Connections, Server!HandleRequest(k)
    PROVE  /\ inbox[k] # <<>>
           /\ inbox' = [inbox EXCEPT ![k] = Tail(inbox[k])]
           /\ UNCHANGED status
           /\ \/ /\ lastReplies[Client].num < requestNum
                 /\ counters' = [counters EXCEPT ![Client] =
                                    counters[Client] + 1]
                 /\ lastReplies' = [lastReplies EXCEPT ![Client] =
                       Server!Entry(requestNum, "increment",
                          Server!ClientReply(requestNum, counters[Client] + 1))]
                 /\ outbox' = [outbox EXCEPT ![k] = Append(outbox[k],
                       Server!ClientReply(requestNum, counters[Client] + 1))]
              \/ /\ UNCHANGED <<counters, lastReplies>>
                 /\ \E r \in Server!Responses :
                       outbox' = [outbox EXCEPT ![k] = Append(outbox[k], r)]
                 /\ Head(inbox[k]).request.num = requestNum =>
                       /\ lastReplies[Client].num = requestNum
                       /\ outbox' = [outbox EXCEPT ![k] =
                                        Append(outbox[k], CurrentReply)]
           /\ answered' \in SUBSET ({Client} \X Nat \X Nat)
  <1> DEFINE request == Head(inbox[k]).request
             entry == lastReplies[Client]
  <1>1. /\ inbox[k] # <<>> /\ Head(inbox[k]).kind = "request"
        /\ inbox' = [inbox EXCEPT ![k] = Tail(inbox[k])]
        /\ UNCHANGED status
    BY DEF Server!HandleRequest, Server!Reads
  <1>2. /\ inbox[k] \in Seq(Server!Messages)
        /\ Head(inbox[k]) \in Server!Messages
        /\ 1 \in DOMAIN inbox[k] /\ inbox[k][1] = Head(inbox[k])
    <2>1. inbox[k] \in Seq(Server!Messages)
      BY Types DEF Inv
    <2> QED
      BY <1>1, <2>1
  <1>3. Known(Head(inbox[k]))
    BY <1>2 DEF Inv, RequestInv
  <1>4. /\ request.client = Client
        /\ request.op = "increment"
        /\ request.num = requestNum \/ request.num <= entry.num
    BY <1>1, <1>3 DEF Known
  <1>5. request.num \in Nat \ {0}
    BY <1>1, <1>2, RequestOf
  <1>6. /\ entry.num \in Nat /\ requestNum \in Nat /\ entry.num <= requestNum
        /\ entry.reply \in Server!Responses /\ counters[Client] \in Nat
        /\ entry.num > 0 =>
              /\ entry.op = "increment"
              /\ entry.reply = Server!ClientReply(entry.num, counters[Client])
    BY Types DEF Inv, TableInv
  <1>7. LET response == Server!Response(counters, entry, request)
        IN  /\ counters' = Server!CountersAfter(counters, entry, request)
            /\ lastReplies' = [lastReplies EXCEPT ![Client] =
                                  Server!EntryAfter(counters, entry, request)]
            /\ outbox' = [outbox EXCEPT ![k] = Append(outbox[k], response)]
            /\ answered' = IF response.type = "client_reply"
                           THEN answered \cup {<<Client, request.num,
                                                 response.value>>}
                           ELSE answered
    BY <1>4 DEF Server!HandleRequest
  <1> DEFINE response == Server!Response(counters, entry, request)
  <1>8. response \in Server!Responses
    <2>1. CASE request.num > entry.num
      BY <1>4, <1>5, <1>6, <2>1, MessageTypes
      DEF Server!Response, Server!IsNew, Server!Supported
    <2>2. CASE ~(request.num > entry.num)
      BY <1>6, <2>2, MessageTypes DEF Server!Response, Server!IsNew
    <2> QED
      BY <2>1, <2>2
  <1>9. answered' \in SUBSET ({Client} \X Nat \X Nat)
    <2>1. response.value \in Nat
      BY <1>8 DEF Server!Responses
    <2>2. answered \subseteq {Client} \X Nat \X Nat
      BY DEF Inv, TypeOK, Server!TypeOK
    <2> HIDE DEF response, request
    <2>3. <<Client, request.num, response.value>> \in {Client} \X Nat \X Nat
      BY <1>5, <2>1
    <2> QED
      BY <1>7, <2>2, <2>3 DEF response
  <1>10. CASE request.num > entry.num
    <2>1. request.num = requestNum
      BY <1>4, <1>5, <1>6, <1>10
    <2>2. /\ Server!Executes(entry, request)
          /\ response = Server!ClientReply(requestNum, counters[Client] + 1)
      BY <1>4, <1>10, <2>1
      DEF Server!Executes, Server!IsNew, Server!Supported, Server!Response
    <2>3. /\ counters' = [counters EXCEPT ![Client] = counters[Client] + 1]
          /\ lastReplies' = [lastReplies EXCEPT ![Client] =
                                Server!Entry(requestNum, "increment", response)]
      BY <1>4, <1>7, <2>1, <2>2 DEF Server!CountersAfter, Server!EntryAfter
    <2> QED
      BY <1>1, <1>6, <1>7, <1>9, <1>10, <2>1, <2>2, <2>3
  <1>11. CASE ~(request.num > entry.num)
    <2>1. ~Server!Executes(entry, request)
      BY <1>11 DEF Server!Executes, Server!IsNew
    <2>2. UNCHANGED <<counters, lastReplies>>
      BY <1>7, <2>1, Types
      DEF Inv, Server!CountersAfter, Server!EntryAfter
    <2>3. request.num = requestNum =>
              /\ entry.num = requestNum
              /\ response = CurrentReply
      <3> SUFFICES ASSUME request.num = requestNum
                   PROVE  entry.num = requestNum /\ response = CurrentReply
        OBVIOUS
      <3>1. entry.num = requestNum /\ entry.num > 0
        BY <1>5, <1>6, <1>11
      <3> QED
        BY <1>4, <1>6, <1>11, <3>1
        DEF Server!Response, Server!IsNew, Server!IsReplay, CurrentReply
    <2> QED
      BY <1>1, <1>7, <1>8, <1>9, <2>2, <2>3
  <1> QED
    BY <1>10, <1>11

\* A message that is appended to a queue of known ones.
LEMMA AppendKnown ==
    ASSUME Inv, NEW k \in Connections, NEW m \in Server!Messages, Known(m),
           inbox' = [inbox EXCEPT ![k] = Append(inbox[k], m)],
           UNCHANGED <<requestNum, lastReplies>>
    PROVE  inbox' \in [Connections -> Seq(Server!Messages)] /\ RequestInv'
  <1>0. inbox \in [Connections -> Seq(Server!Messages)]
    BY Types DEF Inv
  <1>1. inbox' \in [Connections -> Seq(Server!Messages)]
    BY <1>0, QueueTypes
  <1>2. \A j \in Connections : \A i \in DOMAIN inbox'[j] : Known(inbox'[j][i])
    <2> SUFFICES ASSUME NEW j \in Connections, NEW i \in DOMAIN inbox'[j]
                 PROVE  Known(inbox'[j][i])
      OBVIOUS
    <2>1. CASE j # k
      BY <1>0, <2>1 DEF Inv, RequestInv
    <2>2. CASE j = k
      <3>1. inbox'[j] = Append(inbox[j], m) /\ inbox[j] \in Seq(Server!Messages)
        BY <1>0, <2>2
      <3>2. \/ i \in DOMAIN inbox[j] /\ inbox'[j][i] = inbox[j][i]
            \/ inbox'[j][i] = m
        BY <3>1
      <3> QED
        BY <3>2 DEF Inv, RequestInv
    <2> QED
      BY <2>1, <2>2
  <1> QED
    BY <1>1, <1>2 DEF RequestInv, Known

\* Steps that leave the reply table, the counter and the history alone.
LEMMA TableUnchanged ==
    ASSUME Inv,
           UNCHANGED <<counters, lastReplies, requestNum, answers, restarts>>
    PROVE  TableInv' /\ CounterInv' /\ FutureInv'
    BY DEF Inv, TableInv, CounterInv, FutureInv

\* _drop_connection.
LEMMA DropInv ==
    ASSUME Inv, DropConnection,
           UNCHANGED <<counters, lastReplies, requestNum, answers, restarts>>
    PROVE  /\ inbox' \in [Connections -> Seq(Server!Messages)]
           /\ cur' = None
           /\ TableInv' /\ CounterInv' /\ FutureInv' /\ RequestInv'
           /\ ExchangeInv'
  <1>1. cur' = None
    BY DEF DropConnection
  <1>2. inbox' \in [Connections -> Seq(Server!Messages)] /\ RequestInv'
    <2>1. CASE cur # None /\ status[cur] = "reading"
      <3>1. /\ cur \in Connections
            /\ inbox' = [inbox EXCEPT ![cur] =
                            Append(inbox[cur], [kind |-> "eof"])]
        BY <2>1 DEF DropConnection, Inv, TypeOK
      <3>2. Known([kind |-> "eof"])
        BY DEF Known
      <3> QED
        BY <3>1, <3>2, MessageTypes, AppendKnown
    <2>2. CASE ~(cur # None /\ status[cur] = "reading")
      BY <2>2, Types DEF DropConnection, Inv, RequestInv, Known
    <2> QED
      BY <2>1, <2>2
  <1> QED
    BY <1>1, <1>2, TableUnchanged DEF ExchangeInv

\* A call fails.
LEMMA FailInv ==
    ASSUME Inv, Fail, UNCHANGED <<up, restarts, calm>>
    PROVE  Inv'
  <1>1. /\ DropConnection /\ phase' = "idle"
        /\ UNCHANGED <<counters, lastReplies, status, outbox, answered,
                       requestNum, asked, answers>>
    BY DEF Fail
  <1>2. /\ inbox' \in [Connections -> Seq(Server!Messages)]
        /\ cur' = None
        /\ TableInv' /\ CounterInv' /\ FutureInv' /\ RequestInv'
        /\ ExchangeInv'
    BY <1>1, DropInv
  <1>3. TypeOK'
    BY <1>1, <1>2 DEF Inv, TypeOK, Server!TypeOK, Phases
  <1>4. CallInv'
    BY <1>1, <1>2 DEF Inv, CallInv
  <1> QED
    BY <1>2, <1>3, <1>4 DEF Inv

\* send_increment is called.
LEMMA CallKeeps ==
    ASSUME Inv, Call
    PROVE  Inv'
  <1>1. /\ phase = "idle" /\ requestNum <= MaxRequests /\ asked' = requestNum
        /\ UNCHANGED <<counters, lastReplies, status, outbox, answered,
                       requestNum, answers, up, restarts, calm>>
    BY DEF Call
  <1>2. requestNum \in 0..MaxRequests
    BY <1>1, PersistentAssumption DEF Inv, TypeOK
  <1>3. CASE cur # None /\ phase' = "writing" /\ UNCHANGED <<cur, inbox>>
    <2>1. TypeOK'
      BY <1>1, <1>2, <1>3 DEF Inv, TypeOK, Server!TypeOK, Phases
    <2>2. CallInv'
      BY <1>1, <1>3 DEF Inv, CallInv
    <2>3. TableInv' /\ CounterInv' /\ FutureInv'
      BY <1>1, TableUnchanged
    <2>4. RequestInv'
      BY <1>1, <1>3 DEF Inv, RequestInv, Known
    <2>5. ExchangeInv'
      BY <1>1, <1>3 DEF Inv, ExchangeInv, Quiet
    <2> QED
      BY <2>1, <2>2, <2>3, <2>4, <2>5 DEF Inv
  <1>4. CASE DropConnection /\ phase' = "connecting"
    <2>1. /\ inbox' \in [Connections -> Seq(Server!Messages)]
          /\ cur' = None
          /\ TableInv' /\ CounterInv' /\ FutureInv' /\ RequestInv'
          /\ ExchangeInv'
      BY <1>1, <1>4, DropInv
    <2>2. TypeOK'
      BY <1>1, <1>2, <1>4, <2>1 DEF Inv, TypeOK, Server!TypeOK, Phases
    <2>3. CallInv'
      BY <1>1, <1>4, <2>1 DEF Inv, CallInv
    <2> QED
      BY <2>1, <2>2, <2>3 DEF Inv
  <1> QED
    BY <1>3, <1>4 DEF Call

\* A new connection.
LEMMA OpenKeeps ==
    ASSUME Inv, NEW k \in Connections, OpenSucceeds(k)
    PROVE  Inv'
  <1>1. /\ phase = "connecting" /\ phase' = "writing" /\ cur' = k
        /\ UNCHANGED <<requestNum, asked, answers, up, restarts, calm>>
        /\ UNCHANGED <<counters, lastReplies, answered>>
        /\ status' = [status EXCEPT ![k] = "reading"]
        /\ inbox' = [inbox EXCEPT ![k] = <<>>]
        /\ outbox' = [outbox EXCEPT ![k] = <<>>]
    BY DEF OpenSucceeds, Server!Accept
  <1>2. TypeOK'
    BY <1>1, QueueTypes
    DEF Inv, TypeOK, Server!TypeOK, Server!Statuses, Phases
  <1>3. CallInv'
    BY <1>1, Types DEF Inv, CallInv
  <1>4. TableInv' /\ CounterInv' /\ FutureInv'
    BY <1>1, TableUnchanged
  <1>5. RequestInv'
    BY <1>1, Types DEF Inv, RequestInv, Known
  <1>6. ExchangeInv'
    BY <1>1, Types DEF Inv, ExchangeInv, Quiet
  <1> QED
    BY <1>2, <1>3, <1>4, <1>5, <1>6 DEF Inv

\* The request is written.
LEMMA WriteKeeps ==
    ASSUME Inv, WriteRequest
    PROVE  Inv'
  <1>1. /\ phase = "writing" /\ phase' = "reading" /\ cur \in Connections
        /\ cur # None /\ requestNum <= MaxRequests
        /\ UNCHANGED <<cur, requestNum, asked, answers, up, restarts, calm>>
        /\ UNCHANGED <<counters, lastReplies, status, outbox, answered>>
    BY DEF WriteRequest, Server!PeerWrites, serverVars, Inv, CallInv, TypeOK
  <1>2. Quiet(cur)
    BY <1>1 DEF Inv, ExchangeInv
  <1>3. \/ UNCHANGED inbox
        \/ inbox' = [inbox EXCEPT ![cur] = Append(inbox[cur], CurrentRequest)]
    BY DEF WriteRequest, Server!PeerWrites, serverVars
  <1>4. inbox' \in [Connections -> Seq(Server!Messages)] /\ RequestInv'
    <2>1. CASE UNCHANGED inbox
      BY <1>1, <2>1, Types DEF Inv, RequestInv, Known
    <2>2. CASE inbox' = [inbox EXCEPT ![cur] =
                            Append(inbox[cur], CurrentRequest)]
      <3>1. CurrentRequest \in Server!Messages /\ Known(CurrentRequest)
        BY <1>1, MessageTypes DEF Inv, Known, CurrentRequest, Server!Request
      <3> QED
        BY <1>1, <2>2, <3>1, AppendKnown
    <2> QED
      BY <1>3, <2>1, <2>2
  <1>5. TypeOK'
    BY <1>1, <1>4 DEF Inv, TypeOK, Server!TypeOK, Phases
  <1>6. CallInv'
    BY <1>1 DEF Inv, CallInv
  <1>7. ExchangeInv'
    <2>1. outbox'[cur'] = <<>> /\ inbox'[cur'] \in {<<>>, <<CurrentRequest>>}
      BY <1>1, <1>2, <1>3, Types DEF Inv, Quiet
    <2> QED
      BY <1>1, <2>1 DEF ExchangeInv, Quiet, Written, CurrentRequest
  <1> QED
    BY <1>1, <1>4, <1>5, <1>6, <1>7, TableUnchanged DEF Inv

\* A reply on the connection in use is that to the current request.
LEMMA ReplyIsCurrent ==
    ASSUME Inv, phase = "reading", outbox[cur] # <<>>
    PROVE  Answered(cur) /\ cur \in Connections
    BY DEF Inv, CallInv, TypeOK, ExchangeInv, Quiet, Written

\* The reply is returned to the caller.
LEMMA ReplyKeeps ==
    ASSUME Inv, ReadReply
    PROVE  Inv'
  <1>1. /\ phase = "reading" /\ outbox[cur] # <<>>
        /\ UNCHANGED <<up, restarts, calm>>
    BY DEF ReadReply
  <1>2. Answered(cur) /\ cur \in Connections
    BY <1>1, ReplyIsCurrent
  <1>3. Head(outbox[cur]) = CurrentReply
    BY <1>2 DEF Answered
  <1>4. ValidReply(CurrentReply) /\ CurrentReply.value = counters[Client]
    BY DEF ValidReply, CurrentReply, Server!ClientReply
  <1>5. /\ outbox' = [outbox EXCEPT ![cur] = Tail(outbox[cur])]
        /\ answers' = [answers EXCEPT ![restarts] =
                          Append(answers[restarts], counters[Client])]
        /\ requestNum' = requestNum + 1
        /\ phase' = "idle"
        /\ UNCHANGED <<counters, lastReplies, status, inbox, answered, cur,
                       asked>>
    BY <1>3, <1>4 DEF ReadReply, Server!PeerReads
  <1>6. /\ asked = requestNum /\ requestNum <= MaxRequests
        /\ requestNum \in Nat /\ counters[Client] \in Nat
        /\ answers[restarts] \in Seq(Nat)
        /\ answers \in [Processes -> Seq(Nat)]
        /\ restarts \in Processes
        /\ lastReplies[Client].num = requestNum
    BY <1>1, <1>2, Types DEF Inv, CallInv, TypeOK, Answered
  <1>7. TypeOK'
    <2>1. outbox' \in [Connections -> Seq(Server!Responses)]
      BY <1>1, <1>2, <1>5, Types, QueueTypes DEF Inv
    <2>2. answers' \in [Processes -> Seq(Nat)]
      BY <1>5, <1>6
    <2>3. requestNum' \in 1..(MaxRequests + 1)
      BY <1>5, <1>6, PersistentAssumption
    <2> QED
      BY <1>1, <1>5, <2>1, <2>2, <2>3 DEF Inv, TypeOK, Server!TypeOK, Phases
  <1>8. CallInv'
    BY <1>1, <1>5, <1>6 DEF Inv, CallInv
  <1>9. TableInv'
    BY <1>5, <1>6 DEF Inv, TableInv
  <1>10. CounterInv'
    <2>1. Len(answers'[restarts]) = Len(answers[restarts]) + 1
      BY <1>5, <1>6
    <2>2. counters[Client] = Len(answers[restarts]) + 1
      BY <1>6 DEF Inv, CounterInv
    <2>3. lastReplies[Client].num # requestNum + 1
      BY <1>6
    <2> QED
      BY <1>1, <1>5, <1>6, <2>1, <2>2, <2>3 DEF CounterInv
  <1>11. FutureInv'
    BY <1>1, <1>5, <1>6, PersistentAssumption DEF Inv, FutureInv, Processes
  <1>12. RequestInv'
    BY <1>5, <1>6, Types DEF Inv, RequestInv, Known
  <1>13. ExchangeInv'
    <2>1. inbox'[cur'] = <<>> /\ outbox'[cur'] = <<>>
      BY <1>2, <1>5, Types DEF Inv, Answered
    <2> QED
      BY <1>5, <2>1 DEF ExchangeInv, Quiet
  <1> QED
    BY <1>7, <1>8, <1>9, <1>10, <1>11, <1>12, <1>13 DEF Inv

\* Reading the first message of a queue.
LEMMA TailEntries ==
    ASSUME NEW S, NEW queue \in Seq(S), queue # <<>>
    PROVE  \A i \in DOMAIN Tail(queue) :
              i + 1 \in DOMAIN queue /\ Tail(queue)[i] = queue[i + 1]
  <1>1. /\ DOMAIN Tail(queue) = 1..(Len(queue) - 1)
        /\ DOMAIN queue = 1..Len(queue)
        /\ \A i \in 1..(Len(queue) - 1) : Tail(queue)[i] = queue[i + 1]
        /\ Len(queue) \in Nat \ {0}
    OBVIOUS
  <1> QED
    BY <1>1

\* The replica reads a message.
LEMMA TailKnown ==
    ASSUME Inv, NEW k \in Connections, inbox[k] # <<>>,
           inbox' = [inbox EXCEPT ![k] = Tail(inbox[k])]
    PROVE  /\ inbox' \in [Connections -> Seq(Server!Messages)]
           /\ \A j \in Connections : \A i \in DOMAIN inbox'[j] :
                 \E h \in DOMAIN inbox[j] : inbox'[j][i] = inbox[j][h]
  <1>0. inbox \in [Connections -> Seq(Server!Messages)]
    BY Types DEF Inv
  <1>1. inbox' \in [Connections -> Seq(Server!Messages)]
    BY <1>0, QueueTypes
  <1>2. ASSUME NEW j \in Connections, NEW i \in DOMAIN inbox'[j]
        PROVE  \E h \in DOMAIN inbox[j] : inbox'[j][i] = inbox[j][h]
    <2>1. CASE j # k
      BY <1>0, <2>1
    <2>2. CASE j = k
      <3>1. inbox'[j] = Tail(inbox[j]) /\ inbox[j] \in Seq(Server!Messages)
        BY <1>0, <2>2
      <3>2. i + 1 \in DOMAIN inbox[j] /\ inbox'[j][i] = inbox[j][i + 1]
        BY <2>2, <3>1, TailEntries
      <3> QED
        BY <3>2
    <2> QED
      BY <2>1, <2>2
  <1> QED
    BY <1>1, <1>2

\* The replica answers a request, of the connection in use or of an old one.
LEMMA RequestKeeps ==
    ASSUME Inv, NEW k \in Connections, Server!HandleRequest(k),
           UNCHANGED <<clientVars, up, restarts, calm>>
    PROVE  Inv'
  <1> DEFINE executed ==
               /\ lastReplies[Client].num < requestNum
               /\ counters' = [counters EXCEPT ![Client] = counters[Client] + 1]
               /\ lastReplies' = [lastReplies EXCEPT ![Client] =
                     Server!Entry(requestNum, "increment",
                        Server!ClientReply(requestNum, counters[Client] + 1))]
               /\ outbox' = [outbox EXCEPT ![k] = Append(outbox[k],
                     Server!ClientReply(requestNum, counters[Client] + 1))]
  <1>0. /\ UNCHANGED <<phase, cur, requestNum, asked, answers>>
        /\ requestNum \in Nat /\ counters[Client] \in Nat
        /\ lastReplies[Client].num \in Nat
    BY Types DEF Inv, clientVars
  <1>1. /\ inbox[k] # <<>>
        /\ inbox' = [inbox EXCEPT ![k] = Tail(inbox[k])]
        /\ UNCHANGED status
        /\ answered' \in SUBSET ({Client} \X Nat \X Nat)
    BY HandleOutcome
  <1>2. executed \/ UNCHANGED <<counters, lastReplies>>
    BY HandleOutcome
  <1>3. \E r \in Server!Responses :
            outbox' = [outbox EXCEPT ![k] = Append(outbox[k], r)]
    <2>1. Server!ClientReply(requestNum, counters[Client] + 1)
              \in Server!Responses
      BY <1>0, MessageTypes
    <2> QED
      BY <2>1, HandleOutcome
  <1>4. /\ inbox' \in [Connections -> Seq(Server!Messages)]
        /\ \A j \in Connections : \A i \in DOMAIN inbox'[j] :
              \E h \in DOMAIN inbox[j] : inbox'[j][i] = inbox[j][h]
    BY <1>1, TailKnown
  <1>5. TypeOK'
    <2>1. outbox' \in [Connections -> Seq(Server!Responses)]
      BY <1>3, Types, QueueTypes DEF Inv
    <2>2. counters' \in [{Client} -> Nat]
      BY <1>0, <1>2, Types DEF Inv
    <2>3. lastReplies' \in [{Client} -> Server!Entries]
      <3>1. CASE executed
        <4>1. Server!ClientReply(requestNum, counters[Client] + 1)
                  \in Server!Responses
          BY <1>0, MessageTypes
        <4>2. Server!Entry(requestNum, "increment",
                 Server!ClientReply(requestNum, counters[Client] + 1))
                  \in Server!Entries
          BY <1>0, <4>1 DEF Server!Entry, Server!Entries, Server!Operations
        <4> QED
          BY <3>1, <4>2, Types DEF Inv
      <3>2. CASE UNCHANGED lastReplies
        BY <3>2, Types DEF Inv
      <3> QED
        BY <1>2, <3>1, <3>2
    <2> QED
      BY <1>0, <1>1, <1>4, <2>1, <2>2, <2>3
      DEF Inv, TypeOK, Server!TypeOK, Server!Ids
  <1>6. CallInv' /\ FutureInv'
    BY <1>0 DEF Inv, CallInv, FutureInv
  <1>7. /\ executed => /\ counters'[Client] = counters[Client] + 1
                       /\ lastReplies'[Client] =
                             Server!Entry(requestNum, "increment",
                                Server!ClientReply(requestNum,
                                                   counters[Client] + 1))
        /\ lastReplies'[Client].num \in {lastReplies[Client].num, requestNum}
        /\ lastReplies[Client].num <= lastReplies'[Client].num
    BY <1>0, <1>2, Types DEF Inv, Server!Entry
  <1>8. TableInv' /\ CounterInv'
    <2>1. CASE executed
      <3>1. /\ counters'[Client] = counters[Client] + 1
            /\ lastReplies'[Client].num = requestNum
            /\ lastReplies'[Client].op = "increment"
            /\ lastReplies'[Client].reply =
                  Server!ClientReply(requestNum, counters'[Client])
        BY <1>7, <2>1 DEF Server!Entry
      <3>2. TableInv'
        BY <1>0, <3>1 DEF TableInv
      <3>3. counters[Client] = Len(answers[restarts])
        BY <1>0, <2>1, Types DEF Inv, CounterInv, TypeOK
      <3>4. CounterInv'
        BY <1>0, <3>1, <3>3 DEF CounterInv
      <3> QED
        BY <3>2, <3>4
    <2>2. CASE UNCHANGED <<counters, lastReplies>>
      BY <1>0, <2>2, TableUnchanged
    <2> QED
      BY <1>2, <2>1, <2>2
  <1>9. RequestInv'
    <2> SUFFICES ASSUME NEW j \in Connections, NEW i \in DOMAIN inbox'[j]
                 PROVE  Known(inbox[j][i])'
      BY DEF RequestInv
    <2>1. PICK h \in DOMAIN inbox[j] : inbox'[j][i] = inbox[j][h]
      BY <1>4
    <2>2. Known(inbox[j][h]) /\ inbox[j][h] \in Server!Messages
      BY Types DEF Inv, RequestInv
    <2>3. inbox[j][h].kind = "request" => inbox[j][h].request.num \in Nat
      BY <2>2, RequestOf
    <2> QED
      BY <1>0, <1>7, <2>1, <2>2, <2>3 DEF Known
  <1>10. ExchangeInv'
    <2> SUFFICES ASSUME cur # None
                 PROVE  /\ phase # "reading" => Quiet(cur)'
                        /\ phase = "reading" =>
                              (Quiet(cur) \/ Written(cur) \/ Answered(cur))'
      BY <1>0 DEF ExchangeInv
    <2>1. CASE k = cur
      <3>1. phase = "reading" /\ Written(cur)
        BY <1>1, <2>1 DEF Inv, ExchangeInv, Quiet, Answered
      <3>2. /\ inbox'[cur] = <<>>
            /\ Head(inbox[cur]).request.num = requestNum
        BY <1>1, <2>1, <3>1, Types
        DEF Inv, Written, CurrentRequest, Server!Request
      <3>3. /\ outbox'[cur] = <<Server!ClientReply(requestNum,
                                                   counters'[Client])>>
            /\ lastReplies'[Client].num = requestNum
        <4>1. CASE executed
          BY <1>7, <2>1, <3>1, <4>1, Types DEF Inv, Written, Server!Entry
        <4>2. CASE ~executed
          <5>1. /\ UNCHANGED <<counters, lastReplies>>
                /\ lastReplies[Client].num = requestNum
                /\ outbox' = [outbox EXCEPT ![k] =
                                 Append(outbox[k], CurrentReply)]
            BY <2>1, <3>2, <4>2, HandleOutcome
          <5> QED
            BY <2>1, <3>1, <5>1, Types DEF Inv, Written, CurrentReply
        <4> QED
          BY <4>1, <4>2
      <3>4. Answered(cur)'
        BY <1>0, <3>2, <3>3 DEF Answered, CurrentReply
      <3> QED
        BY <3>1, <3>4
    <2>2. CASE k # cur
      <3>1. cur \in Connections
        BY DEF Inv, TypeOK
      <3>2. inbox'[cur] = inbox[cur] /\ outbox'[cur] = outbox[cur]
        BY <1>1, <1>3, <2>2, <3>1, Types DEF Inv
      <3>3. Quiet(cur) => Quiet(cur)'
        BY <1>0, <3>2 DEF Quiet
      <3>4. Written(cur) => Written(cur)'
        BY <1>0, <3>2 DEF Written, CurrentRequest
      <3>5. Answered(cur) => Answered(cur)'
        <4> SUFFICES ASSUME Answered(cur) PROVE Answered(cur)'
          OBVIOUS
        <4>1. ~executed
          BY <1>0 DEF Answered
        <4>2. UNCHANGED <<counters, lastReplies>>
          BY <1>2, <4>1
        <4> QED
          BY <1>0, <3>2, <4>2 DEF Answered, CurrentReply
      <3> QED
        BY <3>3, <3>4, <3>5 DEF Inv, ExchangeInv
    <2> QED
      BY <2>1, <2>2
  <1> QED
    BY <1>5, <1>6, <1>8, <1>9, <1>10 DEF Inv

\* Steps of the replica that answer nothing.
LEMMA ReplicaStepKeeps ==
    ASSUME Inv, NEW k \in Connections,
           \/ Server!HandleEnd(k) \/ Server!CloseWriter(k)
           \/ Server!ConnectionReset(k),
           UNCHANGED <<clientVars, up, restarts, calm>>
    PROVE  Inv'
  <1>0. /\ UNCHANGED <<phase, cur, requestNum, asked, answers>>
        /\ UNCHANGED <<counters, lastReplies, answered>>
    BY DEF clientVars, Server!HandleEnd, Server!CloseWriter,
           Server!ConnectionReset
  <1>1. \/ UNCHANGED inbox
        \/ /\ inbox[k] # <<>> /\ Head(inbox[k]).kind \in {"eof", "malformed"}
           /\ inbox' = [inbox EXCEPT ![k] = Tail(inbox[k])]
    BY DEF Server!HandleEnd, Server!Reads, Server!CloseWriter,
           Server!ConnectionReset
  <1>2. outbox' \in {outbox, [outbox EXCEPT ![k] = <<>>]}
    BY DEF Server!HandleEnd, Server!CloseWriter, Server!ConnectionReset
  <1>3. status' \in [Connections -> Server!Statuses]
    BY Types
    DEF Inv, Server!HandleEnd, Server!CloseWriter, Server!ConnectionReset,
        Server!Statuses
  <1>4. /\ inbox' \in [Connections -> Seq(Server!Messages)]
        /\ \A j \in Connections : \A i \in DOMAIN inbox'[j] :
              \E h \in DOMAIN inbox[j] : inbox'[j][i] = inbox[j][h]
    <2>1. CASE UNCHANGED inbox
      BY <2>1, Types DEF Inv
    <2>2. CASE /\ inbox[k] # <<>>
               /\ inbox' = [inbox EXCEPT ![k] = Tail(inbox[k])]
      BY <2>2, TailKnown
    <2> QED
      BY <1>1, <2>1, <2>2
  <1>5. TypeOK'
    <2>1. /\ outbox \in [Connections -> Seq(Server!Responses)]
          /\ [outbox EXCEPT ![k] = <<>>]
                \in [Connections -> Seq(Server!Responses)]
      BY Types, QueueTypes DEF Inv
    <2>2. outbox' \in [Connections -> Seq(Server!Responses)]
      BY <1>2, <2>1
    <2> QED
      BY <1>0, <1>3, <1>4, <2>2 DEF Inv, TypeOK, Server!TypeOK
  <1>6. CallInv' /\ TableInv' /\ CounterInv' /\ FutureInv'
    BY <1>0, TableUnchanged DEF Inv, CallInv
  <1>7. RequestInv'
    BY <1>0, <1>4 DEF Inv, RequestInv, Known
  <1>8. ExchangeInv'
    <2> SUFFICES ASSUME cur # None
                 PROVE  /\ phase # "reading" => Quiet(cur)'
                        /\ phase = "reading" =>
                              (Quiet(cur) \/ Written(cur) \/ Answered(cur))'
      BY <1>0 DEF ExchangeInv
    <2>0. cur \in Connections
      BY DEF Inv, TypeOK
    <2>1. inbox'[cur] = inbox[cur]
      <3>1. CASE k = cur
        <4>1. inbox[cur] # <<>> => Head(inbox[cur]).kind = "request"
          BY DEF Inv, ExchangeInv, Quiet, Written, Answered, CurrentRequest
        <4> QED
          BY <1>1, <3>1, <4>1
      <3>2. CASE k # cur
        BY <1>1, <2>0, <3>2, Types DEF Inv
      <3> QED
        BY <3>1, <3>2
    <2>2. outbox'[cur] \in {outbox[cur], <<>>}
      BY <1>2, <2>0, Types DEF Inv
    <2>3. Quiet(cur) => Quiet(cur)'
      BY <1>0, <2>1, <2>2 DEF Quiet
    <2>4. Written(cur) => Written(cur)'
      BY <1>0, <2>1, <2>2 DEF Written, CurrentRequest
    <2>5. Answered(cur) => Answered(cur)' \/ Quiet(cur)'
      BY <1>0, <2>1, <2>2 DEF Answered, CurrentReply, Quiet
    <2> QED
      BY <2>3, <2>4, <2>5 DEF Inv, ExchangeInv
  <1> QED
    BY <1>5, <1>6, <1>7, <1>8 DEF Inv


-----------------------------------------------------------------------------
(***************************************************************************)
(* The remaining steps.                                                    *)
(***************************************************************************)
\* Steps that leave the client, the reply table and the connections alone.
LEMMA StateUnchanged ==
    ASSUME Inv, up' \in BOOLEAN, calm' \in BOOLEAN, phase' \in {phase, "idle"},
           UNCHANGED <<counters, lastReplies, status, inbox, outbox, answered,
                       cur, requestNum, asked, answers, restarts>>,
           phase' # phase => cur = None
    PROVE  Inv'
  <1>1. TypeOK'
    BY DEF Inv, TypeOK, Server!TypeOK, Phases
  <1>2. CallInv'
    BY DEF Inv, CallInv
  <1>3. TableInv' /\ CounterInv' /\ FutureInv'
    BY TableUnchanged
  <1>4. RequestInv'
    BY DEF Inv, RequestInv, Known
  <1>5. ExchangeInv'
    <2> SUFFICES ASSUME cur # None PROVE ExchangeInv'
      BY DEF ExchangeInv
    <2>1. UNCHANGED phase
      OBVIOUS
    <2> QED
      BY <2>1 DEF Inv, ExchangeInv, Quiet, Written, Answered, CurrentRequest,
                  CurrentReply
  <1> QED
    BY <1>1, <1>2, <1>3, <1>4, <1>5 DEF Inv

\* The client is stopped.
LEMMA QuitKeeps ==
    ASSUME Inv, Quit
    PROVE  Inv'
  <1>1. /\ DropConnection /\ phase' = "closed"
        /\ UNCHANGED <<counters, lastReplies, status, outbox, answered,
                       requestNum, asked, answers, up, restarts, calm>>
    BY DEF Quit
  <1>2. /\ inbox' \in [Connections -> Seq(Server!Messages)]
        /\ cur' = None
        /\ TableInv' /\ CounterInv' /\ FutureInv' /\ RequestInv'
        /\ ExchangeInv'
    BY <1>1, DropInv
  <1>3. TypeOK'
    BY <1>1, <1>2 DEF Inv, TypeOK, Server!TypeOK, Phases
  <1>4. CallInv'
    BY <1>1, <1>2 DEF Inv, CallInv
  <1> QED
    BY <1>2, <1>3, <1>4 DEF Inv

\* A process of the replica that has just been started.
LEMMA EmptyReplica ==
    /\ Server!InitialCounters \in [{Client} -> Nat]
    /\ Server!InitialCounters[Client] = 0
    /\ Server!NoEntry \in Server!Entries
    /\ Server!NoEntry.num = 0
  <1>1. Server!ErrorReply("stale_request") \in Server!Responses
    BY MessageTypes
  <1> QED
    BY <1>1
    DEF Server!InitialCounters, Server!NoEntry, Server!Entry, Server!Entries,
        Server!Operations, Server!ErrorReply, Server!Responses,
        Server!ResponseTypes

\* The replica's process ends; the next one has answered nothing.
LEMMA CrashKeeps ==
    ASSUME Inv, Crash
    PROVE  Inv'
  <1>1. /\ restarts < MaxRestarts /\ restarts' = restarts + 1
        /\ up' = FALSE
        /\ counters' = Server!InitialCounters
        /\ lastReplies' = [c \in {Client} |-> Server!NoEntry]
        /\ status' = [k \in Connections |-> "closed"]
        /\ inbox' = [k \in Connections |-> <<>>]
        /\ outbox' = [k \in Connections |-> <<>>]
        /\ answered' = {}
        /\ UNCHANGED <<phase, cur, requestNum, asked, answers, calm>>
    BY DEF Crash, clientVars
  <1>2. restarts' \in Processes /\ restarts \in Processes /\ restarts \in Nat
    BY <1>1, PersistentAssumption DEF Inv, TypeOK, Processes
  <1>3. TypeOK'
    <2>1. /\ inbox' \in [Connections -> Seq(Server!Messages)]
          /\ outbox' \in [Connections -> Seq(Server!Responses)]
      BY <1>1
    <2> QED
      BY <1>1, <1>2, <2>1, EmptyReplica
      DEF Inv, TypeOK, Server!TypeOK, Server!Ids, Server!Statuses
  <1>4. CallInv'
    BY <1>1 DEF Inv, CallInv
  <1>5. counters'[Client] = 0 /\ lastReplies'[Client].num = 0
    BY <1>1, EmptyReplica
  <1>6. requestNum \in Nat \ {0}
    BY PersistentAssumption DEF Inv, TypeOK
  <1>7. answers[restarts'] = <<>>
    BY <1>1, <1>2 DEF Inv, FutureInv
  <1>8. TableInv' /\ CounterInv'
    BY <1>1, <1>5, <1>6, <1>7 DEF TableInv, CounterInv
  <1>9. FutureInv'
    BY <1>1, <1>2, PersistentAssumption DEF Inv, FutureInv, Processes
  <1>10. RequestInv'
    BY <1>1 DEF RequestInv
  <1>11. ExchangeInv'
    <2>1. cur # None => inbox'[cur] = <<>> /\ outbox'[cur] = <<>>
      BY <1>1 DEF Inv, TypeOK
    <2> QED
      BY <1>1, <2>1 DEF ExchangeInv, Quiet
  <1> QED
    BY <1>3, <1>4, <1>8, <1>9, <1>10, <1>11 DEF Inv

-----------------------------------------------------------------------------
(***************************************************************************)
(* The theorems.                                                           *)
(***************************************************************************)
\* What client and replica agree on, through every failure of either: the
\* inductive invariant.
THEOREM ExchangeInvariance == Spec => []Inv
<1>1. Init => Inv
  <2> SUFFICES ASSUME Init PROVE Inv
    OBVIOUS
  <2>0. /\ counters = Server!InitialCounters
        /\ lastReplies = [c \in {Client} |-> Server!NoEntry]
        /\ status = [k \in Connections |-> "closed"]
        /\ inbox = [k \in Connections |-> <<>>]
        /\ outbox = [k \in Connections |-> <<>>]
        /\ answered = {}
        /\ restarts = 0 /\ requestNum = 1 /\ asked = 0 /\ phase = "idle"
        /\ cur = None /\ answers = [p \in Processes |-> <<>>]
    BY DEF Init, Server!Init, Server!Ids
  <2>1. restarts \in Processes
    BY <2>0, PersistentAssumption DEF Processes
  <2>2. TypeOK
    <3>1. /\ inbox \in [Connections -> Seq(Server!Messages)]
          /\ outbox \in [Connections -> Seq(Server!Responses)]
          /\ answers \in [Processes -> Seq(Nat)]
      BY <2>0
    <3>2. requestNum \in 1..(MaxRequests + 1) /\ asked \in 0..MaxRequests
      BY <2>0, PersistentAssumption
    <3> QED
      BY <2>0, <2>1, <3>1, <3>2, EmptyReplica
      DEF Init, TypeOK, Server!TypeOK, Server!Ids, Server!Statuses, Phases
  <2>3. CallInv /\ ExchangeInv
    BY <2>0 DEF CallInv, ExchangeInv
  <2>4. counters[Client] = 0 /\ lastReplies[Client].num = 0
    BY <2>0, EmptyReplica
  <2>5. TableInv
    BY <2>0, <2>4 DEF TableInv
  <2>6. CounterInv /\ FutureInv
    BY <2>0, <2>1, <2>4 DEF CounterInv, FutureInv
  <2>7. RequestInv
    BY <2>0 DEF RequestInv
  <2> QED
    BY <2>2, <2>3, <2>5, <2>6, <2>7 DEF Inv
<1>2. Inv /\ [Next]_vars => Inv'
  <2> SUFFICES ASSUME Inv, [Next]_vars PROVE Inv'
    OBVIOUS
  <2> USE DEF serverVars, clientVars
  <2>1. CASE Call
    BY <2>1, CallKeeps
  <2>2. ASSUME NEW k \in Connections, OpenSucceeds(k) PROVE Inv'
    BY <2>2, OpenKeeps
  <2>3. CASE OpenFails
    <3>1. /\ phase' = "idle" /\ cur = None
          /\ up' \in BOOLEAN /\ calm' \in BOOLEAN
      BY <2>3 DEF OpenFails, Inv, CallInv, TypeOK
    <3> QED
      BY <2>3, <3>1, StateUnchanged DEF OpenFails
  <2>4. CASE WriteRequest
    BY <2>4, WriteKeeps
  <2>5. CASE ReadReply
    BY <2>5, ReplyKeeps
  <2>6. CASE ReadFails
    BY <2>6, FailInv DEF ReadFails
  <2>7. CASE Quit
    BY <2>7, QuitKeeps
  <2>8. ASSUME NEW k \in Connections, Handle(k) PROVE Inv'
    BY <2>8, RequestKeeps, ReplicaStepKeeps DEF Handle
  <2>9. ASSUME NEW k \in Connections, Break(k) PROVE Inv'
    BY <2>9, ReplicaStepKeeps DEF Break
  <2>10. CASE Crash
    BY <2>10, CrashKeeps
  <2>11. CASE Restart \/ Settle \/ UNCHANGED vars
    <3>1. up' \in BOOLEAN /\ calm' \in BOOLEAN
      BY <2>11 DEF Restart, Settle, vars, Inv, TypeOK
    <3> QED
      BY <2>11, <3>1, StateUnchanged DEF Restart, Settle, vars
  <2> QED
    BY <2>1, <2>2, <2>3, <2>4, <2>5, <2>6, <2>7, <2>8, <2>9, <2>10, <2>11
    DEF Next, CallerStep
<1> QED
  BY <1>1, <1>2, PTL DEF Spec

\* The types of the client's and of the replica's variables.
THEOREM TypeCorrect == Spec => []TypeOK
<1>1. Inv => TypeOK
  BY DEF Inv
<1> QED
  BY <1>1, ExchangeInvariance, PTL

\* OneExchange: the connection that ClientApp holds carries the exchange in
\* progress and nothing else, so a reply that _validate_reply would reject is
\* never read and the close in _drop_connection has nothing to flush that could
\* block.
THEOREM OneExchangeAtATime == Spec => []OneExchange
<1>1. Inv => OneExchange
  <2> SUFFICES ASSUME Inv, cur # None
               PROVE  /\ Len(inbox[cur]) + Len(outbox[cur]) <=
                             IF phase = "reading" THEN 1 ELSE 0
                      /\ \A i \in DOMAIN outbox[cur] :
                            ValidReply(outbox[cur][i])
    BY DEF OneExchange
  <2>1. CASE Quiet(cur)
    BY <2>1 DEF Quiet
  <2>2. CASE phase = "reading" /\ Written(cur)
    BY <2>2 DEF Written
  <2>3. CASE phase = "reading" /\ Answered(cur)
    <3>1. ValidReply(CurrentReply)
      BY DEF ValidReply, CurrentReply, Server!ClientReply
    <3> QED
      BY <2>3, <3>1 DEF Answered
  <2> QED
    BY <2>1, <2>2, <2>3 DEF Inv, ExchangeInv
<1> QED
  BY <1>1, ExchangeInvariance, PTL

-----------------------------------------------------------------------------
(***************************************************************************)
(* Refinement of CounterService, one counter per process of the replica.   *)
(***************************************************************************)
AskedMap == [p \in Processes |-> AskedOf(p)]

\* A first call of send_increment for a number is asked of the process that
\* runs, and a call that repeats one that failed changes nothing.
LEMMA CallAsks ==
    ASSUME Inv, Call
    PROVE  /\ UNCHANGED answers
           /\ \/ AskedMap' = AskedMap
              \/ /\ AskedMap[restarts] = Len(answers[restarts])
                 /\ AskedMap' = [AskedMap EXCEPT ![restarts] = @ + 1]
  <1>1. asked' = requestNum /\ UNCHANGED <<requestNum, answers, restarts>>
    BY DEF Call
  <1>2. /\ requestNum \in Nat \ {0}
        /\ asked \in {requestNum - 1, requestNum}
        /\ restarts \in Processes /\ Processes \subseteq Nat
        /\ \A p \in Processes : Len(answers[p]) \in Nat
    BY PersistentAssumption DEF Inv, TypeOK, CallInv, Processes
  <1>3. \A p \in Processes : p # restarts => AskedOf(p)' = AskedOf(p)
    BY <1>1, <1>2 DEF AskedOf
  <1>4. AskedOf(restarts)' = Len(answers[restarts]) + 1
    BY <1>1, <1>2 DEF AskedOf
  <1>5. CASE asked = requestNum
    <2>1. AskedOf(restarts) = Len(answers[restarts]) + 1
      BY <1>2, <1>5 DEF AskedOf
    <2>2. \A p \in Processes : AskedOf(p)' = AskedOf(p)
      BY <1>1, <1>3, <1>4, <2>1
    <2> QED
      BY <1>1, <2>2 DEF AskedMap
  <1>6. CASE asked = requestNum - 1
    <2>1. AskedOf(restarts) = Len(answers[restarts])
      BY <1>2, <1>6 DEF AskedOf
    <2> QED
      BY <1>1, <1>2, <1>3, <1>4, <2>1 DEF AskedMap
  <1> QED
    BY <1>2, <1>5, <1>6

\* A reply that is returned is the next value of the counter of the process
\* that runs, whose call was outstanding.
LEMMA ReplyAnswers ==
    ASSUME Inv, ReadReply
    PROVE  /\ AskedMap' = AskedMap
           /\ AskedMap[restarts] > Len(answers[restarts])
           /\ answers' = [answers EXCEPT ![restarts] =
                             Append(answers[restarts],
                                    Len(answers[restarts]) + 1)]
  <1>1. /\ phase = "reading" /\ outbox[cur] # <<>>
        /\ UNCHANGED <<up, restarts, calm>>
    BY DEF ReadReply
  <1>2. Answered(cur) /\ cur \in Connections
    BY <1>1, ReplyIsCurrent
  <1>3. Head(outbox[cur]) = CurrentReply
    BY <1>2 DEF Answered
  <1>4. ValidReply(CurrentReply) /\ CurrentReply.value = counters[Client]
    BY DEF ValidReply, CurrentReply, Server!ClientReply
  <1>5. /\ answers' = [answers EXCEPT ![restarts] =
                          Append(answers[restarts], counters[Client])]
        /\ requestNum' = requestNum + 1
        /\ UNCHANGED asked
    BY <1>3, <1>4 DEF ReadReply, Server!PeerReads
  <1>6. /\ asked = requestNum /\ requestNum \in Nat \ {0}
        /\ restarts \in Processes /\ Processes \subseteq Nat
        /\ answers \in [Processes -> Seq(Nat)]
        /\ counters[Client] \in Nat
    BY <1>1, Types, PersistentAssumption DEF Inv, TypeOK, CallInv, Processes
  <1>7. counters[Client] = Len(answers[restarts]) + 1
    BY <1>2 DEF Answered, Inv, CounterInv
  <1>8. /\ \A p \in Processes : p # restarts => answers'[p] = answers[p]
        /\ Len(answers'[restarts]) = Len(answers[restarts]) + 1
        /\ Len(answers[restarts]) \in Nat
    BY <1>5, <1>6
  <1>9. \A p \in Processes : p # restarts => AskedOf(p)' = AskedOf(p)
    BY <1>1, <1>6, <1>8 DEF AskedOf
  <1>10. /\ AskedOf(restarts) = Len(answers[restarts]) + 1
         /\ AskedOf(restarts)' = Len(answers[restarts]) + 1
    BY <1>1, <1>5, <1>6, <1>8 DEF AskedOf
  <1>11. AskedMap' = AskedMap
    <2>1. \A p \in Processes : AskedOf(p)' = AskedOf(p)
      BY <1>1, <1>9, <1>10
    <2> QED
      BY <2>1 DEF AskedMap
  <1> QED
    BY <1>5, <1>6, <1>7, <1>8, <1>10, <1>11 DEF AskedMap

\* A crash moves the outstanding call, or the next one, to the next process.
LEMMA CrashAsks ==
    ASSUME Inv, Crash
    PROVE  /\ UNCHANGED answers
           /\ \E p \in Processes :
                 /\ AskedMap[p] = Len(answers[p])
                 /\ AskedMap' = [AskedMap EXCEPT ![p] = @ + 1]
  <1>1. /\ restarts < MaxRestarts /\ restarts' = restarts + 1
        /\ UNCHANGED <<requestNum, asked, answers>>
    BY DEF Crash, clientVars
  <1>2. /\ requestNum \in Nat \ {0}
        /\ asked \in {requestNum - 1, requestNum}
        /\ restarts \in Processes /\ restarts + 1 \in Processes
        /\ Processes \subseteq Nat
        /\ \A p \in Processes : Len(answers[p]) \in Nat
    BY <1>1, PersistentAssumption DEF Inv, TypeOK, CallInv, Processes
  <1>3. PICK q \in Processes : q = restarts
    BY <1>2
  <1>4. /\ q \in Nat /\ q + 1 \in Processes
        /\ Len(answers[q + 1]) = 0 /\ Len(answers[q]) \in Nat
    BY <1>2, <1>3 DEF Inv, FutureInv
  <1>5. \A p \in Processes : p \notin {q, q + 1} => AskedOf(p)' = AskedOf(p)
    <2> SUFFICES ASSUME NEW p \in Processes, p # q, p # q + 1
                 PROVE  AskedOf(p)' = AskedOf(p)
      OBVIOUS
    <2>0. p \in Nat /\ restarts' = q + 1 /\ answers' = answers
      BY <1>1, <1>2, <1>3
    <2>1. CASE p < q
      <3>1. ~(restarts < p) /\ restarts # p /\ ~(restarts' < p) /\ restarts' # p
        BY <1>3, <1>4, <2>0, <2>1
      <3> QED
        BY <2>0, <3>1 DEF AskedOf
    <2>2. CASE p > q + 1
      <3>1. restarts < p /\ restarts' < p
        BY <1>3, <1>4, <2>0, <2>2
      <3> QED
        BY <3>1 DEF AskedOf
    <2> QED
      BY <1>4, <2>0, <2>1, <2>2
  <1>6. AskedOf(q)' = Len(answers[q]) + 1 /\ AskedOf(q + 1) = 0
    BY <1>1, <1>3, <1>4 DEF AskedOf
  <1>7. CASE asked = requestNum - 1
    <2>1. AskedOf(q) = Len(answers[q]) /\ AskedOf(q + 1)' = 0
      BY <1>1, <1>2, <1>3, <1>4, <1>7 DEF AskedOf
    <2>2. /\ AskedMap[q] = Len(answers[q])
          /\ AskedMap' = [AskedMap EXCEPT ![q] = @ + 1]
      BY <1>4, <1>5, <1>6, <2>1 DEF AskedMap
    <2> QED
      BY <1>1, <2>2
  <1>8. CASE asked = requestNum
    <2>1. AskedOf(q) = Len(answers[q]) + 1 /\ AskedOf(q + 1)' = 1
      BY <1>1, <1>2, <1>3, <1>4, <1>8 DEF AskedOf
    <2>2. PICK n \in Processes : n = q + 1
      BY <1>4
    <2>3. /\ \A p \in Processes : p # n => AskedOf(p)' = AskedOf(p)
          /\ AskedOf(n) = Len(answers[n]) /\ AskedOf(n)' = AskedOf(n) + 1
      BY <1>4, <1>5, <1>6, <2>1, <2>2
    <2>4. /\ AskedMap[n] = Len(answers[n])
          /\ AskedMap' = [AskedMap EXCEPT ![n] = @ + 1]
      BY <2>3 DEF AskedMap
    <2> QED
      BY <1>1, <2>4
  <1> QED
    BY <1>2, <1>7, <1>8

\* ImplementsService: whatever fails and however often the loop of
\* send_increment repeats a request, every process of the replica is to its
\* client a counter that answers each call once.
THEOREM ServiceImplemented == Spec => ImplementsService
<1> USE DEF serverVars, clientVars
<1>1. Init => Service!Init
  <2> SUFFICES ASSUME Init PROVE Service!Init
    OBVIOUS
  <2>1. \A p \in Processes : AskedOf(p) = 0
    BY PersistentAssumption DEF Init, AskedOf, Processes
  <2> QED
    BY <2>1 DEF Init, Service!Init
<1>2. Inv /\ [Next]_vars => [Service!Next]_Service!vars
  <2> SUFFICES ASSUME Inv, [Next]_vars
               PROVE  [Service!Next]_Service!vars
    OBVIOUS
  <2>1. restarts \in Processes
    BY DEF Inv, TypeOK
  <2>2. ASSUME AskedMap' = AskedMap, UNCHANGED answers
        PROVE  UNCHANGED Service!vars
    BY <2>2 DEF Service!vars, AskedMap
  <2>3. ASSUME NEW p \in Processes, AskedMap[p] = Len(answers[p]),
               AskedMap' = [AskedMap EXCEPT ![p] = @ + 1], UNCHANGED answers
        PROVE  Service!Next
    <3>1. Service!Ask(p)
      BY <2>3 DEF Service!Ask, AskedMap
    <3> QED
      BY <3>1 DEF Service!Next
  <2>4. CASE Call
    BY <2>1, <2>2, <2>3, <2>4, CallAsks
  <2>5. CASE ReadReply
    <3>1. Service!Answer(restarts)
      BY <2>5, ReplyAnswers DEF Service!Answer, AskedMap
    <3> QED
      BY <2>1, <3>1 DEF Service!Next
  <2>6. CASE Crash
    BY <2>3, <2>6, CrashAsks
  <2>7. ASSUME UNCHANGED <<asked, requestNum, restarts, answers>>
        PROVE  UNCHANGED Service!vars
    <3>1. AskedMap' = AskedMap
      BY <2>7 DEF AskedMap, AskedOf
    <3> QED
      BY <2>2, <2>7, <3>1
  <2>8. CASE OpenFails \/ WriteRequest \/ ReadFails \/ Quit \/ Restart \/ Settle
    BY <2>7, <2>8
    DEF OpenFails, WriteRequest, ReadFails, Fail, Quit, Restart, Settle
  <2>9. ASSUME NEW k \in Connections, OpenSucceeds(k) \/ Handle(k) \/ Break(k)
        PROVE  UNCHANGED Service!vars
    BY <2>7, <2>9 DEF OpenSucceeds, Handle, Break
  <2>10. CASE UNCHANGED vars
    BY <2>7, <2>10 DEF vars
  <2> QED
    BY <2>4, <2>5, <2>6, <2>8, <2>9, <2>10 DEF Next, CallerStep
<1> QED
  BY <1>1, <1>2, ExchangeInvariance, PTL
  DEF Spec, ImplementsService, Service!Spec
=============================================================================
