------------------------- MODULE ReplicaServerProofs -------------------------
(***************************************************************************)
(* The client port of a replica answers every request with one value, in   *)
(* the order of the numbers, for every set of clients, strangers and       *)
(* connections and every bound.                                            *)
(***************************************************************************)
EXTENDS ReplicaServer, ClientListenerProofs, FiniteSetTheorems

(***************************************************************************)
(* The inductive invariant.  Every answer is at most as recent as the      *)
(* client's entry of the reply table, the entry holds the reply to the     *)
(* last request executed, and that reply carries the counter.              *)
(***************************************************************************)
EntryInv ==
    \A c \in Clients :
        LET entry == lastReplies[c] IN
        entry.num > 0 =>
            /\ entry.op = "increment"
            /\ entry.reply = ClientReply(entry.num, counters[c])
            /\ <<c, entry.num, counters[c]>> \in answered

StrangerInv == \A c \in Strangers : lastReplies[c].num = 0

AnsweredInv ==
    \A a \in answered :
        /\ a[2] >= 1
        /\ a[2] <= lastReplies[a[1]].num
        /\ a[3] <= counters[a[1]]
        /\ a[2] = lastReplies[a[1]].num => a[3] = counters[a[1]]

\* The numbers answered for a client; CounterCountsRequests counts them.
Numbers(c) == {a[2] : a \in {b \in answered : b[1] = c}}

CountInv ==
    \A c \in Clients : /\ IsFiniteSet(Numbers(c))
                       /\ counters[c] = Cardinality(Numbers(c))

Inv == /\ TypeOK
       /\ CountInv
       /\ EntryInv
       /\ StrangerInv
       /\ AnsweredInv
       /\ OneValuePerRequest
       /\ ValuesFollowNumbers

-----------------------------------------------------------------------------
\* Reading a message leaves the rest of the inbox in place.
LEMMA ReadsType ==
    ASSUME TypeOK, NEW k \in Connections, NEW kinds, Reads(k, kinds)
    PROVE  /\ inbox' \in [Connections -> Seq(Messages)]
           /\ Head(inbox[k]) \in Messages
           /\ Head(inbox[k]).kind \in kinds
<1>1. inbox[k] \in Seq(Messages) /\ inbox[k] # <<>>
  BY DEF TypeOK, Reads
<1>2. Head(inbox[k]) \in Messages /\ Tail(inbox[k]) \in Seq(Messages)
  BY <1>1
<1> QED
  BY <1>2 DEF TypeOK, Reads

\* The request of a message that is one.
LEMMA RequestOfMessage ==
    ASSUME NEW m \in Messages, m.kind \in {"request"}
    PROVE  /\ m.request \in Requests
           /\ m.request \in [client : Ids, num : Nat, op : Operations]
<1>1. m.request \in Requests
  BY DEF Messages, Kinds
<1> QED
  BY <1>1, ServerBoundsAssumption DEF Requests

\* What one call of _process does, given the invariant: it executes a new
\* number of a configured client, repeats the last answer of one, or leaves
\* the tables and the history alone.
LEMMA HandleRequestOutcome ==
    ASSUME Inv, NEW k \in Connections, HandleRequest(k)
    PROVE  \/ \E c \in Clients, n \in Nat :
                 /\ n > lastReplies[c].num
                 /\ counters' = [counters EXCEPT ![c] = @ + 1]
                 /\ lastReplies' = [lastReplies EXCEPT ![c] =
                       Entry(n, "increment", ClientReply(n, counters[c] + 1))]
                 /\ answered' = answered \cup {<<c, n, counters[c] + 1>>}
           \/ UNCHANGED <<counters, lastReplies, answered>>
<1> DEFINE request == Head(inbox[k]).request
           entry == lastReplies[request.client]
           response == Response(counters, entry, request)
<1>1. /\ request \in [client : Ids, num : Nat, op : Operations]
      /\ request \in Requests
  BY ReadsType, RequestOfMessage DEF HandleRequest, Inv
<1>2. entry \in Entries /\ counters \in [Clients -> Nat] /\ request.num >= 1
  BY <1>1, ServerBoundsAssumption DEF Inv, TypeOK, Requests
<1>3. /\ counters' = CountersAfter(counters, entry, request)
      /\ lastReplies' = [lastReplies EXCEPT ![request.client] =
                            EntryAfter(counters, entry, request)]
      /\ answered' = IF response.type = "client_reply"
                     THEN answered \cup {<<request.client, request.num,
                                           response.value>>}
                     ELSE answered
  BY DEF HandleRequest
<1>4. lastReplies = [lastReplies EXCEPT ![request.client] = entry]
  BY <1>1 DEF Inv, TypeOK
<1> HIDE DEF request
<1>5. CASE IsNew(entry, request) /\ Supported(request)
  <2>1. /\ request.client \in Clients /\ request.num \in Nat
        /\ request.num > entry.num
        /\ request = Request(request.client, request.num, "increment")
    BY <1>1, <1>5 DEF Supported, IsNew, Request
  <2>2. response = ClientReply(request.num, counters[request.client] + 1)
    BY <1>5 DEF Response
  <2>3. /\ CountersAfter(counters, entry, request)
              = [counters EXCEPT ![request.client] = @ + 1]
        /\ EntryAfter(counters, entry, request)
              = Entry(request.num, "increment", response)
    BY <1>5 DEF CountersAfter, EntryAfter, Executes, Supported
  <2>4. /\ response.type = "client_reply"
        /\ response.value = counters[request.client] + 1
    BY <2>2 DEF ClientReply
  <2> QED
    BY <1>3, <2>1, <2>2, <2>3, <2>4
<1>6. CASE IsNew(entry, request) /\ ~Supported(request)
  <2>1. /\ response = ApplyError(request)
        /\ CountersAfter(counters, entry, request) = counters
        /\ EntryAfter(counters, entry, request) = entry
    BY <1>6 DEF Response, CountersAfter, EntryAfter, Executes
  <2>2. response.type # "client_reply"
    BY <2>1 DEF ApplyError, ErrorReply
  <2> QED
    BY <1>3, <1>4, <2>1, <2>2
<1>7. CASE ~IsNew(entry, request) /\ IsReplay(entry, request)
  <2>1. /\ response = entry.reply
        /\ CountersAfter(counters, entry, request) = counters
        /\ EntryAfter(counters, entry, request) = entry
    BY <1>7 DEF Response, CountersAfter, EntryAfter, Executes
  <2>2. entry.num > 0 /\ request.num = entry.num
    BY <1>1, <1>2, <1>7 DEF IsReplay
  <2>3. request.client \in Clients
    BY <1>1, <2>2 DEF Inv, StrangerInv, Ids
  <2>4. /\ entry.reply = ClientReply(entry.num, counters[request.client])
        /\ <<request.client, entry.num, counters[request.client]>> \in answered
    BY <2>2, <2>3 DEF Inv, EntryInv
  <2>5. answered' = answered
    BY <1>3, <2>1, <2>2, <2>4 DEF ClientReply
  <2> QED
    BY <1>3, <1>4, <2>1, <2>5
<1>8. CASE ~IsNew(entry, request) /\ ~IsReplay(entry, request)
  <2>1. /\ response = ErrorReply("stale_request")
        /\ CountersAfter(counters, entry, request) = counters
        /\ EntryAfter(counters, entry, request) = entry
    BY <1>8 DEF Response, CountersAfter, EntryAfter, Executes
  <2>2. response.type # "client_reply"
    BY <2>1 DEF ErrorReply
  <2> QED
    BY <1>3, <1>4, <2>1, <2>2
<1> QED
  BY <1>5, <1>6, <1>7, <1>8

\* Executing a new number keeps the part of the invariant about the tables
\* and the history.
LEMMA ExecutePreserves ==
    ASSUME Inv, NEW c \in Clients, NEW n \in Nat,
           n > lastReplies[c].num,
           counters' = [counters EXCEPT ![c] = @ + 1],
           lastReplies' = [lastReplies EXCEPT ![c] =
               Entry(n, "increment", ClientReply(n, counters[c] + 1))],
           answered' = answered \cup {<<c, n, counters[c] + 1>>}
    PROVE  /\ counters' \in [Clients -> Nat]
           /\ lastReplies' \in [Ids -> Entries]
           /\ answered' \subseteq Clients \X Nat \X Nat
           /\ EntryInv' /\ StrangerInv' /\ AnsweredInv'
           /\ OneValuePerRequest' /\ ValuesFollowNumbers' /\ CountInv'
<1> DEFINE new == <<c, n, counters[c] + 1>>
<1>1. /\ counters \in [Clients -> Nat] /\ lastReplies \in [Ids -> Entries]
      /\ answered \subseteq Clients \X Nat \X Nat
      /\ c \in Ids
  BY DEF Inv, TypeOK, Ids
<1>2. /\ lastReplies'[c].num = n /\ lastReplies'[c].op = "increment"
      /\ lastReplies'[c].reply = ClientReply(n, counters[c] + 1)
      /\ counters'[c] = counters[c] + 1
      /\ \A d \in Ids \ {c} : lastReplies'[d] = lastReplies[d]
      /\ \A d \in Clients \ {c} : counters'[d] = counters[d]
  BY <1>1 DEF Entry
<1>3. counters' \in [Clients -> Nat]
  BY <1>1
<1>4. lastReplies' \in [Ids -> Entries]
  BY <1>1 DEF Entry, Entries, ClientReply, Responses, ResponseTypes, Operations
<1>5. answered' \subseteq Clients \X Nat \X Nat
  BY <1>1
<1>6. n \in Nat /\ lastReplies[c].num \in Nat /\ n >= 1
  BY <1>1 DEF Entries
<1>7. EntryInv'
  <2> SUFFICES ASSUME NEW d \in Clients, lastReplies'[d].num > 0
               PROVE  /\ lastReplies'[d].op = "increment"
                      /\ lastReplies'[d].reply
                            = ClientReply(lastReplies'[d].num, counters'[d])
                      /\ <<d, lastReplies'[d].num, counters'[d]>> \in answered'
    BY DEF EntryInv
  <2>1. CASE d = c
    BY <1>2, <2>1
  <2>2. CASE d # c
    <3>1. lastReplies'[d] = lastReplies[d] /\ counters'[d] = counters[d]
      BY <1>2, <2>2 DEF Ids
    <3> QED
      BY <3>1 DEF Inv, EntryInv
  <2> QED
    BY <2>1, <2>2
<1>8. StrangerInv'
  <2>1. \A d \in Strangers : d \in Ids \ {c}
    BY StrangersAssumption DEF Ids
  <2> QED
    BY <1>2, <2>1 DEF Inv, StrangerInv
<1>9. ASSUME NEW a \in answered
      PROVE  /\ a[1] \in Clients /\ a[2] \in Nat /\ a[3] \in Nat
             /\ a[2] >= 1
             /\ a[2] <= lastReplies[a[1]].num
             /\ a[3] <= counters[a[1]]
  BY <1>1, <1>9 DEF Inv, AnsweredInv
<1>10. ASSUME NEW a \in answered, a[1] = c
       PROVE  a[2] < n /\ a[3] < counters[c] + 1
  BY <1>1, <1>6, <1>9, <1>10
<1>11. new[1] = c /\ new[2] = n /\ new[3] = counters[c] + 1
  OBVIOUS
<1>12. AnsweredInv'
  <2> SUFFICES ASSUME NEW a \in answered'
               PROVE  /\ a[2] >= 1
                      /\ a[2] <= lastReplies'[a[1]].num
                      /\ a[3] <= counters'[a[1]]
                      /\ a[2] = lastReplies'[a[1]].num => a[3] = counters'[a[1]]
    BY DEF AnsweredInv
  <2>1. CASE a = new
    BY <1>1, <1>2, <1>6, <2>1
  <2>2. CASE a \in answered /\ a[1] = c
    BY <1>1, <1>2, <1>6, <1>9, <1>10, <2>2
  <2>3. CASE a \in answered /\ a[1] # c
    <3>1. a[1] \in Clients /\ a[1] \in Ids \ {c}
      BY <1>9, <2>3 DEF Ids
    <3>2. lastReplies'[a[1]] = lastReplies[a[1]] /\ counters'[a[1]] = counters[a[1]]
      BY <1>2, <3>1
    <3> QED
      BY <2>3, <3>2 DEF Inv, AnsweredInv
  <2> QED
    BY <2>1, <2>2, <2>3
<1>13. OneValuePerRequest'
  <2> SUFFICES ASSUME NEW a \in answered', NEW b \in answered',
                      a[1] = b[1], a[2] = b[2]
               PROVE  a[3] = b[3]
    BY DEF OneValuePerRequest
  <2>1. CASE a \in answered /\ b \in answered
    BY <2>1 DEF Inv, OneValuePerRequest
  <2>2. CASE a = new /\ b \in answered
    BY <1>6, <1>9, <1>10, <1>11, <2>2
  <2>3. CASE a \in answered /\ b = new
    BY <1>6, <1>9, <1>10, <1>11, <2>3
  <2> QED
    BY <2>1, <2>2, <2>3
<1>14. ValuesFollowNumbers'
  <2> SUFFICES ASSUME NEW a \in answered', NEW b \in answered',
                      a[1] = b[1], a[2] < b[2]
               PROVE  a[3] < b[3]
    BY DEF ValuesFollowNumbers
  <2>1. CASE a \in answered /\ b \in answered
    BY <2>1 DEF Inv, ValuesFollowNumbers
  <2>2. CASE a = new /\ b \in answered
    BY <1>6, <1>9, <1>10, <1>11, <2>2
  <2>3. CASE a \in answered /\ b = new
    BY <1>6, <1>9, <1>10, <1>11, <2>3
  <2>4. CASE a = new /\ b = new
    BY <1>6, <1>11, <2>4
  <2> QED
    BY <2>1, <2>2, <2>3, <2>4
<1>15. CountInv'
  <2>1. /\ IsFiniteSet(Numbers(c))
        /\ counters[c] = Cardinality(Numbers(c))
    BY DEF Inv, CountInv
  <2>2. n \notin Numbers(c)
    BY <1>6, <1>9, <1>10 DEF Numbers
  <2>3. Numbers(c)' = Numbers(c) \cup {n}
    BY <1>11 DEF Numbers
  <2>4. /\ IsFiniteSet(Numbers(c)')
        /\ Cardinality(Numbers(c)') = Cardinality(Numbers(c)) + 1
    BY <2>1, <2>2, <2>3, FS_AddElement
  <2>5. ASSUME NEW d \in Clients, d # c
        PROVE  /\ IsFiniteSet(Numbers(d)')
               /\ counters'[d] = Cardinality(Numbers(d)')
    <3>1. Numbers(d)' = Numbers(d)
      BY <1>11, <2>5 DEF Numbers
    <3> QED
      BY <1>2, <2>5, <3>1 DEF Inv, CountInv
  <2>6. ASSUME NEW d \in Clients
        PROVE  (IsFiniteSet(Numbers(d)) /\ counters[d] = Cardinality(Numbers(d)))'
    <3>1. CASE d = c
      BY <1>2, <2>1, <2>4, <3>1
    <3> QED
      BY <2>5, <3>1
  <2> QED
    BY <2>6 DEF CountInv
<1> QED
  BY <1>3, <1>4, <1>5, <1>7, <1>8, <1>12, <1>13, <1>14, <1>15

\* The inductive invariant holds in every reachable state.
THEOREM Invariance == Spec => []Inv
<1>1. Init => Inv
  <2> SUFFICES ASSUME Init PROVE Inv
    OBVIOUS
  <2>1. \A c \in Clients : Numbers(c) = {} /\ counters[c] = 0
    BY DEF Init, Numbers, InitialCounters
  <2>2. CountInv
    BY <2>1, FS_EmptySet DEF CountInv
  <2> QED
    BY <2>2 DEF Init, Inv, TypeOK, InitialCounters, NoEntry, Entry, Entries,
           Operations, ErrorReply, Responses, ResponseTypes, Statuses, EntryInv,
           StrangerInv, AnsweredInv, OneValuePerRequest, ValuesFollowNumbers, Ids
<1>2. Inv /\ [Next]_vars => Inv'
  <2> SUFFICES ASSUME Inv, [Next]_vars
               PROVE  Inv'
    OBVIOUS
  <2> USE DEF Inv
  <2> DEFINE Tables == <<counters, lastReplies, answered>>
  <2>1. ASSUME UNCHANGED Tables, TypeOK'
        PROVE  Inv'
    BY <2>1 DEF EntryInv, StrangerInv, AnsweredInv, OneValuePerRequest,
                ValuesFollowNumbers, CountInv, Numbers
  <2>2. CASE UNCHANGED vars
    BY <2>1, <2>2 DEF TypeOK, vars
  <2>3. ASSUME NEW k \in Connections, Accept(k)
        PROVE  Inv'
    BY <2>1, <2>3 DEF TypeOK, Accept, Statuses
  <2>4. ASSUME NEW k \in Connections, NEW m \in Messages, PeerWrites(k, m)
        PROVE  Inv'
    <3>1. Append(inbox[k], m) \in Seq(Messages)
      BY DEF TypeOK
    <3> QED
      BY <2>1, <2>4, <3>1 DEF TypeOK, PeerWrites
  <2>5. ASSUME NEW k \in Connections, PeerReads(k)
        PROVE  Inv'
    <3>1. outbox[k] \in Seq(Responses) /\ outbox[k] # <<>>
      BY <2>5 DEF TypeOK, PeerReads
    <3>2. Tail(outbox[k]) \in Seq(Responses)
      BY <3>1
    <3> QED
      BY <2>1, <2>5, <3>2 DEF TypeOK, PeerReads
  <2>6. ASSUME NEW k \in Connections, HandleRequest(k)
        PROVE  Inv'
    <3> DEFINE request == Head(inbox[k]).request
               entry == lastReplies[request.client]
    <3>1. Reads(k, {"request"})
      BY <2>6 DEF HandleRequest
    <3>2. /\ request \in [client : Ids, num : Nat, op : Operations]
          /\ inbox' \in [Connections -> Seq(Messages)]
      BY <3>1, ReadsType, RequestOfMessage
    <3>3. entry \in Entries /\ counters \in [Clients -> Nat]
      BY <3>2 DEF TypeOK
    <3>4. Response(counters, entry, request) \in Responses
      <4> HIDE DEF request, entry
      <4> QED
        BY <3>2, <3>3, ResponseType
    <3>5. /\ status' \in [Connections -> Statuses]
          /\ outbox' \in [Connections -> Seq(Responses)]
      BY <2>6, <3>4 DEF TypeOK, HandleRequest
    <3>6. CASE UNCHANGED Tables
      BY <2>1, <3>2, <3>5, <3>6 DEF TypeOK
    <3>7. ASSUME NEW c \in Clients, NEW n \in Nat,
                 n > lastReplies[c].num,
                 counters' = [counters EXCEPT ![c] = @ + 1],
                 lastReplies' = [lastReplies EXCEPT ![c] =
                     Entry(n, "increment", ClientReply(n, counters[c] + 1))],
                 answered' = answered \cup {<<c, n, counters[c] + 1>>}
          PROVE  Inv'
      BY <3>2, <3>5, <3>7, ExecutePreserves DEF TypeOK
    <3> QED
      BY <2>6, <3>6, <3>7, HandleRequestOutcome
  <2>7. ASSUME NEW k \in Connections, HandleMisaddressed(k)
        PROVE  Inv'
    <3>1. Append(outbox[k], ErrorReply("invalid_client_message"))
              \in Seq(Responses)
      BY DEF TypeOK, ErrorReply, Responses, ResponseTypes
    <3>2. inbox' \in [Connections -> Seq(Messages)]
      BY <2>7, ReadsType DEF HandleMisaddressed
    <3> QED
      BY <2>1, <2>7, <3>1, <3>2 DEF TypeOK, HandleMisaddressed, Statuses
  <2>8. ASSUME NEW k \in Connections, HandleEnd(k)
        PROVE  Inv'
    <3>1. inbox' \in [Connections -> Seq(Messages)]
      BY <2>8, ReadsType DEF HandleEnd
    <3> QED
      BY <2>1, <2>8, <3>1 DEF TypeOK, HandleEnd, Statuses
  <2>9. ASSUME NEW k \in Connections, ConnectionReset(k)
        PROVE  Inv'
    BY <2>1, <2>9 DEF TypeOK, ConnectionReset, Statuses
  <2>10. ASSUME NEW k \in Connections, CloseWriter(k)
         PROVE  Inv'
    BY <2>1, <2>10 DEF TypeOK, CloseWriter, Statuses
  <2> QED
    BY <2>2, <2>3, <2>4, <2>5, <2>6, <2>7, <2>8, <2>9, <2>10 DEF Next
<1> QED
  BY <1>1, <1>2, PTL DEF Spec

\* Type correctness of the client port.
THEOREM TypeCorrect == Spec => []TypeOK
BY Invariance, PTL DEF Inv

\* Whatever peers send, in whatever order and on however many connections, no
\* request is ever answered with two values.
THEOREM RequestHasOneValue == Spec => []OneValuePerRequest
BY Invariance, PTL DEF Inv

\* A client's counter is the number of distinct requests answered for it.
THEOREM CounterExact == Spec => []CounterCountsRequests
<1>1. Inv => CounterCountsRequests
  BY DEF Inv, CountInv, Numbers, CounterCountsRequests
<1> QED
  BY <1>1, Invariance, PTL

\* A client's later number is always answered with a larger value.
THEOREM ValuesOrdered == Spec => []ValuesFollowNumbers
BY Invariance, PTL DEF Inv
=============================================================================
