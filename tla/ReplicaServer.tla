---------------------------- MODULE ReplicaServer ----------------------------
(***************************************************************************)
(* The client port of one replica: ClientListener.handle of                *)
(* src/ft_system/server/app.py, one handler per connection, all of them    *)
(* over the same reply table and the same state machine.                   *)
(*                                                                         *)
(* Nothing is assumed of the peers.  Any connection may carry requests of  *)
(* any client, configured or not, with any number, in any order, on        *)
(* several connections at once (a client that reconnects leaves its old    *)
(* connection with requests that are still to be read), or messages that   *)
(* are no requests.                                                        *)
(***************************************************************************)
EXTENDS ClientListener, Sequences, FiniteSets

CONSTANTS
    Strangers,      \* client ids the replica is not configured with
    Connections,    \* identities of connections, reused after a close
    MaxNum,         \* bound: the largest request number
    MaxQueue        \* bound: messages unread in one direction

ASSUME StrangersAssumption == Strangers \cap Clients = {}

ASSUME ServerBoundsAssumption == MaxNum \in Nat /\ MaxQueue \in Nat

VARIABLES
    counters,       \* DeterministicStateMachine._state
    lastReplies,    \* ClientListener._last_replies
    status,         \* where the handler of a connection is
    inbox,          \* messages written to a connection and unread
    outbox,         \* responses written and not yet received
    answered        \* history: <<client, number, value>> of every reply

vars == <<counters, lastReplies, status, inbox, outbox, answered>>

Ids == Clients \cup Strangers

Requests == [client : Ids, num : 1..MaxNum, op : Operations]

(***************************************************************************)
(* What read_message makes of the next line: a request for this replica, a *)
(* valid message of another type or for another replica ("misaddressed"),  *)
(* a ProtocolError ("malformed") or the end of the stream ("eof").         *)
(***************************************************************************)
Kinds == {"request", "misaddressed", "malformed", "eof"}

Messages == [kind : {"request"}, request : Requests]
                \cup [kind : Kinds \ {"request"}]

\* "reading" loops in handle, "closing" is in its final close_writer.
Statuses == {"closed", "reading", "closing"}

TypeOK ==
    /\ counters \in [Clients -> Nat]
    /\ lastReplies \in [Ids -> Entries]
    /\ status \in [Connections -> Statuses]
    /\ inbox \in [Connections -> Seq(Messages)]
    /\ outbox \in [Connections -> Seq(Responses)]
    /\ answered \subseteq Clients \X Nat \X Nat

Init ==
    /\ counters = InitialCounters
    /\ lastReplies = [c \in Ids |-> NoEntry]
    /\ status = [k \in Connections |-> "closed"]
    /\ inbox = [k \in Connections |-> <<>>]
    /\ outbox = [k \in Connections |-> <<>>]
    /\ answered = {}

-----------------------------------------------------------------------------
(***************************************************************************)
(* The peers (external).                                                   *)
(***************************************************************************)
Accept(k) ==
    /\ status[k] = "closed"
    /\ status' = [status EXCEPT ![k] = "reading"]
    /\ inbox' = [inbox EXCEPT ![k] = <<>>]
    /\ outbox' = [outbox EXCEPT ![k] = <<>>]
    /\ UNCHANGED <<counters, lastReplies, answered>>

PeerWrites(k, message) ==
    /\ status[k] = "reading"
    /\ Len(inbox[k]) < MaxQueue
    /\ \A i \in 1..Len(inbox[k]) : inbox[k][i].kind # "eof"
    /\ inbox' = [inbox EXCEPT ![k] = Append(@, message)]
    /\ UNCHANGED <<counters, lastReplies, status, outbox, answered>>

PeerReads(k) ==
    /\ status[k] # "closed"
    /\ outbox[k] # <<>>
    /\ outbox' = [outbox EXCEPT ![k] = Tail(@)]
    /\ UNCHANGED <<counters, lastReplies, status, inbox, answered>>

-----------------------------------------------------------------------------
(***************************************************************************)
(* The handler.  A drain that is suspended (outbox full) holds it up.      *)
(***************************************************************************)
Reads(k, kinds) ==
    /\ status[k] = "reading"
    /\ Len(outbox[k]) < MaxQueue
    /\ inbox[k] # <<>>
    /\ Head(inbox[k]).kind \in kinds
    /\ inbox' = [inbox EXCEPT ![k] = Tail(@)]

\* One call of _process, and its response on this connection.
HandleRequest(k) ==
    /\ Reads(k, {"request"})
    /\ LET request == Head(inbox[k]).request
           entry == lastReplies[request.client]
           response == Response(counters, entry, request)
       IN  /\ counters' = CountersAfter(counters, entry, request)
           /\ lastReplies' = [lastReplies EXCEPT ![request.client] =
                                 EntryAfter(counters, entry, request)]
           /\ outbox' = [outbox EXCEPT ![k] = Append(@, response)]
           /\ answered' = IF response.type = "client_reply"
                          THEN answered \cup {<<request.client, request.num,
                                                response.value>>}
                          ELSE answered
    /\ UNCHANGED status

\* Answered with an error, then the handler returns.
HandleMisaddressed(k) ==
    /\ Reads(k, {"misaddressed"})
    /\ outbox' = [outbox EXCEPT ![k] =
                     Append(@, ErrorReply("invalid_client_message"))]
    /\ status' = [status EXCEPT ![k] = "closing"]
    /\ UNCHANGED <<counters, lastReplies, answered>>

\* EOFError or ProtocolError: the handler ends without a word.  (So it does
\* when build_error refuses the request id it should echo; "malformed" stands
\* for such a message too.)
HandleEnd(k) ==
    /\ Reads(k, {"eof", "malformed"})
    /\ status' = [status EXCEPT ![k] = "closing"]
    /\ UNCHANGED <<counters, lastReplies, outbox, answered>>

\* The peer is gone: a read or a drain raises ConnectionError.
ConnectionReset(k) ==
    /\ status[k] # "closed"
    /\ status' = [status EXCEPT ![k] = "closing"]
    /\ outbox' = [outbox EXCEPT ![k] = <<>>]
    /\ UNCHANGED <<counters, lastReplies, inbox, answered>>

\* close_writer returns once everything written is flushed.
CloseWriter(k) ==
    /\ status[k] = "closing"
    /\ outbox[k] = <<>>
    /\ status' = [status EXCEPT ![k] = "closed"]
    /\ UNCHANGED <<counters, lastReplies, inbox, outbox, answered>>

Next ==
    \E k \in Connections :
        \/ Accept(k)
        \/ \E message \in Messages : PeerWrites(k, message)
        \/ PeerReads(k)
        \/ HandleRequest(k)
        \/ HandleMisaddressed(k)
        \/ HandleEnd(k)
        \/ ConnectionReset(k)
        \/ CloseWriter(k)

Spec == Init /\ [][Next]_vars

-----------------------------------------------------------------------------
\* A request has one value for ever: however often <<client, number>> is sent
\* and on whichever connection, _process never answers it with two values.
OneValuePerRequest ==
    \A a, b \in answered :
        a[1] = b[1] /\ a[2] = b[2] => a[3] = b[3]

\* A client's values follow its numbers: a later number is answered with a
\* larger value, also when numbers are skipped or arrive out of order.
ValuesFollowNumbers ==
    \A a, b \in answered :
        a[1] = b[1] /\ a[2] < b[2] => a[3] < b[3]

\* A counter counts the distinct requests that were answered for its client,
\* and nothing else: no error path, replay or other client moves it.
CounterCountsRequests ==
    \A c \in Clients :
        counters[c] = Cardinality({a[2] : a \in {b \in answered : b[1] = c}})
=============================================================================
