--------------------------- MODULE ClientListener ---------------------------
(***************************************************************************)
(* The request handler of one server replica: class ClientListener of      *)
(* src/ft_system/server/app.py over the DeterministicStateMachine of       *)
(* src/ft_system/server/state_machine.py, as operators on their state.     *)
(*                                                                         *)
(* A replica keeps one counter per configured client and, per client, the  *)
(* number, the operation and the reply of the last request it executed.    *)
(* _process holds no await between taking _processing_lock and leaving it, *)
(* so processing one request is one step wherever it is used.              *)
(***************************************************************************)
EXTENDS Naturals

CONSTANT Clients    \* the client ids a replica is configured with

ASSUME ClientsAssumption == Clients # {}

(***************************************************************************)
(* Messages.  An error carries no request_num; a client that reads the     *)
(* field gets the default 0 (client/active.py, _receive).                  *)
(***************************************************************************)
Operations == {"increment", "other"}

Request(client, num, op) == [client |-> client, num |-> num, op |-> op]

ClientReply(num, value) ==
    [type |-> "client_reply", num |-> num, value |-> value]

ErrorReply(code) == [type |-> code, num |-> 0, value |-> 0]

ResponseTypes == {"client_reply", "stale_request", "unsupported_operation",
                  "state_machine_error", "invalid_client_message"}

Responses == [type : ResponseTypes, num : Nat, value : Nat]

(***************************************************************************)
(* An entry of _last_replies.  Request numbers are positive, so number 0   *)
(* stands for a client the dictionary has no entry for.                    *)
(***************************************************************************)
Entry(num, op, reply) == [num |-> num, op |-> op, reply |-> reply]

NoEntry == Entry(0, "other", ErrorReply("stale_request"))

Entries == [num : Nat, op : Operations, reply : Responses]

-----------------------------------------------------------------------------
\* The initial state of the state machine and of the reply table.
InitialCounters == [c \in Clients |-> 0]

\* apply accepts a configured client and the one operation it knows.
Supported(request) ==
    /\ request.client \in Clients
    /\ request.op = "increment"

\* Mutation of IsNew: a repeated number counts as new.
IsNewOrRepeated(entry, request) == request.num >= entry.num

\* Mutation of IsNew: only a repeated number is old.
IsNewUnlessRepeated(entry, request) == request.num # entry.num

\* A number beyond the last one executed is new; any other is old.
IsNew(entry, request) == request.num > entry.num

\* The last executed request again: the same number and the same operation.
IsReplay(entry, request) ==
    /\ request.num = entry.num
    /\ request.op = entry.op

\* The request reaches apply and apply succeeds.
Executes(entry, request) == IsNew(entry, request) /\ Supported(request)

\* Mutation of CountersAfter: the state machine runs before the reply table
\* is consulted.
CountersAfterEach(counters, entry, request) ==
    IF Supported(request)
    THEN [counters EXCEPT ![request.client] = @ + 1]
    ELSE counters

\* Mutation of CountersAfter: the clients share a slot.
CountersAfterShared(counters, entry, request) ==
    IF Executes(entry, request)
    THEN [c \in Clients |-> counters[c] + 1]
    ELSE counters

\* The counters after the request; only the requesting client's slot moves.
CountersAfter(counters, entry, request) ==
    IF Executes(entry, request)
    THEN [counters EXCEPT ![request.client] = @ + 1]
    ELSE counters

\* The error of apply.
ApplyError(request) ==
    ErrorReply(IF request.client \in Clients THEN "unsupported_operation"
                                             ELSE "state_machine_error")

\* What _process returns.
Response(counters, entry, request) ==
    IF ~IsNew(entry, request)
    THEN IF IsReplay(entry, request) THEN entry.reply
                                     ELSE ErrorReply("stale_request")
    ELSE IF Supported(request)
         THEN ClientReply(request.num, counters[request.client] + 1)
         ELSE ApplyError(request)

\* The client's entry of the reply table after the request.
EntryAfter(counters, entry, request) ==
    IF Executes(entry, request)
    THEN Entry(request.num, request.op, Response(counters, entry, request))
    ELSE entry
=============================================================================
