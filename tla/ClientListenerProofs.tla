------------------------ MODULE ClientListenerProofs ------------------------
(***************************************************************************)
(* What processing one request does, for every client, number, operation   *)
(* and reply table: the facts the proofs about ReplicaServer and           *)
(* ActiveReplication rest on.                                              *)
(***************************************************************************)
EXTENDS ClientListener, TLAPS

\* _process returns a response, whoever asks for whatever.
LEMMA ResponseType ==
    ASSUME NEW counters \in [Clients -> Nat], NEW entry \in Entries,
           NEW Ids, NEW request \in [client : Ids, num : Nat, op : Operations]
    PROVE  Response(counters, entry, request) \in Responses
<1>1. /\ ErrorReply("stale_request") \in Responses
      /\ ApplyError(request) \in Responses
  BY DEF ErrorReply, ApplyError, Responses, ResponseTypes
<1>2. entry.reply \in Responses
  BY DEF Entries
<1>3. ASSUME Supported(request)
      PROVE  ClientReply(request.num, counters[request.client] + 1) \in Responses
  BY <1>3 DEF Supported, ClientReply, Responses, ResponseTypes
<1> QED
  BY <1>1, <1>2, <1>3 DEF Response

\* The tables keep their types.
LEMMA TablesType ==
    ASSUME NEW counters \in [Clients -> Nat], NEW entry \in Entries,
           NEW Ids, NEW request \in [client : Ids, num : Nat, op : Operations]
    PROVE  /\ CountersAfter(counters, entry, request) \in [Clients -> Nat]
           /\ EntryAfter(counters, entry, request) \in Entries
<1>1. CountersAfter(counters, entry, request) \in [Clients -> Nat]
  BY DEF CountersAfter, Executes, Supported
<1>2. EntryAfter(counters, entry, request) \in Entries
  BY ResponseType DEF EntryAfter, Entry, Entries
<1> QED
  BY <1>1, <1>2

\* A new increment of a configured client moves that client's slot by one,
\* is answered with the new value and is remembered with its answer.
LEMMA NewIncrement ==
    ASSUME NEW counters \in [Clients -> Nat], NEW entry \in Entries,
           NEW c \in Clients, NEW n \in Nat, n > entry.num
    PROVE  LET request == Request(c, n, "increment")
               reply == ClientReply(n, counters[c] + 1)
           IN  /\ Response(counters, entry, request) = reply
               /\ CountersAfter(counters, entry, request)
                     = [counters EXCEPT ![c] = @ + 1]
               /\ EntryAfter(counters, entry, request)
                     = Entry(n, "increment", reply)
<1> DEFINE request == Request(c, n, "increment")
<1>1. /\ IsNew(entry, request) /\ Supported(request)
      /\ request.client = c /\ request.num = n /\ request.op = "increment"
  BY DEF Request, IsNew, Supported
<1>2. Response(counters, entry, request) = ClientReply(n, counters[c] + 1)
  BY <1>1 DEF Response, Executes
<1> QED
  BY <1>1, <1>2 DEF CountersAfter, EntryAfter, Executes

\* The last increment again is answered from the table, and nothing moves.
LEMMA RepeatedIncrement ==
    ASSUME NEW counters \in [Clients -> Nat], NEW entry \in Entries,
           NEW c \in Clients, entry.op = "increment"
    PROVE  LET request == Request(c, entry.num, "increment")
           IN  /\ Response(counters, entry, request) = entry.reply
               /\ CountersAfter(counters, entry, request) = counters
               /\ EntryAfter(counters, entry, request) = entry
<1> DEFINE request == Request(c, entry.num, "increment")
<1>1. ~IsNew(entry, request) /\ IsReplay(entry, request)
  BY DEF Request, IsNew, IsReplay, Entries
<1> QED
  BY <1>1 DEF Response, CountersAfter, EntryAfter, Executes
=============================================================================
