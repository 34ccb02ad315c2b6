-------------------------- MODULE PersistentClient --------------------------
(***************************************************************************)
(* The Milestone 1 client, ClientApp of src/ft_system/client/app.py, and   *)
(* the loops that call it, against the client port of one replica.  The    *)
(* replica's side is the module ReplicaServer, step for step.              *)
(*                                                                         *)
(* The client sends a request, waits for the reply and drops its           *)
(* connection on any failure; the caller then calls again, with the same   *)
(* number, over a new connection.  The connections it dropped may still    *)
(* hold a request that the replica has not read.                           *)
(*                                                                         *)
(* A call has one task, so its _drop_connection is part of the step that   *)
(* fails: OneExchange shows that there is never anything to flush that     *)
(* does not fit into the kernels' buffers, so the close cannot hang.       *)
(***************************************************************************)
EXTENDS Naturals, Sequences

CONSTANTS
    Client,         \* the client's id
    None,           \* no connection
    Connections,    \* identities of connections, reused after a close
    MaxRequests,    \* bound: the number of requests made
    MaxRestarts     \* bound: how often the replica is restarted

ASSUME PersistentAssumption ==
    /\ None \notin Connections
    /\ MaxRequests \in Nat \ {0}
    /\ MaxRestarts \in Nat

VARIABLES
    counters, lastReplies, status, inbox, outbox, answered,  \* the replica
    up,             \* is the replica's process running
    restarts,       \* how often it has been restarted, empty
    phase,          \* where the caller is in send_increment
    cur,            \* the connection of _writer
    requestNum,     \* _next_request_num
    asked,          \* history: the last number send_increment was called for
    answers,        \* history: the values it returned, by process
    calm            \* hypothesis of liveness: no failure from now on

serverVars == <<counters, lastReplies, status, inbox, outbox, answered>>

clientVars == <<phase, cur, requestNum, asked, answers>>

vars == <<serverVars, clientVars, up, restarts, calm>>

MaxQueue == 2       \* a request and the end of the stream

\* The processes of the replica, in the order they were started.
Processes == 0..MaxRestarts

Server == INSTANCE ReplicaServer WITH
    Clients <- {Client}, Strangers <- {}, MaxNum <- MaxRequests

Phases == {"idle", "connecting", "writing", "reading", "closed"}

TypeOK ==
    /\ Server!TypeOK
    /\ up \in BOOLEAN
    /\ restarts \in Processes
    /\ phase \in Phases
    /\ cur \in Connections \cup {None}
    /\ requestNum \in 1..(MaxRequests + 1)
    /\ asked \in 0..MaxRequests
    /\ answers \in [Processes -> Seq(Nat)]
    /\ calm \in BOOLEAN

Init ==
    /\ Server!Init
    /\ up = TRUE
    /\ restarts = 0
    /\ phase = "idle"
    /\ cur = None
    /\ requestNum = 1
    /\ asked = 0
    /\ answers = [p \in Processes |-> <<>>]
    /\ calm = FALSE

\* The request of the current number, as build_client_request makes it.
CurrentRequest ==
    [kind |-> "request",
     request |-> Server!Request(Client, requestNum, "increment")]

-----------------------------------------------------------------------------
\* Mutation of DropConnection: the connection is kept.
KeepConnection == UNCHANGED <<cur, inbox>>

\* _drop_connection: the replica finds the end of the stream behind whatever
\* it has not read yet.
DropConnection ==
    /\ cur' = None
    /\ inbox' = IF cur # None /\ status[cur] = "reading"
                THEN [inbox EXCEPT ![cur] = Append(@, [kind |-> "eof"])]
                ELSE inbox

\* A call fails: the connection is dropped and the error raised.
Fail ==
    /\ DropConnection
    /\ phase' = "idle"
    /\ UNCHANGED <<counters, lastReplies, status, outbox, answered, requestNum,
                   asked, answers>>

\* send_increment is called and connect decides: a writer that is not closing
\* is used again.  asyncio closes the writer of a connection that was reset,
\* but not that of one the peer has ended.
Call ==
    /\ phase = "idle"
    /\ requestNum <= MaxRequests
    /\ asked' = requestNum
    /\ \/ /\ cur # None
          /\ phase' = "writing"
          /\ UNCHANGED <<cur, inbox>>
       \/ /\ cur # None => status[cur] # "reading"
          /\ DropConnection
          /\ phase' = "connecting"
    /\ UNCHANGED <<counters, lastReplies, status, outbox, answered, requestNum,
                   answers, up, restarts, calm>>

OpenSucceeds(k) ==
    /\ phase = "connecting"
    /\ up
    /\ Server!Accept(k)
    /\ cur' = k
    /\ phase' = "writing"
    /\ UNCHANGED <<requestNum, asked, answers, up, restarts, calm>>

\* Refused, or timed out.
OpenFails ==
    /\ phase = "connecting"
    /\ up => ~calm
    /\ phase' = "idle"
    /\ UNCHANGED <<serverVars, cur, requestNum, asked, answers, up, restarts,
                   calm>>

\* What is written to a connection that has ended is lost; the drain or the
\* read that follows raises.
WriteRequest ==
    /\ phase = "writing"
    /\ IF status[cur] = "reading"
       THEN Server!PeerWrites(cur, CurrentRequest)
       ELSE UNCHANGED serverVars
    /\ phase' = "reading"
    /\ UNCHANGED <<cur, requestNum, asked, answers, up, restarts, calm>>

\* _validate_reply.  The other identifiers are those of the connection.
ValidReply(reply) == reply.type = "client_reply" /\ reply.num = requestNum

\* A reply that does not match fails the call like a connection that breaks.
ReadReply ==
    /\ phase = "reading"
    /\ outbox[cur] # <<>>
    /\ LET reply == Head(outbox[cur])
       IN  IF ValidReply(reply)
           THEN /\ Server!PeerReads(cur)
                /\ answers' = [answers EXCEPT ![restarts] =
                                   Append(@, reply.value)]
                /\ requestNum' = requestNum + 1
                /\ phase' = "idle"
                /\ UNCHANGED <<cur, asked>>
           ELSE Fail
    /\ UNCHANGED <<up, restarts, calm>>

\* The timeout expires, the stream ends or the connection is reset.
ReadFails ==
    /\ phase = "reading"
    /\ calm => outbox[cur] = <<>> /\ status[cur] # "reading"
    /\ Fail
    /\ UNCHANGED <<up, restarts, calm>>

\* The count is reached, quit is typed, or Ctrl-C is pressed at any await.
Quit ==
    /\ phase # "closed"
    /\ DropConnection
    /\ phase' = "closed"
    /\ UNCHANGED <<counters, lastReplies, status, outbox, answered, requestNum,
                   asked, answers, up, restarts, calm>>

-----------------------------------------------------------------------------
\* The handlers of the replica.
Handle(k) ==
    /\ \/ Server!HandleRequest(k)
       \/ Server!HandleEnd(k)
       \/ Server!CloseWriter(k)
    /\ UNCHANGED <<clientVars, up, restarts, calm>>

\* A connection breaks, or the client's kernel refuses data for a dropped one.
Break(k) ==
    /\ k = cur => ~calm
    /\ Server!ConnectionReset(k)
    /\ UNCHANGED <<clientVars, up, restarts, calm>>

\* The process ends: its state and its connections are gone.  A client that
\* still reads a reply written before has read it before, for all it can tell.
Crash ==
    /\ up
    /\ ~calm
    /\ restarts < MaxRestarts
    /\ up' = FALSE
    /\ restarts' = restarts + 1
    /\ counters' = Server!InitialCounters
    /\ lastReplies' = [c \in {Client} |-> Server!NoEntry]
    /\ status' = [k \in Connections |-> "closed"]
    /\ inbox' = [k \in Connections |-> <<>>]
    /\ outbox' = [k \in Connections |-> <<>>]
    /\ answered' = {}
    /\ UNCHANGED <<clientVars, calm>>

Restart ==
    /\ ~up
    /\ up' = TRUE
    /\ UNCHANGED <<serverVars, clientVars, restarts, calm>>

Settle ==
    /\ up
    /\ ~calm
    /\ calm' = TRUE
    /\ UNCHANGED <<serverVars, clientVars, up, restarts>>

CallerStep ==
    \/ Call
    \/ \E k \in Connections : OpenSucceeds(k)
    \/ OpenFails
    \/ WriteRequest
    \/ ReadReply
    \/ ReadFails

Next ==
    \/ CallerStep
    \/ Quit
    \/ \E k \in Connections : Handle(k) \/ Break(k)
    \/ Crash
    \/ Restart
    \/ Settle

Spec == Init /\ [][Next]_vars

\* The loop calls again after every failure; the replica serves; a connection
\* that its client has dropped comes to an end.
FairSpec ==
    /\ Spec
    /\ WF_vars(CallerStep)
    /\ \A k \in Connections :
        /\ WF_vars(Handle(k))
        /\ WF_vars(k # cur /\ Break(k))

-----------------------------------------------------------------------------
\* The connection in use carries the exchange in progress and nothing else: at
\* most one message, none before the request is written, and a reply on it is
\* that to the request waited for.  Late replies died with their connection, so
\* ReadReply never fails, and neither a drain nor a close of the client, which
\* have no timeout, can wait for the replica.
OneExchange ==
    cur # None =>
        /\ Len(inbox[cur]) + Len(outbox[cur]) <= IF phase = "reading" THEN 1
                                                                      ELSE 0
        /\ \A i \in DOMAIN outbox[cur] : ValidReply(outbox[cur][i])

\* The last call a process has been asked for: a call it did not live to answer
\* is asked of the next one.
AskedOf(p) ==
    IF restarts < p THEN 0
    ELSE Len(answers[p]) + IF restarts = p THEN asked - (requestNum - 1) ELSE 1

\* To its client every process of the replica is a counter of its own.
Service == INSTANCE CounterService WITH
    Clients <- Processes,
    asked <- [p \in Processes |-> AskedOf(p)]

\* Reconnections, repeated requests and copies of a request that are read late
\* are invisible: each process of the replica answers each call once, and what
\* it answers counts from one, without a gap or a repetition.
ImplementsService == Service!Spec

\* When failures end, every request is answered, unless the client is stopped.
AllAnswered == calm ~> requestNum > MaxRequests \/ phase = "closed"
=============================================================================
