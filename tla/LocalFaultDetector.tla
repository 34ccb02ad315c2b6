-------------------------- MODULE LocalFaultDetector --------------------------
(***************************************************************************)
(* The heartbeat loop of a local fault detector (class LfdApp,             *)
(* src/ft_system/lfd/app.py), the heartbeat port of its replica (class     *)
(* HeartbeatListener, src/ft_system/server/app.py) and the connections     *)
(* between them.                                                           *)
(*                                                                         *)
(* LfdApp.run sends one heartbeat at a time and gives the connection up    *)
(* when the answer is late or wrong, while the replica may still serve it. *)
(* LfdApp.stop runs in another task and may find run at any of its awaits. *)
(* A change of healthy calls on_health_change in the same step; what       *)
(* becomes of it is the subject of module Membership.  Timers are not      *)
(* measured, so the length of a pause (heartbeat_freq or the backoff) is   *)
(* left out.                                                               *)
(***************************************************************************)
EXTENDS Integers, Sequences

CONSTANTS
    Slots,     \* bound: connections that exist at a time
    MaxCount,  \* bound: heartbeat counts start again after this one
    Faults     \* what the network may do to a connection (external)

ASSUME ConstantsAssumption ==
    /\ 0 \notin Slots
    /\ MaxCount \in Nat \ {0}
    /\ Faults \subseteq {"reset", "dead"}

VARIABLES
    calm,            \* environment: nothing fails or changes from now on
    server,          \* who listens at the heartbeat port of the replica
    handler,         \* the server's end of a connection
    link,            \* a TCP connection: "none", "up", "reset" or, when it is
                     \* cut and neither end can tell, "dead"
    toServer,        \* heartbeat counts written and unread by the server
    toLfd,           \* acks written and unread by the LFD
    loop,            \* where LfdApp.run is
    stop,            \* where LfdApp.stop is; its event is set unless "no"
    cur,             \* the connection of LfdApp._writer, 0 for None
    reading,         \* the connection run reads the ack from, 0 for none
    heartbeatCount,  \* LfdApp._heartbeat_count
    sentCount,       \* sent_count of _heartbeat_once
    healthy,         \* LfdApp._healthy
    aliveSince,      \* history: the replica was up since the last heartbeat
    sameServer       \* history: the process that sent the last accepted ack
                     \* is running, or its connection was reset before it ended

netVars == <<handler, link, toServer, toLfd>>
connVars == <<cur, reading>>
countVars == <<heartbeatCount, sentCount>>
lfdVars == <<loop, stop, connVars, countVars, healthy>>
historyVars == <<aliveSince, sameServer>>
vars == <<calm, server, netVars, lfdVars, historyVars>>

\* "other" stands for an ack of another replica, and for what is no ack.
Acks == [source : {"replica", "other"}, count : 1..MaxCount]

(***************************************************************************)
(* loop: "pausing" is in _wait_or_stop (or about to start), "replacing" in *)
(* the _drop_connection of _connect, "opening" in open_connection,         *)
(* "awaiting" in the read of the ack, "dropping" in the _drop_connection   *)
(* of the except clause, "leaving" in the one of the finally clause.       *)
(***************************************************************************)
Loops == {"pausing", "replacing", "opening", "awaiting", "dropping",
          "leaving", "done"}

TypeOK ==
    /\ calm \in BOOLEAN
    /\ server \in {"down", "up", "foreign"}
    /\ handler \in [Slots -> {"none", "serving", "foreign"}]
    /\ link \in [Slots -> {"none", "up", "reset", "dead"}]
    /\ toServer \in [Slots -> Seq(1..MaxCount)]
    /\ toLfd \in [Slots -> Seq(Acks)]
    /\ loop \in Loops
    /\ stop \in {"no", "dropping", "returned"}
    /\ cur \in Slots \cup {0}
    /\ reading \in Slots \cup {0}
    /\ heartbeatCount \in 1..MaxCount
    /\ sentCount \in 1..MaxCount
    /\ healthy \in BOOLEAN
    /\ aliveSince \in BOOLEAN
    /\ sameServer \in BOOLEAN

Init ==
    /\ calm = FALSE
    /\ server = "down"
    /\ handler = [k \in Slots |-> "none"]
    /\ link = [k \in Slots |-> "none"]
    /\ toServer = [k \in Slots |-> <<>>]
    /\ toLfd = [k \in Slots |-> <<>>]
    /\ loop = "pausing"
    /\ stop = "no"
    /\ cur = 0
    /\ reading = 0
    /\ heartbeatCount = 1
    /\ sentCount = 1
    /\ healthy = FALSE
    /\ aliveSince = FALSE
    /\ sameServer = FALSE

Stopped == stop # "no"

-----------------------------------------------------------------------------
(***************************************************************************)
(* The asyncio transport and TCP (external).                               *)
(***************************************************************************)
\* What was awaited on a connection is late, or can never come.
MayTimeOut(k) == ~calm \/ link[k] = "dead" \/ handler[k] = "foreign"

(***************************************************************************)
(* No end has a use for the slot of a connection.  The handler at the end  *)
(* of a silently cut connection waits for ever and does nothing more.      *)
(***************************************************************************)
Free(k) ==
    /\ k \notin {cur, reading}
    /\ handler[k] = "none" \/ link[k] = "dead"

\* writer.close of the LFD; what it leaves unread is gone.
CloseLfdEnd(k) ==
    /\ link' = [link EXCEPT ![k] = IF handler[k] = "none" THEN "none" ELSE @]
    /\ toLfd' = [toLfd EXCEPT ![k] = <<>>]

\* writer.close of the server.
CloseServerEnd(k) ==
    /\ handler' = [handler EXCEPT ![k] = "none"]
    /\ toServer' = [toServer EXCEPT ![k] = <<>>]
    /\ link' = [link EXCEPT ![k] = IF cur = k THEN @ ELSE "none"]

-----------------------------------------------------------------------------
(***************************************************************************)
(* LfdApp.run.                                                             *)
(***************************************************************************)
\* Mutation of IsClosing: a connection at its end is replaced as well.
IsClosingOrAtEof(k) == link[k] = "reset" \/ handler[k] = "none"

\* self._writer.is_closing(): asyncio leaves a writer open at the EOF.
IsClosing(k) == link[k] = "reset"

\* Mutation of NextCount: the count starts again at zero.
NextCountFromZero(n) == (n + 1) % MaxCount

NextCount(n) == (n % MaxCount) + 1

(***************************************************************************)
(* From sent_count to the read: nothing else is unread on connection k, so *)
(* the drain does not suspend (see OneUnanswered).                         *)
(***************************************************************************)
WriteHeartbeat(k) ==
    /\ sentCount' = heartbeatCount
    /\ heartbeatCount' = NextCount(heartbeatCount)
    /\ reading' = k
    /\ loop' = "awaiting"
    /\ aliveSince' = (server = "up")

\* _wait_or_stop times out and the condition of the loop holds.
GoesOn == ~Stopped

\* The pause is over: the next heartbeat, on a new connection if need be.
Wake ==
    /\ loop = "pausing"
    /\ GoesOn
    /\ \/ /\ cur # 0
          /\ ~IsClosing(cur)
          /\ WriteHeartbeat(cur)
          /\ toServer' = [toServer EXCEPT ![cur] =
                            IF handler[cur] = "none" THEN @
                                                ELSE Append(@, heartbeatCount)]
          /\ UNCHANGED <<link, toLfd, cur>>
       \/ /\ cur # 0
          /\ IsClosing(cur)
          /\ CloseLfdEnd(cur)
          /\ cur' = 0
          /\ loop' = "replacing"
          /\ UNCHANGED <<toServer, reading, countVars, aliveSince>>
       \/ /\ cur = 0
          /\ loop' = "opening"
          /\ UNCHANGED <<link, toServer, toLfd, cur, reading, countVars,
                         aliveSince>>
    /\ UNCHANGED <<calm, server, handler, stop, healthy, sameServer>>

\* The drain raises, because the write found the connection broken: the
\* heartbeat is not counted, and the connection is dropped.
WriteFails(k) ==
    /\ loop = "pausing"
    /\ GoesOn
    /\ cur = k
    /\ ~IsClosing(k)
    /\ ~calm \/ handler[k] = "none"
    /\ CloseLfdEnd(k)
    /\ cur' = 0
    /\ loop' = "dropping"
    /\ UNCHANGED <<calm, server, handler, toServer, stop, reading, countVars,
                   healthy, historyVars>>

Replaced ==
    /\ loop = "replacing"
    /\ loop' = "opening"
    /\ UNCHANGED <<calm, server, netVars, stop, connVars, countVars, healthy,
                   historyVars>>

\* The connection opens, whether or not stop has been called, and is used.
OpenSucceeds(k) ==
    /\ loop = "opening"
    /\ server # "down"
    /\ Free(k)
    /\ cur' = k
    /\ handler' = [handler EXCEPT ![k] = IF server = "up" THEN "serving"
                                                          ELSE "foreign"]
    /\ link' = [link EXCEPT ![k] = "up"]
    /\ WriteHeartbeat(k)
    /\ toServer' = [toServer EXCEPT ![k] = <<heartbeatCount>>]
    /\ toLfd' = [toLfd EXCEPT ![k] = <<>>]
    /\ UNCHANGED <<calm, server, stop, healthy, sameServer>>

\* The same on a connection that has just been opened.
FirstWriteFails(k) ==
    /\ loop = "opening"
    /\ ~calm
    /\ server # "down"
    /\ Free(k)
    /\ handler' = [handler EXCEPT ![k] = IF server = "up" THEN "serving"
                                                          ELSE "foreign"]
    /\ link' = [link EXCEPT ![k] = "up"]
    /\ toServer' = [toServer EXCEPT ![k] = <<>>]
    /\ toLfd' = [toLfd EXCEPT ![k] = <<>>]
    /\ loop' = "dropping"
    /\ UNCHANGED <<calm, server, stop, connVars, countVars, healthy,
                   historyVars>>

\* Mutation of HeartbeatFailed: the failure is not marked.
HeartbeatUnmarked ==
    /\ loop' = IF Stopped THEN "done" ELSE "pausing"
    /\ UNCHANGED healthy

\* Mutation of HeartbeatFailed: stop is checked after the failure is marked.
HeartbeatMarkedFirst ==
    /\ loop' = IF Stopped THEN "done" ELSE "pausing"
    /\ healthy' = FALSE

\* The except clause, with nothing left to drop: _mark_failed unless stopped.
HeartbeatFailed ==
    /\ loop' = IF Stopped THEN "done" ELSE "pausing"
    /\ healthy' = (healthy /\ Stopped)

\* Refused, unreachable, or later than connect_timeout; nothing to drop.
OpenFails ==
    /\ loop = "opening"
    /\ ~calm \/ server = "down"
    /\ HeartbeatFailed
    /\ UNCHANGED <<calm, server, netVars, stop, connVars, countVars,
                   historyVars>>

\* Mutation of ValidAck: the source of an ack is not compared.
ValidAckOfAnyone(ack) == ack.count = sentCount

\* _validate_ack.
ValidAck(ack) == ack.source = "replica" /\ ack.count = sentCount

AcceptAck ==
    /\ loop = "awaiting"
    /\ toLfd[reading] # <<>>
    /\ ValidAck(Head(toLfd[reading]))
    /\ toLfd' = [toLfd EXCEPT ![reading] = Tail(@)]
    /\ healthy' = TRUE
    /\ sameServer' = (handler[reading] # "none" \/ link[reading] = "reset")
    /\ reading' = 0
    /\ loop' = "pausing"
    /\ UNCHANGED <<calm, server, handler, link, toServer, stop, cur, countVars,
                   aliveSince>>

\* Mutation of GiveUp: the connection is kept for the next heartbeat.
GiveUpKeepingConnection ==
    /\ reading' = 0
    /\ loop' = "dropping"
    /\ UNCHANGED <<link, toLfd, cur>>

(***************************************************************************)
(* An exception leaves _heartbeat_once.  With stop called the writer is    *)
(* None, unless the connection was opened later, and run ends at once.     *)
(***************************************************************************)
GiveUp ==
    /\ CloseLfdEnd(reading)
    /\ cur' = 0
    /\ reading' = 0
    /\ loop' = IF cur = 0 THEN "done" ELSE "dropping"

RejectAck ==
    /\ loop = "awaiting"
    /\ toLfd[reading] # <<>>
    /\ ~ValidAck(Head(toLfd[reading]))
    /\ GiveUp
    /\ UNCHANGED <<calm, server, handler, toServer, stop, countVars, healthy,
                   historyVars>>

\* EOF, a reset, read_timeout, or stop has closed the connection.
ReadFails ==
    /\ loop = "awaiting"
    /\ \/ toLfd[reading] = <<>> /\ (cur = 0 \/ handler[reading] = "none")
       \/ link[reading] = "reset"
       \/ MayTimeOut(reading)
    /\ GiveUp
    /\ UNCHANGED <<calm, server, handler, toServer, stop, countVars, healthy,
                   historyVars>>

DropCompletes ==
    /\ loop = "dropping"
    /\ HeartbeatFailed
    /\ UNCHANGED <<calm, server, netVars, stop, connVars, countVars,
                   historyVars>>

\* Mutation of Leave: run relies on stop to drop the connection.
LeaveKeepingConnection ==
    /\ loop = "pausing"
    /\ Stopped
    /\ loop' = "done"
    /\ UNCHANGED <<calm, server, netVars, stop, connVars, countVars, healthy,
                   historyVars>>

\* _wait_or_stop finds the event set; the finally clause.
Leave ==
    /\ loop = "pausing"
    /\ Stopped
    /\ \/ /\ cur # 0
          /\ CloseLfdEnd(cur)
          /\ loop' = "leaving"
       \/ /\ cur = 0
          /\ loop' = "done"
          /\ UNCHANGED <<link, toLfd>>
    /\ cur' = 0
    /\ UNCHANGED <<calm, server, handler, toServer, stop, reading, countVars,
                   healthy, historyVars>>

Left ==
    /\ loop = "leaving"
    /\ loop' = "done"
    /\ UNCHANGED <<calm, server, netVars, stop, connVars, countVars, healthy,
                   historyVars>>

-----------------------------------------------------------------------------
(***************************************************************************)
(* LfdApp.stop.  An ack that run has been woken for is still read.         *)
(***************************************************************************)
Stop ==
    /\ stop = "no"
    /\ \/ /\ cur # 0
          /\ stop' = "dropping"
          /\ link' = [link EXCEPT ![cur] =
                         IF handler[cur] = "none" THEN "none" ELSE @]
          /\ \/ UNCHANGED toLfd
             \/ toLfd' = [toLfd EXCEPT ![cur] = <<>>]
       \/ /\ cur = 0
          /\ stop' = "returned"
          /\ UNCHANGED <<link, toLfd>>
    /\ cur' = 0
    /\ UNCHANGED <<calm, server, handler, toServer, loop, reading, countVars,
                   healthy, historyVars>>

StopReturns ==
    /\ stop = "dropping"
    /\ stop' = "returned"
    /\ UNCHANGED <<calm, server, netVars, loop, connVars, countVars, healthy,
                   historyVars>>

\* The LFD process has ended, or is killed, and another one is started.
LfdRestarts ==
    /\ ~calm
    /\ loop' = "pausing"
    /\ stop' = "no"
    /\ cur' = 0
    /\ reading' = 0
    /\ heartbeatCount' = 1
    /\ sentCount' = 1
    /\ healthy' = FALSE
    /\ link' = [k \in Slots |-> IF handler[k] = "none" THEN "none"
                                                       ELSE link[k]]
    /\ toLfd' = [k \in Slots |-> <<>>]
    /\ UNCHANGED <<calm, server, handler, toServer, historyVars>>

-----------------------------------------------------------------------------
(***************************************************************************)
(* HeartbeatListener.handle, one task per connection.                      *)
(***************************************************************************)
\* build_heartbeat_ack; what is written to a closed connection is lost.
AnswerHeartbeat(k) ==
    /\ handler[k] = "serving"
    /\ link[k] = "up"
    /\ toServer[k] # <<>>
    /\ toServer' = [toServer EXCEPT ![k] = Tail(@)]
    /\ toLfd' = [toLfd EXCEPT ![k] =
                    IF cur = k
                    THEN Append(@, [source |-> "replica",
                                    count |-> Head(toServer[k])])
                    ELSE @]
    /\ UNCHANGED <<calm, server, handler, link, lfdVars, historyVars>>

\* EOF or a reset.
HandlerEnds(k) ==
    /\ handler[k] # "none"
    /\ \/ cur # k /\ link[k] = "up" /\ toServer[k] = <<>>
       \/ link[k] = "reset"
    /\ CloseServerEnd(k)
    /\ UNCHANGED <<calm, server, toLfd, lfdVars, historyVars>>

\* "heartbeat port received an invalid message": another replica listens.
RejectHeartbeat(k) ==
    /\ handler[k] = "foreign"
    /\ link[k] = "up"
    /\ toServer[k] # <<>>
    /\ CloseServerEnd(k)
    /\ UNCHANGED <<calm, server, toLfd, lfdVars, historyVars>>

-----------------------------------------------------------------------------
(***************************************************************************)
(* The environment (external).                                             *)
(***************************************************************************)
ServerStarts(who) ==
    /\ ~calm
    /\ server = "down"
    /\ server' = who
    /\ aliveSince' = (aliveSince \/ who = "up")
    /\ UNCHANGED <<calm, netVars, lfdVars, sameServer>>

\* The process of the server ends, or its whole machine fails without a FIN.
ServerExits(silent) ==
    /\ ~calm
    /\ server # "down"
    /\ server' = "down"
    /\ sameServer' = /\ sameServer
                      /\ \/ cur # 0 /\ link[cur] = "reset"
                         \/ loop \in {"replacing", "opening"}
    /\ handler' = [k \in Slots |-> "none"]
    /\ toServer' = [k \in Slots |-> <<>>]
    /\ link' = [k \in Slots |-> IF cur # k THEN "none"
                                ELSE IF silent /\ link[k] = "up" THEN "dead"
                                ELSE link[k]]
    /\ UNCHANGED <<calm, toLfd, lfdVars, aliveSince>>

\* Whatever else listens at the port writes what is no ack of the replica.
ForeignWrites(k) ==
    /\ handler[k] = "foreign"
    /\ cur = k
    /\ toLfd[k] = <<>>
    /\ \E n \in 1..MaxCount :
          toLfd' = [toLfd EXCEPT ![k] = <<[source |-> "other", count |-> n]>>]
    /\ UNCHANGED <<calm, server, handler, link, toServer, lfdVars, historyVars>>

LinkBreaks(k) ==
    /\ ~calm
    /\ handler[k] # "none"
    /\ link[k] = "up"
    /\ \E fault \in Faults : link' = [link EXCEPT ![k] = fault]
    /\ UNCHANGED <<calm, server, handler, toServer, toLfd, lfdVars, historyVars>>

Settle ==
    /\ ~calm
    /\ calm' = TRUE
    /\ UNCHANGED <<server, netVars, lfdVars, historyVars>>

-----------------------------------------------------------------------------
Run ==
    \/ Wake
    \/ Replaced
    \/ OpenFails
    \/ \E k \in Slots : OpenSucceeds(k) \/ WriteFails(k) \/ FirstWriteFails(k)
    \/ AcceptAck
    \/ RejectAck
    \/ ReadFails
    \/ DropCompletes
    \/ Leave
    \/ Left

Handle(k) == AnswerHeartbeat(k) \/ HandlerEnds(k) \/ RejectHeartbeat(k)

Next ==
    \/ Run
    \/ Stop \/ StopReturns \/ LfdRestarts
    \/ \E k \in Slots : Handle(k) \/ ForeignWrites(k) \/ LinkBreaks(k)
    \/ \E who \in {"up", "foreign"} : ServerStarts(who)
    \/ \E silent \in BOOLEAN : ServerExits(silent)
    \/ Settle

Spec == Init /\ [][Next]_vars

(***************************************************************************)
(* The event loop of the LFD runs its tasks and timers, the one of the     *)
(* server its handlers.  Nothing makes a fault, a restart or a stop        *)
(* happen.                                                                 *)
(***************************************************************************)
Fairness ==
    /\ WF_vars(Run)
    /\ WF_vars(StopReturns)
    /\ \A k \in Slots : WF_vars(Handle(k))

FairSpec == Spec /\ Fairness

-----------------------------------------------------------------------------
(***************************************************************************)
(* Properties.                                                             *)
(***************************************************************************)
(***************************************************************************)
(* A connection never holds more than one heartbeat or ack, and none when  *)
(* a heartbeat is written to it.  This is why the drain of the write never *)
(* suspends, so that stop cannot clear _reader between the write and the   *)
(* read, and why wait_closed has nothing to flush.                         *)
(***************************************************************************)
OneUnanswered ==
    \A k \in Slots :
        /\ Len(toServer[k]) + Len(toLfd[k]) <= IF handler[k] = "foreign"
                                               THEN 2 ELSE 1
        /\ cur = k /\ reading # k => toServer[k] = <<>>

(***************************************************************************)
(* An ack of the replica that the LFD reads answers the heartbeat it has   *)
(* just sent: timeouts, late acks and reconnections never make             *)
(* _validate_ack refuse a correct replica's count.                         *)
(***************************************************************************)
AckMatchesHeartbeat ==
    reading # 0 /\ toLfd[reading] # <<>> =>
        \/ Head(toLfd[reading]).source = "other"
        \/ Head(toLfd[reading]).count = sentCount

\* A step in which run takes an ack for the answer to its heartbeat.
AckAccepted == loop = "awaiting" /\ loop' = "pausing" /\ healthy'

(***************************************************************************)
(* A replica is found healthy only if its process was running at some time *)
(* after the heartbeat was sent: neither a late ack nor another process at *)
(* its port can make a dead replica look alive.                            *)
(***************************************************************************)
HealthIsFresh == [][AckAccepted => aliveSince]_vars

(***************************************************************************)
(* Every end of the replica's process is noticed, however soon it is       *)
(* started again: the LFD never takes the empty new process for the one it *)
(* found healthy.  The one exception is a process that ends after the      *)
(* network has reset the connection of the LFD, which _connect replaces    *)
(* without a failure.                                                      *)
(***************************************************************************)
RestartIsNoticed ==
    [][AckAccepted /\ healthy /\ ~Stopped /\ handler[reading] = "serving"
          => sameServer]_vars

(***************************************************************************)
(* Stopping the LFD never reports the failure of its replica, although     *)
(* stop closes the connection under a heartbeat in progress.               *)
(***************************************************************************)
StopIsSilent ==
    [][Stopped /\ Stopped' /\ healthy => healthy']_vars

(***************************************************************************)
(* A run that has ended holds no connection, even one that was opened      *)
(* after stop had looked for it.                                           *)
(***************************************************************************)
NothingLeftOpen == loop = "done" => cur = 0

(***************************************************************************)
(* Once failures and restarts stop, the LFD finds its replica healthy for  *)
(* ever if it runs, and failed if it does not, unless it is stopped.       *)
(***************************************************************************)
TracksReplica == calm ~> [](Stopped \/ (healthy = (server = "up")))

(***************************************************************************)
(* After stop, run returns wherever it was and no connection is left open, *)
(* even one opened after stop had looked for it (or the process is started *)
(* again).                                                                 *)
(***************************************************************************)
StopTerminates ==
    Stopped ~> \/ loop = "done" /\ stop = "returned" /\ cur = 0
               \/ ~Stopped

=============================================================================
