------------------------------ MODULE Membership ------------------------------
(***************************************************************************)
(* Group membership: the GfdReporter of every local fault detector         *)
(* (src/ft_system/lfd/reporter.py), the handlers and the member set of the *)
(* global fault detector (class GfdApp, src/ft_system/gfd/app.py) and the  *)
(* TCP connections between them.                                           *)
(*                                                                         *)
(* A reporter keeps one connection open: it registers with the health of   *)
(* its replica, reports every change and answers the heartbeats of the     *)
(* GFD.  When the connection fails it opens another one after a pause,     *)
(* while the GFD may still serve the old one.  The health itself comes     *)
(* from LfdApp through set_health and is an input here.                    *)
(***************************************************************************)
EXTENDS Integers, Sequences

CONSTANTS
    Lfds,        \* the LFDs of the configuration
    Rogue,       \* LFDs whose peer sends what it likes (external)
    LfdServers,  \* GfdApp.lfd_servers: the replica of every LFD
    Slots,       \* bound: connections of one LFD that exist at a time
    MaxCount,    \* bound: heartbeat counts start again after this one
    KernelBuf,   \* messages the two kernels hold on one connection
    HighWater    \* messages an asyncio transport buffers before it pauses

ASSUME LfdsAssumption ==
    /\ Rogue \subseteq Lfds
    /\ DOMAIN LfdServers = Lfds
    /\ \A l, m \in Lfds : LfdServers[l] = LfdServers[m] => l = m

ASSUME BoundsAssumption ==
    /\ 0 \notin Slots
    /\ MaxCount \in Nat \ {0}
    /\ KernelBuf \in Nat
    /\ HighWater \in Nat

VARIABLES
    calm,      \* environment: nothing fails from now on
    gfdUp,     \* is the GFD process running
    link,      \* a TCP connection: "none", "up", "reset" or, when it is cut
               \* and neither end can tell, "dead"
    toGfd,     \* messages written to a connection and unread by the GFD
    toLfd,     \* heartbeat counts written and unread by the LFD
    healthy,   \* GfdReporter.healthy
    changed,   \* is GfdReporter._changed set
    reporter,  \* where GfdReporter.run is
    cur,       \* the connection of GfdReporter.run, 0 for None
    sender,    \* where report_changes is
    report,    \* the health in the message report_changes waits to send
    receiver,  \* where answer_heartbeats is
    answer,    \* the count in the ack answer_heartbeats waits to send
    handler,   \* where the GfdApp._handle of a connection is
    count,     \* the heartbeat count of that handler
    session,   \* GfdApp._sessions: the registered connection, 0 for none
    members    \* GfdApp._members

netVars == <<link, toGfd, toLfd>>
healthVars == <<healthy, changed>>
taskVars == <<sender, report, receiver, answer>>
reporterVars == <<reporter, cur>>
lfdVars == <<healthVars, reporterVars, taskVars>>
gfdVars == <<gfdUp, handler, count, session, members>>
vars == <<calm, netVars, lfdVars, gfdVars>>

Correct == Lfds \ Rogue
Servers == {LfdServers[l] : l \in Lfds}

Report(type, health) == [type |-> type, healthy |-> health, count |-> 0]
HeartbeatAck(n) == [type |-> "heartbeat_ack", healthy |-> FALSE, count |-> n]
Invalid == [type |-> "invalid", healthy |-> FALSE, count |-> 0]

\* "invalid" stands for what fails validate_message or _validate_report.
Messages ==
    {Report(type, h) : type \in {"register", "membership"}, h \in BOOLEAN}
    \cup {HeartbeatAck(n) : n \in 1..MaxCount} \cup {Invalid}

(***************************************************************************)
(* reporter: "registering" is in the send of the registration, "running"   *)
(* has both tasks, "closing" is in close_writer, "sleeping" in the pause   *)
(* before the next attempt, "down" has no process.                         *)
(***************************************************************************)
Reporters == {"down", "opening", "registering", "running", "closing",
              "sleeping"}

(***************************************************************************)
(* sender and receiver: "ready" waits for _changed or for a heartbeat,     *)
(* "blocked" for the lock of send, "draining" holds it.                    *)
(***************************************************************************)
Tasks == {"ready", "blocked", "draining"}

(***************************************************************************)
(* handler: "accepted" waits for the registration, "ack" for the answer to *)
(* heartbeat count, "between" for the time of the next one.                *)
(***************************************************************************)
Handlers == {"none", "accepted", "ack", "between"}

TypeOK ==
    /\ calm \in BOOLEAN
    /\ gfdUp \in BOOLEAN
    /\ link \in [Lfds -> [Slots -> {"none", "up", "reset", "dead"}]]
    /\ toGfd \in [Lfds -> [Slots -> Seq(Messages)]]
    /\ toLfd \in [Lfds -> [Slots -> Seq(1..MaxCount)]]
    /\ healthy \in [Lfds -> BOOLEAN]
    /\ changed \in [Lfds -> BOOLEAN]
    /\ reporter \in [Lfds -> Reporters]
    /\ cur \in [Lfds -> Slots \cup {0}]
    /\ sender \in [Lfds -> Tasks]
    /\ report \in [Lfds -> BOOLEAN]
    /\ receiver \in [Lfds -> Tasks]
    /\ answer \in [Lfds -> 1..MaxCount]
    /\ handler \in [Lfds -> [Slots -> Handlers]]
    /\ count \in [Lfds -> [Slots -> 1..MaxCount]]
    /\ session \in [Lfds -> Slots \cup {0}]
    /\ members \subseteq Servers

ForEachLfd(x) == [l \in Lfds |-> x]
ForEachConnection(x) == [l \in Lfds |-> [k \in Slots |-> x]]

Init ==
    /\ calm = FALSE
    /\ gfdUp = TRUE
    /\ link = ForEachConnection("none")
    /\ toGfd = ForEachConnection(<<>>)
    /\ toLfd = ForEachConnection(<<>>)
    /\ healthy = ForEachLfd(FALSE)
    /\ changed = ForEachLfd(FALSE)
    /\ reporter = [l \in Lfds |-> IF l \in Rogue THEN "down" ELSE "opening"]
    /\ cur = ForEachLfd(0)
    /\ sender = ForEachLfd("ready")
    /\ report = ForEachLfd(FALSE)
    /\ receiver = ForEachLfd("ready")
    /\ answer = ForEachLfd(1)
    /\ handler = ForEachConnection("none")
    /\ count = ForEachConnection(1)
    /\ session = ForEachLfd(0)
    /\ members = {}

-----------------------------------------------------------------------------
(***************************************************************************)
(* The asyncio transport and TCP (external).                               *)
(***************************************************************************)
Paused(queue) == Len(queue) > KernelBuf + HighWater

\* The LFD can see that the connection has ended.
Gone(l) ==
    \/ link[l][cur[l]] = "reset"
    \/ link[l][cur[l]] = "up" /\ handler[l][cur[l]] = "none"

\* wait_closed returns once the buffer is flushed or the connection ended.
TransportClosed(l) == Gone(l) \/ Len(toGfd[l][cur[l]]) <= KernelBuf

\* What was awaited is late, or can never come.
MayTimeOut(l, k) == ~calm \/ link[l][k] = "dead"

\* What is left of a connection when its LFD, or its handler, has closed it.
LinkWithoutLfd(l, k) == IF handler[l][k] = "none" THEN "none" ELSE link[l][k]
LinkWithoutHandler(l, k) == IF cur[l] = k THEN link[l][k] ELSE "none"

\* The stream the GFD reads from is at its end.
AtEof(l, k) == cur[l] # k /\ link[l][k] = "up" /\ toGfd[l][k] = <<>>

-----------------------------------------------------------------------------
(***************************************************************************)
(* GfdReporter.                                                            *)
(***************************************************************************)
SetHealth(l) ==
    /\ reporter[l] # "down"
    /\ healthy' = [healthy EXCEPT ![l] = ~@]
    /\ changed' = [changed EXCEPT ![l] = TRUE]
    /\ UNCHANGED <<calm, netVars, reporterVars, taskVars, gfdVars>>

\* The connection opens and the registration is written in one step.
OpenSucceeds(l, k) ==
    /\ reporter[l] = "opening"
    /\ gfdUp
    /\ handler[l][k] = "none"
    /\ cur' = [cur EXCEPT ![l] = k]
    /\ handler' = [handler EXCEPT ![l][k] = "accepted"]
    /\ link' = [link EXCEPT ![l][k] = "up"]
    /\ changed' = [changed EXCEPT ![l] = FALSE]
    /\ toGfd' = [toGfd EXCEPT ![l][k] = <<Report("register", healthy[l])>>]
    /\ toLfd' = [toLfd EXCEPT ![l][k] = <<>>]
    /\ reporter' = [reporter EXCEPT ![l] =
                       IF Paused(toGfd'[l][k]) THEN "registering"
                                               ELSE "running"]
    /\ UNCHANGED <<calm, healthy, taskVars, gfdUp, count, session, members>>

\* Refused, unreachable, or later than read_timeout.
OpenFails(l) ==
    /\ reporter[l] = "opening"
    /\ ~(calm /\ gfdUp)
    /\ reporter' = [reporter EXCEPT ![l] = "sleeping"]
    /\ UNCHANGED <<calm, netVars, healthVars, cur, taskVars, gfdVars>>

\* The drain of the registration returns; the two tasks start.
Registered(l) ==
    /\ reporter[l] = "registering"
    /\ link[l][cur[l]] # "reset"
    /\ ~Paused(toGfd[l][cur[l]])
    /\ reporter' = [reporter EXCEPT ![l] = "running"]
    /\ UNCHANGED <<calm, netVars, healthVars, cur, taskVars, gfdVars>>

\* Neither task is in, or ahead of the other in, async with lock.
LockFree(l) == sender[l] = "ready" /\ receiver[l] = "ready"

AfterWrite(queue) == IF Paused(queue) THEN "draining" ELSE "ready"

WriteReport(l, health) ==
    /\ toGfd' = [toGfd EXCEPT ![l][cur[l]] =
                    Append(@, Report("membership", health))]
    /\ sender' = [sender EXCEPT ![l] = AfterWrite(toGfd'[l][cur[l]])]

WriteAck(l, n) ==
    /\ toGfd' = [toGfd EXCEPT ![l][cur[l]] = Append(@, HeartbeatAck(n))]
    /\ receiver' = [receiver EXCEPT ![l] = AfterWrite(toGfd'[l][cur[l]])]

\* report_changes wakes up, clears _changed and builds its message at once.
ReportChanges(l) ==
    /\ reporter[l] = "running"
    /\ sender[l] = "ready"
    /\ changed[l]
    /\ changed' = [changed EXCEPT ![l] = FALSE]
    /\ \/ /\ LockFree(l)
          /\ WriteReport(l, healthy[l])
          /\ UNCHANGED report
       \/ /\ ~LockFree(l)
          /\ report' = [report EXCEPT ![l] = healthy[l]]
          /\ sender' = [sender EXCEPT ![l] = "blocked"]
          /\ UNCHANGED toGfd
    /\ UNCHANGED <<calm, link, toLfd, healthy, reporterVars, receiver, answer,
                   gfdVars>>

AnswerHeartbeat(l) ==
    /\ reporter[l] = "running"
    /\ receiver[l] = "ready"
    /\ link[l][cur[l]] = "up"
    /\ toLfd[l][cur[l]] # <<>>
    /\ toLfd' = [toLfd EXCEPT ![l][cur[l]] = Tail(@)]
    /\ LET n == Head(toLfd[l][cur[l]]) IN
       \/ /\ LockFree(l)
          /\ WriteAck(l, n)
          /\ UNCHANGED answer
       \/ /\ ~LockFree(l)
          /\ answer' = [answer EXCEPT ![l] = n]
          /\ receiver' = [receiver EXCEPT ![l] = "blocked"]
          /\ UNCHANGED toGfd
    /\ UNCHANGED <<calm, link, healthVars, reporterVars, sender, report,
                   gfdVars>>

SenderGetsLock(l) ==
    /\ reporter[l] = "running"
    /\ sender[l] = "blocked"
    /\ receiver[l] # "draining"
    /\ WriteReport(l, report[l])
    /\ UNCHANGED <<calm, link, toLfd, healthVars, reporterVars, report,
                   receiver, answer, gfdVars>>

ReceiverGetsLock(l) ==
    /\ reporter[l] = "running"
    /\ receiver[l] = "blocked"
    /\ sender[l] # "draining"
    /\ WriteAck(l, answer[l])
    /\ UNCHANGED <<calm, link, toLfd, healthVars, reporterVars, sender, report,
                   answer, gfdVars>>

\* Mutation of DrainCompletes: _changed is cleared once the report is sent.
DrainCompletesAndClears(l) ==
    /\ reporter[l] = "running"
    /\ link[l][cur[l]] # "reset"
    /\ ~Paused(toGfd[l][cur[l]])
    /\ \/ /\ sender[l] = "draining"
          /\ sender' = [sender EXCEPT ![l] = "ready"]
          /\ changed' = [changed EXCEPT ![l] = FALSE]
          /\ UNCHANGED receiver
       \/ /\ receiver[l] = "draining"
          /\ receiver' = [receiver EXCEPT ![l] = "ready"]
          /\ UNCHANGED <<changed, sender>>
    /\ UNCHANGED <<calm, netVars, healthy, reporterVars, report, answer,
                   gfdVars>>

DrainCompletes(l) ==
    /\ reporter[l] = "running"
    /\ link[l][cur[l]] # "reset"
    /\ ~Paused(toGfd[l][cur[l]])
    /\ \/ /\ sender[l] = "draining"
          /\ sender' = [sender EXCEPT ![l] = "ready"]
          /\ UNCHANGED receiver
       \/ /\ receiver[l] = "draining"
          /\ receiver' = [receiver EXCEPT ![l] = "ready"]
          /\ UNCHANGED sender
    /\ UNCHANGED <<calm, netVars, healthVars, reporterVars, report, answer,
                   gfdVars>>

\* EOF, a reset, or the timeout of a read or a write; both tasks are ended.
ConnectionFails(l) ==
    /\ reporter[l] \in {"registering", "running"}
    /\ Gone(l) \/ MayTimeOut(l, cur[l])
    /\ reporter' = [reporter EXCEPT ![l] = "closing"]
    /\ sender' = [sender EXCEPT ![l] = "ready"]
    /\ receiver' = [receiver EXCEPT ![l] = "ready"]
    /\ report' = [report EXCEPT ![l] = FALSE]
    /\ answer' = [answer EXCEPT ![l] = 1]
    /\ UNCHANGED <<calm, netVars, healthVars, cur, gfdVars>>

CloseCompletes(l) ==
    /\ reporter[l] = "closing"
    /\ TransportClosed(l)
    /\ reporter' = [reporter EXCEPT ![l] = "sleeping"]
    /\ cur' = [cur EXCEPT ![l] = 0]
    /\ toLfd' = [toLfd EXCEPT ![l][cur[l]] = <<>>]
    /\ link' = [link EXCEPT ![l][cur[l]] = LinkWithoutLfd(l, cur[l])]
    /\ UNCHANGED <<calm, toGfd, healthVars, taskVars, gfdVars>>

Retry(l) ==
    /\ reporter[l] = "sleeping"
    /\ reporter' = [reporter EXCEPT ![l] = "opening"]
    /\ UNCHANGED <<calm, netVars, healthVars, cur, taskVars, gfdVars>>

\* The LFD process ends, or its whole machine fails and sends no FIN.
LfdExits(l) ==
    /\ ~calm
    /\ reporter[l] # "down"
    /\ \/ /\ cur[l] = 0
          /\ UNCHANGED <<link, toLfd>>
       \/ /\ cur[l] # 0
          /\ \E state \in {link[l][cur[l]], "dead"} :
                link' = [link EXCEPT ![l][cur[l]] =
                            IF handler[l][cur[l]] = "none" THEN "none"
                                                           ELSE state]
          /\ toLfd' = [toLfd EXCEPT ![l][cur[l]] = <<>>]
    /\ reporter' = [reporter EXCEPT ![l] = "down"]
    /\ cur' = [cur EXCEPT ![l] = 0]
    /\ healthy' = [healthy EXCEPT ![l] = FALSE]
    /\ changed' = [changed EXCEPT ![l] = FALSE]
    /\ sender' = [sender EXCEPT ![l] = "ready"]
    /\ receiver' = [receiver EXCEPT ![l] = "ready"]
    /\ report' = [report EXCEPT ![l] = FALSE]
    /\ answer' = [answer EXCEPT ![l] = 1]
    /\ UNCHANGED <<calm, toGfd, gfdVars>>

LfdStarts(l) ==
    /\ l \notin Rogue
    /\ reporter[l] = "down"
    /\ reporter' = [reporter EXCEPT ![l] = "opening"]
    /\ UNCHANGED <<calm, netVars, healthVars, cur, taskVars, gfdVars>>

-----------------------------------------------------------------------------
(***************************************************************************)
(* GfdApp._handle, one task per connection.                                *)
(***************************************************************************)
\* _update.
Updated(l, health) ==
    IF health THEN members \cup {LfdServers[l]} ELSE members \ {LfdServers[l]}

\* close_writer of the GFD; unread reports are gone.
CloseHandler(l, k) ==
    /\ handler' = [handler EXCEPT ![l][k] = "none"]
    /\ count' = [count EXCEPT ![l][k] = 1]
    /\ link' = [link EXCEPT ![l][k] = LinkWithoutHandler(l, k)]
    /\ toGfd' = [toGfd EXCEPT ![l][k] = <<>>]
    /\ toLfd' = [toLfd EXCEPT ![l][k] = IF cur[l] = k THEN @ ELSE <<>>]

\* Mutation of HandlerEnds: the replica of a lost session stays a member.
HandlerEndsKeepingMember(l, k) ==
    /\ CloseHandler(l, k)
    /\ session' = [session EXCEPT ![l] = IF @ = k THEN 0 ELSE @]
    /\ UNCHANGED <<calm, lfdVars, gfdUp, members>>

\* Mutation of HandlerEnds: the ended session is not deleted.
HandlerEndsKeepingSession(l, k) ==
    /\ CloseHandler(l, k)
    /\ members' = IF session[l] = k THEN Updated(l, FALSE) ELSE members
    /\ UNCHANGED <<calm, lfdVars, gfdUp, session>>

\* The finally clause of _handle.
HandlerEnds(l, k) ==
    /\ CloseHandler(l, k)
    /\ session' = [session EXCEPT ![l] = IF @ = k THEN 0 ELSE @]
    /\ members' = IF session[l] = k THEN Updated(l, FALSE) ELSE members
    /\ UNCHANGED <<calm, lfdVars, gfdUp>>

\* There is a message for the handler to read.
HasMessage(l, k) ==
    /\ handler[l][k] # "none"
    /\ link[l][k] = "up"
    /\ toGfd[l][k] # <<>>

Consume(l, k) == toGfd' = [toGfd EXCEPT ![l][k] = Tail(@)]

SendHeartbeat(l, k, n) ==
    /\ count' = [count EXCEPT ![l][k] = n]
    /\ toLfd' = [toLfd EXCEPT ![l][k] = Append(@, n)]
    /\ handler' = [handler EXCEPT ![l][k] = "ack"]

HandleRegister(l, k) ==
    /\ HasMessage(l, k)
    /\ handler[l][k] = "accepted"
    /\ Head(toGfd[l][k]).type = "register"
    /\ session[l] = 0
    /\ Consume(l, k)
    /\ session' = [session EXCEPT ![l] = k]
    /\ members' = Updated(l, Head(toGfd[l][k]).healthy)
    /\ SendHeartbeat(l, k, 1)
    /\ UNCHANGED <<calm, link, lfdVars, gfdUp>>

\* Mutation of RejectDuplicate: the new registration replaces the old one.
ReplaceDuplicate(l, k) ==
    /\ HasMessage(l, k)
    /\ handler[l][k] = "accepted"
    /\ Head(toGfd[l][k]).type = "register"
    /\ session[l] # 0
    /\ Consume(l, k)
    /\ session' = [session EXCEPT ![l] = k]
    /\ members' = Updated(l, Head(toGfd[l][k]).healthy)
    /\ SendHeartbeat(l, k, 1)
    /\ UNCHANGED <<calm, link, lfdVars, gfdUp>>

\* "LFD already has a registered connection".
RejectDuplicate(l, k) ==
    /\ HasMessage(l, k)
    /\ handler[l][k] = "accepted"
    /\ Head(toGfd[l][k]).type = "register"
    /\ session[l] # 0
    /\ HandlerEnds(l, k)

HandleReport(l, k) ==
    /\ HasMessage(l, k)
    /\ handler[l][k] \in {"ack", "between"}
    /\ Head(toGfd[l][k]).type = "membership"
    /\ Consume(l, k)
    /\ members' = Updated(l, Head(toGfd[l][k]).healthy)
    /\ UNCHANGED <<calm, link, toLfd, lfdVars, gfdUp, handler, count, session>>

HandleAck(l, k) ==
    /\ HasMessage(l, k)
    /\ handler[l][k] = "ack"
    /\ Head(toGfd[l][k]) = HeartbeatAck(count[l][k])
    /\ Consume(l, k)
    /\ handler' = [handler EXCEPT ![l][k] = "between"]
    /\ UNCHANGED <<calm, link, toLfd, lfdVars, gfdUp, count, session, members>>

\* Mutation of HeartbeatDue: a late ack is not waited for.
HeartbeatOverdue(l, k) ==
    /\ handler[l][k] \in {"ack", "between"}
    /\ link[l][k] # "reset"
    /\ SendHeartbeat(l, k, (count[l][k] % MaxCount) + 1)
    /\ UNCHANGED <<calm, link, toGfd, lfdVars, gfdUp, session, members>>

\* heartbeat_freq has passed, whether or not a message waits to be read.
HeartbeatDue(l, k) ==
    /\ handler[l][k] = "between"
    /\ link[l][k] # "reset"
    /\ SendHeartbeat(l, k, (count[l][k] % MaxCount) + 1)
    /\ UNCHANGED <<calm, link, toGfd, lfdVars, gfdUp, session, members>>

\* What the handler accepts next; anything else is a ProtocolError.
Expected(l, k) ==
    LET message == Head(toGfd[l][k]) IN
    CASE handler[l][k] = "accepted" -> message.type = "register"
      [] handler[l][k] = "ack" -> \/ message.type = "membership"
                                  \/ message = HeartbeatAck(count[l][k])
      [] handler[l][k] = "between" -> message.type = "membership"

RejectMessage(l, k) ==
    /\ HasMessage(l, k)
    /\ ~Expected(l, k)
    /\ HandlerEnds(l, k)

\* EOF, a reset, or a timeout; between two heartbeats a timeout is none.
SessionFails(l, k) ==
    /\ handler[l][k] # "none"
    /\ \/ AtEof(l, k)
       \/ link[l][k] = "reset"
       \/ handler[l][k] # "between" /\ MayTimeOut(l, k)
    /\ HandlerEnds(l, k)

\* The GFD process ends, or its whole machine fails and sends no FIN.
GfdExits ==
    /\ ~calm
    /\ gfdUp
    /\ gfdUp' = FALSE
    /\ handler' = ForEachConnection("none")
    /\ session' = ForEachLfd(0)
    /\ members' = {}
    /\ count' = ForEachConnection(1)
    /\ \E silent \in BOOLEAN :
          link' = [l \in Lfds |-> [k \in Slots |->
                      IF silent /\ cur[l] = k THEN "dead"
                                              ELSE LinkWithoutHandler(l, k)]]
    /\ toGfd' = ForEachConnection(<<>>)
    /\ toLfd' = [l \in Lfds |-> [k \in Slots |->
                    IF cur[l] = k THEN toLfd[l][k] ELSE <<>>]]
    /\ UNCHANGED <<calm, lfdVars>>

GfdStarts ==
    /\ ~gfdUp
    /\ gfdUp' = TRUE
    /\ UNCHANGED <<calm, netVars, lfdVars, handler, count, session, members>>

-----------------------------------------------------------------------------
(***************************************************************************)
(* The environment (external).                                             *)
(***************************************************************************)
LinkBreaks(l, k) ==
    /\ ~calm
    /\ handler[l][k] # "none"
    /\ link[l][k] = "up"
    /\ \E state \in {"reset", "dead"} : link' = [link EXCEPT ![l][k] = state]
    /\ UNCHANGED <<calm, toGfd, toLfd, lfdVars, gfdVars>>

\* TCP gives up retransmitting.
TcpAborts(l, k) ==
    /\ link[l][k] = "dead"
    /\ handler[l][k] # "none" \/ cur[l] = k
    /\ link' = [link EXCEPT ![l][k] = "reset"]
    /\ UNCHANGED <<calm, toGfd, toLfd, lfdVars, gfdVars>>

Settle ==
    /\ ~calm
    /\ calm' = TRUE
    /\ UNCHANGED <<netVars, lfdVars, gfdVars>>

RogueOpens(l, k) ==
    /\ l \in Rogue
    /\ gfdUp
    /\ handler[l][k] = "none"
    /\ handler' = [handler EXCEPT ![l][k] = "accepted"]
    /\ link' = [link EXCEPT ![l][k] = "up"]
    /\ toGfd' = [toGfd EXCEPT ![l][k] = <<>>]
    /\ toLfd' = [toLfd EXCEPT ![l][k] = <<>>]
    /\ UNCHANGED <<calm, lfdVars, gfdUp, count, session, members>>

RogueWrites(l, k) ==
    /\ l \in Rogue
    /\ handler[l][k] # "none"
    /\ toGfd[l][k] = <<>>
    /\ \E message \in Messages :
          toGfd' = [toGfd EXCEPT ![l][k] = <<message>>]
    /\ toLfd' = [toLfd EXCEPT ![l][k] = <<>>]
    /\ UNCHANGED <<calm, link, lfdVars, gfdVars>>

-----------------------------------------------------------------------------
LfdStep(l) ==
    \/ OpenFails(l)
    \/ Registered(l)
    \/ ReportChanges(l)
    \/ AnswerHeartbeat(l)
    \/ SenderGetsLock(l)
    \/ ReceiverGetsLock(l)
    \/ DrainCompletes(l)
    \/ ConnectionFails(l)
    \/ CloseCompletes(l)
    \/ Retry(l)

HandlerStep(l, k) ==
    \/ HandleRegister(l, k)
    \/ RejectDuplicate(l, k)
    \/ HandleReport(l, k)
    \/ HandleAck(l, k)
    \/ HeartbeatDue(l, k)
    \/ RejectMessage(l, k)
    \/ SessionFails(l, k)

Next ==
    \/ \E l \in Lfds :
          \/ SetHealth(l) \/ LfdExits(l) \/ LfdStarts(l) \/ LfdStep(l)
          \/ \E k \in Slots :
                \/ OpenSucceeds(l, k) \/ HandlerStep(l, k)
                \/ LinkBreaks(l, k) \/ TcpAborts(l, k)
                \/ RogueOpens(l, k) \/ RogueWrites(l, k)
    \/ GfdExits \/ GfdStarts \/ Settle

Spec == Init /\ [][Next]_vars

(***************************************************************************)
(* The event loops run every task that can run, asyncio.Lock serves its    *)
(* waiters in order, timers fire and TCP gives up in the end.  Nothing     *)
(* makes a health change, a fault or a restart happen.                     *)
(***************************************************************************)
Fairness ==
    /\ \A l \in Correct :
          /\ WF_vars(OpenFails(l))
          /\ WF_vars(\E k \in Slots : OpenSucceeds(l, k))
          /\ WF_vars(Registered(l))
          /\ WF_vars(ReportChanges(l))
          /\ WF_vars(AnswerHeartbeat(l))
          /\ SF_vars(SenderGetsLock(l))
          /\ SF_vars(ReceiverGetsLock(l))
          /\ WF_vars(DrainCompletes(l))
          /\ WF_vars(ConnectionFails(l))
          /\ WF_vars(CloseCompletes(l))
          /\ WF_vars(Retry(l))
    /\ \A l \in Lfds, k \in Slots :
          /\ WF_vars(HandlerStep(l, k))
          /\ WF_vars(TcpAborts(l, k))

FairSpec == Spec /\ Fairness

-----------------------------------------------------------------------------
(***************************************************************************)
(* Properties.                                                             *)
(***************************************************************************)
\* The last report in a queue, or the member set if it holds none, is health.
Tells(l, queue, health) ==
    LET reports == {i \in DOMAIN queue :
                       queue[i].type \in {"register", "membership"}} IN
    IF reports = {}
    THEN (LfdServers[l] \in members) = health
    ELSE \A i \in reports :
            (\A j \in reports : j <= i) => queue[i].healthy = health

(***************************************************************************)
(* No change of health is lost between set_health and the GFD, however it  *)
(* falls between the registration, the two writers and their lock: over a  *)
(* registered connection, what the GFD has and will read ends with the     *)
(* health of the reporter, unless report_changes still has to send it.     *)
(***************************************************************************)
NoLostUpdate ==
    \A l \in Correct :
        /\ reporter[l] = "running"
        /\ session[l] = cur[l]
        /\ ~changed[l]
        /\ sender[l] # "blocked"
        => Tells(l, toGfd[l][cur[l]], healthy[l])

(***************************************************************************)
(* The GFD never ends the session of a correct LFD with a ProtocolError:   *)
(* reports that overlap heartbeat rounds, late answers and new connections *)
(* never make it read a message its handler does not accept there.         *)
(***************************************************************************)
NeverRejectsLfd ==
    \A l \in Correct, k \in Slots : HasMessage(l, k) => Expected(l, k)

(***************************************************************************)
(* Whatever its peers send, every member is watched: its LFD has a session *)
(* whose handler is sending heartbeats, so its failure will be noticed.    *)
(***************************************************************************)
MembersAreWatched ==
    \A l \in Lfds :
        LfdServers[l] \in members =>
            /\ session[l] # 0
            /\ handler[l][session[l]] \in {"ack", "between"}

(***************************************************************************)
(* One LFD is served by one handler at a time: a connection that registers *)
(* while another one of the same LFD is registered takes nothing over.     *)
(***************************************************************************)
OneHandlerPerLfd ==
    \A l \in Lfds, k \in Slots :
        handler[l][k] \in {"ack", "between"} => session[l] = k

(***************************************************************************)
(* Once failures stop and an LFD finds its replica always healthy, or      *)
(* always not, the member set of a running GFD comes to agree with it for  *)
(* ever, whatever the other LFDs find: half-open connections are given up, *)
(* refused registrations are repeated, failed LFDs lose their replica, and *)
(* the last of many changes is the one that is reported.                   *)
(***************************************************************************)
Converges ==
    \A l \in Correct, h \in BOOLEAN :
        calm /\ [](healthy[l] = h)
            ~> [](gfdUp => (LfdServers[l] \in members) = h)

=============================================================================
