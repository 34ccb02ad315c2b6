--------------------------- MODULE ServerLifecycle ---------------------------
(***************************************************************************)
(* Starting and closing a replica: start, _serve_connection and close of   *)
(* ServerApp (src/ft_system/server/app.py) as server/main.py calls them,   *)
(* with connections that come, stay and go meanwhile.  Its properties are  *)
(* stated in Programs.                                                     *)
(***************************************************************************)
EXTENDS StreamServer

VARIABLES
    waits,      \* does Server.wait_closed wait for connections (Python 3.12)
    app,        \* where start or close is
    toClose,    \* writers: what close saw of _active_writers
    toJoin,     \* tasks: what it saw of _handler_tasks
    unseen      \* history: accepted, but not registered when close looked

appVars == <<waits, app, toClose, toJoin, unseen>>

vars == <<connectionVars, appVars>>

(***************************************************************************)
(* "binding": the client port listens, the heartbeat port is being bound;  *)
(* "failing": start waits for its client port to close; "writers", "tasks" *)
(* and "servers" are the three awaits of close.                            *)
(***************************************************************************)
Places == {"idle", "binding", "failing", "running", "writers", "tasks",
           "servers", "closed"}

TypeOK ==
    /\ ConnectionTypeOK
    /\ waits \in BOOLEAN
    /\ app \in Places
    /\ toClose \subseteq Connections
    /\ toJoin \subseteq Connections
    /\ unseen \subseteq Connections

\* The supported versions of Python differ in wait_closed.
Init ==
    /\ ConnectionInit
    /\ waits \in BOOLEAN
    /\ app = "idle"
    /\ toClose = {}
    /\ toJoin = {}
    /\ unseen = {}

Goto(place) == app' = place /\ UNCHANGED <<waits, toClose, toJoin, unseen>>

\* What wait_closed of a closed server waits for.
ServersClosed == waits => Attached = {}

-----------------------------------------------------------------------------
\* start: the client port.
BindClientPort ==
    /\ app = "idle"
    /\ Goto("binding")
    /\ UNCHANGED connectionVars

BindHeartbeatPort ==
    /\ app = "binding"
    /\ Goto("running")
    /\ UNCHANGED connectionVars

\* The port is taken: the client port is closed again.
HeartbeatBindFails ==
    /\ app = "binding"
    /\ Goto("failing")
    /\ UNCHANGED connectionVars

StartRaises ==
    /\ app = "failing"
    /\ ServersClosed
    /\ Goto("idle")
    /\ UNCHANGED connectionVars

\* Mutation of Listening: start leaves its client port open when it fails.
ListeningFailed == app \in {"binding", "running", "failing"}

\* Is a port open, so that a connection can come in?
Listening == app \in {"binding", "running"}

Connect(k) ==
    /\ Listening
    /\ Accept(k)
    /\ UNCHANGED appVars

-----------------------------------------------------------------------------
\* Mutation of BeginClose: the writers are not closed.
BeginCloseOpen ==
    /\ app \in {"running", "closed"}
    /\ toClose' = Registered
    /\ unseen' = Unregistered
    /\ app' = IF Registered = {} THEN "servers" ELSE "writers"
    /\ UNCHANGED <<waits, toJoin, connectionVars>>

\* close, up to its first await.  Without writers there are no tasks either.
\* It may be called again: there are no servers then.
BeginClose ==
    /\ app \in {"running", "closed"}
    /\ toClose' = Registered
    /\ unseen' = Unregistered
    /\ transport' = Closing(Registered)
    /\ app' = IF Registered = {} THEN "servers" ELSE "writers"
    /\ UNCHANGED <<waits, toJoin, handler, buffered, gone>>

\* Mutation of WritersClosed: the handlers are not awaited.
WritersClosedOnly ==
    /\ app = "writers"
    /\ Flushed(toClose)
    /\ Goto("servers")
    /\ UNCHANGED connectionVars

\* The tasks are looked up after the writers are closed.
WritersClosed ==
    /\ app = "writers"
    /\ Flushed(toClose)
    /\ toJoin' = Registered
    /\ app' = "tasks"
    /\ UNCHANGED <<waits, toClose, unseen, connectionVars>>

TasksDone ==
    /\ app = "tasks"
    /\ Ended(toJoin)
    /\ Goto("servers")
    /\ UNCHANGED connectionVars

CloseReturns ==
    /\ app = "servers"
    /\ ServersClosed
    /\ Goto("closed")
    /\ UNCHANGED connectionVars

AppStep ==
    \/ BindHeartbeatPort
    \/ HeartbeatBindFails
    \/ StartRaises
    \/ WritersClosed
    \/ TasksDone
    \/ CloseReturns

Next ==
    \/ BindClientPort
    \/ AppStep
    \/ BeginClose
    \/ \E k \in Connections :
        \/ Connect(k)
        \/ ConnectionStep(k) /\ UNCHANGED appVars
=============================================================================
