---------------------------- MODULE GfdLifecycle ----------------------------
(***************************************************************************)
(* Starting and closing the GFD: start, close and the life of a _handle    *)
(* task of GfdApp (src/ft_system/gfd/app.py) as gfd/main.py calls them.    *)
(* An LFD that answers its heartbeats stays connected; what a session does *)
(* meanwhile is in Membership.  Its properties are stated in Programs.     *)
(***************************************************************************)
EXTENDS StreamServer

VARIABLES
    waits,      \* does Server.wait_closed wait for connections (Python 3.12)
    app,        \* where start or close is
    toJoin,     \* tasks: what close saw of _tasks
    toClose,    \* what it then saw of _writers
    unseen      \* history: accepted, but not registered at that moment

appVars == <<waits, app, toJoin, toClose, unseen>>

vars == <<connectionVars, appVars>>

\* "servers", "tasks" and "writers" are the three awaits of close; it ends by
\* returning or by raising CancelledError, and in main that ends the process.
Places == {"idle", "running", "servers", "tasks", "writers", "closed", "raised"}

TypeOK ==
    /\ ConnectionTypeOK
    /\ waits \in BOOLEAN
    /\ app \in Places
    /\ toJoin \subseteq Connections
    /\ toClose \subseteq Connections
    /\ unseen \subseteq Connections

Init ==
    /\ ConnectionInit
    /\ waits \in BOOLEAN
    /\ app = "idle"
    /\ toJoin = {}
    /\ toClose = {}
    /\ unseen = {}

Goto(place) == app' = place /\ UNCHANGED <<waits, toJoin, toClose, unseen>>

Start ==
    /\ app = "idle"
    /\ Goto("running")
    /\ UNCHANGED connectionVars

Connect(k) ==
    /\ app = "running"
    /\ Accept(k)
    /\ UNCHANGED appVars

-----------------------------------------------------------------------------
\* close stops listening and waits for the server first.
BeginClose ==
    /\ app = "running"
    /\ Goto("servers")
    /\ UNCHANGED connectionVars

(***************************************************************************)
(* A cancelled handler that is serving runs its finally clause; one that   *)
(* is in it already ends there, and stays in _tasks and _writers.  If it   *)
(* is still waiting for the connection, what it waits for is cancelled as  *)
(* well.  Before Python 3.12, wait_for drops a cancellation that arrives   *)
(* together with the message it waits for: such a handler goes on.         *)
(***************************************************************************)
CancelTasks ==
    /\ app = "servers"
    /\ waits => Attached = {}
    /\ toJoin' = Registered
    /\ \E missed \in SUBSET {k \in Registered : handler[k] = "running"} :
        /\ waits => missed = {}
        /\ handler' = [k \in Connections |->
              CASE k \in missed -> handler[k]
                [] handler[k] = "running" -> "closing"
                [] handler[k] = "closing" ->
                       IF k \in Attached THEN "cancelled" ELSE "abandoned"
                [] OTHER -> handler[k]]
        /\ transport' = Closing(Registered \ missed)
    /\ app' = "tasks"
    /\ UNCHANGED <<waits, toClose, unseen, buffered, gone>>

\* Mutation of TasksDone: the writers that are left are not closed.
TasksDoneOnly ==
    /\ app = "tasks"
    /\ Ended(toJoin)
    /\ unseen' = Unregistered
    /\ app' = "writers"
    /\ UNCHANGED <<waits, toJoin, toClose, connectionVars>>

TasksDone ==
    /\ app = "tasks"
    /\ Ended(toJoin)
    /\ toClose' = Registered
    /\ unseen' = Unregistered
    /\ transport' = Closing(Registered)
    /\ app' = "writers"
    /\ UNCHANGED <<waits, toJoin, handler, buffered, gone>>

\* The writers close waits for whose wait_closed has been cancelled already.
Unawaitable == {k \in toClose : handler[k] = "cancelled"}

CloseReturns ==
    /\ app = "writers"
    /\ Unawaitable = {}
    /\ Flushed(toClose)
    /\ Goto("closed")
    /\ UNCHANGED connectionVars

\* Such a writer makes the last gather raise as soon as every writer has been
\* closed: it waits for none of them, and nothing handles the CancelledError.
CloseRaises ==
    /\ app = "writers"
    /\ Unawaitable # {}
    /\ Goto("raised")
    /\ UNCHANGED connectionVars

AppStep == CancelTasks \/ TasksDone \/ CloseReturns \/ CloseRaises

Next ==
    \/ Start
    \/ BeginClose
    \/ AppStep
    \/ \E k \in Connections :
        \/ Connect(k)
        \/ ConnectionStep(k) /\ UNCHANGED appVars
=============================================================================
