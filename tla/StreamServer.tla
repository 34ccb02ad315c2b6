---------------------------- MODULE StreamServer ----------------------------
(***************************************************************************)
(* The connections of an asyncio stream server and the tasks that handle   *)
(* them, as far as starting and closing the server is concerned: what      *)
(* ServerApp (src/ft_system/server/app.py) and GfdApp                      *)
(* (src/ft_system/gfd/app.py) have in common.  What the messages say does  *)
(* not matter here; the other modules are about that.                      *)
(*                                                                         *)
(* A connection belongs to the server from the moment its transport is     *)
(* made.  Its handler is then only a task that has been created: the       *)
(* application learns of the connection when that task first runs and      *)
(* registers itself and its writer.                                        *)
(***************************************************************************)
EXTENDS Naturals, FiniteSets

CONSTANT Connections    \* identities of connections, reused after their end

VARIABLES
    transport,      \* the transport: open, closing until flushed, lost
    handler,        \* the task: created, running, in its last close_writer
    buffered,       \* is a written message still in the transport's buffer
    gone            \* has the peer closed its end

connectionVars == <<transport, handler, buffered, gone>>

Transports == {"none", "open", "closing", "lost"}

(***************************************************************************)
(* A task cancelled in its last close_writer ends without leaving the      *)
(* application's sets.  "abandoned": the connection had been lost by then. *)
(* "cancelled": it had not, so that the future the task was waiting for,   *)
(* which belongs to the stream protocol, has been cancelled with it.       *)
(***************************************************************************)
Handlers == {"none", "created", "running", "closing", "abandoned", "cancelled"}

ConnectionTypeOK ==
    /\ transport \in [Connections -> Transports]
    /\ handler \in [Connections -> Handlers]
    /\ buffered \in [Connections -> BOOLEAN]
    /\ gone \in [Connections -> BOOLEAN]

ConnectionInit ==
    /\ transport = [k \in Connections |-> "none"]
    /\ handler = [k \in Connections |-> "none"]
    /\ buffered = [k \in Connections |-> FALSE]
    /\ gone = [k \in Connections |-> FALSE]

\* The connections whose handler has not yet run, and those whose handler is
\* in the application's sets of tasks and writers.
Unregistered == {k \in Connections : handler[k] = "created"}

Registered == {k \in Connections : handler[k] \notin {"none", "created"}}

\* The server's own count of connections, which wait_closed looks at.
Attached == {k \in Connections : transport[k] \in {"open", "closing"}}

\* writer.close() on the connections of a set.
Closing(set) ==
    [k \in Connections |->
        IF k \in set /\ transport[k] = "open" THEN "closing" ELSE transport[k]]

\* close_writer has returned for every connection of a set.
Flushed(set) == \A k \in set : transport[k] \in {"lost", "none"}

\* The tasks of a set are done.
Ended(set) == \A k \in set : handler[k] \in {"none", "abandoned", "cancelled"}

-----------------------------------------------------------------------------
(***************************************************************************)
(* asyncio and the peers (external).                                       *)
(***************************************************************************)
Accept(k) ==
    /\ transport[k] = "none"
    /\ handler[k] = "none"
    /\ transport' = [transport EXCEPT ![k] = "open"]
    /\ handler' = [handler EXCEPT ![k] = "created"]
    /\ buffered' = [buffered EXCEPT ![k] = FALSE]
    /\ gone' = [gone EXCEPT ![k] = FALSE]

PeerReads(k) ==
    /\ buffered[k]
    /\ buffered' = [buffered EXCEPT ![k] = FALSE]
    /\ UNCHANGED <<transport, handler, gone>>

\* The peer's kernel takes or refuses what is left; nothing stays buffered.
PeerLeaves(k) ==
    /\ k \in Attached
    /\ ~gone[k]
    /\ gone' = [gone EXCEPT ![k] = TRUE]
    /\ buffered' = [buffered EXCEPT ![k] = FALSE]
    /\ UNCHANGED <<transport, handler>>

\* connection_lost, once a closed transport is flushed.
ConnectionLost(k) ==
    /\ transport[k] = "closing"
    /\ ~buffered[k]
    /\ transport' = [transport EXCEPT ![k] = "lost"]
    /\ UNCHANGED <<handler, buffered, gone>>

\* connection_lost with an error.
Reset(k) ==
    /\ k \in Attached
    /\ transport' = [transport EXCEPT ![k] = "lost"]
    /\ buffered' = [buffered EXCEPT ![k] = FALSE]
    /\ UNCHANGED <<handler, gone>>

-----------------------------------------------------------------------------
(***************************************************************************)
(* The handlers.                                                           *)
(***************************************************************************)
\* The task runs for the first time and registers itself and its writer.
HandlerStarts(k) ==
    /\ handler[k] = "created"
    /\ handler' = [handler EXCEPT ![k] = "running"]
    /\ UNCHANGED <<transport, buffered, gone>>

\* A message is read and answered.
HandlerWrites(k) ==
    /\ handler[k] = "running"
    /\ transport[k] = "open"
    /\ ~gone[k]
    /\ ~buffered[k]
    /\ buffered' = [buffered EXCEPT ![k] = TRUE]
    /\ UNCHANGED <<transport, handler, gone>>

\* The handler returns: its finally clause closes the writer and waits.
Return(k) ==
    /\ handler[k] = "running"
    /\ handler' = [handler EXCEPT ![k] = "closing"]
    /\ transport' = Closing({k})
    /\ UNCHANGED <<buffered, gone>>

\* The end of the stream, or an error of the connection, is read.
HandlerReadsEnd(k) == (gone[k] \/ transport[k] = "lost") /\ Return(k)

\* A message is refused or a timeout expires.
HandlerRefuses(k) == transport[k] = "open" /\ Return(k)

\* Mutation of HandlerDone: the task stays in the application's sets.
HandlerDoneKept(k) ==
    /\ handler[k] = "closing"
    /\ transport[k] = "lost"
    /\ handler' = [handler EXCEPT ![k] = "running"]
    /\ UNCHANGED <<transport, buffered, gone>>

\* close_writer returns, and the task leaves the application's sets.
HandlerDone(k) ==
    /\ handler[k] = "closing"
    /\ transport[k] = "lost"
    /\ handler' = [handler EXCEPT ![k] = "none"]
    /\ transport' = [transport EXCEPT ![k] = "none"]
    /\ UNCHANGED <<buffered, gone>>

ConnectionStep(k) ==
    \/ PeerReads(k)
    \/ PeerLeaves(k)
    \/ ConnectionLost(k)
    \/ Reset(k)
    \/ HandlerStarts(k)
    \/ HandlerWrites(k)
    \/ HandlerReadsEnd(k)
    \/ HandlerRefuses(k)
    \/ HandlerDone(k)
=============================================================================
