------------------------------ MODULE Programs ------------------------------
(***************************************************************************)
(* The four programs of the repository, server/main.py, client/main.py,    *)
(* lfd/main.py and gfd/main.py, from the configuration file to the end of  *)
(* the process: load_config, the construction of the application, and      *)
(* then, for a replica and the GFD, start and close with connections that  *)
(* come and go, and for an LFD the delays between its failed heartbeats.   *)
(* What the applications do in between is the subject of the other         *)
(* modules.                                                                *)
(***************************************************************************)
EXTENDS Naturals, Sequences, FiniteSets

CONSTANTS
    Replicas, ClientIds, LfdIds,    \* the ids a file may define
    MaxPort, MaxServers, MaxDelay,  \* bounds of what is in the file
    MaxAttempt,                     \* bound: consecutive failures of an LFD
    Connections                     \* connections at a time

ASSUME ProgramsAssumption ==
    /\ MaxPort \in Nat \ {0}
    /\ MaxServers \in Nat
    /\ MaxDelay \in Nat \ {0}
    /\ MaxAttempt \in Nat

VARIABLES
    program,                                            \* what has been started
    stage, servers, clients, lfds, gfd, outcome,        \* Deployment
    transport, handler, buffered, gone,                 \* StreamServer
    waits, app, toClose, toJoin, unseen,                \* the two life cycles
    initial, maximum, attempt, delay                    \* Backoff

configVars == <<stage, servers, clients, lfds, gfd, outcome>>

connectionVars == <<transport, handler, buffered, gone>>

appVars == <<waits, app, toClose, toJoin, unseen>>

backoffVars == <<initial, maximum, attempt, delay>>

vars == <<program, configVars, connectionVars, appVars, backoffVars>>

Config == INSTANCE Deployment

Server == INSTANCE ServerLifecycle

Gfd == INSTANCE GfdLifecycle

Backoff == INSTANCE Backoff

TypeOK ==
    /\ program \in {"none", "server", "client", "lfd", "gfd"}
    /\ Config!TypeOK
    /\ IF program = "gfd" THEN Gfd!TypeOK ELSE Server!TypeOK
    /\ program = "lfd" => Backoff!TypeOK

Init ==
    /\ program = "none"
    /\ Config!Init
    /\ Server!Init
    /\ Gfd!Init
    /\ Backoff!Init

-----------------------------------------------------------------------------
LoadConfig ==
    /\ Config!ReadSection
    /\ UNCHANGED <<program, connectionVars, appVars, backoffVars>>

\* A main looks up its id and constructs its application.
Launch(name, result) ==
    /\ Config!Launched(result)
    /\ program' = IF result = "runs" THEN name ELSE program
    /\ UNCHANGED <<connectionVars, appVars>>

LaunchServer(id) ==
    /\ Launch("server", Config!ServerResult(id))
    /\ UNCHANGED backoffVars

LaunchClient(id) ==
    /\ Launch("client", Config!ClientResult(id))
    /\ UNCHANGED backoffVars

\* LfdApp makes its backoff from the two delays of its table.
LaunchLfd(id) ==
    /\ Launch("lfd", Config!LfdResult(id))
    /\ IF Config!LfdResult(id) = "runs"
       THEN Backoff!Create(lfds[id].initial_backoff, lfds[id].max_backoff)
       ELSE UNCHANGED backoffVars

LaunchGfd ==
    /\ Launch("gfd", Config!GfdResult)
    /\ UNCHANGED backoffVars

\* A step of one part leaves the others alone.
RunServer(step) ==
    /\ program = "server"
    /\ step
    /\ UNCHANGED <<program, configVars, backoffVars>>

RunGfd(step) ==
    /\ program = "gfd"
    /\ step
    /\ UNCHANGED <<program, configVars, backoffVars>>

RunLfd ==
    /\ program = "lfd"
    /\ Backoff!Next
    /\ UNCHANGED <<program, configVars, connectionVars, appVars>>

Next ==
    \/ LoadConfig
    \/ \E id \in Replicas : LaunchServer(id)
    \/ \E id \in ClientIds : LaunchClient(id)
    \/ \E id \in LfdIds : LaunchLfd(id)
    \/ LaunchGfd
    \/ RunServer(Server!Next)
    \/ RunGfd(Gfd!Next)
    \/ RunLfd

Spec == Init /\ [][Next]_vars

\* A step of asyncio, of a handler or of a peer, in either program.
OnConnection(step) ==
    step /\ UNCHANGED <<program, configVars, appVars, backoffVars>>

(***************************************************************************)
(* The event loop runs what can run; a drain that is suspended may hold a  *)
(* handler up.  Peers read what they are sent; they need not leave.        *)
(***************************************************************************)
Fairness ==
    /\ WF_vars(RunServer(Server!AppStep))
    /\ WF_vars(RunGfd(Gfd!AppStep))
    /\ \A k \in Connections :
        /\ WF_vars(OnConnection(Server!PeerReads(k)))
        /\ WF_vars(OnConnection(Server!ConnectionLost(k)))
        /\ WF_vars(OnConnection(Server!HandlerStarts(k)))
        /\ WF_vars(OnConnection(~buffered[k] /\ Server!HandlerReadsEnd(k)))
        /\ WF_vars(OnConnection(Server!HandlerDone(k)))

FairSpec == Spec /\ Fairness

-----------------------------------------------------------------------------
\* load_config validates the file fully: with a configuration it accepts, every
\* process of a configured id runs.  None ends with an exception its main does
\* not handle, because what the constructors demand is implied by what was
\* checked, and an error in the file is reported by all processes or by none.
LoadedConfigRuns ==
    stage = "loaded" =>
        /\ \A id \in DOMAIN servers : Config!ServerResult(id) = "runs"
        /\ \A id \in DOMAIN clients : Config!ClientResult(id) = "runs"
        /\ \A id \in DOMAIN lfds : Config!LfdResult(id) = "runs"

\* When close of a replica returns, the only handlers left are those of
\* connections that had been accepted but not registered when close looked at
\* its sets: every other handler has been joined, also one that registered
\* while the writers were being closed.
LeftoverIsUnseen ==
    program = "server" /\ app = "closed" =>
        \A k \in Connections : handler[k] # "none" => k \in unseen

InClose == app \in {"writers", "tasks", "servers"}

\* close of a replica ends although its peers stay connected, on every supported
\* version of Python, unless a connection was accepted that it could not see.
CloseEndsUnlessRaced ==
    program = "server" /\ InClose /\ unseen = {} ~> app = "closed"

\* When close of the GFD returns, no LFD is connected any more, except over a
\* connection that was accepted and not registered when close last looked at
\* its sets; where wait_closed waits there is none of those either, and close
\* always returns.  Elsewhere it may raise CancelledError instead, because it
\* cancelled a handler in its last close_writer; also then it has closed every
\* other connection, though it has waited for none of them to be flushed.
ClosedIsDisconnected ==
    program = "gfd" =>
        /\ app = "closed" => Server!Attached \subseteq IF waits THEN {} ELSE unseen
        /\ app = "raised" =>
              /\ ~waits
              /\ \A k \in Server!Attached \ unseen : transport[k] = "closing"

\* Where no peer keeps its connection for ever, close of a replica returns, close
\* of the GFD returns or raises, and a start that could not bind its second port
\* reports it.
EndsWhenPeersLeave ==
    (\A k \in Connections : WF_vars(OnConnection(Server!PeerLeaves(k)))) =>
        /\ InClose ~> app \in {"closed", "raised"}
        /\ app = "failing" ~> app = "idle"

\* The delays between failed heartbeats start at the initial one and double up
\* to the maximum: capping the exponent never stops the growth short of it.
DelaysDouble ==
    [][program = "lfd" /\ Backoff!NextDelay =>
          delay' = IF attempt = 0 THEN initial
                   ELSE Backoff!Smaller(2 * delay, maximum)]_vars
=============================================================================
