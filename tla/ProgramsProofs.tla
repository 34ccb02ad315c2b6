---------------------------- MODULE ProgramsProofs ----------------------------
(***************************************************************************)
(* What holds of the four programs for every configuration file, whatever  *)
(* the number of its ids and the size of its numbers, and for every number *)
(* of connections.                                                         *)
(***************************************************************************)
EXTENDS Programs, TLAPS

-----------------------------------------------------------------------------
(***************************************************************************)
(* The configuration.  What load_config has checked of a section has to be *)
(* remembered until the last one, where the references are looked at.      *)
(***************************************************************************)
ValidClients ==
    \A id \in DOMAIN clients :
        /\ clients[id] \in Config!ClientTables
        /\ Config!ValidClient(clients[id])

ValidLfds ==
    \A id \in DOMAIN lfds :
        lfds[id] \in Config!LfdTables /\ Config!ValidLfd(lfds[id])

ConfigInv ==
    /\ stage \in {"lfds", "gfd", "loaded"} => ValidClients
    /\ stage \in {"gfd", "loaded"} => ValidLfds
    /\ stage = "loaded" => Config!ReferencesResolve

\* A section that is accepted consists of valid tables.
LEMMA SectionTables ==
    ASSUME NEW ids, NEW tables, NEW section \in Config!Sections(ids, tables)
    PROVE  \A id \in DOMAIN section : section[id] \in tables
    BY DEF Config!Sections

\* What the rest of the programs leaves alone.
LEMMA ConfigUnchanged == ConfigInv /\ UNCHANGED configVars => ConfigInv'
    BY DEF ConfigInv, ValidClients, ValidLfds, configVars,
           Config!ReferencesResolve

\* load_config reads a section.
LEMMA ConfigRead ==
    ASSUME ConfigInv, Config!ReadSection
    PROVE  ConfigInv'
  <1>1. ASSUME NEW section \in Config!Sections(Replicas, Config!ServerTables),
               Config!ReadServers(section)
        PROVE  ConfigInv'
    <2>1. stage' \in {"clients", "refused"}
      BY <1>1 DEF Config!ReadServers
    <2> QED
      BY <2>1 DEF ConfigInv
  <1>2. ASSUME NEW section \in Config!Sections(ClientIds, Config!ClientTables),
               Config!ReadClients(section)
        PROVE  ConfigInv'
    <2>1. CASE stage' = "refused"
      BY <2>1 DEF ConfigInv
    <2>2. CASE stage' # "refused"
      <3>1. /\ stage' = "lfds" /\ clients' = section
            /\ \A id \in DOMAIN section : Config!ValidClient(section[id])
        BY <1>2, <2>2 DEF Config!ReadClients, Config!Parsed
      <3>2. ValidClients'
        BY <3>1, SectionTables DEF ValidClients
      <3> QED
        BY <3>1, <3>2 DEF ConfigInv
    <2> QED
      BY <2>1, <2>2
  <1>3. ASSUME NEW section \in Config!Sections(LfdIds, Config!LfdTables),
               Config!ReadLfds(section)
        PROVE  ConfigInv'
    <2>1. CASE stage' = "refused"
      BY <2>1 DEF ConfigInv
    <2>2. CASE stage' # "refused"
      <3>1. /\ stage = "lfds" /\ stage' = "gfd" /\ lfds' = section
            /\ clients' = clients
            /\ \A id \in DOMAIN section : Config!ValidLfd(section[id])
        BY <1>3, <2>2 DEF Config!ReadLfds, Config!Parsed
      <3>2. ValidLfds'
        BY <3>1, SectionTables DEF ValidLfds
      <3>3. ValidClients'
        BY <3>1 DEF ConfigInv, ValidClients
      <3> QED
        BY <3>1, <3>2, <3>3 DEF ConfigInv
    <2> QED
      BY <2>1, <2>2
  <1>4. ASSUME NEW section, Config!ReadGfd(section) PROVE ConfigInv'
    <2>1. CASE stage' = "refused"
      BY <2>1 DEF ConfigInv
    <2>2. CASE stage' # "refused"
      <3>1. /\ stage = "gfd" /\ stage' = "loaded" /\ Config!ReferencesResolve
            /\ UNCHANGED <<servers, clients, lfds>>
        BY <1>4, <2>2 DEF Config!ReadGfd
      <3> QED
        BY <3>1
        DEF ConfigInv, ValidClients, ValidLfds, Config!ReferencesResolve
    <2> QED
      BY <2>1, <2>2
  <1> QED
    BY <1>1, <1>2, <1>3, <1>4 DEF Config!ReadSection

\* Every step of every program.
LEMMA ConfigNext == ConfigInv /\ [Next]_vars => ConfigInv'
  <1> SUFFICES ASSUME ConfigInv, [Next]_vars PROVE ConfigInv'
    OBVIOUS
  <1>1. CASE LoadConfig
    BY <1>1, ConfigRead DEF LoadConfig
  <1>2. ASSUME NEW name, NEW result, Launch(name, result) PROVE ConfigInv'
    <2>1. stage' = "used"
      BY <1>2 DEF Launch, Config!Launched
    <2> QED
      BY <2>1 DEF ConfigInv
  <1>3. CASE UNCHANGED configVars
    BY <1>3, ConfigUnchanged
  <1>4. \/ LoadConfig
        \/ \E name, result : Launch(name, result)
        \/ UNCHANGED configVars
    BY DEF Next, LaunchServer, LaunchClient, LaunchLfd, LaunchGfd, RunServer,
           RunGfd, RunLfd, vars
  <1> QED
    BY <1>1, <1>2, <1>3, <1>4

\* What load_config has checked stays checked until it returns.
THEOREM ConfigInvariance == Spec => []ConfigInv
  <1>1. Init => ConfigInv
    BY DEF Init, Config!Init, ConfigInv
  <1> QED
    BY <1>1, ConfigNext, PTL DEF Spec

(***************************************************************************)
(* With a configuration load_config accepts, the process of every          *)
(* configured id runs: no main meets a reference that does not resolve, no *)
(* constructor raises ValueError.                                          *)
(***************************************************************************)
THEOREM LoadedConfigAlwaysRuns == Spec => []LoadedConfigRuns
  <1>1. ConfigInv => LoadedConfigRuns
    <2> SUFFICES ASSUME ConfigInv, stage = "loaded" PROVE LoadedConfigRuns
      BY DEF LoadedConfigRuns
    <2>0. ValidClients /\ ValidLfds /\ Config!ReferencesResolve
      BY DEF ConfigInv
    <2>1. \A id \in DOMAIN servers : Config!ServerResult(id) = "runs"
      BY DEF Config!ServerResult
    <2>2. ASSUME NEW id \in DOMAIN clients
          PROVE  Config!ClientResult(id) = "runs"
      <3> DEFINE ids == clients[id].server_ids
      <3>1. \A i \in DOMAIN ids : ids[i] \in DOMAIN servers
        BY <2>0 DEF Config!ReferencesResolve
      <3>2. /\ ids # <<>>
            /\ \A i, j \in DOMAIN ids : ids[i] = ids[j] => i = j
            /\ clients[id].timeouts > 0
        BY <2>0 DEF ValidClients, Config!ValidClient, Config!ValidServerIds
      <3>3. clients[id].timeouts # 0
        BY <2>0, <3>2 DEF ValidClients, Config!ClientTables, Config!Timeouts
      <3> QED
        BY <3>1, <3>2, <3>3 DEF Config!ClientResult
    <2>3. ASSUME NEW id \in DOMAIN lfds PROVE Config!LfdResult(id) = "runs"
      <3>1. lfds[id].server_id \in DOMAIN servers
        BY <2>0 DEF Config!ReferencesResolve
      <3>2. lfds[id] \in Config!LfdTables /\ Config!ValidLfd(lfds[id])
        BY <2>0 DEF ValidLfds
      <3>3. /\ lfds[id].timeouts \in 0..1
            /\ lfds[id].initial_backoff \in 0..MaxDelay
            /\ lfds[id].max_backoff \in 0..MaxDelay
        BY <3>2 DEF Config!LfdTables, Config!Timeouts, Config!Delays
      <3>4. /\ lfds[id].timeouts > 0
            /\ lfds[id].initial_backoff > 0
            /\ lfds[id].initial_backoff <= lfds[id].max_backoff
        BY <3>2 DEF Config!ValidLfd
      <3>5. /\ lfds[id].timeouts # 0
            /\ lfds[id].initial_backoff # 0
            /\ ~(lfds[id].initial_backoff > lfds[id].max_backoff)
        BY <3>3, <3>4, ProgramsAssumption
      <3> QED
        BY <3>1, <3>5 DEF Config!LfdResult
    <2> QED
      BY <2>1, <2>2, <2>3 DEF LoadedConfigRuns
  <1> QED
    BY <1>1, ConfigInvariance, PTL

-----------------------------------------------------------------------------
(***************************************************************************)
(* Connections.  What one step of a connection can do to its task and its  *)
(* transport; no such step accepts a connection.                           *)
(***************************************************************************)
ConnectionTypes ==
    /\ transport \in [Connections -> Server!Transports]
    /\ handler \in [Connections -> Server!Handlers]

HandlerMoves(k) ==
    \/ handler'[k] = handler[k]
    \/ handler[k] = "created" /\ handler'[k] = "running"
    \/ handler[k] = "running" /\ handler'[k] = "closing"
    \/ handler[k] = "closing" /\ handler'[k] = "none" /\ transport'[k] = "none"

NoneAccepted ==
    /\ \A k \in Connections : HandlerMoves(k)
    /\ \A k \in Connections : transport'[k] \in {"open", "closing"}
                                  => transport[k] \in {"open", "closing"}
    /\ \A k \in Connections : transport'[k] = "open" => transport[k] = "open"

\* A step of asyncio, of a handler or of a peer, in the program of a replica.
LEMMA ConnectionMoves ==
    ASSUME ConnectionTypes, NEW k \in Connections, Server!ConnectionStep(k)
    PROVE  ConnectionTypes' /\ NoneAccepted
  <1> USE DEF ConnectionTypes, NoneAccepted, HandlerMoves, Server!Transports,
              Server!Handlers
  <1>1. CASE \/ Server!PeerReads(k) \/ Server!PeerLeaves(k)
             \/ Server!HandlerWrites(k)
    BY <1>1 DEF Server!PeerReads, Server!PeerLeaves, Server!HandlerWrites
  <1>2. CASE Server!ConnectionLost(k) \/ Server!Reset(k)
    BY <1>2 DEF Server!ConnectionLost, Server!Reset
  <1>3. CASE Server!HandlerStarts(k)
    BY <1>3 DEF Server!HandlerStarts
  <1>4. CASE Server!Return(k)
    BY <1>4 DEF Server!Return, Server!Closing
  <1>5. CASE Server!HandlerDone(k)
    BY <1>5 DEF Server!HandlerDone
  <1> QED
    BY <1>1, <1>2, <1>3, <1>4, <1>5
    DEF Server!ConnectionStep, Server!HandlerReadsEnd, Server!HandlerRefuses

\* The same in the program of the GFD.
LEMMA SameConnections ==
    ASSUME NEW k
    PROVE  /\ Gfd!ConnectionStep(k) <=> Server!ConnectionStep(k)
           /\ Gfd!Accept(k) <=> Server!Accept(k)
           /\ Gfd!Attached = Server!Attached
           /\ Gfd!Registered = Server!Registered
           /\ Gfd!Unregistered = Server!Unregistered
  BY DEF Gfd!ConnectionStep, Gfd!PeerReads, Gfd!PeerLeaves, Gfd!HandlerWrites,
         Gfd!ConnectionLost, Gfd!Reset, Gfd!HandlerStarts, Gfd!Return,
         Gfd!Closing, Gfd!HandlerDone, Gfd!HandlerReadsEnd,
         Gfd!HandlerRefuses, Gfd!Attached, Gfd!Registered, Gfd!Unregistered,
         Gfd!Accept, Server!ConnectionStep, Server!PeerReads,
         Server!PeerLeaves, Server!HandlerWrites, Server!ConnectionLost,
         Server!Reset, Server!HandlerStarts, Server!Return, Server!Closing,
         Server!HandlerDone, Server!HandlerReadsEnd, Server!HandlerRefuses,
         Server!Attached, Server!Registered, Server!Unregistered,
         Server!Accept

(***************************************************************************)
(* Programs start once, and with no connection.                            *)
(***************************************************************************)
NotStarted ==
    /\ app = "idle"
    /\ \A k \in Connections : handler[k] = "none" /\ transport[k] = "none"

LaunchInv ==
    /\ program # "none" => stage = "used"
    /\ program \notin {"server", "gfd"} => NotStarted

(***************************************************************************)
(* close of a replica.  What it does not see when it begins stays unseen;  *)
(* the tasks it joins later include those that registered while it waited  *)
(* for the writers.                                                        *)
(***************************************************************************)
ServerInv ==
    program = "server" =>
        /\ \A k \in Connections : handler[k] \notin {"abandoned", "cancelled"}
        /\ app \in {"writers", "tasks", "servers", "closed"}
               => Server!Unregistered \subseteq unseen
        /\ app = "tasks" => Server!Registered \subseteq toJoin \cup unseen
        /\ app \in {"servers", "closed"} => Server!Registered \subseteq unseen

(***************************************************************************)
(* close of the GFD.  A connection has a handler for as long as it has a   *)
(* transport; when the tasks have ended, each one left is either closed by *)
(* close or unseen.  Where wait_closed has waited for the connections, no  *)
(* handler is cancelled while it waits for its own.                        *)
(***************************************************************************)
ClosingOrUnseen ==
    \A k \in Server!Attached : transport[k] = "closing" \/ k \in unseen

GfdInv ==
    program = "gfd" =>
        /\ \A k \in Server!Attached : handler[k] # "none"
        /\ waits /\ app \in {"tasks", "writers", "closed", "raised"}
               => Server!Attached = {}
        /\ waits => \A k \in Connections : handler[k] # "cancelled"
        /\ app = "raised" => ~waits
        /\ app \in {"writers", "raised"} => ClosingOrUnseen
        /\ app = "writers" =>
              /\ toClose \subseteq Connections
              /\ Server!Attached \subseteq toClose \cup unseen
        /\ app = "closed" => Server!Attached \subseteq unseen

LifeInv == ConnectionTypes /\ LaunchInv /\ ServerInv /\ GfdInv

\* Steps of the connections and of the configuration in any program.
LEMMA LifeUnchanged ==
    ASSUME LifeInv, UNCHANGED <<program, stage, connectionVars, appVars>>
    PROVE  LifeInv'
    BY DEF LifeInv, ConnectionTypes, LaunchInv, NotStarted, ServerInv, GfdInv,
           ClosingOrUnseen, connectionVars, appVars, Server!Unregistered,
           Server!Registered, Server!Attached

\* Every step of the program of a replica.
LEMMA ServerNext ==
    ASSUME LifeInv, RunServer(Server!Next)
    PROVE  LifeInv'
  <1>0. /\ program = "server" /\ program' = "server" /\ stage' = stage
        /\ Server!Next
    BY DEF RunServer, configVars
  <1>a. LaunchInv' /\ GfdInv'
    BY <1>0 DEF LifeInv, LaunchInv, GfdInv
  <1> SUFFICES ConnectionTypes' /\ ServerInv'
    BY <1>a DEF LifeInv
  <1> USE DEF LifeInv
  <1>1. ASSUME NEW k \in Connections, Server!ConnectionStep(k),
               UNCHANGED Server!appVars
        PROVE  ConnectionTypes' /\ ServerInv'
    <2>1. ConnectionTypes' /\ \A j \in Connections : HandlerMoves(j)
      BY <1>1, ConnectionMoves DEF NoneAccepted
    <2>2. UNCHANGED <<app, toJoin, unseen>>
      BY <1>1 DEF Server!appVars
    <2> QED
      BY <1>0, <2>1, <2>2
      DEF ServerInv, HandlerMoves, Server!Unregistered, Server!Registered
  <1>2. ASSUME NEW k \in Connections, Server!Connect(k)
        PROVE  ConnectionTypes' /\ ServerInv'
    <2>1. ConnectionTypes'
      BY <1>2
      DEF Server!Connect, Server!Accept, ConnectionTypes, Server!Transports,
          Server!Handlers
    <2>2. /\ app' \in {"binding", "running"}
          /\ handler' = [handler EXCEPT ![k] = "created"]
      BY <1>2
      DEF Server!Connect, Server!Listening, Server!Accept, Server!appVars
    <2> QED
      BY <1>0, <2>1, <2>2 DEF ServerInv, ConnectionTypes
  <1>3. CASE Server!BeginClose
    <2>1. ConnectionTypes'
      BY <1>3
      DEF Server!BeginClose, Server!Closing, ConnectionTypes, Server!Transports
    <2>2. /\ UNCHANGED handler
          /\ unseen' = Server!Unregistered
          /\ app' = IF Server!Registered = {} THEN "servers" ELSE "writers"
      BY <1>3 DEF Server!BeginClose
    <2> QED
      BY <1>0, <2>1, <2>2
      DEF ServerInv, Server!Unregistered, Server!Registered
  <1>4. CASE Server!WritersClosed
    <2>1. /\ UNCHANGED <<handler, transport, unseen>>
          /\ toJoin' = Server!Registered
          /\ app = "writers" /\ app' = "tasks"
      BY <1>4 DEF Server!WritersClosed, Server!connectionVars
    <2> QED
      BY <1>0, <2>1
      DEF ServerInv, ConnectionTypes, Server!Unregistered, Server!Registered
  <1>5. CASE Server!TasksDone
    <2>1. /\ UNCHANGED <<handler, transport, unseen>>
          /\ Server!Ended(toJoin)
          /\ app = "tasks" /\ app' = "servers"
      BY <1>5 DEF Server!TasksDone, Server!Goto, Server!connectionVars
    <2> QED
      BY <1>0, <2>1
      DEF ServerInv, ConnectionTypes, Server!Unregistered, Server!Registered,
          Server!Ended
  <1>6. CASE Server!CloseReturns
    <2>1. /\ UNCHANGED <<handler, transport, unseen>>
          /\ app = "servers" /\ app' = "closed"
      BY <1>6 DEF Server!CloseReturns, Server!Goto, Server!connectionVars
    <2> QED
      BY <1>0, <2>1
      DEF ServerInv, ConnectionTypes, Server!Unregistered, Server!Registered
  <1>7. CASE \/ Server!BindClientPort \/ Server!BindHeartbeatPort
             \/ Server!HeartbeatBindFails \/ Server!StartRaises
    <2>1. /\ UNCHANGED <<handler, transport>>
          /\ app' \in {"binding", "running", "failing", "idle"}
      BY <1>7
      DEF Server!BindClientPort, Server!BindHeartbeatPort,
          Server!HeartbeatBindFails, Server!StartRaises, Server!Goto,
          Server!connectionVars
    <2> QED
      BY <1>0, <2>1 DEF ServerInv, ConnectionTypes
  <1> QED
    BY <1>0, <1>1, <1>2, <1>3, <1>4, <1>5, <1>6, <1>7
    DEF Server!Next, Server!AppStep

\* Every step of the program of the GFD.
LEMMA GfdNext ==
    ASSUME LifeInv, RunGfd(Gfd!Next)
    PROVE  LifeInv'
  <1>0. /\ program = "gfd" /\ program' = "gfd" /\ stage' = stage
        /\ Gfd!Next
    BY DEF RunGfd, configVars
  <1>a. LaunchInv' /\ ServerInv'
    BY <1>0 DEF LifeInv, LaunchInv, ServerInv
  <1> SUFFICES ConnectionTypes' /\ GfdInv'
    BY <1>a DEF LifeInv
  <1> USE DEF LifeInv
  <1>1. ASSUME NEW k \in Connections, Gfd!ConnectionStep(k),
               UNCHANGED Gfd!appVars
        PROVE  ConnectionTypes' /\ GfdInv'
    <2>1. ConnectionTypes' /\ NoneAccepted
      BY <1>1, ConnectionMoves, SameConnections
    <2>2. UNCHANGED <<app, waits, toClose, unseen>>
      BY <1>1 DEF Gfd!appVars
    <2> QED
      BY <1>0, <2>1, <2>2
      DEF GfdInv, ClosingOrUnseen, NoneAccepted, HandlerMoves, Server!Attached
  <1>2. ASSUME NEW k \in Connections, Gfd!Connect(k)
        PROVE  ConnectionTypes' /\ GfdInv'
    <2>1. /\ app' = "running"
          /\ UNCHANGED waits
          /\ handler' = [handler EXCEPT ![k] = "created"]
          /\ transport' = [transport EXCEPT ![k] = "open"]
      BY <1>2 DEF Gfd!Connect, Gfd!Accept, Gfd!appVars
    <2>2. ConnectionTypes'
      BY <2>1 DEF ConnectionTypes, Server!Transports, Server!Handlers
    <2> QED
      BY <1>0, <2>1, <2>2 DEF GfdInv, ConnectionTypes, Server!Attached
  <1>3. CASE Gfd!CancelTasks
    <2>1. /\ app' = "tasks"
          /\ UNCHANGED waits
          /\ waits => Server!Attached = {}
      BY <1>3, SameConnections DEF Gfd!CancelTasks
    <2>2. PICK missed \in SUBSET {k \in Gfd!Registered :
                                     handler[k] = "running"} :
            /\ handler' = [k \in Connections |->
                  CASE k \in missed -> handler[k]
                    [] handler[k] = "running" -> "closing"
                    [] handler[k] = "closing" ->
                           IF k \in Gfd!Attached THEN "cancelled"
                           ELSE "abandoned"
                    [] OTHER -> handler[k]]
            /\ transport' = Gfd!Closing(Gfd!Registered \ missed)
      BY <1>3 DEF Gfd!CancelTasks
    <2>3. /\ transport' \in [Connections -> Server!Transports]
          /\ \A k \in Connections : transport'[k] \in {"open", "closing"}
                                        => transport[k] \in {"open", "closing"}
      BY <2>2 DEF Gfd!Closing, ConnectionTypes, Server!Transports
    <2>4. /\ handler' \in [Connections -> Server!Handlers]
          /\ \A k \in Connections : handler[k] # "none" => handler'[k] # "none"
          /\ waits => \A k \in Connections : handler'[k] # "cancelled"
      <3> SUFFICES ASSUME NEW k \in Connections
                   PROVE  /\ handler'[k] \in Server!Handlers
                          /\ handler[k] # "none" => handler'[k] # "none"
                          /\ waits => handler'[k] # "cancelled"
        BY <2>2
      <3>1. handler[k] \in Server!Handlers
        BY DEF ConnectionTypes
      <3>2. \/ handler'[k] \in {handler[k], "closing", "abandoned"}
            \/ handler'[k] = "cancelled" /\ k \in Gfd!Attached
        BY <2>2
      <3>3. waits => k \notin Gfd!Attached
        BY <2>1, SameConnections
      <3>4. waits => handler[k] # "cancelled"
        BY <1>0 DEF GfdInv
      <3> QED
        BY <3>1, <3>2, <3>3, <3>4 DEF Server!Handlers
    <2> QED
      BY <1>0, <2>1, <2>3, <2>4 DEF GfdInv, ConnectionTypes, Server!Attached
  <1>4. CASE Gfd!TasksDone
    <2>1. /\ app = "tasks" /\ app' = "writers"
          /\ UNCHANGED <<waits, handler>>
          /\ toClose' = Server!Registered
          /\ unseen' = Server!Unregistered
          /\ transport' = Gfd!Closing(Gfd!Registered)
      BY <1>4, SameConnections DEF Gfd!TasksDone
    <2>2. /\ transport' \in [Connections -> Server!Transports]
          /\ \A k \in Connections : transport'[k] \in {"open", "closing"}
                                        => transport[k] \in {"open", "closing"}
          /\ \A k \in Server!Registered : transport'[k] # "open"
      BY <2>1, SameConnections
      DEF Gfd!Closing, ConnectionTypes, Server!Transports, Server!Registered
    <2>3. /\ Server!Registered \subseteq Connections
          /\ \A k \in Connections : handler[k] # "none" =>
                k \in Server!Registered \cup Server!Unregistered
      BY DEF ConnectionTypes, Server!Handlers, Server!Registered,
             Server!Unregistered
    <2> QED
      BY <1>0, <2>1, <2>2, <2>3
      DEF GfdInv, ClosingOrUnseen, ConnectionTypes, Server!Attached
  <1>5. CASE Gfd!CloseReturns
    <2>1. /\ app = "writers" /\ app' = "closed"
          /\ UNCHANGED <<waits, handler, transport, unseen>>
          /\ Gfd!Flushed(toClose)
      BY <1>5 DEF Gfd!CloseReturns, Gfd!Goto, Gfd!connectionVars
    <2> QED
      BY <1>0, <2>1
      DEF GfdInv, ConnectionTypes, Server!Attached, Gfd!Flushed
  <1>6. CASE Gfd!CloseRaises
    <2>1. /\ app = "writers" /\ app' = "raised"
          /\ UNCHANGED <<waits, handler, transport, unseen>>
          /\ Gfd!Unawaitable # {}
      BY <1>6 DEF Gfd!CloseRaises, Gfd!Goto, Gfd!connectionVars
    <2>2. ~waits
      <3>1. PICK k \in toClose : handler[k] = "cancelled"
        BY <2>1 DEF Gfd!Unawaitable
      <3> QED
        BY <1>0, <2>1, <3>1 DEF GfdInv
    <2> QED
      BY <1>0, <2>1, <2>2
      DEF GfdInv, ClosingOrUnseen, ConnectionTypes, Server!Attached
  <1>7. CASE Gfd!Start \/ Gfd!BeginClose
    <2>1. /\ UNCHANGED <<waits, handler, transport>>
          /\ app' \in {"running", "servers"}
      BY <1>7 DEF Gfd!Start, Gfd!BeginClose, Gfd!Goto, Gfd!connectionVars
    <2> QED
      BY <1>0, <2>1 DEF GfdInv, ConnectionTypes, Server!Attached
  <1> QED
    BY <1>0, <1>1, <1>2, <1>3, <1>4, <1>5, <1>6, <1>7
    DEF Gfd!Next, Gfd!AppStep

\* A main starts its application.
LEMMA LaunchNext ==
    ASSUME LifeInv, NEW name, NEW result, Launch(name, result)
    PROVE  LifeInv'
  <1>1. /\ stage = "loaded" /\ stage' = "used"
        /\ UNCHANGED <<connectionVars, appVars>>
    BY DEF Launch, Config!Launched
  <1>2. program = "none"
    BY <1>1 DEF LifeInv, LaunchInv
  <1>3. NotStarted /\ NotStarted'
    BY <1>1, <1>2
    DEF LifeInv, LaunchInv, NotStarted, connectionVars, appVars
  <1>4. ConnectionTypes' /\ LaunchInv'
    BY <1>1, <1>3
    DEF LifeInv, ConnectionTypes, LaunchInv, connectionVars
  <1>5. ServerInv' /\ GfdInv'
    BY <1>3 DEF NotStarted, ServerInv, GfdInv, Server!Attached
  <1> QED
    BY <1>4, <1>5 DEF LifeInv

\* The life cycles keep their invariant.
THEOREM LifeInvariance == Spec => []LifeInv
  <1>1. Init => LifeInv
    <2> SUFFICES ASSUME Init PROVE LifeInv
      OBVIOUS
    <2>1. /\ program = "none" /\ app = "idle"
          /\ transport = [k \in Connections |-> "none"]
          /\ handler = [k \in Connections |-> "none"]
      BY DEF Init, Server!Init, Server!ConnectionInit
    <2> QED
      BY <2>1
      DEF LifeInv, ConnectionTypes, LaunchInv, NotStarted, ServerInv, GfdInv,
          Server!Transports, Server!Handlers
  <1>2. LifeInv /\ [Next]_vars => LifeInv'
    <2> SUFFICES ASSUME LifeInv, [Next]_vars PROVE LifeInv'
      OBVIOUS
    <2>1. CASE RunServer(Server!Next)
      BY <2>1, ServerNext
    <2>2. CASE RunGfd(Gfd!Next)
      BY <2>2, GfdNext
    <2>3. CASE \E name, result : Launch(name, result)
      BY <2>3, LaunchNext
    <2>4. CASE LoadConfig
      <3>1. /\ UNCHANGED <<program, connectionVars, appVars>>
            /\ stage # "used"
        BY <2>4
        DEF LoadConfig, Config!ReadSection, Config!ReadServers,
            Config!ReadClients, Config!ReadLfds, Config!ReadGfd
      <3>2. program = "none"
        BY <3>1 DEF LifeInv, LaunchInv
      <3> QED
        BY <3>1, <3>2
        DEF LifeInv, ConnectionTypes, LaunchInv, NotStarted, ServerInv, GfdInv,
            connectionVars, appVars
    <2>5. CASE RunLfd \/ UNCHANGED vars
      <3>1. UNCHANGED <<program, stage, connectionVars, appVars>>
        BY <2>5 DEF RunLfd, vars, configVars
      <3> QED
        BY <3>1, LifeUnchanged
    <2> QED
      BY <2>1, <2>2, <2>3, <2>4, <2>5
      DEF Next, LaunchServer, LaunchClient, LaunchLfd, LaunchGfd
  <1> QED
    BY <1>1, <1>2, PTL DEF Spec

(***************************************************************************)
(* When close of a replica returns, every handler has been joined but for  *)
(* those of connections that close could not see when it began.            *)
(***************************************************************************)
THEOREM LeftoverIsAlwaysUnseen == Spec => []LeftoverIsUnseen
  <1>1. LifeInv => LeftoverIsUnseen
    BY DEF LifeInv, ConnectionTypes, ServerInv, LeftoverIsUnseen,
           Server!Handlers, Server!Registered, Server!Unregistered
  <1> QED
    BY <1>1, LifeInvariance, PTL

(***************************************************************************)
(* When close of the GFD returns, no LFD is connected but over connections *)
(* that close could not see when it last looked; where wait_closed waits   *)
(* for the connections, not over those either, and close never raises.     *)
(* Where it may raise CancelledError, it has closed the same connections,  *)
(* though some may not be flushed yet.                                     *)
(***************************************************************************)
THEOREM ClosedIsAlwaysDisconnected == Spec => []ClosedIsDisconnected
  <1>1. LifeInv => ClosedIsDisconnected
    BY DEF LifeInv, GfdInv, ClosingOrUnseen, ClosedIsDisconnected
  <1> QED
    BY <1>1, LifeInvariance, PTL

=============================================================================
