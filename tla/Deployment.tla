----------------------------- MODULE Deployment -----------------------------
(***************************************************************************)
(* From a configuration file to a process that runs: load_config of        *)
(* src/ft_system/common/config.py, and the four main modules up to the     *)
(* construction of their application.  Its properties are stated in        *)
(* Programs.                                                               *)
(*                                                                         *)
(* The file may hold anything.  A number is 0 for everything _port or      *)
(* _positive_number refuses, a missing field included; a name is "" for    *)
(* everything _non_empty_string refuses.  Numbers that are checked alike   *)
(* and never compared are one field.  Integers are within the range of a   *)
(* float: beyond it _positive_number raises OverflowError.                 *)
(***************************************************************************)
EXTENDS Naturals, Sequences, FiniteSets

CONSTANTS
    Replicas,       \* the replica ids the file may define
    ClientIds,      \* its client ids
    LfdIds,         \* its LFD ids
    MaxPort,        \* bound: ports
    MaxDelay,       \* bound: delays
    MaxServers      \* bound: the length of server_ids

VARIABLES
    stage,          \* what load_config reads next, or how it ended; "used" when
                    \* a main has passed on what it needs
    servers, clients, lfds, gfd,    \* AppConfig
    outcome         \* of the launch of a process with that configuration

vars == <<stage, servers, clients, lfds, gfd, outcome>>

Ports == 0..MaxPort

Delays == 0..MaxDelay

Timeouts == 0..1

Hosts == {"", "host"}

Names == Replicas \cup {""}

ServerTables == [client_port : Ports, heartbeat_port : Ports, host : Hosts]

ClientTables ==
    [server_ids : UNION {[1..n -> Names] : n \in 0..MaxServers},
     timeouts : Timeouts]

LfdTables ==
    [server_id : Names, timeouts : Timeouts, initial_backoff : Delays,
     max_backoff : Delays]

\* The tables a section may consist of.
Sections(ids, tables) == UNION {[S -> tables] : S \in SUBSET ids}

TypeOK ==
    /\ stage \in {"servers", "clients", "lfds", "gfd", "loaded", "refused",
                 "used"}
    /\ servers \in Sections(Replicas, ServerTables)
    /\ clients \in Sections(ClientIds, ClientTables)
    /\ lfds \in Sections(LfdIds, LfdTables)
    /\ gfd \in {"none", "valid"}
    /\ outcome \in {"none", "runs", "ConfigError", "exception"}

NoTables == [id \in {} |-> {}]

Init ==
    /\ stage = "servers"
    /\ servers = NoTables
    /\ clients = NoTables
    /\ lfds = NoTables
    /\ gfd = "none"
    /\ outcome = "none"

-----------------------------------------------------------------------------
ValidServer(table) ==
    /\ table.client_port > 0
    /\ table.heartbeat_port > 0
    /\ table.client_port # table.heartbeat_port
    /\ table.host # ""

\* _server_ids.
ValidServerIds(ids) ==
    /\ ids # <<>>
    /\ \A i \in DOMAIN ids : ids[i] # ""
    /\ \A i, j \in DOMAIN ids : ids[i] = ids[j] => i = j

ValidClient(table) == ValidServerIds(table.server_ids) /\ table.timeouts > 0

ValidLfd(table) ==
    /\ table.initial_backoff > 0
    /\ table.max_backoff > 0
    /\ table.initial_backoff <= table.max_backoff
    /\ table.server_id # ""
    /\ table.timeouts > 0

\* Mutation of ReferencesResolve: only the clients are looked at.
ReferencesResolveClients ==
    \A c \in DOMAIN clients, i \in 1..MaxServers :
        i \in DOMAIN clients[c].server_ids =>
            clients[c].server_ids[i] \in DOMAIN servers

\* The two loops of load_config over the references to servers.
ReferencesResolve ==
    /\ \A c \in DOMAIN clients :
        \A i \in DOMAIN clients[c].server_ids :
            clients[c].server_ids[i] \in DOMAIN servers
    /\ \A l \in DOMAIN lfds : lfds[l].server_id \in DOMAIN servers

\* A section is parsed: an empty one or an invalid table raises ConfigError.
Parsed(section, valid) ==
    /\ DOMAIN section # {}
    /\ \A id \in DOMAIN section : valid[id]

ReadServers(section) ==
    /\ stage = "servers"
    /\ IF Parsed(section, [id \in DOMAIN section |-> ValidServer(section[id])])
       THEN stage' = "clients" /\ servers' = section
       ELSE stage' = "refused" /\ UNCHANGED servers
    /\ UNCHANGED <<clients, lfds, gfd, outcome>>

ReadClients(section) ==
    /\ stage = "clients"
    /\ IF Parsed(section, [id \in DOMAIN section |-> ValidClient(section[id])])
       THEN stage' = "lfds" /\ clients' = section
       ELSE stage' = "refused" /\ UNCHANGED clients
    /\ UNCHANGED <<servers, lfds, gfd, outcome>>

ReadLfds(section) ==
    /\ stage = "lfds"
    /\ IF Parsed(section, [id \in DOMAIN section |-> ValidLfd(section[id])])
       THEN stage' = "gfd" /\ lfds' = section
       ELSE stage' = "refused" /\ UNCHANGED lfds
    /\ UNCHANGED <<servers, clients, gfd, outcome>>

\* The references are checked, then the optional gfd section.
ReadGfd(section) ==
    /\ stage = "gfd"
    /\ IF ReferencesResolve /\ section # "invalid"
       THEN stage' = "loaded" /\ gfd' = section
       ELSE stage' = "refused" /\ UNCHANGED gfd
    /\ UNCHANGED <<servers, clients, lfds, outcome>>

-----------------------------------------------------------------------------
\* A main has taken what it needs from AppConfig: result is how far it got.
Launched(result) ==
    /\ stage = "loaded"
    /\ outcome = "none"
    /\ outcome' = result
    /\ stage' = "used"
    /\ servers' = NoTables
    /\ clients' = NoTables
    /\ lfds' = NoTables
    /\ gfd' = "none"

\* server/main.py.
ServerResult(id) == IF id \in DOMAIN servers THEN "runs" ELSE "ConfigError"

\* client/main.py: one endpoint per server id, then the client for their
\* number.  ActiveClientApp wants distinct replicas, the timeouts of a read or
\* an open have to be positive.
ClientResult(id) ==
    IF id \notin DOMAIN clients THEN "ConfigError"
    ELSE LET ids == clients[id].server_ids
         IN  IF \E i \in DOMAIN ids : ids[i] \notin DOMAIN servers
             THEN "ConfigError"
             ELSE IF \/ ids = <<>>
                     \/ clients[id].timeouts = 0
                     \/ \E i, j \in DOMAIN ids : i # j /\ ids[i] = ids[j]
                  THEN "exception"
                  ELSE "runs"

\* lfd/main.py.  ExponentialBackoff raises ValueError for delays it cannot use.
LfdResult(id) ==
    IF id \notin DOMAIN lfds THEN "ConfigError"
    ELSE IF lfds[id].server_id \notin DOMAIN servers THEN "ConfigError"
    ELSE IF \/ lfds[id].timeouts = 0
            \/ lfds[id].initial_backoff = 0
            \/ lfds[id].initial_backoff > lfds[id].max_backoff
         THEN "exception"
         ELSE "runs"

\* gfd/main.py.
GfdResult == IF gfd = "none" THEN "ConfigError" ELSE "runs"

\* load_config takes the next section, whatever is in it.
ReadSection ==
    \/ \E section \in Sections(Replicas, ServerTables) : ReadServers(section)
    \/ \E section \in Sections(ClientIds, ClientTables) : ReadClients(section)
    \/ \E section \in Sections(LfdIds, LfdTables) : ReadLfds(section)
    \/ \E section \in {"none", "valid", "invalid"} : ReadGfd(section)
=============================================================================
