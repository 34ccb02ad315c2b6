# A TLA+ model of the fault-tolerant counter system

The repository is a distributed counter in Python and asyncio: clients increment
a counter of their own on replicated servers (active replication), a local fault
detector (LFD) watches each server, and a global fault detector (GFD) keeps the
set of live replicas. This directory models it in TLA+, checks the models with
TLC on small instances, and proves some of the results with TLAPS for every
instance. Paths below are relative to `src/ft_system/` unless they start with
`docs/`.

## 1. The system

| Component | State it keeps | Operations | Modelled in |
|---|---|---|---|
| Active client, `client/active.py`, driven by `client/main.py` and the loop of `client/app.py` | `_connections` (with `last_sent`, `last_received`), `_next_request_num`, `_delivered`, `_last_reply`, `_pending`, `_delivered_values`, one receiver task per connection | `connect`, `send_increment`, `_receive`, `_retire`, `_prune_delivered_values`, `close` | `ActiveReplication` |
| Client port of a replica, `ClientListener` in `server/app.py`, and `server/state_machine.py` | one counter and one last reply per client | `handle`, `_process`, `apply` | `ClientListener` (operators), `ReplicaServer`, `ActiveReplication` |
| GFD reporter of an LFD, `lfd/reporter.py` | `healthy`, `_changed`, one connection, two tasks and their lock | `set_health`, `run` | `Membership`, `HeartbeatTiming` (its receive timeout) |
| GFD, `gfd/app.py` | `_members`, `_sessions`, `_writers`, `_tasks`, one handler task per connection | `_handle`, `_update`, `start`, `close` | `Membership`, `HeartbeatTiming` (its deadlines), `GfdLifecycle` (`start`, `close`) |
| Transport, `common/transport.py` | asyncio buffers, kernel buffers | `read_message`, `write_message`, `close_writer` | the queues of all modules |
| Wire protocol, `common/protocol.py` | none | builders, `validate_message` | records of `ClientListener` and `Membership`; what fails validation is one kind of message |
| Persistent client (Milestone 1), `ClientApp` and the loops of `client/app.py` and `client/main.py` | one connection, `_next_request_num` | `connect`, `send_increment`, `_drop_connection`, `close` | `PersistentClient` |
| LFD heartbeat loop, `lfd/app.py`; heartbeat port, `server/app.py` | `_healthy`, `_heartbeat_count`, connection, backoff | `run`, `_heartbeat_once`, `stop`; `HeartbeatListener.handle` | `LocalFaultDetector`; its output is the input `SetHealth` of `Membership` |
| Server life cycle, `ServerApp` in `server/app.py` | listeners, `_active_writers`, `_handler_tasks` | `start`, `_serve_connection`, `close` | `StreamServer`, `ServerLifecycle`, `Programs` |
| Backoff, `common/retry.py` | `initial`, `maximum`, `attempt` | `next_delay`, `reset` | `Backoff`, `Programs` |
| Configuration, `common/config.py`, and the four `main.py` | `AppConfig` | `load_config`, the lookups, construction of the applications | `Deployment`, `Programs` |
| Logging, `common/logging.py`; `scripts/` | none | output, process launching | not modelled; the one log message a property is about is the variable `divergence` |

How they interact. A client holds one TCP connection to each replica, writes
every request to all of them and takes the first valid reply. The LFD sends
heartbeats to the heartbeat port of its server and calls `set_health` of its
reporter when the result changes; the reporter keeps a TCP connection to the GFD,
over which membership reports and answers to the GFD's own heartbeats travel
together. The GFD plays no part in requests: the client finds failed replicas by
itself, from its own connections.

What is hard here:

* every `await` is a point where other tasks run: receivers of several
  connections, a caller that times out and retries, senders that block in
  `drain`, reports and heartbeat answers that share a lock;
* a request may be written twice, be answered from the saved reply, be answered
  late, or be answered after its connection was given up;
* connections fail visibly (EOF, reset) or silently; processes crash and come
  back with empty state; the GFD can have a new and a half-open old connection of
  the same LFD;
* the LFD drops a connection whose heartbeat may still be answered, and `stop`
  drops it under a `run` that is at any of its awaits;
* `wait_closed` waits for the buffer of a transport to be flushed, which a peer
  that does not read can prevent;
* `_delivered_values` has to be pruned, but not too early;
* a connection that is accepted has no entry in the sets of the application until
  its task first runs, and `close` looks at those sets; `Server.wait_closed` waits
  for connections on Python 3.12 and later and not before;
* membership events and acks share one stream and one deadline, and the GFD's
  heartbeat period may differ from the one the LFD has in its configuration;
* the constructors rely on what `load_config` has checked, and the mains handle
  no other error than `ConfigError`.

`PROJECT.json` lists these as hazards, each at its line with the properties that
cover it.

What makes each component correct: the client returns each request's value once
and in order, keeps working while a replica remains, never accuses a correct
replica and always reports one that diverges; the persistent client never takes an
old reply for a new one and gets through when failures end; the replica executes a
request once and gives it one value for ever; the LFD finds its replica healthy
only on fresh evidence, notices every restart, and can be stopped at any time; the
reporter and the GFD never lose a change of health, agree again after any failure,
and give each other up neither too early nor too late; every member is being
watched; what a process leaves behind when it closes is known, and a configuration
that loads is one every process can run with.

## 2. Modules

| Module | Contents |
|---|---|
| `ClientListener` | `_process` and `apply` as operators over a counter table and a reply table |
| `ReplicaServer` | one replica against arbitrary peers, on several connections |
| `CounterService` | the abstract specification: an unreplicated counter per client |
| `ActiveReplication` | clients, replicas, connections and transports end to end |
| `Membership` | reporters, the GFD and the connections between them |
| `LocalFaultDetector` | the heartbeat loop of an LFD, the heartbeat port of its replica and the connections between them |
| `PersistentClient` | the reconnecting client against the replica of `ReplicaServer` |
| `HeartbeatTiming` | the timers of one session between an LFD and the GFD, in discrete time |
| `StreamServer` | the connections and handler tasks of an asyncio server |
| `ServerLifecycle`, `GfdLifecycle` | start and close of a replica and of the GFD |
| `Deployment` | `load_config` and what each main makes of its result |
| `Backoff` | `ExponentialBackoff` |
| `Programs` | the four programs from the configuration file to the end of the process; composes the five modules above |
| `ClientListenerProofs`, `ReplicaServerProofs`, `ActiveReplicationProofs`, `PersistentClientProofs`, `MembershipProofs`, `LocalFaultDetectorProofs`, `HeartbeatTimingProofs`, `ProgramsProofs` | theorems |
| `MCReplicaServer`, `MCActiveReplication`, `MCMembership` | symmetry sets and constant values for TLC |

`ReplicaServer` and `ActiveReplication` both extend `ClientListener`, so the same
operators answer arbitrary peers and the active client. `ActiveReplication`
instantiates `CounterService` for the refinement. `PersistentClient` instantiates
`ReplicaServer`, whose handlers it runs step for step, and `CounterService`.
`Programs` instantiates `Deployment`, the two life cycles (which extend
`StreamServer`) and `Backoff`. Definitions that begin with the
comment "Mutation of" are not part of a specification: each is a faulty variant
of the definition it names, used to confirm that a property can fail.

### 2.1 Granularity

asyncio is cooperative, so one step of a model is what one task does between two
awaits that can suspend it. An await that cannot suspend (a `drain` of a transport
that is not paused, a lock that is free) is not a boundary. `_process` holds a lock
and awaits nothing inside it, so it is one step.

### 2.2 Transport

A connection is a queue in each direction. `KernelBuf` messages fit into the two
kernels; what exceeds it is in the buffer of the asyncio transport, which pauses
(`drain` suspends) above `HighWater` further messages. Two simplifications: bytes
are counted in messages, and the high-water and low-water marks are one mark, so a
`drain` returns somewhat earlier in the model. A closed transport is closed for
`wait_closed` only when its buffer is flushed or its connection is reset; this is
what finding F1 rests on.

### 2.3 `ClientListener` and `ReplicaServer`

`IsNew`, `IsReplay` and `Executes` are the branches of `_process`; `Response`,
`EntryAfter` and `CountersAfter` are its three effects. A reply holds the value, a
saved entry the number, the operation and the reply. Error texts are left out,
error codes are kept. In `ReplicaServer` a peer may send any request of any client
id (a stranger's too) with any number and operation, a misaddressed message,
something malformed, or EOF, on any connection. A message of another type whose
request id `build_error` refuses (`server/app.py:110`) ends the handler without a
reply and counts as malformed. The history variable `answered`
records every value a request was answered with.

### 2.4 `ActiveReplication`

| Variable | Code |
|---|---|
| `phase` | where the caller is in `send_increment`, `connect` or `close` |
| `task` | the coroutine of a connection inside a `gather`: `open_replica` or `send` |
| `conn` | a `ReplicaConnection`: in `_connections`, retired by its sender, its receiver in `close_writer`, its receiver done |
| `lastSent`, `lastReceived`, `nextRequestNum`, `delivered`, `lastReply`, `deliveredValues` | the fields of the same names |
| `divergence` | has "replica state divergence" been logged |
| `counters`, `lastReplies`, `up` | a replica's state machine and reply table; is its process running |
| `requests`, `replies`, `lost` | the connection |
| `answers` | history: what `send_increment` has returned |

`_pending` needs no variable: while the caller waits, it is done exactly when
`delivered` is the outstanding number. A caller that starts a call with that
reply already there takes `ReturnLateReply`. A replica may crash and restart empty, a connection may be reset, any
open, write or reply may time out. `Responsive` replicas do none of this: they are
the hypothesis of the liveness properties, and empty in the safety runs. `Faulty`
peers send any reply at any time: they stand for a diverged or foreign server.
A replica never sends two replies in one step and stops reading while its own
replies fill the connection, as `handle` does.

A receiver prunes `_delivered_values` in the step in which it ends; the code does so
in the task's done-callback, one turn of the event loop later. Only a reply read
from the same connection could tell the difference, and its receiver has ended.
`close` cancels the receivers. One that is already in `close_writer`, or whose
sender is, ends at once, because the future both wait for is cancelled too; the
others wait for their transport to be flushed or reset.

### 2.5 `Membership`

| Variable | Code |
|---|---|
| `healthy`, `changed` | `GfdReporter.healthy`, `_changed` |
| `reporter`, `cur` | where `run` is and its connection |
| `sender`, `report`; `receiver`, `answer` | `report_changes` and `answer_heartbeats`, and what each waits to send while the other holds the lock |
| `handler`, `count` | one `_handle` and its heartbeat count |
| `session`, `members` | `_sessions`, `_members` |
| `link`, `toGfd`, `toLfd` | a TCP connection: up, reset, or silently cut |
| `calm` | a hypothesis of liveness: no failure from now on |

A connection occupies a slot, which is free again when both ends have gone; the
reporter waits when no slot is free. Heartbeat counts start again after `MaxCount`:
the code compares an ack only with the current count, and at most one heartbeat of
a session is unanswered. The GFD's own `drain` does not suspend in the model for
the same reason: its transport never holds more than one heartbeat. Timers are
not measured: until `calm`, any read, write or open may time out at any time;
after it, only where the awaited thing cannot come. `Rogue` peers open any number
of connections as one LFD and send anything.

### 2.6 `LocalFaultDetector`

| Variable | Code |
|---|---|
| `loop` | the await `LfdApp.run` is at |
| `stop` | not called (its event is clear), in `_drop_connection`, or returned |
| `cur`, `reading` | the connection of `_writer`; the one `run` reads the ack from, which outlives `_writer` when `stop` clears it |
| `heartbeatCount`, `sentCount`, `healthy` | `_heartbeat_count`, `sent_count`, `_healthy` |
| `handler`, `server` | one `HeartbeatListener.handle`; who listens at the port |
| `link`, `toServer`, `toLfd` | the TCP connections |
| `aliveSince`, `sameServer` | history: did the replica run since the heartbeat was sent; does the process still run that sent the last accepted ack, or was its connection reset before it ended |

The steps of `run` are those between its awaits: a pause ends and a heartbeat is
written (`Wake`), a connection opens and is used (`OpenSucceeds`), the ack is
accepted or the connection given up, its close completes and the failure is marked
unless `stop` was called meanwhile. A write that finds the connection broken
(`WriteFails`, `FirstWriteFails`) gives it up too; its heartbeat is not counted, so
the next one has the same count. An EOF leaves an asyncio writer open, a reset
closes it: only the latter makes `_connect` replace the connection (`IsClosing`).
`on_health_change` is called in the step that changes `healthy`, so that a change
here is a `SetHealth` of `Membership`; `_ever_healthy` only chooses a log message.
Pauses are not measured, so the backoff does not appear. A write never suspends
here, which is not assumed but follows from `OneUnanswered`: nothing is unread on a
connection to which a heartbeat is written. The port may be taken by another
process (`foreign`), for instance another replica, which refuses the heartbeat, or
one that writes anything but an ack of the replica. The handler of a silently cut
connection waits for ever; since it does nothing more, its slot is used again.

`LocalFaultDetector` and `Membership` are two halves of one process, joined by
`on_health_change`. `Membership` lets the health change at any time, so every
behaviour of the heartbeat loop is among its inputs, and its liveness property asks
only for what the other module delivers: after the last failure `TracksReplica`
makes the health of the LFD settle on whether the replica runs, and `Converges`
makes the member set of the GFD settle on that health.

### 2.7 `PersistentClient`

| Variable | Code |
|---|---|
| `counters`, `lastReplies`, `status`, `inbox`, `outbox`, `answered` | the replica, as in `ReplicaServer` |
| `up`, `restarts` | its process |
| `phase`, `cur`, `requestNum` | where `send_increment` is, the connection of `_writer`, `_next_request_num` |
| `asked`, `answers` | history: the last number asked for; the values returned, by the process of the replica that gave them |
| `calm` | a hypothesis of liveness: no failure from now on |

The connections a client has dropped keep what the replica has not read, followed
by the end of the stream; the replica reads them at any later time, before or after
the repetition of the request on a new connection. A crash of the replica discards
its unread replies; that one of them can still be read afterwards is the behaviour
in which the client reads it just before the crash, as nothing else changes
between. The refinement of
`CounterService` is per process of the replica: a restart loses the counter, so
what a client is promised is that the values each process gives it count from one
without a gap or a repetition. `AskedOf` says which calls a process has been asked:
those it answered, and the outstanding one, or the one it did not live to answer.

### 2.8 `HeartbeatTiming`

Time advances by one unit in `Tick`, and only while no timer is due; a message is
acted on at most `Delay` after it was written while `prompt` holds, and at any time
otherwise. `deadline` is the fixed end the code computes before its inner loop,
`armed` the timeout it passes to the read in progress: they are kept apart because
that each new read is given the *remaining* time is what is to be shown. The LFD's
reports may be read between any two steps. `SettingsAssumption` is what the
settings must satisfy for the two sides not to give each other up: a round trip
below the read timeout, and a period of the GFD that exceeds the one the LFD knows
by less than two read timeouts minus a round trip.

### 2.9 `StreamServer`, `ServerLifecycle`, `GfdLifecycle`

| Variable | Code |
|---|---|
| `transport`, `buffered`, `gone` | the asyncio transport of a connection, what is left in its buffer, has the peer closed its end |
| `handler` | its task: created; running (and in the application's sets); in its last `close_writer`; cancelled there before the connection was lost (`cancelled`) or after (`abandoned`) |
| `waits` | does `Server.wait_closed` wait for connections (Python 3.12 and later) |
| `app` | the await `start` or `close` is at, or how `close` ended: returned, or raised |
| `toClose`, `toJoin` | the writers and tasks `close` has taken |
| `unseen` | history: accepted, but not registered when `close` looked |

What the messages say does not matter here; a handler writes, refuses, or reads the
end of the stream. `ServerApp.close` closes the writers, joins the tasks and then
waits for its servers; `GfdApp.close` waits for its server first, then cancels and
joins the tasks and closes what writers are left. Cancelling a task suspended in
`writer.wait_closed()` (`common/transport.py:63`) also cancels the future of the
stream protocol it waits for. The second `close_writer` of such a writer awaits
that future again, and the `gather` at `gfd/app.py:132` raises (`CloseRaises`) as
soon as it has started all the others.

### 2.10 `Deployment`, `Backoff`, `Programs`

A configuration is chosen section by section, in the order `load_config` reads
them, from all tables over small sets in which one value stands for everything the
validators refuse. `Programs` then launches any program with any id, and goes on
with its life cycle or, for an LFD, with the delays of its backoff as configured.
`Launched` forgets the configuration: a main has passed on what it uses.

## 3. Runs

| Run | Instance | Shows |
|---|---|---|
| `replica_server` | 2 clients, a stranger, 2 connections, numbers to 3, 1 message per direction | one value per request, values follow numbers, the counter counts distinct requests |
| `active_safety` | 1 client, 2 replicas, 2 requests, `KernelBuf` 1, `HighWater` 0 | exactly-once answers, replica tables in step, replicas agree, no false accusation, bounded `_delivered_values`, refinement of `CounterService` |
| `active_divergence` | 1 client, a correct replica and a faulty peer, 2 requests, no buffering | the "unexpected logical request number" branch is dead, every divergence is reported |
| `active_liveness` | 1 client, a responsive replica and another, 2 requests | every request is answered, late replicas catch up, `close` returns |
| `active_stall` | as `active_liveness`, but the other replica may stop reading | violated: finding F1 |
| `membership` | 1 LFD, 2 slots, counts 1 and 2, `HighWater` 1 | no lost update, no correct LFD rejected |
| `membership_rogue` | a rogue LFD, 3 slots | members are watched, one handler per LFD |
| `membership_liveness` | 1 LFD, 2 slots, every write suspends | the member set converges to a health that lasts |
| `lfd` | 3 slots, counts to 2, resets and silent cuts | one message per connection, acks match, health is fresh, `stop` is silent, ends `run` and leaks nothing, a restarted replica is never taken for the one found healthy, the LFD settles on the truth about its replica |
| `persistent_client` | 3 connections, 2 requests, 1 restart of the replica | the connection in use carries one exchange at a time, each process of the replica is a counter, every request is answered |
| `programs` | 2 servers, 1 client, 1 LFD in the file, ports to 2, delays to 6; 3 connections; 4 failures in a row | what loads can be run; what `close` leaves behind when it returns, or raises; `close` ends; delays double up to the maximum |
| `timing` | period 12 at the GFD and 5 at the LFD, read timeout 7, delay 3, prompt messages or not | no false timeout, detection in time, the pause is kept |

Why the bounds are enough. Two requests are the least with which a late or
replayed reply of one request meets the next; with two replicas one can be ahead,
late, retired or restarted while the other answers. One message of kernel buffer
and none above it make every write after the first able to suspend. Three numbers
let a replica see a number skipped, an old number late and a repetition. Two
clients share nothing but the replica's tables, which `replica_server` checks with
two and `ReplicaServerProofs` proves for any number. In `Membership` LFDs share nothing
but the member set, and have different replicas (`LfdsAssumption`), so one LFD
is the interesting case; two slots are an old half-open connection and the new one.
In `LocalFaultDetector` three slots are two connections given up, whose handlers
still run, and the one in use; two counts tell a late ack from the current one. In
`PersistentClient` three connections are two dropped ones with unread copies of
either request and the one in use. In `Programs` three connections can be at once
registered when `close` looks, registering while it waits, and not yet started;
delays to 6 include quotients that are powers of two and that are not. The settings
of `timing` are within one unit of the limits of `SettingsAssumption`. `lfd`,
`persistent_client`, `programs` and `timing` may stop for good (a stopped LFD that
nobody starts again, a client that has quit, a refused configuration, a closed
session), so these runs do not check for deadlock; `StopTerminates`,
`AllAnswered` and `EndsWhenPeersLeave` say that they stop where they should.
Slots, connections and replicas are permuted by symmetry only in runs that check
invariants and step properties.

Fairness. `ClientFairness` and the `Fairness` of `Membership` say that the event
loop runs each task that can run, that due timers fire, and that the calling loop
calls again (`run_automatic`). `FairSpec` of `ActiveReplication` adds that a
replica that is up serves; `StallSpec` drops that for replicas that are not
responsive. `Membership` uses strong fairness for the two tasks waiting for
the lock, because `asyncio.Lock` serves waiters in order, and weak fairness of
`TcpAborts`, because TCP gives up retransmitting. `LocalFaultDetector` needs weak
fairness only, of `run`, of `stop` and of each handler, and `PersistentClient` of
the calling loop, of each handler, and of the end of a connection its client has
dropped. `Programs` has weak fairness of the steps of `start` and `close`, of each
handler's start and end, and of peers that read what they are sent; that peers
leave is a hypothesis of `EndsWhenPeersLeave` only. No fault, restart, health
change or user action is ever assumed to happen.

## 4. Findings

**F1 (`active_stall`).** A replica that stays up but stops reading blocks its
clients for good. The write times out, `_retire` removes the connection and then
awaits `close_writer`, whose `wait_closed` needs a flush that never comes; the
`gather` of `send_increment` waits for it, holding `_send_lock`.
`docs/DESIGN.md:9` says the client continues on the remaining connections.

Remarks that no run is devoted to:

* **`ServerApp.close` and a connection just accepted** (`server/app.py:270`). A
  connection whose `_serve_connection` task has not run is in neither set when
  `close` takes its writers. The task runs while `close` waits for the other writers
  (line 272), registers, and is among the tasks that `close` then joins (lines
  275-277), although nothing closes its writer: `close` ends only when that peer
  leaves, while `tests/integration/test_m1_system.py:57` gives a server with
  connected peers 0.3 s. This is the exception in `CloseEndsUnlessRaced`: without
  `unseen = {}` TLC shows it, and `EndsWhenPeersLeave` shows that nothing worse
  happens.
* **`GfdApp.close` on Python 3.12 and later** (`gfd/app.py:126`). `wait_closed` waits
  for open connections and comes before the handlers are cancelled, so a GFD
  stopped before its LFDs goes on exchanging heartbeats;
  `docs/milestone-2-instructions.md:34` says to press Ctrl-C in each window.
  `EndsWhenPeersLeave` is what holds; with `waits` and an LFD that stays,
  `CancelTasks` is never enabled. Before 3.12 `wait_for` can swallow the
  cancellation, with the same effect on one connection.
* **`GfdApp.close` before Python 3.12** (`gfd/app.py:130`). A handler that is already
  in its `finally`, waiting for its connection to be flushed, is cancelled there. It
  leaves its writer in `_writers`, with a `wait_closed` that now raises
  `CancelledError`; the last `gather` (line 132) has no `return_exceptions`,
  `close_writer` suppresses `OSError` only, and `gfd/main.py:36-51` handles
  neither, so the process ends with a traceback and does not wait for the other
  writers. `ClosedIsDisconnected` states what holds then: every connection `close`
  could see has at least been closed. From 3.12 on no connection is left when the
  handlers are cancelled, and `close` never raises.
* `_positive_number` (`common/config.py:101`) raises `OverflowError`, which no main
  handles, for an integer beyond the range of a float; `Deployment` assumes there is
  none. `load_config` accepts two LFDs for one replica, which `Membership` excludes
  (`LfdsAssumption`).
* A network reset of the LFD's connection is not a failure (`lfd/app.py:73`): a
  replica restarted after it and before the next heartbeat is taken for the old one.
  `RestartIsNoticed` states that this is the only case.
* `docs/DESIGN.md:23` says that a failed heartbeat makes the LFD send a delete event.
  A failure and a recovery while `report_changes` is blocked are reported as one
  event that says "healthy"; what the code guarantees, and `NoLostUpdate` states, is
  that the latest health gets through.

## 5. Proofs

All theorems hold for every value of the constants that satisfies the named
assumptions of the modules, with any number of clients, replicas, LFDs and
connections.

* `ReplicaServerProofs`: `TypeCorrect`, `RequestHasOneValue`, `ValuesOrdered`,
  `CounterExact`. The invariant ties the reply table, the counter and the history
  together: the saved entry of a client is its last answered request with the
  current counter as value (`EntryInv`), nothing answered exceeds it
  (`AnsweredInv`), a stranger has no entry (`StrangerInv`), and the counter is the
  size of the finite set of answered numbers (`CountInv`). None of the three
  properties is inductive without the first two.
* `ActiveReplicationProofs`, first part, for arbitrary peers: `TypeCorrect`;
  `NumberInvariant`, the numbering of the client; from it `UnexpectedUnreachable`.
  `DivergenceInv` adds that a receiver that has not ended finds the delivered value
  of every number it has not yet reached in `_delivered_values` (`ValuesInv`); it
  gives `DivergenceReported`, and with it `DeliveredValuesStayBounded`: pruning is
  neither too early nor too late.
* `ActiveReplicationProofs`, second part, exactly-once execution:
  `ReplicaStateHolds`, `ReplicasStayInAgreement`, `ExactlyOnceHolds`,
  `NobodyFalselyAccused`, and the refinement `ServiceImplemented`. The invariant
  follows a number round the system. A client writes a number to all the
  connections it has before it uses the next one (`SendInv`), so the numbers unread
  on a connection rise by at most one at a time, from the last one the replica has
  executed to the last one written (`RequestInv`). A request that is read is
  therefore the last one executed, answered from the table, or the next one, and the
  counter is the number of requests executed (`TableInv`). A reply then carries its
  own number as its value, and the replies on a connection are in order
  (`ReplyInv`); so is all that the client keeps and returns (`ClientInv`). None of
  these is inductive without those before it: the value of a reply depends on the
  table, the table on what is still to be read. The
  connections to correct replicas are in order whatever the members of `Faulty` do
  (`LinkInvariant`), so the first two theorems make no assumption on them. The other
  three have the hypothesis `Faulty = {}`, as their run has: a client takes the first
  reply, and a peer that sends wrong values decides what it returns. For the
  refinement, the first write of a number is `Ask`, the return of a call is
  `Answer`, and everything else, a second write, a crash or a late reply, is
  invisible.
* `PersistentClientProofs`: `OneExchangeAtATime` and the refinement
  `ServiceImplemented`, for any number of connections, requests and restarts. A
  request unread on any connection, dropped or in use, is the current one or one that
  this process has executed (`RequestInv`), so reading it late executes the current
  request early or nothing at all; the counter is the number of calls this process
  answered, and one more between execution and return (`CounterInv`); and the
  connection in use is quiet, or carries the current request, or carries its reply
  (`ExchangeInv`). The last is what makes the rejection branch of `_validate_reply`
  dead against this replica. A crash is a step of `CounterService` too: the call the
  old process did not answer becomes one of the next process.
* `MembershipProofs`: `TypeCorrect` (with the invariant that a reporter using a
  connection has one), `MembersStayWatched` and `OneHandler` from `SessionInv`: a
  session is exactly a handler past its registration. It needs that no two
  LFDs share a replica, which the configuration does not enforce. `NeverRejects`
  comes from `StreamInv`, one statement for each place a handler can be at
  about what is still to be read: a registration first and only first, reports, and at
  most one ack, of the current count, and none while the LFD has still to read the
  heartbeat or to write its answer (`Owes`). `NoUpdateIsLost` comes from `UpdateInv`: while
  `report_changes` is not blocked and nothing is marked as changed, what the GFD
  will know after reading the connection is the current health. Both hold whatever
  rogue peers do and through every reset, timeout and restart of the GFD.
* `LocalFaultDetectorProofs`: `TypeCorrect`, `AtMostOneUnanswered`, `AcksMatch`,
  `FreshHealth`, `NothingStaysOpen` from one invariant: which connections `run` and
  `stop` hold at each await (`HoldInv`), that only a running replica serves
  (`ServerInv`), that at most one message is unread (`QueueInv`), and that an ack
  unread on the connection in use has the current count and was sent after the
  heartbeat (`AckInv`). `SilentStop` needs no invariant. `RestartNoticed` needs
  `NoticedInv`: a connection is opened only while the replica counts as failed or
  after a reset, so one to a healthy replica leads to the process that was found
  healthy or to one started after a reset.
* `HeartbeatTimingProofs`: `TypeCorrect`, `DetectionInTime`, `PauseKept` for all
  frequencies, timeouts and delays, from `TimerInv`: the read in progress ends at the
  fixed deadline, and the time since the last ack and the time left add up to one
  period in a pause and to at most a period and a read timeout in the wait for an
  ack. `NoSideGivesUp` adds `PromptInv`, which says for each of the four situations
  of a session with prompt messages how far ahead of the message on its way both
  timeouts are; this is where `SettingsAssumption` is used.
* `ProgramsProofs`: `LoadedConfigAlwaysRuns`, for every set of ids and every range of
  ports and delays, from `ConfigInv`: what was checked of a section is still true when
  the references are looked at, and implies what the constructors demand.
  `LeftoverIsAlwaysUnseen` and `ClosedIsAlwaysDisconnected`, for any number of
  connections, from `LifeInv`: at each await of `close`, which connections are
  registered, taken, or not yet seen. For the GFD (`GfdInv`) this includes that every
  connection still attached at the last `gather` has been closed or was not seen, and
  that a handler cancelled in `close_writer` before its connection was lost, the
  reason for which `close` raises, exists only where `wait_closed` does not wait.
* `ClientListenerProofs` holds the lemmas about `_process` that `ReplicaServerProofs`
  and `ActiveReplicationProofs` cite.

Every invariant of the runs, every step property but one, and both refinements are
theorems; each inductive invariant was checked by TLC before it was proved.
Only model-checked: the liveness properties `Progress`, `EveryReplicaExecutes`,
`ShutdownTerminates`, `Converges`, `TracksReplica`, `StopTerminates`, `AllAnswered`,
`CloseEndsUnlessRaced` and `EndsWhenPeersLeave`, because neither fairness nor
`ENABLED` is within the prover's reach; and `DelaysDouble`, which rests on the
existence of a least power of two that reaches the maximum, an induction over the
numbers. Where type correctness is a theorem, most runs do not check it again.

## 6. Plan

1. One specification of a whole LFD process, `LocalFaultDetector` and `Membership` in
   the same state; so far they are joined by the argument of section 2.6.
2. Proofs: the parts of the liveness arguments that are safety, above all which task
   can take the next step in a state that is not final (no deadlock) in
   `ActiveReplication` and `Membership`.

Not modelled, and why: logging and the scripts (no state of their own that outlives
a call; the one log message a property is about is the variable `divergence`); the
JSON encoding and the line length limit (a message that breaks them is one kind of
input); TOML syntax; the rounding of floats in `ExponentialBackoff`; `serve_forever`
of `ServerApp`, which no program calls.
