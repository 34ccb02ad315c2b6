--------------------------- MODULE HeartbeatTiming ---------------------------
(***************************************************************************)
(* The timers of one session between an LFD and the GFD: the deadlines of  *)
(* GfdApp._handle (src/ft_system/gfd/app.py) and the receive timeout of    *)
(* answer_heartbeats (src/ft_system/lfd/reporter.py), in discrete time.    *)
(* Membership has the rest of the session and does not measure time.       *)
(*                                                                         *)
(* Every timer is kept as the time it has left.  Time passes only while no *)
(* timer is due; the time a process takes to react is part of Delay.  The  *)
(* LFD reports changes of health at any moment, over the stream that also  *)
(* carries its acks.                                                       *)
(***************************************************************************)
EXTENDS Naturals

CONSTANTS
    GfdFreq,        \* heartbeat_freq of the GFD, --heartbeat-freq included
    LfdFreq,        \* heartbeat_freq of the [gfd] section the LFD has read
    ReadTimeout,    \* read_timeout of that section, the same for both
    Delay           \* bound on the time from writing a message to acting on it

ASSUME TimingAssumption ==
    /\ GfdFreq \in Nat \ {0}
    /\ LfdFreq \in Nat \ {0}
    /\ ReadTimeout \in Nat \ {0}
    /\ Delay \in Nat

\* The settings fit together: a round trip takes less than the read timeout,
\* and the GFD does not pause so long that the LFD gives it up.
ASSUME SettingsAssumption ==
    /\ 2 * Delay < ReadTimeout
    /\ GfdFreq + 2 * Delay < LfdFreq + 2 * ReadTimeout

VARIABLES
    prompt,         \* environment: is every message that fast, or can it take
                    \* any time
    gfd,            \* where _handle is: one of its three reads, or how it ended
    deadline,       \* time left to deadline or next_heartbeat
    armed,          \* time left to the timeout of the read in progress
    lfd,            \* is answer_heartbeats reading, or how it ended
    lfdArmed,       \* time left to its timeout
    toLfd,          \* is a heartbeat on its way
    toLfdAge,       \* and for how long
    toGfd,          \* the registration or ack on its way
    toGfdAge,
    sinceAck        \* time since the registration or the last accepted ack

vars == <<prompt, gfd, deadline, armed, lfd, lfdArmed, toLfd, toLfdAge, toGfd,
          toGfdAge, sinceAck>>

gfdVars == <<gfd, deadline, armed, sinceAck>>

lfdVars == <<lfd, lfdArmed>>

TypeOK ==
    /\ prompt \in BOOLEAN
    /\ gfd \in {"register", "ack", "pause", "timedout", "closed"}
    /\ deadline \in Nat
    /\ armed \in Nat
    /\ lfd \in {"reading", "timedout", "closed"}
    /\ lfdArmed \in Nat
    /\ toLfd \in BOOLEAN
    /\ toLfdAge \in Nat
    /\ toGfd \in {"none", "register", "ack"}
    /\ toGfdAge \in Nat
    /\ sinceAck \in Nat

\* Mutation of ReceiveTimeout: no allowance for a GFD with another frequency.
ReceiveTimeoutShort == LfdFreq + ReadTimeout

\* The timeout of answer_heartbeats.
ReceiveTimeout == LfdFreq + 2 * ReadTimeout

\* The registration has been written and both ends read.
Init ==
    /\ prompt \in BOOLEAN
    /\ gfd = "register"
    /\ deadline = ReadTimeout
    /\ armed = ReadTimeout
    /\ lfd = "reading"
    /\ lfdArmed = ReceiveTimeout
    /\ toLfd = FALSE
    /\ toLfdAge = 0
    /\ toGfd = "register"
    /\ toGfdAge = 0
    /\ sinceAck = 0

-----------------------------------------------------------------------------
\* One round of the outer loop begins: a heartbeat and its deadline.
SendHeartbeat ==
    /\ gfd' = "ack"
    /\ toLfd' = TRUE
    /\ toLfdAge' = 0
    /\ deadline' = ReadTimeout
    /\ armed' = ReadTimeout

ReceiveRegistration ==
    /\ gfd = "register"
    /\ toGfd = "register"
    /\ toGfd' = "none"
    /\ SendHeartbeat
    /\ sinceAck' = 0
    /\ UNCHANGED <<lfdVars, toGfdAge>>

\* The ack ends the wait and begins the pause.
ReceiveAck ==
    /\ gfd = "ack"
    /\ toGfd = "ack"
    /\ toGfd' = "none"
    /\ gfd' = "pause"
    /\ deadline' = GfdFreq
    /\ armed' = GfdFreq
    /\ sinceAck' = 0
    /\ UNCHANGED <<lfdVars, toLfd, toLfdAge, toGfdAge>>

\* The read or the pause is over.
Expire ==
    \/ /\ gfd \in {"register", "ack"}
       /\ gfd' = "timedout"
       /\ UNCHANGED <<deadline, armed, toLfd, toLfdAge>>
    \/ /\ gfd = "pause"
       /\ SendHeartbeat

ReadTimesOut ==
    /\ armed = 0
    /\ Expire
    /\ UNCHANGED <<sinceAck, lfdVars, toGfd, toGfdAge>>

\* Mutation of Remaining: an event gives the LFD the whole time for its ack again.
RemainingFull == IF gfd = "ack" THEN ReadTimeout ELSE deadline

\* Mutation of Remaining: an event ends the pause.
RemainingNone == IF gfd = "ack" THEN deadline ELSE 0

\* How long the next read may take after an event.
Remaining == deadline

\* A membership event is read: the loop goes round with the time that remains.
ReceiveReport ==
    /\ gfd \in {"ack", "pause"}
    /\ lfd = "reading"
    /\ IF Remaining = 0
       THEN Expire
       ELSE armed' = Remaining /\ UNCHANGED <<gfd, deadline, toLfd, toLfdAge>>
    /\ UNCHANGED <<sinceAck, lfdVars, toGfd, toGfdAge>>

\* The LFD has closed the connection.
GfdReadsEnd ==
    /\ gfd \in {"register", "ack", "pause"}
    /\ lfd # "reading"
    /\ gfd' = "closed"
    /\ UNCHANGED <<deadline, armed, sinceAck, lfdVars, toLfd, toLfdAge, toGfd,
                   toGfdAge>>

-----------------------------------------------------------------------------
\* A heartbeat is answered, and the next is waited for.
AnswerHeartbeat ==
    /\ lfd = "reading"
    /\ toLfd
    /\ toLfd' = FALSE
    /\ toGfd' = "ack"
    /\ toGfdAge' = 0
    /\ lfdArmed' = ReceiveTimeout
    /\ UNCHANGED <<gfdVars, lfd, toLfdAge>>

LfdTimesOut ==
    /\ lfd = "reading"
    /\ lfdArmed = 0
    /\ lfd' = "timedout"
    /\ UNCHANGED <<gfdVars, lfdArmed, toLfd, toLfdAge, toGfd, toGfdAge>>

LfdReadsEnd ==
    /\ lfd = "reading"
    /\ gfd \in {"timedout", "closed"}
    /\ lfd' = "closed"
    /\ UNCHANGED <<gfdVars, lfdArmed, toLfd, toLfdAge, toGfd, toGfdAge>>

-----------------------------------------------------------------------------
Live == gfd \in {"register", "ack", "pause"} /\ lfd = "reading"

\* The age of a message, as far as it matters.
Older(age) == IF age <= Delay THEN age + 1 ELSE age

\* One unit of time.
Tick ==
    /\ Live
    /\ armed > 0
    /\ lfdArmed > 0
    /\ prompt => /\ toLfd => toLfdAge < Delay
                 /\ toGfd # "none" => toGfdAge < Delay
    /\ armed' = armed - 1
    /\ deadline' = IF deadline > 0 THEN deadline - 1 ELSE 0
    /\ lfdArmed' = lfdArmed - 1
    /\ toLfdAge' = IF toLfd THEN Older(toLfdAge) ELSE toLfdAge
    /\ toGfdAge' = IF toGfd # "none" THEN Older(toGfdAge) ELSE toGfdAge
    /\ sinceAck' = IF gfd = "register" THEN sinceAck ELSE sinceAck + 1
    /\ UNCHANGED <<gfd, lfd, toLfd, toGfd>>

Next ==
    /\ \/ ReceiveRegistration
       \/ ReceiveAck
       \/ ReadTimesOut
       \/ ReceiveReport
       \/ GfdReadsEnd
       \/ AnswerHeartbeat
       \/ LfdTimesOut
       \/ LfdReadsEnd
       \/ Tick
    /\ UNCHANGED prompt

Spec == Init /\ [][Next]_vars

-----------------------------------------------------------------------------
\* An LFD that no longer answers is given up a heartbeat period and a read
\* timeout after its last ack, however many membership events it sends.
DetectionBound ==
    gfd \in {"ack", "pause"} => sinceAck <= GfdFreq + ReadTimeout

\* While messages are prompt, neither side gives the other up, although the GFD
\* may have been started with another heartbeat frequency than the LFD knows.
NoFalseTimeout == prompt => gfd # "timedout" /\ lfd # "timedout"

\* Membership events neither shorten nor lengthen the pause between the ack and
\* the next heartbeat.
PauseIsKept ==
    [][gfd = "pause" /\ gfd' = "ack" => sinceAck = GfdFreq]_vars
=============================================================================
