------------------------ MODULE HeartbeatTimingProofs ------------------------
(***************************************************************************)
(* Proofs about HeartbeatTiming, for all frequencies, timeouts and delays  *)
(* that satisfy its assumptions.                                           *)
(***************************************************************************)
EXTENDS HeartbeatTiming, TLAPS

USE TimingAssumption

Serving == gfd \in {"register", "ack", "pause"}

(***************************************************************************)
(* What the timers of the GFD add up to: the read in progress always ends  *)
(* at the fixed deadline, and the time since the last ack and the time     *)
(* left are together one period in a pause, and at most a period and a     *)
(* read timeout in the wait for an ack.                                    *)
(***************************************************************************)
TimerInv ==
    /\ TypeOK
    /\ Serving => armed = deadline
    /\ gfd = "pause" => sinceAck + deadline = GfdFreq
    /\ gfd = "ack" => sinceAck + deadline <= GfdFreq + ReadTimeout

\* The receive timeout of the LFD is a length of time.
LEMMA ReceiveTimeoutType == ReceiveTimeout \in Nat
  BY DEF ReceiveTimeout

\* The state after the registration is written has the right types.
LEMMA TypeInit == ASSUME Init PROVE TypeOK
  <1>1. prompt \in BOOLEAN /\ toLfd \in BOOLEAN
    BY DEF Init
  <1>2. /\ deadline \in Nat /\ armed \in Nat /\ lfdArmed \in Nat
        /\ toLfdAge \in Nat /\ toGfdAge \in Nat /\ sinceAck \in Nat
    BY ReceiveTimeoutType DEF Init
  <1> QED
    BY <1>1, <1>2 DEF Init, TypeOK

\* The timers add up when the registration is awaited.
LEMMA TimerInit == Init => TimerInv
  BY TypeInit DEF Init, TimerInv, Serving

\* Every step, a report at any moment included, keeps the sums.
LEMMA TimerStep == TimerInv /\ [Next]_vars => TimerInv'
  <1> SUFFICES ASSUME TimerInv, [Next]_vars PROVE TimerInv'
    OBVIOUS
  <1>0. prompt' \in BOOLEAN
    BY DEF TimerInv, TypeOK, Next, vars
  <1> USE <1>0 DEF TimerInv, TypeOK, Serving
  <1>1. CASE ReceiveRegistration
    BY <1>1 DEF ReceiveRegistration, SendHeartbeat, lfdVars
  <1>2. CASE ReceiveAck
    BY <1>2 DEF ReceiveAck, lfdVars
  <1>3. ASSUME Expire, deadline = 0, UNCHANGED <<sinceAck, lfdVars, toGfd, toGfdAge>>
        PROVE  TimerInv'
    <2>1. CASE gfd \in {"register", "ack"}
      BY <1>3, <2>1 DEF Expire, lfdVars
    <2>2. CASE gfd = "pause"
      BY <1>3, <2>2 DEF Expire, SendHeartbeat, lfdVars
    <2> QED
      BY <1>3, <2>1, <2>2 DEF Expire
  <1>4. CASE ReadTimesOut
    BY <1>3, <1>4 DEF ReadTimesOut, Expire
  <1>5. CASE ReceiveReport
    BY <1>3, <1>5 DEF ReceiveReport, Remaining, lfdVars
  <1>6. CASE GfdReadsEnd
    BY <1>6 DEF GfdReadsEnd, lfdVars
  <1>7. CASE AnswerHeartbeat
    BY <1>7, ReceiveTimeoutType DEF AnswerHeartbeat, gfdVars
  <1>8. CASE LfdTimesOut \/ LfdReadsEnd
    BY <1>8 DEF LfdTimesOut, LfdReadsEnd, gfdVars
  <1>9. CASE Tick
    BY <1>9 DEF Tick, Live, Older
  <1>10. CASE UNCHANGED vars
    BY <1>10 DEF vars
  <1> QED
    BY <1>1, <1>2, <1>4, <1>5, <1>6, <1>7, <1>8, <1>9, <1>10 DEF Next

\* The invariant of the timers.
THEOREM TimersAddUp == Spec => []TimerInv
  BY TimerInit, TimerStep, PTL DEF Spec

\* The variables keep their types.
THEOREM TypeCorrect == Spec => []TypeOK
  <1>1. TimerInv => TypeOK
    BY DEF TimerInv
  <1> QED
    BY <1>1, TimersAddUp, PTL

\* For all settings, an LFD that does not answer is given up a heartbeat period
\* and a read timeout after its last ack, whatever events it sends.
THEOREM DetectionInTime == Spec => []DetectionBound
  <1>1. TimerInv => DetectionBound
    BY DEF TimerInv, TypeOK, DetectionBound
  <1> QED
    BY <1>1, TimersAddUp, PTL

\* For all settings, events do not change the pause between heartbeats.
THEOREM PauseKept == Spec => PauseIsKept
  <1>1. TimerInv /\ [Next]_vars =>
           [gfd = "pause" /\ gfd' = "ack" => sinceAck = GfdFreq]_vars
    <2> SUFFICES ASSUME TimerInv, [Next]_vars, gfd = "pause", gfd' = "ack"
                 PROVE  sinceAck = GfdFreq
      OBVIOUS
    <2>1. ReadTimesOut \/ ReceiveReport
      BY DEF Next, ReceiveRegistration, ReceiveAck, GfdReadsEnd, AnswerHeartbeat,
             LfdTimesOut, LfdReadsEnd, Tick, gfdVars, vars
    <2>2. deadline = 0
      BY <2>1 DEF ReadTimesOut, ReceiveReport, Remaining, TimerInv, Serving
    <2> QED
      BY <2>2 DEF TimerInv, TypeOK
  <1> QED
    BY <1>1, TimersAddUp, PTL DEF Spec, PauseIsKept

-----------------------------------------------------------------------------
(***************************************************************************)
(* Prompt messages.  One message is on its way while the GFD waits, none   *)
(* in a pause, and both timeouts are ahead of it by what is left of its    *)
(* delay.                                                                  *)
(***************************************************************************)
Registering ==
    /\ toGfd = "register" /\ ~toLfd
    /\ toGfdAge + armed = ReadTimeout
    /\ toGfdAge <= Delay
    /\ toGfdAge + lfdArmed = ReceiveTimeout

HeartbeatComing ==
    /\ toGfd = "none" /\ toLfd
    /\ toLfdAge + armed = ReadTimeout
    /\ toLfdAge <= Delay
    /\ toLfdAge + lfdArmed + Delay + GfdFreq >= ReceiveTimeout

AckComing ==
    /\ toGfd = "ack" /\ ~toLfd
    /\ toGfdAge + armed + Delay >= ReadTimeout
    /\ toGfdAge <= Delay
    /\ toGfdAge + lfdArmed = ReceiveTimeout

Pausing ==
    /\ toGfd = "none" /\ ~toLfd
    /\ sinceAck + lfdArmed + Delay >= ReceiveTimeout

PromptInv ==
    /\ Serving
    /\ lfd = "reading"
    /\ gfd = "register" => Registering
    /\ gfd = "ack" => HeartbeatComing \/ AckComing
    /\ gfd = "pause" => Pausing

\* The registration is on its way and no other message.
LEMMA PromptInit == Init => PromptInv
  BY DEF Init, PromptInv, Serving, Registering, ReceiveTimeout

\* While messages are prompt no timer but that of the pause expires.
LEMMA PromptTimers ==
    TimerInv /\ PromptInv => /\ gfd # "pause" => armed > 0
                             /\ lfdArmed > 0
  BY SettingsAssumption
  DEF PromptInv, TimerInv, TypeOK, Serving, Registering, HeartbeatComing,
      AckComing, Pausing, ReceiveTimeout

\* With prompt messages every step leads from one of the four situations to
\* another.
LEMMA PromptStep ==
    ASSUME TimerInv, TimerInv', prompt, PromptInv, [Next]_vars
    PROVE  PromptInv'
  <1>p. /\ gfd # "pause" => armed > 0
        /\ lfdArmed > 0
    BY PromptTimers
  <1> USE DEF PromptInv, TimerInv, TypeOK, Serving
  <1>1. CASE ReceiveRegistration
    BY <1>1 DEF ReceiveRegistration, SendHeartbeat, lfdVars, Registering,
                HeartbeatComing
  <1>2. CASE ReceiveAck
    BY <1>2 DEF ReceiveAck, lfdVars, HeartbeatComing, AckComing, Pausing
  <1>3. ASSUME Expire, armed = 0, UNCHANGED <<sinceAck, lfdVars, toGfd, toGfdAge>>
        PROVE  PromptInv'
    <2>1. gfd = "pause" /\ SendHeartbeat
      BY <1>3, <1>p DEF Expire
    <2>2. sinceAck = GfdFreq
      BY <1>3, <2>1
    <2> QED
      BY <1>3, <2>1, <2>2, ReceiveTimeoutType
         DEF SendHeartbeat, lfdVars, Pausing, HeartbeatComing
  <1>4. CASE ReadTimesOut
    BY <1>3, <1>4 DEF ReadTimesOut
  <1>5. CASE ReceiveReport
    <2>1. CASE deadline = 0
      BY <2>1, <1>3, <1>5 DEF ReceiveReport, Remaining
    <2>2. CASE deadline # 0
      BY <2>2, <1>5 DEF ReceiveReport, Remaining, lfdVars, HeartbeatComing,
                        AckComing, Pausing
    <2> QED
      BY <2>1, <2>2
  <1>6. CASE GfdReadsEnd \/ LfdReadsEnd \/ LfdTimesOut
    BY <1>6, <1>p DEF GfdReadsEnd, LfdReadsEnd, LfdTimesOut
  <1>7. CASE AnswerHeartbeat
    BY <1>7 DEF AnswerHeartbeat, gfdVars, Registering, HeartbeatComing,
                AckComing, Pausing, ReceiveTimeout
  <1>8. CASE Tick
    <2>1. CASE gfd = "register"
      BY <1>8, <2>1 DEF Tick, Older, Registering
    <2>2. CASE gfd = "ack"
      BY <1>8, <2>2 DEF Tick, Older, HeartbeatComing, AckComing
    <2>3. CASE gfd = "pause"
      BY <1>8, <2>3 DEF Tick, Pausing
    <2> QED
      BY <2>1, <2>2, <2>3
  <1>9. CASE UNCHANGED vars
    BY <1>9 DEF vars, Registering, HeartbeatComing, AckComing, Pausing
  <1> QED
    BY <1>1, <1>2, <1>4, <1>5, <1>6, <1>7, <1>8, <1>9 DEF Next

\* For all settings that fit together, no side gives the other up while messages
\* are prompt, although the GFD may have a frequency the LFD does not know.
THEOREM NoSideGivesUp == Spec => []NoFalseTimeout
  <1>1. Init => (prompt => PromptInv)
    BY PromptInit
  <1>2. TimerInv /\ TimerInv' /\ (prompt => PromptInv) /\ [Next]_vars
           => (prompt => PromptInv)'
    <2>1. [Next]_vars => prompt' = prompt
      BY DEF Next, vars
    <2> QED
      BY <2>1, PromptStep
  <1>3. (prompt => PromptInv) => NoFalseTimeout
    BY DEF PromptInv, Serving, NoFalseTimeout
  <1> QED
    BY <1>1, <1>2, <1>3, TimersAddUp, PTL DEF Spec
=============================================================================
