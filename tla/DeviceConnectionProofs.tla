----------------------- MODULE DeviceConnectionProofs -----------------------
(***************************************************************************)
(* No order of answers separates a session from its connection, and no     *)
(* refusal of an earlier token ends a later connection: proved for every   *)
(* number of callers, attempts, keys and events.                           *)
(*                                                                         *)
(* ExpiredIsTrue is about a heartbeat that was asked in one state and is   *)
(* answered in another.  Its argument is that an attempt is decided once   *)
(* (a token that is not honoured never will be again), that a number is    *)
(* given to one attempt only, and that an epoch belongs to one session: an *)
(* answer that passes the epoch fence is about the token in use.           *)
(***************************************************************************)
EXTENDS DeviceConnection, FiniteSetTheorems, TLAPS

\* Threads whose attempt the device has not opened yet.
Creating == {c \in Callers : conns[c].pc = "create"}

\* The device numbers its attempts without gaps, and the bound leaves a number
\* for every thread that is creating one.
NumberedOnce ==
    /\ Started = 1..Cardinality(Started)
    /\ Cardinality(Started) + Cardinality(Creating) <= MaxAttempts

\* Threads that have an attempt name one of the device's.
CallersName ==
    /\ \A c \in Callers : conns[c].pc \in {"created", "apply", "activate", "register"}
                            => conns[c].a \in Attempts
    /\ cancel.pc # "idle" => cancel.a \in Attempts

\* An epoch is one session's: whoever took the current epoch took its token.
EpochIsSession ==
    /\ session # None => session.e <= epochs
    /\ hb.pc # "idle" => /\ hb.e <= epochs
                         /\ session # None /\ session.e = hb.e => session.a = hb.a

\* What a task was told of its attempt stays true: an attempt is decided once.
AnswerIsTrue ==
    \A a \in Attempts : poll[a].pc = "answer" /\ poll[a].kind = "allowed" => att[a].s = "allowed"

\* Every token in use, asked about or shown as expired was issued.
TokenWasIssued ==
    /\ session # None => att[session.a].s = "allowed"
    /\ hb.pc # "idle" => hb.a \in Attempts /\ att[hb.a].s = "allowed"
    /\ conn.k = "expired" /\ conn.e > 0 => conn.a \in Attempts /\ att[conn.a].s = "allowed"

\* A refusal that is on its way stays true.
RefusalIsTrue == hb.pc = "answer" /\ hb.kind = "unauthorized" => hb.a \notin valid

\* What the heartbeat's argument is about.
core == <<conn, secret, session, epochs, att, valid, hb>>

DeviceInv ==
    /\ DeviceTypeOK /\ NumberedOnce /\ CallersName
    /\ SessionIsConnection /\ EpochIsSession /\ AnswerIsTrue
    /\ TokenWasIssued /\ RefusalIsTrue /\ ExpiredIsTrue

(* A thread that does nothing, and a device that is not connected. *)
LEMMA IdleRecord == Idle \in Records
  BY DeviceAssumption DEF Idle, Records, Places, Kinds, AttemptStates

(* The number of a new attempt is within the bound. *)
LEMMA CreatesWithin ==
    ASSUME DeviceTypeOK, NumberedOnce, NEW c \in Callers, conns[c].pc = "create"
    PROVE  /\ Cardinality(Started) + 1 \in Attempts /\ Cardinality(Started) \in Nat
           /\ Cardinality(Started) + 1 \notin Started
           /\ Cardinality(Creating) \in Nat \ {0}
<1>1. IsFiniteSet(Creating) /\ c \in Creating
  BY FS_Subset, DeviceAssumption DEF Creating
<1>2. Cardinality(Creating) \in Nat /\ Cardinality(Creating) # 0
  BY <1>1, FS_CardinalityType, FS_EmptySet
<1>3. IsFiniteSet(Started) /\ Cardinality(Started) \in Nat
  <2>1. IsFiniteSet(Attempts)
    BY FS_Interval, DeviceAssumption DEF Attempts
  <2>2. IsFiniteSet(Started)
    BY <2>1, FS_Subset DEF Started
  <2> QED BY <2>2, FS_CardinalityType
<1> QED BY <1>2, <1>3, DeviceAssumption DEF NumberedOnce, Attempts

(* Type correctness of each step. *)
THEOREM DeviceStepType ==
    ASSUME DeviceTypeOK, NumberedOnce, CallersName, SessionIsConnection, DeviceNext
    PROVE  DeviceTypeOK'
<1>1. ASSUME NEW c \in Callers, CreateAttempt(c)
      PROVE  DeviceTypeOK'
  <2>1. conns[c] \in Records
    BY DEF DeviceTypeOK
  <2>2. Cardinality(Started) + 1 \in Attempts
    BY <1>1, CreatesWithin DEF CreateAttempt
  <2>3. \A n \in 0..MaxAttempts : [conns[c] EXCEPT !.pc = "created", !.a = n] \in Records
    BY <2>1 DEF Records, Places
  <2>4. [s |-> "pending", k |-> devKey] \in Decision
    BY DEF DeviceTypeOK, Decision, AttemptStates
  <2>5. att' \in [Attempts -> Decision]
    BY <1>1, <2>4 DEF CreateAttempt, DeviceTypeOK
  <2>6. conns' \in [Callers -> Records]
    <3>1. Cardinality(Started) + 1 \in 0..MaxAttempts
      BY <2>2, DeviceAssumption DEF Attempts
    <3> QED BY <1>1, <2>3, <3>1 DEF CreateAttempt, DeviceTypeOK
  <2> QED BY <1>1, <2>5, <2>6 DEF CreateAttempt, DeviceTypeOK, actor, tasks
<1>2. ASSUME NEW c \in Callers, CheckTicket(c)
      PROVE  DeviceTypeOK'
  <2>1. [conns[c] EXCEPT !.pc = "apply"] \in Records
    BY <1>2, DeviceAssumption DEF DeviceTypeOK, Records, Places, Kinds, AttemptStates
  <2> QED BY <1>2, <2>1, IdleRecord DEF CheckTicket, DeviceTypeOK, actor, tasks, device, Spend,
             Ended, clear_active_pairing
<1>3. ASSUME NEW c \in Callers, ApplyCreated(c)
      PROVE  DeviceTypeOK'
  <2>1. conns[c] \in Records /\ conns[c].a \in Attempts
    BY <1>3, DeviceAssumption DEF DeviceTypeOK, CallersName, ApplyCreated
  <2>2. [conns[c] EXCEPT !.pc = "activate"] \in Records
    BY <1>3, DeviceAssumption DEF DeviceTypeOK, Records, Places, Kinds, AttemptStates
  <2>3. [k |-> "pairing", a |-> conns[c].a, e |-> 0] \in Connection
    BY <2>1, DeviceAssumption DEF Connection, Attempts
  <2>4. att[conns[c].a].k \in Keys \cup {None}
    BY <2>1 DEF DeviceTypeOK, Decision
  <2> QED BY <1>3, <2>1, <2>2, <2>3, <2>4, IdleRecord DEF ApplyCreated, DeviceTypeOK, actor,
             tasks, device, Spend, Ended, clear_active_pairing
<1>4. ASSUME NEW c \in Callers, Activate(c)
      PROVE  DeviceTypeOK'
  <2>1. conns[c] \in Records /\ conns[c].a \in 0..MaxAttempts
    BY <1>4, DeviceAssumption DEF DeviceTypeOK, Records, Places, Kinds, AttemptStates
  <2>2. [conns[c] EXCEPT !.pc = "register"] \in Records
    BY <1>4, DeviceAssumption DEF DeviceTypeOK, Records, Places, Kinds, AttemptStates
  <2> QED BY <1>4, <2>1, <2>2, IdleRecord DEF Activate, DeviceTypeOK, actor, tasks, device,
             Spend, Ended, clear_active_pairing
<1>5. ASSUME NEW c \in Callers, Register(c)
      PROVE  DeviceTypeOK'
  <2>1. conns[c].a \in 0..MaxAttempts
    BY <1>5, DeviceAssumption DEF DeviceTypeOK, Records
  <2> QED BY <1>5, <2>1, IdleRecord DEF Register, DeviceTypeOK, actor, tasks, device, Spend,
             Ended, clear_active_pairing
<1>6. ASSUME NEW c \in Callers, Connect(c)
      PROVE  DeviceTypeOK'
  <2>1. \A n \in Nat : [Idle EXCEPT !.pc = "create", !.e = n] \in Records
    BY IdleRecord DEF Records, Places
  <2>2. gen' \in Nat /\ gen' = gen + 1
    BY <1>6 DEF Connect, DeviceTypeOK
  <2>5. conns' \in [Callers -> Records]
    BY <1>6, <2>1, <2>2 DEF Connect, DeviceTypeOK
  <2>3. run' \in [Attempts -> {"none", "loop", "wait", "trust", "ended"}]
    BY <1>6 DEF Connect, DeviceTypeOK
  <2>4. task' \in 0..MaxAttempts
    BY <1>6, DeviceAssumption DEF Connect
  <2> QED BY <1>6, <2>2, <2>3, <2>4, <2>5 DEF Connect, DeviceTypeOK, actor, device
<1>7. ASSUME NEW c \in Callers, CreateFails(c)
      PROVE  DeviceTypeOK'
  <2> QED BY <1>7, IdleRecord DEF CreateFails, DeviceTypeOK, actor, tasks, device, Spend, Ended,
             clear_active_pairing
<1>8. ASSUME NEW a \in Attempts, PollRound(a)
      PROVE  DeviceTypeOK'
  <2>1. [Idle EXCEPT !.pc = "check"] \in Records
    BY IdleRecord DEF Records, Places
  <2>2. run' \in [Attempts -> {"none", "loop", "wait", "trust", "ended"}]
    BY <1>8 DEF PollRound, DeviceTypeOK, Ended
  <2>3. active' \in 0..MaxAttempts
    BY <1>8, DeviceAssumption DEF PollRound, DeviceTypeOK, clear_active_pairing
  <2>4. poll' \in [Attempts -> Records]
    BY <1>8, <2>1 DEF PollRound, DeviceTypeOK
  <2> QED BY <1>8, <2>2, <2>3, <2>4 DEF PollRound, DeviceTypeOK, actor, device
<1>9. ASSUME NEW a \in Attempts, AskStatus(a)
      PROVE  DeviceTypeOK'
  <2>1. a \in 0..MaxAttempts /\ poll[a] \in Records
    BY <1>9, DeviceAssumption DEF DeviceTypeOK, Attempts
  <2>2. [poll[a] EXCEPT !.pc = "asked", !.a = a] \in Records
    BY <2>1 DEF Records, Places, Kinds, AttemptStates
  <2>3. [poll[a] EXCEPT !.pc = "answered", !.kind = "stale"] \in Records
    BY <2>1 DEF Records, Places, Kinds, AttemptStates
  <2> QED BY <1>9, <2>1, <2>2, <2>3, IdleRecord DEF AskStatus, DeviceTypeOK, actor, tasks,
             device, Spend, Ended, clear_active_pairing
<1>10. ASSUME NEW a \in Attempts, StatusAnswer(a)
       PROVE  DeviceTypeOK'
  <2>1. poll[a] \in Records /\ att[a].s \in AttemptStates /\ devKey \in Keys
    BY <1>10, DeviceAssumption DEF DeviceTypeOK, Decision
  <2>2. [poll[a] EXCEPT !.pc = "answer", !.kind = att[a].s, !.k = devKey] \in Records
    BY <2>1 DEF Records, Places, Kinds, AttemptStates
  <2> QED BY <1>10, <2>1, <2>2, IdleRecord DEF StatusAnswer, DeviceTypeOK, actor, tasks, device,
             Spend, Ended, clear_active_pairing
<1>11. ASSUME NEW a \in Attempts, ApplyStatus(a)
       PROVE  DeviceTypeOK'
  <2>1. poll[a] \in Records /\ poll[a].k \in Keys \cup {None}
    BY DEF DeviceTypeOK, Records
  <2>2. \A o \in {"stale", "pending", "connected", "error", "rejected"} :
           [poll[a] EXCEPT !.pc = "answered", !.kind = o] \in Records
    BY <2>1 DEF Records, Places, Kinds, AttemptStates
  <2>3. [Disconnected EXCEPT !.k = "disconnected"] \in Connection
    BY DeviceAssumption DEF Disconnected, Connection
  <2>4. epochs + 1 \in Nat /\ [k |-> "connected", a |-> a, e |-> epochs + 1] \in Connection
    BY DeviceAssumption DEF DeviceTypeOK, Connection, Attempts
  <2>5. [e |-> epochs + 1, a |-> a, k |-> poll[a].k] \in Session
    BY <2>1, <2>4 DEF Session
  <2>6. poll' \in [Attempts -> Records]
    BY <1>11, <2>2 DEF ApplyStatus, DeviceTypeOK
  <2>7. /\ conn' \in Connection /\ secret' \in BOOLEAN /\ session' \in Session \cup {None}
        /\ pendKey' \in Keys \cup {None} /\ sasKey' \in Keys \cup {None} /\ epochs' \in Nat
    BY <1>11, <2>1, <2>3, <2>4, <2>5 DEF ApplyStatus, DeviceTypeOK
  <2> QED BY <1>11, <2>6, <2>7 DEF ApplyStatus, DeviceTypeOK, device
<1>12. ASSUME NEW a \in Attempts, TaskGoesOn(a)
       PROVE  DeviceTypeOK'
  <2> QED BY <1>12, IdleRecord, DeviceAssumption DEF TaskGoesOn, DeviceTypeOK, actor, tasks,
             device, Spend, Ended, clear_active_pairing, Attempts
<1>13. ASSUME NEW a \in Attempts, RecordTrust(a)
       PROVE  DeviceTypeOK'
  <2>1. Confirmed => [a |-> a, k |-> sasKey] \in Trust
    BY <1>13, DeviceAssumption DEF DeviceTypeOK, Confirmed, Trust
  <2> QED BY <1>13, <2>1, IdleRecord, DeviceAssumption DEF RecordTrust, DeviceTypeOK, actor,
             tasks, device, Spend, Ended, clear_active_pairing, Attempts
<1>14. ASSUME NEW a \in Attempts, Deadline(a)
       PROVE  DeviceTypeOK'
  <2>1. [Disconnected EXCEPT !.k = "expired"] \in Connection
    BY DeviceAssumption DEF Disconnected, Connection
  <2>2. run' \in [Attempts -> {"none", "loop", "wait", "trust",
        "ended"}] /\ active' \in 0..MaxAttempts
    BY <1>14, DeviceAssumption DEF Deadline, DeviceTypeOK, Ended, clear_active_pairing
  <2>3. /\ conn' \in Connection /\ secret' \in BOOLEAN /\ session' \in Session \cup {None}
        /\ pendKey' \in Keys \cup {None} /\ sasKey' \in Keys \cup {None}
    BY <1>14, <2>1 DEF Deadline, DeviceTypeOK
  <2> QED BY <1>14, <2>2, <2>3 DEF Deadline, DeviceTypeOK, device
<1>15. ASSUME NEW a \in Attempts, DropToken(a)
       PROVE  DeviceTypeOK'
  <2> QED BY <1>15, IdleRecord DEF DropToken, DeviceTypeOK, actor, tasks, device, Spend, Ended,
             clear_active_pairing
<1>16. ASSUME NEW a \in Attempts, NEW s \in {"allowed", "rejected", "expired"}, Decide(a, s)
       PROVE  DeviceTypeOK'
  <2>1. [att[a] EXCEPT !.s = s] \in Decision
    BY <1>16, DeviceAssumption DEF DeviceTypeOK, Decision, AttemptStates
  <2> QED BY <1>16, <2>1, IdleRecord DEF Decide, DeviceTypeOK, actor, tasks, device, Spend,
             Ended, clear_active_pairing
<1>17. CASE CancelAtDevice
  <2>1. [cancel EXCEPT !.pc = "local"] \in Records
    BY <1>17, DeviceAssumption DEF DeviceTypeOK, Records, Places, Kinds, AttemptStates
  <2>2. cancel.a \in Attempts
    BY <1>17, DeviceAssumption DEF CancelAtDevice, CallersName
  <2>3. [att[cancel.a] EXCEPT !.s = "cancelled"] \in Decision
    BY <2>2, DeviceAssumption DEF DeviceTypeOK, Decision, AttemptStates
  <2> QED BY <1>17, <2>1, <2>2, <2>3, IdleRecord DEF CancelAtDevice, DeviceTypeOK, actor, tasks,
             device, Spend, Ended, clear_active_pairing
<1>18. CASE CancelLocally
  <2>1. Disconnected \in Connection
    BY DeviceAssumption DEF Disconnected, Connection
  <2>2. active' \in 0..MaxAttempts /\ task' \in 0..MaxAttempts
    BY <1>18, DeviceAssumption DEF CancelLocally, DeviceTypeOK, clear_active_pairing
  <2>4. run' \in [Attempts -> {"none", "loop", "wait", "trust", "ended"}]
    BY <1>18 DEF CancelLocally, DeviceTypeOK
  <2>3. /\ conn' \in Connection /\ secret' \in BOOLEAN /\ session' \in Session \cup {None}
        /\ pendKey' \in Keys \cup {None} /\ sasKey' \in Keys \cup {None}
    BY <1>18, <2>1 DEF CancelLocally, DeviceTypeOK
  <2> QED BY <1>18, <2>2, <2>3, <2>4, IdleRecord DEF CancelLocally, DeviceTypeOK, device
<1>19. CASE ClearConnection
  <2>1. Disconnected \in Connection
    BY <1>19, DeviceAssumption DEF Disconnected, Connection
  <2>2. [disc EXCEPT !.pc = "revoke"] \in Records
    BY <1>19, DeviceAssumption DEF DeviceTypeOK, Records, Places, Kinds, AttemptStates
  <2> QED BY <1>19, <2>1, <2>2, IdleRecord DEF ClearConnection, DeviceTypeOK, actor, tasks,
             device, Spend, Ended, clear_active_pairing, clear_connection_state
<1>20. CASE Revoke
  <2> QED BY <1>20, IdleRecord DEF Revoke, DeviceTypeOK, actor, tasks, device, Spend, Ended,
             clear_active_pairing
<1>21. CASE Cancel
  <2>1. [Idle EXCEPT !.pc = "device", !.a = active] \in Records
    BY <1>21, DeviceAssumption DEF DeviceTypeOK, Idle, Records, Places, Kinds, AttemptStates
  <2> QED BY <1>21, <2>1, IdleRecord DEF Cancel, DeviceTypeOK, actor, tasks, device, Spend,
             Ended, clear_active_pairing
<1>22. CASE Disconnect
  <2>1. session # None => session.a \in 0..MaxAttempts
    BY DeviceAssumption DEF DeviceTypeOK, Session, Attempts
  <2>2. \A n \in 0..MaxAttempts : [Idle EXCEPT !.pc = "clear", !.a = n] \in Records
    BY IdleRecord DEF Records, Places
  <2>3. disc' \in Records
    <3>1. (IF session = None THEN 0 ELSE session.a) \in 0..MaxAttempts
      BY <2>1, DeviceAssumption
    <3> QED BY <1>22, <3>1, <2>2 DEF Disconnect
  <2>4. gen' \in Nat /\ events' \in Nat /\ task' \in 0..MaxAttempts
    BY <1>22, DeviceAssumption DEF Disconnect, DeviceTypeOK, Spend
  <2>5. run' \in [Attempts -> {"none", "loop", "wait", "trust", "ended"}]
    BY <1>22 DEF Disconnect, DeviceTypeOK
  <2> QED BY <1>22, <2>3, <2>4, <2>5 DEF Disconnect, DeviceTypeOK, actor, device
<1>23. CASE Heartbeat
  <2>1. session.a \in 0..MaxAttempts /\ session.e \in Nat
    BY <1>23, DeviceAssumption DEF DeviceTypeOK, Heartbeat, Session, Attempts
  <2>2. [Idle EXCEPT !.pc = "asked", !.e = session.e, !.a = session.a] \in Records
    BY <2>1, DeviceAssumption DEF Idle, Records, Places, Kinds, AttemptStates
  <2> QED BY <1>23, <2>1, <2>2, IdleRecord DEF Heartbeat, DeviceTypeOK, actor, tasks, device,
             Spend, Ended, clear_active_pairing
<1>24. CASE ApplyHeartbeat
  <2>1. [conn EXCEPT !.k = "expired"] \in Connection
    BY <1>24, DeviceAssumption DEF DeviceTypeOK, Connection
  <2> QED BY <1>24, <2>1, IdleRecord DEF ApplyHeartbeat, DeviceTypeOK, actor, tasks, device,
             Spend, Ended, clear_active_pairing
<1>25. CASE TakeSession
  <2>1. session # None => session.a \in 0..MaxAttempts /\ session.k \in Keys \cup {None}
    BY <1>25, DeviceAssumption DEF DeviceTypeOK, Session, Attempts
  <2>2. session # None => [req EXCEPT !.pc = "fetch", !.a = session.a,
        !.k = session.k] \in Records
    BY <2>1, DeviceAssumption DEF DeviceTypeOK, Records, Places, Kinds, AttemptStates
  <2> QED BY <1>25, <2>1, <2>2, IdleRecord DEF TakeSession, DeviceTypeOK, actor, tasks, device,
             Spend, Ended, clear_active_pairing
<1>26. CASE DeviceInfo
  <2>1. [req EXCEPT !.pc = "info", !.k = devKey] \in Records
    BY <1>26, DeviceAssumption DEF DeviceTypeOK, Records, Places, Kinds, AttemptStates
  <2> QED BY <1>26, <2>1, IdleRecord DEF DeviceInfo, DeviceTypeOK, actor, tasks, device, Spend,
             Ended, clear_active_pairing
<1>27. CASE ApplyDeviceInfo
  <2>1. SameEpoch(req.e) => session \in Session
    BY <1>27, DeviceAssumption DEF DeviceTypeOK, SameEpoch, SessionIsConnection
  <2>2. req.k \in Keys \cup {None}
    BY <1>27, DeviceAssumption DEF DeviceTypeOK, Records
  <2>3. SameEpoch(req.e) => [session EXCEPT !.k = req.k] \in Session
    BY <2>1, <2>2 DEF Session
  <2> QED BY <1>27, <2>1, <2>2, <2>3, IdleRecord DEF ApplyDeviceInfo, DeviceTypeOK, actor,
             tasks, device, Spend, Ended, clear_active_pairing
<1>28. CASE SendRequest
  <2>1. [req EXCEPT !.pc = "body"] \in Records
    BY <1>28, DeviceAssumption DEF DeviceTypeOK, Records, Places, Kinds, AttemptStates
  <2> QED BY <1>28, <2>1, IdleRecord DEF SendRequest, DeviceTypeOK, actor, tasks, device, Spend,
             Ended, clear_active_pairing
<1>29. CASE ApplyBody
  <2>1. [req EXCEPT !.pc = "fetched"] \in Records
    BY <1>29, DeviceAssumption DEF DeviceTypeOK, Records, Places, Kinds, AttemptStates
  <2> QED BY <1>29, <2>1, IdleRecord DEF ApplyBody, DeviceTypeOK, actor, tasks, device, Spend,
             Ended, clear_active_pairing
<1>30. CASE EndRequest
  <2> QED BY <1>30, IdleRecord DEF EndRequest, DeviceTypeOK, actor, tasks, device, Spend, Ended,
             clear_active_pairing
<1>31. ASSUME NEW s \in {"renewed", "unauthorized", "error"}, HeartbeatAnswer(s)
       PROVE  DeviceTypeOK'
  <2>1. [hb EXCEPT !.pc = "answer", !.kind = s] \in Records
    BY <1>31, DeviceAssumption DEF DeviceTypeOK, Records, Places, Kinds, AttemptStates
  <2> QED BY <1>31, <2>1, IdleRecord DEF HeartbeatAnswer, DeviceTypeOK, actor, tasks, device,
             Spend, Ended, clear_active_pairing
<1>32. ASSUME NEW kind \in {"refresh", "detail", "page", "delete"}, Request(kind)
       PROVE  DeviceTypeOK'
  <2>1. session.a \in 0..MaxAttempts /\ session.e \in Nat /\ session.k \in Keys \cup {None}
    BY <1>32, DeviceAssumption DEF DeviceTypeOK, Request, Session, Attempts
  <2>2. req'.pc \in Places
    BY <1>32, DeviceAssumption DEF Request, Places
  <2>3. req' \in Records
    BY <1>32, <2>1, DeviceAssumption DEF Request, Records, Places, Kinds
  <2> QED BY <1>32, <2>1, <2>2, <2>3, IdleRecord DEF Request, DeviceTypeOK, actor, tasks,
             device, Spend, Ended, clear_active_pairing
<1>33. ASSUME NEW k \in Keys, ChangeKey(k)
       PROVE  DeviceTypeOK'
  <2> QED BY <1>33, IdleRecord DEF ChangeKey, DeviceTypeOK, actor, tasks, device, Spend, Ended,
             clear_active_pairing
<1> QED BY <1>1, <1>2, <1>3, <1>4, <1>5, <1>6, <1>7, <1>8, <1>9, <1>10, <1>11, <1>12, <1>13,
           <1>14, <1>15, <1>16, <1>17, <1>18, <1>19, <1>20, <1>21, <1>22, <1>23, <1>24, <1>25,
           <1>26, <1>27, <1>28, <1>29, <1>30, <1>31, <1>32, <1>33 DEF DeviceNext, Progress

(* The steps that change the connection, the device or the heartbeat. *)
LEMMA CoreSteps ==
    ASSUME DeviceNext
    PROVE  \/ UNCHANGED core
           \/ \E c \in Callers : CreateAttempt(c) \/ ApplyCreated(c)
           \/ \E a \in Attempts : \/ ApplyStatus(a) \/ Deadline(a) \/ DropToken(a)
                                  \/ \E s \in {"allowed", "rejected", "expired"} : Decide(a, s)
           \/ CancelAtDevice \/ CancelLocally \/ ClearConnection \/ Revoke \/ Heartbeat
           \/ \E s \in {"renewed", "unauthorized", "error"} : HeartbeatAnswer(s)
           \/ ApplyHeartbeat \/ ApplyDeviceInfo
<1>1. ASSUME NEW c \in Callers,
             CheckTicket(c) \/ Activate(c) \/ Register(c) \/ Connect(c) \/ CreateFails(c)
      PROVE  UNCHANGED core
  BY <1>1 DEF core, actor, device, CheckTicket, Activate, Register, Connect, CreateFails
<1>2. ASSUME NEW a \in Attempts,
             PollRound(a) \/ AskStatus(a) \/ StatusAnswer(a) \/ TaskGoesOn(a) \/ RecordTrust(a)
      PROVE  UNCHANGED core
  BY <1>2 DEF core, actor, device, PollRound, AskStatus, StatusAnswer, TaskGoesOn, RecordTrust
<1>3. ASSUME \/ Cancel \/ Disconnect \/ TakeSession \/ DeviceInfo \/ SendRequest \/ ApplyBody
             \/ EndRequest \/ \E k \in Keys : ChangeKey(k)
             \/ \E kind \in {"refresh", "detail", "page", "delete"} : Request(kind)
      PROVE  UNCHANGED core
  BY <1>3 DEF core, actor, device, Cancel, Disconnect, TakeSession, DeviceInfo, SendRequest,
              ApplyBody, EndRequest, Request, ChangeKey
<1> QED BY <1>1, <1>2, <1>3 DEF DeviceNext, Progress

(* The numbering: a new attempt takes the next number, and every thread that is
   creating one has kept a number free. *)
THEOREM NumberingStep ==
    ASSUME DeviceTypeOK, NumberedOnce, DeviceNext
    PROVE  NumberedOnce'
<1>1. IsFiniteSet(Creating) /\ IsFiniteSet(Started) /\ IsFiniteSet({d \in Callers : conns[d] # Idle})
  <2>1. IsFiniteSet(Attempts)
    BY FS_Interval, DeviceAssumption DEF Attempts
  <2> QED BY <2>1, FS_Subset, DeviceAssumption DEF Creating, Started
<1>2. Cardinality(Creating) \in Nat /\ Cardinality(Started) \in Nat
  BY <1>1, FS_CardinalityType
<1>3. ASSUME Started' = Started, Creating' \subseteq Creating
      PROVE  NumberedOnce'
  <2>1. Cardinality(Creating') \in Nat /\ Cardinality(Creating') <= Cardinality(Creating)
    BY <1>1, <1>3, FS_Subset, FS_CardinalityType
  <2> QED BY <1>2, <1>3, <2>1, DeviceAssumption DEF NumberedOnce
<1>4. ASSUME NEW c \in Callers, CreateAttempt(c)
      PROVE  NumberedOnce'
  <2> DEFINE n == Cardinality(Started) + 1
  <2>1. n \in Attempts /\ n \notin Started /\ Cardinality(Creating) \in Nat \ {0}
    BY <1>4, CreatesWithin DEF CreateAttempt
  <2>2. Started' = Started \cup {n}
    BY <1>4, <2>1 DEF CreateAttempt, Started, DeviceTypeOK
  <2>3. Creating' = Creating \ {c} /\ c \in Creating
    BY <1>4 DEF CreateAttempt, Creating, DeviceTypeOK
  <2>4. Cardinality(Started') = Cardinality(Started) + 1
    BY <1>1, <2>1, <2>2, FS_AddElement
  <2>5. Cardinality(Creating') = Cardinality(Creating) - 1
    BY <1>1, <2>3, FS_RemoveElement
  <2>6. Started' = 1..Cardinality(Started')
    BY <1>2, <2>2, <2>4 DEF NumberedOnce
  <2> QED BY <1>2, <2>1, <2>4, <2>5, <2>6, DeviceAssumption DEF NumberedOnce
<1>5. ASSUME NEW c \in Callers, Connect(c)
      PROVE  NumberedOnce'
  <2>1. Started' = Started
    BY <1>5 DEF Connect, device, Started
  <2>2. Creating' \subseteq {d \in Callers : conns[d] # Idle} \cup {c}
    BY <1>5 DEF Connect, Creating, DeviceTypeOK, Idle
  <2>3. c \notin {d \in Callers : conns[d] # Idle}
    BY <1>5 DEF Connect
  <2>4. /\ IsFiniteSet({d \in Callers : conns[d] # Idle} \cup {c})
        /\ Cardinality({d \in Callers : conns[d] # Idle} \cup {c})
             = Cardinality({d \in Callers : conns[d] # Idle}) + 1
    BY <1>1, <2>3, FS_AddElement
  <2>5. Cardinality({d \in Callers : conns[d] # Idle}) \in Nat
    BY <1>1, FS_CardinalityType
  <2>6. /\ Cardinality(Creating') \in Nat
        /\ Cardinality(Creating') <= Cardinality({d \in Callers : conns[d] # Idle}) + 1
    BY <2>2, <2>4, FS_Subset, FS_CardinalityType
  <2>7. Cardinality(Started) + Cardinality({d \in Callers : conns[d] # Idle}) < MaxAttempts
    BY <1>5 DEF Connect
  <2> QED BY <1>2, <2>1, <2>5, <2>6, <2>7, DeviceAssumption DEF NumberedOnce
<1>6. ASSUME NEW c \in Callers,
             \/ CheckTicket(c) \/ ApplyCreated(c) \/ Activate(c) \/ Register(c) \/ CreateFails(c)
      PROVE  NumberedOnce'
  <2>1. Started' = Started
    BY <1>6 DEF CheckTicket, ApplyCreated, Activate, Register, CreateFails, device, Started
  <2>2. Creating' \subseteq Creating
    BY <1>6 DEF CheckTicket, ApplyCreated, Activate, Register, CreateFails, Creating, Idle,
                DeviceTypeOK, Records
  <2> QED BY <1>3, <2>1, <2>2
<1>7. ASSUME NEW a \in Attempts, NEW s \in {"allowed", "rejected", "expired"}, Decide(a, s)
      PROVE  NumberedOnce'
  <2>1. Started' = Started
    BY <1>7 DEF Decide, Started, DeviceTypeOK, Decision
  <2>2. Creating' = Creating
    BY <1>7 DEF Decide, Creating
  <2> QED BY <1>3, <2>1, <2>2
<1>8. CASE CancelAtDevice
  <2>1. Started' = Started
    BY <1>8 DEF CancelAtDevice, Started, DeviceTypeOK, Decision
  <2>2. Creating' = Creating
    BY <1>8 DEF CancelAtDevice, Creating
  <2> QED BY <1>3, <2>1, <2>2
<1>9. CASE UNCHANGED <<att, conns>>
  BY <1>3, <1>9 DEF Started, Creating
<1>10. ASSUME NEW a \in Attempts,
              \/ PollRound(a) \/ AskStatus(a) \/ StatusAnswer(a) \/ ApplyStatus(a) \/ TaskGoesOn(a)
              \/ RecordTrust(a) \/ Deadline(a) \/ DropToken(a)
       PROVE  UNCHANGED <<att, conns>>
  BY <1>10 DEF PollRound, AskStatus, StatusAnswer, ApplyStatus, TaskGoesOn, RecordTrust, Deadline,
               DropToken, device
<1>11. ASSUME \/ CancelLocally \/ ClearConnection \/ Revoke \/ Cancel \/ Disconnect \/ Heartbeat
              \/ \E s \in {"renewed", "unauthorized", "error"} : HeartbeatAnswer(s)
              \/ ApplyHeartbeat \/ TakeSession \/ DeviceInfo \/ ApplyDeviceInfo \/ SendRequest
              \/ ApplyBody \/ EndRequest \/ \E k \in Keys : ChangeKey(k)
              \/ \E kind \in {"refresh", "detail", "page", "delete"} : Request(kind)
       PROVE  UNCHANGED <<att, conns>>
  BY <1>11 DEF CancelLocally, ClearConnection, Revoke, Cancel, Disconnect, Heartbeat,
               HeartbeatAnswer, ApplyHeartbeat, TakeSession, DeviceInfo, ApplyDeviceInfo,
               SendRequest, ApplyBody, EndRequest, ChangeKey, Request, device
<1> QED BY <1>4, <1>5, <1>6, <1>7, <1>8, <1>9, <1>10, <1>11 DEF DeviceNext, Progress

(* A thread that has an attempt was given its number by the device. *)
THEOREM CallersStep ==
    ASSUME DeviceTypeOK, NumberedOnce, CallersName, DeviceNext
    PROVE  CallersName'
<1>1. ASSUME NEW c \in Callers, CreateAttempt(c)
      PROVE  CallersName'
  <2>1. Cardinality(Started) + 1 \in Attempts
    BY <1>1, CreatesWithin DEF CreateAttempt
  <2> QED BY <1>1, <2>1 DEF CreateAttempt, CallersName, DeviceTypeOK, Records
<1>2. ASSUME NEW c \in Callers,
             \/ CheckTicket(c) \/ ApplyCreated(c) \/ Activate(c) \/ Register(c) \/ Connect(c)
             \/ CreateFails(c)
      PROVE  CallersName'
  <2>1. UNCHANGED cancel
    BY <1>2 DEF CheckTicket, ApplyCreated, Activate, Register, Connect, CreateFails
  <2>2. \A d \in Callers \ {c} : conns'[d] = conns[d]
    BY <1>2 DEF CheckTicket, ApplyCreated, Activate, Register, Connect, CreateFails, DeviceTypeOK
  <2>3. conns'[c].pc \in {"created", "apply", "activate", "register"}
          => /\ conns[c].pc \in {"created", "apply", "activate", "register"}
             /\ conns'[c].a = conns[c].a
    <3>1. conns[c] \in Records /\ conns \in [Callers -> Records]
      BY DEF DeviceTypeOK
    <3>2. CASE CheckTicket(c)
      BY <3>1, <3>2 DEF CheckTicket, Idle, Records
    <3>3. CASE ApplyCreated(c) \/ Activate(c)
      BY <3>1, <3>3 DEF ApplyCreated, Activate, Records
    <3>4. CASE Register(c) \/ CreateFails(c)
      BY <3>1, <3>4 DEF Register, CreateFails, Idle
    <3>5. CASE Connect(c)
      <4>1. conns'[c] = [Idle EXCEPT !.pc = "create", !.e = gen + 1]
        BY <3>1, <3>5 DEF Connect
      <4> QED BY <4>1 DEF Idle
    <3> QED BY <1>2, <3>2, <3>3, <3>4, <3>5
  <2> QED BY <2>1, <2>2, <2>3 DEF CallersName
<1>3. CASE Cancel
  BY <1>3, DeviceAssumption DEF Cancel, CallersName, Idle, DeviceTypeOK, Attempts
<1>4. CASE CancelAtDevice \/ CancelLocally
  BY <1>4 DEF CancelAtDevice, CancelLocally, CallersName, Idle, DeviceTypeOK, Records
<1>5. CASE UNCHANGED <<conns, cancel>>
  BY <1>5 DEF CallersName
<1>6. ASSUME NEW a \in Attempts,
             \/ PollRound(a) \/ AskStatus(a) \/ StatusAnswer(a) \/ ApplyStatus(a) \/ TaskGoesOn(a)
             \/ RecordTrust(a) \/ Deadline(a) \/ DropToken(a)
             \/ \E s \in {"allowed", "rejected", "expired"} : Decide(a, s)
      PROVE  UNCHANGED <<conns, cancel>>
  BY <1>6 DEF PollRound, AskStatus, StatusAnswer, ApplyStatus, TaskGoesOn, RecordTrust, Deadline,
              DropToken, Decide
<1>7. ASSUME \/ ClearConnection \/ Revoke \/ Disconnect \/ Heartbeat
             \/ \E s \in {"renewed", "unauthorized", "error"} : HeartbeatAnswer(s)
             \/ ApplyHeartbeat \/ TakeSession \/ DeviceInfo \/ ApplyDeviceInfo \/ SendRequest
             \/ ApplyBody \/ EndRequest \/ \E k \in Keys : ChangeKey(k)
             \/ \E kind \in {"refresh", "detail", "page", "delete"} : Request(kind)
      PROVE  UNCHANGED <<conns, cancel>>
  BY <1>7 DEF ClearConnection, Revoke, Disconnect, Heartbeat, HeartbeatAnswer, ApplyHeartbeat,
              TakeSession, DeviceInfo, ApplyDeviceInfo, SendRequest, ApplyBody, EndRequest,
              ChangeKey, Request
<1> QED BY <1>1, <1>2, <1>3, <1>4, <1>5, <1>6, <1>7 DEF DeviceNext, Progress

(* An attempt that was allowed stays allowed. *)
LEMMA AllowedStays ==
    ASSUME DeviceTypeOK, NumberedOnce, CallersName, DeviceNext,
           NEW b \in Attempts, att[b].s = "allowed"
    PROVE  att'[b].s = "allowed"
<1>1. ASSUME NEW c \in Callers, CreateAttempt(c)
      PROVE  att'[b].s = "allowed"
  <2>1. Cardinality(Started) + 1 \notin Started /\ b \in Started
    BY <1>1, CreatesWithin DEF CreateAttempt, Started
  <2> QED BY <1>1, <2>1 DEF CreateAttempt, DeviceTypeOK
<1>2. ASSUME NEW a \in Attempts, NEW s \in {"allowed", "rejected", "expired"}, Decide(a, s)
      PROVE  att'[b].s = "allowed"
  BY <1>2 DEF Decide, DeviceTypeOK, Decision
<1>3. CASE CancelAtDevice
  BY <1>3 DEF CancelAtDevice, CallersName, DeviceTypeOK, Decision
<1>4. ASSUME NEW c \in Callers, ApplyCreated(c)
      PROVE  att' = att
  BY <1>4 DEF ApplyCreated, device
<1>5. ASSUME NEW a \in Attempts, ApplyStatus(a) \/ Deadline(a) \/ DropToken(a)
      PROVE  att' = att
  BY <1>5 DEF ApplyStatus, Deadline, DropToken, device
<1>6. ASSUME \/ CancelLocally \/ ClearConnection \/ Revoke \/ Heartbeat
             \/ \E s \in {"renewed", "unauthorized", "error"} : HeartbeatAnswer(s)
             \/ ApplyHeartbeat \/ ApplyDeviceInfo
      PROVE  att' = att
  BY <1>6 DEF CancelLocally, ClearConnection, Revoke, Heartbeat, HeartbeatAnswer, ApplyHeartbeat,
              ApplyDeviceInfo, device
<1>7. CASE UNCHANGED core
  BY <1>7 DEF core
<1> QED BY <1>1, <1>2, <1>3, <1>4, <1>5, <1>6, <1>7, CoreSteps

(* So what a task was told stays true. *)
THEOREM AnswersStep ==
    ASSUME DeviceTypeOK, NumberedOnce, CallersName, AnswerIsTrue, DeviceNext
    PROVE  AnswerIsTrue'
<1>1. SUFFICES ASSUME NEW b \in Attempts, poll'[b].pc = "answer", poll'[b].kind = "allowed"
               PROVE  \/ att[b].s = "allowed"
                      \/ poll[b].pc = "answer" /\ poll[b].kind = "allowed"
  BY AllowedStays DEF AnswerIsTrue
<1>2. ASSUME NEW a \in Attempts, StatusAnswer(a)
      PROVE  att[b].s = "allowed" \/ poll[b] = poll'[b]
  BY <1>1, <1>2 DEF StatusAnswer, DeviceTypeOK, Records
<1>3. ASSUME NEW a \in Attempts, PollRound(a) \/ AskStatus(a) \/ ApplyStatus(a) \/ TaskGoesOn(a)
      PROVE  poll[b] = poll'[b]
  <2>1. poll \in [Attempts -> Records]
    BY DEF DeviceTypeOK
  <2>2. CASE PollRound(a) \/ TaskGoesOn(a)
    BY <1>1, <2>1, <2>2 DEF PollRound, TaskGoesOn, Idle
  <2>3. CASE AskStatus(a)
    BY <1>1, <2>1, <2>3 DEF AskStatus, Records
  <2>4. CASE ApplyStatus(a)
    <3>1. \E o \in {"stale", "pending", "connected", "error", "rejected"} :
             poll' = [poll EXCEPT ![a].pc = "answered", ![a].kind = o]
      BY <2>4 DEF ApplyStatus
    <3> QED BY <1>1, <2>1, <3>1 DEF Records
  <2> QED BY <1>3, <2>2, <2>3, <2>4
<1>4. ASSUME NEW a \in Attempts,
             \/ RecordTrust(a) \/ Deadline(a) \/ DropToken(a)
             \/ \E s \in {"allowed", "rejected", "expired"} : Decide(a, s)
      PROVE  poll' = poll
  BY <1>4 DEF RecordTrust, Deadline, DropToken, Decide, tasks
<1>5. ASSUME NEW c \in Callers,
             \/ CreateAttempt(c) \/ CheckTicket(c) \/ ApplyCreated(c) \/ Activate(c) \/ Register(c)
             \/ Connect(c) \/ CreateFails(c)
      PROVE  poll' = poll
  BY <1>5 DEF CreateAttempt, CheckTicket, ApplyCreated, Activate, Register, Connect, CreateFails,
              tasks
<1>6. ASSUME \/ CancelAtDevice \/ CancelLocally \/ ClearConnection \/ Revoke \/ Cancel
             \/ Disconnect \/ Heartbeat
             \/ \E s \in {"renewed", "unauthorized", "error"} : HeartbeatAnswer(s)
             \/ ApplyHeartbeat \/ TakeSession \/ DeviceInfo \/ ApplyDeviceInfo \/ SendRequest
             \/ ApplyBody \/ EndRequest \/ \E k \in Keys : ChangeKey(k)
             \/ \E kind \in {"refresh", "detail", "page", "delete"} : Request(kind)
      PROVE  poll' = poll
  BY <1>6 DEF CancelAtDevice, CancelLocally, ClearConnection, Revoke, Cancel, Disconnect,
     Heartbeat,
              HeartbeatAnswer, ApplyHeartbeat, TakeSession, DeviceInfo, ApplyDeviceInfo,
              SendRequest, ApplyBody, EndRequest, ChangeKey, Request, tasks
<1> QED BY <1>1, <1>2, <1>3, <1>4, <1>5, <1>6 DEF DeviceNext, Progress

(* The session and the connection change together. *)
THEOREM ConnectionStep ==
    ASSUME DeviceTypeOK, SessionIsConnection, DeviceNext
    PROVE  SessionIsConnection'
<1> USE DEF SessionIsConnection
<1>1. ASSUME NEW c \in Callers, ApplyCreated(c)
      PROVE  SessionIsConnection'
  BY <1>1 DEF ApplyCreated
<1>2. ASSUME NEW a \in Attempts, ApplyStatus(a)
      PROVE  SessionIsConnection'
  <2>1. poll[a].k \in Keys \cup {None} /\ epochs + 1 \in Nat
    BY DEF DeviceTypeOK, Records
  <2>2. [e |-> epochs + 1, a |-> a, k |-> poll[a].k] # None
    BY <2>1, NoSession DEF Session
  <2>3. CASE UNCHANGED <<conn, secret, session>>
    BY <2>3
  <2>4. CASE /\ conn' = [k |-> "connected", a |-> a, e |-> epochs + 1] /\ secret' = FALSE
             /\ session' = [e |-> epochs + 1, a |-> a, k |-> poll[a].k]
    BY <2>2, <2>4
  <2>5. CASE /\ SameAttempt(a) /\ conn' = [Disconnected EXCEPT !.k = "disconnected"]
             /\ secret' = FALSE /\ session' \in {session, None}
    BY <2>5 DEF SameAttempt, Disconnected
  <2> QED BY <1>2, <2>3, <2>4, <2>5 DEF ApplyStatus
<1>3. ASSUME NEW a \in Attempts, Deadline(a)
      PROVE  SessionIsConnection'
  BY <1>3 DEF Deadline, Disconnected
<1>4. CASE CancelLocally \/ ClearConnection
  BY <1>4 DEF CancelLocally, ClearConnection, clear_connection_state, Disconnected
<1>5. CASE ApplyHeartbeat
  BY <1>5 DEF ApplyHeartbeat, SameEpoch, DeviceTypeOK, Connection
<1>6. CASE ApplyDeviceInfo
  <2>1. CASE session' = session
    BY <1>6, <2>1 DEF ApplyDeviceInfo
  <2>2. CASE SameEpoch(req.e) /\ session' = [session EXCEPT !.k = req.k]
    <3>1. session \in Session /\ req.k \in Keys \cup {None}
      BY <2>2 DEF SameEpoch, DeviceTypeOK, Records
    <3>2. session' \in Session /\ session'.e = session.e /\ session'.a = session.a
      BY <2>2, <3>1 DEF Session
    <3> QED BY <1>6, <2>2, <3>1, <3>2, NoSession DEF ApplyDeviceInfo
  <2> QED BY <1>6, <2>1, <2>2 DEF ApplyDeviceInfo
<1>7. ASSUME NEW c \in Callers, CreateAttempt(c)
      PROVE  UNCHANGED <<conn, secret, session>>
  BY <1>7 DEF CreateAttempt, actor
<1>8. ASSUME NEW a \in Attempts,
             DropToken(a) \/ \E s \in {"allowed", "rejected", "expired"} : Decide(a, s)
      PROVE  UNCHANGED <<conn, secret, session>>
  BY <1>8 DEF DropToken, Decide, actor
<1>9. ASSUME \/ CancelAtDevice \/ Revoke \/ Heartbeat
             \/ \E s \in {"renewed", "unauthorized", "error"} : HeartbeatAnswer(s)
      PROVE  UNCHANGED <<conn, secret, session>>
  BY <1>9 DEF CancelAtDevice, Revoke, Heartbeat, HeartbeatAnswer, actor
<1>10. CASE UNCHANGED <<conn, secret, session>>
  BY <1>10
<1>11. CASE UNCHANGED core
  BY <1>11 DEF core
<1> QED BY <1>1, <1>2, <1>3, <1>4, <1>5, <1>6, <1>7, <1>8, <1>9, <1>10, <1>11, CoreSteps

(* A token that was issued and is not honoured is never honoured again. *)
LEMMA RefusedStays ==
    ASSUME DeviceTypeOK, DeviceNext, NEW b \in Attempts, att[b].s = "allowed", b \notin valid
    PROVE  b \notin valid'
<1>1. ASSUME NEW a \in Attempts, NEW s \in {"allowed", "rejected", "expired"}, Decide(a, s)
      PROVE  b \notin valid'
  BY <1>1 DEF Decide
<1>2. ASSUME NEW a \in Attempts, DropToken(a)
      PROVE  b \notin valid'
  BY <1>2 DEF DropToken
<1>3. CASE Revoke
  BY <1>3 DEF Revoke
<1>4. ASSUME NEW c \in Callers, CreateAttempt(c) \/ ApplyCreated(c)
      PROVE  valid' = valid
  BY <1>4 DEF CreateAttempt, ApplyCreated, device
<1>5. ASSUME NEW a \in Attempts, ApplyStatus(a) \/ Deadline(a)
      PROVE  valid' = valid
  BY <1>5 DEF ApplyStatus, Deadline, device
<1>6. ASSUME \/ CancelAtDevice \/ CancelLocally \/ ClearConnection \/ Heartbeat
             \/ \E s \in {"renewed", "unauthorized", "error"} : HeartbeatAnswer(s)
             \/ ApplyHeartbeat \/ ApplyDeviceInfo
      PROVE  valid' = valid
  BY <1>6 DEF CancelAtDevice, CancelLocally, ClearConnection, Heartbeat, HeartbeatAnswer,
              ApplyHeartbeat, ApplyDeviceInfo, device
<1>7. CASE UNCHANGED core
  BY <1>7 DEF core
<1> QED BY <1>1, <1>2, <1>3, <1>4, <1>5, <1>6, <1>7, CoreSteps

(* A heartbeat speaks of the token it was asked with, and only the connection
   that uses this token listens. *)
THEOREM HeartbeatStep ==
    ASSUME DeviceInv, DeviceNext, DeviceTypeOK', SessionIsConnection'
    PROVE  EpochIsSession' /\ TokenWasIssued' /\ RefusalIsTrue' /\ ExpiredIsTrue'
<1> DEFINE Goal == EpochIsSession' /\ TokenWasIssued' /\ RefusalIsTrue' /\ ExpiredIsTrue'
<1>1. /\ \A b \in Attempts : att[b].s = "allowed" => att'[b].s = "allowed"
      /\ \A b \in Attempts : att[b].s = "allowed" /\ b \notin valid => b \notin valid'
  BY AllowedStays, RefusedStays DEF DeviceInv
<1>2. /\ conn \in Connection /\ session \in Session \cup {None} /\ hb \in Records
      /\ epochs \in Nat
  BY DEF DeviceInv, DeviceTypeOK
<1>3. session # None => session.a \in Attempts /\ session.e \in Nat
  BY <1>2 DEF Session
<1>4. ASSUME UNCHANGED <<conn, session, hb, epochs>>
      PROVE  Goal
  BY <1>1, <1>2, <1>3, <1>4 DEF DeviceInv, EpochIsSession, TokenWasIssued, RefusalIsTrue,
     ExpiredIsTrue
<1>5. ASSUME UNCHANGED <<hb, epochs>>, session' = None, conn'.k # "expired" \/ conn'.e = 0
      PROVE  Goal
  BY <1>1, <1>2, <1>5 DEF DeviceInv, EpochIsSession, TokenWasIssued, RefusalIsTrue, ExpiredIsTrue
<1>6. ASSUME NEW c \in Callers, CreateAttempt(c)
      PROVE  Goal
  BY <1>4, <1>6 DEF CreateAttempt, actor
<1>7. ASSUME NEW c \in Callers, ApplyCreated(c)
      PROVE  Goal
  BY <1>5, <1>7 DEF ApplyCreated
<1>8. ASSUME NEW a \in Attempts, ApplyStatus(a)
      PROVE  Goal
  <2>1. UNCHANGED <<hb, att, valid>>
    BY <1>8 DEF ApplyStatus, device
  <2>2. CASE UNCHANGED <<conn, session, epochs>>
    BY <1>4, <2>1, <2>2
  <2>3. CASE /\ epochs' = epochs + 1 /\ att[a].s = "allowed"
             /\ conn' = [k |-> "connected", a |-> a, e |-> epochs + 1]
             /\ session' = [e |-> epochs + 1, a |-> a, k |-> poll[a].k]
    <3>1. hb.pc # "idle" => hb.e \in Nat /\ hb.e <= epochs
      BY <1>2 DEF Records, DeviceInv, EpochIsSession
    <3>2. EpochIsSession'
      BY <1>2, <2>1, <2>3, <3>1 DEF EpochIsSession
    <3>3. TokenWasIssued' /\ ExpiredIsTrue'
      BY <2>1, <2>3 DEF DeviceInv, TokenWasIssued, ExpiredIsTrue
    <3>4. RefusalIsTrue'
      BY <2>1 DEF DeviceInv, RefusalIsTrue
    <3> QED BY <3>2, <3>3, <3>4
  <2>4. CASE /\ SameAttempt(a) /\ conn' = [Disconnected EXCEPT !.k = "disconnected"]
             /\ session' \in {session, None} /\ epochs' = epochs
    <3>1. session = None
      BY <2>4 DEF SameAttempt, DeviceInv, SessionIsConnection
    <3> QED BY <1>5, <2>1, <2>4, <3>1 DEF Disconnected
  <2>5. poll[a].kind = "allowed" => att[a].s = "allowed"
    BY <1>8 DEF ApplyStatus, DeviceInv, AnswerIsTrue
  <2> QED BY <1>8, <2>2, <2>3, <2>4, <2>5 DEF ApplyStatus
<1>9. ASSUME NEW a \in Attempts, Deadline(a)
      PROVE  Goal
  BY <1>4, <1>5, <1>9 DEF Deadline, Disconnected
<1>10. CASE CancelLocally
  BY <1>4, <1>5, <1>10 DEF CancelLocally, Disconnected
<1>11. CASE ClearConnection
  BY <1>5, <1>11 DEF ClearConnection, clear_connection_state, Disconnected
<1>12. CASE Heartbeat
  <2>1. UNCHANGED <<conn, session, epochs, att, valid>> /\ session # None
    BY <1>12 DEF Heartbeat, actor, device
  <2>2. hb'.pc = "asked" /\ hb'.e = session.e /\ hb'.a = session.a
    BY <1>12 DEF Heartbeat, Idle
  <2> QED BY <1>3, <2>1, <2>2 DEF DeviceInv, EpochIsSession, TokenWasIssued, RefusalIsTrue,
                                    ExpiredIsTrue
<1>13. ASSUME NEW s \in {"renewed", "unauthorized", "error"}, HeartbeatAnswer(s)
       PROVE  Goal
  <2>1. UNCHANGED <<conn, session, epochs, att, valid>> /\ hb.pc # "idle"
    BY <1>13 DEF HeartbeatAnswer, actor, device
  <2>2. hb'.e = hb.e /\ hb'.a = hb.a /\ hb'.kind = s
    BY <1>2, <1>13 DEF HeartbeatAnswer, Records
  <2>3. RefusalIsTrue'
    BY <1>13, <2>1, <2>2 DEF HeartbeatAnswer, RefusalIsTrue
  <2> QED BY <2>1, <2>2, <2>3 DEF DeviceInv, EpochIsSession, TokenWasIssued, ExpiredIsTrue
<1>14. CASE ApplyHeartbeat
  <2>1. UNCHANGED <<epochs, att, valid>> /\ hb'.pc = "idle"
    BY <1>14 DEF ApplyHeartbeat, device, Idle
  <2>2. EpochIsSession' /\ RefusalIsTrue'
    BY <1>14, <2>1 DEF ApplyHeartbeat, DeviceInv, EpochIsSession, RefusalIsTrue
  <2>3. CASE UNCHANGED <<conn, session>>
    BY <2>1, <2>2, <2>3 DEF DeviceInv, TokenWasIssued, ExpiredIsTrue
  <2>4. CASE /\ SameEpoch(hb.e) /\ hb.kind = "unauthorized"
             /\ conn' = [conn EXCEPT !.k = "expired"] /\ session' = None
    <3>1. session # None /\ session.e = conn.e /\ session.a = conn.a
      BY <2>4 DEF SameEpoch, DeviceInv, SessionIsConnection
    <3>2. hb.pc = "answer" /\ hb.a = session.a
      BY <1>14, <2>4, <3>1 DEF ApplyHeartbeat, SameEpoch, DeviceInv, EpochIsSession
    <3>3. conn'.a = conn.a /\ conn.a \in Attempts /\ conn.a \notin valid /\ att[conn.a].s = "allowed"
      BY <1>2, <1>3, <2>4, <3>1, <3>2 DEF Connection, DeviceInv, RefusalIsTrue, TokenWasIssued
    <3> QED BY <2>1, <2>2, <2>4, <3>3 DEF TokenWasIssued, ExpiredIsTrue
  <2> QED BY <1>14, <2>3, <2>4 DEF ApplyHeartbeat
<1>15. CASE ApplyDeviceInfo
  <2>1. UNCHANGED <<conn, hb, epochs, att, valid>>
    BY <1>15 DEF ApplyDeviceInfo, device
  <2>2. CASE session' = session
    BY <1>4, <2>1, <2>2
  <2>3. CASE SameEpoch(req.e) /\ session' = [session EXCEPT !.k = req.k]
    <3>1. session # None /\ session \in Session
      BY <1>2, <2>3 DEF SameEpoch, DeviceInv, SessionIsConnection
    <3>2. session'.e = session.e /\ session'.a = session.a
      BY <2>3, <3>1 DEF Session
    <3> QED BY <2>1, <3>1, <3>2 DEF DeviceInv, EpochIsSession, TokenWasIssued, RefusalIsTrue,
                                     ExpiredIsTrue
  <2> QED BY <1>15, <2>2, <2>3 DEF ApplyDeviceInfo
<1>16. ASSUME NEW a \in Attempts,
              DropToken(a) \/ \E s \in {"allowed", "rejected", "expired"} : Decide(a, s)
       PROVE  Goal
  BY <1>4, <1>16 DEF DropToken, Decide, actor
<1>17. CASE CancelAtDevice \/ Revoke
  BY <1>4, <1>17 DEF CancelAtDevice, Revoke, actor
<1>18. CASE UNCHANGED core
  BY <1>4, <1>18 DEF core
<1> QED BY <1>6, <1>7, <1>8, <1>9, <1>10, <1>11, <1>12, <1>13, <1>14, <1>15, <1>16, <1>17, <1>18,
           CoreSteps

(* The first state: no attempt, no session, every thread idle. *)
THEOREM DeviceInitInv == DeviceInit => DeviceInv
<1> SUFFICES ASSUME DeviceInit PROVE DeviceInv
  OBVIOUS
<1>1. DeviceTypeOK
  <2>1. Disconnected \in Connection /\ [s |-> "none", k |-> None] \in Decision
    BY DeviceAssumption DEF Disconnected, Connection, Decision, AttemptStates
  <2>2. /\ conn \in Connection /\ secret \in BOOLEAN /\ session \in Session \cup {None}
        /\ pendKey \in Keys \cup {None} /\ sasKey \in Keys \cup {None} /\ devKey \in Keys
        /\ gen \in Nat /\ events \in Nat /\ epochs \in Nat
    BY <2>1 DEF DeviceInit
  <2>3. active \in 0..MaxAttempts /\ task \in 0..MaxAttempts
    BY DeviceAssumption DEF DeviceInit
  <2>4. /\ run \in [Attempts -> {"none", "loop", "wait", "trust", "ended"}]
        /\ poll \in [Attempts -> Records] /\ conns \in [Callers -> Records]
        /\ att \in [Attempts -> Decision]
    BY <2>1, IdleRecord DEF DeviceInit
  <2>5. /\ hb \in Records /\ req \in Records /\ cancel \in Records /\ disc \in Records
        /\ valid \subseteq Attempts /\ trusted \subseteq Trust
    BY IdleRecord DEF DeviceInit
  <2> QED BY <2>2, <2>3, <2>4, <2>5 DEF DeviceTypeOK
<1>2. Started = {} /\ Creating = {}
  BY DEF DeviceInit, Started, Creating, Idle
<1>3. NumberedOnce
  BY <1>2, FS_EmptySet, DeviceAssumption DEF NumberedOnce
<1>4. CallersName /\ EpochIsSession /\ AnswerIsTrue /\ TokenWasIssued /\ RefusalIsTrue
  BY DEF DeviceInit, CallersName, EpochIsSession, AnswerIsTrue, TokenWasIssued, RefusalIsTrue,
     Idle,
         Disconnected
<1>5. SessionIsConnection /\ ExpiredIsTrue
  BY DEF DeviceInit, SessionIsConnection, ExpiredIsTrue, Disconnected
<1> QED BY <1>1, <1>3, <1>4, <1>5 DEF DeviceInv

(* The invariant is inductive. *)
THEOREM DeviceStepInv == DeviceInv /\ [DeviceNext]_vars => DeviceInv'
<1>1. ASSUME DeviceInv, DeviceNext
      PROVE  DeviceInv'
  <2>1. DeviceTypeOK' /\ NumberedOnce' /\ CallersName' /\ AnswerIsTrue' /\ SessionIsConnection'
    BY <1>1, DeviceStepType, NumberingStep, CallersStep, AnswersStep, ConnectionStep DEF DeviceInv
  <2>2. EpochIsSession' /\ TokenWasIssued' /\ RefusalIsTrue' /\ ExpiredIsTrue'
    BY <1>1, <2>1, HeartbeatStep
  <2> QED BY <2>1, <2>2 DEF DeviceInv
<1>2. ASSUME DeviceInv, UNCHANGED vars
      PROVE  DeviceInv'
  BY <1>2 DEF vars, DeviceInv, DeviceTypeOK, NumberedOnce, Started, Creating, CallersName,
              SessionIsConnection, EpochIsSession, AnswerIsTrue, TokenWasIssued, RefusalIsTrue,
              ExpiredIsTrue
<1> QED BY <1>1, <1>2

THEOREM DeviceInvariant == DeviceSpec => []DeviceInv
  BY DeviceInitInv, DeviceStepInv, PTL DEF DeviceSpec

(* Whatever order the answers come in, the actor is connected exactly when it
   holds the session of this connection (device/actor.rs). *)
THEOREM SessionMatchesConnection == DeviceSpec => []SessionIsConnection
<1>1. DeviceInv => SessionIsConnection
  BY DEF DeviceInv
<1> QED BY <1>1, DeviceInvariant, PTL

(* The refusal of an earlier epoch's token never ends a later connection
   (apply_heartbeat_result). *)
THEOREM ExpiryIsTrue == DeviceSpec => []ExpiredIsTrue
<1>1. DeviceInv => ExpiredIsTrue
  BY DEF DeviceInv
<1> QED BY <1>1, DeviceInvariant, PTL
=============================================================================
