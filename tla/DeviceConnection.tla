--------------------------- MODULE DeviceConnection ---------------------------
(***************************************************************************)
(* One paired device: its actor (device/actor.rs) behind a handle whose    *)
(* lock is never held across a request (device/fleet.rs), and those who    *)
(* use it: connect_device and the pairing task it starts, cancel_pairing,  *)
(* disconnect_device, the heartbeat sweep and the catalog requests of the  *)
(* desktop application (composition.rs).  Every answer of the device       *)
(* arrives later than the state it was asked from.                         *)
(*                                                                         *)
(*   conn                 Device.connection: kind, pairing attempt, epoch  *)
(*   secret               the actor holds the poll secret of its attempt   *)
(*   session              AuthenticatedPiSession: epoch, the attempt its   *)
(*                        token comes from, the publication key bound      *)
(*   pendKey, sasKey      the key named at creation, the key confirmed     *)
(*   epochs, gen          next_epoch, pairing_attempts                     *)
(*   active, task         active_pairings and pairing_tasks                *)
(*   run, poll            the pairing task of an attempt and its request   *)
(*   conns, hb, req       callers: connect_device, heartbeat, catalog      *)
(*   cancel, disc         callers: cancel_pairing, disconnect_device       *)
(*   att, valid, devKey   the device: attempts, tokens it honours, its key *)
(*   trusted              confirm_trusted_producer_key: attempt and key    *)
(***************************************************************************)
EXTENDS Naturals, FiniteSets

CONSTANTS
    Callers,      \* threads that may be in connect_device
    Keys,         \* publication keys the device may present
    None,
    MaxAttempts,  \* bound of pairing attempts
    MaxEvents     \* bound of requests, cancellations, disconnections and failures

VARIABLES conn, secret, session, pendKey, sasKey, epochs, gen, active, task,
          run, poll, conns, hb, req, cancel, disc, att, valid, devKey, trusted, events

actor == <<conn, secret, session, pendKey, sasKey, epochs>>
tasks == <<active, task, run, poll>>
device == <<att, valid, devKey>>
vars == <<conn, secret, session, pendKey, sasKey, epochs, gen, active, task,
          run, poll, conns, hb, req, cancel, disc, att, valid, devKey, trusted, events>>

ASSUME DeviceAssumption ==
    /\ MaxAttempts \in Nat \ {0} /\ MaxEvents \in Nat
    /\ None \notin Keys /\ Keys # {} /\ IsFiniteSet(Callers)

Attempts == 1..MaxAttempts

\* AuthenticatedPiSession.
Session == [e : Nat, a : Attempts, k : Keys \cup {None}]

ASSUME NoSession == None \notin Session

Idle == [pc |-> "idle", e |-> 0, a |-> 0, k |-> None, kind |-> "none"]
Disconnected == [k |-> "disconnected", a |-> 0, e |-> 0]
CurrentEpoch == IF conn.k = "connected" THEN conn.e ELSE 0
Started == {a \in Attempts : att[a].s # "none"}
Spend == events < MaxEvents /\ events' = events + 1

DeviceInit ==
    /\ conn = Disconnected /\ secret = FALSE /\ session = None
    /\ pendKey = None /\ sasKey = None
    /\ epochs = 0 /\ gen = 0
    /\ active = 0 /\ task = 0
    /\ run = [a \in Attempts |-> "none"]
    /\ poll = [a \in Attempts |-> Idle]
    /\ conns = [c \in Callers |-> Idle]
    /\ hb = Idle /\ req = Idle /\ cancel = Idle /\ disc = Idle
    /\ att = [a \in Attempts |-> [s |-> "none", k |-> None]]
    /\ valid = {} /\ devKey \in Keys /\ trusted = {} /\ events = 0

-----------------------------------------------------------------------------
(* The device.                                                             *)

\* It decides on a pending attempt, on its own or through its user.
Decide(a, s) ==
    /\ att[a].s = "pending"
    /\ att' = [att EXCEPT ![a].s = s]
    /\ valid' = IF s = "allowed" THEN valid \cup {a} ELSE valid
    /\ UNCHANGED <<actor, gen, tasks, conns, hb, req, cancel, disc, devKey, trusted, events>>

\* A connection token runs out or is withdrawn.
DropToken(a) ==
    /\ a \in valid /\ Spend
    /\ valid' = valid \ {a}
    /\ UNCHANGED <<actor, gen, tasks, conns, hb, req, cancel, disc, att, devKey, trusted>>

\* The device is given another publication key.
ChangeKey(k) ==
    /\ k # devKey /\ Spend
    /\ devKey' = k
    /\ UNCHANGED <<actor, gen, tasks, conns, hb, req, cancel, disc, att, valid, trusted>>

-----------------------------------------------------------------------------
(* connect_device.                                                         *)

\* A device that is connected is left alone; the task of an earlier attempt is
\* stopped and the ticket of the new one is drawn.
Connect(c) ==
    /\ conns[c] = Idle /\ conn.k # "connected"
    /\ Cardinality(Started) + Cardinality({d \in Callers : conns[d] # Idle}) < MaxAttempts
    /\ run' = IF task = 0 \/ run[task] \notin {"loop", "wait"} THEN run
              ELSE [run EXCEPT ![task] = "ended"]
    /\ task' = 0
    /\ gen' = gen + 1
    /\ conns' = [conns EXCEPT ![c] = [Idle EXCEPT !.pc = "create", !.e = gen + 1]]
    /\ UNCHANGED <<actor, active, poll, hb, req, cancel, disc, device, trusted, events>>

\* create_pairing_request: the device opens an attempt and names its key.
CreateAttempt(c) ==
    /\ conns[c].pc = "create"
    /\ LET a == Cardinality(Started) + 1 IN
       /\ att' = [att EXCEPT ![a] = [s |-> "pending", k |-> devKey]]
       /\ conns' = [conns EXCEPT ![c].pc = "created", ![c].a = a]
    /\ UNCHANGED <<actor, gen, tasks, hb, req, cancel, disc, valid, devKey, trusted, events>>

\* Or the request fails: the error is returned, there is no attempt.
CreateFails(c) ==
    /\ conns[c].pc = "create" /\ Spend
    /\ conns' = [conns EXCEPT ![c] = Idle]
    /\ UNCHANGED <<actor, gen, tasks, hb, req, cancel, disc, device, trusted>>

\* pairing_ticket_is_current
CheckTicket(c) ==
    /\ conns[c].pc = "created"
    /\ conns' = [conns EXCEPT ![c] = IF conns[c].e = gen THEN [@ EXCEPT !.pc = "apply"] ELSE Idle]
    /\ UNCHANGED <<actor, gen, tasks, hb, req, cancel, disc, device, trusted, events>>

\* apply_pairing_created: what an earlier connection left is dropped.
ApplyCreated(c) ==
    /\ conns[c].pc = "apply"
    /\ LET a == conns[c].a IN
       /\ conn' = [k |-> "pairing", a |-> a, e |-> 0]
       /\ secret' = TRUE /\ session' = None
       /\ pendKey' = att[a].k /\ sasKey' = None
    /\ conns' = [conns EXCEPT ![c].pc = "activate"]
    /\ UNCHANGED <<epochs, gen, tasks, hb, req, cancel, disc, device, trusted, events>>

\* The attempt is the active one, its task is spawned and registered.
Activate(c) ==
    /\ conns[c].pc = "activate"
    /\ active' = conns[c].a
    /\ run' = [run EXCEPT ![conns[c].a] = "loop"]
    /\ conns' = [conns EXCEPT ![c].pc = "register"]
    /\ UNCHANGED <<actor, gen, task, poll, hb, req, cancel, disc, device, trusted, events>>

Register(c) ==
    /\ conns[c].pc = "register"
    /\ task' = conns[c].a
    /\ conns' = [conns EXCEPT ![c] = Idle]
    /\ UNCHANGED <<actor, gen, active, run, poll, hb, req, cancel, disc, device, trusted,
                   events>>

-----------------------------------------------------------------------------
(* The pairing task.                                                       *)

Ended(a) == run' = [run EXCEPT ![a] = "ended"]
clear_active_pairing(a) == active' = IF active = a THEN 0 ELSE active

\* The head of the loop of run_pairing: the attempt is still the active one and
\* the device still pairs; then the status is asked for on another thread.
PollRound(a) ==
    /\ run[a] = "loop"
    /\ CASE active # a -> Ended(a) /\ UNCHANGED <<active, poll>>
         [] active = a /\ conn.k # "pairing" ->
              Ended(a) /\ clear_active_pairing(a) /\ UNCHANGED poll
         [] OTHER -> /\ run' = [run EXCEPT ![a] = "wait"]
                     /\ poll' = [poll EXCEPT ![a] = [Idle EXCEPT !.pc = "check"]]
                     /\ UNCHANGED active
    /\ UNCHANGED <<actor, gen, task, conns, hb, req, cancel, disc, device, trusted, events>>

\* The deadline of the attempt passes: it is expired locally.
Deadline(a) ==
    /\ run[a] = "loop" /\ active = a /\ conn.k = "pairing"
    /\ Ended(a) /\ clear_active_pairing(a)
    /\ IF conn.a = a
       THEN /\ conn' = [Disconnected EXCEPT !.k = "expired"]
            /\ secret' = FALSE /\ session' = None /\ pendKey' = None /\ sasKey' = None
       ELSE UNCHANGED <<conn, secret, session, pendKey, sasKey>>
    /\ UNCHANGED <<epochs, gen, task, poll, conns, hb, req, cancel, disc, device, trusted,
                   events>>

\* checkout_pairing_poll, and the request.
AskStatus(a) ==
    /\ poll[a].pc = "check"
    /\ poll' = [poll EXCEPT ![a] =
                  IF conn.k = "pairing" /\ conn.a = a /\ secret
                  THEN [@ EXCEPT !.pc = "asked", !.a = a]
                  ELSE [@ EXCEPT !.pc = "answered", !.kind = "stale"]]
    /\ UNCHANGED <<actor, gen, active, task, run, conns, hb, req, cancel, disc, device,
                   trusted, events>>

\* The device answers with the state of the attempt, the token and its key.
StatusAnswer(a) ==
    /\ poll[a].pc = "asked"
    /\ poll' = [poll EXCEPT ![a].pc = "answer", ![a].kind = att[a].s, ![a].k = devKey]
    /\ UNCHANGED <<actor, gen, active, task, run, conns, hb, req, cancel, disc, device,
                   trusted, events>>

\* The fence of apply_pairing_status.
SameAttempt(a) == conn.k = "pairing" /\ conn.a = a

\* apply_pairing_status: the answer to an attempt that is not the actor's any
\* more is stale.  A token whose key is not the one named at creation is
\* refused; a token that is accepted opens the next epoch.
ApplyStatus(a) ==
    /\ poll[a].pc = "answer"
    /\ LET s == poll[a].kind
           matches == pendKey \in {None, poll[a].k}
           Becomes(k) == /\ conn' = [Disconnected EXCEPT !.k = k]
                         /\ secret' = FALSE /\ pendKey' = None
                         /\ UNCHANGED epochs
           Outcome(o) == poll' = [poll EXCEPT ![a].pc = "answered", ![a].kind = o]
       IN CASE ~SameAttempt(a) ->
                 Outcome("stale") /\ UNCHANGED <<conn, secret, session, pendKey, sasKey, epochs>>
            [] SameAttempt(a) /\ s = "pending" ->
                 Outcome("pending") /\ UNCHANGED <<conn, secret, session, pendKey, sasKey, epochs>>
            [] SameAttempt(a) /\ s = "allowed" /\ matches ->
                 /\ epochs' = epochs + 1
                 /\ session' = [e |-> epochs + 1, a |-> a, k |-> poll[a].k]
                 /\ sasKey' = poll[a].k /\ pendKey' = None /\ secret' = FALSE
                 /\ conn' = [k |-> "connected", a |-> a, e |-> epochs + 1]
                 /\ Outcome("connected")
            [] SameAttempt(a) /\ s = "allowed" /\ ~matches ->
                 Becomes("disconnected") /\ Outcome("error") /\ UNCHANGED <<session, sasKey>>
            [] OTHER -> Becomes("disconnected") /\ session' = None /\ sasKey' = None
                        /\ Outcome("rejected")
    /\ UNCHANGED <<gen, active, task, run, conns, hb, req, cancel, disc, device, trusted,
                   events>>

\* The task goes on with the outcome, unless the attempt was superseded.
TaskGoesOn(a) ==
    /\ run[a] = "wait" /\ poll[a].pc = "answered"
    /\ poll' = [poll EXCEPT ![a] = Idle]
    /\ CASE active # a -> Ended(a) /\ UNCHANGED active
         [] active = a /\ poll[a].kind \in {"pending", "error"} ->
              run' = [run EXCEPT ![a] = "loop"] /\ UNCHANGED active
         [] active = a /\ poll[a].kind = "connected" ->
              run' = [run EXCEPT ![a] = "trust"] /\ UNCHANGED active
         [] OTHER -> Ended(a) /\ clear_active_pairing(a)
    /\ UNCHANGED <<actor, gen, task, conns, hb, req, cancel, disc, device, trusted, events>>

\* sas_publication_key
Confirmed == sasKey # None

\* record_trusted_producer_key: the key of the actor, for the active attempt.
RecordTrust(a) ==
    /\ run[a] = "trust"
    /\ trusted' = IF active = a /\ Confirmed THEN trusted \cup {[a |-> a, k |-> sasKey]}
                  ELSE trusted
    /\ Ended(a) /\ clear_active_pairing(a)
    /\ UNCHANGED <<actor, gen, task, poll, conns, hb, req, cancel, disc, device, events>>

-----------------------------------------------------------------------------
(* cancel_pairing and disconnect_device.                                   *)

\* cancel_pairing of the active attempt: first at the device, which refuses
\* once it has decided.
Cancel ==
    /\ cancel = Idle /\ active # 0 /\ Spend
    /\ cancel' = [Idle EXCEPT !.pc = "device", !.a = active]
    /\ UNCHANGED <<actor, gen, tasks, conns, hb, req, disc, device, trusted>>

CancelAtDevice ==
    /\ cancel.pc = "device"
    /\ IF att[cancel.a].s = "pending"
       THEN /\ att' = [att EXCEPT ![cancel.a].s = "cancelled"]
            /\ cancel' = [cancel EXCEPT !.pc = "local"]
       ELSE cancel' = Idle /\ UNCHANGED att
    /\ UNCHANGED <<actor, gen, tasks, conns, hb, req, disc, valid, devKey, trusted, events>>

\* Then locally: the attempt is not active, the registered task is stopped, and
\* the actor is told that the attempt was cancelled.
CancelLocally ==
    /\ cancel.pc = "local"
    /\ clear_active_pairing(cancel.a)
    /\ task' = 0
    /\ run' = IF task = 0 \/ run[task] \notin {"loop", "wait"} THEN run
              ELSE [run EXCEPT ![task] = "ended"]
    /\ IF SameAttempt(cancel.a)
       THEN conn' = Disconnected /\ secret' = FALSE /\ session' = None /\ pendKey' = None
            /\ sasKey' = None
       ELSE UNCHANGED <<conn, secret, session, pendKey, sasKey>>
    /\ cancel' = Idle
    /\ UNCHANGED <<epochs, gen, poll, conns, hb, req, disc, device, trusted, events>>

\* disconnect_device: the task is stopped, a new generation makes every pairing
\* request in flight old, and the session to revoke is taken.
Disconnect ==
    /\ disc = Idle /\ Spend
    /\ task' = 0
    /\ run' = IF task = 0 \/ run[task] \notin {"loop", "wait"} THEN run
              ELSE [run EXCEPT ![task] = "ended"]
    /\ gen' = gen + 1
    /\ disc' = [Idle EXCEPT !.pc = "clear", !.a = IF session = None THEN 0 ELSE session.a]
    /\ UNCHANGED <<actor, active, poll, conns, hb, req, cancel, device, trusted>>

\* Mutant: the token is forgotten and the state is not.
cleared_but_state ==
    /\ session' = None /\ secret' = FALSE /\ pendKey' = None /\ sasKey' = None
    /\ UNCHANGED conn

clear_connection_state ==
    /\ session' = None /\ secret' = FALSE /\ pendKey' = None /\ sasKey' = None
    /\ conn' = Disconnected

ClearConnection ==
    /\ disc.pc = "clear"
    /\ clear_connection_state
    /\ disc' = [disc EXCEPT !.pc = "revoke"]
    /\ UNCHANGED <<epochs, gen, tasks, conns, hb, req, cancel, device, trusted, events>>

\* The device withdraws the token.
Revoke ==
    /\ disc.pc = "revoke"
    /\ valid' = valid \ {disc.a}
    /\ disc' = Idle
    /\ UNCHANGED <<actor, gen, tasks, conns, hb, req, cancel, att, devKey, trusted, events>>

-----------------------------------------------------------------------------
(* The heartbeat sweep and the catalog requests.                           *)

\* heartbeat_with: the session is copied out.  One sweep runs at a time, so the
\* number of the attempt never discards an answer.
Heartbeat ==
    /\ hb = Idle /\ session # None /\ Spend
    /\ hb' = [Idle EXCEPT !.pc = "asked", !.e = session.e, !.a = session.a]
    /\ UNCHANGED <<actor, gen, tasks, conns, req, cancel, disc, device, trusted>>

\* The answer: the token is renewed or it is not known; or no answer comes.
HeartbeatAnswer(s) ==
    /\ hb.pc = "asked"
    /\ s = "unauthorized" => hb.a \notin valid
    /\ s = "renewed" => hb.a \in valid
    /\ hb' = [hb EXCEPT !.pc = "answer", !.kind = s]
    /\ UNCHANGED <<actor, gen, tasks, conns, req, cancel, disc, device, trusted, events>>

\* Mutant: the answer is not compared with the epoch.
AnyEpoch(e) == conn.k = "connected"

\* The fence of apply_heartbeat_result and of every other answer.
SameEpoch(e) == conn.k = "connected" /\ conn.e = e

\* apply_heartbeat: an unknown token ends the connection it belongs to.
ApplyHeartbeat ==
    /\ hb.pc = "answer"
    /\ IF SameEpoch(hb.e) /\ hb.kind = "unauthorized"
       THEN conn' = [conn EXCEPT !.k = "expired"] /\ session' = None /\ sasKey' = None
       ELSE UNCHANGED <<conn, session, sasKey>>
    /\ hb' = Idle
    /\ UNCHANGED <<secret, pendKey, epochs, gen, tasks, conns, req, cancel, disc, device,
                   trusted, events>>

\* A request takes its ticket and the session in one; only get_session_with
\* takes the ticket first and the session apart.
Request(kind) ==
    /\ req = Idle /\ session # None /\ Spend
    /\ req' = [pc |-> CASE kind = "refresh" -> "asked" [] kind = "detail" -> "ticket"
                       [] OTHER -> "fetch",
               e |-> session.e, a |-> session.a, k |-> session.k, kind |-> kind]
    /\ UNCHANGED <<actor, gen, tasks, conns, hb, cancel, disc, device, trusted>>

TakeSession ==
    /\ req.pc = "ticket"
    /\ req' = IF session = None THEN Idle
              ELSE [req EXCEPT !.pc = "fetch", !.a = session.a, !.k = session.k]
    /\ UNCHANGED <<actor, gen, tasks, conns, hb, cancel, disc, device, trusted, events>>

\* get_device answers with the key the device presents now.
DeviceInfo ==
    /\ req.pc = "asked"
    /\ req' = IF req.a \in valid THEN [req EXCEPT !.pc = "info", !.k = devKey] ELSE Idle
    /\ UNCHANGED <<actor, gen, tasks, conns, hb, cancel, disc, device, trusted, events>>

\* ensure_publication_key
SameKey(k) == session.k \in {None, k}

\* apply_device_info: the key is bound to the session, or it is not the one
\* that was confirmed and the answer is refused.
ApplyDeviceInfo ==
    /\ req.pc = "info"
    /\ session' = IF SameEpoch(req.e) /\ SameKey(req.k) THEN [session EXCEPT !.k = req.k]
                  ELSE session
    /\ req' = Idle
    /\ UNCHANGED <<conn, secret, pendKey, sasKey, epochs, gen, tasks, conns, hb, cancel,
                   disc, device, trusted, events>>

\* The fence of a catalog request: current_epoch is the ticket's.
TicketIsCurrent(e) == CurrentEpoch = e

\* get_session_with compares the epoch before the request is sent and every
\* request compares it when it is answered.
SendRequest ==
    /\ req.pc = "fetch"
    /\ req' = IF /\ req.kind = "detail" => TicketIsCurrent(req.e)
                 /\ req.a \in valid
              THEN [req EXCEPT !.pc = "body"] ELSE Idle
    /\ UNCHANGED <<actor, gen, tasks, conns, hb, cancel, disc, device, trusted, events>>

ApplyBody ==
    /\ req.pc = "body"
    /\ req' = IF TicketIsCurrent(req.e) THEN [req EXCEPT !.pc = "fetched"] ELSE Idle
    /\ UNCHANGED <<actor, gen, tasks, conns, hb, cancel, disc, device, trusted, events>>

EndRequest ==
    /\ req.pc = "fetched"
    /\ req' = Idle
    /\ UNCHANGED <<actor, gen, tasks, conns, hb, cancel, disc, device, trusted, events>>

-----------------------------------------------------------------------------
Progress ==
    \/ \E c \in Callers : \/ CreateAttempt(c) \/ CheckTicket(c) \/ ApplyCreated(c)
                          \/ Activate(c) \/ Register(c)
    \/ \E a \in Attempts : \/ PollRound(a) \/ AskStatus(a) \/ StatusAnswer(a) \/ ApplyStatus(a)
                           \/ TaskGoesOn(a) \/ RecordTrust(a)
    \/ CancelAtDevice \/ CancelLocally \/ ClearConnection \/ Revoke
    \/ \E s \in {"renewed", "unauthorized", "error"} : HeartbeatAnswer(s)
    \/ ApplyHeartbeat
    \/ TakeSession \/ DeviceInfo \/ ApplyDeviceInfo \/ SendRequest \/ ApplyBody \/ EndRequest

DeviceNext ==
    \/ Progress
    \/ \E c \in Callers : Connect(c) \/ CreateFails(c)
    \/ \E a \in Attempts : \/ Deadline(a) \/ DropToken(a)
                           \/ \E s \in {"allowed", "rejected", "expired"} : Decide(a, s)
    \/ \E k \in Keys : ChangeKey(k)
    \/ Cancel \/ Disconnect \/ Heartbeat
    \/ \E kind \in {"refresh", "detail", "page", "delete"} : Request(kind)

DeviceSpec == DeviceInit /\ [][DeviceNext]_vars

\* Every request is answered or times out, the runtime schedules each task and
\* the deadline of an attempt comes.
DeviceFairSpec ==
    /\ DeviceSpec
    /\ WF_vars(Progress)
    /\ \A a \in Attempts : SF_vars(Deadline(a))

-----------------------------------------------------------------------------
(* Properties.                                                             *)

Places == {"idle", "create", "created", "apply", "activate", "register", "check", "asked",
           "answer", "answered", "device", "local", "clear", "revoke", "ticket", "info",
           "fetch", "body", "fetched"}
AttemptStates == {"none", "pending", "allowed", "rejected", "expired", "cancelled"}
Kinds == AttemptStates \cup {"stale", "connected", "error", "renewed", "unauthorized",
                            "refresh", "detail", "page", "delete"}
Connection == [k : {"disconnected", "pairing", "connected", "expired"}, a : 0..MaxAttempts,
               e : Nat]
Decision == [s : AttemptStates, k : Keys \cup {None}]
Trust == [a : Attempts, k : Keys]
Records == [pc : Places, e : Nat, a : 0..MaxAttempts, k : Keys \cup {None}, kind : Kinds]

DeviceTypeOK ==
    /\ conn \in Connection /\ secret \in BOOLEAN /\ session \in Session \cup {None}
    /\ pendKey \in Keys \cup {None} /\ sasKey \in Keys \cup {None} /\ devKey \in Keys
    /\ gen \in Nat /\ events \in Nat /\ epochs \in Nat
    /\ active \in 0..MaxAttempts /\ task \in 0..MaxAttempts
    /\ run \in [Attempts -> {"none", "loop", "wait", "trust", "ended"}]
    /\ poll \in [Attempts -> Records] /\ conns \in [Callers -> Records]
    /\ hb \in Records /\ req \in Records /\ cancel \in Records /\ disc \in Records
    /\ att \in [Attempts -> Decision] /\ valid \subseteq Attempts
    /\ trusted \subseteq Trust

\* The actor is connected exactly when it holds a session, of the same epoch,
\* and its poll secret exactly when it pairs: no order of answers leaves a
\* token without its connection or a connection without its token.
SessionIsConnection ==
    /\ (conn.k = "connected") <=> (session # None)
    /\ session # None => session.e = conn.e /\ session.a = conn.a
    /\ secret <=> conn.k = "pairing"

\* A device is shown as expired by a heartbeat only when it does not honour
\* the token of the connection that was shown: the refusal of an earlier
\* epoch's token never ends a newer connection (apply_heartbeat_result).
ExpiredIsTrue == conn.k = "expired" /\ conn.e > 0 => conn.a \notin valid

\* Every attempt comes to an end: the device is not left looking pending.
PairingResolves == conn.k = "pairing" ~> conn.k # "pairing"

=============================================================================
