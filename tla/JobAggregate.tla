---------------------------- MODULE JobAggregate ----------------------------
(***************************************************************************)
(* The pure reducer of a download job (transfer/aggregate.rs): the legal   *)
(* transition graph and, for every command, the decision it takes from the *)
(* job's current state: an outcome and the list of effects the coordinator *)
(* then performs one by one.                                               *)
(*                                                                         *)
(* A state is its snake_case name.  `Failed { code, retryable }` is split  *)
(* by the one part of its payload the code branches on.                    *)
(***************************************************************************)
EXTENDS Naturals, Sequences

Parked == {"queued", "waiting_for_device", "waiting_for_pairing",
           "paused_capture_active", "retry_wait"}

Working == {"preparing", "transferring", "verifying", "committing"}

Failures == {"failed_retryable", "failed_final"}

Terminal == {"succeeded", "cancelled"} \cup Failures

States == Parked \cup Working \cup {"cancelling"} \cup Terminal

NonTerminal == States \ Terminal

RunIntents == {"run", "paused"}

Reasons == {"capture_pause", "user_pause", "cancel", "device_lost", "shutdown"}

Readiness == {"ready", "wait_device", "wait_pairing", "capture_paused"}

LegalEdges ==
    LET From(s, targets) == {<<s, t>> : t \in targets}
    IN  UNION { From("queued", {"waiting_for_device", "waiting_for_pairing",
                                "preparing", "cancelling"}),
                From("waiting_for_device", {"queued", "preparing",
                                "paused_capture_active", "cancelling"}),
                From("waiting_for_pairing", {"queued", "preparing", "cancelling"}),
                From("paused_capture_active", {"queued", "preparing", "cancelling"}),
                From("preparing", {"transferring", "waiting_for_device",
                                   "cancelling"} \cup Failures),
                From("transferring", {"verifying", "retry_wait",
                                "paused_capture_active", "cancelling"} \cup Failures),
                From("verifying", {"committing", "retry_wait",
                                   "cancelling"} \cup Failures),
                From("committing", {"succeeded", "retry_wait"} \cup Failures),
                From("retry_wait", {"queued", "preparing",
                                    "cancelling"} \cup Failures),
                From("cancelling", {"cancelled"} \cup Failures) }

is_legal_transition(from, to) == <<from, to>> \in LegalEdges

(* The commits that take a job from one state to another: none, one, or two
   through `queued`; the graph has no route when Routable is false. *)
Routable(from, to) ==
    \/ from = to
    \/ is_legal_transition(from, to)
    \/ is_legal_transition(from, "queued") /\ is_legal_transition("queued", to)

route(from, to) ==
    IF from = to                          THEN << >>
    ELSE IF is_legal_transition(from, to) THEN <<to>>
    ELSE <<"queued", to>>

-----------------------------------------------------------------------------
(* Effects.  Every effect is a record of the same shape, so that two effects
   can be compared; `arg` is the state, intent or reason it carries. *)
Effect(op, arg, version) == [op |-> op, arg |-> arg, version |-> version]

Commit(version, to)     == Effect("commit", to, version)
SetDesiredRunState(d)   == Effect("set_desired", d, 0)
RequestInterrupt(r)     == Effect("request_interrupt", r, 0)
ClearInterrupt          == Effect("clear_interrupt", "none", 0)
AwaitWorkerRelease      == Effect("await_worker_release", "none", 0)
Dispatch                == Effect("dispatch", "none", 0)
RecordDeviceVersion(v)  == Effect("record_device_version", "none", v)
SpawnRetryJob           == Effect("spawn_retry_job", "none", 0)
RemoveJob               == Effect("remove_job", "none", 0)

Accepted(effects) == [outcome |-> "accepted", effects |-> effects]
NoOp              == [outcome |-> "no_op", effects |-> << >>]
Rejected(reason)  == [outcome |-> reason, effects |-> << >>]

IsRejected(decision) == decision.outcome \notin {"accepted", "no_op"}

-----------------------------------------------------------------------------
(* Decisions.  `a` is the aggregate [state, version, desired, observed] the
   coordinator loads inside the job's critical section. *)

commits_towards(a, to) ==
    LET hops == route(a.state, to)
    IN  [i \in 1..Len(hops) |-> Commit(a.version + i - 1, hops[i])]

decide_pause(a) ==
    IF a.state \in Terminal
    THEN Rejected("already_terminal")
    ELSE Accepted(<< SetDesiredRunState("paused"), RequestInterrupt("user_pause"),
                     AwaitWorkerRelease, ClearInterrupt >>)

decide_resume(a) ==
    IF a.state \in Terminal        THEN Rejected("already_terminal")
    ELSE IF a.state = "cancelling" THEN Rejected("illegal_transition")
    ELSE IF a.state = "retry_wait"
         THEN Accepted(<< SetDesiredRunState("run"), Commit(a.version, "queued"), Dispatch >>)
    ELSE Accepted(<< SetDesiredRunState("run"), Dispatch >>)

decide_cancel(a) ==
    IF a.state \in Terminal THEN Rejected("already_terminal")
    ELSE IF a.state = "cancelling"
         THEN Accepted(<< RequestInterrupt("cancel"), Dispatch, AwaitWorkerRelease >>)
    ELSE IF ~is_legal_transition(a.state, "cancelling") THEN Rejected("illegal_transition")
    ELSE Accepted(<< RequestInterrupt("cancel"), Commit(a.version, "cancelling"),
                     Dispatch, AwaitWorkerRelease >>)

decide_finalize_cancel(a) ==
    IF a.state = "cancelled"      THEN NoOp
    ELSE IF a.state \in Terminal  THEN Rejected("already_terminal")
    ELSE IF a.state = "cancelling"
         THEN Accepted(<< Commit(a.version, "cancelled"), ClearInterrupt >>)
    ELSE IF ~is_legal_transition(a.state, "cancelling") THEN Rejected("illegal_transition")
    ELSE Accepted(<< Commit(a.version, "cancelling"), Commit(a.version + 1, "cancelled"),
                     ClearInterrupt >>)

decide_retry(a) ==
    IF a.state \in Failures THEN Accepted(<< SpawnRetryJob >>)
                            ELSE Rejected("not_failed")

decide_dismiss(a) ==
    IF a.state \in Terminal THEN Accepted(<< AwaitWorkerRelease, RemoveJob >>)
                            ELSE Rejected("not_terminal")

(* The state a device reading asks for; the job's own state when the reading
   asks for nothing. *)
ParkingTarget(readiness) ==
    CASE readiness = "ready"          -> "preparing"
      [] readiness = "wait_device"    -> "waiting_for_device"
      [] readiness = "wait_pairing"   -> "waiting_for_pairing"
      [] readiness = "capture_paused" -> "paused_capture_active"

ObservedTarget(state, readiness) ==
    IF state \in Parked THEN ParkingTarget(readiness)
    ELSE IF state = "preparing" /\ readiness # "ready" THEN "waiting_for_device"
    ELSE state

decide_device_observed(a, snapshot) ==
    LET record == RecordDeviceVersion(snapshot.version)
        target == ObservedTarget(a.state, snapshot.readiness)
        commits == IF Routable(a.state, target) THEN commits_towards(a, target) ELSE << >>
    IN  IF \/ snapshot.version < a.observed
           \/ a.state \in Terminal \cup {"cancelling"}
           \/ a.desired = "paused"
        THEN NoOp
        ELSE IF a.state = "transferring" /\ snapshot.readiness = "capture_paused"
             THEN Accepted(<< record, RequestInterrupt("capture_pause") >>)
        ELSE IF a.state = "transferring" /\ snapshot.readiness # "ready"
             THEN Accepted(<< record, RequestInterrupt("device_lost") >>)
        ELSE IF commits = << >> /\ snapshot.version <= a.observed
             THEN NoOp
        ELSE Accepted(<< record >> \o commits)

(* bug: the worker's own clear, outside the lock, is thought to be enough *)
decide_interrupted_uncleared(a, reason) ==
    IF a.state = "cancelling" /\ reason # "cancel" THEN NoOp
    ELSE IF a.state # "transferring" /\ ~(reason = "cancel" /\ a.state = "cancelling")
         THEN Rejected("illegal_transition")
    ELSE IF reason = "cancel"   THEN decide_finalize_cancel(a)
    ELSE IF reason = "shutdown" THEN NoOp
    ELSE IF reason = "capture_pause"
         THEN Accepted(<< Commit(a.version, "paused_capture_active") >>)
    ELSE Accepted(<< Commit(a.version, "retry_wait") >>)

decide_interrupted(a, reason) ==
    IF a.state = "cancelling" /\ reason # "cancel" THEN NoOp
    ELSE IF a.state # "transferring" /\ ~(reason = "cancel" /\ a.state = "cancelling")
         THEN Rejected("illegal_transition")
    ELSE IF reason = "cancel"   THEN decide_finalize_cancel(a)
    ELSE IF reason = "shutdown" THEN NoOp
    ELSE IF reason = "capture_pause"
         THEN Accepted(<< ClearInterrupt, Commit(a.version, "paused_capture_active") >>)
    ELSE Accepted(<< ClearInterrupt, Commit(a.version, "retry_wait") >>)

(* A panic converges on `failed`, through `cancelling` where the graph has
   no direct edge. *)
decide_worker_panic(a) ==
    IF Routable(a.state, "failed_final")
    THEN Accepted(commits_towards(a, "failed_final"))
    ELSE IF is_legal_transition(a.state, "cancelling")
         THEN Accepted(<< Commit(a.version, "cancelling"),
                          Commit(a.version + 1, "failed_final") >>)
    ELSE Rejected("illegal_transition")

(* What a worker reports: the stage it expects the job in, and the state the
   reducer picks.  A failure report carries the failed state it ends in. *)
StageReports ==
    { [name |-> "prepared",          expects |-> "preparing",    to |-> "transferring"],
      [name |-> "transfer_complete", expects |-> "transferring", to |-> "verifying"],
      [name |-> "verified",          expects |-> "verifying",    to |-> "committing"],
      [name |-> "commit_complete",   expects |-> "committing",   to |-> "succeeded"] }
    \cup { [name |-> "failed", expects |-> s, to |-> f] :
             s \in {"preparing", "transferring", "committing"}, f \in Failures }

Report(name, expects) ==
    CHOOSE r \in StageReports : r.name = name /\ r.expects = expects

FailureReport(expects, failure) ==
    [name |-> "failed", expects |-> expects, to |-> failure]

decide_stage(a, report) ==
    IF a.state \in Terminal            THEN Rejected("already_terminal")
    ELSE IF a.state = "cancelling"     THEN NoOp
    ELSE IF a.state # report.expects   THEN Rejected("illegal_transition")
    ELSE Accepted(<< Commit(a.version, report.to) >>)

(* A command is a record [kind, report, reason, snapshot]; the fields a kind
   does not use hold a default. *)
NoSnapshot == [version |-> 0, readiness |-> "ready"]
NoReport   == [name |-> "none", expects |-> "none", to |-> "none"]

Command(kind) == [kind |-> kind, report |-> NoReport, reason |-> "none",
                  snapshot |-> NoSnapshot]
DeviceObserved(snapshot) == [Command("device_observed") EXCEPT !.snapshot = snapshot]
StageReport(report)      == [Command("stage") EXCEPT !.report = report]
Interrupted(reason)      == [Command("interrupted") EXCEPT !.reason = reason]

decide(a, c) ==
    CASE c.kind = "pause"           -> decide_pause(a)
      [] c.kind = "resume"          -> decide_resume(a)
      [] c.kind = "cancel"          -> decide_cancel(a)
      [] c.kind = "finalize_cancel" -> decide_finalize_cancel(a)
      [] c.kind = "retry"           -> decide_retry(a)
      [] c.kind = "dismiss"         -> decide_dismiss(a)
      [] c.kind = "device_observed" -> decide_device_observed(a, c.snapshot)
      [] c.kind = "stage"           -> decide_stage(a, c.report)
      [] c.kind = "interrupted"     -> IF a.state \in Terminal
                                       THEN Rejected("already_terminal")
                                       ELSE decide_interrupted(a, c.reason)
      [] c.kind = "panicked"        -> IF a.state \in Terminal
                                       THEN Rejected("already_terminal")
                                       ELSE decide_worker_panic(a)

=============================================================================
