----------------------------- MODULE Derivation -----------------------------
(***************************************************************************)
(* The normalization of one imported source: the durable derivation job,   *)
(* the single derive lane that drives it pair by pair, the encoder         *)
(* processes it supervises, the user's commands, and the files it stages   *)
(* and publishes.  The application may die, or be closed, between any two  *)
(* steps.                                                                  *)
(*                                                                         *)
(*   row       the stored snapshot: state, desired state, the number of    *)
(*             checkpointed segment pairs (they are contiguous from zero), *)
(*             and the current pair                                        *)
(*   work      .<pair>.work of the next pair: its files, if it is there    *)
(*   final     the pairs under their final name in the staging directory   *)
(*   derived   the pairs of the published derivative                       *)
(*   stop, active   JobProcessControl: the requested stop, and whether an  *)
(*             operation is between begin and finish                       *)
(*   child     the process of that operation, as its supervisor sees it    *)
(*   orphan    a child given up as stuck, or left behind by a crash        *)
(*   queue     the job is in the MediaWakeQueue                            *)
(*   up, closing   the application runs; shutting_down                     *)
(*   busy      the source is held by an exclusive library operation        *)
(*   lane, user     the threads                                            *)
(*   quiet     an accepted pause or cancel was acknowledged and nothing    *)
(*             was resumed since (observation)                             *)
(*   crossed   the operation under way lost its row to a stop that had     *)
(*             been taken back by a resume (observation)                   *)
(*   failed    an operation or a step of the lane failed (observation)     *)
(*                                                                         *)
(* A reduction reads the row, decides and stores the result under the      *)
(* job's command mutex, which every writer of the row takes: one step, and *)
(* its version check never fails.  The probe report and the plan are       *)
(* deterministic and never leave the row once stored; the plan has NPairs. *)
(***************************************************************************)
EXTENDS Naturals

CONSTANTS
    NPairs,        \* segment pairs of the plan
    Users,         \* threads that issue commands
    None,
    MaxCommands,   \* bound of the user's commands
    MaxTrouble,    \* bound of crashes, failures and busy sources
    Troubles       \* which of them may happen

VARIABLES row, work, final, derived, stop, active, child, orphan, queue, up, closing, busy,
          lane, user, quiet, crossed, failed, asked, trouble

files == <<work, final, derived>>
process == <<stop, active, child, orphan>>
app == <<queue, up, closing, busy>>
seen == <<quiet, crossed, failed>>
spent == <<asked, trouble>>
vars == <<row, files, process, app, lane, user, seen, spent>>

Pairs == 0..(NPairs - 1)
Active == {"probing", "planning", "encoding", "validating", "committing"}
Terminal == {"derived_verified", "failed", "cancelled"}
Inactive == {"queued", "waiting_for_source", "retry_wait"}
States == Active \cup Terminal \cup Inactive \cup {"cancelling"}
Reasons == {"pause", "cancel", "shutdown", "source"}

\* The stored snapshot.
Row == [state : States, desired : {"run", "paused"}, cp : 0..NPairs, cur : Pairs \cup {None}]

ASSUME DerivationAssumption ==
    /\ NPairs \in Nat \ {0} /\ MaxCommands \in Nat /\ MaxTrouble \in Nat
    /\ None \notin Nat /\ None \notin Row /\ None \notin Reasons \cup {"deadline"}

\* The stages that run a process, and what follows when it completes.
Stages == {"probing", "encoding", "quality", "validation"}
Completed == [s \in Stages |->
    CASE s = "probing" -> "probed"
      [] s = "encoding" -> "encoded"
      [] s = "quality" -> "measured"
      [] OTHER -> "validated"]

NoCommand == [pc |-> "idle", why |-> None, overtaken |-> FALSE]

DerivationInit ==
    /\ row = None
    /\ work = "none" /\ final = {} /\ derived = {}
    /\ stop = None /\ active = FALSE /\ child = "none" /\ orphan = FALSE
    /\ queue = FALSE /\ up = TRUE /\ closing = FALSE /\ busy = FALSE
    /\ lane = [pc |-> "idle", why |-> None, then |-> "idle"]
    /\ user = [u \in Users |-> NoCommand]
    /\ quiet = FALSE /\ crossed = FALSE /\ failed = FALSE
    /\ asked = 0 /\ trouble = 0

-----------------------------------------------------------------------------
(* The reducer.  A decision is what the row becomes, whether the caller is *)
(* answered Ok, and which effects follow.                                  *)

Decision(ok, r) ==
    [ok |-> ok, row |-> r, stop |-> None, discard |-> FALSE, dispatch |-> FALSE, noop |-> FALSE]
Rejected(r) == Decision(FALSE, r)
NoOp(r) == [Decision(TRUE, r) EXCEPT !.noop = TRUE]

\* compare_and_swap refuses a terminal snapshot; only commit_derived_verified
\* offers one to complete_derivation_job.
Storable(state) == state \notin Terminal

Commit(r, state) ==
    IF Storable(state) THEN Decision(TRUE, [r EXCEPT !.state = state]) ELSE Rejected(r)

\* The partial pair goes before the state is stored; current_pair stays.
DiscardAndCommit(r, state) ==
    [Commit(r, state) EXCEPT !.discard = r.cur # None]

\* Mutant: the resumed job is not enqueued.
ResumeUndispatched(r) ==
    IF r.state \in Terminal THEN Rejected(r)
    ELSE IF r.desired = "run" THEN NoOp(r)
    ELSE Decision(TRUE, [r EXCEPT !.desired = "run"])

resume(r) ==
    IF r.state \in Terminal THEN Rejected(r)
    ELSE IF r.desired = "run" THEN NoOp(r)
    ELSE [Decision(TRUE, [r EXCEPT !.desired = "run"]) EXCEPT !.dispatch = TRUE]

pause(r) ==
    IF r.state \in Terminal THEN Rejected(r)
    ELSE IF r.desired = "paused" THEN NoOp(r)
    ELSE [Decision(TRUE, [r EXCEPT !.desired = "paused"]) EXCEPT
             !.stop = IF r.state \in Active THEN "pause" ELSE None]

\* Nothing active: the cancellation is finished in the same reduction, whose
\* second commit the store refuses.
cancel(r) ==
    IF r.state \in Terminal THEN Rejected(r)
    ELSE IF r.state = "cancelling" THEN NoOp(r)
    ELSE LET c == [r EXCEPT !.state = "cancelling"]
         IN  IF r.state \in Active
             THEN [Decision(TRUE, c) EXCEPT !.stop = "cancel"]
             ELSE DiscardAndCommit(c, "cancelled")

retry(r) ==
    IF r.state = "failed" THEN [Commit(r, "queued") EXCEPT !.dispatch = TRUE] ELSE Rejected(r)

source_available(r) ==
    IF r.state \in Inactive /\ r.desired = "run" THEN Commit(r, "probing") ELSE NoOp(r)

source_unavailable(r) ==
    IF r.state \in Terminal \cup {"cancelling", "waiting_for_source"} THEN NoOp(r)
    ELSE IF r.state \in Active THEN [Decision(TRUE, r) EXCEPT !.stop = "source"]
    ELSE Commit(r, "waiting_for_source")

process_stopped(r, why) ==
    IF r.state = "cancelling" /\ why = "cancel" THEN DiscardAndCommit(r, "cancelled")
    ELSE IF why = "pause" /\ r.desired = "paused" THEN DiscardAndCommit(r, "retry_wait")
    ELSE IF why = "source" THEN DiscardAndCommit(r, "waiting_for_source")
    ELSE IF why = "shutdown" THEN DiscardAndCommit(r, "retry_wait")
    ELSE Rejected(r)

stage_failed(r) ==
    IF r.state \in Terminal THEN Rejected(r) ELSE DiscardAndCommit(r, "failed")

\* Mutant: the directory of all pairs is removed.
DiscardAll(d) ==
    /\ work' = IF d.discard THEN "none" ELSE work
    /\ final' = IF d.discard THEN {} ELSE final
    /\ UNCHANGED derived

\* discard_pair removes the work directory and an uncheckpointed final one.
Discard(d) ==
    /\ work' = IF d.discard THEN "none" ELSE work
    /\ final' = IF d.discard THEN final \ {d.row.cur} ELSE final
    /\ UNCHANGED derived

-----------------------------------------------------------------------------
(* Commands of the user.  A reduction that requests a stop is followed by  *)
(* a second one if no operation is active, else by a bounded wait.         *)

Commands == {"start", "pause", "resume", "cancel", "retry"}

\* start: the row of the natural key, created if it is not there; an existing
\* one that should run is enqueued again.
start(r) ==
    IF r = None
    THEN [Decision(TRUE, [state |-> "queued", desired |-> "run", cp |-> 0, cur |-> None])
            EXCEPT !.dispatch = TRUE]
    ELSE [NoOp(r) EXCEPT !.dispatch = r.state \notin Terminal /\ r.desired = "run"]

Decide(c, r) ==
    CASE c = "start" -> start(r)
      [] c = "pause" -> pause(r)
      [] c = "resume" -> resume(r)
      [] c = "cancel" -> cancel(r)
      [] c = "retry" -> retry(r)

\* Mutant: the acknowledgement does not wait for an active operation.
AwaitNothing(d) == IF d.stop = None THEN "idle" ELSE "settle"

AwaitReap(d) == IF d.stop = None THEN "idle" ELSE IF active THEN "await" ELSE "settle"

\* Observation: the last pause or cancel that changed the row was answered Ok,
\* and no resume came since, also while the answer was awaited.  A pause of a
\* job that is being cancelled only changes its desired state.
Answered(ok) == quiet' = (quiet \/ ok)

Ask(u, c) ==
    LET d == Decide(c, row)
    IN  /\ up /\ user[u].pc = "idle" /\ asked < MaxCommands
        /\ row = None => c = "start"
        /\ closing => c = "cancel"
        /\ row' = d.row
        /\ Discard(d)
        /\ stop' = IF c = "resume" THEN None ELSE IF d.stop # None THEN d.stop ELSE stop
        /\ user' = [v \in Users |->
              IF v = u
              THEN [pc |-> IF d.dispatch THEN "dispatch" ELSE AwaitReap(d), why |-> d.stop,
                    overtaken |-> FALSE]
              ELSE [user[v] EXCEPT !.overtaken =
                      @ \/ (user[v].pc # "idle" /\ c = "resume" /\ d.ok /\ ~d.noop)]]
        /\ quiet' = IF d.row = row THEN quiet
                    ELSE c = "pause" /\ d.stop = None /\ row.state # "cancelling"
        /\ asked' = asked + 1
        /\ UNCHANGED <<active, child, orphan, app, lane, crossed, failed, trouble>>

\* scheduler.enqueue; a stopped queue takes nothing.
Enqueue(u) ==
    /\ up /\ user[u].pc = "dispatch"
    /\ queue' = (queue \/ ~closing)
    /\ user' = [user EXCEPT ![u] = NoCommand]
    /\ UNCHANGED <<row, files, process, up, closing, busy, lane, seen, spent>>

\* No child had started: the stop is settled by a reduction of its own, after the
\* command mutex was given up in between.
Settle(u) ==
    LET d == process_stopped(row, user[u].why)
    IN  /\ up /\ user[u].pc = "settle"
        /\ row' = d.row
        /\ Discard(d)
        /\ user' = [user EXCEPT ![u] = NoCommand]
        /\ Answered(d.ok /\ ~user[u].overtaken)
        /\ crossed' = (crossed \/ (active /\ user[u].overtaken /\ d.ok))
        /\ UNCHANGED <<process, app, lane, failed, spent>>

\* wait_until_idle_until.
Idle(u) ==
    /\ up /\ user[u].pc = "await" /\ ~active
    /\ user' = [user EXCEPT ![u] = NoCommand]
    /\ Answered(~user[u].overtaken)
    /\ UNCHANGED <<row, files, process, app, lane, crossed, failed, spent>>

\* ResourceStuck is answered.
IdleTimeout(u) ==
    /\ up /\ user[u].pc = "await" /\ active
    /\ user' = [user EXCEPT ![u] = NoCommand]
    /\ UNCHANGED <<row, files, process, app, lane, seen, spent>>

-----------------------------------------------------------------------------
(* The derive lane: run_one up to the choice of the next stage.            *)

At(pc) == up /\ lane.pc = pc
Goto(pc) == lane' = [lane EXCEPT !.pc = pc]
Spend(what) == what \in Troubles /\ trouble < MaxTrouble /\ trouble' = trouble + 1

Take ==
    /\ At("idle") /\ queue /\ ~closing
    /\ queue' = FALSE
    /\ Goto("run")
    /\ UNCHANGED <<row, files, process, up, closing, busy, user, seen, spent>>

\* verify_checkpoint of every pair: its files lie in the staging directory.
CheckpointFiles == 0..(row.cp - 1) \subseteq final

\* The checks of run_one before its loop; the lease on the source is shared.
\* fail_from_run ignores that its failure is not stored.
RunOne ==
    /\ At("run")
    /\ queue' = FALSE
    /\ IF closing \/ row.state \in Terminal \/ row.desired = "paused"
       THEN Goto("idle") /\ UNCHANGED <<row, files, failed>>
       ELSE IF busy THEN Goto("no_source") /\ UNCHANGED <<row, files, failed>>
       ELSE IF CheckpointFiles THEN Goto("loop") /\ UNCHANGED <<row, files, failed>>
       ELSE LET d == stage_failed(row)
            IN  Goto("idle") /\ row' = d.row /\ Discard(d) /\ failed' = TRUE
    /\ UNCHANGED <<process, up, closing, busy, user, quiet, crossed, spent>>

\* The lease is refused: SourceUnavailable, and its own settling.
NoSource ==
    LET d == source_unavailable(row)
    IN  /\ At("no_source")
        /\ row' = d.row
        /\ Discard(d)
        /\ stop' = IF d.stop = None THEN stop ELSE d.stop
        /\ lane' = [lane EXCEPT !.pc = IF d.stop = None THEN "idle" ELSE "stopped",
                                !.why = "source", !.then = "idle"]
        /\ UNCHANGED <<active, child, orphan, app, user, seen, spent>>

NextStage ==
    IF row.state \in Inactive THEN "source"
    ELSE CASE row.state = "probing" -> "probe"
           [] row.state = "planning" -> "plan"
           [] row.state = "encoding" -> "pair"
           [] row.state = "validating" -> "gate"
           [] row.state = "committing" -> "commit"
           [] row.state = "cancelling" -> "cancel"
           [] OTHER -> "idle"

Loop ==
    /\ At("loop")
    /\ lane' = IF closing
               THEN [lane EXCEPT !.pc = "stopped", !.why = "shutdown", !.then = "idle"]
               ELSE [lane EXCEPT !.pc = IF row.desired = "paused" THEN "idle" ELSE NextStage]
    /\ UNCHANGED <<row, files, process, app, user, seen, spent>>

\* SourceAvailable clears the stop request whatever it decides.
SourceAvailable ==
    LET d == source_available(row)
    IN  /\ At("source")
        /\ row' = d.row
        /\ stop' = None
        /\ Goto("loop")
        /\ UNCHANGED <<files, active, child, orphan, app, user, seen, spent>>

\* The reduction of a stop seen outside an operation.
ReportStopped ==
    LET d == process_stopped(row, lane.why)
    IN  /\ At("stopped")
        /\ row' = d.row
        /\ Discard(d)
        /\ Goto(IF d.ok THEN lane.then ELSE "idle")
        /\ UNCHANGED <<process, app, user, seen, spent>>

\* Under the command mutex: the operation begins only if nothing stopped it.
Begin(state, stage) ==
    IF row.state # state THEN Goto("loop") /\ UNCHANGED active
    ELSE IF stop # None
    THEN /\ lane' = [lane EXCEPT !.pc = "stopped", !.why = stop, !.then = "loop"]
         /\ UNCHANGED active
    ELSE IF row.desired = "paused" THEN Goto("loop") /\ UNCHANGED active
    ELSE lane' = [lane EXCEPT !.pc = stage] /\ active' = TRUE

BeginProbe ==
    /\ At("probe")
    /\ Begin("probing", "probing")
    /\ UNCHANGED <<row, files, stop, child, orphan, app, user, seen, spent>>

-----------------------------------------------------------------------------
(* The supervision of a process (run_core_process): the first process of   *)
(* an operation is not spawned once a stop is requested, and that is a     *)
(* failure, not a stop.  A stage stands for all its processes: a stop seen *)
(* between two of them ends it like one seen while one runs.               *)

InStage == up /\ lane.pc \in Stages

Spawn ==
    /\ InStage /\ child = "none"
    /\ IF stop = None THEN child' = "running" /\ UNCHANGED lane
       ELSE lane' = [lane EXCEPT !.pc = "failed"] /\ UNCHANGED child
    /\ UNCHANGED <<row, files, stop, active, orphan, app, user, seen, spent>>

\* Exit with success; the output is accepted if its directory is still there.
ChildCompletes ==
    /\ InStage /\ child = "running"
    /\ child' = "none"
    /\ Goto(IF lane.pc = "probing" \/ work # "none" THEN Completed[lane.pc] ELSE "failed")
    /\ work' = IF lane.pc = "encoding" /\ work # "none" THEN "whole" ELSE work
    /\ UNCHANGED <<row, final, derived, stop, active, orphan, app, user, seen, spent>>

\* The process fails, or cannot be spawned, or its output is rejected.
ChildFails ==
    /\ InStage /\ child \in {"none", "running"}
    /\ Spend("process")
    /\ child' = "none"
    /\ Goto("failed")
    /\ UNCHANGED <<row, files, stop, active, orphan, app, user, seen, asked>>

\* The poll finds a stop request, or else the deadline passed: SIGTERM.
StopSeen ==
    /\ InStage /\ child = "running" /\ stop # None
    /\ child' = "terminating"
    /\ lane' = [lane EXCEPT !.why = stop]
    /\ UNCHANGED <<row, files, stop, active, orphan, app, user, seen, spent>>

DeadlinePasses ==
    /\ InStage /\ child = "running"
    /\ Spend("deadline")
    /\ child' = "terminating"
    /\ lane' = [lane EXCEPT !.why = "deadline"]
    /\ UNCHANGED <<row, files, stop, active, orphan, app, user, seen, asked>>

\* The terminate grace passed: SIGKILL.
GraceExpires ==
    /\ InStage /\ child = "terminating"
    /\ child' = "killing"
    /\ UNCHANGED <<row, files, stop, active, orphan, app, lane, user, seen, spent>>

\* Reaped after the signal.
ChildReaped ==
    /\ InStage /\ child \in {"terminating", "killing"}
    /\ child' = "none"
    /\ Goto(IF lane.why = "deadline" THEN "failed" ELSE "stopped_in_stage")
    /\ UNCHANGED <<row, files, stop, active, orphan, app, user, seen, spent>>

\* hand_off_stuck_reaper: the kill grace passed as well.
ChildStuck ==
    /\ InStage /\ child = "killing"
    /\ Spend("stuck")
    /\ child' = "none"
    /\ orphan' = TRUE
    /\ Goto("failed")
    /\ UNCHANGED <<row, files, stop, active, app, user, seen, asked>>

OrphanExits ==
    /\ orphan /\ orphan' = FALSE
    /\ UNCHANGED <<row, files, stop, active, child, app, lane, user, seen, spent>>

\* reduce_worker_stopped and reduce_worker_failed: the reduction, then finish.
WorkerStopped ==
    LET d == process_stopped(row, lane.why)
    IN  /\ At("stopped_in_stage")
        /\ row' = d.row
        /\ Discard(d)
        /\ lane' = [lane EXCEPT !.pc = "finish", !.then = IF d.ok THEN "loop" ELSE "idle"]
        /\ UNCHANGED <<process, app, user, seen, spent>>

WorkerFailed ==
    LET d == stage_failed(row)
    IN  /\ At("failed")
        /\ row' = d.row
        /\ Discard(d)
        /\ lane' = [lane EXCEPT !.pc = "finish", !.then = IF d.ok THEN "loop" ELSE "idle"]
        /\ failed' = TRUE
        /\ UNCHANGED <<process, app, user, quiet, crossed, spent>>

Finish ==
    /\ At("finish")
    /\ active' = FALSE
    /\ crossed' = FALSE
    /\ lane' = [lane EXCEPT !.pc = lane.then, !.why = None]
    /\ UNCHANGED <<row, files, stop, child, orphan, app, user, quiet, failed, spent>>

-----------------------------------------------------------------------------
(* The stages.  A report that does not fit the row is rejected, and ends   *)
(* the run.                                                                *)

Report(pc, state, next, then) ==
    /\ At(pc)
    /\ row' = IF row.state = state THEN next ELSE row
    /\ lane' = [lane EXCEPT !.pc = IF then = "finish" THEN "finish"
                                   ELSE IF row.state = state THEN then ELSE "idle",
                            !.then = IF row.state = state THEN "loop" ELSE "idle"]

ProbeCompleted ==
    /\ Report("probed", "probing", [row EXCEPT !.state = "planning"], "finish")
    /\ UNCHANGED <<files, process, app, user, seen, spent>>

PlanCompleted ==
    /\ Report("plan", "planning", [row EXCEPT !.state = "encoding"], "loop")
    /\ UNCHANGED <<files, process, app, user, seen, spent>>

\* run_next_pair: a pair that was renamed and not checkpointed is taken back
\* behind the partial boundary; otherwise the work directory starts empty.  A
\* plan without a next pair is a failure.
PreparePair ==
    /\ At("pair")
    /\ IF row.cp = NPairs
       THEN LET d == stage_failed(row)
            IN  Goto("idle") /\ row' = d.row /\ Discard(d) /\ failed' = TRUE
       ELSE /\ work' = IF row.cp \in final THEN "whole" ELSE "partial"
            /\ final' = final \ {row.cp}
            /\ Goto("start_pair")
            /\ UNCHANGED <<row, derived, failed>>
    /\ UNCHANGED <<process, app, user, quiet, crossed, spent>>

\* SetCurrentPair is refused while a current pair is set.
PairStarted ==
    /\ At("start_pair")
    /\ IF row.state = "encoding" /\ row.cur = None
       THEN row' = [row EXCEPT !.cur = row.cp] /\ Goto("begin_pair")
       ELSE Goto("idle") /\ UNCHANGED row
    /\ UNCHANGED <<files, process, app, user, seen, spent>>

\* A recovered pair is not encoded again.
BeginPair ==
    /\ At("begin_pair")
    /\ Begin("encoding", IF work = "whole" THEN "encoded" ELSE "encoding")
    /\ UNCHANGED <<row, files, stop, child, orphan, app, user, seen, spent>>

\* The stop request is read between the stages too; after the validation the
\* pair is discarded with it.
AfterEncoding ==
    /\ At("encoded")
    /\ lane' = IF stop = None THEN [lane EXCEPT !.pc = "quality"]
               ELSE [lane EXCEPT !.pc = "stopped_in_stage", !.why = stop]
    /\ UNCHANGED <<row, files, process, app, user, seen, spent>>

AfterQuality ==
    /\ At("measured")
    /\ Goto("validation")
    /\ UNCHANGED <<row, files, process, app, user, seen, spent>>

AfterValidation ==
    /\ At("validated")
    /\ IF stop = None THEN Goto("publish_pair") /\ UNCHANGED files
       ELSE /\ lane' = [lane EXCEPT !.pc = "stopped_in_stage", !.why = stop]
            /\ work' = "none" /\ final' = final \ {row.cp}
            /\ UNCHANGED derived
    /\ UNCHANGED <<row, process, app, user, seen, spent>>

\* publish_validated_pair: both files under their final names, then the
\* directory.
PublishPair ==
    /\ At("publish_pair")
    /\ IF work = "whole" /\ row.cp \notin final
       THEN /\ work' = "none" /\ final' = final \cup {row.cp}
            /\ Goto("checkpoint")
            /\ UNCHANGED derived
       ELSE /\ lane' = [lane EXCEPT !.pc = "finish", !.then = "idle"]
            /\ UNCHANGED files
    /\ UNCHANGED <<row, process, app, user, seen, spent>>

PairCheckpointed ==
    /\ Report("checkpoint", "encoding",
              [row EXCEPT !.cp = @ + 1, !.cur = None,
                          !.state = IF row.cp + 1 = NPairs THEN "validating" ELSE @],
              "finish")
    /\ UNCHANGED <<files, process, app, user, seen, spent>>

\* run_validation_gate.
ValidationCompleted ==
    /\ At("gate")
    /\ IF CheckpointFiles
       THEN Report("gate", "validating", [row EXCEPT !.state = "committing"], "loop")
       ELSE Goto("idle") /\ UNCHANGED row
    /\ UNCHANGED <<files, process, app, user, seen, spent>>

\* commit_derivative: the outputs and the manifest are verified in the staging
\* directory, which is then renamed into the library; a derivative that is
\* already there is verified, and the staging directory removed.
CommitFiles ==
    /\ At("commit")
    /\ IF Pairs \subseteq final
       THEN derived' = Pairs /\ final' = {} /\ work' = "none" /\ Goto("commit_row")
       ELSE Goto("idle") /\ UNCHANGED files
    /\ UNCHANGED <<row, process, app, user, seen, spent>>

\* commit_derived_verified: the row, the receipt and the outbox entry.
CommitCompleted ==
    /\ Report("commit_row", "committing", [row EXCEPT !.state = "derived_verified"], "loop")
    /\ UNCHANGED <<files, process, app, user, seen, spent>>

FinalizeCancel ==
    LET d == process_stopped(row, "cancel")
    IN  /\ At("cancel")
        /\ row' = d.row
        /\ Discard(d)
        /\ Goto(IF d.ok THEN "loop" ELSE "idle")
        /\ UNCHANGED <<process, app, user, seen, spent>>

-----------------------------------------------------------------------------
(* The application and its surroundings.                                   *)

\* A library operation takes the source exclusively; not while the lane holds
\* its shared lease.
SourceTaken ==
    /\ up /\ ~busy /\ lane.pc \in {"idle", "run"} /\ row # None
    /\ Spend("source")
    /\ busy' = TRUE
    /\ UNCHANGED <<row, files, process, queue, up, closing, lane, user, seen, asked>>

SourceReleased ==
    /\ busy /\ busy' = FALSE
    /\ UNCHANGED <<row, files, process, queue, up, closing, lane, user, seen, spent>>

\* shutdown asks the operation to stop; then the lane's queue is stopped.
Shutdown ==
    /\ up /\ ~closing
    /\ Spend("shutdown")
    /\ closing' = TRUE /\ queue' = FALSE
    /\ stop' = "shutdown"
    /\ UNCHANGED <<row, files, active, child, orphan, up, busy, lane, user, seen, asked>>

\* The process ends, closed or killed.  Its child is in a process group of its
\* own, and lives on.
Exit ==
    /\ up /\ row # None
    /\ IF closing THEN UNCHANGED trouble ELSE Spend("crash")
    /\ up' = FALSE
    /\ stop' = None /\ active' = FALSE /\ child' = "none"
    /\ orphan' = (orphan \/ child # "none")
    /\ queue' = FALSE /\ closing' = FALSE /\ busy' = FALSE
    /\ lane' = [pc |-> "idle", why |-> None, then |-> "idle"]
    /\ user' = [u \in Users |-> NoCommand]
    /\ crossed' = FALSE
    /\ UNCHANGED <<row, files, quiet, failed, asked>>

\* recover_pending_derivations enqueues every row.
Restart ==
    /\ ~up /\ up' = TRUE
    /\ queue' = TRUE
    /\ UNCHANGED <<row, files, process, closing, busy, lane, user, seen, spent>>

Lane ==
    \/ Take \/ RunOne \/ NoSource \/ Loop \/ SourceAvailable \/ ReportStopped \/ BeginProbe
    \/ WorkerStopped \/ WorkerFailed \/ Finish
    \/ ProbeCompleted \/ PlanCompleted \/ PreparePair \/ PairStarted \/ BeginPair
    \/ AfterEncoding \/ AfterQuality \/ AfterValidation \/ PublishPair \/ PairCheckpointed
    \/ ValidationCompleted \/ CommitFiles \/ CommitCompleted \/ FinalizeCancel

Supervision == Spawn \/ ChildCompletes \/ StopSeen \/ GraceExpires \/ ChildReaped

UserStep(u) == Enqueue(u) \/ Settle(u) \/ Idle(u)

DerivationNext ==
    \/ Lane \/ Supervision
    \/ ChildFails \/ DeadlinePasses \/ ChildStuck \/ OrphanExits
    \/ \E u \in Users : UserStep(u) \/ IdleTimeout(u)
    \/ \E u \in Users, c \in Commands : Ask(u, c)
    \/ SourceTaken \/ SourceReleased \/ Shutdown \/ Exit \/ Restart

DerivationSpec == DerivationInit /\ [][DerivationNext]_vars

\* Every thread is scheduled, a process ends or is stopped by its supervisor,
\* and a closed or dead application is started again.
DerivationFairSpec ==
    /\ DerivationSpec
    /\ WF_vars(Lane) /\ WF_vars(Supervision)
    /\ \A u \in Users : WF_vars(UserStep(u))
    /\ WF_vars(closing /\ Exit) /\ WF_vars(Restart)

-----------------------------------------------------------------------------
DerivationTypeOK ==
    /\ row \in Row \cup {None}
    /\ work \in {"none", "partial", "whole"} /\ final \subseteq Pairs /\ derived \subseteq Pairs
    /\ stop \in Reasons \cup {None} /\ active \in BOOLEAN /\ orphan \in BOOLEAN
    /\ child \in {"none", "running", "terminating", "killing"}
    /\ queue \in BOOLEAN /\ up \in BOOLEAN /\ closing \in BOOLEAN /\ busy \in BOOLEAN
    /\ quiet \in BOOLEAN /\ crossed \in BOOLEAN /\ failed \in BOOLEAN

\* StoppedIsQuiet: after an accepted pause or cancel was answered Ok, and as long
\* as the row still says so, the supervisor runs no process of the job and no
\* pair of it is measured, validated or published (reduce_inner's settling and
\* waiting, begin under the command mutex).  It does not hold of an operation that
\* lost its row: the settling of an earlier stop, which a resume had taken back,
\* leaves an inactive row under a running process, and a pause of that row is
\* answered at once.
StoppedIsQuiet ==
    quiet /\ ~crossed /\ (row.desired = "paused" \/ row.state = "cancelling") =>
             /\ child = "none"
             /\ lane.pc \notin Stages \cup {"encoded", "measured", "validated", "publish_pair"}

\* CheckpointedIsOnDisk: every checkpointed pair lies whole in the staging
\* directory or in the published derivative, and a verified derivation has all
\* its pairs published, whatever was stopped, discarded or interrupted on the
\* way (publish_validated_pair, discard_pair, commit_derivative).
CheckpointedIsOnDisk ==
    row # None =>
        /\ 0..(row.cp - 1) \subseteq final \cup derived
        /\ row.state = "derived_verified" => derived = Pairs

Is(state) == row # None /\ row.state = state

\* What the code cannot continue from: a current pair that no run holds, a
\* derivative published without its row, and a row sent back to encode when
\* every pair is checkpointed.
PairSteps == {"begin_pair", "encoding", "encoded", "quality", "measured", "validation",
              "validated", "publish_pair", "checkpoint", "finish", "stopped_in_stage", "failed"}
Interrupted ==
    \/ row.cur # None /\ lane.pc \notin PairSteps
    \/ derived # {} /\ row.state # "derived_verified" /\ lane.pc # "commit_row"
    \/ row.cp = NPairs /\ row.state \notin {"validating", "committing"} \cup Terminal

\* DerivationEnds: a derivation that nobody pauses or cancels, whose source is
\* free and whose processes do not fail, is verified in the end; a pause that
\* is resumed, a closed application or a crash delays it, except where it
\* interrupts a pair or the commit (run_one, resume, recover).
DerivationEnds ==
    row # None ~>
        /\ row # None
        /\ \/ row.state \in {"derived_verified", "cancelling", "waiting_for_source"}
           \/ row.desired = "paused" \/ failed \/ Interrupted

\* InterruptedDerivationEnds: a derivation whose application crashes is
\* verified after the restart (run_next_pair, recover).
InterruptedDerivationEnds == row # None ~> Is("derived_verified")

\* CancelIsFinal: a derivation that is being cancelled becomes nothing but
\* cancelled (process_stopped).
CancelIsFinal ==
    [][row # None /\ row.state = "cancelling" => row'.state \in {"cancelling", "cancelled"}]_vars

\* CancelledDerivationEnds: a cancellation ends as cancelled (finalize_cancel,
\* compare_and_swap).
CancelledDerivationEnds ==
    Is("cancelling") ~> Is("cancelled")

\* StoppedIsReaped: after an accepted pause or cancel was answered Ok, no
\* process of the job is left alive (hand_off_stuck_reaper, command).
StoppedIsReaped == quiet => ~orphan

\* ResumedDerivationEnds: a derivation that was paused and resumed is verified
\* in the end (resume, process_stopped, run_commit).
ResumedDerivationEnds ==
    (row # None /\ row.desired = "run") ~>
        (row # None /\ (row.desired = "paused" \/ row.state \in {"derived_verified", "cancelling"}))
=============================================================================
