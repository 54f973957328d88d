------------------------- MODULE TransferCoordinator ------------------------
(***************************************************************************)
(* The download coordinator (transfer/coordinator.rs, queue.rs,            *)
(* scheduler.rs, recovery.rs): worker threads that drive a job through its *)
(* stages, dispatcher threads that tick, client threads that pause, resume *)
(* and cancel, threads that enqueue and retry, and a device that comes and *)
(* goes.                                                                   *)
(*                                                                         *)
(* Every command runs through `apply_checked`: inside the job's serial     *)
(* lock the reducer decides, and its effects are performed one by one; the *)
(* lock is dropped across the wait for a worker to let go.  The interrupt  *)
(* block is lock-free, so its flag and its reason are written and read in  *)
(* separate steps.  Durable writes are TransferStore's actions.            *)
(*                                                                         *)
(* The observation counter is kept by order: `minted` lists the snapshots  *)
(* still in flight in the order of their version numbers, and a snapshot   *)
(* is stale once its job recorded a later one.                             *)
(***************************************************************************)
EXTENDS TransferStore

CONSTANTS Workers,           \* worker threads
          Clients,           \* threads serving user commands
          Tickers,           \* the dispatcher thread and the app's poll loop
          Requesters,        \* threads serving enqueue and retry
          Targets,           \* (device, session) directories
          TargetOf,          \* the directory each job writes
          Capacity,          \* the ready queue's capacity
          NumFiles,          \* files in a request
          Readings,          \* what a reading of the device may say
          CommandKinds,      \* the commands clients issue
          Budgets,           \* bounds: the jobs and workers there are, how many commands,
                             \* requests, outcomes delivered, changes of the device's
                             \* readiness, crashes (restarts after a shutdown too), orderly shutdowns
                             \* and failed durable writes a behaviour may have
          NoThread

Threads == Workers \cup Clients \cup Tickers

ASSUME CoordinatorConstants ==
    /\ IsFiniteSet(JobIds)
    /\ TargetOf \in [JobIds -> Targets]
    /\ NoThread \notin Threads
    /\ Workers \cap Clients = {} /\ Workers \cap Tickers = {} /\ Clients \cap Tickers = {}
    /\ Capacity \in Nat \ {0}
    /\ NumFiles \in Nat \ {0}
    /\ Readings \subseteq Readiness
    /\ CommandKinds \subseteq {"pause", "resume", "cancel"}
    /\ \A b \in Budgets :
           b \in [jobs : SUBSET JobIds, workers : SUBSET Workers, commands : Nat, requests : Nat,
                 acks : Nat, flips : Nat, crashes : Nat, shutdowns : Nat, faults : Nat]

VARIABLES mem,       \* jobs map: each job's published state and intent
          version,   \* JobCell.version
          serial,    \* JobCell.serial: the thread inside the critical section
          active,    \* JobControl.active
          flag,      \* JobControl.interrupt_flag
          reason,    \* JobControl.interrupt_reason
          queue,     \* the bounded ready queue
          phase,     \* running, stopping (shutdown is set), stopped (so is the queue)
          halted,    \* what shutdown has done so far with each job's control
          leases,    \* TargetLeases: who writes each directory
          device,    \* what a reading of the device would say now
          minted,    \* snapshots in flight, oldest version first
          stale,     \* those whose job has recorded a newer version
          pc, job,   \* each thread's place and the job it works on
          frame,     \* its call of apply_checked
          seen,      \* a ticker's copy of the job it looked at
          out,       \* a worker's transfer outcome
          done,      \* files a worker has finished in this run_transfer
          guard,     \* whether a worker holds its TargetLease
          call,      \* a client's command, or history: a pause that was taken back
          request,   \* a requester's place, its job and what it took from the store
          asked,     \* history: jobs a cancel was issued for
          resting,   \* history: jobs whose pause was acknowledged and stands
          budget     \* what is left of the bounds

memoryVars == <<mem, version, serial, active, flag, reason, queue, phase, halted, leases>>
observeVars == <<device, minted, stale>>
workerVars == <<out, done, guard>>
historyVars == <<asked, resting, budget>>
vars == <<storeVars, memoryVars, observeVars, workerVars, historyVars,
          pc, job, frame, seen, call, request>>

NoNote == [state |-> "absent", desired |-> "run"]
NoHint == [r \in Readiness |-> "idle"]
NoFrame == [cmd |-> Command("none"), eff |-> << >>, ok |-> "idle", err |-> "idle",
            hint |-> NoHint]

(* Where a thread may be.  The four labels of `apply_checked` are shared. *)
ApplyLabels == {"mint", "read", "lock", "perform", "raise", "wipe", "await", "relock"}
TransferLabels == {"check_flag", "check_desired", "check_device", "reading", "reason"}
WorkerLabels == {"popped", "claimed", "loop", "reschedule", "clear", "clear_reason",
                 "report", "leave", "release_active", "exited"} \cup TransferLabels
TickLabels == {"tick_lease", "tick_queued", "tick_active", "tick_schedule"}
ClientLabels == {"finalize", "acked", "refused"}
RequestLabels == {"idle", "spawn", "look", "install", "offer"}
Labels == {"idle"} \cup ApplyLabels \cup WorkerLabels \cup TickLabels \cup ClientLabels

Goto(t, label) == pc' = [pc EXCEPT ![t] = label]

-----------------------------------------------------------------------------
Scheduled(j) == \E i \in 1..Len(queue) : queue[i] = j

(* bug: the last slot is never used *)
schedule_off_by_one(j) ==
    IF phase = "stopped" \/ Scheduled(j) \/ Len(queue) + 1 >= Capacity
    THEN queue
    ELSE Append(queue, j)

(* WorkQueue: at most one notification per job, refused beyond capacity and
   after the stop. *)
schedule(j) ==
    IF phase = "stopped" \/ Scheduled(j) \/ Len(queue) >= Capacity
    THEN queue
    ELSE Append(queue, j)

-----------------------------------------------------------------------------
(* apply_checked.  Apply calls it with a command; Observe first mints a
   version and reads the device, and picks what follows from the reading. *)
Apply(t, command, ok, err) ==
    /\ frame' = [frame EXCEPT ![t] = [NoFrame EXCEPT !.cmd = command, !.ok = ok, !.err = err]]
    /\ Goto(t, "lock")

Observe(t, hint, err) ==
    /\ frame' = [frame EXCEPT ![t] = [NoFrame EXCEPT !.hint = hint, !.err = err]]
    /\ Goto(t, "mint")

Position(t) == CHOOSE i \in 1..Len(minted) : minted[i] = t

InFlight(t) == \E i \in 1..Len(minted) : minted[i] = t

(* Leaving apply_checked drops the snapshot the thread carried. *)
Return(t, label) ==
    /\ frame' = [frame EXCEPT ![t] = NoFrame]
    /\ minted' = SelectSeq(minted, LAMBDA u : u # t)
    /\ stale' = stale \ {t}
    /\ Goto(t, label)

(* bug: the critical section is entered while somebody is inside *)
SerialIgnored(j) == TRUE

SerialFree(j) == serial[j] = NoThread

Leave(j) == serial' = [serial EXCEPT ![j] = NoThread]

Hold(t, j) == serial' = [serial EXCEPT ![j] = t]

(* bug: the lock is kept across the wait *)
KeepForAwait(t, j) == Hold(t, j)

DropForAwait(t, j) == Leave(j)

(* Carry on with the effects that are left: return, wait without the lock, or
   perform the next one inside it. *)
Continue(t, j, effects) ==
    \/ /\ effects = << >>
       /\ Leave(j)
       /\ Return(t, frame[t].ok)
    \/ /\ effects # << >>
       /\ Head(effects).op = "await_worker_release"
       /\ DropForAwait(t, j)
       /\ frame' = [frame EXCEPT ![t].eff = Tail(effects)]
       /\ Goto(t, "await")
       /\ UNCHANGED <<minted, stale>>
    \/ /\ effects # << >>
       /\ Head(effects).op # "await_worker_release"
       /\ Hold(t, j)
       /\ frame' = [frame EXCEPT ![t].eff = effects]
       /\ Goto(t, "perform")
       /\ UNCHANGED <<minted, stale>>

(* device_snapshot mints the version first and reads the adapter after. *)
MintVersion(t) ==
    /\ pc[t] = "mint"
    /\ minted' = Append(minted, t)
    /\ Goto(t, "read")
    /\ UNCHANGED <<storeVars, memoryVars, device, stale, job, frame, seen, request, call,
                   workerVars, historyVars>>

ReadDevice(t) ==
    /\ pc[t] = "read"
    /\ frame' = [frame EXCEPT
           ![t].cmd = DeviceObserved([version |-> 1, readiness |-> device]),
           ![t].ok = frame[t].hint[device]]
    /\ Goto(t, "lock")
    /\ UNCHANGED <<storeVars, memoryVars, observeVars, job, seen, request, call, workerVars,
                   historyVars>>

(* load_aggregate; the reader's own version is newer than the recorded one
   unless the snapshot went stale. *)
Aggregate(t) ==
    LET j == job[t]
    IN  [state |-> mem[j].state, version |-> version[j], desired |-> mem[j].desired,
         observed |-> IF t \in stale THEN 2 ELSE 0]

(* bug: every terminal state passes for a cancelled one *)
RefusedAsDone(t, decision) ==
    IF /\ decision.outcome = "already_terminal"
       /\ frame[t].cmd.kind \in {"cancel", "finalize_cancel"}
    THEN "acked" ELSE frame[t].err

(* `cancel` treats "already terminal" as success when the job is cancelled. *)
RefusedLabel(t, decision) ==
    IF /\ decision.outcome = "already_terminal"
       /\ frame[t].cmd.kind \in {"cancel", "finalize_cancel"}
       /\ mem[job[t]].state = "cancelled"
    THEN "acked" ELSE frame[t].err

EnterSerial(t) ==
    LET j == job[t]
        decision == decide(Aggregate(t), frame[t].cmd)
    IN  /\ pc[t] = "lock"
        /\ SerialFree(j)
        /\ \/ /\ IsRejected(decision)
              /\ Return(t, RefusedLabel(t, decision))
              /\ UNCHANGED serial
           \/ /\ ~IsRejected(decision)
              /\ Continue(t, j, decision.effects)
        /\ UNCHANGED <<storeVars, mem, version, active, flag, reason, queue, phase, halted, leases,
                       device, job, seen, request, call, workerVars, historyVars>>

-----------------------------------------------------------------------------
(* perform: one effect inside the critical section. *)
At(t, op) == pc[t] = "perform" /\ Head(frame[t].eff).op = op

NextEffect(t) == Continue(t, job[t], Tail(frame[t].eff))

(* A failed effect abandons the ones after it. *)
Abandon(t) == Leave(job[t]) /\ Return(t, frame[t].err)

(* commit_transition: the durable write, then its in-memory publication. *)
StoreCommit(j, expected, to) ==
    IF to \in Terminal
    THEN rows[j].version = expected /\ complete_job(j, to)
    ELSE transition_job(j, expected, to)

PerformCommit(t) ==
    LET j == job[t]
        e == Head(frame[t].eff)
    IN  /\ At(t, "commit")
        /\ version[j] = e.version
        /\ StoreCommit(j, e.version, e.arg)
        /\ mem' = [mem EXCEPT ![j].state = e.arg]
        /\ version' = [version EXCEPT ![j] = e.version + 1]
        /\ NextEffect(t)
        /\ UNCHANGED <<active, flag, reason, queue, phase, halted, leases, device, job, seen,
                       request, call, workerVars, historyVars>>

(* A resume takes back the pauses that have set their intent before it, the ones
   whose caller is still waiting for an answer too. *)
Overtaken(c, j) ==
    IF call[c] = "pause" /\ job[c] = j /\ pc[c] \in {"await", "relock", "acked"}
    THEN "overtaken" ELSE call[c]

PerformSetDesired(t) ==
    LET j == job[t]
        e == Head(frame[t].eff)
    IN  /\ At(t, "set_desired")
        /\ set_desired_run_state(j, e.arg, version[j])
        /\ mem' = [mem EXCEPT ![j].desired = e.arg]
        /\ resting' = IF e.arg = "run" THEN resting \ {j} ELSE resting
        /\ call' = IF e.arg = "run" THEN [c \in Clients |-> Overtaken(c, j)] ELSE call
        /\ NextEffect(t)
        /\ UNCHANGED <<version, active, flag, reason, queue, phase, halted, leases, device, job,
                       seen, request, workerVars, asked, budget>>

(* bug: memory is published before the write it announces *)
PublishFirst(t) ==
    LET j == job[t]
        e == Head(frame[t].eff)
    IN  /\ At(t, "commit") \/ At(t, "set_desired")
        /\ budget.faults > 0
        /\ budget' = [budget EXCEPT !.faults = @ - 1]
        /\ mem' = IF e.op = "commit" THEN [mem EXCEPT ![j].state = e.arg]
                                     ELSE [mem EXCEPT ![j].desired = e.arg]
        /\ Abandon(t)
        /\ UNCHANGED <<storeVars, version, active, flag, reason, queue, phase, halted, leases,
                       device, job, seen, request, call, workerVars, asked, resting>>

(* A write the store refuses, or that fails on disk, ends the command. *)
PerformFails(t) ==
    LET j == job[t]
        e == Head(frame[t].eff)
        refused == \/ rows[j].version # version[j]
                   \/ e.op = "commit" /\ ~(e.version = version[j] /\ NextVersionFits(e.version))
    IN  /\ At(t, "commit") \/ At(t, "set_desired")
        /\ refused \/ budget.faults > 0
        /\ budget' = IF refused THEN budget ELSE [budget EXCEPT !.faults = @ - 1]
        /\ Abandon(t)
        /\ UNCHANGED <<storeVars, mem, version, active, flag, reason, queue, phase, halted, leases,
                       device, job, seen, request, call, workerVars, asked, resting>>

(* request_interrupt: the reason, then the flag. *)
PerformRequestInterrupt(t) ==
    /\ At(t, "request_interrupt")
    /\ reason' = [reason EXCEPT ![job[t]] = Head(frame[t].eff).arg]
    /\ Goto(t, "raise")
    /\ UNCHANGED <<storeVars, mem, version, serial, active, flag, queue, phase, halted, leases,
                   observeVars, job, frame, seen, request, call, workerVars, historyVars>>

RaiseFlag(t) ==
    /\ pc[t] = "raise"
    /\ flag' = [flag EXCEPT ![job[t]] = TRUE]
    /\ NextEffect(t)
    /\ UNCHANGED <<storeVars, mem, version, active, reason, queue, phase, halted, leases, device,
                   job, seen, request, call, workerVars, historyVars>>

(* clear_interrupt: the flag, then the reason. *)
PerformClearInterrupt(t) ==
    /\ At(t, "clear_interrupt")
    /\ flag' = [flag EXCEPT ![job[t]] = FALSE]
    /\ Goto(t, "wipe")
    /\ UNCHANGED <<storeVars, mem, version, serial, active, reason, queue, phase, halted, leases,
                   observeVars, job, frame, seen, request, call, workerVars, historyVars>>

WipeReason(t) ==
    /\ pc[t] = "wipe"
    /\ reason' = [reason EXCEPT ![job[t]] = "none"]
    /\ NextEffect(t)
    /\ UNCHANGED <<storeVars, mem, version, active, flag, queue, phase, halted, leases, device,
                   job, seen, request, call, workerVars, historyVars>>

PerformDispatch(t) ==
    /\ At(t, "dispatch")
    /\ queue' = schedule(job[t])
    /\ NextEffect(t)
    /\ UNCHANGED <<storeVars, mem, version, active, flag, reason, phase, halted, leases, device,
                   job, seen, request, call, workerVars, historyVars>>

(* Recording a version makes every older snapshot of the same job stale. *)
OlderSnapshots(t) ==
    {u \in Threads : /\ InFlight(u) /\ InFlight(t)
                     /\ Position(u) < Position(t)
                     /\ job[u] = job[t]}

PerformRecordVersion(t) ==
    /\ At(t, "record_device_version")
    /\ \/ /\ Tail(frame[t].eff) = << >>
          /\ Leave(job[t])
          /\ frame' = [frame EXCEPT ![t] = NoFrame]
          /\ minted' = SelectSeq(minted, LAMBDA u : u # t)
          /\ Goto(t, frame[t].ok)
       \/ /\ Tail(frame[t].eff) # << >>
          /\ frame' = [frame EXCEPT ![t].eff = Tail(frame[t].eff)]
          /\ UNCHANGED <<serial, minted, pc>>
    /\ stale' = (stale \cup OlderSnapshots(t)) \ {t}
    /\ UNCHANGED <<storeVars, mem, version, active, flag, reason, queue, phase, halted, leases,
                   device, job, seen, request, call, workerVars, historyVars>>

(* Effects are left: take the lock again for them; otherwise return. *)
Resume(t) ==
    /\ \/ /\ frame[t].eff = << >>
          /\ Return(t, frame[t].ok)
       \/ /\ frame[t].eff # << >>
          /\ Goto(t, "relock")
          /\ UNCHANGED <<frame, minted, stale>>
    /\ UNCHANGED <<storeVars, memoryVars, device, job, seen, request, call, workerVars,
                   historyVars>>

(* bug: nobody waits for the worker *)
AwaitNothing(t) == pc[t] = "await" /\ Resume(t)

(* wait_for_inactive polls `active`, and gives up at its deadline. *)
AwaitRelease(t) == pc[t] = "await" /\ ~active[job[t]] /\ Resume(t)

AwaitTimeout(t) ==
    /\ pc[t] = "await"
    /\ active[job[t]]
    /\ Return(t, frame[t].err)
    /\ UNCHANGED <<storeVars, memoryVars, device, job, seen, request, call, workerVars,
                   historyVars>>

EnterSerialAgain(t) ==
    /\ pc[t] = "relock"
    /\ SerialFree(job[t])
    /\ Hold(t, job[t])
    /\ Goto(t, "perform")
    /\ UNCHANGED <<storeVars, mem, version, active, flag, reason, queue, phase, halted, leases,
                   observeVars, job, frame, seen, request, call, workerVars, historyVars>>

ApplyStep(t) ==
    \/ MintVersion(t) \/ ReadDevice(t) \/ EnterSerial(t)
    \/ PerformCommit(t) \/ PerformSetDesired(t) \/ PerformFails(t)
    \/ PerformRequestInterrupt(t) \/ RaiseFlag(t)
    \/ PerformClearInterrupt(t) \/ WipeReason(t)
    \/ PerformDispatch(t) \/ PerformRecordVersion(t)
    \/ AwaitRelease(t) \/ AwaitTimeout(t) \/ EnterSerialAgain(t)

-----------------------------------------------------------------------------
(* A step that only moves its thread. *)
Steady == UNCHANGED <<storeVars, memoryVars, observeVars, historyVars, seen, request, call, job>>

Jump(t, label) ==
    /\ Goto(t, label)
    /\ UNCHANGED <<frame, workerVars>>
    /\ Steady

ApplyFrom(t, command, ok, err) ==
    /\ Apply(t, command, ok, err)
    /\ UNCHANGED workerVars
    /\ Steady

(* worker_loop: claim a notification, then the job, then its directory. *)
ClaimNotification(w) ==
    /\ w \in budget.workers
    /\ pc[w] = "idle" /\ queue # << >>
    /\ job' = [job EXCEPT ![w] = Head(queue)]
    /\ queue' = Tail(queue)
    /\ Goto(w, "popped")
    /\ UNCHANGED <<storeVars, mem, version, serial, active, flag, reason, phase, halted, leases,
                   observeVars, workerVars, historyVars, frame, seen, request, call>>

try_claim(w) ==
    /\ pc[w] = "popped"
    /\ \/ active[job[w]] /\ Goto(w, "idle") /\ UNCHANGED active
       \/ /\ ~active[job[w]]
          /\ active' = [active EXCEPT ![job[w]] = TRUE]
          /\ Goto(w, "claimed")
    /\ UNCHANGED <<storeVars, mem, version, serial, flag, reason, queue, phase, halted, leases,
                   observeVars, workerVars, historyVars, job, frame, seen, request, call>>

(* bug: a directory is shared *)
TargetOpen(j) == TRUE

TargetFree(j) == leases[TargetOf[j]] = NoJob

(* A worker that claims a job after the stop was requested lets it go and
   returns.  The interrupt it leaves is one step here: every later worker of the
   job takes this path too and looks at neither half of it. *)
SeeShutdown(w) ==
    /\ pc[w] = "claimed"
    /\ phase # "running"
    /\ reason' = [reason EXCEPT ![job[w]] = "shutdown"]
    /\ flag' = [flag EXCEPT ![job[w]] = TRUE]
    /\ out' = [out EXCEPT ![w] = "exiting"]
    /\ Goto(w, "release_active")
    /\ UNCHANGED <<storeVars, mem, version, serial, active, queue, phase, halted, leases, observeVars,
                   historyVars, done, guard, job, frame, seen, request, call>>

try_acquire(w) ==
    LET j == job[w]
    IN  /\ pc[w] = "claimed"
        /\ phase = "running"
        /\ \/ /\ TargetFree(j)
              /\ leases' = [leases EXCEPT ![TargetOf[j]] = j]
              /\ guard' = [guard EXCEPT ![w] = TRUE]
              /\ Goto(w, "loop")
           \/ /\ ~TargetFree(j)
              /\ Goto(w, "release_active")
              /\ UNCHANGED <<leases, guard>>
        /\ UNCHANGED <<storeVars, mem, version, serial, active, flag, reason, queue, phase, halted,
                       observeVars, historyVars, out, done, job, frame, seen, request, call>>

(* process_job: one turn of the loop, by the state it reads. *)
ParkedHint(state) ==
    [r \in Readiness |->
        IF r = "ready" THEN "loop"
        ELSE IF state \in {"queued", "retry_wait"} /\ r # "capture_paused"
             THEN "reschedule" ELSE "leave"]

Finds(w, states) == pc[w] = "loop" /\ mem[job[w]].state \in states

ProbeDevice(w) ==
    /\ Finds(w, Parked) /\ mem[job[w]].desired = "run"
    /\ Observe(w, ParkedHint(mem[job[w]].state), "leave")
    /\ UNCHANGED workerVars
    /\ Steady

StopHere(w) ==
    /\ Finds(w, Terminal) \/ (Finds(w, Parked) /\ mem[job[w]].desired = "paused")
    /\ Jump(w, "leave")

Prepare(w) ==
    /\ Finds(w, {"preparing"})
    /\ \/ ApplyFrom(w, StageReport(Report("prepared", "preparing")), "loop", "leave")
       \/ ApplyFrom(w, StageReport(FailureReport("preparing", "failed_final")), "leave", "leave")

TransferFails(w) ==
    \E f \in Failures :
        ApplyFrom(w, StageReport(FailureReport("transferring", f)), "leave", "leave")

(* run_transfer opens the staging directory, which may fail. *)
BeginTransfer(w) ==
    /\ Finds(w, {"transferring"})
    /\ \/ TransferFails(w)
       \/ /\ done' = [done EXCEPT ![w] = 0]
          /\ Goto(w, "check_flag")
          /\ UNCHANGED <<frame, out, guard>>
          /\ Steady

Verify(w) ==
    /\ Finds(w, {"verifying"})
    /\ ApplyFrom(w, StageReport(Report("verified", "verifying")), "loop", "leave")

CommitSession(w) ==
    /\ Finds(w, {"committing"})
    /\ \/ ApplyFrom(w, StageReport(Report("commit_complete", "committing")), "leave", "leave")
       \/ \E f \in Failures :
             ApplyFrom(w, StageReport(FailureReport("committing", f)), "leave", "leave")

(* The outcome of run_transfer; every one but success first clears the
   interrupt, and only then reports. *)
EndTransfer(w, outcome) ==
    /\ out' = [out EXCEPT ![w] = outcome]
    /\ Goto(w, "clear")
    /\ UNCHANGED <<frame, done, guard>>
    /\ Steady

(* bug: a cancelling job is left for the client *)
SkipCancelling(w) == Finds(w, {"cancelling"}) /\ Jump(w, "leave")

FinishCancelling(w) == Finds(w, {"cancelling"}) /\ EndTransfer(w, "cancel")

Reoffer(w) ==
    /\ pc[w] = "reschedule"
    /\ queue' = schedule(job[w])
    /\ Goto(w, "leave")
    /\ UNCHANGED <<storeVars, mem, version, serial, active, flag, reason, phase, halted, leases,
                   observeVars, workerVars, historyVars, job, frame, seen, request, call>>

(* pre_file_interrupt_check: the flag, the intent, the device. *)
CheckFlag(w) ==
    /\ pc[w] = "check_flag"
    /\ Jump(w, IF flag[job[w]] THEN "reason" ELSE "check_desired")

CheckDesired(w) ==
    /\ pc[w] = "check_desired"
    /\ \/ mem[job[w]].desired = "paused" /\ EndTransfer(w, "user_pause")
       \/ mem[job[w]].desired = "run" /\ Jump(w, "check_device")

CheckDevice(w) ==
    /\ pc[w] = "check_device"
    /\ \/ device = "ready" /\ Jump(w, "reading")
       \/ device = "capture_paused" /\ EndTransfer(w, "capture_pause")
       \/ device \in {"wait_device", "wait_pairing"} /\ EndTransfer(w, "not_ready")

(* download_into: the tracking source notices the flag at a read, or the file
   is finished, or its download fails or panics. *)
NoticeInterrupt(w) == pc[w] = "reading" /\ flag[job[w]] /\ Jump(w, "reason")

FinishFile(w) ==
    /\ pc[w] = "reading"
    /\ done' = [done EXCEPT ![w] = @ + 1]
    /\ \/ /\ done[w] + 1 < NumFiles
          /\ Goto(w, "check_flag")
          /\ UNCHANGED frame
       \/ /\ done[w] + 1 = NumFiles
          /\ Apply(w, StageReport(Report("transfer_complete", "transferring")), "loop", "leave")
    /\ UNCHANGED <<out, guard>>
    /\ Steady

DownloadFails(w) == pc[w] = "reading" /\ TransferFails(w)

DropLease(w) ==
    /\ leases' = [leases EXCEPT ![TargetOf[job[w]]] = NoJob]
    /\ guard' = [guard EXCEPT ![w] = FALSE]

(* Unwinding drops the directory's lease; the job is reported and the
   interrupt cleared while it is still claimed. *)
Panic(w) ==
    /\ pc[w] = "reading"
    /\ DropLease(w)
    /\ out' = [out EXCEPT ![w] = "panicked"]
    /\ Apply(w, Command("panicked"), "clear", "clear")
    /\ UNCHANGED <<storeVars, mem, version, serial, active, flag, reason, queue, phase, halted,
                   observeVars, historyVars, done, job, seen, request, call>>

interrupt_outcome(w) ==
    CASE reason[job[w]] = "none"        -> "cancel"
      [] reason[job[w]] = "device_lost" -> "not_ready"
      [] OTHER                          -> reason[job[w]]

ReadReason(w) == pc[w] = "reason" /\ EndTransfer(w, interrupt_outcome(w))

ClearFlag(w) ==
    /\ pc[w] = "clear"
    /\ flag' = [flag EXCEPT ![job[w]] = FALSE]
    /\ Goto(w, "clear_reason")
    /\ UNCHANGED <<storeVars, mem, version, serial, active, reason, queue, phase, halted, leases,
                   observeVars, workerVars, historyVars, job, frame, seen, request, call>>

ClearReason(w) ==
    /\ pc[w] = "clear_reason"
    /\ reason' = [reason EXCEPT ![job[w]] = "none"]
    /\ Goto(w, "report")
    /\ UNCHANGED <<storeVars, mem, version, serial, active, flag, queue, phase, halted, leases,
                   observeVars, workerVars, historyVars, job, frame, seen, request, call>>

(* A lost device is looked at once more, to tell a capture from a loss. *)
InterruptReason(w) ==
    IF out[w] # "not_ready"             THEN out[w]
    ELSE IF device = "capture_paused" THEN "capture_pause"
    ELSE "device_lost"

ReportInterrupt(w) ==
    /\ pc[w] = "report"
    /\ \/ out[w] = "panicked" /\ Jump(w, "release_active")
       \/ /\ out[w] # "panicked"
          /\ ApplyFrom(w, Interrupted(InterruptReason(w)), "leave", "leave")

ReleaseTarget(w) ==
    /\ pc[w] = "leave"
    /\ DropLease(w)
    /\ Goto(w, "release_active")
    /\ UNCHANGED <<storeVars, mem, version, serial, active, flag, reason, queue, phase, halted,
                   observeVars, historyVars, out, done, job, frame, seen, request, call>>

(* The worker lets go of the job; one that saw the shutdown returns. *)
ReleaseActive(w) ==
    /\ pc[w] = "release_active"
    /\ active' = [active EXCEPT ![job[w]] = FALSE]
    /\ out' = [out EXCEPT ![w] = "none"]
    /\ done' = [done EXCEPT ![w] = 0]
    /\ Goto(w, IF out[w] = "exiting" THEN "exited" ELSE "idle")
    /\ UNCHANGED <<storeVars, mem, version, serial, flag, reason, queue, phase, halted, leases,
                   observeVars, historyVars, guard, job, frame, seen, request, call>>

WorkerStep(w) ==
    \/ ClaimNotification(w) \/ try_claim(w) \/ SeeShutdown(w) \/ try_acquire(w)
    \/ ProbeDevice(w) \/ StopHere(w) \/ Prepare(w) \/ BeginTransfer(w) \/ Verify(w)
    \/ CommitSession(w) \/ FinishCancelling(w) \/ Reoffer(w)
    \/ CheckFlag(w) \/ CheckDesired(w) \/ CheckDevice(w)
    \/ NoticeInterrupt(w) \/ FinishFile(w) \/ DownloadFails(w) \/ Panic(w)
    \/ ReadReason(w) \/ ClearFlag(w) \/ ClearReason(w) \/ ReportInterrupt(w)
    \/ ReleaseTarget(w) \/ ReleaseActive(w)

-----------------------------------------------------------------------------
(* tick, for one job of the map: look at the job, then at its directory, then
   at its worker. *)
TickRead(k) ==
    /\ pc[k] = "idle"
    /\ \E j \in JobIds :
          /\ mem[j].state \in NonTerminal
          /\ job' = [job EXCEPT ![k] = j]
          /\ seen' = [seen EXCEPT ![k] = mem[j]]
    /\ Goto(k, "tick_lease")
    /\ UNCHANGED <<storeVars, memoryVars, observeVars, workerVars, historyVars, frame, call,
                   request>>

TickLease(k) ==
    /\ pc[k] = "tick_lease"
    /\ Jump(k, IF leases[TargetOf[job[k]]] \in {NoJob, job[k]} THEN "tick_queued" ELSE "idle")

(* A queued notification is already a probe under way. *)
TickQueued(k) ==
    /\ pc[k] = "tick_queued"
    /\ Jump(k, IF seen[k].state = "queued" /\ (Scheduled(job[k]) \/ active[job[k]])
               THEN "idle" ELSE "tick_active")

TickHint == [NoHint EXCEPT !["ready"] = "tick_schedule"]

TickActive(k) ==
    /\ pc[k] = "tick_active"
    /\ \/ active[job[k]] /\ Observe(k, NoHint, "idle")
       \/ /\ ~active[job[k]] /\ seen[k].desired = "paused"
          /\ Goto(k, "idle") /\ UNCHANGED frame
       \/ /\ ~active[job[k]] /\ seen[k].desired = "run" /\ seen[k].state \in Parked
          /\ Observe(k, TickHint, "idle")
       \/ /\ ~active[job[k]] /\ seen[k].desired = "run" /\ seen[k].state \notin Parked
          /\ Goto(k, "tick_schedule") /\ UNCHANGED frame
    /\ seen' = [seen EXCEPT ![k] = NoNote]
    /\ UNCHANGED <<storeVars, memoryVars, observeVars, workerVars, historyVars, job, call,
                   request>>

TickSchedule(k) ==
    /\ pc[k] = "tick_schedule"
    /\ queue' = schedule(job[k])
    /\ Goto(k, "idle")
    /\ UNCHANGED <<storeVars, mem, version, serial, active, flag, reason, phase, halted, leases,
                   observeVars, workerVars, historyVars, job, frame, seen, request, call>>

TickerStep(k) ==
    TickRead(k) \/ TickLease(k) \/ TickQueued(k) \/ TickActive(k) \/ TickSchedule(k)

-----------------------------------------------------------------------------
(* pause, resume and cancel; cancel is two commands, the second once no worker
   owns the job. *)
IssueCommand(c) ==
    /\ pc[c] = "idle" /\ budget.commands > 0
    /\ \E k \in CommandKinds, j \in JobIds :
          /\ mem[j].state # "absent"
          /\ call' = [call EXCEPT ![c] = k]
          /\ job' = [job EXCEPT ![c] = j]
          /\ asked' = IF k = "cancel" THEN asked \cup {j} ELSE asked
          /\ Apply(c, Command(k), IF k = "cancel" THEN "finalize" ELSE "acked", "refused")
    /\ budget' = [budget EXCEPT !.commands = @ - 1]
    /\ UNCHANGED <<storeVars, memoryVars, observeVars, workerVars, resting, seen, request>>

FinalizeCancel(c) ==
    /\ pc[c] = "finalize"
    /\ ApplyFrom(c, Command("finalize_cancel"), "acked", "refused")

EndCommand(c) ==
    /\ pc[c] \in {"acked", "refused"}
    /\ resting' = IF pc[c] = "acked" /\ call[c] = "pause"
                  THEN resting \cup {job[c]} ELSE resting
    /\ call' = [call EXCEPT ![c] = "none"]
    /\ Goto(c, "idle")
    /\ UNCHANGED <<storeVars, memoryVars, observeVars, workerVars, asked, budget, job, frame,
                   seen, request>>

ClientStep(c) == IssueCommand(c) \/ FinalizeCancel(c) \/ EndCommand(c)

-----------------------------------------------------------------------------
(* enqueue and retry: what a job's row says is read or written in one
   transaction of the store, and installed in the map by a later step. *)
NoRequest == [at |-> "idle", kind |-> "none", job |-> NoJob,
              state |-> "absent", desired |-> "run", version |-> 0]

RequestSteady == UNCHANGED <<serial, active, flag, reason, phase, halted, leases, observeVars,
                             workerVars, asked, resting, pc, job, frame, seen, call>>

Stands(r, label) == request[r].at = label

Take(r, kind, j, label) ==
    request' = [request EXCEPT ![r] =
        [at |-> label, kind |-> kind, job |-> j, state |-> rows'[j].state,
         desired |-> rows'[j].desired, version |-> rows'[j].version]]

RequestTo(r, label) ==
    request' = [request EXCEPT ![r] = IF label = "idle" THEN NoRequest ELSE [@ EXCEPT !.at = label]]

SpendRequest ==
    /\ budget.requests > 0
    /\ budget' = [budget EXCEPT !.requests = @ - 1]

(* read_latest_job_by_identity finds a row nothing was spawned from. *)
Newest(j) ==
    /\ Present(j) /\ HasNoChildren(j)
    /\ lineage[j] # NoLink => LatestChild(lineage[j].parent, j)

(* library_root_gate: one enqueue at a time. *)
GateFree == \A r \in Requesters : request[r].kind # "enqueue"

(* A new row is installed at once; a row that is there, unless it is one that
   is only history, is looked up in the map first. *)
Enqueue(r) ==
    /\ Stands(r, "idle") /\ SpendRequest
    /\ phase = "running" /\ GateFree
    /\ \/ \E j \in JobIds, id \in Identities, d \in Digests :
              create_job(j, id, d) /\ Take(r, "enqueue", j, "install")
       \/ \E j \in JobIds :
              /\ Newest(j) /\ (Live(j) \/ rows[j].state \in Failures)
              /\ UNCHANGED storeVars
              /\ Take(r, "enqueue", j, "look")
    /\ UNCHANGED <<mem, version, queue>> /\ RequestSteady

(* The reducer lets only a failed job be retried, and that is final. *)
Retry(r) ==
    /\ Stands(r, "idle") /\ SpendRequest
    /\ \E p \in JobIds :
          /\ mem[p].state = "failed_retryable"
          /\ request' = [request EXCEPT ![r] =
                 [NoRequest EXCEPT !.at = "spawn", !.kind = "retry", !.job = p]]
    /\ UNCHANGED <<storeVars, mem, version, queue>> /\ RequestSteady

(* The store refuses, finds the live child of an earlier retry, or writes one. *)
Spawn(r) ==
    LET p == request[r].job
    IN  /\ Stands(r, "spawn")
        /\ \/ /\ ~outbox[p].acked \/ rows[p].dismissed
              /\ RequestTo(r, "idle") /\ UNCHANGED storeVars
           \/ \E c \in JobIds :
                 /\ outbox[p].acked /\ LatestChild(p, c) /\ Live(c)
                 /\ UNCHANGED storeVars
                 /\ Take(r, "retry", c, "look")
           \/ \E c \in JobIds : spawn_retry_job(p, c) /\ Take(r, "retry", c, "look")
        /\ UNCHANGED <<mem, version, queue, budget>> /\ RequestSteady

(* contains_key. *)
Look(r) ==
    /\ Stands(r, "look")
    /\ RequestTo(r, IF mem[request[r].job].state = "absent" THEN "install" ELSE "idle")
    /\ UNCHANGED <<storeVars, mem, version, queue, budget>> /\ RequestSteady

(* rehydrate: the map's entry is replaced by what was taken from the store, and a
   control or a cell that is there is kept, the cell with its version. *)
Install(r) ==
    LET j == request[r].job
    IN  /\ Stands(r, "install")
        /\ mem' = [mem EXCEPT ![j] = [state |-> request[r].state, desired |-> request[r].desired]]
        /\ version' = IF mem[j].state = "absent"
                      THEN [version EXCEPT ![j] = request[r].version] ELSE version
        /\ RequestTo(r, "offer")
        /\ UNCHANGED <<storeVars, queue, budget>> /\ RequestSteady

Offer(r) ==
    /\ Stands(r, "offer")
    /\ queue' = IF request[r].state \notin Terminal /\ request[r].desired = "run"
                THEN schedule(request[r].job) ELSE queue
    /\ RequestTo(r, "idle")
    /\ UNCHANGED <<storeVars, mem, version, budget>> /\ RequestSteady

RequesterStep(r) == Enqueue(r) \/ Retry(r) \/ Spawn(r) \/ Look(r) \/ Install(r) \/ Offer(r)

(* The app has projected the job's outcome. *)
Acknowledge(j) ==
    /\ budget.acks > 0
    /\ budget' = [budget EXCEPT !.acks = @ - 1]
    /\ acknowledge_completion(j)
    /\ UNCHANGED <<mem, version, queue, request>> /\ RequestSteady

-----------------------------------------------------------------------------
(* The device, the process and the stop signal. *)
DeviceChange ==
    /\ budget.flips > 0
    /\ \E r \in Readings \ {device} : device' = r
    /\ budget' = [budget EXCEPT !.flips = @ - 1]
    /\ UNCHANGED <<storeVars, memoryVars, minted, stale, workerVars, asked, resting, pc, job,
                   frame, seen, request, call>>

BeginShutdown ==
    /\ phase = "running" /\ budget.shutdowns > 0 /\ budget.crashes > 0
    /\ phase' = "stopping"
    /\ budget' = [budget EXCEPT !.shutdowns = @ - 1]
    /\ UNCHANGED <<storeVars, mem, version, serial, active, flag, reason, queue, halted,
                   leases, observeVars, workerVars, asked, resting, pc, job, frame, seen,
                   request, call>>

(* shutdown walks the controls once: a job that is active is told the reason,
   then its flag is raised; one that is not is passed over. *)
TellShutdown(j) ==
    /\ phase = "stopping" /\ halted[j] = "no"
    /\ reason' = IF active[j] THEN [reason EXCEPT ![j] = "shutdown"] ELSE reason
    /\ halted' = [halted EXCEPT ![j] = IF active[j] THEN "told" ELSE "done"]
    /\ UNCHANGED <<storeVars, mem, version, serial, active, flag, queue, phase, leases,
                   observeVars, workerVars, historyVars, pc, job, frame, seen, request, call>>

RaiseShutdown(j) ==
    /\ halted[j] = "told"
    /\ flag' = [flag EXCEPT ![j] = TRUE]
    /\ halted' = [halted EXCEPT ![j] = "done"]
    /\ UNCHANGED <<storeVars, mem, version, serial, active, reason, queue, phase, leases,
                   observeVars, workerVars, historyVars, pc, job, frame, seen, request, call>>

StopQueue ==
    /\ phase = "stopping" /\ \A j \in JobIds : halted[j] = "done"
    /\ phase' = "stopped"
    /\ queue' = << >>
    /\ UNCHANGED <<storeVars, mem, version, serial, active, flag, reason, halted, leases,
                   observeVars, workerVars, historyVars, pc, job, frame, seen, request, call>>

(* Nothing is running: no worker, no command, an empty interrupt block. *)
FreshProcess ==
    /\ serial = [j \in JobIds |-> NoThread]
    /\ active = [j \in JobIds |-> FALSE]
    /\ flag = [j \in JobIds |-> FALSE]
    /\ reason = [j \in JobIds |-> "none"]
    /\ leases = [x \in Targets |-> NoJob]
    /\ phase = "running"
    /\ halted = [j \in JobIds |-> "no"]
    /\ minted = << >>
    /\ stale = {}
    /\ pc = [t \in Threads |-> "idle"]
    /\ job = [t \in Threads |-> NoJob]
    /\ frame = [t \in Threads |-> NoFrame]
    /\ seen = [k \in Tickers |-> NoNote]
    /\ call = [c \in Clients |-> "none"]
    /\ request = [r \in Requesters |-> NoRequest]
    /\ out = [w \in Workers |-> "none"]
    /\ done = [w \in Workers |-> 0]
    /\ guard = [w \in Workers |-> FALSE]

BecomeFresh ==
    /\ serial' = [j \in JobIds |-> NoThread]
    /\ active' = [j \in JobIds |-> FALSE]
    /\ flag' = [j \in JobIds |-> FALSE]
    /\ reason' = [j \in JobIds |-> "none"]
    /\ leases' = [x \in Targets |-> NoJob]
    /\ phase' = "running"
    /\ halted' = [j \in JobIds |-> "no"]
    /\ minted' = << >>
    /\ stale' = {}
    /\ pc' = [t \in Threads |-> "idle"]
    /\ job' = [t \in Threads |-> NoJob]
    /\ frame' = [t \in Threads |-> NoFrame]
    /\ seen' = [k \in Tickers |-> NoNote]
    /\ call' = [c \in Clients |-> "none"]
    /\ request' = [r \in Requesters |-> NoRequest]
    /\ out' = [w \in Workers |-> "none"]
    /\ done' = [w \in Workers |-> 0]
    /\ guard' = [w \in Workers |-> FALSE]

(* The ready queue offered these jobs, one after the other. *)
OffersOf(jobs) ==
    LET n == IF Cardinality(jobs) < Capacity THEN Cardinality(jobs) ELSE Capacity
    IN  {q \in [1..n -> jobs] : \A a, b \in 1..n : a # b => q[a] # q[b]}

(* rehydrate at startup: the row as it stands, dispatched when it is meant to run.
   Install is rehydrate for an enqueue or a retry. *)
Rehydrated(j) ==
    IF Live(j) THEN [state |-> rows[j].state, desired |-> rows[j].desired] ELSE NoNote

(* The process dies at any point; recover_on_startup rebuilds the map from the
   rows that are not terminal. *)
Restart ==
    /\ budget.crashes > 0
    /\ budget' = [budget EXCEPT !.crashes = @ - 1]
    /\ mem' = [j \in JobIds |-> Rehydrated(j)]
    /\ version' = [j \in JobIds |-> rows[j].version]
    /\ queue' \in OffersOf({j \in JobIds : Live(j) /\ rows[j].desired = "run"})
    /\ BecomeFresh
    /\ UNCHANGED <<storeVars, device, asked, resting>>

(* The jobs there are have just been enqueued. *)
Init ==
    /\ budget \in Budgets
    /\ \E id \in Identities, d \in Digests :
          rows = [j \in JobIds |-> IF j \in budget.jobs THEN NewRow(id, d) ELSE NoRow]
    /\ ledger = [j \in JobIds |-> [f \in Files |-> NoEvidence]]
    /\ outbox = [j \in JobIds |-> NoOutcome]
    /\ lineage = [j \in JobIds |-> NoLink]
    /\ mem = [j \in JobIds |-> Rehydrated(j)]
    /\ version = [j \in JobIds |-> rows[j].version]
    /\ queue \in OffersOf(budget.jobs)
    /\ FreshProcess
    /\ device \in Readings
    /\ asked = {} /\ resting = {}

Next ==
    \/ \E t \in Threads : ApplyStep(t)
    \/ \E w \in Workers : WorkerStep(w)
    \/ \E k \in Tickers : TickerStep(k)
    \/ \E c \in Clients : ClientStep(c)
    \/ \E r \in Requesters : RequesterStep(r)
    \/ \E j \in JobIds : Acknowledge(j)
    \/ \E j \in JobIds : TellShutdown(j) \/ RaiseShutdown(j)
    \/ DeviceChange \/ BeginShutdown \/ StopQueue \/ Restart

Spec == Init /\ [][Next]_vars

-----------------------------------------------------------------------------
(* Type invariant, with the bounds the model adds. *)
TypeOK ==
    /\ StoreTypeOK
    /\ mem \in [JobIds -> [state : States \cup {"absent"}, desired : RunIntents]]
    /\ version \in [JobIds -> 0..MaxVersion]
    /\ serial \in [JobIds -> Threads \cup {NoThread}]
    /\ active \in [JobIds -> BOOLEAN]
    /\ flag \in [JobIds -> BOOLEAN]
    /\ reason \in [JobIds -> Reasons \cup {"none"}]
    /\ Len(queue) <= Capacity /\ \A i \in 1..Len(queue) : queue[i] \in JobIds
    /\ phase \in {"running", "stopping", "stopped"}
    /\ halted \in [JobIds -> {"no", "told", "done"}]
    /\ leases \in [Targets -> JobIds \cup {NoJob}]
    /\ device \in Readings
    /\ stale \subseteq {minted[i] : i \in 1..Len(minted)}
    /\ pc \in [Threads -> Labels]
    /\ job \in [Threads -> JobIds \cup {NoJob}]
    /\ guard \in [Workers -> BOOLEAN]
    /\ done \in [Workers -> 0..NumFiles]
    /\ request \in [Requesters ->
           [at : RequestLabels, kind : {"none", "enqueue", "retry"}, job : JobIds \cup {NoJob},
            state : States \cup {"absent"}, desired : RunIntents, version : 0..MaxVersion]]

(* What a second enqueue or retry of a job may break: it finds the job absent
   from the map, and installs what it took from the store when another has
   installed the job since.  Nothing in the code rules this out; the properties
   that say "while no install is late" fail without it. *)
NoLateInstall ==
    \A r \in Requesters : Stands(r, "install") => mem[request[r].job].state = "absent"

(* A worker inside process_job: it holds the lease, or is driving a stage. *)
InsideProcessJob(w) == guard[w] \/ pc[w] \in TransferLabels \cup {"loop", "reschedule"}

(* "At most one writer per target directory": two workers are never both inside
   process_job for the same directory, whatever jobs name it and however one of
   them ends. *)
OneWriterPerTarget ==
    \A v, w \in Workers :
        v # w /\ InsideProcessJob(v) /\ InsideProcessJob(w)
        => TargetOf[job[v]] # TargetOf[job[w]]

(* commit_transition is "one indivisible step inside the per-job critical
   section": whenever nobody is inside it, memory and disk agree, while no
   install is late. *)
MemoryMatchesStore ==
    \A j \in JobIds :
        serial[j] = NoThread /\ mem[j].state # "absent"
        => /\ mem[j].state = rows[j].state /\ mem[j].desired = rows[j].desired
           /\ version[j] = rows[j].version

(* AwaitWorkerRelease: a pause that was acknowledged and not taken back leaves
   no worker reading bytes of the job. *)
PausedIsQuiet ==
    \A j \in resting, w \in Workers : pc[w] = "reading" => job[w] # j

(* A finished job's files are closed: cancel waits for the worker, and no worker
   reads for a job whose row is terminal. *)
TerminalIsQuiet ==
    \A w \in Workers : pc[w] = "reading" => ~IsTerminal(job[w])

(* cancel answers Ok only for a job that is durably cancelled. *)
CancelAcked ==
    \A c \in Clients : pc[c] = "acked" /\ call[c] = "cancel" => rows[job[c]].state = "cancelled"

(* Only a user's cancel cancels: an interrupt raised because the device left or
   started to capture never ends a job in `cancelled`.  It does not hold where
   somebody else clears the reason a worker is about to read: a pause, or a
   worker whose panic could not be stored. *)
NoUnrequestedCancel ==
    \A j \in JobIds : rows[j].state \in {"cancelling", "cancelled"} => j \in asked

-----------------------------------------------------------------------------
(* The rows, seen as the abstract lifecycle. *)
Lifecycle == INSTANCE JobLifecycle WITH
    Jobs     <- JobIds,
    state    <- [j \in JobIds |-> rows[j].state],
    revision <- [j \in JobIds |-> rows[j].version],
    intent   <- [j \in JobIds |-> rows[j].desired],
    outcome  <- [j \in JobIds |-> [outcome |-> outbox[j].outcome,
                                   version |-> outbox[j].version]]

(* The store accepts any non-terminal state a caller commits; it is the reducer,
   the serial lock and the version check that keep every durable step on a legal
   edge.  The coordinator, restarts, enqueues and retries included, implements the
   lifecycle, while no install is late: a job's older snapshot put back in the
   map lets a tick commit `preparing` over a row that is further on. *)
ImplementsLifecycle == Lifecycle!LifecycleSpec

-----------------------------------------------------------------------------
(* Fairness: the operating system runs every thread, and a thread that keeps
   trying to enter a job's critical section gets in; a fault, a device change or
   a restart is never owed. *)
Fairness ==
    /\ \A t \in Threads : WF_vars(ApplyStep(t)) /\ SF_vars(EnterSerial(t))
    /\ \A t \in Threads : SF_vars(EnterSerialAgain(t))
    /\ \A w \in Workers : WF_vars(WorkerStep(w))
    /\ \A k \in Tickers : WF_vars(TickerStep(k))
    /\ \A c \in Clients : WF_vars(FinalizeCancel(c) \/ EndCommand(c))
    /\ \A r \in Requesters : WF_vars(Spawn(r) \/ Look(r) \/ Install(r) \/ Offer(r))

FairSpec == Spec /\ Fairness

(* A job that is meant to run on a device that stays ready is finished. *)
JobFinishes ==
    \A j \in JobIds :
        <>[](Present(j) /\ device = "ready" /\ rows[j].desired = "run") => <>IsTerminal(j)

(* Every command returns to its caller: no thread waits for one that waits for
   it. *)
CommandReturns == \A c \in Clients : pc[c] = "lock" ~> pc[c] = "idle"

(* A job that is being cancelled is eventually done, whatever the device does,
   unless the process is stopping: the dispatcher "re-pushes every non-terminal,
   currently-inactive job". *)
CancellingEnds ==
    \A j \in JobIds :
        rows[j].state = "cancelling" ~> IsTerminal(j) \/ phase # "running"

=============================================================================
