---------------------------- MODULE JobRegistry ----------------------------
(***************************************************************************)
(* Which download jobs exist: the rows of the store, the coordinator's     *)
(* maps of them in memory, and the commands that add and remove jobs.      *)
(*                                                                         *)
(*   row      transfer_jobs with its lineage and acknowledgement           *)
(*   jobs     CoordinatorInner.jobs: the state published, or none          *)
(*   control  the jobs with an entry in CoordinatorInner.controls          *)
(*   cell     CoordinatorInner.cells: the version held, 0 when no entry    *)
(*   ready    the work queue                                               *)
(*   active   the jobs a worker holds                                      *)
(*   th       one record per thread that runs a command                    *)
(*   used     how often each bounded event has happened                    *)
(*                                                                         *)
(* Every map has a mutex of its own, so a command that touches three maps  *)
(* is three steps.  What a worker does between claiming a job and ending   *)
(* it is TransferCoordinator's subject: here a job that no worker holds is *)
(* queued and one that is being worked on is transferring.                 *)
(***************************************************************************)
EXTENDS JobAggregate, FiniteSetsExt

CONSTANTS Callers,   \* threads of the blocking pool, each running one command
          Poll,      \* the poll loop, which retires what has succeeded
          Sessions,  \* (device, session, revision) identities
          Plans,     \* request digests
          MaxJobs,   \* bound of the rows ever created
          Budget     \* bound of each event: commands, faults, crashes

ASSUME RegistryConstants == Poll \notin Callers /\ MaxJobs \in Nat

VARIABLES row, jobs, control, cell, ready, active, th, used

maps == <<jobs, control, cell>>
work == <<ready, active>>
registryVars == <<row, maps, work, th, used>>

Ids == 1..MaxJobs
Threads == Callers \cup {Poll}
Live == {"queued", "transferring"}
Absent == [state |-> "none", version |-> 0, session |-> "none", plan |-> "none",
           acked |-> FALSE, gone |-> FALSE, parent |-> 0]
Idle == [pc |-> "idle", job |-> 0, seen |-> "none", version |-> 0, gate |-> FALSE]

Exists(j) == row[j].state # "none"
Goto(t, label) == th' = [th EXCEPT ![t].pc = label]
Spend(event) ==
    /\ used[event] < Budget[event]
    /\ used' = [used EXCEPT ![event] = @ + 1]

RegistryInit ==
    /\ row = [j \in Ids |-> Absent]
    /\ jobs = [j \in Ids |-> "none"] /\ control = {} /\ cell = [j \in Ids |-> 0]
    /\ ready = {} /\ active = {}
    /\ th = [t \in Threads |-> Idle]
    /\ used = [e \in DOMAIN Budget |-> 0]

-----------------------------------------------------------------------------
(* Enqueueing a download.                                                  *)

(* Ids are handed out in the order rows are created.                       *)
Unused == {j \in Ids : ~Exists(j)}
NewRow(s, p, parent) ==
    [Absent EXCEPT !.state = "queued", !.version = 1, !.session = s, !.plan = p,
                   !.parent = parent]
OfSession(s) == {j \in Ids : Exists(j) /\ row[j].session = s}

(* What the thread takes from the store: the job, its state and version.   *)
Takes(t, label, j, gate) ==
    th' = [th EXCEPT ![t] = [pc |-> label, job |-> j, seen |-> row'[j].state,
                             version |-> row'[j].version, gate |-> gate]]

(* library_root_gate is held to the end of the command.                    *)
GateFree == \A c \in Callers : ~th[c].gate

enqueue(c, s, p) ==
    /\ th[c].pc = "idle" /\ GateFree /\ Spend("commands")
    /\ IF OfSession(s) = {}
       THEN /\ Unused # {}
            /\ row' = [row EXCEPT ![Min(Unused)] = NewRow(s, p, 0)]
            /\ Takes(c, "jobs", Min(Unused), TRUE)
       ELSE LET latest == Max(OfSession(s))
            IN  /\ UNCHANGED row
                /\ IF row[latest].plan = p THEN Takes(c, "look", latest, TRUE)
                                           ELSE UNCHANGED th
    /\ UNCHANGED <<maps, work>>

Installs(t) == jobs[th[t].job] = "none" /\ th[t].seen \in Live \cup Failures

contains_key(t) ==
    /\ th[t].pc = "look"
    /\ IF Installs(t) THEN Goto(t, "jobs") ELSE th' = [th EXCEPT ![t] = Idle]
    /\ UNCHANGED <<row, maps, work, used>>

insert_job(t) ==
    /\ th[t].pc = "jobs"
    /\ jobs' = [jobs EXCEPT ![th[t].job] = th[t].seen]
    /\ Goto(t, "control")
    /\ UNCHANGED <<row, control, cell, work, used>>

insert_control(t) ==
    /\ th[t].pc = "control"
    /\ control' = control \cup {th[t].job}
    /\ Goto(t, "cell")
    /\ UNCHANGED <<row, jobs, cell, work, used>>

(* or_insert_with: a cell that is there keeps its version.                 *)
insert_cell(t) ==
    /\ th[t].pc = "cell"
    /\ LET j == th[t].job
       IN  /\ cell' = [cell EXCEPT ![j] = IF @ = 0 THEN th[t].version ELSE @]
           /\ ready' = IF th[t].seen \in Live THEN ready \cup {j} ELSE ready
    /\ th' = [th EXCEPT ![t] = Idle]
    /\ UNCHANGED <<row, jobs, control, active, used>>

-----------------------------------------------------------------------------
(* Retrying a failed download.                                             *)

retry(c, j) ==
    /\ th[c].pc = "idle" /\ Spend("commands")
    /\ jobs[j] = "failed_retryable" /\ j \in control /\ cell[j] # 0
    /\ th' = [th EXCEPT ![c] = [Idle EXCEPT !.pc = "spawn", !.job = j]]
    /\ UNCHANGED <<row, maps, work>>

Children(j) == {k \in Ids : Exists(k) /\ row[k].parent = j}
LiveChildren(j) == {k \in Children(j) : k = Max(Children(j)) /\ row[k].state \in Live}

spawn_retry_job(c) ==
    /\ th[c].pc = "spawn"
    /\ LET j == th[c].job
       IN  IF row[j].gone \/ ~row[j].acked
           THEN /\ th' = [th EXCEPT ![c] = Idle]
                /\ UNCHANGED row
           ELSE IF LiveChildren(j) # {}
           THEN UNCHANGED row /\ Takes(c, "look", Max(Children(j)), FALSE)
           ELSE /\ Unused # {}
                /\ row' = [row EXCEPT ![Min(Unused)] = NewRow(row[j].session, row[j].plan, j)]
                /\ Takes(c, "look", Min(Unused), FALSE)
    /\ UNCHANGED <<maps, work, used>>

-----------------------------------------------------------------------------
(* Clearing a finished download.                                           *)

validate_dismissal(j) == jobs[j] \in Terminal /\ row[j].acked

dismiss_transfer_job(c, j) ==
    /\ th[c].pc = "idle" /\ Spend("commands")
    /\ validate_dismissal(j)
    /\ th' = [th EXCEPT ![c] = [Idle EXCEPT !.pc = "hide", !.job = j]]
    /\ UNCHANGED <<row, maps, work>>

(* The poll loop retires a delivered success: the job in memory, or only   *)
(* its row when memory no longer has it.                                   *)
retire_successful_download(j) ==
    /\ th[Poll].pc = "idle"
    /\ row[j].state = "succeeded" /\ row[j].acked /\ ~row[j].gone
    /\ jobs[j] \in {"succeeded", "none"}
    /\ th' = [th EXCEPT ![Poll] = [Idle EXCEPT !.pc = "hide", !.job = j, !.seen = jobs[j]]]
    /\ UNCHANGED <<row, maps, work, used>>

dismiss_job(t) ==
    /\ th[t].pc = "hide"
    /\ row' = [row EXCEPT ![th[t].job].gone = TRUE]
    /\ IF t = Poll /\ th[t].seen = "none" THEN th' = [th EXCEPT ![t] = Idle]
                                          ELSE Goto(t, "unhook")
    /\ UNCHANGED <<maps, work, used>>

(* dismiss_runtime checks again, and waits for the worker to let go.       *)
dismiss_runtime(t) ==
    /\ th[t].pc = "unhook"
    /\ LET j == th[t].job
       IN  IF validate_dismissal(j) /\ j \in control /\ cell[j] # 0
           THEN j \notin active /\ Goto(t, "rmjob")
           ELSE th' = [th EXCEPT ![t] = Idle]
    /\ UNCHANGED <<row, maps, work, used>>

remove_job(t) ==
    /\ th[t].pc = "rmjob"
    /\ jobs' = [jobs EXCEPT ![th[t].job] = "none"]
    /\ Goto(t, "rmcontrol")
    /\ UNCHANGED <<row, control, cell, work, used>>

remove_control(t) ==
    /\ th[t].pc = "rmcontrol"
    /\ control' = control \ {th[t].job}
    /\ Goto(t, "rmcell")
    /\ UNCHANGED <<row, jobs, cell, work, used>>

remove_cell(t) ==
    /\ th[t].pc = "rmcell"
    /\ cell' = [cell EXCEPT ![th[t].job] = 0]
    /\ th' = [th EXCEPT ![t] = Idle]
    /\ UNCHANGED <<row, jobs, control, work, used>>

-----------------------------------------------------------------------------
(* Workers, the tick, delivery and restart.                                *)

(* transition_job and complete_job refuse another version and a finished   *)
(* row.  Mutant: only the version is compared.                             *)
VersionFits(j) == cell[j] = row[j].version
CommitFits(j) == cell[j] = row[j].version /\ row[j].state \in Live

commit_transition(j, to) ==
    /\ row' = [row EXCEPT ![j].state = to, ![j].version = @ + 1]
    /\ jobs' = [jobs EXCEPT ![j] = to]
    /\ cell' = [cell EXCEPT ![j] = @ + 1]

(* worker_loop: the notification is taken, and dropped when another worker *)
(* has the job.                                                            *)
Claim(j) ==
    /\ j \in ready
    /\ ready' = ready \ {j}
    /\ IF j \notin active /\ jobs[j] \in Live /\ j \in control /\ CommitFits(j)
       THEN active' = active \cup {j} /\ commit_transition(j, "transferring")
       ELSE UNCHANGED <<active, row, jobs, cell>>
    /\ UNCHANGED <<control, th, used>>

(* The stage reports of a worker are refused when the job it holds is not  *)
(* where it left it.                                                       *)
Finish(j, outcome) ==
    /\ j \in active /\ jobs[j] = "transferring" /\ CommitFits(j)
    /\ commit_transition(j, outcome)
    /\ UNCHANGED <<control, work, th, used>>

Park(j) ==
    /\ j \in active /\ jobs[j] = "transferring" /\ CommitFits(j)
    /\ Spend("faults")
    /\ commit_transition(j, "queued")
    /\ UNCHANGED <<control, work, th>>

Release(j) ==
    /\ j \in active /\ jobs[j] # "transferring"
    /\ active' = active \ {j}
    /\ UNCHANGED <<row, maps, ready, th, used>>

(* Mutant: only a job that has never run is offered.                       *)
NeverRun == {j \in Ids : jobs[j] = "queued" /\ j \notin active /\ cell[j] = 1}
Offered == {j \in Ids : jobs[j] = "queued" /\ j \notin active}

tick ==
    /\ ready' = ready \cup Offered
    /\ UNCHANGED <<row, maps, active, th, used>>

acknowledge_completion(j) ==
    /\ row[j].state \in Terminal /\ ~row[j].acked
    /\ row' = [row EXCEPT ![j].acked = TRUE]
    /\ UNCHANGED <<maps, work, th, used>>

(* Mutant: a job that was being worked on is not taken up again.           *)
RecoverableQueued == {j \in Ids : row[j].state = "queued"}
list_recoverable_jobs == {j \in Ids : row[j].state \in Live}

Restart ==
    /\ Spend("crashes")
    /\ LET again == list_recoverable_jobs
       IN  /\ jobs' = [j \in Ids |-> IF j \in again THEN row[j].state ELSE "none"]
           /\ control' = again
           /\ cell' = [j \in Ids |-> IF j \in again THEN row[j].version ELSE 0]
           /\ ready' = again
    /\ active' = {}
    /\ th' = [t \in Threads |-> Idle]
    /\ UNCHANGED row

Outcomes == {"succeeded", "failed_retryable", "failed_final"}

Thread(t) ==
    \/ contains_key(t) \/ insert_job(t) \/ insert_control(t) \/ insert_cell(t)
    \/ spawn_retry_job(t)
    \/ dismiss_job(t) \/ dismiss_runtime(t)
    \/ remove_job(t) \/ remove_control(t) \/ remove_cell(t)

UserCommand(c) ==
    \/ \E s \in Sessions, p \in Plans : enqueue(c, s, p)
    \/ \E j \in Ids : retry(c, j) \/ dismiss_transfer_job(c, j)

Worker(j) ==
    \/ Claim(j) \/ Release(j) \/ Park(j)
    \/ \E outcome \in Outcomes : Finish(j, outcome)

RegistryNext ==
    \/ \E c \in Callers : UserCommand(c)
    \/ \E t \in Threads : Thread(t)
    \/ \E j \in Ids : Worker(j) \/ acknowledge_completion(j) \/ retire_successful_download(j)
    \/ tick
    \/ Restart

RegistrySpec == RegistryInit /\ [][RegistryNext]_registryVars

(* A command that has begun goes on, the poll loop ticks, and a worker     *)
(* that has a job ends it.                                                 *)
RegistryFairSpec ==
    /\ RegistrySpec
    /\ \A t \in Threads : WF_registryVars(Thread(t))
    /\ WF_registryVars(tick)
    /\ \A j \in Ids : /\ WF_registryVars(Claim(j)) /\ WF_registryVars(Release(j))
                     /\ WF_registryVars(\E outcome \in Outcomes : Finish(j, outcome))

-----------------------------------------------------------------------------
Busy(j) == \E t \in Threads : th[t].job = j

Statuses == Live \cup Terminal \cup {"none"}
JobRow == [state : Statuses, version : Nat, session : Sessions \cup {"none"},
           plan : Plans \cup {"none"}, acked : BOOLEAN, gone : BOOLEAN, parent : Ids \cup {0}]
Labels == {"idle", "look", "jobs", "control", "cell", "spawn", "hide", "unhook", "rmjob",
           "rmcontrol", "rmcell"}
ThreadState == [pc : Labels, job : Ids \cup {0}, seen : Statuses, version : Nat, gate : BOOLEAN]

(* Type correctness.                                                       *)
RegistryTypeOK ==
    /\ row \in [Ids -> JobRow] /\ jobs \in [Ids -> Statuses] /\ cell \in [Ids -> Nat]
    /\ control \subseteq Ids /\ ready \subseteq Ids /\ active \subseteq Ids
    /\ th \in [Threads -> ThreadState]
    /\ used \in [DOMAIN Budget -> Nat]

(* A job still to run is known to the coordinator, and queued for a worker *)
(* or held by one unless the next tick will offer it: no job accepted from *)
(* the user is forgotten.                                                  *)
LiveIsRegistered ==
    \A j \in Ids : row[j].state \in Live /\ ~Busy(j) =>
        /\ jobs[j] # "none"
        /\ jobs[j] = "transferring" => j \in ready \cup active

(* Every job ends, whatever commands cross it: a job that a second command *)
(* has put back to queued in memory while its worker was at it is taken up *)
(* again.                                                                  *)
EveryJobEnds == \A j \in Ids : row[j].state \in Live ~> row[j].state \in Terminal

(* A finished job is never run again: not by a retry that finds it, not by *)
(* a second download of its session, not after a restart.                  *)
FinishedStaysFinished ==
    [][\A j \in Ids : row[j].state \in Terminal => row'[j].state = row[j].state]_registryVars

(* Once every job of a session has been cleared, a new download of it is   *)
(* not refused for what an old one asked for.                              *)
ClearedMakesRoom ==
    [][\A c \in Callers, s \in Sessions, p \in Plans :
          enqueue(c, s, p) /\ (\A j \in OfSession(s) : row[j].gone /\ jobs[j] = "none")
              => th'[c].pc = "jobs"]_registryVars

=============================================================================
