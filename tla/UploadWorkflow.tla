--------------------------- MODULE UploadWorkflow ---------------------------
(***************************************************************************)
(* Uploading one library entry to the object store: the durable upload     *)
(* tables, the operation lease of the entry, the command that starts an    *)
(* upload, the worker it spawns, cancelling, the delivery of outcomes to   *)
(* the library, a crash and the startup reconciliation.                    *)
(*                                                                         *)
(* Threads meet in the transfer store (one SQLite transaction per step),   *)
(* in the application state (the library row, under one mutex) and in the  *)
(* map of upload operations.  Everything else is local to a thread.        *)
(*                                                                         *)
(*   job       upload rows of transfer_jobs with their spec and lineage    *)
(*   outbox    completion outbox: none, pending or acked                   *)
(*   receipts  per job, the multipart whose object was verified, by object *)
(*   rows      transfer_uploads: the multiparts the store knows of         *)
(*   confirmed progress of a job's activity row                            *)
(*   lease     operation lease of the entry                                *)
(*   lib       the entry's library row                                     *)
(*   conf      the configured destination, part of the input digest        *)
(*   ops       upload operations in memory                                 *)
(*   remote    the object store: what became of each multipart             *)
(*   objects   the object store: what each object key holds                *)
(*   tracked   multiparts that had a row once (history)                    *)
(*   cl        one record per command thread                               *)
(*   wk        one record per worker, named by its job                     *)
(*   dv        one record per thread that delivers outcomes                *)
(*   fresh     deliverers whose library snapshot is still current          *)
(*   sweep     rows the startup thread still has to abort                  *)
(*   used      how often each budgeted event has happened                  *)
(***************************************************************************)
EXTENDS Naturals, FiniteSetsExt, Sequences

CONSTANTS
    Jobs, NoJob,     \* job ids, and the absence of one
    UploadIds, NoUp, \* multipart ids the object store may hand out
    Clients, Poll,   \* command threads and the application's poll thread
    NumObjects,      \* objects of the entry, uploaded in this order
    NumData,         \* the first of them are files, the rest evidence
    Budget,          \* bound of each event: starts, cancels, faults, crashes, edits
    MaxTrouble,      \* bound of all of them together, starts apart
    Versioned        \* whether the bucket keeps versions of an object

VARIABLES job, outbox, receipts, rows, confirmed, lease, lib, conf, ops,
          remote, objects, tracked, cl, wk, dv, fresh, sweep, used

store == <<job, outbox, receipts, rows, confirmed>>
memory == <<ops, cl, wk, dv, fresh, sweep>>
vars == <<store, lease, lib, conf, remote, objects, tracked, memory, used>>

ASSUME UploadConstants ==
    /\ NoJob \notin Jobs
    /\ UploadIds \subseteq Nat
    /\ NoUp \notin UploadIds
    /\ Poll \notin Clients \cup Jobs
    /\ Clients \cap Jobs = {}
    /\ NumObjects \in Nat \ {0}
    /\ NumData \in 0..NumObjects
    /\ Versioned \in BOOLEAN

Objects == 1..NumObjects
Destinations == 1..2
Threads == Clients \cup Jobs \cup {Poll}
Terminal == {"succeeded", "failed_retryable", "failed_final", "cancelled"}
Live == {"queued", "preparing"}
NoRow == [state |-> "none"]
Free == [by |-> NoJob, kind |-> "free"]
IdleClient == [pc |-> "idle", job |-> NoJob, version |-> 0, new |-> FALSE,
               rev |-> 0, conf |-> 1, give |-> NoJob]
IdleWorker == [pc |-> "idle", version |-> 0, obj |-> 1, up |-> NoUp, result |-> "ok"]
IdleDelivery == [pc |-> "idle", todo |-> {}, at |-> NoJob]

Trouble == MapThenSumSet(LAMBDA e : used[e], DOMAIN Budget \ {"starts"})
Spend(event) ==
    /\ used[event] < Budget[event]
    /\ event # "starts" => Trouble < MaxTrouble
    /\ used' = [used EXCEPT ![event] = @ + 1]

IsRow(j) == job[j] # NoRow
IsLive(j) == IsRow(j) /\ job[j].state \in Live
IsTerminal(j) == IsRow(j) /\ job[j].state \in Terminal
ChildrenOf(p) == {j \in Jobs : IsRow(j) /\ job[j].parent = p}

NewJob(rev, digest, parent) ==
    [state |-> "queued", version |-> 1, rev |-> rev, digest |-> digest,
     parent |-> parent, dismissed |-> FALSE]

UploadInit ==
    /\ job = [j \in Jobs |-> NoRow]
    /\ outbox = [j \in Jobs |-> "none"]
    /\ receipts = [j \in Jobs |-> [o \in Objects |-> NoUp]]
    /\ rows = [u \in UploadIds |-> NoRow]
    /\ confirmed = [j \in Jobs |-> 0]
    /\ lease = Free
    /\ lib = [rev |-> 1, status |-> "none", marker |-> NoJob]
    /\ conf = 1
    /\ ops = [j \in Jobs |-> "none"]
    /\ remote = [u \in UploadIds |-> "unused"]
    /\ objects = [key \in Destinations \X Objects |-> [rev |-> 0, late |-> FALSE]]
    /\ tracked = {}
    /\ cl = [c \in Clients |-> IdleClient]
    /\ wk = [j \in Jobs |-> IdleWorker]
    /\ dv = [t \in Threads |-> IdleDelivery]
    /\ fresh = {}
    /\ sweep = {}
    /\ used = [e \in DOMAIN Budget |-> 0]

-----------------------------------------------------------------------------
(* The upload tables: what each transaction reads and writes.              *)

CheckedLive(j, version) == IsLive(j) /\ job[j].version = version

Completed(j, outcome) ==
    /\ job' = [job EXCEPT ![j].state = outcome, ![j].version = @ + 1]
    /\ outbox' = [outbox EXCEPT ![j] = "pending"]

(* The job of this entry and revision that create_upload_job finds: the    *)
(* first one inserted, which is the one without a parent.                  *)
RootOf(rev) == {j \in Jobs : IsRow(j) /\ job[j].rev = rev /\ job[j].parent = NoJob}

ProgressFits(j, bytes) == confirmed[j] + bytes <= NumData

RetryAllowed(p) ==
    /\ ~job[p].dismissed
    /\ job[p].state \in {"failed_retryable", "cancelled"}
    /\ outbox[p] = "acked"
    /\ \A k \in ChildrenOf(p) : job[k].state # "succeeded"

RepeatAllowed(p, digest) ==
    /\ outbox[p] = "acked"
    /\ \/ job[p].state = "succeeded"
       \/ /\ job[p].state \in Terminal
          /\ job[p].digest # digest \/ job[p].dismissed
    /\ \A k \in ChildrenOf(p) : IsLive(k) => job[k].digest = digest

LiveChild(p) == {k \in ChildrenOf(p) : IsLive(k)}

-----------------------------------------------------------------------------
(* Starting an upload.  upload_entry takes the lease of the entry, creates *)
(* or finds the job, moves it to preparing, claims the operation in        *)
(* memory, marks the library row and spawns the worker.                    *)

Goto(c, label) == cl' = [cl EXCEPT ![c].pc = label]

upload_entry(c) ==
    /\ cl[c].pc = "idle" /\ dv[c].pc = "idle"
    /\ Spend("starts")
    /\ cl' = [cl EXCEPT ![c] = [IdleClient EXCEPT
                !.pc = "lease", !.rev = lib.rev, !.conf = conf]]
    /\ UNCHANGED <<store, lease, lib, conf, remote, objects, tracked, ops, wk, dv, fresh, sweep>>

retry_transfer(c, p) ==
    /\ cl[c].pc = "idle" /\ dv[c].pc = "idle"
    /\ IsRow(p)
    /\ Spend("starts")
    /\ cl' = [cl EXCEPT ![c] = [IdleClient EXCEPT
                !.pc = "lease", !.job = p, !.conf = conf]]
    /\ UNCHANGED <<store, lease, lib, conf, remote, objects, tracked, ops, wk, dv, fresh, sweep>>

acquire_upload_lease(c) ==
    /\ cl[c].pc = "lease"
    /\ IF lease = Free
       THEN /\ lease' = [by |-> c, kind |-> "command"]
            /\ Goto(c, IF cl[c].job = NoJob THEN "create" ELSE "retry")
       ELSE /\ cl' = [cl EXCEPT ![c] = IdleClient]
            /\ UNCHANGED lease
    /\ UNCHANGED <<store, lib, conf, remote, objects, tracked, ops, wk, dv, fresh, sweep, used>>

release_upload_lease(c) ==
    /\ cl[c].pc = "release"
    /\ lease' = Free
    /\ cl' = [cl EXCEPT ![c] = IdleClient]
    /\ UNCHANGED <<store, lib, conf, remote, objects, tracked, ops, wk, dv, fresh, sweep, used>>

(* A job that the command goes on with, as it was read.                    *)
With(c, j, row, new) ==
    cl' = [cl EXCEPT ![c].job = j, ![c].version = row.version, ![c].new = new,
             ![c].pc = CASE row.state = "queued" -> "start"
                         [] row.state = "preparing" -> "claim"
                         [] OTHER -> "child"]

create_upload_job(c) ==
    /\ cl[c].pc = "create"
    /\ LET rev == cl[c].rev
           digest == <<rev, cl[c].conf>>
       IN  \/ \E j \in RootOf(rev) :
                /\ IF job[j].digest = digest \/ IsTerminal(j)
                   THEN With(c, j, job[j], FALSE)
                   ELSE Goto(c, "release")
                /\ UNCHANGED job
           \/ /\ RootOf(rev) = {}
              /\ \E j \in Jobs : IsLive(j)
              /\ Goto(c, "release")
              /\ UNCHANGED job
           \/ /\ RootOf(rev) = {}
              /\ \A j \in Jobs : ~IsLive(j)
              /\ \E j \in Jobs :
                    /\ ~IsRow(j)
                    /\ job' = [job EXCEPT ![j] = NewJob(rev, digest, NoJob)]
                    /\ With(c, j, NewJob(rev, digest, NoJob), TRUE)
    /\ UNCHANGED <<outbox, receipts, rows, confirmed, lease, lib, conf, remote,
                   objects, tracked, ops, wk, dv, fresh, sweep, used>>

(* The mode is repeat for a success, retry for the same input, supersede   *)
(* otherwise.  A user's retry of a failed job is always mode retry.        *)
ChildAllowed(c, p, digest) ==
    IF \/ job[p].state = "succeeded"
       \/ cl[c].pc = "child" /\ (job[p].dismissed \/ job[p].digest # <<job[p].rev, cl[c].conf>>)
    THEN job[p].state \in Terminal /\ RepeatAllowed(p, digest)
    ELSE job[p].digest = digest /\ RetryAllowed(p)

start_upload_child(c) ==
    /\ cl[c].pc \in {"child", "retry"}
    /\ LET p == cl[c].job
           digest == <<lib.rev, cl[c].conf>>
           child == NewJob(job[p].rev, digest, p)
       IN  \/ /\ ~ChildAllowed(c, p, digest)
              /\ Goto(c, "release")
              /\ UNCHANGED job
           \/ /\ ChildAllowed(c, p, digest)
              /\ \E k \in LiveChild(p) :
                    cl' = [cl EXCEPT ![c].job = k, ![c].version = job[k].version,
                             ![c].new = FALSE, ![c].rev = lib.rev,
                             ![c].pc = IF job[k].state = "queued" THEN "start" ELSE "claim"]
              /\ UNCHANGED job
           \/ /\ ChildAllowed(c, p, digest)
              /\ LiveChild(p) = {}
              /\ \E k \in Jobs :
                    /\ ~IsRow(k)
                    /\ job' = [job EXCEPT ![k] = child]
                    /\ cl' = [cl EXCEPT ![c].job = k, ![c].version = 1, ![c].new = TRUE,
                                ![c].rev = lib.rev, ![c].pc = "start"]
    /\ UNCHANGED <<outbox, receipts, rows, confirmed, lease, lib, conf, remote,
                   objects, tracked, ops, wk, dv, fresh, sweep, used>>

start_upload_job(c) ==
    /\ cl[c].pc = "start"
    /\ LET j == cl[c].job
       IN  \/ /\ CheckedLive(j, cl[c].version)
              /\ job' = [job EXCEPT ![j].state = "preparing", ![j].version = @ + 1]
              /\ cl' = [cl EXCEPT ![c].version = @ + 1, ![c].pc = "claim"]
           \/ /\ ~CheckedLive(j, cl[c].version)
              /\ CASE cl[c].new -> Goto(c, "undo")
                   [] ~cl[c].new /\ job[j].parent = NoJob -> With(c, j, job[j], FALSE)
                   [] OTHER -> Goto(c, "release")
              /\ UNCHANGED job
    /\ UNCHANGED <<outbox, receipts, rows, confirmed, lease, lib, conf, remote,
                   objects, tracked, ops, wk, dv, fresh, sweep, used>>

ActiveOps == {j \in Jobs : ops[j] \in {"running", "cancelling"}}

begin_upload_operation(c) ==
    /\ cl[c].pc = "claim"
    /\ \/ /\ ActiveOps = {}
          /\ ops' = [ops EXCEPT ![cl[c].job] = "running"]
          /\ Goto(c, "mark")
          /\ UNCHANGED lease
       \/ \E k \in ActiveOps :
            /\ IF cl[c].new
               THEN /\ cl' = [cl EXCEPT ![c].pc = "undo",
                                ![c].give = IF job[k].rev = job[cl[c].job].rev THEN k ELSE NoJob]
                    /\ UNCHANGED lease
               ELSE IF job[k].rev = job[cl[c].job].rev
                    THEN /\ lease' = [by |-> k, kind |-> "reaper"]
                         /\ cl' = [cl EXCEPT ![c] = IdleClient]
                    ELSE Goto(c, "release") /\ UNCHANGED lease
            /\ UNCHANGED ops
    /\ UNCHANGED <<store, lib, conf, remote, objects, tracked, wk, dv, fresh, sweep, used>>


(* spawn_upload_worker: the row must still be the one that was read.       *)
spawn_upload_worker(c) ==
    /\ cl[c].pc = "mark"
    /\ LET j == cl[c].job
       IN  \/ /\ lib.rev = cl[c].rev
              /\ lib' = [lib EXCEPT !.status = "uploading"]
              /\ fresh' = {}
              /\ wk' = [wk EXCEPT ![j] = [IdleWorker EXCEPT
                          !.pc = "check", !.version = cl[c].version]]
              /\ lease' = [by |-> j, kind |-> "reaper"]
              /\ cl' = [cl EXCEPT ![c] = IdleClient]
              /\ UNCHANGED used
           \/ /\ lib.rev # cl[c].rev
              /\ Goto(c, "undo_claimed")
              /\ UNCHANGED <<lib, fresh, wk, lease, used>>
           \/ /\ lib.rev = cl[c].rev
              /\ Spend("faults")
              /\ Goto(c, IF cl[c].new THEN "undo_claimed" ELSE "unclaim")
              /\ UNCHANGED <<lib, fresh, wk, lease>>
    /\ UNCHANGED <<store, conf, remote, objects, tracked, ops, dv, sweep>>

compensate_new_upload_job(c) ==
    /\ cl[c].pc \in {"undo", "undo_claimed"}
    /\ IF CheckedLive(cl[c].job, cl[c].version)
       THEN Completed(cl[c].job, "cancelled")
       ELSE UNCHANGED <<job, outbox>>
    /\ IF cl[c].give = NoJob
       THEN /\ Goto(c, IF cl[c].pc = "undo" THEN "release" ELSE "unclaim")
            /\ UNCHANGED lease
       ELSE /\ cl' = [cl EXCEPT ![c] = IdleClient]
            /\ lease' = [by |-> cl[c].give, kind |-> "reaper"]
    /\ UNCHANGED <<receipts, rows, confirmed, lib, conf, remote, objects, tracked, ops, wk,
                   dv, fresh, sweep, used>>

clear_upload_operation(c) ==
    /\ cl[c].pc = "unclaim"
    /\ ops' = [ops EXCEPT ![cl[c].job] = "none"]
    /\ Goto(c, "release")
    /\ UNCHANGED <<store, lease, lib, conf, remote, objects, tracked, wk, dv, fresh, sweep, used>>

(* The reaper polls until the job is terminal, and gives up after a while. *)
spawn_upload_lease_reaper ==
    /\ lease.kind = "reaper"
    /\ IF IsTerminal(lease.by)
       THEN lease' = Free
       ELSE lease' = [lease EXCEPT !.kind = "expired"]
    /\ IF IsTerminal(lease.by) THEN UNCHANGED used ELSE Spend("expiries")
    /\ UNCHANGED <<store, lib, conf, remote, objects, tracked, memory>>

-----------------------------------------------------------------------------
(* The worker: for each object check, initiate, track, send and record the *)
(* part, complete, verify, stage the receipt, retire the row.              *)

At(j, label) == wk[j].pc = label
Step(j, label) == wk' = [wk EXCEPT ![j].pc = label]
Fail(j, label, result) == wk' = [wk EXCEPT ![j].pc = label, ![j].result = result]
Cancelled(j) == ops[j] = "cancelling" \/ (ops[j] = "committed_cancelled")

check_cancelled(j) ==
    /\ wk[j].pc \in {"check", "check_part", "check_complete"}
    /\ IF Cancelled(j)
       THEN Fail(j, IF At(j, "check") THEN "settle" ELSE "mark_aborting", "cancelled")
       ELSE Step(j, CASE At(j, "check") /\ wk[j].obj > NumObjects -> "settle"
                      [] At(j, "check") /\ wk[j].obj <= NumObjects -> "initiate"
                      [] At(j, "check_part") -> "part"
                      [] OTHER -> "complete")
    /\ UNCHANGED <<store, lease, lib, conf, remote, objects, tracked, ops, cl, dv, fresh, sweep, used>>

initiate_multipart_upload(j) ==
    /\ At(j, "initiate")
    /\ \/ \E u \in UploadIds :
            /\ remote[u] = "unused"
            /\ \A v \in UploadIds : remote[v] = "unused" => u <= v
            /\ remote' = [remote EXCEPT ![u] = "open"]
            /\ wk' = [wk EXCEPT ![j].pc = "track", ![j].up = u]
            /\ UNCHANGED used
       \/ /\ Spend("faults")
          /\ Fail(j, "settle", "failed_retryable")
          /\ UNCHANGED remote
    /\ UNCHANGED <<store, lease, lib, conf, objects, tracked, ops, cl, dv, fresh, sweep>>

(* begin_upload_for_job.  A refused row is answered by an abort whose own  *)
(* result is ignored.                                                      *)
track_multipart(j) ==
    /\ At(j, "track")
    /\ LET u == wk[j].up
       IN  IF CheckedLive(j, wk[j].version)
           THEN /\ rows' = [rows EXCEPT ![u] =
                              [job |-> j, obj |-> wk[j].obj, desired |-> "running", parts |-> {}]]
                /\ tracked' = tracked \cup {u}
                /\ Step(j, "check_part")
                /\ UNCHANGED remote
           ELSE /\ remote' = [remote EXCEPT ![u] = "aborted"]
                /\ Fail(j, "settle", "failed_final")
                /\ UNCHANGED <<rows, tracked>>
    /\ UNCHANGED <<job, outbox, receipts, confirmed, lease, lib, conf, objects, ops, cl, dv,
                   fresh, sweep, used>>

upload_part(j) ==
    /\ At(j, "part")
    /\ \/ /\ remote[wk[j].up] = "open"
          /\ Step(j, "record")
          /\ UNCHANGED used
       \/ /\ remote[wk[j].up] # "open"
          /\ Fail(j, "mark_aborting", "failed_final")
          /\ UNCHANGED used
       \/ /\ Spend("faults")
          /\ Fail(j, "mark_aborting", "failed_retryable")
    /\ UNCHANGED <<store, lease, lib, conf, remote, objects, tracked, ops, cl, dv, fresh, sweep>>

DataBytes(o) == IF o <= NumData THEN 1 ELSE 0

record_multipart_part(j) ==
    /\ At(j, "record")
    /\ LET u == wk[j].up
           bytes == DataBytes(wk[j].obj)
       IN  \/ /\ CheckedLive(j, wk[j].version)
              /\ rows[u] # NoRow
              /\ ProgressFits(j, bytes)
              /\ rows' = [rows EXCEPT ![u].parts = @ \cup {1}]
              /\ confirmed' = [confirmed EXCEPT ![j] = @ + bytes]
              /\ Step(j, "check_complete")
              /\ UNCHANGED used
           \/ /\ ~(CheckedLive(j, wk[j].version) /\ rows[u] # NoRow /\ ProgressFits(j, bytes))
              /\ Fail(j, "mark_aborting", "failed_final")
              /\ UNCHANGED <<rows, confirmed, used>>
           \/ /\ Spend("faults")
              /\ Fail(j, "mark_aborting", "failed_final")
              /\ UNCHANGED <<rows, confirmed>>
    /\ UNCHANGED <<job, outbox, receipts, lease, lib, conf, remote, objects, tracked, ops, cl,
                   dv, fresh, sweep>>

(* The key of an object has the destination, the device, the session and   *)
(* the file in it, and neither the job nor the revision; the bytes are     *)
(* those of the revision the job was started with.                         *)
upload_object_key(j, o) == <<job[j].digest[2], o>>
Content(j) == job[j].digest[1]

(* A completed multipart replaces what its key held.  It is late when the  *)
(* library shows another revision by then.                                 *)
Landed(j) ==
    objects' = [objects EXCEPT ![upload_object_key(j, wk[j].obj)] =
                  [rev |-> Content(j), late |-> Content(j) # lib.rev]]

(* The answer of a completion may be lost although the object was made.    *)
complete_multipart_upload(j) ==
    /\ At(j, "complete")
    /\ LET u == wk[j].up
       IN  \/ /\ remote[u] = "open"
              /\ remote' = [remote EXCEPT ![u] = "object"]
              /\ Landed(j)
              /\ Step(j, "verify")
              /\ UNCHANGED used
           \/ /\ remote[u] # "open"
              /\ Fail(j, "mark_aborting", "failed_final")
              /\ UNCHANGED <<remote, objects, used>>
           \/ /\ remote[u] = "open"
              /\ Spend("faults")
              /\ \/ UNCHANGED <<remote, objects>>
                 \/ remote' = [remote EXCEPT ![u] = "object"] /\ Landed(j)
              /\ Fail(j, "mark_aborting", "failed_retryable")
    /\ UNCHANGED <<store, lease, lib, conf, tracked, ops, cl, dv, fresh, sweep>>

(* The version this completion made is read back, and in a bucket without  *)
(* versions whatever the key holds: bytes of another writer do not match.  *)
ReadsBack(j) == Versioned \/ objects[upload_object_key(j, wk[j].obj)].rev = Content(j)

verify_completed_object(j) ==
    /\ At(j, "verify")
    /\ \/ ReadsBack(j) /\ Step(j, "stage") /\ UNCHANGED used
       \/ ~ReadsBack(j) /\ Fail(j, "mark_aborting", "failed_final") /\ UNCHANGED used
       \/ Spend("faults") /\ Fail(j, "mark_aborting", "failed_final")
    /\ UNCHANGED <<store, lease, lib, conf, remote, objects, tracked, ops, cl, dv, fresh, sweep>>

(* A receipt of an earlier run of the same job, for another object version, *)
(* is a conflict.                                                          *)
ReceiptFits(j, o, u) == receipts[j][o] \in {NoUp, u}

stage_upload_receipts(j) ==
    /\ At(j, "stage")
    /\ LET u == wk[j].up
           o == wk[j].obj
       IN  \/ /\ ReceiptFits(j, o, u)
              /\ receipts' = [receipts EXCEPT ![j][o] = u]
              /\ Step(j, "retire_row")
              /\ UNCHANGED used
           \/ /\ ~ReceiptFits(j, o, u)
              /\ Fail(j, "mark_aborting", "failed_final")
              /\ UNCHANGED <<receipts, used>>
           \/ /\ Spend("faults")
              /\ Fail(j, "mark_aborting", "failed_final")
              /\ UNCHANGED receipts
    /\ UNCHANGED <<job, outbox, rows, confirmed, lease, lib, conf, remote, objects, tracked, ops,
                   cl, dv, fresh, sweep>>

finish_multipart(j) ==
    /\ At(j, "retire_row")
    /\ \/ /\ rows' = [rows EXCEPT ![wk[j].up] = NoRow]
          /\ wk' = [wk EXCEPT ![j].pc = "check", ![j].obj = @ + 1, ![j].up = NoUp]
          /\ UNCHANGED used
       \/ /\ Spend("faults")
          /\ Fail(j, "mark_aborting", "failed_final")
          /\ UNCHANGED rows
    /\ UNCHANGED <<job, outbox, receipts, confirmed, lease, lib, conf, remote, objects, tracked, ops,
                   cl, dv, fresh, sweep>>

(* abort_multipart_after_failure: record the intent, abort, and retire the *)
(* row only when the multipart is known to be gone.                        *)
SetAborting(us) ==
    rows' = [u \in UploadIds |-> IF u \in us /\ rows[u] # NoRow
                                 THEN [rows[u] EXCEPT !.desired = "aborting"] ELSE rows[u]]

mark_multipart_aborting(j) ==
    /\ At(j, "mark_aborting")
    /\ SetAborting({wk[j].up})
    /\ Step(j, "abort")
    /\ UNCHANGED <<job, outbox, receipts, confirmed, lease, lib, conf, remote, objects, tracked, ops,
                   cl, dv, fresh, sweep, used>>

(* A receipt of the job for the row's object accounts for an unknown       *)
(* multipart.                                                              *)
multipart_receipt_proves_completion(u) ==
    rows[u] # NoRow /\ receipts[rows[u].job][rows[u].obj] # NoUp

(* Abort a multipart: gone, gone earlier, or no answer with either effect. *)
AbortGone(u) == remote[u] = "open" \/ multipart_receipt_proves_completion(u)
AbortEffects(u) == {remote[u], IF remote[u] = "open" THEN "aborted" ELSE remote[u]}

(* Mutant: the row is retired although the abort gave no answer.           *)
abort_without_answer(j) ==
    /\ At(j, "abort")
    /\ \E r \in AbortEffects(wk[j].up) : remote' = [remote EXCEPT ![wk[j].up] = r]
    /\ Step(j, "retire_aborted")
    /\ UNCHANGED <<store, lease, lib, conf, objects, tracked, ops, cl, dv, fresh, sweep, used>>

abort_multipart_after_failure(j) ==
    /\ At(j, "abort")
    /\ LET u == wk[j].up
       IN  \/ /\ AbortGone(u)
              /\ remote' = [remote EXCEPT ![u] = IF @ = "open" THEN "aborted" ELSE @]
              /\ Step(j, "retire_aborted")
              /\ UNCHANGED used
           \/ /\ ~AbortGone(u)
              /\ Step(j, "settle")
              /\ UNCHANGED <<remote, used>>
           \/ /\ Spend("faults")
              /\ \E r \in AbortEffects(u) : remote' = [remote EXCEPT ![u] = r]
              /\ Step(j, "settle")
    /\ UNCHANGED <<store, lease, lib, conf, objects, tracked, ops, cl, dv, fresh, sweep>>

finish_aborted(j) ==
    /\ At(j, "retire_aborted")
    /\ rows' = [rows EXCEPT ![wk[j].up] = NoRow]
    /\ Step(j, "settle")
    /\ UNCHANGED <<job, outbox, receipts, confirmed, lease, lib, conf, remote, objects, tracked, ops,
                   cl, dv, fresh, sweep, used>>

(* finish_upload: the terminal outcome is one transaction; losing it to a  *)
(* cancel, or a failed write, leaves the row as it is.                     *)
finish_upload(j) ==
    /\ At(j, "settle")
    /\ \/ /\ CheckedLive(j, wk[j].version)
          /\ Completed(j, IF wk[j].result = "ok" THEN "succeeded" ELSE wk[j].result)
          /\ ops' = [ops EXCEPT ![j] = IF @ \in {"running", "cancelling"} THEN "committed" ELSE @]
          /\ UNCHANGED used
       \/ /\ ~CheckedLive(j, wk[j].version)
          /\ UNCHANGED <<job, outbox, ops, used>>
       \/ /\ CheckedLive(j, wk[j].version)
          /\ Spend("faults")
          /\ UNCHANGED <<job, outbox, ops>>
    /\ Step(j, "retire_op")
    /\ UNCHANGED <<receipts, rows, confirmed, lease, lib, conf, remote, objects, tracked, cl, dv,
                   fresh, sweep>>

retire_operation(j) ==
    /\ At(j, "retire_op")
    /\ ops' = [ops EXCEPT ![j] = "none"]
    /\ wk' = [wk EXCEPT ![j] = IdleWorker]
    /\ dv' = [dv EXCEPT ![j].pc = "list"]
    /\ UNCHANGED <<store, lease, lib, conf, remote, objects, tracked, cl, fresh, sweep, used>>

-----------------------------------------------------------------------------
(* Cancelling and dismissing.                                              *)

cancel_upload(c, j) ==
    /\ cl[c].pc = "idle" /\ dv[c].pc = "idle"
    /\ IsLive(j)
    /\ Spend("cancels")
    /\ cl' = [cl EXCEPT ![c] = [IdleClient EXCEPT
                !.pc = "request", !.job = j, !.version = job[j].version]]
    /\ UNCHANGED <<store, lease, lib, conf, remote, objects, tracked, ops, wk, dv, fresh, sweep>>

request_cancel(c) ==
    /\ cl[c].pc = "request"
    /\ LET j == cl[c].job
       IN  CASE ops[j] \in {"committed", "committed_cancelled"} ->
                    cl' = [cl EXCEPT ![c] = IdleClient] /\ UNCHANGED ops
             [] ops[j] = "none" -> Goto(c, "cancel") /\ UNCHANGED ops
             [] OTHER -> Goto(c, "cancel") /\ ops' = [ops EXCEPT ![j] = "cancelling"]
    /\ UNCHANGED <<store, lease, lib, conf, remote, objects, tracked, wk, dv, fresh, sweep, used>>

cancel_upload_job(c) ==
    /\ cl[c].pc = "cancel"
    /\ LET j == cl[c].job
       IN  IF CheckedLive(j, cl[c].version)
           THEN Completed(j, "cancelled") /\ Goto(c, "claim_cancelled")
           ELSE cl' = [cl EXCEPT ![c] = IdleClient] /\ UNCHANGED <<job, outbox>>
    /\ UNCHANGED <<receipts, rows, confirmed, lease, lib, conf, remote, objects, tracked, ops, wk,
                   dv, fresh, sweep, used>>

(* The rows of the job are marked, then outcomes are delivered.            *)
claim_cancelled(c) ==
    /\ cl[c].pc = "claim_cancelled"
    /\ LET j == cl[c].job
       IN  /\ ops' = [ops EXCEPT ![j] = IF @ = "cancelling" THEN "committed_cancelled" ELSE @]
           /\ SetAborting({u \in UploadIds : rows[u] # NoRow /\ rows[u].job = j})
    /\ cl' = [cl EXCEPT ![c] = IdleClient]
    /\ dv' = [dv EXCEPT ![c].pc = "list"]
    /\ UNCHANGED <<job, outbox, receipts, confirmed, lease, lib, conf, remote, objects, tracked, wk,
                   fresh, sweep, used>>

dismiss_upload_transfer(j) ==
    /\ IsTerminal(j) /\ outbox[j] = "acked" /\ ~job[j].dismissed
    /\ \A u \in UploadIds : rows[u] # NoRow => rows[u].job # j
    /\ ops[j] = "none"
    /\ Spend("edits")
    /\ job' = [job EXCEPT ![j].dismissed = TRUE]
    /\ UNCHANGED <<outbox, receipts, rows, confirmed, lease, lib, conf, remote, objects, tracked, memory>>

-----------------------------------------------------------------------------
(* deliver_terminal_outcomes: read the pending completions, project each   *)
(* on the library row under a compare-and-swap of the application store's  *)
(* revision, acknowledge it.  The poll thread, a cancel and an ending      *)
(* worker all run it; nothing serialises them.                             *)

Projected(j) == [lib EXCEPT !.marker = j,
                   !.status = IF job[j].state = "succeeded" THEN "done" ELSE "failed"]

(* Mutant: the outcome is written on whatever revision is there now.       *)
AnyRevision(j) == TRUE

SameRevision(j) == lib.rev = job[j].rev

HasAllReceipts(j) == \A o \in Objects : receipts[j][o] # NoUp

pending_completions(t) ==
    /\ dv[t].pc = "list" \/ (t = Poll /\ dv[t].pc = "idle" /\ \E j \in Jobs : outbox[j] = "pending")
    /\ LET todo == {j \in Jobs : outbox[j] = "pending"}
       IN  dv' = [dv EXCEPT ![t] = IF todo = {} THEN IdleDelivery
                                   ELSE [IdleDelivery EXCEPT !.pc = "apply", !.todo = todo]]
    /\ UNCHANGED <<store, lease, lib, conf, remote, objects, tracked, ops, cl, wk, fresh, sweep, used>>

(* The record leaves the list, acknowledged or deferred.                   *)
Dropped(t, j) ==
    IF dv[t].todo = {j} THEN IdleDelivery
    ELSE [dv[t] EXCEPT !.pc = "apply", !.todo = @ \ {j}, !.at = NoJob]

apply_upload_completion(t) ==
    /\ dv[t].pc = "apply"
    /\ \E j \in dv[t].todo :
          CASE SameRevision(j) /\ job[j].state = "succeeded" /\ ~HasAllReceipts(j) ->
                    dv' = [dv EXCEPT ![t] = Dropped(t, j)] /\ UNCHANGED fresh
            [] ~SameRevision(j) \/ lib = Projected(j) ->
                    dv' = [dv EXCEPT ![t].pc = "ack", ![t].at = j] /\ UNCHANGED fresh
            [] OTHER ->
                 /\ dv' = [dv EXCEPT ![t].pc = "write", ![t].at = j]
                 /\ fresh' = fresh \cup {t}
    /\ UNCHANGED <<store, lease, lib, conf, remote, objects, tracked, ops, cl, wk, sweep, used>>

upsert_library_entry_if_revision(t) ==
    /\ dv[t].pc = "write"
    /\ LET j == dv[t].at
       IN  \/ /\ t \in fresh
              /\ lib' = Projected(j)
              /\ fresh' = {}
              /\ dv' = [dv EXCEPT ![t].pc = "ack"]
              /\ UNCHANGED used
           \/ /\ t \notin fresh
              /\ dv' = [dv EXCEPT ![t] =
                          IF lib = Projected(j) /\ SameRevision(j)
                          THEN [@ EXCEPT !.pc = "ack"] ELSE Dropped(t, j)]
              /\ UNCHANGED <<lib, fresh, used>>
           \/ /\ t \in fresh
              /\ Spend("faults")
              /\ dv' = [dv EXCEPT ![t] = Dropped(t, j)]
              /\ fresh' = fresh \ {t}
              /\ UNCHANGED lib
    /\ UNCHANGED <<store, lease, conf, remote, objects, tracked, ops, cl, wk, sweep>>

acknowledge_completion(t) ==
    /\ dv[t].pc = "ack"
    /\ outbox' = [outbox EXCEPT ![dv[t].at] = "acked"]
    /\ dv' = [dv EXCEPT ![t] = Dropped(t, dv[t].at)]
    /\ UNCHANGED <<job, receipts, rows, confirmed, lease, lib, conf, remote, objects, tracked, ops,
                   cl, wk, fresh, sweep, used>>

-----------------------------------------------------------------------------
(* The world: a new revision of the session is published, the destination  *)
(* is configured anew.                                                     *)

replace_media ==
    /\ Spend("edits")
    /\ lib.rev = 1
    /\ lib' = [rev |-> 2, status |-> "none", marker |-> NoJob]
    /\ fresh' = {}
    /\ UNCHANGED <<store, lease, conf, remote, objects, tracked, ops, cl, wk, dv, sweep>>

save_storage_config ==
    /\ Spend("edits")
    /\ conf = 1
    /\ conf' = 2
    /\ fresh' = {}
    /\ UNCHANGED <<store, lease, lib, remote, objects, tracked, ops, cl, wk, dv, sweep>>

(* The process dies and boots: every live job is cancelled, a row left     *)
(* uploading is failed unless its outcome is still to be delivered, every  *)
(* known multipart is claimed for aborting, upload leases are reconciled   *)
(* after the jobs.                                                         *)
Interrupted == {j \in Jobs : IsLive(j)}
Protects == {j \in Jobs : IsLive(j) \/ (IsTerminal(j) /\ outbox[j] # "acked")}

reconcile_interrupted_uploads ==
    /\ Spend("crashes")
    /\ job' = [j \in Jobs |-> IF j \in Interrupted
                              THEN [job[j] EXCEPT !.state = "cancelled", !.version = @ + 1]
                              ELSE job[j]]
    /\ outbox' = [j \in Jobs |-> IF j \in Interrupted THEN "pending" ELSE outbox[j]]
    /\ lib' = IF /\ lib.status = "uploading"
                 /\ Protects = {} \/ \E j \in Interrupted : job[j].rev = lib.rev
              THEN [lib EXCEPT !.status = "failed", !.marker = NoJob] ELSE lib
    /\ SetAborting(UploadIds)
    /\ sweep' = {u \in UploadIds : rows[u] # NoRow}
    /\ lease' = Free
    /\ ops' = [j \in Jobs |-> "none"]
    /\ cl' = [c \in Clients |-> IdleClient]
    /\ wk' = [j \in Jobs |-> IdleWorker]
    /\ dv' = [t \in Threads |-> IdleDelivery]
    /\ fresh' = {}
    /\ UNCHANGED <<receipts, confirmed, conf, remote, objects, tracked>>

abort_orphan_multipart_uploads(u) ==
    /\ u \in sweep
    /\ sweep' = sweep \ {u}
    /\ \/ /\ AbortGone(u)
          /\ remote' = [remote EXCEPT ![u] = IF @ = "open" THEN "aborted" ELSE @]
          /\ rows' = [rows EXCEPT ![u] = NoRow]
          /\ UNCHANGED used
       \/ /\ ~AbortGone(u)
          /\ UNCHANGED <<remote, rows, used>>
       \/ /\ Spend("faults")
          /\ \E r \in AbortEffects(u) : remote' = [remote EXCEPT ![u] = r]
          /\ UNCHANGED rows
    /\ UNCHANGED <<job, outbox, receipts, confirmed, lease, lib, conf, objects, tracked, ops, cl, wk,
                   dv, fresh>>

-----------------------------------------------------------------------------
command(c) ==
    \/ upload_entry(c) \/ acquire_upload_lease(c) \/ release_upload_lease(c)
    \/ create_upload_job(c) \/ start_upload_child(c) \/ start_upload_job(c)
    \/ begin_upload_operation(c) \/ spawn_upload_worker(c)
    \/ compensate_new_upload_job(c) \/ clear_upload_operation(c)
    \/ request_cancel(c) \/ cancel_upload_job(c) \/ claim_cancelled(c)
    \/ \E j \in Jobs : retry_transfer(c, j) \/ cancel_upload(c, j)

perform_upload(j) ==
    \/ check_cancelled(j) \/ initiate_multipart_upload(j) \/ track_multipart(j)
    \/ upload_part(j) \/ record_multipart_part(j) \/ complete_multipart_upload(j)
    \/ verify_completed_object(j) \/ stage_upload_receipts(j) \/ finish_multipart(j)
    \/ mark_multipart_aborting(j) \/ abort_multipart_after_failure(j)
    \/ finish_aborted(j) \/ finish_upload(j) \/ retire_operation(j)

deliver_terminal_outcomes(t) ==
    \/ pending_completions(t) \/ apply_upload_completion(t)
    \/ upsert_library_entry_if_revision(t) \/ acknowledge_completion(t)

UploadNext ==
    \/ \E c \in Clients : command(c)
    \/ \E j \in Jobs : perform_upload(j) \/ dismiss_upload_transfer(j)
    \/ \E t \in Threads : deliver_terminal_outcomes(t)
    \/ spawn_upload_lease_reaper
    \/ replace_media \/ save_storage_config
    \/ reconcile_interrupted_uploads
    \/ \E u \in UploadIds : abort_orphan_multipart_uploads(u)

UploadSpec == UploadInit /\ [][UploadNext]_vars
UploadFairSpec ==
    /\ UploadSpec
    /\ \A t \in Threads : WF_vars(deliver_terminal_outcomes(t))
    /\ \A j \in Jobs : WF_vars(perform_upload(j))
    /\ \A c \in Clients : WF_vars(cl[c].pc # "idle" /\ command(c))
    /\ WF_vars(spawn_upload_lease_reaper)


-----------------------------------------------------------------------------
(* Properties.                                                             *)

(* Every variable stays in the shape the tables and the threads give it.   *)
UploadTypeOK ==
    /\ \A j \in Jobs : job[j] = NoRow \/ job[j].state \in Live \cup Terminal
    /\ outbox \in [Jobs -> {"none", "pending", "acked"}]
    /\ receipts \in [Jobs -> [Objects -> UploadIds \cup {NoUp}]]
    /\ \A u \in UploadIds : rows[u] = NoRow \/ rows[u].desired \in {"running", "aborting"}
    /\ confirmed \in [Jobs -> 0..NumData]
    /\ lease.kind \in {"free", "command", "reaper", "expired"}
    /\ lib \in [rev : 1..2, status : {"none", "uploading", "done", "failed"},
                marker : Jobs \cup {NoJob}]
    /\ remote \in [UploadIds -> {"unused", "open", "object", "aborted"}]
    /\ objects \in [Destinations \X Objects -> [rev : 0..2, late : BOOLEAN]]
    /\ fresh \subseteq Threads /\ sweep \subseteq UploadIds

(* finish_upload in the store deletes a transfer_uploads row: the row is   *)
(* the only memory of a multipart, so when it is gone the object store     *)
(* holds no open multipart for it.  Worker, cancel, sweep and crash all    *)
(* retire or keep rows on answers that may be lost.                        *)
RetiredMultipartIsGone ==
    \A u \in tracked : rows[u] = NoRow => remote[u] # "open"

(* A library row shown as done names a job that succeeded for the shown    *)
(* revision, each of its receipts is for a multipart that became an        *)
(* object, and the key of each object holds the bytes of that revision.    *)
(* The exception: the last completion under the key was late.  No key      *)
(* names its revision, and the check for a cancel comes before the         *)
(* completion, so a worker of a revision replaced since can still write.   *)
DoneIsBackedUp ==
    lib.status = "done" =>
        /\ IsRow(lib.marker) /\ job[lib.marker].state = "succeeded"
        /\ job[lib.marker].rev = lib.rev
        /\ \A o \in Objects :
             LET held == objects[upload_object_key(lib.marker, o)]
             IN  /\ receipts[lib.marker][o] # NoUp
                 /\ remote[receipts[lib.marker][o]] = "object"
                 /\ held.rev = lib.rev \/ held.late

(* The same without the exception, which the code does not keep: the       *)
(* comment of upload_object_key has a re-upload land on the same key.      *)
DoneHoldsItsRevision ==
    lib.status = "done" =>
        \A o \in Objects : objects[upload_object_key(lib.marker, o)].rev = lib.rev

(* A row the window shows as uploading has someone who will end it: a      *)
(* worker, an outcome not yet delivered or being delivered, or a command   *)
(* that is starting an upload.                                             *)
UploadingHasOwner ==
    lib.status = "uploading" =>
        \/ \E j \in Jobs : wk[j].pc # "idle" \/ outbox[j] = "pending"
        \/ \E t \in Threads : dv[t].pc # "idle"
        \/ \E c \in Clients : cl[c].pc # "idle"

(* Every recorded outcome reaches the library and is acknowledged.         *)
OutcomeIsDelivered ==
    \A j \in Jobs : (outbox[j] = "pending") ~> (outbox[j] = "acked")

=============================================================================
