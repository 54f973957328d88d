--------------------------- MODULE MediaPipeline ---------------------------
(***************************************************************************)
(* The session pipelines that join an import, a derivation and the upload  *)
(* of the derived bundle: admission, reconciliation under the operation    *)
(* gate, the upload lane, retries, the projector that shows completions in *)
(* the library, the deliverer of the LAN uploads that drains the same      *)
(* outbox, and the recovery of all of them after a crash.                  *)
(*                                                                         *)
(*   pipe      the pipeline rows: policy, storage identity, attached       *)
(*             derivation and upload, admission, required action, version  *)
(*   imp, der  the import and derivation jobs, as far as a pipeline sees   *)
(*             them (MediaImport and Derivation have their inside)         *)
(*   job       the derived upload rows: pipeline, storage identity, state, *)
(*             retry parent, objects verified by its checkpoint, and       *)
(*             whether its outcome is acknowledged                         *)
(*   impOut, derOut   the unacknowledged completions of the media store    *)
(*   lib       what the library shows of a pipeline's recording            *)
(*   remote    the objects of a bundle that the bucket holds               *)
(*   settings, config   the storage identity of the saved settings, and    *)
(*             the one the pipeline port read when the process started     *)
(*   gate      the operation that holds operation_gate, and its step       *)
(*   queue, lane      the wake queue of the upload lane and its turn       *)
(*   owes      the lanes whose turn ended and who still reconcile          *)
(*   proj, wakeup     the projector's drain, and its wake-up               *)
(*   phase     the life of the process                                     *)
(*                                                                         *)
(* Every statement that commits is a step, so that a crash may come        *)
(* between any two.  A pipeline has one source and one profile: its bundle *)
(* is the pipeline itself, and the natural key of its upload is the        *)
(* pipeline with a storage identity.                                       *)
(***************************************************************************)
EXTENDS Naturals, Sequences, Functions, SequencesExt

CONSTANTS
    NumPipes,      \* bound of the pipelines, numbered as they are created
    Unsigned,      \* the pipelines whose source has no producer's signature
    Jobs, NoJob,   \* upload ids; retries take new ones
    NumObjects,    \* objects of a bundle, the derived manifest the last
    QueueLimit,    \* capacity of the wake queue
    Policies,      \* policies the user may ask for, for each pipeline
    Identities,    \* storage identities the settings may hold
    Budget,        \* how often each trouble or command may happen
    MaxTroubles     \* bound of their sum, retries aside

VARIABLES pipe, imp, der, job, impOut, derOut, lib, remote, settings, config,
          gate, queue, lane, owes, proj, wakeup, phase, used

Pipes == 1..NumPipes
Lanes == {"import", "derive", "upload"}
Troubles == {"crash", "fail", "lose", "drain", "cancel", "settings", "again", "retry"}

ASSUME PipelineAssumption ==
    /\ NumPipes \in Nat \ {0} /\ Unsigned \subseteq Pipes
    /\ NoJob \notin Jobs /\ Identities # {} /\ {NumObjects, QueueLimit} \subseteq Nat \ {0}
    /\ Policies \in [Pipes -> SUBSET {"import", "normalize", "upload"}]
    /\ Budget \in [Troubles -> Nat] /\ MaxTroubles \in Nat

media == <<pipe, imp, der, impOut, derOut>>
memory == <<gate, queue, lane, owes, proj, wakeup, phase, config>>
pipelineVars == <<pipe, imp, der, job, impOut, derOut, lib, remote, settings, config,
                  gate, queue, lane, owes, proj, wakeup, phase, used>>

Ended == {"succeeded", "failed", "cancelled"}
Live(j) == job[j].p # 0 /\ job[j].state \notin Ended
Attempts(p) == {j \in Jobs : job[j].p = p}
Started == {p \in Pipes : pipe[p].policy # "none"}

NoRow == [policy |-> "none", ident |-> "none", der |-> FALSE, up |-> NoJob,
          admitted |-> FALSE, action |-> "none", ver |-> 0]
NoUpload == [p |-> 0, ident |-> "none", state |-> "queued", retryable |-> FALSE,
             parent |-> NoJob, ck |-> 0, acked |-> FALSE]
NoOp == [who |-> "none", kind |-> "none", at |-> "none", todo |-> <<>>, snap |-> NoRow,
         base |-> NoRow, j |-> NoJob, parent |-> NoJob]
IdleLane == [pc |-> "idle", j |-> NoJob]
IdleProj == [stage |-> "idle", list |-> {}, cur |-> {}]

\* The storage the settings name at first.
Saved == CHOOSE i \in Identities : TRUE

PipelineInit ==
    /\ pipe = [p \in Pipes |-> NoRow]
    /\ imp = [p \in Pipes |-> "none"] /\ der = [p \in Pipes |-> "none"]
    /\ job = [j \in Jobs |-> NoUpload]
    /\ impOut = {} /\ derOut = {}
    /\ lib = [p \in Pipes |-> {}] /\ remote = [p \in Pipes |-> {}]
    /\ settings = Saved /\ config = Saved
    /\ gate = NoOp /\ queue = <<>> /\ lane = IdleLane /\ owes = {}
    /\ proj = IdleProj /\ wakeup = FALSE /\ phase = "on"
    /\ used = [t \in Troubles |-> 0]

Spend(t) ==
    /\ used[t] < Budget[t]
    /\ t # "retry" => FoldFunctionOnSet(+, 0, used, Troubles \ {"retry"}) < MaxTroubles
    /\ used' = [used EXCEPT ![t] = @ + 1]

-----------------------------------------------------------------------------
(* The stores.                                                             *)

\* Mutant: the version the caller read is not compared.
ReplaceAnyway(p, snap, row) == pipe' = [pipe EXCEPT ![p] = [row EXCEPT !.ver = pipe[p].ver + 1]]

\* replace_pipeline_projection: the row as the caller last read it, with the
\* caller's change, if nobody replaced it meanwhile.
Replace(p, snap, row) ==
    IF pipe[p].ver = snap.ver
    THEN pipe' = [pipe EXCEPT ![p] = [row EXCEPT !.ver = snap.ver + 1]]
    ELSE pipe' = pipe

\* complete_upload_job: the first terminal outcome stays, unacknowledged.
CompleteUpload(j, state, retryable) ==
    job' = IF Live(j)
           THEN [job EXCEPT ![j].state = state, ![j].retryable = retryable, ![j].acked = FALSE]
           ELSE job

\* The active attempt of a natural key.
Active(p, ident) == {j \in Attempts(p) : job[j].ident = ident /\ Live(j)}
\* The row that holds the natural key itself; a retry's key carries its id.
Root(p, ident) == {j \in Attempts(p) : job[j].ident = ident /\ job[j].parent = NoJob}
\* An id no row has, while there is one; the choice is of no consequence.
Fresh == LET free == {j \in Jobs : job[j].p = 0}
         IN  IF free = {} THEN {} ELSE {CHOOSE j \in free : TRUE}

NewUpload(p, ident, parent) == [NoUpload EXCEPT !.p = p, !.ident = ident, !.parent = parent]

AttachedUploads == {pipe[p].up : p \in Started} \ {NoJob}
InQueue(j) == \E i \in 1..Len(queue) : queue[i] = j
\* A full queue drops the wake-up.
Enqueue(j) == queue' = IF InQueue(j) \/ Len(queue) >= QueueLimit THEN queue ELSE Append(queue, j)

-----------------------------------------------------------------------------
(* Operations under the gate.                                              *)

Acquire(who, kind, todo) ==
    /\ gate = NoOp
    /\ gate' = [NoOp EXCEPT !.who = who, !.kind = kind, !.todo = todo, !.at = "decide"]

\* Mutant: a lane whose reconciliation failed does not wake the projector.
WakeIfDone(ok) ==
    /\ gate' = NoOp
    /\ owes' = owes \ {gate.who}
    /\ wakeup' = (wakeup \/ (gate.who \in Lanes /\ ok))
    /\ phase' = IF gate.who # "startup" THEN phase ELSE IF ok THEN "boot_uploads" ELSE "halted"

\* The lane goes on to wake the projector; startup to its next stage, or to
\* none if a stage failed.
Release(ok) ==
    /\ gate' = NoOp
    /\ owes' = owes \ {gate.who}
    /\ wakeup' = (wakeup \/ gate.who \in Lanes)
    /\ phase' = IF gate.who # "startup" THEN phase ELSE IF ok THEN "boot_uploads" ELSE "halted"

\* reconcile_all takes the next pipeline, or stops at the first error; the
\* user's own operations ignore the error.
Proceed(ok) ==
    IF gate.kind = "start"
    THEN gate' = [gate EXCEPT !.at = "refresh"] /\ UNCHANGED <<owes, wakeup, phase>>
    ELSE IF ok /\ Len(gate.todo) > 1
    THEN /\ gate' = [NoOp EXCEPT !.who = gate.who, !.kind = gate.kind, !.at = "decide",
                                 !.todo = Tail(gate.todo)]
         /\ UNCHANGED <<owes, wakeup, phase>>
    ELSE Release(ok)

Go(at, j) == gate' = [gate EXCEPT !.at = at, !.j = j, !.snap = pipe[Head(gate.todo)]]

\* What a pipeline needs next, from its row and the evidence of its jobs.
Recover(p) ==
    LET r == pipe[p] IN
    CASE r.policy = "import" \/ imp[p] # "verified" -> "wait"
      [] r.policy # "import" /\ imp[p] = "verified" /\ ~r.der -> "derive"
      [] OTHER ->
           IF r.policy = "normalize" \/ der[p] # "verified" THEN "clear"
           ELSE IF r.up # NoJob THEN "clear"
           ELSE IF p \in Unsigned /\ ~r.admitted THEN "admit"
           ELSE "upload"

AtDecide == gate.at = "decide"
Pending == Head(gate.todo)

AwaitImport ==
    /\ AtDecide /\ Recover(Pending) = "wait"
    /\ Proceed(TRUE)
    /\ UNCHANGED <<media, job, lib, remote, settings, config, queue, lane, proj, used>>

\* An existing derivation of the natural key is taken; otherwise the
\* normalizer creates one.
EnsureDerivation ==
    /\ AtDecide /\ Recover(Pending) = "derive"
    /\ der' = [der EXCEPT ![Pending] = IF @ = "none" THEN "running" ELSE @]
    /\ Go("attach_derivation", NoJob)
    /\ UNCHANGED <<pipe, imp, impOut, derOut, job, lib, remote, settings, config, queue, lane, owes,
                   proj, wakeup, phase, used>>

\* No normalizer, or no approved profile: the action stays as it is.
NormalizerRefuses ==
    /\ AtDecide /\ Recover(Pending) = "derive" /\ der[Pending] = "none"
    /\ Spend("fail")
    /\ Proceed(TRUE)
    /\ UNCHANGED <<media, job, lib, remote, settings, config, queue, lane, proj>>

AttachDerivation ==
    /\ gate.at = "attach_derivation"
    /\ Replace(Pending, gate.snap, [gate.snap EXCEPT !.der = TRUE, !.action = "none"])
    /\ Go("decide", NoJob)
    /\ UNCHANGED <<imp, der, impOut, derOut, job, lib, remote, settings, config, queue, lane, owes,
                   proj, wakeup, phase, used>>

SetAction(a) ==
    /\ IF pipe[Pending].action = a THEN pipe' = pipe
       ELSE Replace(Pending, pipe[Pending], [pipe[Pending] EXCEPT !.action = a])
    /\ Proceed(TRUE)
    /\ UNCHANGED <<imp, der, impOut, derOut, job, lib, remote, settings, config, queue, lane,
                   proj, used>>

ClearAction == AtDecide /\ Recover(Pending) = "clear" /\ SetAction("none")

\* The request to approve names the current storage.
RequireAdmission ==
    /\ AtDecide /\ Recover(Pending) = "admit" /\ settings = pipe[Pending].ident
    /\ SetAction("admit")

\* prepare_for_derivation: the active attempt of the natural key, or a new
\* row; the row is not woken.
PrepareUpload ==
    /\ AtDecide /\ Recover(Pending) = "upload" /\ settings = pipe[Pending].ident
    /\ LET found == Active(Pending, settings) IN
       \E j \in IF found # {} THEN found ELSE Fresh :
          /\ found = {} => Root(Pending, settings) = {}
          /\ job' = IF found # {} THEN job
                    ELSE [job EXCEPT ![j] = NewUpload(Pending, settings, NoJob)]
          /\ Go("attach_upload", j)
    /\ UNCHANGED <<media, lib, remote, settings, config, queue, lane, owes, proj, wakeup, phase, used>>

\* The settings name another storage, or the natural key is held by an
\* attempt that ended without being attached.
PrepareRefused ==
    /\ AtDecide /\ Recover(Pending) \in {"admit", "upload"}
    /\ \/ settings # pipe[Pending].ident
       \/ /\ Recover(Pending) = "upload"
          /\ Active(Pending, settings) = {} /\ Root(Pending, settings) # {}
    /\ Proceed(FALSE)
    /\ UNCHANGED <<media, job, lib, remote, settings, config, queue, lane, proj, used>>

AttachUpload ==
    /\ gate.at = "attach_upload"
    /\ Replace(Pending, gate.snap, [gate.snap EXCEPT !.up = gate.j, !.action = "none"])
    /\ gate' = [gate EXCEPT !.at = "wake"]
    /\ UNCHANGED <<imp, der, impOut, derOut, job, lib, remote, settings, config, queue, lane, owes,
                   proj, wakeup, phase, used>>

\* Mutant: the wake-up is forgotten.
NoWake(j) == queue' = queue

wake_upload(j) == IF j \in AttachedUploads THEN Enqueue(j) ELSE queue' = queue

Wake ==
    /\ gate.at = "wake"
    /\ wake_upload(gate.j)
    /\ Proceed(TRUE)
    /\ UNCHANGED <<media, job, lib, remote, settings, config, lane, proj, used>>

\* After the attachment is durable, the projection or the attached uploads
\* cannot be read: the error returns and nobody wakes the upload.
WakeFails ==
    /\ gate.at = "wake"
    /\ Spend("lose")
    /\ Proceed(FALSE)
    /\ UNCHANGED <<media, job, lib, remote, settings, config, queue, lane, proj>>

\* The row cannot be written.
AttachFails ==
    /\ gate.at \in {"attach_derivation", "attach_upload", "attach_retry"}
    /\ Spend("fail")
    /\ Proceed(FALSE)
    /\ UNCHANGED <<media, job, lib, remote, settings, config, queue, lane, proj>>

-----------------------------------------------------------------------------
(* What the user asks for.                                                 *)

Running == phase # "down"

\* start_pipeline of a new source: the import and the pipeline are one
\* transaction.  Refused without a storage identity for an upload.
StartPipeline(p, policy) ==
    /\ Running /\ p \notin Started /\ \A q \in 1..(p - 1) : q \in Started
    /\ LET row == [NoRow EXCEPT !.policy = policy,
                                !.ident = IF policy = "upload" THEN config ELSE "none",
                                !.action = IF policy = "import" THEN "none" ELSE "quality",
                                !.ver = 1]
       IN /\ pipe' = [pipe EXCEPT ![p] = row]
          /\ gate = NoOp
          /\ gate' = [NoOp EXCEPT !.who = "user", !.kind = "start", !.at = "decide",
                                  !.todo = <<p>>, !.base = row]
    /\ imp' = [imp EXCEPT ![p] = "running"]
    /\ UNCHANGED <<der, impOut, derOut, job, lib, remote, settings, config, queue, lane, owes, proj,
                   wakeup, phase, used>>

\* The same source is admitted again with the same policy: the existing row
\* is the answer, and it is reconciled.
StartAgain(p) ==
    /\ Running /\ p \in Started /\ gate = NoOp
    /\ pipe[p].policy = "upload" => pipe[p].ident = config
    /\ Spend("again")
    /\ gate' = [NoOp EXCEPT !.who = "user", !.kind = "start", !.at = "decide",
                            !.todo = <<p>>, !.base = pipe[p]]
    /\ UNCHANGED <<media, job, lib, remote, settings, config, queue, lane, owes, proj, wakeup, phase>>

\* refresh_pipeline_projection with the row that admission returned; a
\* conflict is ignored.
Refresh ==
    /\ gate.at = "refresh"
    /\ Replace(Pending, gate.base, gate.base)
    /\ Release(TRUE)
    /\ UNCHANGED <<imp, der, impOut, derOut, job, lib, remote, settings, config, queue, lane, proj, used>>

\* A command is the import's: only its cancellation shows here.
CommandPipeline(p) ==
    /\ Running /\ p \in Started /\ imp[p] = "running"
    /\ Spend("again")
    /\ Acquire("user", "command", <<p>>)
    /\ \E s \in {"running", "cancelled"} : imp' = [imp EXCEPT ![p] = s]
    /\ Replace(p, pipe[p], pipe[p])
    /\ UNCHANGED <<der, impOut, derOut, job, lib, remote, settings, config, queue, lane, owes, proj,
                   wakeup, phase>>

\* ApproveUnsignedUpload: a second approval conflicts with the first.
ApproveUnsigned(p) ==
    /\ Running /\ p \in Started \cap Unsigned
    /\ imp[p] = "verified" /\ pipe[p].policy = "upload" /\ pipe[p].der /\ der[p] = "verified"
    /\ settings = pipe[p].ident /\ ~pipe[p].admitted
    /\ Acquire("user", "approve", <<p>>)
    /\ Replace(p, pipe[p], [pipe[p] EXCEPT !.admitted = TRUE, !.action = "none"])
    /\ UNCHANGED <<imp, der, impOut, derOut, job, lib, remote, settings, config, queue, lane, owes,
                   proj, wakeup, phase, used>>

Children(j) == {k \in Jobs : job[k].p # 0 /\ job[k].parent = j}

\* Mutant: every retry makes a new row.
NeverReused(j) == {}

\* The attempt a retry of j is given when one is still active.
Reusable(j) == {k \in Children(j) : Live(k)} \cup Active(job[j].p, job[j].ident)

\* prepare_retry: an acknowledged retryable failure without a successful
\* child; the new row is not woken.
RetryUpload(j) ==
    /\ Running /\ gate = NoOp
    /\ job[j].p # 0 /\ job[j].state = "failed" /\ job[j].retryable /\ job[j].acked
    /\ settings = job[j].ident
    /\ \A k \in Children(j) : job[k].state # "succeeded"
    /\ Spend("retry")
    /\ \E k \in IF Reusable(j) # {} THEN Reusable(j) ELSE Fresh :
          /\ job' = IF k \in Reusable(j) THEN job
                    ELSE [job EXCEPT ![k] = NewUpload(job[j].p, job[j].ident, j)]
          /\ gate' = [NoOp EXCEPT !.who = "user", !.kind = "retry", !.at = "attach_retry",
                                  !.j = k, !.parent = j]
    /\ UNCHANGED <<media, lib, remote, settings, config, queue, lane, owes, proj, wakeup, phase>>

\* replace_upload_attempt on the pipeline that names the parent or the new
\* attempt; without one the new row stays dormant.
AttachRetry ==
    /\ gate.at = "attach_retry"
    /\ LET owners == {p \in Started : pipe[p].up \in {gate.parent, gate.j}} IN
       IF owners = {}
       THEN pipe' = pipe /\ Release(FALSE)
       ELSE /\ \E p \in owners :
                  IF pipe[p].up = gate.parent
                  THEN Replace(p, pipe[p], [pipe[p] EXCEPT !.up = gate.j])
                  ELSE pipe' = pipe
            /\ gate' = [gate EXCEPT !.at = "wake"]
            /\ UNCHANGED <<owes, wakeup, phase>>
    /\ UNCHANGED <<imp, der, impOut, derOut, job, lib, remote, settings, config, queue, lane, proj, used>>

\* The desktop's transfer list cancels any live upload, and delivers every
\* outcome at once.
CancelUpload(j) ==
    /\ Running /\ Live(j)
    /\ Spend("cancel")
    /\ job' = [k \in Jobs |->
                 IF k = j THEN [job[k] EXCEPT !.state = "cancelled", !.acked = TRUE]
                 ELSE [job[k] EXCEPT !.acked = @ \/ job[k].state \in Ended]]
    /\ UNCHANGED <<media, lib, remote, settings, memory>>

SaveSettings ==
    /\ Running
    /\ Spend("settings")
    /\ \E i \in Identities \ {settings} : settings' = i
    /\ UNCHANGED <<media, job, lib, remote, memory>>

-----------------------------------------------------------------------------
(* The lanes.  A lane reconciles every pipeline after each turn.           *)

ImportEnds(p) ==
    /\ phase = "on" /\ imp[p] = "running" /\ "import" \notin owes
    /\ imp' = [imp EXCEPT ![p] = "verified"]
    /\ impOut' = impOut \cup {p}
    /\ owes' = owes \cup {"import"}
    /\ UNCHANGED <<pipe, der, derOut, job, lib, remote, settings, config, gate, queue, lane, proj,
                   wakeup, phase, used>>

DerivationEnds(p) ==
    /\ phase = "on" /\ der[p] = "running" /\ "derive" \notin owes
    /\ \/ /\ der' = [der EXCEPT ![p] = "verified"]
          /\ derOut' = derOut \cup {p}
          /\ UNCHANGED used
       \/ /\ Spend("fail")
          /\ der' = [der EXCEPT ![p] = "failed"]
          /\ UNCHANGED derOut
    /\ owes' = owes \cup {"derive"}
    /\ UNCHANGED <<pipe, imp, impOut, job, lib, remote, settings, config, gate, queue, lane, proj,
                   wakeup, phase>>

LaneReconciles(w) ==
    /\ w \in owes
    /\ Acquire(w, "reconcile", [i \in 1..NumPipes |-> i])
    /\ UNCHANGED <<media, job, lib, remote, settings, config, queue, lane, owes, proj, wakeup, phase,
                   used>>

EndTurn == lane' = IdleLane /\ owes' = owes \cup {"upload"}

\* run_upload_once refuses a job that no pipeline names.
TakeUpload ==
    /\ phase = "on" /\ lane = IdleLane /\ "upload" \notin owes /\ queue # <<>>
    /\ queue' = Tail(queue)
    /\ IF Head(queue) \in AttachedUploads
       THEN lane' = [pc |-> "start", j |-> Head(queue)] /\ UNCHANGED owes
       ELSE EndTurn
    /\ UNCHANGED <<media, job, lib, remote, settings, config, gate, proj, wakeup, phase, used>>

\* The id is off the queue when the attached uploads cannot be read.
TakeFails ==
    /\ phase = "on" /\ lane = IdleLane /\ "upload" \notin owes /\ queue # <<>>
    /\ Spend("lose")
    /\ queue' = Tail(queue)
    /\ EndTurn
    /\ UNCHANGED <<media, job, lib, remote, settings, config, gate, proj, wakeup, phase>>

\* start_or_resume_transfer lets a job that is no longer queued pass, a
\* cancelled one too; then the storage is compared.
StartTransfer ==
    /\ lane.pc = "start" /\ settings = job[lane.j].ident
    /\ job' = [job EXCEPT ![lane.j].state = IF @ = "queued" THEN "preparing" ELSE @]
    /\ lane' = [lane EXCEPT !.pc = "send"]
    /\ UNCHANGED <<media, lib, remote, settings, config, gate, queue, owes, proj, wakeup, phase, used>>

StorageChanged ==
    /\ lane.pc = "start" /\ settings # job[lane.j].ident
    /\ CompleteUpload(lane.j, "failed", FALSE)
    /\ EndTurn
    /\ UNCHANGED <<media, lib, remote, settings, config, gate, queue, proj, wakeup, phase, used>>

\* The first object that is not verified; the manifest is the last.
NextObject(j) == {job[j].ck + 1}

SendObject ==
    /\ lane.pc = "send" /\ job[lane.j].ck < NumObjects
    /\ \E o \in NextObject(lane.j) :
          remote' = [remote EXCEPT ![job[lane.j].p] = @ \cup {o}]
    /\ job' = [job EXCEPT ![lane.j].ck = @ + 1]
    /\ UNCHANGED <<media, lib, settings, memory, used>>

\* What the object store may have completed although the turn failed.
Unanswered(j) == IF job[j].ck < NumObjects THEN {{}, NextObject(j)} ELSE {{}}

\* The object store, the evidence or the receipts fail; classify_upload_error
\* says whether the user may retry.
SendFails ==
    /\ lane.pc = "send"
    /\ Spend("fail")
    /\ \E lost \in Unanswered(lane.j) :
          remote' = [remote EXCEPT ![job[lane.j].p] = @ \cup lost]
    /\ \E retryable \in BOOLEAN : CompleteUpload(lane.j, "failed", retryable)
    /\ EndTurn
    /\ UNCHANGED <<media, lib, settings, config, gate, queue, proj, wakeup, phase>>

\* And complete_failed cannot record it: the row stays live without a wake-up.
RecordFails ==
    /\ lane.pc = "send"
    /\ Spend("lose")
    /\ \E lost \in Unanswered(lane.j) :
          remote' = [remote EXCEPT ![job[lane.j].p] = @ \cup lost]
    /\ EndTurn
    /\ UNCHANGED <<media, job, lib, settings, config, gate, queue, proj, wakeup, phase>>

FinishUpload ==
    /\ lane.pc = "send" /\ job[lane.j].ck = NumObjects
    /\ CompleteUpload(lane.j, "succeeded", FALSE)
    /\ EndTurn
    /\ UNCHANGED <<media, lib, remote, settings, config, gate, queue, proj, wakeup, phase, used>>

-----------------------------------------------------------------------------
(* The projector.  One drain reads the outboxes in the order of their      *)
(* dependencies, each when its turn comes.                                 *)

Unacked(j) == job[j].p # 0 /\ job[j].state \in Ended /\ ~job[j].acked

ProjBegin ==
    /\ proj = IdleProj
    /\ phase = "boot_drain" \/ (phase = "on" /\ wakeup)
    /\ proj' = [stage |-> "import", list |-> impOut, cur |-> {}]
    /\ wakeup' = IF phase = "on" THEN FALSE ELSE wakeup
    /\ UNCHANGED <<media, job, lib, remote, settings, config, gate, queue, lane, owes, phase, used>>

\* A drain that fails is not repeated by itself; at the start it ends the
\* recovery.
DrainFails ==
    /\ proj' = IdleProj
    /\ phase' = IF phase = "boot_drain" THEN "halted" ELSE phase

\* The pipeline an envelope is about.
Subject(x) == IF proj.stage = "upload" THEN job[x].p ELSE x

Shown == CASE proj.stage = "import" -> "source"
           [] proj.stage = "derive" -> "derived"
           [] OTHER -> "remote"

\* An outcome other than success is only acknowledged.
ToProject(x) == proj.stage = "upload" => job[x].state = "succeeded"

\* A derived tree or a remote bundle needs the entry of its source.
HasEntry(x) == proj.stage = "import" \/ "source" \in lib[Subject(x)]

ProjApply(x) ==
    /\ x \in proj.list /\ proj.cur = {}
    /\ ToProject(x) => HasEntry(x)
    /\ lib' = IF ToProject(x) THEN [lib EXCEPT ![Subject(x)] = @ \cup {Shown}] ELSE lib
    /\ proj' = [proj EXCEPT !.list = @ \ {x}, !.cur = {x}]
    /\ UNCHANGED <<media, job, remote, settings, config, gate, queue, lane, owes, wakeup, phase, used>>

ProjAck ==
    /\ proj.cur # {}
    /\ impOut' = IF proj.stage = "import" THEN impOut \ proj.cur ELSE impOut
    /\ derOut' = IF proj.stage = "derive" THEN derOut \ proj.cur ELSE derOut
    /\ job' = IF proj.stage # "upload" THEN job
              ELSE [j \in Jobs |-> [job[j] EXCEPT !.acked = @ \/ j \in proj.cur]]
    /\ proj' = [proj EXCEPT !.cur = {}]
    /\ UNCHANGED <<pipe, imp, der, lib, remote, settings, config, gate, queue, lane, owes, wakeup,
                   phase, used>>

\* The entry is missing, or a store fails: the rest of the drain is left.
ProjRefused(x) ==
    /\ x \in proj.list /\ proj.cur = {} /\ ToProject(x)
    /\ IF HasEntry(x) THEN Spend("drain") ELSE UNCHANGED used
    /\ DrainFails
    /\ UNCHANGED <<media, job, lib, remote, settings, config, gate, queue, lane, owes, wakeup>>

\* The entry's revision moved at every attempt of apply: the row is left for
\* another drain, and this one goes on.
ProjDefers(x) ==
    /\ x \in proj.list /\ proj.cur = {} /\ ToProject(x) /\ HasEntry(x)
    /\ Spend("drain")
    /\ proj' = [proj EXCEPT !.list = @ \ {x}]
    /\ UNCHANGED <<media, job, lib, remote, settings, config, gate, queue, lane, owes, wakeup, phase>>

ProjNext ==
    /\ proj # IdleProj /\ proj.list = {} /\ proj.cur = {}
    /\ proj' = CASE proj.stage = "import" -> [proj EXCEPT !.stage = "derive", !.list = derOut]
                 [] proj.stage = "derive" -> [proj EXCEPT !.stage = "upload",
                                                          !.list = {j \in Jobs : Unacked(j)}]
                 [] OTHER -> IdleProj
    /\ phase' = IF proj.stage = "upload" /\ phase = "boot_drain" THEN "boot_reconcile" ELSE phase
    /\ UNCHANGED <<media, job, lib, remote, settings, config, gate, queue, lane, owes, wakeup, used>>

\* deliver_terminal_outcomes of the LAN transfers reads the same outbox and
\* finds no entry of its own library: the outcome counts as applied.
LanDeliver(j) ==
    /\ Running /\ Unacked(j)
    /\ job' = [job EXCEPT ![j].acked = TRUE]
    /\ UNCHANGED <<media, lib, remote, settings, memory, used>>

-----------------------------------------------------------------------------
(* Crash and start.                                                        *)

Crash ==
    /\ Running
    /\ Spend("crash")
    /\ phase' = "down" /\ gate' = NoOp /\ queue' = <<>> /\ lane' = IdleLane /\ owes' = {}
    /\ proj' = IdleProj /\ wakeup' = FALSE
    /\ UNCHANGED <<media, job, lib, remote, settings, config>>

\* reconcile_interrupted_uploads cancels every live upload before the media
\* graph recovers.
Boot ==
    /\ phase = "down"
    /\ phase' = "boot_drain" /\ config' = settings
    /\ job' = [j \in Jobs |-> IF Live(j) THEN [job[j] EXCEPT !.state = "cancelled"] ELSE job[j]]
    /\ UNCHANGED <<media, lib, remote, settings, gate, queue, lane, owes, proj, wakeup, used>>

StartupReconciles ==
    /\ phase = "boot_reconcile"
    /\ Acquire("startup", "reconcile", [i \in 1..NumPipes |-> i])
    /\ UNCHANGED <<media, job, lib, remote, settings, config, queue, lane, owes, proj, wakeup, phase,
                   used>>

\* The active uploads that a pipeline names are queued, and the lanes start.
RecoverUploads ==
    /\ phase = "boot_uploads"
    /\ \E order \in SetToSeqs({j \in AttachedUploads : Live(j) /\ ~InQueue(j)}) :
          LET all == queue \o order
          IN  queue' = SubSeq(all, 1, Min({Len(all), QueueLimit}))
    /\ phase' = "on"
    /\ UNCHANGED <<media, job, lib, remote, settings, config, gate, lane, owes, proj, wakeup, used>>

-----------------------------------------------------------------------------
GateStep == \/ AwaitImport \/ EnsureDerivation \/ AttachDerivation \/ ClearAction
            \/ RequireAdmission \/ PrepareUpload \/ PrepareRefused \/ AttachUpload
            \/ Wake \/ Refresh \/ AttachRetry
GateTrouble == NormalizerRefuses \/ AttachFails \/ WakeFails
UserAsks == \/ \E p \in Pipes : \/ \E policy \in Policies[p] : StartPipeline(p, policy)
                                \/ StartAgain(p) \/ CommandPipeline(p) \/ ApproveUnsigned(p)
            \/ \E j \in Jobs : RetryUpload(j) \/ CancelUpload(j)
            \/ SaveSettings
UploadStep == TakeUpload \/ StartTransfer \/ StorageChanged \/ SendObject \/ FinishUpload
UploadTrouble == TakeFails \/ SendFails \/ RecordFails
Reconciles == StartupReconciles \/ \E w \in Lanes : LaneReconciles(w)
ProjStep == \/ ProjBegin \/ ProjAck \/ ProjNext
            \/ \E x \in proj.list : ProjApply(x)
ProjTrouble == \E x \in proj.list : ProjRefused(x) \/ ProjDefers(x)

PipelineNext == \/ GateStep \/ GateTrouble \/ UserAsks
                \/ \E p \in Pipes : ImportEnds(p) \/ DerivationEnds(p)
                \/ Reconciles \/ UploadStep \/ UploadTrouble
                \/ ProjStep \/ ProjTrouble \/ \E j \in Jobs : LanDeliver(j)
                \/ Crash \/ Boot \/ RecoverUploads

PipelineSpec == PipelineInit /\ [][PipelineNext]_pipelineVars

\* The threads of the lanes and the projector keep running, and an operation
\* that holds the gate goes on.  The user, the imports and the derivations
\* owe nothing, and nobody has to start the application again.
PipelineFairSpec ==
    /\ PipelineSpec
    /\ WF_pipelineVars(GateStep) /\ WF_pipelineVars(Reconciles) /\ WF_pipelineVars(UploadStep)
    /\ WF_pipelineVars(ProjStep \/ ProjTrouble) /\ WF_pipelineVars(RecoverUploads)

-----------------------------------------------------------------------------
(* Properties.                                                             *)

Phases == {"on", "down", "boot_drain", "boot_reconcile", "boot_uploads", "halted"}
Rows == [policy : {"none", "import", "normalize", "upload"}, ident : Identities \cup {"none"}, der : BOOLEAN,
         up : Jobs \cup {NoJob}, admitted : BOOLEAN, action : {"none", "quality", "admit"},
         ver : Nat]

\* Types of the rows of the two stores, of what the library and the bucket
\* hold and of the phases of the process.
PipelineTypeOK ==
    /\ pipe \in [Pipes -> Rows]
    /\ imp \in [Pipes -> {"none", "running", "verified", "cancelled"}]
    /\ der \in [Pipes -> {"none", "running", "verified", "failed"}]
    /\ \A j \in Jobs : job[j].p \in 0..NumPipes /\ job[j].ck \in 0..NumObjects
                       /\ job[j].state \in Ended \cup {"queued", "preparing"}
    /\ impOut \cup derOut \subseteq Pipes
    /\ lib \in [Pipes -> SUBSET {"source", "derived", "remote"}]
    /\ remote \in [Pipes -> SUBSET (1..NumObjects)]
    /\ {settings, config} \subseteq Identities
    /\ phase \in Phases /\ owes \subseteq Lanes

\* A pipeline never loses what it was given: the derivation and the approval
\* stay, and the attached upload is only ever exchanged for a retry of an
\* attempt that failed, although a start refreshes the row from the copy that
\* it read before it reconciled.
AttachmentsKept ==
    [][\A p \in Started :
         /\ pipe[p].der => pipe'[p].der
         /\ pipe[p].admitted => pipe'[p].admitted
         /\ pipe'[p].up = pipe[p].up \/ pipe[p].up = NoJob
              \/ (job[pipe[p].up].state = "failed" /\ job[pipe[p].up].retryable
                  /\ pipe'[p].up # NoJob)]_pipelineVars

\* A bundle has at most one live attempt at one storage, however often the
\* user starts the pipeline again or retries one of its attempts, and whatever
\* steps of an earlier attempt a failed write left out.
OneLiveAttempt ==
    \A j, k \in Jobs : Live(j) /\ Live(k) /\ job[j].p = job[k].p /\ job[j].ident = job[k].ident
                        => j = k

\* Nobody who reads the bucket finds the manifest of a bundle before all its
\* objects, across failures whose last request may have arrived, retries that
\* begin again and cancellations that do not stop the worker.
ManifestIsLast ==
    \A p \in Pipes : NumObjects \in remote[p] => remote[p] = 1..NumObjects

\* What the library calls remote was proven: one attempt of the pipeline
\* verified every object and succeeded, and its source is in the library.
RemoteIsProven ==
    \A p \in Pipes : "remote" \in lib[p] =>
        /\ "source" \in lib[p] /\ remote[p] = 1..NumObjects
        /\ \E j \in Attempts(p) : job[j].state = "succeeded" /\ job[j].ck = NumObjects

\* The uploads that a pipeline names come to an end as long as the process
\* lives and its lanes were started: of the steps between the creation of the
\* row, its attachment, its wake-up and its turn, only a store that fails once
\* the attachment is durable may strand one (WakeFails, TakeFails,
\* RecordFails).
UploadsSettle ==
    []<>(phase \in {"down", "halted"} \/ used["lose"] > 0 \/ \A j \in AttachedUploads : ~Live(j))

\* "The next reconciliation will discover the row again"
\* (enqueue_attached_upload): also after such a failure.
LostIsFound ==
    []<>(phase \in {"down", "halted"} \/ \A j \in AttachedUploads : ~Live(j))

\* Completed imports and derivations reach the library, although a drain may
\* meet a derivation before the import it depends on; after a drain that
\* failed they wait for the next turn of a lane.
CompletionsProjected ==
    []<>(phase = "down" \/ used["drain"] > 0 \/ impOut \cup derOut = {})

\* The projector's rule: an outcome is acknowledged only after the library
\* shows it.
AckedIsShown ==
    \A j \in Jobs : (job[j].p # 0 /\ job[j].state = "succeeded" /\ job[j].acked)
                     => "remote" \in lib[job[j].p]

\* "A crash before this point leaves a harmless prepared row; replay will
\* attach it" (ensure_upload): what a crash leaves of an upload does not keep
\* the media graph from starting.
RecoveryCompletes == phase # "halted"

\* "Re-enqueues every non-terminal derived upload" (recover_pending_uploads):
\* an upload ends as cancelled only if the user cancelled one.
CancelledWasAsked == (\E j \in Jobs : job[j].state = "cancelled") => used["cancel"] > 0
=============================================================================
