---------------------------- MODULE MediaImport ----------------------------
(***************************************************************************)
(* The import of one recording from a removable card into the library: the *)
(* durable job with its checkpoints, the single import worker, the user's  *)
(* commands, and the scan that offers a card again once the job waits for  *)
(* it.  Cards are pulled and inserted between any two steps, and the       *)
(* process may die between any two steps.                                  *)
(*                                                                         *)
(*   row       the job's row: state, resume point, active locator, the     *)
(*             locator row behind it (fence), and for every file its       *)
(*             durable offset and verified digest; the receipt             *)
(*   strong    has_strong_resume_identity: signed, with expected digests   *)
(*   part, journal, target   the staged files: <target>.part, the offset   *)
(*             of its journal, and the finished file                       *)
(*   library   the published recording                                     *)
(*   card      the card last inserted: its media generation, the recording *)
(*             on it, and whether it is still mounted                      *)
(*   stop, writer   JobControl: stop_requested, and who holds the writer   *)
(*   wake      the job is in the MediaWakeQueue                            *)
(*   worker, user, scan      the threads                                   *)
(*                                                                         *)
(* A file is a sequence of blocks, each named by the recording its bytes   *)
(* belong to; a digest is the sequence itself.  Reading the row, deciding  *)
(* and swapping it under its version is one step: apply_external repeats a *)
(* lost swap.  The effects of a swap are steps of their own.               *)
(***************************************************************************)
EXTENDS Naturals, Sequences

CONSTANTS
    NFiles, Size,    \* files of the recording, blocks of a file
    Recordings,      \* what a card with the same claim may hold
    Signed,          \* the recording the signed inventory describes
    Users,           \* threads that issue commands
    None,
    MaxCards,        \* bound of the media generations
    MaxCommands,     \* bound of the user's accepted commands
    MaxTrouble       \* bound of crashes and failures

VARIABLES row, strong, part, journal, target, library, card, stop, writer, wake,
          worker, user, scan, asked, trouble

staging == <<part, journal, target>>
control == <<stop, writer>>
vars == <<row, strong, part, journal, target, library, card, stop, writer, wake,
          worker, user, scan, asked, trouble>>

ASSUME ImportAssumption ==
    /\ NFiles \in Nat \ {0} /\ Size \in Nat \ {0}
    /\ Signed \in Recordings /\ None \notin Recordings
    /\ MaxCards \in Nat \ {0} /\ MaxCommands \in Nat /\ MaxTrouble \in Nat

Files == 1..NFiles
Contents == UNION {[1..n -> Recordings] : n \in 0..Size}
FileOf(d) == [b \in 1..Size |-> d]
Digests == [1..Size -> Recordings]
Lesser(a, b) == IF a < b THEN a ELSE b

States == {"queued", "waiting_for_media", "preflighting", "copying", "verifying", "committing",
           "local_verified", "pausing", "paused", "cancelling", "cancelled", "retry_wait",
           "failed"}
Terminal == {"local_verified", "cancelled", "failed"}

\* None is no file, no card, no digest and no thread.
ASSUME NoneIsNone ==
    /\ None \notin Digests /\ None \notin [Files -> Digests] /\ None \notin 1..MaxCards
    /\ None \notin {"worker", "scan"}

Empty(v) == [f \in Files |-> v]

ImportInit ==
    /\ row = [state |-> "queued", from |-> "preflight", loc |-> 1, fence |-> 1,
              off |-> Empty(0), sha |-> Empty(None), receipt |-> None]
    /\ strong \in BOOLEAN
    /\ part = Empty(<<>>) /\ journal = Empty(0) /\ target = Empty(None) /\ library = None
    /\ card \in [gen : {1}, data : Recordings, mounted : {TRUE}]
    /\ stop = FALSE /\ writer = None /\ wake = TRUE
    /\ worker = [pc |-> "idle", loc |-> None, f |-> 1, src |-> None, seen |-> Empty(None),
                 next |-> "idle"]
    /\ user = [u \in Users |-> "idle"]
    /\ scan = [pc |-> "idle", loc |-> None]
    /\ asked = 0 /\ trouble = 0

-----------------------------------------------------------------------------
(* The reducer and the repository.                                         *)

resume_point(q) ==
    IF \/ q.state \in {"copying", "verifying", "committing"}
       \/ q.state \in {"pausing", "paused", "retry_wait"} /\ q.from = "copy"
    THEN "copy" ELSE "preflight"

\* A terminal snapshot is only taken with its completion, and only
\* commit_local_verified offers one.
Storable(q) == q.state \notin {"cancelled", "failed"}

\* The locator row follows the active locator.
Persisted(q) == IF q.loc = None THEN q ELSE [q EXCEPT !.fence = q.loc]

RequestPause(q) == [q EXCEPT !.state = "pausing", !.from = resume_point(q)]
RequestCancel(q) == [q EXCEPT !.state = "cancelling", !.from = "preflight"]
ToQueue(q) == [q EXCEPT !.state = "queued", !.from = "preflight"]
Start(q) == [q EXCEPT !.state = "preflighting", !.loc = IF @ = None THEN 1 ELSE @]
SourceUnavailable(q) ==
    [q EXCEPT !.state = "waiting_for_media", !.from = resume_point(q), !.loc = None]
RetryableFailure(q) == [q EXCEPT !.state = "retry_wait", !.from = resume_point(q)]

\* Mutant: the checkpoints of the former card are kept.
ProgressKept(q) == [q EXCEPT !.loc = None, !.from = "preflight"]

ResetProgressForSource(q) ==
    [q EXCEPT !.loc = None, !.from = "preflight", !.off = Empty(0), !.sha = Empty(None)]

\* A checkpoint that falls behind the stored one is refused.
CopyCheckpoint(q, f, n) ==
    IF n < q.off[f] \/ n > Size THEN q ELSE [q EXCEPT !.off[f] = n]

-----------------------------------------------------------------------------
(* Commands of the user: the swap, its effect, and for pause and cancel    *)
(* the acknowledgement once the writer is free.                            *)

Ask(u, next, pc) ==
    /\ user[u] = "idle" /\ asked < MaxCommands
    /\ next # row
    /\ row' = Persisted(next)
    /\ user' = [user EXCEPT ![u] = pc]
    /\ asked' = asked + 1
    /\ UNCHANGED <<strong, staging, library, card, control, wake, worker, scan, trouble>>

Pause(u) == row.state \notin Terminal /\ Ask(u, RequestPause(row), "pause")
Cancel(u) == row.state \notin Terminal /\ Ask(u, RequestCancel(row), "cancel")
Resume(u) == row.state = "paused" /\ Ask(u, ToQueue(row), "start")
Retry(u) == row.state = "retry_wait" /\ Ask(u, ToQueue(row), "start")

\* CancelIo.
StopWorker(u) ==
    /\ user[u] \in {"pause", "cancel"}
    /\ stop' = TRUE
    /\ user' = [user EXCEPT ![u] = IF @ = "pause" THEN "pause_ack" ELSE "cancel_ack"]
    /\ UNCHANGED <<row, strong, staging, library, card, writer, wake, worker, scan, asked, trouble>>

\* Mutant: the acknowledgement does not wait for the writer.
WriterUnheard == TRUE

WriterFree == writer = None

\* PauseCompleted or CancellationCompleted, under the writer's lock; refused
\* when the job has moved on, or when the repository does not take it.
Acknowledge(u) ==
    LET done == [row EXCEPT !.state = IF user[u] = "pause_ack" THEN "paused" ELSE "cancelled"]
        due == IF user[u] = "pause_ack" THEN "pausing" ELSE "cancelling"
    IN /\ user[u] \in {"pause_ack", "cancel_ack"}
       /\ WriterFree
       /\ row' = IF row.state = due /\ Storable(done) THEN done ELSE row
       /\ user' = [user EXCEPT ![u] = "idle"]
       /\ UNCHANGED <<strong, staging, library, card, control, wake, worker, scan, asked, trouble>>

\* clear_stop and Schedule, after the swap of a resume or a retry.
Schedule(u) ==
    /\ user[u] = "start"
    /\ stop' = FALSE /\ wake' = TRUE
    /\ user' = [user EXCEPT ![u] = "idle"]
    /\ UNCHANGED <<row, strong, staging, library, card, writer, worker, scan, asked, trouble>>

-----------------------------------------------------------------------------
(* source_available: a card with the job's claim is offered to a job that  *)
(* waits for it.                                                           *)

acquisition_fence_changed(q, gen) == q.fence # gen

OfferSource ==
    /\ scan.pc = "idle" /\ card.mounted
    /\ row.state = "waiting_for_media" /\ writer = None
    /\ writer' = "scan"
    /\ LET fresh == acquisition_fence_changed(row, card.gen) /\ ~strong
       IN /\ scan' = [pc |-> IF fresh THEN "discard" ELSE "offer", loc |-> card.gen]
          /\ row' = IF fresh THEN ResetProgressForSource(row) ELSE row
    /\ UNCHANGED <<strong, staging, library, card, stop, wake, worker, user, asked, trouble>>

DiscardStaging ==
    /\ scan.pc = "discard"
    /\ part' = Empty(<<>>) /\ journal' = Empty(0) /\ target' = Empty(None)
    /\ scan' = [scan EXCEPT !.pc = "offer"]
    /\ UNCHANGED <<row, strong, library, card, control, wake, worker, user, asked, trouble>>

SourceAvailable ==
    /\ scan.pc = "offer"
    /\ IF row.state = "waiting_for_media"
       THEN /\ row' = Persisted([row EXCEPT !.loc = scan.loc, !.from = "preflight", !.state =
                          IF row.from = "copy" THEN "copying" ELSE "preflighting"])
            /\ scan' = [scan EXCEPT !.pc = "start"]
            /\ UNCHANGED writer
       ELSE /\ scan' = [pc |-> "idle", loc |-> None]
            /\ writer' = None
            /\ UNCHANGED row
    /\ UNCHANGED <<strong, staging, library, card, stop, wake, worker, user, asked, trouble>>

ScheduleSource ==
    /\ scan.pc = "start"
    /\ stop' = FALSE /\ wake' = TRUE /\ writer' = None
    /\ scan' = [pc |-> "idle", loc |-> None]
    /\ UNCHANGED <<row, strong, staging, library, card, worker, user, asked, trouble>>

-----------------------------------------------------------------------------
(* The worker: run_to_quiescence and its phases.                           *)

At(pc) == worker.pc = pc
Goto(pc) == worker' = [worker EXCEPT !.pc = pc]
Leave(pc) == Goto(pc) /\ writer' = None

env == <<strong, card, user, scan, asked>>
files == <<staging, library>>

TakeWake ==
    /\ At("idle") /\ wake
    /\ wake' = FALSE
    /\ worker' = [worker EXCEPT !.pc = "loop", !.seen = Empty(None)]
    /\ UNCHANGED <<row, env, files, control, trouble>>

\* run_import_once: a wake that arrived during the turn makes another one.
FinishTurn ==
    /\ At("finish")
    /\ wake' = FALSE
    /\ worker' = [worker EXCEPT !.pc = IF wake THEN "loop" ELSE "idle", !.seen = Empty(None)]
    /\ UNCHANGED <<row, env, files, control, trouble>>

Phase(state) ==
    CASE state = "preflighting" -> "preflight" [] state = "copying" -> "copy"
      [] state = "verifying" -> "verify"       [] state = "committing" -> "commit"
      [] OTHER -> "finish"

\* One round of the loop: the stop request, then what the row asks for.
Round ==
    /\ At("loop")
    /\ IF ~stop /\ row.state = "queued"
       THEN row' = Persisted(Start(row)) /\ wake' = TRUE /\ UNCHANGED worker
       ELSE /\ worker' = [worker EXCEPT !.pc = IF stop THEN "finish" ELSE Phase(row.state),
                                        !.loc = row.loc]
            /\ UNCHANGED <<row, wake>>
    /\ UNCHANGED <<env, files, control, trouble>>

\* Every phase takes the writer and looks again before it does anything.
Enter(phase, state, step) ==
    /\ At(phase) /\ writer = None
    /\ IF \/ stop \/ row.state # state
          \/ phase \in {"preflight", "copy"} /\ row.loc # worker.loc
       THEN Goto("loop") /\ UNCHANGED writer
       ELSE worker' = [worker EXCEPT !.pc = step, !.f = 1] /\ writer' = "worker"
    /\ UNCHANGED <<row, env, files, stop, wake, trouble>>

EnterPreflight == Enter("preflight", "preflighting", "space")
EnterCopy == Enter("copy", "copying", "resolve")
EnterVerify == Enter("verify", "verifying", "evidence")
EnterCommit == Enter("commit", "committing", "seal")

\* The card of the locator is mounted and has not changed.
generation_matches == card.mounted /\ card.gen = worker.loc

\* SourceUnavailable: the job waits for its card, unless it has moved on.
LoseSource(after) ==
    /\ IF row.state \in {"preflighting", "copying"}
       THEN /\ row' = SourceUnavailable(row)
            /\ worker' = [worker EXCEPT !.pc = "unmount", !.next = after]
            /\ UNCHANGED writer
       ELSE Leave("loop") /\ UNCHANGED row
    /\ UNCHANGED <<env, files, stop, wake, trouble>>

\* apply_failure with a retryable failure: whatever the state has become.
Fail(after) ==
    /\ row' = RetryableFailure(row)
    /\ worker' = [worker EXCEPT !.pc = "backoff", !.next = after]
    /\ UNCHANGED <<env, files, control, wake>>

\* The effects of those two swaps, then the writer is released.
StopAfterFailure ==
    /\ worker.pc \in {"unmount", "backoff"}
    /\ stop' = TRUE
    /\ wake' = (wake \/ At("backoff"))
    /\ Leave(worker.next)
    /\ UNCHANGED <<row, env, files, trouble>>

\* A permanent failure asks for the state failed, which the repository
\* refuses: the turn ends with an error and the row stays as it was.
FailPermanently ==
    /\ ~Storable([row EXCEPT !.state = "failed"])
    /\ Leave("idle")
    /\ UNCHANGED <<row, env, files, stop, wake>>

PreflightPasses ==
    /\ At("space") /\ generation_matches
    /\ row' = IF row.state = "preflighting" THEN [row EXCEPT !.state = "copying"] ELSE row
    /\ wake' = (wake \/ row.state = "preflighting")
    /\ Leave("loop")
    /\ UNCHANGED <<env, files, stop, trouble>>

PreflightLosesSource == At("space") /\ ~generation_matches /\ LoseSource("loop")

NoSpace ==
    /\ At("space") /\ trouble < MaxTrouble
    /\ trouble' = trouble + 1
    /\ Fail("loop")

\* run_copy: the source is opened, and the files are taken in order.
ResolveSource ==
    /\ At("resolve") /\ generation_matches
    /\ worker' = [worker EXCEPT !.pc = "file", !.src = card.data, !.seen = Empty(None)]
    /\ UNCHANGED <<row, env, files, control, wake, trouble>>

CopyLosesSource ==
    /\ worker.pc \in {"resolve", "rehash", "block"} /\ ~generation_matches
    /\ ~(At("block") /\ stop)
    /\ LoseSource("finish")

f == worker.f
Seen(digest) == [worker EXCEPT !.pc = "file", !.seen[f] = digest, !.f = @ + 1]

NextFile ==
    /\ At("file") /\ f \in Files
    /\ IF stop \/ row.state # "copying" THEN Leave("loop")
       ELSE /\ worker' = IF row.sha[f] # None THEN Seen(row.sha[f])
                         ELSE [worker EXCEPT !.pc = "inspect"]
            /\ UNCHANGED writer
    /\ UNCHANGED <<row, env, files, stop, wake, trouble>>

\* What the signed inventory expects of a file's source, if it says.
Expected(digest) == strong => digest = FileOf(Signed)

\* The blocks the row, the journal and the part file all vouch for.
Durable(g) == Lesser(row.off[g], Lesser(journal[g], Len(part[g])))

\* The part of copy_one_file that looks at what is already staged: an
\* unbound or wrong target goes, a trusted or re-readable one stays.
InspectTarget ==
    /\ At("inspect")
    /\ LET bad == target[f] # None /\ ~Expected(target[f])
           unbound == ~strong /\ row.off[f] = 0
       IN IF target[f] # None /\ ~bad /\ ~unbound
          THEN /\ Goto(IF strong THEN "checkpoint_whole" ELSE "rehash")
               /\ UNCHANGED staging
          ELSE /\ target' = [target EXCEPT ![f] = None]
               /\ part' = [part EXCEPT ![f] = SubSeq(@, 1, Durable(f))]
               /\ Goto("block") /\ UNCHANGED journal
    /\ UNCHANGED <<row, env, library, control, wake, trouble>>

\* Mutant: only the length is compared.
SameLength(source, copy) == Len(source) = Len(copy)

verify_digests(source, copy) == source = copy /\ Expected(source)

\* hash_source_exact: a staged file no digest vouches for is compared with
\* the source again.
Rehash ==
    /\ At("rehash") /\ generation_matches
    /\ IF verify_digests(FileOf(worker.src), target[f])
       THEN Goto("checkpoint_whole") /\ UNCHANGED <<row, env, files, control, wake>>
       ELSE FailPermanently
    /\ UNCHANGED trouble

\* persist_checkpoint refuses once the job has been stopped or moved on.
Checkpointed(n, next) ==
    /\ IF stop \/ row.state # "copying"
       THEN Leave("loop") /\ UNCHANGED row
       ELSE row' = CopyCheckpoint(row, f, n) /\ worker' = next /\ UNCHANGED writer
    /\ UNCHANGED <<env, files, stop, wake, trouble>>

CheckpointWhole == At("checkpoint_whole") /\ Checkpointed(Size, Seen(target[f]))

\* copy_source_to_partial: a block is read and written ...
CopyBlock ==
    /\ At("block") /\ Len(part[f]) < Size
    /\ IF stop THEN Leave("loop") /\ UNCHANGED part
       ELSE /\ generation_matches
            /\ part' = [part EXCEPT ![f] = Append(@, worker.src)]
            /\ Goto("sync") /\ UNCHANGED writer
    /\ UNCHANGED <<row, env, journal, target, library, stop, wake, trouble>>

\* ... flushed, then noted in the journal ...
SyncBlock ==
    /\ At("sync")
    /\ journal' = [journal EXCEPT ![f] = Len(part[f])]
    /\ Goto("checkpoint")
    /\ UNCHANGED <<row, env, part, target, library, control, wake, trouble>>

\* ... and in the row.
CheckpointBlock ==
    At("checkpoint") /\ Checkpointed(Len(part[f]), [worker EXCEPT !.pc = "block"])

\* A part file that is already whole still has its prefix hashed.
CopyDone ==
    /\ At("block") /\ Len(part[f]) = Size /\ generation_matches
    /\ Goto("digest")
    /\ UNCHANGED <<row, env, files, control, wake, trouble>>

CopyFails ==
    /\ worker.pc \in {"block", "sync"} /\ trouble < MaxTrouble
    /\ trouble' = trouble + 1
    /\ \/ Fail("finish")
       \/ FailPermanently

\* The digests agree: the part file becomes the target.
CommitPart ==
    /\ At("digest")
    /\ IF ~verify_digests(FileOf(worker.src), part[f]) THEN FailPermanently
       ELSE /\ IF stop THEN Leave("loop") /\ UNCHANGED staging
               ELSE /\ target' = [target EXCEPT ![f] = part[f]]
                    /\ part' = [part EXCEPT ![f] = <<>>]
                    /\ journal' = [journal EXCEPT ![f] = 0]
                    /\ worker' = Seen(part[f])
                    /\ UNCHANGED writer
            /\ UNCHANGED <<row, env, library, stop, wake>>
    /\ UNCHANGED trouble

CopyFinished ==
    /\ At("file") /\ f > NFiles
    /\ LET done == row.state = "copying" /\ \A g \in Files : row.off[g] = Size
       IN /\ row' = IF done THEN [row EXCEPT !.state = "verifying"] ELSE row
          /\ wake' = (wake \/ done)
    /\ Leave("loop")
    /\ UNCHANGED <<env, files, stop, trouble>>

\* run_verification: the evidence of this turn, or of the row.
Evidence(g) == IF row.sha[g] # None THEN row.sha[g] ELSE worker.seen[g]

VerifyFile ==
    /\ At("evidence") /\ f \in Files /\ Evidence(f) # None
    /\ IF row.state = "verifying"
       THEN /\ row' = [row EXCEPT !.sha[f] = Evidence(f)]
            /\ worker' = [worker EXCEPT !.f = @ + 1]
            /\ UNCHANGED writer
       ELSE Leave("loop") /\ UNCHANGED row
    /\ UNCHANGED <<env, files, stop, wake, trouble>>

EvidenceLost ==
    /\ At("evidence") /\ f \in Files /\ Evidence(f) = None
    /\ Fail("loop") /\ UNCHANGED trouble

VerificationPassed ==
    /\ At("evidence") /\ f > NFiles
    /\ row' = IF row.state = "verifying" THEN [row EXCEPT !.state = "committing"] ELSE row
    /\ wake' = (wake \/ row.state = "verifying")
    /\ Leave("loop")
    /\ UNCHANGED <<env, files, stop, trouble>>

\* run_commit: the staged files are checked against the manifest, unless
\* the revision is already visible.  Any error ends the turn.
Seal ==
    /\ At("seal")
    /\ IF library = None /\ \E g \in Files : target[g] # row.sha[g] THEN Leave("idle")
       ELSE IF stop THEN Leave("loop") ELSE Goto("publish") /\ UNCHANGED writer
    /\ UNCHANGED <<row, env, files, stop, wake, trouble>>

\* The publish lease is busy, or a rename fails.
CommitFails ==
    /\ worker.pc \in {"seal", "publish"} /\ trouble < MaxTrouble
    /\ trouble' = trouble + 1
    /\ Leave("idle")
    /\ UNCHANGED <<row, env, files, stop, wake>>

Publish ==
    /\ At("publish")
    /\ IF library = None THEN library' = target /\ target' = Empty(None)
       ELSE UNCHANGED <<library, target>>
    /\ Goto("receipt")
    /\ UNCHANGED <<row, env, part, journal, control, wake, trouble>>

CommitSucceeded ==
    /\ At("receipt")
    /\ row' = IF row.state = "committing"
              THEN [row EXCEPT !.state = "local_verified", !.receipt = row.sha] ELSE row
    /\ Leave("loop")
    /\ UNCHANGED <<env, files, stop, wake, trouble>>

-----------------------------------------------------------------------------
(* The card, and the process.                                              *)

RemoveCard ==
    /\ card.mounted
    /\ card' = [card EXCEPT !.mounted = FALSE]
    /\ UNCHANGED <<row, strong, files, control, wake, worker, user, scan, asked, trouble>>

\* Another card with the same claim, or the same card again: a new generation.
InsertCard(d) ==
    /\ ~card.mounted /\ card.gen < MaxCards
    /\ card' = [gen |-> card.gen + 1, data |-> d, mounted |-> TRUE]
    /\ UNCHANGED <<row, strong, files, control, wake, worker, user, scan, asked, trouble>>

\* recover_pending_imports: these states are woken, the others wait.
should_resume_on_worker ==
    row.state \in {"queued", "preflighting", "copying", "verifying", "committing"}

\* The process dies and starts again: what was not flushed may be gone.
Restart ==
    /\ trouble < MaxTrouble
    /\ trouble' = trouble + 1
    /\ \E n \in [Files -> 0..Size] :
          /\ \A g \in Files : n[g] \in Durable(g)..Len(part[g])
          /\ part' = [g \in Files |-> SubSeq(part[g], 1, n[g])]
    /\ stop' = FALSE /\ writer' = None /\ wake' = should_resume_on_worker
    /\ worker' = [worker EXCEPT !.pc = "idle", !.seen = Empty(None)]
    /\ user' = [u \in Users |-> "idle"]
    /\ scan' = [pc |-> "idle", loc |-> None]
    /\ UNCHANGED <<row, strong, journal, target, library, card, asked>>

-----------------------------------------------------------------------------
WorkerStep ==
    \/ TakeWake \/ FinishTurn \/ Round
    \/ EnterPreflight \/ EnterCopy \/ EnterVerify \/ EnterCommit
    \/ PreflightPasses \/ PreflightLosesSource
    \/ ResolveSource \/ CopyLosesSource \/ NextFile \/ InspectTarget \/ Rehash
    \/ CheckpointWhole \/ CopyBlock \/ SyncBlock \/ CheckpointBlock \/ CopyDone
    \/ CommitPart \/ CopyFinished \/ StopAfterFailure
    \/ VerifyFile \/ EvidenceLost \/ VerificationPassed
    \/ Seal \/ Publish \/ CommitSucceeded

UserStep(u) == StopWorker(u) \/ Acknowledge(u) \/ Schedule(u)
ScanStep == OfferSource \/ DiscardStaging \/ SourceAvailable \/ ScheduleSource
Command(u) == Pause(u) \/ Cancel(u) \/ Resume(u) \/ Retry(u)
Trouble == NoSpace \/ CopyFails \/ CommitFails \/ Restart
CardMoves == RemoveCard \/ \E d \in Recordings : InsertCard(d)

ImportNext ==
    \/ WorkerStep \/ ScanStep \/ Trouble \/ CardMoves
    \/ \E u \in Users : Command(u) \/ UserStep(u)

ImportSpec == ImportInit /\ [][ImportNext]_vars

\* The threads run: the worker, the scan, and a command that has begun.
ImportFairSpec ==
    /\ ImportSpec
    /\ WF_vars(WorkerStep) /\ WF_vars(ScanStep)
    /\ \A u \in Users : WF_vars(UserStep(u))

-----------------------------------------------------------------------------
Steps == {"idle", "loop", "finish", "preflight", "copy", "verify", "commit", "space", "resolve",
          "file", "inspect", "rehash", "checkpoint_whole", "block", "sync", "checkpoint",
          "digest", "evidence", "seal", "publish", "receipt", "unmount", "backoff"}

JobRow == [state : States, from : {"preflight", "copy"}, loc : 1..MaxCards \cup {None},
           fence : 1..MaxCards, off : [Files -> 0..Size], sha : [Files -> Digests \cup {None}],
           receipt : [Files -> Digests] \cup {None}]
Worker == [pc : Steps, loc : 1..MaxCards \cup {None}, f : 1..(NFiles + 1),
           src : Recordings \cup {None}, seen : [Files -> Digests \cup {None}],
           next : {"idle", "loop", "finish"}]
Card == [gen : 1..MaxCards, data : Recordings, mounted : BOOLEAN]
Scan == [pc : {"idle", "discard", "offer", "start"}, loc : 1..MaxCards \cup {None}]

\* ImportTypeOK: every variable has its type; no checkpoint passes the end of
\* its file (reduce, CopyCheckpoint).
ImportTypeOK ==
    /\ row \in JobRow /\ worker \in Worker /\ card \in Card /\ scan \in Scan
    /\ strong \in BOOLEAN /\ stop \in BOOLEAN /\ wake \in BOOLEAN
    /\ part \in [Files -> Seq(Recordings)] /\ journal \in [Files -> 0..Size]
    /\ \A g \in Files : Len(part[g]) <= Size
    /\ target \in [Files -> Digests \cup {None}]
    /\ library \in [Files -> Digests] \cup {None}
    /\ writer \in {None, "worker", "scan"}
    /\ user \in [Users -> {"idle", "pause", "cancel", "pause_ack", "cancel_ack", "start"}]
    /\ asked \in 0..MaxCommands /\ trouble \in 0..MaxTrouble

\* PausedImportIsQuiet: once a pause has been acknowledged, no worker is in the
\* middle of a phase: it copies, seals and publishes nothing for a paused job
\* (command_impl, the writer lock of JobControl).
PausedImportIsQuiet == row.state = "paused" => writer # "worker"

\* VerifiedIsOnDisk: a file the row calls verified lies on the disk with that
\* digest, staged or published, through crashes, replaced cards and the
\* discarding of the staging directory (source_available, run_verification).
VerifiedIsOnDisk ==
    \A g \in Files : row.sha[g] # None =>
        \/ target[g] = row.sha[g]
        \/ library # None /\ library[g] = row.sha[g]

\* OneRecording: what is published, and what a receipt describes, comes from
\* one recording and never mixes the files of two cards; of a signed source it
\* is the recording that was signed (source_available, verify_digests).
OneRecording ==
    \A pub \in {library, row.receipt} \ {None} :
        \E d \in Recordings : /\ strong => d = Signed
                              /\ \A g \in Files : pub[g] = FileOf(d)

\* CancelledImportEnds: an import that is being cancelled ends as cancelled
\* (command_impl, compare_and_swap).
CancelledImportEnds == row.state = "cancelling" ~> row.state = "cancelled"

\* ReceiptIsTrue: the receipt of a verified import describes what the library
\* shows (run_commit, which accepts a publication that is already there, and
\* complete_import_job).
ReceiptIsTrue == row.state = "local_verified" => library = row.receipt
=============================================================================
