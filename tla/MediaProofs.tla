---------------------------- MODULE MediaProofs ----------------------------
(***************************************************************************)
(* The import of a recording is proved for every number of files, blocks,  *)
(* recordings, users, cards, commands and failures: a paused import is     *)
(* quiet, a verified file is on the disk, and what is published or         *)
(* receipted comes from one recording.                                     *)
(*                                                                         *)
(* None of the three is inductive.  ImportInv adds who holds the writer    *)
(* (WriterIsHeld), which locator is behind the fence (FenceFollows), what  *)
(* the worker's open source is (CopiesFromActive, FileInHand), what an     *)
(* offered card may find (OfferIsSafe) and what a commit begins with       *)
(* (CommitIsWhole), and states the last two for the digests of the turn as *)
(* well as for those of the row (EvidenceIsOne, EvidenceIsOnDisk).         *)
(*                                                                         *)
(* The pipelines are proved for every number of pipelines, upload rows,    *)
(* objects, storages, crashes, failures and commands: a bundle has one     *)
(* live attempt at a storage, its manifest comes last, the library calls   *)
(* remote what an attempt proved, and a pipeline keeps what it was given.  *)
(* PipelineInv joins the two stores, whose writes are separate commits:    *)
(* what a row names is an upload of its pipeline and its storage (RowsOwn, *)
(* Lineage), what a checkpoint counts is in the bucket (Verified), and the *)
(* copy of a row that an operation under the gate carries is the row, or   *)
(* has an older version (GateHolds); LaneHolds and ProjHolds say what the  *)
(* lane and the projector have in hand.                                    *)
(***************************************************************************)
EXTENDS MediaImport, MediaPipeline, SequenceTheorems, TLAPS

\* The steps of the worker that hold the writer, and those of them at which
\* the source is open.
Opened == {"file", "inspect", "rehash", "checkpoint_whole", "block", "sync", "checkpoint", "digest"}
Writing == Opened \cup {"space", "resolve", "evidence", "seal", "publish", "receipt", "unmount",
                        "backoff"}

\* The writer is held exactly by the thread that is inside a phase or an offer.
WriterIsHeld ==
    /\ writer = "worker" <=> worker.pc \in Writing
    /\ writer = "scan" <=> scan.pc # "idle"

\* A locator that is active is the one behind the fence, and no fence is ahead
\* of the cards.
FenceFollows ==
    /\ row.loc # None => row.loc = row.fence
    /\ row.fence <= card.gen
    /\ scan.pc # "idle" => scan.loc \in 1..card.gen

\* The worker copies from the card that the row names.
CopiesFromActive ==
    /\ worker.pc = "resolve" => worker.loc = row.loc
    /\ worker.pc \in Opened =>
         worker.loc = row.fence /\ worker.src \in Recordings
           /\ (worker.loc = card.gen => worker.src = card.data)

\* The recording an open source may prove.
Origin == IF strong THEN Signed ELSE worker.src

\* The digests of this turn count while it copies and until they are in the row.
SeenCounts == worker.pc \in Opened \/ row.state \in {"verifying", "committing"}

\* All the evidence comes from one recording: the signed one, or that of the
\* card behind the fence.
EvidenceOf(d) ==
    /\ strong => d = Signed
    /\ ~strong /\ row.fence = card.gen => d = card.data
    /\ worker.pc \in Opened => d = Origin
    /\ \A g \in Files : /\ row.sha[g] # None => row.sha[g] = FileOf(d)
                        /\ SeenCounts /\ worker.seen[g] # None => worker.seen[g] = FileOf(d)
EvidenceIsOne == \E d \in Recordings : EvidenceOf(d)

\* And it is on the disk.
OnDisk(g, x) == target[g] = x \/ (library # None /\ library[g] = x)
EvidenceIsOnDisk ==
    \A g \in Files : /\ row.sha[g] # None => OnDisk(g, row.sha[g])
                     /\ SeenCounts /\ worker.seen[g] # None => OnDisk(g, worker.seen[g])

\* The file in hand has no evidence yet, and one that is taken as it is was
\* compared with the source.
InHand == Opened \ {"file"}
FileInHand ==
    /\ worker.pc \in InHand => f \in Files /\ row.sha[f] = None
    /\ worker.pc \in Opened => \A g \in Files : worker.seen[g] # None => g < f
    /\ worker.pc = "checkpoint_whole" => target[f] = FileOf(Origin)

\* While a card is offered the evidence is that of this card or gone.
OfferIsSafe ==
    scan.pc \in {"discard", "offer"} =>
        /\ row.state \notin {"verifying", "committing"}
        /\ scan.pc = "discard" => \A g \in Files : row.sha[g] = None
        /\ row.state = "waiting_for_media" /\ ~strong =>
             row.fence = scan.loc \/ \A g \in Files : row.sha[g] = None

\* A commit has the evidence of every file, and publishes what it sealed.
CommitIsWhole ==
    /\ worker.pc = "evidence" => \A g \in Files : g < f => row.sha[g] # None
    /\ (row.state = "committing" \/ worker.pc \in {"seal", "publish", "receipt"})
         => \A g \in Files : row.sha[g] # None
    /\ worker.pc = "publish" /\ library = None => \A g \in Files : target[g] = row.sha[g]

ImportInv ==
    /\ ImportTypeOK /\ WriterIsHeld /\ PausedImportIsQuiet
    /\ FenceFollows /\ CopiesFromActive /\ EvidenceIsOne /\ EvidenceIsOnDisk
    /\ FileInHand /\ OfferIsSafe /\ CommitIsWhole /\ OneRecording

(* What the reducer and the repository make of a row is a row. *)
LEMMA RowMoves ==
    ASSUME NEW r \in JobRow
    PROVE  /\ \A s \in States : [r EXCEPT !.state = s] \in JobRow
           /\ Persisted(r) \in JobRow /\ RequestPause(r) \in JobRow /\ RequestCancel(r) \in JobRow
           /\ ToQueue(r) \in JobRow /\ Start(r) \in JobRow /\ SourceUnavailable(r) \in JobRow
           /\ RetryableFailure(r) \in JobRow /\ ResetProgressForSource(r) \in JobRow
           /\ \A g \in Files, n \in Nat : CopyCheckpoint(r, g, n) \in JobRow
<1>1. \A s \in States : [r EXCEPT !.state = s] \in JobRow
  BY DEF JobRow
<1>2. Persisted(r) \in JobRow
  BY DEF JobRow, Persisted
<1>3. resume_point(r) \in {"preflight", "copy"}
  BY DEF resume_point
<1>4. /\ RequestPause(r) \in JobRow /\ RequestCancel(r) \in JobRow /\ ToQueue(r) \in JobRow
      /\ RetryableFailure(r) \in JobRow
  BY <1>3 DEF JobRow, RequestPause, RequestCancel, ToQueue, RetryableFailure, States
<1>5. SourceUnavailable(r) \in JobRow
  BY <1>3 DEF JobRow, SourceUnavailable, States
<1>6. Start(r) \in JobRow
  <2>1. (IF r.loc = None THEN 1 ELSE r.loc) \in 1..MaxCards \cup {None}
    BY ImportAssumption DEF JobRow
  <2> QED BY <2>1 DEF JobRow, Start, States
<1>7. ResetProgressForSource(r) \in JobRow
  <2>1. Empty(0) \in [Files -> 0..Size] /\ Empty(None) \in [Files -> Digests \cup {None}]
    BY ImportAssumption DEF Empty
  <2> QED BY <2>1 DEF JobRow, ResetProgressForSource
<1>8. ASSUME NEW g \in Files, NEW n \in Nat
      PROVE  CopyCheckpoint(r, g, n) \in JobRow
  <2>1. CASE n > Size
    BY <2>1 DEF CopyCheckpoint
  <2>2. CASE n \in 0..Size
    BY <2>2 DEF CopyCheckpoint, JobRow
  <2> QED BY <2>1, <2>2, ImportAssumption
<1> QED BY <1>1, <1>2, <1>4, <1>5, <1>6, <1>7, <1>8

(* What a step of the worker makes of its local state. *)
LEMMA WorkerMoves ==
    ASSUME NEW w \in Worker
    PROVE  /\ \A pc \in Steps : /\ [w EXCEPT !.pc = pc] \in Worker
                                /\ [w EXCEPT !.pc = pc, !.seen = Empty(None)] \in Worker
                                /\ [w EXCEPT !.pc = pc, !.f = 1] \in Worker
           /\ \A pc \in Steps, l \in 1..MaxCards \cup {None} :
                 [w EXCEPT !.pc = pc, !.loc = l] \in Worker
           /\ \A pc \in Steps, n \in {"idle", "loop", "finish"} :
                 [w EXCEPT !.pc = pc, !.next = n] \in Worker
           /\ \A pc \in Steps, d \in Recordings :
                 [w EXCEPT !.pc = pc, !.src = d, !.seen = Empty(None)] \in Worker
           /\ w.f \in Files => [w EXCEPT !.f = @ + 1] \in Worker
           /\ w.f \in Files => \A x \in Digests \cup {None} :
                 [w EXCEPT !.pc = "file", !.seen[w.f] = x, !.f = @ + 1] \in Worker
<1>1. Empty(None) \in [Files -> Digests \cup {None}]
  BY DEF Empty
<1>2. 1 \in 1..(NFiles + 1) /\ (w.f \in Files => w.f + 1 \in 1..(NFiles + 1))
  BY ImportAssumption DEF Files
<1>3. "file" \in Steps
  BY DEF Steps
<1> QED BY <1>1, <1>2, <1>3 DEF Worker


(* The row stays a row. *)
LEMMA RowType ==
    ASSUME ImportTypeOK, FileInHand, CommitIsWhole, ImportNext
    PROVE  row' \in JobRow
<1>0. row \in JobRow /\ worker \in Worker /\ card \in Card /\ scan \in Scan
  BY DEF ImportTypeOK
<1>1. CASE Round
  <2>1. Persisted(Start(row)) \in JobRow
    BY <1>0, RowMoves
  <2> QED BY <1>0, <1>1, <2>1 DEF Round
<1>2. CASE \/ PreflightPasses \/ CopyFinished \/ VerificationPassed
  <2>1. \A s \in {"copying", "verifying", "committing"} : [row EXCEPT !.state = s] \in JobRow
    BY <1>0, RowMoves DEF States
  <2> QED BY <1>0, <1>2, <2>1 DEF PreflightPasses, CopyFinished, VerificationPassed
<1>3. CASE PreflightLosesSource \/ CopyLosesSource
  <2>1. SourceUnavailable(row) \in JobRow
    BY <1>0, RowMoves
  <2> QED BY <1>0, <1>3, <2>1 DEF PreflightLosesSource, CopyLosesSource, LoseSource
<1>4. CASE EvidenceLost \/ NoSpace \/ CopyFails
  <2>1. RetryableFailure(row) \in JobRow
    BY <1>0, RowMoves
  <2> QED BY <1>0, <1>4, <2>1 DEF EvidenceLost, NoSpace, CopyFails, Fail, FailPermanently
<1>5. CASE CheckpointWhole
  <2>1. f \in Files
    BY <1>5 DEF CheckpointWhole, At, FileInHand, InHand, Opened
  <2>2. CopyCheckpoint(row, f, Size) \in JobRow
    BY <1>0, <2>1, RowMoves, ImportAssumption
  <2> QED BY <1>0, <1>5, <2>2 DEF CheckpointWhole, Checkpointed
<1>6. CASE CheckpointBlock
  <2>1. f \in Files
    BY <1>6 DEF CheckpointBlock, At, FileInHand, InHand, Opened
  <2>2. Len(part[f]) \in Nat
    BY <2>1, LenProperties DEF ImportTypeOK
  <2>3. CopyCheckpoint(row, f, Len(part[f])) \in JobRow
    BY <1>0, <2>1, <2>2, RowMoves
  <2> QED BY <1>0, <1>6, <2>3 DEF CheckpointBlock, Checkpointed
<1>7. CASE VerifyFile
  <2>1. f \in Files /\ row.sha \in [Files -> Digests \cup {None}]
           /\ worker.seen \in [Files -> Digests \cup {None}]
    BY <1>0, <1>7 DEF VerifyFile, JobRow, Worker
  <2>2. Evidence(f) \in Digests \cup {None}
    BY <2>1 DEF Evidence
  <2>3. \A x \in Digests \cup {None} : [row EXCEPT !.sha[f] = x] \in JobRow
    BY <1>0, <2>1 DEF JobRow
  <2> QED BY <1>0, <1>7, <2>2, <2>3 DEF VerifyFile
<1>8. CASE CommitSucceeded
  <2>1. CASE row.state = "committing"
    <3>1. \A g \in Files : row.sha[g] # None
      BY <1>8, <2>1 DEF CommitIsWhole
    <3>2. row.sha \in [Files -> Digests]
      BY <1>0, <3>1 DEF JobRow
    <3>3. [row EXCEPT !.state = "local_verified", !.receipt = row.sha] \in JobRow
      BY <1>0, <3>2 DEF JobRow, States
    <3> QED BY <1>8, <2>1, <3>3 DEF CommitSucceeded
  <2> QED BY <1>0, <1>8, <2>1 DEF CommitSucceeded
<1>9. CASE OfferSource
  <2>1. ResetProgressForSource(row) \in JobRow
    BY <1>0, RowMoves
  <2> QED BY <1>0, <1>9, <2>1 DEF OfferSource
<1>10. CASE SourceAvailable
  <2>1. scan.loc \in 1..MaxCards \cup {None}
    BY <1>0 DEF Scan
  <2>2. \A s \in {"copying", "preflighting"} :
           [row EXCEPT !.loc = scan.loc, !.from = "preflight", !.state = s] \in JobRow
    BY <1>0, <2>1 DEF JobRow, States
  <2>3. \A s \in {"copying", "preflighting"} :
           Persisted([row EXCEPT !.loc = scan.loc, !.from = "preflight", !.state = s]) \in JobRow
    BY <2>2, RowMoves
  <2> QED BY <1>0, <1>10, <2>3 DEF SourceAvailable
<1>11. ASSUME NEW u \in Users, Command(u)
       PROVE  row' \in JobRow
  <2>1. /\ Persisted(RequestPause(row)) \in JobRow /\ Persisted(RequestCancel(row)) \in JobRow
        /\ Persisted(ToQueue(row)) \in JobRow
    <3>1. RequestPause(row) \in JobRow /\ RequestCancel(row) \in JobRow /\ ToQueue(row) \in JobRow
      BY <1>0, RowMoves
    <3> QED BY <3>1, RowMoves
  <2> QED BY <1>11, <2>1 DEF Command, Pause, Cancel, Resume, Retry, Ask
<1>12. ASSUME NEW u \in Users, Acknowledge(u)
       PROVE  row' \in JobRow
  <2>1. \A s \in {"paused", "cancelled"} : [row EXCEPT !.state = s] \in JobRow
    BY <1>0, RowMoves DEF States
  <2> QED BY <1>0, <1>12, <2>1 DEF Acknowledge
<1>13. ASSUME \/ TakeWake \/ FinishTurn \/ EnterPreflight \/ EnterCopy \/ EnterVerify \/ EnterCommit
              \/ ResolveSource \/ NextFile \/ InspectTarget \/ Rehash \/ CopyBlock \/ SyncBlock
              \/ CopyDone \/ CommitPart \/ StopAfterFailure \/ Seal \/ Publish
       PROVE  row' = row
  BY <1>13 DEF TakeWake, FinishTurn, EnterPreflight, EnterCopy, EnterVerify, EnterCommit, Enter,
               ResolveSource, NextFile, InspectTarget, Rehash, FailPermanently, CopyBlock, SyncBlock,
               CopyDone, CommitPart, StopAfterFailure, Seal, Publish
<1>14. ASSUME \/ DiscardStaging \/ ScheduleSource \/ CommitFails \/ Restart \/ RemoveCard
              \/ \E d \in Recordings : InsertCard(d)
              \/ \E u \in Users : StopWorker(u) \/ Schedule(u)
       PROVE  row' = row
  BY <1>14 DEF DiscardStaging, ScheduleSource, CommitFails, Restart, RemoveCard, InsertCard,
               StopWorker, Schedule
<1> QED BY <1>0, <1>1, <1>2, <1>3, <1>4, <1>5, <1>6, <1>7, <1>8, <1>9, <1>10, <1>11, <1>12, <1>13,
           <1>14 DEF ImportNext, WorkerStep, ScanStep, Trouble, CardMoves, UserStep

-----------------------------------------------------------------------------
(* Types.                                                                  *)

(* The worker's local state stays one. *)
LEMMA WorkerType ==
    ASSUME ImportTypeOK, FileInHand, CopiesFromActive, ImportNext
    PROVE  worker' \in Worker
<1>0. row \in JobRow /\ worker \in Worker /\ card \in Card
  BY DEF ImportTypeOK
<1>1. \A pc \in Steps : [worker EXCEPT !.pc = pc] \in Worker
  BY <1>0, WorkerMoves
<1>2. CASE TakeWake \/ FinishTurn \/ Restart
  <2>1. \A pc \in {"idle", "loop"} : [worker EXCEPT !.pc = pc, !.seen = Empty(None)] \in Worker
    BY <1>0, WorkerMoves DEF Steps
  <2> QED BY <1>2, <2>1 DEF TakeWake, FinishTurn, Restart
<1>3. CASE Round
  <2>1. row.loc \in 1..MaxCards \cup {None}
    BY <1>0 DEF JobRow
  <2>2. (IF stop THEN "finish" ELSE Phase(row.state)) \in Steps
    BY DEF Steps, Phase
  <2>3. [worker EXCEPT !.pc = IF stop THEN "finish" ELSE Phase(row.state), !.loc = row.loc]
          \in Worker
    BY <1>0, <2>1, <2>2, WorkerMoves
  <2> QED BY <1>0, <1>3, <2>3 DEF Round
<1>4. CASE EnterPreflight \/ EnterCopy \/ EnterVerify \/ EnterCommit
  <2>1. /\ \A pc \in {"space", "resolve", "evidence", "seal"} :
              [worker EXCEPT !.pc = pc, !.f = 1] \in Worker
        /\ [worker EXCEPT !.pc = "loop"] \in Worker
    BY <1>0, WorkerMoves DEF Steps
  <2> QED BY <1>4, <2>1
          DEF EnterPreflight, EnterCopy, EnterVerify, EnterCommit, Enter, Goto
<1>5. CASE PreflightLosesSource \/ CopyLosesSource
  <2>1. /\ \A n \in {"loop", "finish"} : [worker EXCEPT !.pc = "unmount", !.next = n] \in Worker
        /\ [worker EXCEPT !.pc = "loop"] \in Worker
    BY <1>0, WorkerMoves DEF Steps
  <2> QED BY <1>5, <2>1
          DEF PreflightLosesSource, CopyLosesSource, LoseSource, Leave, Goto
<1>6. CASE EvidenceLost \/ NoSpace \/ CopyFails
  <2>1. /\ \A n \in {"loop", "finish"} : [worker EXCEPT !.pc = "backoff", !.next = n] \in Worker
        /\ [worker EXCEPT !.pc = "idle"] \in Worker
    BY <1>0, WorkerMoves DEF Steps
  <2> QED BY <1>6, <2>1 DEF EvidenceLost, NoSpace, CopyFails, Fail, FailPermanently, Leave, Goto
<1>7. CASE StopAfterFailure
  <2>1. worker.next \in Steps
    BY <1>0 DEF Worker, Steps
  <2> QED BY <1>1, <1>7, <2>1 DEF StopAfterFailure, Leave, Goto
<1>8. CASE ResolveSource
  <2>1. card.data \in Recordings
    BY <1>0 DEF Card
  <2>2. [worker EXCEPT !.pc = "file", !.src = card.data, !.seen = Empty(None)] \in Worker
    BY <1>0, <2>1, WorkerMoves DEF Steps
  <2> QED BY <1>8, <2>2 DEF ResolveSource
<1>9. f \in Files => \A x \in Digests \cup {None} : Seen(x) \in Worker
  BY <1>0, WorkerMoves DEF f, Seen
<1>10. CASE NextFile
  <2>1. f \in Files /\ row.sha[f] \in Digests \cup {None}
    BY <1>0, <1>10 DEF NextFile, JobRow
  <2>2. /\ Seen(row.sha[f]) \in Worker /\ [worker EXCEPT !.pc = "loop"] \in Worker
        /\ [worker EXCEPT !.pc = "inspect"] \in Worker
    BY <1>1, <1>9, <2>1 DEF Steps
  <2> QED BY <1>10, <2>2 DEF NextFile, Leave, Goto
<1>11. CASE CheckpointWhole
  <2>1. f \in Files
    BY <1>11 DEF CheckpointWhole, At, FileInHand, InHand, Opened
  <2>2. target[f] \in Digests \cup {None}
    BY <2>1 DEF ImportTypeOK
  <2>3. Seen(target[f]) \in Worker /\ [worker EXCEPT !.pc = "loop"] \in Worker
    BY <1>1, <1>9, <2>1, <2>2 DEF Steps
  <2> QED BY <1>11, <2>3 DEF CheckpointWhole, Checkpointed, Leave, Goto
<1>12. CASE CheckpointBlock
  <2>1. [worker EXCEPT !.pc = "block"] \in Worker /\ [worker EXCEPT !.pc = "loop"] \in Worker
    BY <1>1 DEF Steps
  <2> QED BY <1>12, <2>1 DEF CheckpointBlock, Checkpointed, Leave, Goto
<1>13. CASE CommitPart
  <2>1. /\ [worker EXCEPT !.pc = "idle"] \in Worker /\ [worker EXCEPT !.pc = "loop"] \in Worker
    BY <1>1 DEF Steps
  <2>2. CASE verify_digests(FileOf(worker.src), part[f])
    <3>1. f \in Files /\ worker.src \in Recordings
      BY <1>13 DEF CommitPart, At, FileInHand, CopiesFromActive, InHand, Opened
    <3>3. part[f] \in Digests
      BY <2>2, <3>1 DEF verify_digests, FileOf, Digests
    <3>4. Seen(part[f]) \in Worker
      BY <1>9, <3>1, <3>3
    <3> QED BY <1>13, <2>1, <2>2, <3>4 DEF CommitPart, Leave, Goto
  <2> QED BY <1>13, <2>1, <2>2 DEF CommitPart, FailPermanently, Leave, Goto
<1>14. CASE VerifyFile
  <2>1. f \in Files => [worker EXCEPT !.f = @ + 1] \in Worker
    BY <1>0, WorkerMoves DEF f
  <2>2. [worker EXCEPT !.pc = "loop"] \in Worker
    BY <1>1 DEF Steps
  <2> QED BY <1>14, <2>1, <2>2 DEF VerifyFile, Leave, Goto
<1>15. CASE \/ PreflightPasses \/ InspectTarget \/ Rehash \/ CopyBlock \/ SyncBlock \/ CopyDone
            \/ CopyFinished \/ VerificationPassed \/ Seal \/ Publish \/ CommitSucceeded \/ CommitFails
  <2>1. \A pc \in {"loop", "idle", "rehash", "checkpoint_whole", "block", "sync", "checkpoint",
                   "digest", "publish", "receipt"} : [worker EXCEPT !.pc = pc] \in Worker
    BY <1>1 DEF Steps
  <2> QED BY <1>0, <1>15, <2>1
          DEF PreflightPasses, InspectTarget, Rehash, FailPermanently, CopyBlock, SyncBlock,
              CopyDone,
              CopyFinished, VerificationPassed, Seal, Publish, CommitSucceeded, CommitFails, Leave, Goto
<1>16. ASSUME \/ ScanStep \/ CardMoves \/ \E u \in Users : Command(u) \/ UserStep(u)
       PROVE  worker' = worker
  BY <1>16 DEF ScanStep, OfferSource, DiscardStaging, SourceAvailable, ScheduleSource, CardMoves,
               RemoveCard, InsertCard, Command, Pause, Cancel, Resume, Retry, Ask, UserStep,
               StopWorker, Acknowledge, Schedule
<1> QED BY <1>0, <1>2, <1>3, <1>4, <1>5, <1>6, <1>7, <1>8, <1>10, <1>11, <1>12, <1>13, <1>14,
           <1>15,
           <1>16 DEF ImportNext, WorkerStep, Trouble

(* The actions that touch the staged files or the library. *)
LEMMA FilesMove ==
    ASSUME ImportNext
    PROVE  \/ InspectTarget \/ CopyBlock \/ SyncBlock \/ CommitPart \/ Publish \/ DiscardStaging
           \/ Restart \/ UNCHANGED files
<1>1. ASSUME ScanStep \/ CardMoves \/ \E u \in Users : Command(u) \/ UserStep(u)
      PROVE  DiscardStaging \/ UNCHANGED files
  BY <1>1 DEF ScanStep, OfferSource, SourceAvailable, ScheduleSource, CardMoves,
              RemoveCard, InsertCard, Command, Pause, Cancel, Resume, Retry, Ask, UserStep,
              StopWorker, Acknowledge, Schedule, files, staging
<1>2. ASSUME Trouble
      PROVE  Restart \/ UNCHANGED files
  BY <1>2 DEF Trouble, NoSpace, CopyFails, CommitFails, Fail, FailPermanently
<1>3. ASSUME \/ TakeWake \/ FinishTurn \/ Round \/ EnterPreflight \/ EnterCopy \/ EnterVerify
             \/ EnterCommit \/ PreflightPasses \/ PreflightLosesSource \/ ResolveSource
             \/ CopyLosesSource \/ NextFile \/ Rehash \/ CheckpointWhole
      PROVE  UNCHANGED files
  BY <1>3 DEF TakeWake, FinishTurn, Round, EnterPreflight, EnterCopy, EnterVerify, EnterCommit,
              Enter, PreflightPasses, PreflightLosesSource, CopyLosesSource, LoseSource,
              ResolveSource, NextFile, Rehash, FailPermanently, CheckpointWhole, Checkpointed
<1>4. ASSUME \/ CheckpointBlock \/ CopyDone \/ CopyFinished \/ StopAfterFailure \/ VerifyFile
             \/ EvidenceLost \/ VerificationPassed \/ Seal \/ CommitSucceeded
      PROVE  UNCHANGED files
  BY <1>4 DEF CheckpointBlock, Checkpointed, CopyDone, CopyFinished, StopAfterFailure, VerifyFile,
              EvidenceLost, Fail, VerificationPassed, Seal, CommitSucceeded
<1> QED BY <1>1, <1>2, <1>3, <1>4 DEF ImportNext, WorkerStep

(* A part file is a sequence of blocks, a digest is a whole one. *)
LEMMA Parts ==
    ASSUME ImportTypeOK, NEW g \in Files
    PROVE  /\ part[g] \in Seq(Recordings) /\ Len(part[g]) \in 0..Size
           /\ Durable(g) \in 0..Len(part[g])
           /\ \A n \in 0..Len(part[g]) : SubSeq(part[g], 1, n) \in Seq(Recordings)
                                           /\ Len(SubSeq(part[g], 1, n)) = n
<1>1. part[g] \in Seq(Recordings) /\ Len(part[g]) <= Size
  BY DEF ImportTypeOK
<1>2. Len(part[g]) \in 0..Size
  BY <1>1, LenProperties, ImportAssumption
<1>3. row.off[g] \in 0..Size /\ journal[g] \in 0..Size
  BY DEF ImportTypeOK, JobRow
<1>4. Durable(g) \in 0..Len(part[g])
  BY <1>2, <1>3, ImportAssumption DEF Durable, Lesser
<1>5. ASSUME NEW n \in 0..Len(part[g])
      PROVE  SubSeq(part[g], 1, n) \in Seq(Recordings) /\ Len(SubSeq(part[g], 1, n)) = n
  BY <1>1, <1>2, <1>5
<1> QED BY <1>1, <1>2, <1>4, <1>5

(* The staged files and the library keep their types. *)
LEMMA FilesType ==
    ASSUME ImportTypeOK, FileInHand, CopiesFromActive, CommitIsWhole, ImportNext
    PROVE  /\ part' \in [Files -> Seq(Recordings)] /\ journal' \in [Files -> 0..Size]
           /\ \A g \in Files : Len(part'[g]) <= Size
           /\ target' \in [Files -> Digests \cup {None}]
           /\ library' \in [Files -> Digests] \cup {None}
<1>0. /\ part \in [Files -> Seq(Recordings)] /\ journal \in [Files -> 0..Size]
      /\ \A g \in Files : Len(part[g]) <= Size
      /\ target \in [Files -> Digests \cup {None}] /\ library \in [Files -> Digests] \cup {None}
  BY DEF ImportTypeOK
<1>00. worker.pc \in InHand => f \in Files /\ worker.src \in Recordings
  BY DEF FileInHand, CopiesFromActive, InHand
<1>1. CASE InspectTarget
  <2>1. f \in Files
    BY <1>00, <1>1 DEF InspectTarget, At, InHand, Opened
  <2>2. /\ SubSeq(part[f], 1, Durable(f)) \in Seq(Recordings)
        /\ Len(SubSeq(part[f], 1, Durable(f))) <= Size
    <3>1. Durable(f) \in 0..Len(part[f]) /\ Len(part[f]) \in 0..Size
      BY <2>1, Parts
    <3>2. /\ SubSeq(part[f], 1, Durable(f)) \in Seq(Recordings)
          /\ Len(SubSeq(part[f], 1, Durable(f))) = Durable(f)
      BY <2>1, <3>1, Parts
    <3> QED BY <3>1, <3>2, ImportAssumption
  <2>3. UNCHANGED <<journal, library>>
    BY <1>1 DEF InspectTarget, staging
  <2>4. target' = target \/ target' = [target EXCEPT ![f] = None]
    BY <1>1 DEF InspectTarget, staging
  <2>5. part' = part \/ part' = [part EXCEPT ![f] = SubSeq(part[f], 1, Durable(f))]
    BY <1>1 DEF InspectTarget, staging
  <2>6. target' \in [Files -> Digests \cup {None}]
    BY <1>0, <2>1, <2>4
  <2>7. part' \in [Files -> Seq(Recordings)] /\ \A g \in Files : Len(part'[g]) <= Size
    BY <1>0, <2>1, <2>2, <2>5
  <2> QED BY <1>0, <2>3, <2>6, <2>7
<1>2. CASE CopyBlock
  <2>1. f \in Files /\ worker.src \in Recordings /\ Len(part[f]) < Size
    BY <1>00, <1>2 DEF CopyBlock, At, InHand, Opened
  <2>2. UNCHANGED <<journal, target, library>>
    BY <1>2 DEF CopyBlock
  <2>3. part' = part \/ part' = [part EXCEPT ![f] = Append(part[f], worker.src)]
    BY <1>2 DEF CopyBlock
  <2>4. /\ Append(part[f], worker.src) \in Seq(Recordings)
        /\ Len(Append(part[f], worker.src)) <= Size
    <3>1. part[f] \in Seq(Recordings) /\ Len(part[f]) \in 0..Size
      BY <2>1, Parts
    <3>2. /\ Append(part[f], worker.src) \in Seq(Recordings)
          /\ Len(Append(part[f], worker.src)) = Len(part[f]) + 1
      BY <2>1, <3>1, AppendProperties
    <3> QED BY <2>1, <3>1, <3>2, ImportAssumption
  <2> QED BY <1>0, <2>1, <2>2, <2>3, <2>4
<1>3. CASE SyncBlock
  <2>1. f \in Files
    BY <1>00, <1>3 DEF SyncBlock, At, InHand, Opened
  <2>2. Len(part[f]) \in 0..Size
    BY <2>1, Parts
  <2>3. UNCHANGED <<part, target, library>> /\ journal' = [journal EXCEPT ![f] = Len(part[f])]
    BY <1>3 DEF SyncBlock
  <2> QED BY <1>0, <2>1, <2>2, <2>3
<1>4. CASE CommitPart
  <2>1. f \in Files /\ worker.src \in Recordings
    BY <1>00, <1>4 DEF CommitPart, At, InHand, Opened
  <2>2. \/ UNCHANGED <<part, journal, target, library>>
        \/ /\ verify_digests(FileOf(worker.src), part[f])
           /\ target' = [target EXCEPT ![f] = part[f]]
           /\ part' = [part EXCEPT ![f] = <<>>] /\ journal' = [journal EXCEPT ![f] = 0]
           /\ library' = library
    BY <1>4 DEF CommitPart, FailPermanently, files, staging
  <2>3. CASE UNCHANGED <<part, journal, target, library>>
    BY <1>0, <2>3
  <2>4. CASE verify_digests(FileOf(worker.src), part[f])
    <3>1. part[f] \in Digests
      BY <2>1, <2>4 DEF verify_digests, FileOf, Digests
    <3>2. <<>> \in Seq(Recordings) /\ Len(<<>>) = 0 /\ 0 \in 0..Size /\ 0 <= Size
      BY ImportAssumption
    <3> QED BY <1>0, <2>1, <2>2, <3>1, <3>2
  <2> QED BY <2>2, <2>3, <2>4
<1>5. CASE Publish
  <2>1. UNCHANGED <<part, journal>>
    BY <1>5 DEF Publish
  <2>2. CASE library = None
    <3>1. \A g \in Files : row.sha[g] # None /\ target[g] = row.sha[g]
      BY <1>5, <2>2 DEF Publish, At, CommitIsWhole
    <3>2. target \in [Files -> Digests]
      BY <1>0, <3>1
    <3>3. library' = target /\ target' = Empty(None)
      BY <1>5, <2>2 DEF Publish
    <3>4. Empty(None) \in [Files -> Digests \cup {None}]
      BY DEF Empty
    <3> QED BY <1>0, <2>1, <3>2, <3>3, <3>4
  <2> QED BY <1>0, <1>5, <2>1, <2>2 DEF Publish
<1>6. CASE DiscardStaging
  <2>1. part' = Empty(<<>>) /\ journal' = Empty(0) /\ target' = Empty(None) /\ library' = library
    BY <1>6 DEF DiscardStaging
  <2>2. <<>> \in Seq(Recordings) /\ Len(<<>>) = 0 /\ 0 \in 0..Size /\ 0 <= Size
    BY ImportAssumption
  <2> QED BY <1>0, <2>1, <2>2 DEF Empty
<1>7. CASE Restart
  <2>1. UNCHANGED <<journal, target, library>>
    BY <1>7 DEF Restart
  <2>2. PICK n \in [Files -> 0..Size] :
          /\ \A g \in Files : n[g] \in Durable(g)..Len(part[g])
          /\ part' = [g \in Files |-> SubSeq(part[g], 1, n[g])]
    BY <1>7 DEF Restart
  <2>3. ASSUME NEW g \in Files
        PROVE  /\ SubSeq(part[g], 1, n[g]) \in Seq(Recordings)
               /\ Len(SubSeq(part[g], 1, n[g])) <= Size
    <3>1. Durable(g) \in 0..Len(part[g]) /\ Len(part[g]) \in 0..Size
      BY Parts
    <3>2. n[g] \in 0..Len(part[g]) /\ n[g] <= Size
      BY <2>2, <3>1
    <3>3. SubSeq(part[g], 1, n[g]) \in Seq(Recordings) /\ Len(SubSeq(part[g], 1, n[g])) = n[g]
      BY <3>2, Parts
    <3> QED BY <3>2, <3>3
  <2> QED BY <1>0, <2>1, <2>2, <2>3
<1>8. CASE UNCHANGED files
  BY <1>0, <1>8 DEF files, staging
<1> QED BY <1>1, <1>2, <1>3, <1>4, <1>5, <1>6, <1>7, <1>8, FilesMove

(* The worker leaves the environment alone. *)
LEMMA WorkerFrame ==
    ASSUME WorkerStep \/ NoSpace \/ CopyFails \/ CommitFails
    PROVE  UNCHANGED env
<1>1. ASSUME \/ TakeWake \/ FinishTurn \/ Round \/ EnterPreflight \/ EnterCopy \/ EnterVerify
             \/ EnterCommit \/ PreflightPasses \/ PreflightLosesSource \/ ResolveSource
             \/ CopyLosesSource \/ NextFile \/ InspectTarget \/ Rehash \/ CheckpointWhole
      PROVE  UNCHANGED env
  BY <1>1 DEF TakeWake, FinishTurn, Round, EnterPreflight, EnterCopy, EnterVerify, EnterCommit,
              Enter, PreflightPasses, PreflightLosesSource, CopyLosesSource, LoseSource,
              ResolveSource, NextFile, InspectTarget, Rehash, FailPermanently, CheckpointWhole,
              Checkpointed
<1>2. ASSUME \/ CopyBlock \/ SyncBlock \/ CheckpointBlock \/ CopyDone \/ CommitPart \/ CopyFinished
             \/ StopAfterFailure \/ VerifyFile \/ EvidenceLost \/ VerificationPassed \/ Seal
             \/ Publish \/ CommitSucceeded \/ NoSpace \/ CopyFails \/ CommitFails
      PROVE  UNCHANGED env
  BY <1>2 DEF CopyBlock, SyncBlock, CheckpointBlock, Checkpointed, CopyDone, CommitPart,
              CopyFinished, StopAfterFailure, VerifyFile, EvidenceLost, Fail, FailPermanently,
              VerificationPassed, Seal, Publish, CommitSucceeded, NoSpace, CopyFails, CommitFails
<1> QED BY <1>1, <1>2 DEF WorkerStep

(* A step is one of the worker's, one of the scan's, a restart, a card that   *)
(* moves, or one of a user's.                                                 *)
LEMMA Actors ==
    ASSUME ImportNext
    PROVE  \/ (WorkerStep \/ NoSpace \/ CopyFails \/ CommitFails) /\ UNCHANGED env
           \/ ScanStep /\ UNCHANGED <<strong, card, worker, user, asked, trouble>>
           \/ Restart /\ UNCHANGED <<row, strong, journal, target, library, card, asked>>
           \/ CardMoves /\ UNCHANGED <<row, strong, part, journal, target, library, stop, writer, wake,
                                       worker, user, scan, asked, trouble>>
           \/ \E u \in Users : /\ Command(u) \/ UserStep(u)
                               /\ UNCHANGED <<strong, part, journal, target, library, card, writer,
                                              worker, scan, trouble>>
<1>1. ASSUME ScanStep
      PROVE  UNCHANGED <<strong, card, worker, user, asked, trouble>>
  BY <1>1 DEF ScanStep, OfferSource, DiscardStaging, SourceAvailable, ScheduleSource
<1>2. ASSUME Restart
      PROVE  UNCHANGED <<row, strong, journal, target, library, card, asked>>
  BY <1>2 DEF Restart
<1>3. ASSUME CardMoves
      PROVE  UNCHANGED <<row, strong, part, journal, target, library, stop, writer, wake,
                         worker, user, scan, asked, trouble>>
  BY <1>3 DEF CardMoves, RemoveCard, InsertCard, files, staging, control
<1>4. ASSUME NEW u \in Users, Command(u) \/ UserStep(u)
      PROVE  UNCHANGED <<strong, part, journal, target, library, card, writer, worker, scan, trouble>>
  BY <1>4 DEF Command, Pause, Cancel, Resume, Retry, Ask, UserStep, StopWorker, Acknowledge,
              Schedule, staging, control
<1> QED BY <1>1, <1>2, <1>3, <1>4, WorkerFrame DEF ImportNext, Trouble

(* The environment keeps its types. *)
LEMMA EnvType ==
    ASSUME ImportTypeOK, ImportNext
    PROVE  /\ strong' \in BOOLEAN /\ card' \in Card /\ scan' \in Scan
           /\ user' \in [Users -> {"idle", "pause", "cancel", "pause_ack", "cancel_ack", "start"}]
           /\ asked' \in 0..MaxCommands
<1> DEFINE Pcs == {"idle", "pause", "cancel", "pause_ack", "cancel_ack", "start"}
<1>0. /\ strong \in BOOLEAN /\ card \in Card /\ scan \in Scan /\ user \in [Users -> Pcs]
      /\ asked \in 0..MaxCommands
  BY DEF ImportTypeOK
<1>1. CASE UNCHANGED env
  BY <1>0, <1>1 DEF env
<1>2. CASE ScanStep /\ UNCHANGED <<strong, card, worker, user, asked, trouble>>
  <2>1. /\ \A pc \in {"discard", "offer", "start"} : [scan EXCEPT !.pc = pc] \in Scan
        /\ [pc |-> "idle", loc |-> None] \in Scan
    BY <1>0 DEF Scan
  <2>2. card.gen \in 1..MaxCards
    BY <1>0 DEF Card
  <2>3. \A pc \in {"discard", "offer"} : [pc |-> pc, loc |-> card.gen] \in Scan
    BY <2>2 DEF Scan
  <2>4. scan' \in Scan
    BY <1>0, <1>2, <2>1, <2>3 DEF ScanStep, OfferSource, DiscardStaging, SourceAvailable,
                                  ScheduleSource
  <2> QED BY <1>0, <1>2, <2>4
<1>3. CASE Restart /\ UNCHANGED <<row, strong, journal, target, library, card, asked>>
  <2>1. [pc |-> "idle", loc |-> None] \in Scan /\ [u \in Users |-> "idle"] \in [Users -> Pcs]
    BY DEF Scan
  <2> QED BY <1>0, <1>3, <2>1 DEF Restart
<1>4. CASE CardMoves /\ UNCHANGED <<strong, user, scan, asked>>
  <2>1. [card EXCEPT !.mounted = FALSE] \in Card
    BY <1>0 DEF Card
  <2>2. card.gen < MaxCards => card.gen + 1 \in 1..MaxCards
    BY <1>0, ImportAssumption DEF Card
  <2>3. card.gen < MaxCards =>
          \A d \in Recordings : [gen |-> card.gen + 1, data |-> d, mounted |-> TRUE] \in Card
    BY <2>2 DEF Card
  <2>4. card' \in Card
    BY <1>4, <2>1, <2>3 DEF CardMoves, RemoveCard, InsertCard
  <2> QED BY <1>0, <1>4, <2>4
<1>5. ASSUME NEW u \in Users, Command(u) \/ UserStep(u), UNCHANGED <<strong, card, scan>>
      PROVE  strong' \in BOOLEAN /\ card' \in Card /\ scan' \in Scan /\ user' \in [Users -> Pcs]
               /\ asked' \in 0..MaxCommands
  <2>1. asked' = asked \/ (asked < MaxCommands /\ asked' = asked + 1)
    BY <1>5 DEF Command, Pause, Cancel, Resume, Retry, Ask, UserStep, StopWorker, Acknowledge,
                Schedule
  <2>2. asked' \in 0..MaxCommands
    BY <1>0, <2>1, ImportAssumption
  <2>3. \E pc \in Pcs : user' = [user EXCEPT ![u] = pc]
    BY <1>5 DEF Command, Pause, Cancel, Resume, Retry, Ask, UserStep, StopWorker, Acknowledge,
                Schedule
  <2> QED BY <1>0, <1>5, <2>2, <2>3
<1> QED BY <1>1, <1>2, <1>3, <1>4, <1>5, Actors

(* The flags, the writer and the count of failures keep their types. *)
LEMMA FlagsType ==
    ASSUME ImportTypeOK, ImportNext
    PROVE  /\ stop' \in BOOLEAN /\ wake' \in BOOLEAN /\ writer' \in {None, "worker", "scan"}
           /\ trouble' \in 0..MaxTrouble
<1> DEFINE Ok == /\ stop' \in BOOLEAN /\ wake' \in BOOLEAN
                 /\ writer' \in {None, "worker", "scan"}
<1>0. /\ stop \in BOOLEAN /\ wake \in BOOLEAN /\ writer \in {None, "worker", "scan"}
      /\ trouble \in 0..MaxTrouble
  BY DEF ImportTypeOK
<1>1. ASSUME \/ TakeWake \/ FinishTurn \/ Round \/ EnterPreflight \/ EnterCopy \/ EnterVerify
             \/ EnterCommit \/ PreflightPasses \/ PreflightLosesSource \/ ResolveSource
             \/ CopyLosesSource \/ NextFile \/ InspectTarget \/ Rehash \/ CheckpointWhole
      PROVE  Ok /\ trouble' = trouble
  BY <1>0, <1>1 DEF TakeWake, FinishTurn, Round, EnterPreflight, EnterCopy, EnterVerify,
     EnterCommit,
              Enter, PreflightPasses, PreflightLosesSource, CopyLosesSource, LoseSource, Leave,
              ResolveSource, NextFile, InspectTarget, Rehash, FailPermanently, CheckpointWhole,
              Checkpointed, control
<1>2. ASSUME \/ CopyBlock \/ SyncBlock \/ CheckpointBlock \/ CopyDone \/ CommitPart \/ CopyFinished
             \/ StopAfterFailure \/ VerifyFile \/ EvidenceLost \/ VerificationPassed \/ Seal
             \/ Publish \/ CommitSucceeded
      PROVE  Ok /\ trouble' = trouble
  BY <1>0, <1>2 DEF CopyBlock, SyncBlock, CheckpointBlock, Checkpointed, CopyDone, CommitPart,
              CopyFinished, StopAfterFailure, VerifyFile, EvidenceLost, Fail, FailPermanently, Leave,
              VerificationPassed, Seal, Publish, CommitSucceeded, control
<1>3. ASSUME NoSpace \/ CopyFails \/ CommitFails \/ Restart
      PROVE  Ok /\ trouble < MaxTrouble /\ trouble' = trouble + 1
  <2>1. CASE NoSpace \/ CopyFails \/ CommitFails
    BY <1>0, <2>1 DEF NoSpace, CopyFails, CommitFails, Fail, FailPermanently, Leave, control
  <2>2. CASE Restart
    <3>1. should_resume_on_worker \in BOOLEAN
      BY DEF should_resume_on_worker
    <3> QED BY <2>2, <3>1 DEF Restart
  <2> QED BY <1>3, <2>1, <2>2
<1>4. ASSUME ScanStep \/ CardMoves \/ \E u \in Users : Command(u) \/ UserStep(u)
      PROVE  Ok /\ trouble' = trouble
  BY <1>0, <1>4 DEF ScanStep, OfferSource, DiscardStaging, SourceAvailable, ScheduleSource,
     CardMoves,
               RemoveCard, InsertCard, Command, Pause, Cancel, Resume, Retry, Ask, UserStep,
               StopWorker, Acknowledge, Schedule, control
<1>5. Ok /\ (trouble' = trouble \/ (trouble < MaxTrouble /\ trouble' = trouble + 1))
  BY <1>1, <1>2, <1>3, <1>4 DEF ImportNext, WorkerStep, Trouble
<1>6. trouble' \in 0..MaxTrouble
  BY <1>0, <1>5, ImportAssumption
<1> QED BY <1>5, <1>6

(* Type correctness is preserved. *)
THEOREM ImportStepType ==
    ASSUME ImportTypeOK, FileInHand, CopiesFromActive, CommitIsWhole, ImportNext
    PROVE  ImportTypeOK'
  BY RowType, WorkerType, FilesType, EnvType, FlagsType DEF ImportTypeOK

-----------------------------------------------------------------------------
(* The writer.                                                             *)

(* How a step of the worker moves it between the steps that hold the writer *)
(* and those that do not.                                                   *)
LEMMA WorkerHolds ==
    ASSUME ImportTypeOK, WorkerStep \/ NoSpace \/ CopyFails \/ CommitFails
    PROVE  \/ worker.pc \notin Writing /\ worker'.pc \notin Writing /\ writer' = writer
           \/ worker.pc \notin Writing /\ writer = None /\ worker'.pc \in Writing /\ writer' = "worker"
           \/ worker.pc \in Writing /\ worker'.pc \notin Writing /\ writer' = None
           \/ worker.pc \in Writing /\ worker'.pc \in Writing /\ writer' = writer
<1> DEFINE Out == worker.pc \notin Writing /\ worker'.pc \notin Writing /\ writer' = writer
           Take == /\ worker.pc \notin Writing /\ writer = None
                   /\ worker'.pc \in Writing /\ writer' = "worker"
           Drop == worker.pc \in Writing /\ worker'.pc \notin Writing /\ writer' = None
           Keep == worker.pc \in Writing /\ worker'.pc \in Writing /\ writer' = writer
<1>0. worker \in Worker
  BY DEF ImportTypeOK
<1>1. CASE TakeWake \/ FinishTurn
  BY <1>0, <1>1 DEF TakeWake, FinishTurn, At, control, Worker, Writing, Opened
<1>2. CASE Round
  <2>1. Phase(row.state) \notin Writing
    BY DEF Phase, Writing, Opened
  <2> QED BY <1>0, <1>2, <2>1 DEF Round, At, control, Worker, Writing, Opened
<1>3. CASE EnterPreflight \/ EnterCopy \/ EnterVerify \/ EnterCommit
  BY <1>0, <1>3 DEF EnterPreflight, EnterCopy, EnterVerify, EnterCommit, Enter, At, Goto, Worker,
                    Writing, Opened
<1>4. CASE PreflightPasses \/ PreflightLosesSource \/ CopyLosesSource
  BY <1>0, <1>4 DEF PreflightPasses, PreflightLosesSource, CopyLosesSource, LoseSource, At, Goto,
                    Leave, Worker, Writing, Opened
<1>5. CASE ResolveSource \/ NextFile \/ InspectTarget \/ Rehash
  BY <1>0, <1>5 DEF ResolveSource, NextFile, InspectTarget, Rehash, FailPermanently, Seen, At,
     Goto,
                    Leave, control, Worker, Writing, Opened
<1>6. CASE CheckpointWhole \/ CheckpointBlock \/ CopyBlock \/ SyncBlock
  BY <1>0, <1>6 DEF CheckpointWhole, CheckpointBlock, Checkpointed, CopyBlock, SyncBlock, Seen,
     At,
                    Goto, Leave, control, Worker, Writing, Opened
<1>7. CASE CopyDone \/ CommitPart \/ CopyFinished
  BY <1>0, <1>7 DEF CopyDone, CommitPart, CopyFinished, FailPermanently, Seen, At, Goto, Leave,
                    control, Worker, Writing, Opened
<1>8. CASE StopAfterFailure
  <2>1. worker.next \notin Writing
    BY <1>0 DEF Worker, Writing, Opened
  <2> QED BY <1>0, <1>8, <2>1 DEF StopAfterFailure, Leave, Goto, Worker, Writing, Opened
<1>9. CASE VerifyFile \/ EvidenceLost \/ VerificationPassed
  BY <1>0, <1>9 DEF VerifyFile, EvidenceLost, Fail, VerificationPassed, At, Leave, Goto, control,
                    Worker, Writing, Opened
<1>10. CASE Seal \/ Publish \/ CommitSucceeded
  BY <1>0, <1>10 DEF Seal, Publish, CommitSucceeded, At, Leave, Goto, control, Worker, Writing,
     Opened
<1>11. CASE NoSpace \/ CopyFails \/ CommitFails
  BY <1>0, <1>11 DEF NoSpace, CopyFails, CommitFails, Fail, FailPermanently, At, Leave, Goto,
     control,
                     Worker, Writing, Opened
<1> QED BY <1>1, <1>2, <1>3, <1>4, <1>5, <1>6, <1>7, <1>8, <1>9, <1>10, <1>11 DEF WorkerStep

(* Two threads never hold the writer, and the thread inside a phase holds it. *)
THEOREM WriterStep ==
    ASSUME ImportTypeOK, WriterIsHeld, ImportNext
    PROVE  WriterIsHeld'
<1>0. worker \in Worker /\ scan \in Scan /\ None \notin {"worker", "scan"}
  BY NoneIsNone DEF ImportTypeOK
<1>1. CASE (WorkerStep \/ NoSpace \/ CopyFails \/ CommitFails) /\ UNCHANGED env
  <2>1. scan' = scan
    BY <1>1 DEF env
  <2> QED BY <1>0, <1>1, <2>1, WorkerHolds DEF WriterIsHeld
<1>2. CASE ScanStep /\ UNCHANGED <<strong, card, worker, user, asked, trouble>>
  BY <1>0, <1>2 DEF ScanStep, OfferSource, DiscardStaging, SourceAvailable, ScheduleSource, Scan,
                    WriterIsHeld, control
<1>3. CASE Restart
  <2>1. worker'.pc = "idle" /\ writer' = None /\ scan'.pc = "idle"
    BY <1>0, <1>3 DEF Restart, Worker
  <2> QED BY <1>0, <2>1 DEF WriterIsHeld, Writing, Opened
<1>4. CASE UNCHANGED <<writer, worker, scan>>
  BY <1>4 DEF WriterIsHeld
<1> QED BY <1>1, <1>2, <1>3, <1>4, Actors

(* No step of the worker makes an import paused, and none that is paused lets *)
(* it take the writer.                                                        *)
LEMMA WorkerPause ==
    ASSUME ImportTypeOK, WorkerStep \/ NoSpace \/ CopyFails \/ CommitFails, row'.state = "paused"
    PROVE  row.state = "paused" /\ (writer' = "worker" => writer = "worker")
<1>0. row \in JobRow /\ None \notin {"worker", "scan"}
  BY NoneIsNone DEF ImportTypeOK
<1>1. CASE TakeWake \/ FinishTurn
  BY <1>1 DEF TakeWake, FinishTurn, control
<1>2. CASE Round
  <2>1. Persisted(Start(row)).state = "preflighting"
    BY <1>0 DEF Persisted, Start, JobRow
  <2> QED BY <1>2, <2>1 DEF Round, control
<1>3. CASE EnterPreflight \/ EnterCopy \/ EnterVerify \/ EnterCommit
  BY <1>3 DEF EnterPreflight, EnterCopy, EnterVerify, EnterCommit, Enter
<1>4. CASE PreflightPasses \/ PreflightLosesSource \/ CopyLosesSource
  BY <1>0, <1>4 DEF PreflightPasses, PreflightLosesSource, CopyLosesSource, LoseSource, Leave,
     JobRow,
                    SourceUnavailable
<1>5. CASE ResolveSource \/ NextFile \/ InspectTarget \/ Rehash
  BY <1>0, <1>5 DEF ResolveSource, NextFile, InspectTarget, Rehash, FailPermanently, Leave,
     control
<1>6. CASE CheckpointWhole \/ CheckpointBlock \/ CopyBlock \/ SyncBlock
  BY <1>0, <1>6 DEF CheckpointWhole, CheckpointBlock, Checkpointed, CopyBlock, SyncBlock, Leave,
                    control, CopyCheckpoint, JobRow
<1>7. CASE CopyDone \/ CommitPart \/ CopyFinished
  BY <1>0, <1>7 DEF CopyDone, CommitPart, CopyFinished, FailPermanently, Leave, control, JobRow
<1>8. CASE StopAfterFailure
  BY <1>0, <1>8 DEF StopAfterFailure, Leave
<1>9. CASE VerifyFile \/ EvidenceLost \/ VerificationPassed
  BY <1>0, <1>9 DEF VerifyFile, EvidenceLost, Fail, VerificationPassed, Leave, control, JobRow,
                    RetryableFailure
<1>10. CASE Seal \/ Publish \/ CommitSucceeded
  BY <1>0, <1>10 DEF Seal, Publish, CommitSucceeded, Leave, control, JobRow
<1>11. CASE NoSpace \/ CopyFails \/ CommitFails
  BY <1>0, <1>11 DEF NoSpace, CopyFails, CommitFails, Fail, FailPermanently, Leave, control,
     JobRow,
                     RetryableFailure
<1> QED BY <1>1, <1>2, <1>3, <1>4, <1>5, <1>6, <1>7, <1>8, <1>9, <1>10, <1>11 DEF WorkerStep

(* A pause is acknowledged only while nobody holds the writer, and a paused *)
(* import gives it to no phase.                                             *)
THEOREM PauseStep ==
    ASSUME ImportTypeOK, PausedImportIsQuiet, ImportNext
    PROVE  PausedImportIsQuiet'
<1>0. row \in JobRow /\ None \notin {"worker", "scan"}
  BY NoneIsNone DEF ImportTypeOK
<1>1. CASE WorkerStep \/ NoSpace \/ CopyFails \/ CommitFails
  BY <1>1, WorkerPause DEF PausedImportIsQuiet
<1>2. CASE ScanStep
  <2>1. \A s \in {"copying", "preflighting"} :
          Persisted([row EXCEPT !.loc = scan.loc, !.from = "preflight", !.state = s]).state = s
    BY <1>0 DEF Persisted, JobRow
  <2>2. ResetProgressForSource(row).state = row.state
    BY <1>0 DEF ResetProgressForSource, JobRow
  <2> QED BY <1>0, <1>2, <2>1, <2>2
          DEF ScanStep, OfferSource, DiscardStaging, SourceAvailable, ScheduleSource, control,
              PausedImportIsQuiet
<1>3. CASE Restart
  BY <1>0, <1>3 DEF Restart, PausedImportIsQuiet
<1>4. CASE UNCHANGED <<row, writer>>
  BY <1>4 DEF PausedImportIsQuiet
<1>5. ASSUME NEW u \in Users, Command(u) \/ UserStep(u), writer' = writer
      PROVE  PausedImportIsQuiet'
  <2>1. /\ Persisted(RequestPause(row)).state = "pausing"
        /\ Persisted(RequestCancel(row)).state = "cancelling"
        /\ Persisted(ToQueue(row)).state = "queued"
    BY <1>0 DEF Persisted, RequestPause, RequestCancel, ToQueue, JobRow
  <2>2. CASE Command(u)
    BY <2>1, <2>2 DEF Command, Pause, Cancel, Resume, Retry, Ask, PausedImportIsQuiet
  <2>3. CASE UserStep(u)
    BY <1>0, <1>5, <2>3 DEF UserStep, StopWorker, Schedule, Acknowledge, WriterFree,
                            PausedImportIsQuiet
  <2> QED BY <1>5, <2>2, <2>3
<1> QED BY <1>1, <1>2, <1>3, <1>4, <1>5, Actors

-----------------------------------------------------------------------------
(* What a step does to the row.                                            *)

(* What a row says of its source and its evidence changes in these steps only. *)
LEMMA RowKeeps ==
    ASSUME ImportTypeOK, FenceFollows, ImportNext
    PROVE  \/ Round \/ PreflightLosesSource \/ CopyLosesSource \/ OfferSource \/ SourceAvailable
           \/ VerifyFile \/ CommitSucceeded
           \/ /\ row'.loc = row.loc /\ row'.fence = row.fence
              /\ row'.sha = row.sha /\ row'.receipt = row.receipt
<1> DEFINE Same == /\ row'.loc = row.loc /\ row'.fence = row.fence
                   /\ row'.sha = row.sha /\ row'.receipt = row.receipt
<1>0. row \in JobRow
  BY DEF ImportTypeOK
<1>1. CASE PreflightPasses \/ CopyFinished \/ VerificationPassed
  BY <1>0, <1>1 DEF PreflightPasses, CopyFinished, VerificationPassed, JobRow
<1>2. CASE EvidenceLost \/ NoSpace \/ CopyFails
  BY <1>0, <1>2 DEF EvidenceLost, NoSpace, CopyFails, Fail, FailPermanently, RetryableFailure,
     JobRow
<1>3. CASE CheckpointWhole \/ CheckpointBlock
  BY <1>0, <1>3 DEF CheckpointWhole, CheckpointBlock, Checkpointed, CopyCheckpoint, JobRow
<1>4. ASSUME NEW u \in Users, Command(u)
      PROVE  Same
  <2>1. \A q \in {RequestPause(row), RequestCancel(row), ToQueue(row)} :
          /\ Persisted(q).loc = row.loc /\ Persisted(q).fence = row.fence
          /\ Persisted(q).sha = row.sha /\ Persisted(q).receipt = row.receipt
    BY <1>0 DEF RequestPause, RequestCancel, ToQueue, Persisted, FenceFollows, JobRow
  <2> QED BY <1>4, <2>1 DEF Command, Pause, Cancel, Resume, Retry, Ask
<1>5. ASSUME NEW u \in Users, Acknowledge(u)
      PROVE  Same
  BY <1>0, <1>5 DEF Acknowledge, JobRow
<1>6. ASSUME \/ TakeWake \/ FinishTurn \/ EnterPreflight \/ EnterCopy \/ EnterVerify \/ EnterCommit
             \/ ResolveSource \/ NextFile \/ InspectTarget \/ Rehash \/ CopyBlock \/ SyncBlock
             \/ CopyDone \/ CommitPart \/ StopAfterFailure \/ Seal \/ Publish
      PROVE  row' = row
  BY <1>6 DEF TakeWake, FinishTurn, EnterPreflight, EnterCopy, EnterVerify, EnterCommit, Enter,
              ResolveSource, NextFile, InspectTarget, Rehash, FailPermanently, CopyBlock, SyncBlock,
              CopyDone, CommitPart, StopAfterFailure, Seal, Publish
<1>7. ASSUME \/ DiscardStaging \/ ScheduleSource \/ CommitFails \/ Restart \/ RemoveCard
             \/ \E d \in Recordings : InsertCard(d)
             \/ \E u \in Users : StopWorker(u) \/ Schedule(u)
      PROVE  row' = row
  BY <1>7 DEF DiscardStaging, ScheduleSource, CommitFails, Restart, RemoveCard, InsertCard,
              StopWorker, Schedule
<1> QED BY <1>1, <1>2, <1>3, <1>4, <1>5, <1>6, <1>7
        DEF ImportNext, WorkerStep, ScanStep, Trouble, CardMoves, UserStep

(* What those steps do to the row. *)
LEMMA RowMeans ==
    ASSUME ImportTypeOK, FenceFollows
    PROVE  /\ Round => /\ UNCHANGED <<strong, part, journal, target, library, card, scan>>
                       /\ worker'.pc \notin Writing /\ worker'.seen = worker.seen
                       /\ row'.sha = row.sha /\ row'.receipt = row.receipt
                       /\ \/ row' = row
                          \/ /\ row'.loc # None /\ row'.fence = row'.loc
                             /\ row'.fence = row.fence \/ row'.fence = 1
                             /\ row'.state = "preflighting"
           /\ PreflightLosesSource \/ CopyLosesSource =>
                /\ worker'.pc \notin Opened \cup {"resolve"} /\ worker'.seen = worker.seen
                /\ row'.loc = row.loc \/ row'.loc = None
                /\ row'.fence = row.fence /\ row'.sha = row.sha /\ row'.receipt = row.receipt
           /\ OfferSource =>
                /\ row'.loc = row.loc \/ row'.loc = None
                /\ row'.fence = row.fence /\ row'.receipt = row.receipt
                /\ row'.state = "waiting_for_media"
                /\ \/ row'.sha = row.sha /\ scan'.pc = "offer" /\ (strong \/ row.fence = card.gen)
                   \/ row'.sha = Empty(None)
           /\ SourceAvailable =>
                /\ row'.sha = row.sha /\ row'.receipt = row.receipt
                /\ \/ row' = row
                   \/ /\ row.state = "waiting_for_media"
                      /\ row'.state \in {"copying", "preflighting"}
                      /\ row'.loc = scan.loc
                      /\ row'.fence = IF scan.loc = None THEN row.fence ELSE scan.loc
           /\ VerifyFile =>
                /\ row'.loc = row.loc /\ row'.fence = row.fence /\ row'.receipt = row.receipt
                /\ \/ row'.sha = row.sha
                   \/ /\ row'.sha = [row.sha EXCEPT ![f] = Evidence(f)]
                      /\ row.state = "verifying" /\ row'.state = "verifying"
           /\ CommitSucceeded =>
                /\ row'.loc = row.loc /\ row'.fence = row.fence /\ row'.sha = row.sha
                /\ \/ row'.receipt = row.receipt
                   \/ row'.receipt = row.sha /\ row.state = "committing"
<1>0. row \in JobRow /\ worker \in Worker /\ scan \in Scan /\ card \in Card
  BY DEF ImportTypeOK
<1>1. ASSUME Round
      PROVE  /\ UNCHANGED <<strong, part, journal, target, library, card, scan>>
             /\ worker'.pc \notin Writing /\ worker'.seen = worker.seen
             /\ row'.sha = row.sha /\ row'.receipt = row.receipt
             /\ \/ row' = row
                \/ /\ row'.loc # None /\ row'.fence = row'.loc
                   /\ row'.fence = row.fence \/ row'.fence = 1
                   /\ row'.state = "preflighting"
  <2>1. UNCHANGED <<strong, part, journal, target, library, card, scan>>
    BY <1>1 DEF Round, env, files, staging
  <2>2. Phase(row.state) \notin Writing
    BY DEF Phase, Writing, Opened
  <2>3. worker'.pc \notin Writing /\ worker'.seen = worker.seen
    BY <1>0, <1>1, <2>2 DEF Round, At, Worker, Writing, Opened
  <2>4. None # 1
    BY NoneIsNone, ImportAssumption
  <2>5. /\ Start(row).loc # None /\ (Start(row).loc = row.fence \/ Start(row).loc = 1)
        /\ Start(row).state = "preflighting" /\ Start(row).sha = row.sha
        /\ Start(row).receipt = row.receipt /\ Start(row) \in JobRow
    BY <1>0, <2>4, RowMoves DEF Start, FenceFollows, JobRow
  <2>6. LET q == Persisted(Start(row))
        IN /\ q.loc # None /\ q.fence = q.loc /\ (q.fence = row.fence \/ q.fence = 1)
           /\ q.state = "preflighting" /\ q.sha = row.sha /\ q.receipt = row.receipt
    BY <2>5 DEF Persisted, JobRow
  <2> QED BY <1>1, <2>1, <2>3, <2>6 DEF Round
<1>2. ASSUME PreflightLosesSource \/ CopyLosesSource
      PROVE  /\ worker'.pc \notin Opened \cup {"resolve"} /\ worker'.seen = worker.seen
             /\ row'.loc = row.loc \/ row'.loc = None
             /\ row'.fence = row.fence /\ row'.sha = row.sha /\ row'.receipt = row.receipt
  <2>1. worker'.pc \notin Opened \cup {"resolve"} /\ worker'.seen = worker.seen
    BY <1>0, <1>2 DEF PreflightLosesSource, CopyLosesSource, LoseSource, Leave, Goto, Worker,
       Opened
  <2> QED BY <1>0, <1>2, <2>1 DEF PreflightLosesSource, CopyLosesSource, LoseSource,
                                 SourceUnavailable, JobRow
<1>3. ASSUME OfferSource
      PROVE  /\ row'.loc = row.loc \/ row'.loc = None
             /\ row'.fence = row.fence /\ row'.receipt = row.receipt
             /\ row'.state = "waiting_for_media"
             /\ \/ row'.sha = row.sha /\ scan'.pc = "offer" /\ (strong \/ row.fence = card.gen)
                \/ row'.sha = Empty(None)
  <2>1. LET q == ResetProgressForSource(row)
        IN q.loc = None /\ q.fence = row.fence /\ q.receipt = row.receipt /\ q.state = row.state
             /\ q.sha = Empty(None)
    BY <1>0 DEF ResetProgressForSource, JobRow
  <2> QED BY <1>0, <1>3, <2>1 DEF OfferSource, acquisition_fence_changed
<1>4. ASSUME SourceAvailable
      PROVE  /\ row'.sha = row.sha /\ row'.receipt = row.receipt
             /\ \/ row' = row
                \/ /\ row.state = "waiting_for_media"
                   /\ row'.state \in {"copying", "preflighting"}
                   /\ row'.loc = scan.loc
                   /\ row'.fence = IF scan.loc = None THEN row.fence ELSE scan.loc
  <2>1. \A s \in {"copying", "preflighting"} :
          LET q == Persisted([row EXCEPT !.loc = scan.loc, !.from = "preflight", !.state = s])
          IN /\ q.sha = row.sha /\ q.receipt = row.receipt /\ q.state = s /\ q.loc = scan.loc
             /\ q.fence = IF scan.loc = None THEN row.fence ELSE scan.loc
    BY <1>0 DEF Persisted, JobRow
  <2> QED BY <1>4, <2>1 DEF SourceAvailable
<1>5. ASSUME VerifyFile
      PROVE  /\ row'.loc = row.loc /\ row'.fence = row.fence /\ row'.receipt = row.receipt
             /\ \/ row'.sha = row.sha
                \/ /\ row'.sha = [row.sha EXCEPT ![f] = Evidence(f)]
                   /\ row.state = "verifying" /\ row'.state = "verifying"
  BY <1>0, <1>5 DEF VerifyFile, JobRow
<1>6. ASSUME CommitSucceeded
      PROVE  /\ row'.loc = row.loc /\ row'.fence = row.fence /\ row'.sha = row.sha
             /\ \/ row'.receipt = row.receipt
                \/ row'.receipt = row.sha /\ row.state = "committing"
  BY <1>0, <1>6 DEF CommitSucceeded, JobRow
<1> QED BY <1>1, <1>2, <1>3, <1>4, <1>5, <1>6

-----------------------------------------------------------------------------
(* The source.                                                             *)

(* A card keeps its recording until one of a later generation is inserted. *)
LEMMA CardKeeps ==
    ASSUME ImportTypeOK, ImportNext
    PROVE  /\ card'.gen \in Nat /\ card.gen \in Nat /\ card.gen <= card'.gen
           /\ card'.gen = card.gen => card'.data = card.data
<1>0. card \in Card /\ card.gen \in Nat
  BY ImportAssumption DEF ImportTypeOK, Card
<1>1. CASE card' = card
  BY <1>0, <1>1
<1>2. CASE RemoveCard
  BY <1>0, <1>2 DEF RemoveCard, Card
<1>3. ASSUME NEW d \in Recordings, InsertCard(d)
      PROVE  card'.gen = card.gen + 1
  BY <1>3 DEF InsertCard
<1> QED BY <1>0, <1>1, <1>2, <1>3, Actors DEF env, CardMoves

(* The active locator is the one behind the fence. *)
THEOREM FenceStep ==
    ASSUME ImportTypeOK, WriterIsHeld, FenceFollows, ImportNext
    PROVE  FenceFollows'
<1>0. /\ row \in JobRow /\ scan \in Scan /\ card.gen \in 1..MaxCards /\ row.fence \in 1..MaxCards
      /\ MaxCards \in Nat /\ None \notin 1..MaxCards
  BY NoneIsNone, ImportAssumption DEF ImportTypeOK, JobRow, Card
<1>1. card'.gen \in Nat /\ card.gen \in Nat /\ card.gen <= card'.gen
  BY CardKeeps
<1>2. scan'.pc # "idle" => scan'.loc \in 1..card'.gen
  <2>1. CASE OfferSource
    <3>1. scan'.loc = card.gen /\ card' = card
      BY <2>1 DEF OfferSource
    <3> QED BY <1>0, <3>1
  <2>2. CASE DiscardStaging \/ SourceAvailable \/ ScheduleSource
    <3>1. scan'.pc # "idle" => scan'.loc = scan.loc /\ scan.pc # "idle"
      BY <1>0, <2>2 DEF DiscardStaging, SourceAvailable, ScheduleSource, Scan
    <3>2. card' = card
      BY <2>2 DEF DiscardStaging, SourceAvailable, ScheduleSource
    <3> QED BY <3>1, <3>2 DEF FenceFollows
  <2>3. CASE scan' = scan
    BY <1>0, <1>1, <2>3 DEF FenceFollows
  <2>4. CASE Restart
    BY <2>4 DEF Restart
  <2> QED BY <2>1, <2>2, <2>3, <2>4, Actors DEF env, ScanStep
<1>3. CASE row'.fence = row.fence /\ (row'.loc = row.loc \/ row'.loc = None)
  <2>1. row.fence <= card'.gen
    BY <1>0, <1>1 DEF FenceFollows
  <2> QED BY <1>2, <1>3, <2>1 DEF FenceFollows
<1>4. CASE Round
  <2>1. card' = card /\ (row' = row \/ (row'.fence = row'.loc /\ row'.fence \in {row.fence, 1}))
    BY <1>4, RowMeans
  <2>2. row'.fence = row'.loc \/ row' = row
    BY <2>1
  <2>3. row'.fence <= card'.gen
    BY <1>0, <2>1 DEF FenceFollows
  <2> QED BY <1>2, <2>2, <2>3 DEF FenceFollows
<1>5. CASE SourceAvailable
  <2>1. scan.loc \in 1..card.gen /\ scan.loc # None
    BY <1>0, <1>5 DEF SourceAvailable, FenceFollows
  <2>2. card' = card /\ (row' = row \/ (row'.fence = scan.loc /\ row'.loc = scan.loc))
    BY <1>5, <2>1, RowMeans DEF SourceAvailable
  <2> QED BY <1>0, <1>2, <2>1, <2>2 DEF FenceFollows
<1> QED BY <1>3, <1>4, <1>5, RowKeeps, RowMeans

(* What a step leaves of the source that is open: it opens it, goes on with *)
(* the file in hand, takes the next one, or notes the digest of one.        *)
Goes ==
    /\ worker.pc \in Opened /\ worker'.loc = worker.loc /\ worker'.src = worker.src
    /\ worker'.f = worker.f /\ worker'.seen = worker.seen
    /\ worker'.pc \in InHand => worker.pc \in InHand \/ (f \in Files /\ row.sha[f] = None)
    /\ worker'.pc = "checkpoint_whole" => target' = target /\ target[f] = FileOf(Origin)
Notes(x) ==
    /\ worker.pc \in Opened /\ f \in Files /\ worker' = Seen(x)
    /\ \/ x = row.sha[f] /\ x # None /\ UNCHANGED <<target, library>>
       \/ x = FileOf(Origin) /\ target'[f] = x

LEMMA OpenSteps ==
    ASSUME ImportTypeOK, FileInHand, CopiesFromActive,
           WorkerStep \/ NoSpace \/ CopyFails \/ CommitFails, worker'.pc \in Opened
    PROVE  ResolveSource \/ Goes \/ \E x : Notes(x)
<1>0. worker \in Worker /\ target \in [Files -> Digests \cup {None}]
  BY DEF ImportTypeOK
<1>1. worker.pc \in InHand => f \in Files
  BY DEF FileInHand
<1>2. \A y : (verify_digests(FileOf(worker.src), y) => y = FileOf(Origin))
  BY DEF verify_digests, Expected, Origin
<1>a. ASSUME NEW pc \in Steps, worker' = [worker EXCEPT !.pc = pc], worker.pc \in InHand,
             pc = "checkpoint_whole" => target' = target /\ target[f] = FileOf(Origin)
      PROVE  Goes
  <2>1. /\ worker'.loc = worker.loc /\ worker'.src = worker.src /\ worker'.f = worker.f
        /\ worker'.seen = worker.seen /\ worker'.pc = pc
    BY <1>0, <1>a DEF Worker
  <2>2. worker.pc \in Opened
    BY <1>a DEF InHand
  <2> QED BY <1>a, <2>1, <2>2 DEF Goes
<1>3. CASE NextFile
  <2>1. CASE row.sha[f] # None /\ worker' = Seen(row.sha[f])
    <3>1. Notes(row.sha[f])
      BY <1>3, <2>1 DEF NextFile, Notes, At, Opened, files, staging
    <3> QED BY <3>1
  <2>2. CASE row.sha[f] = None /\ worker' = [worker EXCEPT !.pc = "inspect"]
    BY <1>0, <1>3, <2>2 DEF NextFile, Goes, At, Opened, Worker
  <2>3. CASE worker' = [worker EXCEPT !.pc = "loop"]
    BY <1>0, <2>3 DEF Worker, Opened
  <2> QED BY <1>3, <2>1, <2>2, <2>3 DEF NextFile, Leave, Goto
<1>4. CASE InspectTarget
  <2>1. CASE target[f] # None /\ Expected(target[f]) /\ UNCHANGED staging
               /\ worker' = [worker EXCEPT !.pc = IF strong THEN "checkpoint_whole" ELSE "rehash"]
    <3>1. strong => target[f] = FileOf(Origin)
      BY <2>1 DEF Expected, Origin
    <3>2. worker.pc \in InHand /\ {"checkpoint_whole", "rehash"} \subseteq Steps
      BY <1>4 DEF InspectTarget, At, InHand, Opened, Steps
    <3> QED BY <1>a, <2>1, <3>1, <3>2 DEF staging
  <2>2. CASE worker' = [worker EXCEPT !.pc = "block"]
    <3>1. worker.pc \in InHand /\ "block" \in Steps
      BY <1>4 DEF InspectTarget, At, InHand, Opened, Steps
    <3> QED BY <1>a, <2>2, <3>1
  <2> QED BY <1>4, <2>1, <2>2 DEF InspectTarget, Goto
<1>5. CASE Rehash
  <2>1. CASE worker' = [worker EXCEPT !.pc = "checkpoint_whole"]
               /\ verify_digests(FileOf(worker.src), target[f]) /\ target' = target
    <3>1. worker.pc \in InHand /\ "checkpoint_whole" \in Steps
      BY <1>5 DEF Rehash, At, InHand, Opened, Steps
    <3> QED BY <1>2, <1>a, <2>1, <3>1
  <2>2. CASE worker' = [worker EXCEPT !.pc = "idle"]
    BY <1>0, <2>2 DEF Worker, Opened
  <2> QED BY <1>5, <2>1, <2>2 DEF Rehash, FailPermanently, Leave, Goto, files, staging
<1>6. CASE CheckpointWhole
  <2>1. CASE worker' = Seen(target[f])
    <3>1. target[f] = FileOf(Origin) /\ target' = target /\ f \in Files
      BY <1>1, <1>6 DEF CheckpointWhole, Checkpointed, At, FileInHand, InHand, Opened, files,
         staging
    <3>2. Notes(target[f])
      BY <1>6, <2>1, <3>1 DEF CheckpointWhole, At, Opened, Notes
    <3> QED BY <3>2
  <2>2. CASE worker' = [worker EXCEPT !.pc = "loop"]
    BY <1>0, <2>2 DEF Worker, Opened
  <2> QED BY <1>6, <2>1, <2>2 DEF CheckpointWhole, Checkpointed, Leave, Goto
<1>7. CASE CheckpointBlock \/ CopyBlock \/ SyncBlock
  <2>1. worker.pc \in InHand /\ {"block", "sync", "checkpoint"} \subseteq Steps
    BY <1>7 DEF CheckpointBlock, CopyBlock, SyncBlock, At, InHand, Opened, Steps
  <2>2. CASE worker' = [worker EXCEPT !.pc = "loop"]
    BY <1>0, <2>2 DEF Worker, Opened
  <2>3. CASE \E pc \in {"block", "sync", "checkpoint"} : worker' = [worker EXCEPT !.pc = pc]
    BY <1>a, <2>1, <2>3
  <2> QED BY <1>7, <2>2, <2>3 DEF CheckpointBlock, Checkpointed, CopyBlock, SyncBlock, Goto, Leave
<1>8. CASE CopyDone
  <2>1. worker.pc \in InHand /\ "digest" \in Steps
    BY <1>8 DEF CopyDone, At, InHand, Opened, Steps
  <2> QED BY <1>8, <1>a, <2>1 DEF CopyDone, Goto
<1>9. CASE CommitPart
  <2>1. CASE /\ verify_digests(FileOf(worker.src), part[f]) /\ worker' = Seen(part[f])
             /\ target' = [target EXCEPT ![f] = part[f]]
    <3>1. part[f] = FileOf(Origin) /\ f \in Files
      BY <1>1, <1>2, <1>9, <2>1 DEF CommitPart, At, InHand, Opened
    <3>2. Notes(part[f])
      BY <1>0, <1>9, <2>1, <3>1 DEF CommitPart, At, Opened, Notes
    <3> QED BY <3>2
  <2>2. CASE worker' = [worker EXCEPT !.pc = "loop"] \/ worker' = [worker EXCEPT !.pc = "idle"]
    BY <1>0, <2>2 DEF Worker, Opened
  <2> QED BY <1>9, <2>1, <2>2 DEF CommitPart, FailPermanently, Leave, Goto
<1>10. CASE TakeWake \/ FinishTurn
  BY <1>0, <1>10 DEF TakeWake, FinishTurn, Worker, Opened
<1>11. CASE Round
  <2>1. Phase(row.state) \notin Opened
    BY DEF Phase, Opened
  <2> QED BY <1>0, <1>11, <2>1 DEF Round, At, Worker, Opened
<1>12. CASE \/ EnterPreflight \/ EnterCopy \/ EnterVerify \/ EnterCommit
  BY <1>0, <1>12 DEF EnterPreflight, EnterCopy, EnterVerify, EnterCommit, Enter, Goto, Worker,
     Opened
<1>13. CASE PreflightPasses \/ PreflightLosesSource \/ CopyLosesSource \/ CopyFinished
  BY <1>0, <1>13 DEF PreflightPasses, PreflightLosesSource, CopyLosesSource, LoseSource,
                     CopyFinished, Leave, Goto, Worker, Opened
<1>14. CASE StopAfterFailure
  BY <1>0, <1>14 DEF StopAfterFailure, Leave, Goto, Worker, Opened
<1>15. CASE \/ VerifyFile \/ EvidenceLost \/ VerificationPassed \/ Seal \/ Publish \/ CommitSucceeded
  BY <1>0, <1>15 DEF VerifyFile, EvidenceLost, Fail, VerificationPassed, Seal, Publish,
                     CommitSucceeded, At, Leave, Goto, Worker, Opened
<1>16. CASE NoSpace \/ CopyFails \/ CommitFails
  BY <1>0, <1>16 DEF NoSpace, CopyFails, CommitFails, Fail, FailPermanently, Leave, Goto, Worker,
                     Opened
<1> QED BY <1>3, <1>4, <1>5, <1>6, <1>7, <1>8, <1>9, <1>10, <1>11, <1>12, <1>13, <1>14, <1>15,
           <1>16
        DEF WorkerStep

(* The steps that bring an import into the states the proof tells apart. *)
LEMMA StateMoves ==
    ASSUME ImportTypeOK, ImportNext,
           row'.state \in {"verifying", "committing", "waiting_for_media"}, row'.state # row.state
    PROVE  \/ CopyFinished /\ row'.state = "verifying"
           \/ VerificationPassed /\ row'.state = "committing"
           \/ (PreflightLosesSource \/ CopyLosesSource) /\ row'.state = "waiting_for_media"
<1>0. row \in JobRow
  BY DEF ImportTypeOK
<1>1. CASE Round
  <2>1. Persisted(Start(row)).state = "preflighting"
    BY <1>0 DEF Persisted, Start, JobRow
  <2> QED BY <1>1, <2>1 DEF Round
<1>2. CASE PreflightPasses \/ CopyFinished \/ VerificationPassed
  BY <1>0, <1>2 DEF PreflightPasses, CopyFinished, VerificationPassed, JobRow
<1>3. CASE PreflightLosesSource \/ CopyLosesSource
  BY <1>0, <1>3 DEF PreflightLosesSource, CopyLosesSource, LoseSource, SourceUnavailable, JobRow
<1>4. CASE EvidenceLost \/ NoSpace \/ CopyFails
  BY <1>0, <1>4 DEF EvidenceLost, NoSpace, CopyFails, Fail, FailPermanently, RetryableFailure,
     JobRow
<1>5. CASE CheckpointWhole \/ CheckpointBlock
  BY <1>0, <1>5 DEF CheckpointWhole, CheckpointBlock, Checkpointed, CopyCheckpoint, JobRow
<1>6. CASE VerifyFile \/ CommitSucceeded
  BY <1>0, <1>6 DEF VerifyFile, CommitSucceeded, JobRow
<1>7. CASE OfferSource
  <2>1. ResetProgressForSource(row).state = row.state
    BY <1>0 DEF ResetProgressForSource, JobRow
  <2> QED BY <1>7, <2>1 DEF OfferSource
<1>8. CASE SourceAvailable
  <2>1. \A s \in {"copying", "preflighting"} :
          Persisted([row EXCEPT !.loc = scan.loc, !.from = "preflight", !.state = s]).state = s
    BY <1>0 DEF Persisted, JobRow
  <2> QED BY <1>8, <2>1 DEF SourceAvailable
<1>9. ASSUME NEW u \in Users, Command(u)
      PROVE  row'.state \in {"pausing", "cancelling", "queued"}
  <2>1. /\ Persisted(RequestPause(row)).state = "pausing"
        /\ Persisted(RequestCancel(row)).state = "cancelling"
        /\ Persisted(ToQueue(row)).state = "queued"
    BY <1>0 DEF Persisted, RequestPause, RequestCancel, ToQueue, JobRow
  <2> QED BY <1>9, <2>1 DEF Command, Pause, Cancel, Resume, Retry, Ask
<1>10. ASSUME NEW u \in Users, Acknowledge(u)
       PROVE  row'.state \in {"paused", "cancelled", row.state}
  BY <1>0, <1>10 DEF Acknowledge, JobRow
<1>11. ASSUME \/ TakeWake \/ FinishTurn \/ EnterPreflight \/ EnterCopy \/ EnterVerify \/ EnterCommit
              \/ ResolveSource \/ NextFile \/ InspectTarget \/ Rehash \/ CopyBlock \/ SyncBlock
              \/ CopyDone \/ CommitPart \/ StopAfterFailure \/ Seal \/ Publish
       PROVE  row' = row
  BY <1>11 DEF TakeWake, FinishTurn, EnterPreflight, EnterCopy, EnterVerify, EnterCommit, Enter,
               ResolveSource, NextFile, InspectTarget, Rehash, FailPermanently, CopyBlock, SyncBlock,
               CopyDone, CommitPart, StopAfterFailure, Seal, Publish
<1>12. ASSUME \/ DiscardStaging \/ ScheduleSource \/ CommitFails \/ Restart \/ RemoveCard
              \/ \E d \in Recordings : InsertCard(d)
              \/ \E u \in Users : StopWorker(u) \/ Schedule(u)
       PROVE  row' = row
  BY <1>12 DEF DiscardStaging, ScheduleSource, CommitFails, Restart, RemoveCard, InsertCard,
               StopWorker, Schedule
<1> QED BY <1>1, <1>2, <1>3, <1>4, <1>5, <1>6, <1>7, <1>8, <1>9, <1>10, <1>11, <1>12
        DEF ImportNext, WorkerStep, ScanStep, Trouble, CardMoves, UserStep

(* While the worker is inside a phase nobody else touches the files, nor what *)
(* the row says of its source and its evidence.                               *)
Aside ==
    /\ worker' = worker /\ UNCHANGED <<strong, part, journal, target, library, scan>>
    /\ row'.loc = row.loc /\ row'.fence = row.fence
    /\ row'.sha = row.sha /\ row'.receipt = row.receipt

LEMMA WorkerAlone ==
    ASSUME ImportTypeOK, WriterIsHeld, FenceFollows, ImportNext, worker.pc \in Writing
    PROVE  \/ (WorkerStep \/ NoSpace \/ CopyFails \/ CommitFails) /\ UNCHANGED env
           \/ Restart
           \/ Aside
<1>1. writer = "worker" /\ scan.pc = "idle" /\ writer # None
  BY NoneIsNone DEF WriterIsHeld
<1>2. ~ScanStep
  BY <1>1 DEF ScanStep, OfferSource, DiscardStaging, SourceAvailable, ScheduleSource
<1>3. CASE /\ CardMoves
           /\ UNCHANGED <<row, strong, part, journal, target, library, worker, scan>>
  BY <1>3 DEF Aside
<1>4. ASSUME NEW u \in Users, Command(u) \/ UserStep(u),
             UNCHANGED <<strong, part, journal, target, library, card, writer, worker, scan, trouble>>
      PROVE  Aside
  <2>1. ~SourceAvailable /\ ~OfferSource
    BY <1>2 DEF ScanStep
  <2>2. row \in JobRow
    BY DEF ImportTypeOK
  <2>3. \A q \in {RequestPause(row), RequestCancel(row), ToQueue(row)} :
          /\ Persisted(q).loc = row.loc /\ Persisted(q).fence = row.fence
          /\ Persisted(q).sha = row.sha /\ Persisted(q).receipt = row.receipt
    BY <2>2 DEF RequestPause, RequestCancel, ToQueue, Persisted, FenceFollows, JobRow
  <2>4. CASE Command(u)
    BY <1>4, <2>3, <2>4 DEF Command, Pause, Cancel, Resume, Retry, Ask, Aside
  <2>5. CASE Acknowledge(u)
    BY <1>4, <2>2, <2>5 DEF Acknowledge, JobRow, Aside
  <2>6. CASE StopWorker(u) \/ Schedule(u)
    BY <1>4, <2>6 DEF StopWorker, Schedule, Aside
  <2> QED BY <1>4, <2>4, <2>5, <2>6 DEF UserStep
<1> QED BY <1>2, <1>3, <1>4, Actors

(* The worker comes to the opening of the source only with the row's locator. *)
LEMMA ResolveSteps ==
    ASSUME ImportTypeOK, WorkerStep \/ NoSpace \/ CopyFails \/ CommitFails, worker'.pc = "resolve"
    PROVE  worker'.loc = row'.loc
<1>0. worker \in Worker
  BY DEF ImportTypeOK
<1>1. CASE EnterPreflight \/ EnterCopy \/ EnterVerify \/ EnterCommit
  BY <1>0, <1>1 DEF EnterPreflight, EnterCopy, EnterVerify, EnterCommit, Enter, Goto, Worker
<1>2. CASE Round
  <2>1. Phase(row.state) # "resolve"
    BY DEF Phase
  <2> QED BY <1>0, <1>2, <2>1 DEF Round, At, Worker
<1>3. CASE TakeWake \/ FinishTurn \/ PreflightPasses \/ PreflightLosesSource \/ CopyLosesSource
  BY <1>0, <1>3 DEF TakeWake, FinishTurn, PreflightPasses, PreflightLosesSource, CopyLosesSource,
                    LoseSource, Leave, Goto, Worker
<1>4. CASE \/ ResolveSource \/ NextFile \/ InspectTarget \/ Rehash
  BY <1>0, <1>4 DEF ResolveSource, NextFile, InspectTarget, Rehash, FailPermanently, Seen, Goto,
                    Leave, Worker
<1>5. CASE CheckpointWhole \/ CheckpointBlock \/ CopyBlock \/ SyncBlock
  BY <1>0, <1>5 DEF CheckpointWhole, CheckpointBlock, Checkpointed, CopyBlock, SyncBlock, Seen,
                    Goto, Leave, Worker
<1>6. CASE CopyDone \/ CommitPart \/ CopyFinished \/ StopAfterFailure
  BY <1>0, <1>6 DEF CopyDone, CommitPart, CopyFinished, StopAfterFailure, FailPermanently, Seen,
     Goto,
                    Leave, Worker
<1>7. CASE \/ VerifyFile \/ EvidenceLost \/ VerificationPassed \/ Seal \/ Publish \/ CommitSucceeded
  BY <1>0, <1>7 DEF VerifyFile, EvidenceLost, Fail, VerificationPassed, Seal, Publish,
                    CommitSucceeded, At, Leave, Goto, Worker
<1>8. CASE NoSpace \/ CopyFails \/ CommitFails
  BY <1>0, <1>8 DEF NoSpace, CopyFails, CommitFails, Fail, FailPermanently, Leave, Goto, Worker
<1> QED BY <1>1, <1>2, <1>3, <1>4, <1>5, <1>6, <1>7, <1>8 DEF WorkerStep

(* While the worker copies on, the row keeps its source and its evidence. *)
LEMMA CopyKeepsRow ==
    ASSUME ImportTypeOK, WriterIsHeld, FenceFollows, ImportNext,
           worker.pc \in Writing, worker'.pc \in Opened
    PROVE  row'.fence = row.fence /\ row'.sha = row.sha
<1>1. worker \in Worker /\ writer = "worker" /\ scan.pc = "idle" /\ writer # None
  BY NoneIsNone DEF WriterIsHeld, ImportTypeOK
<1>2. ~OfferSource /\ ~SourceAvailable
  BY <1>1 DEF OfferSource, SourceAvailable
<1>3. VerifyFile => worker'.pc \notin Opened
  BY <1>1 DEF VerifyFile, At, Leave, Goto, Opened, Worker
<1>4. Round => worker'.pc \notin Writing
  BY RowMeans
<1>5. (PreflightLosesSource \/ CopyLosesSource) => row'.fence = row.fence /\ row'.sha = row.sha
  BY RowMeans
<1>6. CommitSucceeded => row'.fence = row.fence /\ row'.sha = row.sha
  BY RowMeans
<1> QED BY <1>2, <1>3, <1>4, <1>5, <1>6, RowKeeps DEF Writing

(* The worker copies from the card that the row names. *)
THEOREM SourceStep ==
    ASSUME ImportTypeOK, WriterIsHeld, FenceFollows, CopiesFromActive, FileInHand, ImportNext
    PROVE  CopiesFromActive'
<1>0. /\ worker \in Worker /\ card.gen \in 1..MaxCards /\ card.data \in Recordings
      /\ None \notin 1..MaxCards /\ row.fence \in 1..MaxCards /\ MaxCards \in Nat
  BY NoneIsNone, ImportAssumption DEF ImportTypeOK, Card, JobRow
<1>1. CASE worker.pc \in Opened /\ worker'.pc \in Opened /\ worker'.loc = worker.loc
             /\ worker'.src = worker.src
  <2>1. row'.fence = row.fence
    BY <1>1, CopyKeepsRow DEF Writing
  <2>2. worker.loc = row.fence /\ worker.src \in Recordings
          /\ (worker.loc = card.gen => worker.src = card.data)
    BY <1>1 DEF CopiesFromActive
  <2>3. worker.loc = card'.gen => card'.gen = card.gen
    BY <1>0, <2>2, CardKeeps DEF FenceFollows
  <2>4. worker.loc = card'.gen => worker.src = card'.data
    BY <2>2, <2>3, CardKeeps
  <2>5. worker'.pc # "resolve"
    BY <1>1 DEF Opened
  <2> QED BY <1>1, <2>1, <2>2, <2>4, <2>5 DEF CopiesFromActive
<1>2. CASE worker'.pc \notin Opened \cup {"resolve"}
  BY <1>2 DEF CopiesFromActive
<1>3. CASE (WorkerStep \/ NoSpace \/ CopyFails \/ CommitFails) /\ UNCHANGED env
  <2>1. CASE worker'.pc = "resolve"
    <3>1. worker'.loc = row'.loc
      BY <1>3, <2>1, ResolveSteps
    <3>2. worker'.pc \notin Opened
      BY <2>1 DEF Opened
    <3> QED BY <3>1, <3>2 DEF CopiesFromActive
  <2>2. CASE ResolveSource
    <3>1. /\ worker'.pc = "file" /\ worker'.src = card.data /\ worker'.loc = worker.loc
          /\ row' = row
      BY <1>0, <2>2 DEF ResolveSource, Worker
    <3>2. worker.loc = card.gen /\ worker.loc = row.loc
      BY <2>2 DEF ResolveSource, At, generation_matches, CopiesFromActive
    <3>3. row.loc = row.fence
      BY <1>0, <3>2 DEF FenceFollows
    <3>4. card' = card
      BY <1>3 DEF env
    <3> QED BY <1>0, <3>1, <3>2, <3>3, <3>4 DEF CopiesFromActive
  <2>3. CASE Goes /\ worker'.pc \in Opened
    BY <1>1, <2>3 DEF Goes
  <2>4. ASSUME NEW x, Notes(x), worker'.pc \in Opened
        PROVE  CopiesFromActive'
    <3>1. worker.pc \in Opened /\ worker'.loc = worker.loc /\ worker'.src = worker.src
      BY <1>0, <2>4 DEF Notes, Seen, Worker
    <3> QED BY <1>1, <2>4, <3>1
  <2> QED BY <1>2, <1>3, <2>1, <2>2, <2>3, <2>4, OpenSteps
<1>4. CASE Restart
  <2>1. worker'.pc = "idle"
    BY <1>0, <1>4 DEF Restart, Worker
  <2> QED BY <1>2, <2>1 DEF Opened
<1>5. CASE worker' = worker /\ worker.pc \in Opened
  BY <1>1, <1>5
<1>6. CASE worker' = worker /\ worker.pc = "resolve"
  <2>1. worker.pc \in Writing
    BY <1>6 DEF Writing
  <2>2. worker.loc = row.loc
    BY <1>6 DEF CopiesFromActive
  <2>3. worker'.pc \notin Opened
    BY <1>6 DEF Opened
  <2>4. CASE Aside
    BY <1>6, <2>2, <2>3, <2>4 DEF Aside, CopiesFromActive
  <2> QED BY <1>3, <1>4, <2>1, <2>4, WorkerAlone
<1> QED BY <1>2, <1>3, <1>4, <1>5, <1>6, Actors

-----------------------------------------------------------------------------
(* The file in hand, the offer and the commit.                             *)

(* What noting the digest of a file does to the worker. *)
LEMMA SeenFields ==
    ASSUME ImportTypeOK, NEW x, worker' = Seen(x), f \in Files
    PROVE  /\ worker'.pc = "file" /\ worker'.f = f + 1
           /\ worker'.seen = [worker.seen EXCEPT ![f] = x]
           /\ worker'.src = worker.src /\ worker'.loc = worker.loc
  BY DEF ImportTypeOK, Worker, Seen, f

(* The file in hand has no evidence, and one that is taken as it is was *)
(* compared with the source.                                            *)
THEOREM HandStep ==
    ASSUME ImportTypeOK, WriterIsHeld, FenceFollows, CopiesFromActive, FileInHand, ImportNext
    PROVE  FileInHand'
<1>0. /\ worker \in Worker /\ worker.f \in 1..(NFiles + 1) /\ NFiles \in Nat
      /\ worker.seen \in [Files -> Digests \cup {None}]
  BY ImportAssumption DEF ImportTypeOK, Worker
<1>1. CASE worker'.pc \notin Opened
  BY <1>1 DEF FileInHand, InHand, Opened
<1>2. CASE /\ worker.pc \in Opened /\ worker'.f = worker.f /\ worker'.seen = worker.seen
           /\ worker'.src = worker.src /\ strong' = strong
           /\ worker'.pc \in InHand => worker.pc \in InHand \/ (f \in Files /\ row.sha[f] = None)
           /\ worker'.pc = "checkpoint_whole" => target' = target /\ target[f] = FileOf(Origin)
           /\ worker'.pc \in Opened
  <2>1. row'.sha = row.sha
    BY <1>2, CopyKeepsRow DEF Writing
  <2>2. f' = f /\ Origin' = Origin
    BY <1>2 DEF f, Origin
  <2>3. worker'.pc \in InHand => f \in Files /\ row.sha[f] = None
    BY <1>2 DEF FileInHand
  <2>4. \A g \in Files : worker'.seen[g] # None => g < f'
    BY <1>2, <2>2 DEF FileInHand
  <2>5. worker'.pc = "checkpoint_whole" => target'[f'] = FileOf(Origin)'
    BY <1>2, <2>2 DEF FileOf
  <2> QED BY <2>1, <2>2, <2>3, <2>4, <2>5 DEF FileInHand
<1>3. CASE (WorkerStep \/ NoSpace \/ CopyFails \/ CommitFails) /\ UNCHANGED env
  <2>1. strong' = strong
    BY <1>3 DEF env
  <2>2. CASE ResolveSource
    <3>1. worker'.pc = "file" /\ worker'.seen = Empty(None)
      BY <1>0, <2>2 DEF ResolveSource, Worker
    <3> QED BY <3>1 DEF FileInHand, InHand, Opened, Empty
  <2>3. CASE Goes /\ worker'.pc \in Opened
    BY <1>2, <2>1, <2>3 DEF Goes
  <2>4. ASSUME NEW x, Notes(x)
        PROVE  FileInHand'
    <3>1. worker.pc \in Opened /\ f \in Files /\ worker' = Seen(x)
      BY <2>4 DEF Notes
    <3>2. /\ worker'.pc = "file" /\ f' = f + 1
          /\ worker'.seen = [worker.seen EXCEPT ![f] = x]
      BY <3>1, SeenFields DEF f
    <3>3. \A g \in Files : worker.seen[g] # None => g < f
      BY <3>1 DEF FileInHand
    <3>4. \A g \in Files : worker'.seen[g] # None => g < f + 1
      <4> SUFFICES ASSUME NEW g \in Files, worker'.seen[g] # None
                   PROVE  g < f + 1
        OBVIOUS
      <4>1. g = f \/ worker.seen[g] # None
        BY <1>0, <3>2
      <4> QED BY <3>1, <3>3, <4>1, ImportAssumption DEF Files
    <3> QED BY <3>2, <3>4 DEF FileInHand, InHand
  <2> QED BY <1>1, <1>3, <2>2, <2>3, <2>4, OpenSteps
<1>4. CASE Restart
  <2>1. worker'.pc = "idle"
    BY <1>0, <1>4 DEF Restart, Worker
  <2> QED BY <1>1, <2>1 DEF Opened
<1>5. CASE worker' = worker /\ worker.pc \in Opened
  <2>1. CASE Aside
    <3>1. worker.pc = "checkpoint_whole" => target' = target /\ target[f] = FileOf(Origin)
      BY <2>1 DEF Aside, FileInHand
    <3> QED BY <1>2, <1>5, <2>1, <3>1 DEF Aside
  <2> QED BY <1>3, <1>4, <1>5, <2>1, WorkerAlone DEF Writing
<1> QED BY <1>1, <1>3, <1>4, <1>5, Actors

(* Outside its phases the worker only starts a queued import. *)
LEMMA WorkerOutside ==
    ASSUME ImportTypeOK, WorkerStep \/ NoSpace \/ CopyFails \/ CommitFails, worker.pc \notin Writing
    PROVE  Round \/ (row' = row /\ UNCHANGED files)
<1>1. CASE TakeWake \/ FinishTurn \/ EnterPreflight \/ EnterCopy \/ EnterVerify \/ EnterCommit
  BY <1>1 DEF TakeWake, FinishTurn, EnterPreflight, EnterCopy, EnterVerify, EnterCommit, Enter
<1>2. ASSUME \/ PreflightPasses \/ PreflightLosesSource \/ ResolveSource \/ CopyLosesSource
             \/ NextFile \/ InspectTarget \/ Rehash \/ CheckpointWhole \/ CopyBlock \/ SyncBlock
             \/ CheckpointBlock \/ CopyDone \/ CommitPart \/ CopyFinished \/ StopAfterFailure
      PROVE  FALSE
  BY <1>2 DEF PreflightPasses, PreflightLosesSource, ResolveSource, CopyLosesSource, NextFile,
              InspectTarget, Rehash, CheckpointWhole, CopyBlock, SyncBlock, CheckpointBlock, CopyDone,
              CommitPart, CopyFinished, StopAfterFailure, At, Writing, Opened
<1>3. ASSUME \/ VerifyFile \/ EvidenceLost \/ VerificationPassed \/ Seal \/ Publish
             \/ CommitSucceeded \/ NoSpace \/ CopyFails \/ CommitFails
      PROVE  FALSE
  BY <1>3 DEF VerifyFile, EvidenceLost, VerificationPassed, Seal, Publish, CommitSucceeded,
     NoSpace,
              CopyFails, CommitFails, At, Writing, Opened
<1> QED BY <1>1, <1>2, <1>3 DEF WorkerStep

(* While a card is offered, the evidence is that of this card or is gone. *)
THEOREM OfferStep ==
    ASSUME ImportTypeOK, WriterIsHeld, FenceFollows, OfferIsSafe, ImportNext
    PROVE  OfferIsSafe'
<1> DEFINE Safe == /\ row'.state \notin {"verifying", "committing"}
                   /\ scan'.pc = "discard" => \A g \in Files : row'.sha[g] = None
                   /\ row'.state = "waiting_for_media" /\ ~strong' =>
                        row'.fence = scan'.loc \/ \A g \in Files : row'.sha[g] = None
<1>0. row \in JobRow /\ scan \in Scan /\ worker \in Worker
  BY DEF ImportTypeOK
<1>s. Safe => OfferIsSafe'
  BY DEF OfferIsSafe
<1>1. CASE scan'.pc \notin {"discard", "offer"}
  BY <1>1 DEF OfferIsSafe
<1>2. CASE OfferSource
  <2>1. strong' = strong /\ scan'.loc = card.gen
    BY <1>2 DEF OfferSource
  <2>2. /\ row'.fence = row.fence /\ row'.state = "waiting_for_media"
        /\ \/ row'.sha = row.sha /\ scan'.pc = "offer" /\ (strong \/ row.fence = card.gen)
           \/ row'.sha = Empty(None)
    BY <1>2, RowMeans
  <2>3. CASE row'.sha = Empty(None)
    <3>1. \A g \in Files : row'.sha[g] = None
      BY <2>3 DEF Empty
    <3> QED BY <1>s, <2>2, <3>1
  <2>4. CASE scan'.pc = "offer" /\ (strong \/ row.fence = card.gen)
    BY <1>s, <2>1, <2>2, <2>4
  <2> QED BY <2>2, <2>3, <2>4
<1>3. CASE DiscardStaging
  <2>1. row' = row /\ strong' = strong /\ scan'.loc = scan.loc /\ scan'.pc = "offer"
          /\ scan.pc = "discard"
    BY <1>0, <1>3 DEF DiscardStaging, Scan
  <2>2. row.state \notin {"verifying", "committing"} /\ \A g \in Files : row.sha[g] = None
    BY <2>1 DEF OfferIsSafe
  <2> QED BY <1>s, <2>1, <2>2
<1>4. CASE SourceAvailable \/ ScheduleSource \/ Restart
  <2>1. scan'.pc \notin {"discard", "offer"}
    BY <1>0, <1>4 DEF SourceAvailable, ScheduleSource, Restart, Scan
  <2> QED BY <1>1, <2>1
<1>5. CASE scan' = scan /\ strong' = strong /\ ~ScanStep
  <2>1. SUFFICES ASSUME scan.pc \in {"discard", "offer"}
                 PROVE  OfferIsSafe'
    BY <1>1, <1>5
  <2>2. worker.pc \notin Writing
    BY <2>1 DEF WriterIsHeld
  <2>3. /\ row.state \notin {"verifying", "committing"}
        /\ scan.pc = "discard" => \A g \in Files : row.sha[g] = None
        /\ row.state = "waiting_for_media" /\ ~strong =>
             row.fence = scan.loc \/ \A g \in Files : row.sha[g] = None
    BY <2>1 DEF OfferIsSafe
  <2>4. ~PreflightLosesSource /\ ~CopyLosesSource /\ ~VerifyFile /\ ~CommitSucceeded
          /\ ~CopyFinished /\ ~VerificationPassed
    BY <2>2 DEF PreflightLosesSource, CopyLosesSource, VerifyFile, CommitSucceeded, CopyFinished,
                VerificationPassed, At, Writing, Opened
  <2>5. row'.state \in {"verifying", "committing", "waiting_for_media"} => row'.state = row.state
    BY <2>4, StateMoves
  <2>6. CASE Round
    <3>1. row' = row \/ (row'.state = "preflighting" /\ row'.sha = row.sha)
      BY <2>6, RowMeans
    <3> QED BY <1>5, <1>s, <2>3, <3>1
  <2>7. CASE row'.fence = row.fence /\ row'.sha = row.sha
    BY <1>5, <1>s, <2>3, <2>5, <2>7
  <2> QED BY <1>5, <2>4, <2>6, <2>7, RowKeeps DEF ScanStep
<1> QED BY <1>2, <1>3, <1>4, <1>5, Actors DEF ScanStep, env

(* The worker comes to a commit only with a row that says so, goes on to    *)
(* publish only what it sealed, and counts a file as verified only with its *)
(* evidence.                                                                *)
LEMMA CommitSteps ==
    ASSUME ImportTypeOK, WorkerStep \/ NoSpace \/ CopyFails \/ CommitFails,
           worker'.pc \in {"evidence", "seal", "publish", "receipt"}
    PROVE  \/ EnterVerify /\ worker'.pc = "evidence" /\ worker'.f = 1 /\ row' = row
           \/ VerifyFile /\ worker'.pc = "evidence" /\ worker'.f = f + 1
              /\ row'.sha = [row.sha EXCEPT ![f] = Evidence(f)]
           \/ EnterCommit /\ worker'.pc = "seal" /\ row.state = "committing" /\ row' = row
           \/ Seal /\ worker'.pc = "publish" /\ row' = row /\ UNCHANGED <<target, library>>
              /\ (library = None => \A g \in Files : target[g] = row.sha[g])
           \/ Publish /\ worker'.pc = "receipt" /\ row' = row
<1>0. worker \in Worker /\ row \in JobRow
  BY DEF ImportTypeOK
<1>1. CASE EnterPreflight \/ EnterCopy \/ EnterVerify \/ EnterCommit
  BY <1>0, <1>1 DEF EnterPreflight, EnterCopy, EnterVerify, EnterCommit, Enter, Goto, Worker
<1>2. CASE Round
  <2>1. Phase(row.state) \notin {"evidence", "seal", "publish", "receipt"}
    BY DEF Phase
  <2> QED BY <1>0, <1>2, <2>1 DEF Round, At, Worker
<1>3. CASE TakeWake \/ FinishTurn \/ PreflightPasses \/ PreflightLosesSource \/ CopyLosesSource
  BY <1>0, <1>3 DEF TakeWake, FinishTurn, PreflightPasses, PreflightLosesSource, CopyLosesSource,
                    LoseSource, Leave, Goto, Worker
<1>4. CASE \/ ResolveSource \/ NextFile \/ InspectTarget \/ Rehash
  BY <1>0, <1>4 DEF ResolveSource, NextFile, InspectTarget, Rehash, FailPermanently, Seen, Goto,
                    Leave, Worker
<1>5. CASE CheckpointWhole \/ CheckpointBlock \/ CopyBlock \/ SyncBlock
  BY <1>0, <1>5 DEF CheckpointWhole, CheckpointBlock, Checkpointed, CopyBlock, SyncBlock, Seen,
                    Goto, Leave, Worker
<1>6. CASE CopyDone \/ CommitPart \/ CopyFinished \/ StopAfterFailure
  BY <1>0, <1>6 DEF CopyDone, CommitPart, CopyFinished, StopAfterFailure, FailPermanently, Seen,
     Goto,
                    Leave, Worker
<1>7. CASE VerifyFile
  BY <1>0, <1>7 DEF VerifyFile, At, Leave, Goto, f, Worker, JobRow
<1>8. CASE EvidenceLost \/ VerificationPassed \/ CommitSucceeded
  BY <1>0, <1>8 DEF EvidenceLost, Fail, VerificationPassed, CommitSucceeded, Leave, Goto, Worker
<1>9. CASE Seal
  BY <1>0, <1>9 DEF Seal, Leave, Goto, Worker, files, staging
<1>10. CASE Publish
  BY <1>0, <1>10 DEF Publish, Goto, Worker
<1>11. CASE NoSpace \/ CopyFails \/ CommitFails
  BY <1>0, <1>11 DEF NoSpace, CopyFails, CommitFails, Fail, FailPermanently, Leave, Goto, Worker
<1> QED BY <1>1, <1>2, <1>3, <1>4, <1>5, <1>6, <1>7, <1>8, <1>9, <1>10, <1>11 DEF WorkerStep

(* The digests of a row change in two steps only: a file is verified, or a *)
(* new source makes them void.                                             *)
LEMMA ShaMoves ==
    ASSUME ImportTypeOK, FenceFollows, ImportNext
    PROVE  \/ row'.sha = row.sha
           \/ OfferSource /\ row'.sha = Empty(None) /\ row'.state = "waiting_for_media"
           \/ /\ VerifyFile /\ f \in Files /\ Evidence(f) # None
              /\ row'.sha = [row.sha EXCEPT ![f] = Evidence(f)]
              /\ row.state = "verifying" /\ row'.state = "verifying"
<1>1. CASE Round
  BY <1>1, RowMeans
<1>2. CASE PreflightLosesSource \/ CopyLosesSource
  BY <1>2, RowMeans
<1>3. CASE OfferSource
  BY <1>3, RowMeans
<1>4. CASE SourceAvailable
  BY <1>4, RowMeans
<1>5. CASE VerifyFile
  <2>1. f \in Files /\ Evidence(f) # None
    BY <1>5 DEF VerifyFile
  <2> QED BY <1>5, <2>1, RowMeans
<1>6. CASE CommitSucceeded
  BY <1>6, RowMeans
<1> QED BY <1>1, <1>2, <1>3, <1>4, <1>5, <1>6, RowKeeps

(* A commit has the evidence of every file, and publishes what it sealed. *)
THEOREM CommitStep ==
    ASSUME ImportTypeOK, WriterIsHeld, FenceFollows, CommitIsWhole, ImportNext
    PROVE  CommitIsWhole'
<1> DEFINE Whole == \A g \in Files : row.sha[g] # None
<1>0. /\ worker \in Worker /\ row.sha \in [Files -> Digests \cup {None}]
      /\ worker.f \in 1..(NFiles + 1) /\ NFiles \in Nat
  BY ImportAssumption DEF ImportTypeOK, JobRow, Worker
<1>1. ASSUME ~OfferSource, NEW g \in Files, row.sha[g] # None
      PROVE  row'.sha[g] # None
  BY <1>0, <1>1, ShaMoves
<1>2. OfferSource => /\ worker' = worker /\ worker.pc \notin Writing
                     /\ row'.state = "waiting_for_media"
  <2>1. OfferSource => row'.state = "waiting_for_media"
    BY RowMeans
  <2> QED BY <2>1, NoneIsNone DEF OfferSource, WriterIsHeld
<1>3. row'.state = "committing" => Whole'
  <2>1. CASE row.state = "committing"
    BY <1>1, <1>2, <2>1 DEF CommitIsWhole
  <2>2. CASE row.state # "committing" /\ row'.state = "committing"
    <3>1. VerificationPassed
      BY <2>2, StateMoves
    <3>2. worker.pc = "evidence" /\ f > NFiles
      BY <3>1 DEF VerificationPassed, At
    <3>3. \A g \in Files : g < f
      BY <1>0, <3>2 DEF Files, f
    <3>4. Whole
      BY <3>2, <3>3 DEF CommitIsWhole
    <3> QED BY <1>1, <1>2, <2>2, <3>4
  <2> QED BY <2>1, <2>2
<1>4. CASE worker'.pc \notin {"evidence", "seal", "publish", "receipt"}
  BY <1>3, <1>4 DEF CommitIsWhole
<1>5. CASE (WorkerStep \/ NoSpace \/ CopyFails \/ CommitFails) /\ UNCHANGED env
  <2>1. CASE EnterVerify /\ worker'.pc = "evidence" /\ worker'.f = 1 /\ row' = row
    <3>1. \A g \in Files : ~(g < f')
      BY <2>1 DEF Files, f
    <3> QED BY <1>3, <2>1, <3>1 DEF CommitIsWhole
  <2>2. CASE VerifyFile /\ worker'.pc = "evidence" /\ worker'.f = f + 1
               /\ row'.sha = [row.sha EXCEPT ![f] = Evidence(f)]
    <3>1. worker.pc = "evidence" /\ f \in Files /\ Evidence(f) # None
      BY <2>2 DEF VerifyFile, At
    <3>2. \A g \in Files : g < f => row.sha[g] # None
      BY <3>1 DEF CommitIsWhole
    <3>3. \A g \in Files : g < f + 1 => g < f \/ g = f
      BY <1>0, <3>1 DEF Files
    <3>4. \A g \in Files : g < f + 1 => row'.sha[g] # None
      BY <1>0, <2>2, <3>1, <3>2, <3>3
    <3>5. f' = f + 1
      BY <2>2 DEF f
    <3> QED BY <1>3, <2>2, <3>4, <3>5 DEF CommitIsWhole
  <2>3. CASE EnterCommit /\ worker'.pc = "seal" /\ row.state = "committing" /\ row' = row
    <3>1. Whole
      BY <2>3 DEF CommitIsWhole
    <3> QED BY <2>3, <3>1 DEF CommitIsWhole
  <2>4. CASE /\ Seal /\ worker'.pc = "publish" /\ row' = row /\ UNCHANGED <<target, library>>
             /\ (library = None => \A g \in Files : target[g] = row.sha[g])
    <3>1. Whole
      BY <2>4 DEF Seal, At, CommitIsWhole
    <3> QED BY <2>4, <3>1 DEF CommitIsWhole
  <2>5. CASE Publish /\ worker'.pc = "receipt" /\ row' = row
    <3>1. Whole
      BY <2>5 DEF Publish, At, CommitIsWhole
    <3> QED BY <2>5, <3>1 DEF CommitIsWhole
  <2> QED BY <1>4, <1>5, <2>1, <2>2, <2>3, <2>4, <2>5, CommitSteps
<1>6. CASE Restart
  <2>1. worker'.pc = "idle"
    BY <1>0, <1>6 DEF Restart, Worker
  <2> QED BY <1>4, <2>1
<1>7. CASE worker' = worker /\ worker.pc \in {"evidence", "seal", "publish", "receipt"}
  <2>1. worker.pc \in Writing
    BY <1>7 DEF Writing
  <2>2. CASE Aside
    <3>1. f' = f
      BY <1>7 DEF f
    <3> QED BY <1>3, <1>7, <2>2, <3>1 DEF Aside, CommitIsWhole
  <2> QED BY <1>5, <1>6, <2>1, <2>2, WorkerAlone
<1> QED BY <1>4, <1>5, <1>6, <1>7, Actors

(* The digests of a turn: they are forgotten, kept, or one more is noted. *)
LEMMA SeenMoves ==
    ASSUME ImportTypeOK, FileInHand, CopiesFromActive, ImportNext
    PROVE  \/ worker'.seen = Empty(None)
           \/ worker'.seen = worker.seen
           \/ \E x : Notes(x) /\ strong' = strong /\ card' = card
<1>0. worker \in Worker
  BY DEF ImportTypeOK
<1>1. CASE TakeWake \/ FinishTurn \/ Restart \/ ResolveSource
  BY <1>0, <1>1 DEF TakeWake, FinishTurn, Restart, ResolveSource, Worker
<1>2. CASE Round
  BY <1>0, <1>2 DEF Round, Worker
<1>3. CASE EnterPreflight \/ EnterCopy \/ EnterVerify \/ EnterCommit
  BY <1>0, <1>3 DEF EnterPreflight, EnterCopy, EnterVerify, EnterCommit, Enter, Goto, Worker
<1>4. CASE PreflightPasses \/ PreflightLosesSource \/ CopyLosesSource \/ StopAfterFailure
  BY <1>0, <1>4 DEF PreflightPasses, PreflightLosesSource, CopyLosesSource, LoseSource, Leave,
     Goto,
                    StopAfterFailure, Worker
<1>5. CASE NextFile \/ CheckpointWhole \/ CommitPart
  <2>1. CASE worker'.pc \in Opened
    <3>1. ~ResolveSource
      BY <1>5 DEF NextFile, CheckpointWhole, CommitPart, ResolveSource, At
    <3>2. Goes \/ \E x : Notes(x)
      BY <1>5, <2>1, <3>1, OpenSteps DEF WorkerStep
    <3>3. strong' = strong /\ card' = card
      BY <1>5, WorkerFrame DEF WorkerStep, env
    <3> QED BY <3>2, <3>3 DEF Goes
  <2>2. CASE worker' \in {[worker EXCEPT !.pc = "loop"], [worker EXCEPT !.pc = "idle"],
                          [worker EXCEPT !.pc = "inspect"]}
    BY <1>0, <2>2 DEF Worker
  <2>3. ASSUME NEW x, worker' = Seen(x)
        PROVE  worker'.pc \in Opened
    BY <1>0, <2>3 DEF Seen, Worker, Opened
  <2> QED BY <1>5, <2>1, <2>2, <2>3 DEF NextFile, CheckpointWhole, Checkpointed, CommitPart,
                                       FailPermanently, Leave, Goto
<1>6. CASE InspectTarget \/ Rehash \/ CheckpointBlock \/ CopyBlock \/ SyncBlock
  BY <1>0, <1>6 DEF InspectTarget, Rehash, FailPermanently, CheckpointBlock, Checkpointed,
     CopyBlock,
                    SyncBlock, Leave, Goto, Worker
<1>7. CASE CopyDone \/ CopyFinished \/ VerifyFile \/ EvidenceLost \/ VerificationPassed
  BY <1>0, <1>7 DEF CopyDone, CopyFinished, VerifyFile, EvidenceLost, Fail, VerificationPassed,
     Leave,
                    Goto, Worker
<1>8. CASE Seal \/ Publish \/ CommitSucceeded \/ NoSpace \/ CopyFails \/ CommitFails
  BY <1>0, <1>8 DEF Seal, Publish, CommitSucceeded, NoSpace, CopyFails, CommitFails, Fail,
                    FailPermanently, Leave, Goto, Worker
<1>9. CASE worker' = worker
  BY <1>9
<1> QED BY <1>1, <1>2, <1>3, <1>4, <1>5, <1>6, <1>7, <1>8, <1>9, Actors DEF WorkerStep

(* The digests of a turn begin to count only when there are none. *)
LEMMA CountsFrom ==
    ASSUME ImportTypeOK, FileInHand, CopiesFromActive, ImportNext, SeenCounts'
    PROVE  SeenCounts \/ worker'.seen = Empty(None)
<1>0. worker \in Worker
  BY DEF ImportTypeOK
<1>1. CASE row'.state \in {"verifying", "committing"}
  <2>1. CASE row'.state = row.state
    BY <1>1, <2>1 DEF SeenCounts
  <2>2. CASE CopyFinished
    BY <2>2 DEF CopyFinished, At, SeenCounts, Opened
  <2>3. CASE VerificationPassed /\ row'.state # row.state
    BY <2>3 DEF VerificationPassed, SeenCounts
  <2> QED BY <1>1, <2>1, <2>2, <2>3, StateMoves
<1>2. CASE worker'.pc \in Opened
  <2>1. CASE WorkerStep \/ NoSpace \/ CopyFails \/ CommitFails
    <3>1. CASE ResolveSource
      BY <1>0, <3>1 DEF ResolveSource, Worker
    <3>2. CASE Goes \/ \E x : Notes(x)
      BY <3>2 DEF Goes, Notes, SeenCounts
    <3> QED BY <1>2, <2>1, <3>1, <3>2, OpenSteps
  <2>2. CASE worker' = worker
    BY <1>2, <2>2 DEF SeenCounts
  <2>3. CASE Restart
    BY <1>0, <2>3 DEF Restart, Worker
  <2> QED BY <2>1, <2>2, <2>3, Actors
<1> QED BY <1>1, <1>2 DEF SeenCounts

-----------------------------------------------------------------------------
(* The evidence.                                                           *)

(* All the evidence comes from one recording. *)
THEOREM EvidenceStep ==
    ASSUME ImportTypeOK, WriterIsHeld, FenceFollows, CopiesFromActive, FileInHand, OfferIsSafe,
           EvidenceIsOne, ImportNext
    PROVE  EvidenceIsOne'
<1>0. /\ row.sha \in [Files -> Digests \cup {None}] /\ worker \in Worker
      /\ worker.seen \in [Files -> Digests \cup {None}]
      /\ card.gen \in 1..MaxCards /\ row.fence \in 1..MaxCards /\ MaxCards \in Nat
      /\ None \notin 1..MaxCards /\ card.data \in Recordings /\ Signed \in Recordings
  BY NoneIsNone, ImportAssumption DEF ImportTypeOK, JobRow, Worker, Card
<1>1. PICK d \in Recordings : EvidenceOf(d)
  BY DEF EvidenceIsOne
<1>2. strong' = strong
  BY Actors DEF env
<1>3. \* The recording of a card that is offered anew, when nothing is left of the former one.
      CASE SourceAvailable /\ ~strong /\ row'.fence # row.fence
  <2>1. scan.pc = "offer" /\ worker' = worker /\ card' = card /\ row' # row
    BY <1>3 DEF SourceAvailable
  <2>2. worker.pc \notin Opened
    BY <2>1 DEF WriterIsHeld, Writing
  <2>3. /\ row.state = "waiting_for_media" /\ row'.state \in {"copying", "preflighting"}
        /\ row'.sha = row.sha /\ row'.fence \in {row.fence, scan.loc}
    BY <1>3, <2>1, RowMeans
  <2>4. \A g \in Files : row'.sha[g] = None
    BY <1>3, <2>1, <2>3 DEF OfferIsSafe
  <2>5. ~SeenCounts' /\ worker'.pc \notin Opened
    BY <2>1, <2>2, <2>3 DEF SeenCounts
  <2>6. EvidenceOf(card.data)'
    BY <1>2, <1>3, <2>1, <2>4, <2>5 DEF EvidenceOf
  <2> QED BY <1>0, <2>1, <2>6 DEF EvidenceIsOne
<1>4. CASE ~(SourceAvailable /\ ~strong /\ row'.fence # row.fence)
  <2>1. strong' => d = Signed
    BY <1>1, <1>2 DEF EvidenceOf
  <2>2. ~strong' /\ row'.fence = card'.gen => d = card'.data
    <3> SUFFICES ASSUME ~strong, row'.fence = card'.gen
                 PROVE  d = card'.data
      BY <1>2
    <3>1. row'.fence = row.fence \/ (row'.fence = 1 /\ card' = card)
      <4>1. CASE Round
        BY <4>1, RowMeans
      <4>2. CASE OfferSource \/ PreflightLosesSource \/ CopyLosesSource \/ VerifyFile
                   \/ CommitSucceeded
        BY <4>2, RowMeans
      <4> QED BY <1>4, <4>1, <4>2, RowKeeps
    <3>2. row.fence = card.gen /\ card'.gen = card.gen
      <4>1. card.gen \in Nat /\ card'.gen \in Nat /\ card.gen <= card'.gen /\ row.fence <= card.gen
        BY CardKeeps DEF FenceFollows
      <4> QED BY <1>0, <3>1, <4>1
    <3>3. d = card.data
      BY <1>1, <3>2 DEF EvidenceOf
    <3> QED BY <3>2, <3>3, CardKeeps
  <2>3. worker'.pc \in Opened => d = Origin'
    <3> SUFFICES ASSUME worker'.pc \in Opened
                 PROVE  d = Origin'
      OBVIOUS
    <3>1. CASE worker.pc \in Opened /\ worker'.src = worker.src
      <4>1. d = Origin
        BY <1>1, <3>1 DEF EvidenceOf
      <4> QED BY <1>2, <3>1, <4>1 DEF Origin
    <3>2. CASE WorkerStep \/ NoSpace \/ CopyFails \/ CommitFails
      <4>1. CASE ResolveSource
        <5>1. worker'.src = card.data /\ worker.loc = card.gen /\ worker.loc = row.loc
          BY <1>0, <4>1 DEF ResolveSource, At, generation_matches, CopiesFromActive, Worker
        <5>2. row.fence = card.gen
          BY <1>0, <5>1 DEF FenceFollows
        <5>3. d = IF strong THEN Signed ELSE card.data
          BY <1>1, <5>2 DEF EvidenceOf
        <5> QED BY <1>2, <5>1, <5>3 DEF Origin
      <4>2. CASE Goes
        BY <3>1, <4>2 DEF Goes
      <4>3. ASSUME NEW x, Notes(x)
            PROVE  d = Origin'
        <5>1. worker.pc \in Opened /\ worker'.src = worker.src
          BY <4>3, SeenFields DEF Notes
        <5> QED BY <3>1, <5>1
      <4> QED BY <3>2, <4>1, <4>2, <4>3, OpenSteps
    <3>3. CASE worker' = worker
      BY <3>1, <3>3
    <3>4. CASE Restart
      BY <1>0, <3>4 DEF Restart, Worker, Opened
    <3> QED BY <3>2, <3>3, <3>4, Actors
  <2>4. ASSUME NEW g \in Files
        PROVE  /\ row'.sha[g] # None => row'.sha[g] = FileOf(d)
               /\ SeenCounts' /\ worker'.seen[g] # None => worker'.seen[g] = FileOf(d)
    <3>1. /\ row.sha[g] # None => row.sha[g] = FileOf(d)
          /\ SeenCounts /\ worker.seen[g] # None => worker.seen[g] = FileOf(d)
      BY <1>1 DEF EvidenceOf
    <3>2. row'.sha[g] # None => row'.sha[g] = FileOf(d)
      <4>1. CASE row'.sha = row.sha
        BY <3>1, <4>1
      <4>2. CASE row'.sha = Empty(None)
        BY <4>2 DEF Empty
      <4>3. CASE /\ row'.sha = [row.sha EXCEPT ![f] = Evidence(f)] /\ f \in Files
                 /\ row.state = "verifying"
        <5>1. SeenCounts
          BY <4>3 DEF SeenCounts
        <5>2. Evidence(g) # None => Evidence(g) = FileOf(d)
          BY <3>1, <5>1 DEF Evidence
        <5> QED BY <1>0, <3>1, <4>3, <5>2
      <4> QED BY <4>1, <4>2, <4>3, ShaMoves
    <3>3. SeenCounts' /\ worker'.seen[g] # None => worker'.seen[g] = FileOf(d)
      <4> SUFFICES ASSUME SeenCounts', worker'.seen[g] # None
                   PROVE  worker'.seen[g] = FileOf(d)
        OBVIOUS
      <4>1. worker'.seen # Empty(None)
        BY DEF Empty
      <4>2. SeenCounts
        BY <4>1, CountsFrom
      <4>3. CASE worker'.seen = worker.seen
        BY <3>1, <4>2, <4>3
      <4>4. ASSUME NEW x, Notes(x)
            PROVE  worker'.seen[g] = FileOf(d)
        <5>1. worker.pc \in Opened /\ f \in Files /\ worker' = Seen(x)
                /\ ((x = row.sha[f] /\ x # None) \/ x = FileOf(Origin))
          BY <4>4 DEF Notes
        <5>2. x = FileOf(d)
          BY <1>1, <5>1 DEF EvidenceOf
        <5>3. worker'.seen = [worker.seen EXCEPT ![f] = x]
          BY <5>1, SeenFields
        <5> QED BY <1>0, <3>1, <4>2, <5>1, <5>2, <5>3
      <4> QED BY <4>1, <4>3, <4>4, SeenMoves
    <3> QED BY <3>2, <3>3
  <2>5. EvidenceOf(d)'
    BY <2>1, <2>2, <2>3, <2>4 DEF EvidenceOf, FileOf
  <2> QED BY <2>5 DEF EvidenceIsOne
<1> QED BY <1>3, <1>4

(* The files with evidence are never the ones that are taken away. *)
LEMMA DiskKeeps ==
    ASSUME ImportTypeOK, WriterIsHeld, FileInHand, OfferIsSafe, CommitIsWhole, ImportNext,
           NEW g \in Files, NEW x, x # None, OnDisk(g, x),
           row.sha[g] = x \/ (SeenCounts /\ worker.seen[g] = x)
    PROVE  OnDisk(g, x)'
<1>0. target \in [Files -> Digests \cup {None}] /\ library \in [Files -> Digests] \cup {None}
        /\ worker.f \in 1..(NFiles + 1) /\ NFiles \in Nat
  BY ImportAssumption DEF ImportTypeOK, Worker
<1>1. CASE InspectTarget \/ CommitPart
  <2>1. worker.pc \in InHand /\ worker.pc \in Opened
    BY <1>1 DEF InspectTarget, CommitPart, At, InHand, Opened
  <2>2. f \in Files /\ row.sha[f] = None /\ (\A h \in Files : worker.seen[h] # None => h < f)
    BY <2>1 DEF FileInHand
  <2>3. g # f
    BY <1>0, <2>2 DEF f, Files
  <2>4. library' = library /\ target'[g] = target[g]
    <3>1. library' = library
      BY <1>1 DEF InspectTarget, CommitPart, FailPermanently, files
    <3>2. \/ target' = target
          \/ \E y : target' = [target EXCEPT ![f] = y]
      BY <1>1 DEF InspectTarget, CommitPart, FailPermanently, files, staging
    <3> QED BY <1>0, <2>3, <3>1, <3>2
  <2> QED BY <2>4 DEF OnDisk
<1>2. CASE CopyBlock \/ SyncBlock \/ Restart
  BY <1>2 DEF CopyBlock, SyncBlock, Restart, OnDisk
<1>3. CASE Publish
  <2>1. CASE library = None
    <3>1. library' = target /\ target[g] = x
      BY <1>3, <2>1 DEF Publish, OnDisk
    <3>2. \A h \in Files : row.sha[h] # None /\ target[h] = row.sha[h]
      BY <1>3, <2>1 DEF Publish, At, CommitIsWhole
    <3>3. target \in [Files -> Digests]
      BY <1>0, <3>2
    <3>4. library' # None
      BY <3>1, <3>3, NoneIsNone
    <3> QED BY <3>1, <3>4 DEF OnDisk
  <2>2. CASE library # None
    BY <1>3, <2>2 DEF Publish, OnDisk
  <2> QED BY <2>1, <2>2
<1>4. CASE DiscardStaging
  <2>1. scan.pc = "discard"
    BY <1>4 DEF DiscardStaging
  <2>2. worker.pc \notin Opened
    BY <2>1 DEF WriterIsHeld, Writing
  <2>3. row.sha[g] = None /\ ~SeenCounts
    BY <2>1, <2>2 DEF OfferIsSafe, SeenCounts
  <2> QED BY <2>3
<1>5. CASE UNCHANGED files
  BY <1>5 DEF files, staging, OnDisk
<1> QED BY <1>1, <1>2, <1>3, <1>4, <1>5, FilesMove

(* A digest that counts is the digest of a file on the disk. *)
THEOREM DiskStep ==
    ASSUME ImportTypeOK, WriterIsHeld, FenceFollows, CopiesFromActive, FileInHand, OfferIsSafe,
           CommitIsWhole, EvidenceIsOnDisk, ImportNext
    PROVE  EvidenceIsOnDisk'
<1> DEFINE Kept(g, x) == target'[g] = x \/ (library' # None /\ library'[g] = x)
<1>0. /\ row.sha \in [Files -> Digests \cup {None}]
      /\ worker.seen \in [Files -> Digests \cup {None}]
  BY DEF ImportTypeOK, JobRow, Worker
<1> SUFFICES ASSUME NEW g \in Files
             PROVE  /\ row'.sha[g] # None => Kept(g, row'.sha[g])
                    /\ SeenCounts' /\ worker'.seen[g] # None => Kept(g, worker'.seen[g])
  BY DEF EvidenceIsOnDisk, OnDisk
<1>1. /\ row.sha[g] # None => OnDisk(g, row.sha[g])
      /\ SeenCounts /\ worker.seen[g] # None => OnDisk(g, worker.seen[g])
  BY DEF EvidenceIsOnDisk
<1>2. \A x : x # None /\ (row.sha[g] = x \/ (SeenCounts /\ worker.seen[g] = x)) => Kept(g, x)
  BY <1>1, DiskKeeps DEF OnDisk
<1>3. ASSUME row'.sha[g] # None
      PROVE  Kept(g, row'.sha[g])
  <2>1. CASE row'.sha[g] = row.sha[g]
    BY <1>2, <1>3, <2>1
  <2>2. CASE row'.sha[g] # row.sha[g]
    <3>1. /\ row'.sha = [row.sha EXCEPT ![f] = Evidence(f)] /\ f \in Files
          /\ row.state = "verifying"
      BY <1>3, <2>2, ShaMoves DEF Empty
    <3>2. SeenCounts /\ g = f /\ row'.sha[g] = Evidence(g)
      BY <1>0, <2>2, <3>1 DEF SeenCounts
    <3>3. row'.sha[g] = row.sha[g] \/ row'.sha[g] = worker.seen[g]
      BY <3>2 DEF Evidence
    <3> QED BY <1>2, <1>3, <3>2, <3>3
  <2> QED BY <2>1, <2>2
<1>4. ASSUME SeenCounts', worker'.seen[g] # None
      PROVE  Kept(g, worker'.seen[g])
  <2>1. worker'.seen # Empty(None)
    BY <1>4 DEF Empty
  <2>2. SeenCounts
    BY <1>4, <2>1, CountsFrom
  <2>3. CASE worker'.seen[g] = worker.seen[g]
    BY <1>2, <1>4, <2>2, <2>3
  <2>4. ASSUME NEW x, Notes(x), worker'.seen[g] # worker.seen[g]
        PROVE  Kept(g, worker'.seen[g])
    <3>1. f \in Files /\ worker' = Seen(x) /\ ((x = row.sha[f] /\ x # None) \/ target'[f] = x)
      BY <2>4 DEF Notes
    <3>2. worker'.seen = [worker.seen EXCEPT ![f] = x]
      BY <3>1, SeenFields
    <3>3. g = f /\ worker'.seen[g] = x
      BY <1>0, <2>4, <3>1, <3>2
    <3> QED BY <1>2, <3>1, <3>3
  <2> QED BY <2>1, <2>3, <2>4, SeenMoves
<1> QED BY <1>3, <1>4

-----------------------------------------------------------------------------
(* The recording, and the invariant.                                       *)

(* What is published or receipted comes from one recording. *)
THEOREM RecordingStep ==
    ASSUME ImportTypeOK, FenceFollows, EvidenceIsOne, CommitIsWhole, OneRecording, ImportNext
    PROVE  OneRecording'
<1> DEFINE One(pub) == \E d \in Recordings : /\ strong => d = Signed
                                             /\ \A g \in Files : pub[g] = FileOf(d)
<1>0. strong' = strong
  BY Actors DEF env
<1>1. library # None => One(library)
  BY DEF OneRecording
<1>2. row.receipt # None => One(row.receipt)
  BY DEF OneRecording
<1>3. (\A g \in Files : row.sha[g] # None) => One(row.sha)
  BY DEF EvidenceIsOne, EvidenceOf
<1>4. library' # None => One(library')
  <2>1. CASE library' = library
    BY <1>1, <2>1
  <2>2. CASE Publish /\ library' # library
    <3>1. library = None /\ library' = target /\ worker.pc = "publish"
      BY <2>2 DEF Publish, At
    <3>2. \A g \in Files : row.sha[g] # None /\ target[g] = row.sha[g]
      BY <3>1 DEF CommitIsWhole
    <3> QED BY <1>3, <3>1, <3>2
  <2>3. ASSUME \/ InspectTarget \/ CopyBlock \/ SyncBlock \/ CommitPart \/ DiscardStaging \/ Restart
        PROVE  library' = library
    BY <2>3 DEF InspectTarget, CopyBlock, SyncBlock, CommitPart, FailPermanently, files,
                DiscardStaging, Restart
  <2> QED BY <2>1, <2>2, <2>3, FilesMove DEF files
<1>5. row'.receipt # None => One(row'.receipt)
  <2>1. CASE row'.receipt = row.receipt
    BY <1>2, <2>1
  <2>2. CASE row'.receipt = row.sha /\ row.state = "committing"
    <3>1. One(row.sha)
      BY <1>3, <2>2 DEF CommitIsWhole
    <3> QED BY <2>2, <3>1
  <2>3. CASE Round \/ PreflightLosesSource \/ CopyLosesSource \/ OfferSource
    BY <2>1, <2>3, RowMeans
  <2>4. CASE SourceAvailable \/ VerifyFile \/ CommitSucceeded
    BY <2>1, <2>2, <2>4, RowMeans
  <2> QED BY <2>1, <2>3, <2>4, RowKeeps
<1>6. ASSUME NEW pub \in {library', row'.receipt} \ {None}
      PROVE  \E d \in Recordings : /\ strong' => d = Signed
                                   /\ \A g \in Files : pub[g] = FileOf(d)
  <2>1. One(pub)
    BY <1>4, <1>5, <1>6
  <2> QED BY <1>0, <2>1
<1> QED BY <1>6 DEF OneRecording

(* The invariant holds at first, in every state the import begins in. *)
THEOREM ImportInitInv == ASSUME ImportInit PROVE ImportInv
<1>0. /\ Empty(0) \in [Files -> 0..Size] /\ Empty(None) \in [Files -> Digests \cup {None}]
      /\ Empty(<<>>) \in [Files -> Seq(Recordings)] /\ 1 \in 1..MaxCards
      /\ 1 \in 1..(NFiles + 1) /\ 0 \in 0..MaxCommands /\ 0 \in 0..MaxTrouble
      /\ \A g \in Files : Empty(<<>>)[g] = <<>> /\ Empty(None)[g] = None
  BY ImportAssumption DEF Empty
<1>1. ImportTypeOK
  <2>1. row \in JobRow
    BY <1>0 DEF ImportInit, JobRow, States
  <2>2. worker \in Worker
    BY <1>0 DEF ImportInit, Worker, Steps
  <2>3. card \in Card /\ scan \in Scan
    BY <1>0 DEF ImportInit, Card, Scan
  <2>4. \A g \in Files : Len(part[g]) <= Size
    BY <1>0, ImportAssumption DEF ImportInit
  <2> QED BY <1>0, <2>1, <2>2, <2>3, <2>4 DEF ImportInit, ImportTypeOK
<1>2. /\ row.state = "queued" /\ row.loc = 1 /\ row.fence = 1 /\ row.receipt = None
      /\ worker.pc = "idle" /\ scan.pc = "idle" /\ writer = None /\ library = None
      /\ card.gen = 1 /\ card.data \in Recordings /\ row.sha = Empty(None)
  BY DEF ImportInit
<1>3. WriterIsHeld /\ PausedImportIsQuiet /\ OfferIsSafe
  BY <1>2, NoneIsNone DEF WriterIsHeld, PausedImportIsQuiet, OfferIsSafe, Writing, Opened
<1>4. FenceFollows /\ CopiesFromActive /\ FileInHand /\ CommitIsWhole
  BY <1>2 DEF FenceFollows, CopiesFromActive, FileInHand, CommitIsWhole, InHand, Opened
<1>5. EvidenceIsOnDisk
  BY <1>0, <1>2 DEF EvidenceIsOnDisk, SeenCounts, Opened
<1>6. EvidenceIsOne
  <2> DEFINE d == IF strong THEN Signed ELSE card.data
  <2>1. d \in Recordings
    BY <1>2, ImportAssumption
  <2>2. EvidenceOf(d)
    BY <1>0, <1>2 DEF EvidenceOf, SeenCounts, Opened
  <2> QED BY <2>1, <2>2 DEF EvidenceIsOne
<1>7. OneRecording
  BY <1>2 DEF OneRecording
<1> QED BY <1>1, <1>3, <1>4, <1>5, <1>6, <1>7 DEF ImportInv

(* Every step preserves the invariant. *)
THEOREM ImportStepInv == ImportInv /\ [ImportNext]_vars => ImportInv'
<1> SUFFICES ASSUME ImportInv, [ImportNext]_vars PROVE ImportInv'
  OBVIOUS
<1>0. /\ ImportTypeOK /\ WriterIsHeld /\ PausedImportIsQuiet /\ FenceFollows /\ CopiesFromActive
      /\ EvidenceIsOne /\ EvidenceIsOnDisk /\ FileInHand /\ OfferIsSafe /\ CommitIsWhole
      /\ OneRecording
  BY DEF ImportInv
<1>1. CASE ImportNext
  <2>1. ImportTypeOK'
    BY <1>0, <1>1, ImportStepType
  <2>2. WriterIsHeld' /\ PausedImportIsQuiet'
    BY <1>0, <1>1, WriterStep, PauseStep
  <2>3. FenceFollows' /\ CopiesFromActive' /\ FileInHand'
    BY <1>0, <1>1, FenceStep, SourceStep, HandStep
  <2>4. OfferIsSafe' /\ CommitIsWhole'
    BY <1>0, <1>1, OfferStep, CommitStep
  <2>5. EvidenceIsOne' /\ EvidenceIsOnDisk'
    BY <1>0, <1>1, EvidenceStep, DiskStep
  <2>6. OneRecording'
    BY <1>0, <1>1, RecordingStep
  <2> QED BY <2>1, <2>2, <2>3, <2>4, <2>5, <2>6 DEF ImportInv
<1>2. CASE UNCHANGED vars
  <2>1. ImportTypeOK' /\ WriterIsHeld' /\ PausedImportIsQuiet'
    BY <1>0, <1>2 DEF vars, ImportTypeOK, WriterIsHeld, PausedImportIsQuiet
  <2>2. FenceFollows' /\ CopiesFromActive' /\ FileInHand'
    BY <1>0, <1>2 DEF vars, FenceFollows, CopiesFromActive, FileInHand, f, Origin, FileOf
  <2>3. OfferIsSafe' /\ CommitIsWhole' /\ OneRecording'
    BY <1>0, <1>2 DEF vars, OfferIsSafe, CommitIsWhole, OneRecording, f, FileOf
  <2>4. EvidenceIsOne' /\ EvidenceIsOnDisk'
    BY <1>0, <1>2 DEF vars, EvidenceIsOne, EvidenceOf, EvidenceIsOnDisk, OnDisk, SeenCounts,
       Origin,
                      FileOf
  <2> QED BY <2>1, <2>2, <2>3, <2>4 DEF ImportInv
<1> QED BY <1>1, <1>2

(* The invariant holds in every state of every behaviour. *)
THEOREM ImportInvariant == ImportSpec => []ImportInv
<1>1. ImportInit => ImportInv
  BY ImportInitInv
<1> QED BY <1>1, ImportStepInv, PTL DEF ImportSpec

(* A paused import is quiet: whatever the number of files, blocks, users,  *)
(* cards, commands and failures, the worker is in no phase of a job whose   *)
(* pause has been acknowledged (command_impl, the writer lock of            *)
(* JobControl).                                                             *)
THEOREM PausedIsQuiet == ImportSpec => []PausedImportIsQuiet
<1>1. ImportInv => PausedImportIsQuiet
  BY DEF ImportInv
<1> QED BY <1>1, ImportInvariant, PTL

(* A file the row calls verified lies on the disk with that digest, staged *)
(* or published (source_available, run_verification).                      *)
THEOREM VerifiedFilesExist == ImportSpec => []VerifiedIsOnDisk
<1>1. ImportInv => VerifiedIsOnDisk
  BY DEF ImportInv, EvidenceIsOnDisk, OnDisk, VerifiedIsOnDisk
<1> QED BY <1>1, ImportInvariant, PTL

(* What is published, and what a receipt describes, is one recording, and *)
(* the signed one of a signed source (source_available, verify_digests).  *)
THEOREM NothingIsMixed == ImportSpec => []OneRecording
<1>1. ImportInv => OneRecording
  BY DEF ImportInv
<1> QED BY <1>1, ImportInvariant, PTL

-----------------------------------------------------------------------------
(* The records of the upload rows, of the operation under the gate, of the *)
(* upload lane and of the projector.                                       *)
Uploads == [p : 0..NumPipes, ident : Identities \cup {"none"},
            state : {"succeeded", "failed", "cancelled", "queued", "preparing"},
            retryable : BOOLEAN, parent : Jobs \cup {NoJob}, ck : 0..NumObjects, acked : BOOLEAN]
GatePlaces == {"none", "decide", "attach_derivation", "attach_upload", "attach_retry", "wake", "refresh"}
GateRecords ==
    [who : Lanes \cup {"none", "user", "startup"},
     kind : {"none", "start", "command", "approve", "reconcile", "retry"},
     at : GatePlaces, todo : Seq(Pipes), snap : Rows, base : Rows,
     j : Jobs \cup {NoJob}, parent : Jobs \cup {NoJob}]
LaneRecords == [pc : {"idle", "start", "send"}, j : Jobs \cup {NoJob}]
ProjRecords == [stage : {"idle", "import", "derive", "upload"}, list : SUBSET (Pipes \cup Jobs),
                cur : SUBSET (Pipes \cup Jobs)]

PipelineRecords ==
    /\ job \in [Jobs -> Uploads] /\ gate \in GateRecords
    /\ lane \in LaneRecords /\ proj \in ProjRecords

(* What a row names is an upload of its pipeline, for its storage; and a   *)
(* retry is of its parent's pipeline and storage.                          *)
Made(j) == j \in Jobs /\ job[j].p # 0
Same(j, k) == job[j].p = job[k].p /\ job[j].ident = job[k].ident
RowsOwn == \A p \in Pipes : pipe[p].up # NoJob =>
    job[pipe[p].up].p = p /\ job[pipe[p].up].ident = pipe[p].ident
Lineage == \A k \in Jobs : Made(k) /\ job[k].parent # NoJob => Same(job[k].parent, k)

(* Nobody but the holder of the gate changes a row, so the copy it read is *)
(* still the row, or the row has a later version.                          *)
GateHolds ==
    /\ gate.at = "none" => gate.kind = "none"
    /\ gate.at # "none" /\ gate.kind # "retry" => gate.todo # <<>>
    /\ gate.at \in {"decide", "attach_derivation", "attach_upload", "refresh"} => gate.kind # "retry"
    /\ gate.kind = "retry" => gate.todo = <<>>
    /\ gate.at \in {"attach_derivation", "attach_upload"} => gate.snap = pipe[Pending]
    /\ gate.at = "attach_upload" =>
         Made(gate.j) /\ gate.snap.up = NoJob /\ job[gate.j].p = Pending
           /\ job[gate.j].ident = gate.snap.ident
    /\ gate.at = "attach_retry" =>
         Made(gate.j) /\ Made(gate.parent) /\ Same(gate.parent, gate.j)
           /\ gate.kind = "retry" /\ job[gate.parent].state = "failed" /\ job[gate.parent].retryable = TRUE
    /\ gate.at = "refresh" => gate.kind = "start"
    /\ gate.kind = "start" =>
         gate.base.ver <= pipe[Pending].ver
           /\ (gate.base.ver = pipe[Pending].ver => gate.base = pipe[Pending])

LaneHolds == lane.pc # "idle" => Made(lane.j)
ProjHolds ==
    /\ proj.stage \in {"import", "derive"} => proj.list \cup proj.cur \subseteq Pipes
    /\ proj.stage = "upload" => \A x \in proj.list \cup proj.cur : Made(x)
    /\ proj.stage = "idle" => proj.list = {} /\ proj.cur = {}

(* What a checkpoint counts is in the bucket, and a success counted all.   *)
Verified == \A j \in Jobs : Made(j) =>
    /\ 1..job[j].ck \subseteq remote[job[j].p]
    /\ job[j].state = "succeeded" => job[j].ck = NumObjects

(* The stores, and those who work on them.                                 *)
StoresHold == RowsOwn /\ Lineage /\ Verified /\ OneLiveAttempt /\ ManifestIsLast /\ RemoteIsProven
PipelineInv ==
    /\ PipelineTypeOK /\ PipelineRecords /\ StoresHold
    /\ GateHolds /\ LaneHolds /\ ProjHolds

-----------------------------------------------------------------------------
(* What a step leaves alone keeps what is said of it.                      *)

LEMMA PipeFacts ==
    ASSUME PipelineTypeOK, PipelineRecords
    PROVE  /\ 0 \notin Pipes /\ Pipes \subseteq Nat
           /\ \A p \in Pipes : pipe[p] \in Rows /\ pipe[p].ver \in Nat /\ pipe[p].up \in Jobs \cup {NoJob}
           /\ \A j \in Jobs : job[j] \in Uploads /\ job[j].p \in Nat /\ job[j].ck \in Nat
           /\ \A j : Made(j) => job[j].p \in Pipes
           /\ NoJob \notin Jobs /\ ~Made(NoJob)
<1>1. 0 \notin Pipes /\ Pipes \subseteq Nat /\ NumPipes \in Nat /\ NumObjects \in Nat
  BY PipelineAssumption DEF Pipes
<1>2. \A p \in Pipes : pipe[p] \in Rows
  BY DEF PipelineTypeOK
<1>3. \A j \in Jobs : job[j] \in Uploads
  BY DEF PipelineRecords
<1>4. \A j \in Jobs : job[j].p \in 0..NumPipes /\ job[j].ck \in 0..NumObjects
  BY <1>3 DEF Uploads
<1>5. NoJob \notin Jobs
  BY PipelineAssumption
<1> QED
  BY <1>1, <1>2, <1>3, <1>4, <1>5 DEF Rows, Made, Pipes

LEMMA StoresSame ==
    ASSUME StoresHold, job' = job, pipe' = pipe, remote' = remote, lib' = lib
    PROVE  StoresHold'
  BY DEF StoresHold, RowsOwn, Lineage, Verified, OneLiveAttempt, ManifestIsLast, RemoteIsProven, Made, Same,
     Live, Attempts

(* A row of the upload store keeps its pipeline, its storage, its parent   *)
(* and its outcome; no row is new, and none counts another object.         *)
UploadsMove ==
    /\ job' \in [Jobs -> Uploads]
    /\ \A j \in Jobs : job[j].p # 0 =>
         /\ job'[j].p = job[j].p /\ job'[j].ident = job[j].ident /\ job'[j].parent = job[j].parent
         /\ job[j].state \in Ended => job'[j].state = job[j].state /\ job'[j].retryable = job[j].retryable
NoneNew == \A j \in Jobs : job[j].p = 0 => job'[j].p = 0
NoneChecks == \A j \in Jobs : job[j].p # 0 =>
    /\ job'[j].ck = job[j].ck
    /\ job'[j].state = "succeeded" => job[j].state = "succeeded" \/ job[j].ck = NumObjects

LEMMA MadeStays ==
    ASSUME UploadsMove
    PROVE  /\ \A j : Made(j) => /\ Made(j)' /\ job'[j].p = job[j].p /\ job'[j].ident = job[j].ident
                                /\ job'[j].parent = job[j].parent
           /\ \A j, k : Made(j) /\ Made(k) /\ Same(j, k) => Same(j, k)'
  BY DEF UploadsMove, Made, Same

LEMMA OwnStays ==
    ASSUME PipelineInv, UploadsMove, pipe' = pipe
    PROVE  RowsOwn'
<1> SUFFICES ASSUME NEW p \in Pipes, pipe[p].up # NoJob
             PROVE  job'[pipe[p].up].p = p /\ job'[pipe[p].up].ident = pipe[p].ident
  BY DEF RowsOwn
<1>1. pipe[p].up \in Jobs /\ p # 0
  BY PipeFacts DEF PipelineInv
<1>2. Made(pipe[p].up) /\ job[pipe[p].up].p = p /\ job[pipe[p].up].ident = pipe[p].ident
  BY <1>1 DEF PipelineInv, StoresHold, RowsOwn, Made
<1> QED BY <1>2, MadeStays

LEMMA LineageStays ==
    ASSUME PipelineInv, UploadsMove, NoneNew
    PROVE  Lineage'
<1> SUFFICES ASSUME NEW k \in Jobs, Made(k)', job'[k].parent # NoJob
             PROVE  Same(job[k].parent, k)'
  BY DEF Lineage
<1>1. Made(k)
  BY DEF Made, NoneNew
<1>2. job'[k].parent = job[k].parent
  BY <1>1, MadeStays
<1>3. Same(job[k].parent, k) /\ job[k].parent \in Jobs
  BY <1>1, <1>2 DEF PipelineInv, StoresHold, Lineage, PipelineRecords, Uploads
<1>4. Made(job[k].parent)
  BY <1>1, <1>3 DEF Made, Same
<1> QED BY <1>1, <1>2, <1>3, <1>4, MadeStays DEF Same

LEMMA OneLiveStays ==
    ASSUME PipelineInv, UploadsMove, NoneNew
    PROVE  OneLiveAttempt'
<1>1. ASSUME NEW j \in Jobs, Live(j)' PROVE Live(j) /\ job'[j].p = job[j].p /\ job'[j].ident = job[j].ident
  BY <1>1 DEF Live, UploadsMove, NoneNew
<1> QED
  BY <1>1 DEF OneLiveAttempt, PipelineInv, StoresHold

LEMMA VerifiedStays ==
    ASSUME PipelineInv, UploadsMove, NoneNew, NoneChecks, remote' = remote, lib' = lib
    PROVE  Verified' /\ ManifestIsLast' /\ RemoteIsProven'
<1>1. Verified'
  <2> SUFFICES ASSUME NEW j \in Jobs, Made(j)'
               PROVE  /\ 1..job'[j].ck \subseteq remote[job'[j].p]
                      /\ job'[j].state = "succeeded" => job'[j].ck = NumObjects
    BY DEF Verified
  <2>1. job[j].p # 0
    BY DEF Made, NoneNew
  <2>2. job'[j].p = job[j].p /\ job'[j].ck = job[j].ck
    BY <2>1 DEF UploadsMove, NoneChecks
  <2>3. 1..job[j].ck \subseteq remote[job[j].p] /\ (job[j].state = "succeeded" => job[j].ck = NumObjects)
    BY <2>1 DEF PipelineInv, StoresHold, Verified, Made
  <2> QED BY <2>1, <2>2, <2>3 DEF NoneChecks
<1>2. ManifestIsLast'
  BY DEF PipelineInv, StoresHold, ManifestIsLast
<1>3. RemoteIsProven'
  <2> SUFFICES ASSUME NEW p \in Pipes, "remote" \in lib[p]
               PROVE  /\ "source" \in lib[p] /\ remote[p] = 1..NumObjects
                      /\ \E j \in Jobs : job'[j].p = p /\ job'[j].state = "succeeded" /\ job'[j].ck = NumObjects
    BY DEF RemoteIsProven, Attempts
  <2>1. "source" \in lib[p] /\ remote[p] = 1..NumObjects
    BY DEF PipelineInv, StoresHold, RemoteIsProven
  <2>2. PICK j \in Jobs : job[j].p = p /\ job[j].state = "succeeded" /\ job[j].ck = NumObjects
    BY DEF PipelineInv, StoresHold, RemoteIsProven, Attempts
  <2>3. job[j].p # 0
    BY <2>2, PipeFacts DEF PipelineInv
  <2>4. job'[j].p = p /\ job'[j].state = "succeeded" /\ job'[j].ck = NumObjects
    BY <2>2, <2>3 DEF UploadsMove, NoneChecks, Ended
  <2> QED BY <2>1, <2>4
<1> QED BY <1>1, <1>2, <1>3

LEMMA StoresJobs ==
    ASSUME PipelineInv, UploadsMove, NoneNew, NoneChecks, pipe' = pipe, remote' = remote, lib' = lib
    PROVE  StoresHold'
  BY OwnStays, LineageStays, OneLiveStays, VerifiedStays DEF StoresHold

LEMMA GateStays ==
    ASSUME PipelineInv, UploadsMove, gate' = gate, pipe' = pipe
    PROVE  GateHolds'
<1>1. ASSUME Made(gate.j), gate.at = "attach_upload" PROVE job'[gate.j].p = job[gate.j].p
      /\ job'[gate.j].ident = job[gate.j].ident /\ Made(gate.j)'
  BY <1>1, MadeStays
<1>2. ASSUME gate.at = "attach_retry"
      PROVE  /\ Made(gate.j)' /\ Made(gate.parent)' /\ Same(gate.parent, gate.j)'
             /\ job'[gate.parent].state = "failed" /\ job'[gate.parent].retryable = TRUE
  <2>1. /\ Made(gate.j) /\ Made(gate.parent) /\ Same(gate.parent, gate.j)
        /\ job[gate.parent].state = "failed" /\ job[gate.parent].retryable = TRUE
    BY <1>2 DEF PipelineInv, GateHolds
  <2>2. Made(gate.j)' /\ Made(gate.parent)' /\ Same(gate.parent, gate.j)'
    BY <2>1, MadeStays DEF Made, Same, UploadsMove
  <2>3. job'[gate.parent].state = "failed" /\ job'[gate.parent].retryable = TRUE
    BY <2>1 DEF UploadsMove, Made, Ended
  <2> QED BY <2>2, <2>3
<1> QED
  BY <1>1, <1>2 DEF PipelineInv, GateHolds, Pending

LEMMA LaneStays ==
    ASSUME PipelineInv, UploadsMove, lane' = lane
    PROVE  LaneHolds'
  BY MadeStays DEF PipelineInv, LaneHolds, Made, UploadsMove

LEMMA ProjStays ==
    ASSUME PipelineInv, UploadsMove, proj' = proj
    PROVE  ProjHolds'
<1>1. \A x : Made(x) => Made(x)'
  BY MadeStays
<1> QED
  BY <1>1 DEF PipelineInv, ProjHolds

LEMMA SameJobsMove ==
    ASSUME PipelineRecords, job' = job
    PROVE  UploadsMove /\ NoneNew /\ NoneChecks
  BY DEF PipelineRecords, UploadsMove, NoneNew, NoneChecks

-----------------------------------------------------------------------------
(* The blank records, and what the gate's operators do to the operation.   *)

LEMMA Blanks ==
    /\ NoRow \in Rows /\ NoRow.up = NoJob /\ NoRow.policy = "none" /\ NoRow.ver = 0
    /\ NoUpload \in Uploads /\ NoUpload.p = 0 /\ NoUpload.state = "queued" /\ NoUpload.ck = 0
    /\ NoOp \in GateRecords /\ NoOp.at = "none" /\ NoOp.kind = "none" /\ NoOp.todo = <<>>
    /\ IdleLane \in LaneRecords /\ IdleLane.pc = "idle"
    /\ IdleProj \in ProjRecords /\ IdleProj.stage = "idle" /\ IdleProj.list = {} /\ IdleProj.cur = {}
<1>1. NoRow \in Rows /\ NoRow.up = NoJob /\ NoRow.policy = "none" /\ NoRow.ver = 0
  BY DEF NoRow, Rows
<1>2. NoUpload \in Uploads /\ NoUpload.p = 0 /\ NoUpload.state = "queued" /\ NoUpload.ck = 0
  BY PipelineAssumption DEF NoUpload, Uploads
<1>3. <<>> \in Seq(Pipes)
  OBVIOUS
<1>4. NoOp \in GateRecords /\ NoOp.at = "none" /\ NoOp.kind = "none" /\ NoOp.todo = <<>>
  BY <1>1, <1>3 DEF NoOp, GateRecords, GatePlaces
<1>5. IdleLane \in LaneRecords /\ IdleLane.pc = "idle"
  BY DEF IdleLane, LaneRecords
<1>6. IdleProj \in ProjRecords /\ IdleProj.stage = "idle" /\ IdleProj.list = {} /\ IdleProj.cur = {}
  BY DEF IdleProj, ProjRecords
<1> QED BY <1>1, <1>2, <1>4, <1>5, <1>6

LEMMA PendingIn ==
    ASSUME PipelineInv, gate.at # "none", gate.kind # "retry"
    PROVE  Pending \in Pipes /\ Tail(gate.todo) \in Seq(Pipes)
           /\ (Len(gate.todo) > 1 => Tail(gate.todo) # <<>>)
<1>1. gate.todo \in Seq(Pipes) /\ gate.todo # <<>>
  BY DEF PipelineInv, PipelineRecords, GateRecords, GateHolds
<1>2. Head(gate.todo) \in Pipes /\ Tail(gate.todo) \in Seq(Pipes) /\ Len(Tail(gate.todo)) = Len(gate.todo) - 1
  BY <1>1, HeadTailProperties
<1>3. Tail(gate.todo) = <<>> => Len(Tail(gate.todo)) = 0
  BY <1>1, EmptySeq, LenProperties
<1>4. \A n \in Nat : n > 1 => n - 1 # 0
  OBVIOUS
<1>5. Pending \in Pipes
  BY <1>2 DEF Pending
<1>6. Len(gate.todo) > 1 => Tail(gate.todo) # <<>>
  <2>1. Len(gate.todo) \in Nat
    BY <1>1
  <2> QED BY <1>2, <1>3, <1>4, <2>1, Zenon
<1> QED BY <1>2, <1>5, <1>6

(* The row of the pending pipeline moved on only with a new version.       *)
RowsMove ==
    /\ pipe' \in [Pipes -> Rows]
    /\ \A q \in Pipes : pipe'[q] = pipe[q] \/ pipe[q].ver < pipe'[q].ver

(* After a pipeline was reconciled: the gate is free, the start refreshes  *)
(* its row, or the next pipeline's turn has come.                          *)
Proceeded ==
    /\ gate' \in GateRecords
    /\ \/ gate' = NoOp
       \/ /\ gate.kind = "start" /\ gate'.kind = "start" /\ gate'.at = "refresh"
          /\ gate'.base = gate.base /\ gate'.todo = gate.todo /\ gate.todo # <<>>
       \/ /\ gate'.kind = gate.kind /\ gate.kind \notin {"start", "retry"} /\ gate'.at = "decide"
          /\ gate'.todo # <<>>
    /\ owes' \subseteq Lanes /\ phase' \in Phases

LEMMA ReleaseEffect ==
    ASSUME PipelineInv, NEW ok, Release(ok)
    PROVE  Proceeded /\ gate' = NoOp
  BY Blanks DEF Release, Proceeded, PipelineInv, PipelineTypeOK, Phases

LEMMA ProceedEffect ==
    ASSUME PipelineInv, gate.at # "none", NEW ok, Proceed(ok)
    PROVE  Proceeded
<1>0. gate \in GateRecords /\ owes \subseteq Lanes /\ phase \in Phases
  BY DEF PipelineInv, PipelineRecords, PipelineTypeOK
<1>1. CASE gate.kind = "start"
  <2>1. gate' = [gate EXCEPT !.at = "refresh"] /\ owes' = owes /\ phase' = phase
    BY <1>1 DEF Proceed
  <2>2. gate.todo # <<>>
    BY <1>1 DEF PipelineInv, GateHolds
  <2> QED BY <1>0, <1>1, <2>1, <2>2 DEF Proceeded, GateRecords, GatePlaces
<1>2. CASE gate.kind # "start" /\ ok /\ Len(gate.todo) > 1
  <2>1. gate' = [NoOp EXCEPT !.who = gate.who, !.kind = gate.kind, !.at = "decide",
                             !.todo = Tail(gate.todo)] /\ owes' = owes /\ phase' = phase
    BY <1>2 DEF Proceed
  <2>2. gate.kind # "retry"
    BY <1>2 DEF PipelineInv, GateHolds
  <2>3. Tail(gate.todo) \in Seq(Pipes) /\ Tail(gate.todo) # <<>>
    BY <1>2, <2>2, PendingIn
  <2>4. gate' \in GateRecords /\ gate'.kind = gate.kind /\ gate'.at = "decide" /\ gate'.todo = Tail(gate.todo)
    BY <1>0, <2>1, <2>3, Blanks DEF GateRecords, GatePlaces
  <2> QED BY <1>0, <1>2, <2>1, <2>2, <2>3, <2>4 DEF Proceeded
<1>3. CASE gate.kind # "start" /\ ~(ok /\ Len(gate.todo) > 1)
  BY <1>3, ReleaseEffect DEF Proceed
<1> QED BY <1>1, <1>2, <1>3

LEMMA BaseStays ==
    ASSUME PipelineInv, RowsMove, gate.kind = "start", gate'.base = gate.base, gate'.todo = gate.todo
    PROVE  gate'.base.ver <= pipe'[Pending'].ver /\ (gate'.base.ver = pipe'[Pending'].ver => gate'.base = pipe'[Pending'])
<1>1. gate.at # "none" /\ gate.kind # "retry"
  BY DEF PipelineInv, GateHolds
<1>2. Pending \in Pipes /\ Pending' = Pending
  BY <1>1, PendingIn DEF Pending
<1>3. pipe[Pending].ver \in Nat /\ pipe'[Pending].ver \in Nat /\ gate.base.ver \in Nat
  BY <1>2 DEF PipelineInv, PipelineTypeOK, PipelineRecords, RowsMove, Rows, GateRecords
<1>4. gate.base.ver <= pipe[Pending].ver /\ (gate.base.ver = pipe[Pending].ver => gate.base = pipe[Pending])
  BY DEF PipelineInv, GateHolds
<1>5. pipe'[Pending] = pipe[Pending] \/ pipe[Pending].ver < pipe'[Pending].ver
  BY <1>2 DEF RowsMove
<1> QED BY <1>2, <1>3, <1>4, <1>5

LEMMA FreeGate ==
    ASSUME gate' = NoOp
    PROVE  GateHolds'
  BY Blanks DEF GateHolds

LEMMA ProceededHolds ==
    ASSUME PipelineInv, RowsMove, Proceeded
    PROVE  GateHolds'
<1>1. CASE gate' = NoOp
  BY <1>1, FreeGate
<1>2. CASE gate.kind = "start" /\ gate'.kind = "start" /\ gate'.at = "refresh"
           /\ gate'.base = gate.base /\ gate'.todo = gate.todo /\ gate.todo # <<>>
  BY <1>2, BaseStays DEF GateHolds
<1>3. CASE gate'.kind = gate.kind /\ gate.kind \notin {"start", "retry"} /\ gate'.at = "decide"
           /\ gate'.todo # <<>>
  BY <1>3 DEF GateHolds
<1> QED BY <1>1, <1>2, <1>3 DEF Proceeded

LEMMA AcquireHolds ==
    ASSUME NEW who \in Lanes \cup {"user", "startup"}, NEW kind \in {"command", "approve", "reconcile"},
           NEW todo \in Seq(Pipes), todo # <<>>, Acquire(who, kind, todo)
    PROVE  gate' \in GateRecords /\ GateHolds'
<1>1. gate' = [NoOp EXCEPT !.who = who, !.kind = kind, !.todo = todo, !.at = "decide"]
  BY DEF Acquire
<1>2. gate' \in GateRecords /\ gate'.at = "decide" /\ gate'.kind = kind /\ gate'.todo = todo
  BY <1>1, Blanks DEF GateRecords, GatePlaces
<1> QED BY <1>2 DEF GateHolds

-----------------------------------------------------------------------------
(* The operations under the gate.                                          *)

(* What a pipeline was given stays with it (the step of AttachmentsKept).  *)
Kept(p) ==
    /\ pipe[p].der => pipe'[p].der
    /\ pipe[p].admitted => pipe'[p].admitted
    /\ pipe'[p].up = pipe[p].up \/ pipe[p].up = NoJob
         \/ (job[pipe[p].up].state = "failed" /\ job[pipe[p].up].retryable
             /\ pipe'[p].up # NoJob)
RowsKept == \A p \in Started : Kept(p)

LEMMA SameRowsKept ==
    ASSUME PipelineInv, pipe' = pipe
    PROVE  RowsKept /\ RowsMove
<1>1. RowsKept
  BY DEF RowsKept, Kept
<1>2. RowsMove
  BY DEF RowsMove, PipelineInv, PipelineTypeOK
<1> QED BY <1>1, <1>2

(* The parts of the state, put together.                                   *)
LEMMA RowStep ==
    ASSUME PipelineInv, pipe' \in [Pipes -> Rows], RowsOwn', gate' \in GateRecords, GateHolds',
           imp' \in [Pipes -> {"none", "running", "verified", "cancelled"}],
           der' \in [Pipes -> {"none", "running", "verified", "failed"}],
           owes' \subseteq Lanes, phase' \in Phases,
           impOut' = impOut, derOut' = derOut, job' = job, lib' = lib, remote' = remote,
           settings' = settings, config' = config, lane' = lane, proj' = proj
    PROVE  PipelineInv'
<1>1. PipelineTypeOK'
  BY DEF PipelineInv, PipelineTypeOK
<1>2. PipelineRecords'
  BY DEF PipelineInv, PipelineRecords
<1>3. StoresHold'
  BY DEF PipelineInv, StoresHold, Lineage, Verified, OneLiveAttempt, ManifestIsLast, RemoteIsProven, Made, Same,
     Live, Attempts
<1>4. UploadsMove
  BY SameJobsMove DEF PipelineInv
<1>5. LaneHolds' /\ ProjHolds'
  BY <1>4, LaneStays, ProjStays
<1> QED BY <1>1, <1>2, <1>3, <1>5 DEF PipelineInv

LEMMA SameOwn ==
    ASSUME PipelineInv, pipe' = pipe, job' = job
    PROVE  RowsOwn'
  BY DEF PipelineInv, StoresHold, RowsOwn

LEMMA GateOnly ==
    ASSUME PipelineInv, Proceeded,
           UNCHANGED <<pipe, imp, der, impOut, derOut, job, lib, remote, settings, config, lane, proj>>
    PROVE  PipelineInv' /\ RowsKept
<1>1. RowsMove /\ RowsKept /\ RowsOwn'
  BY SameRowsKept, SameOwn
<1>2. GateHolds'
  BY <1>1, ProceededHolds
<1>3. imp' \in [Pipes -> {"none", "running", "verified", "cancelled"}]
      /\ der' \in [Pipes -> {"none", "running", "verified", "failed"}]
  BY DEF PipelineInv, PipelineTypeOK
<1> QED BY <1>1, <1>2, <1>3, RowStep DEF Proceeded, RowsMove

LEMMA ReconcileKeeps ==
    ASSUME PipelineInv, AwaitImport \/ NormalizerRefuses \/ PrepareRefused \/ Wake \/ WakeFails \/ AttachFails
    PROVE  PipelineInv' /\ RowsKept
<1>1. gate.at # "none" /\ \E ok \in BOOLEAN : Proceed(ok)
  BY DEF AwaitImport, NormalizerRefuses, PrepareRefused, Wake, WakeFails, AttachFails, AtDecide
<1>2. Proceeded
  BY <1>1, ProceedEffect
<1>3. UNCHANGED <<pipe, imp, der, impOut, derOut, job, lib, remote, settings, config, lane, proj>>
  BY DEF AwaitImport, NormalizerRefuses, PrepareRefused, Wake, WakeFails, AttachFails, media
<1> QED BY <1>2, <1>3, GateOnly

LEMMA GoEffect ==
    ASSUME PipelineInv, gate.at # "none", gate.kind # "retry", NEW at \in GatePlaces, NEW j \in Jobs \cup {NoJob},
           Go(at, j)
    PROVE  /\ gate' \in GateRecords /\ gate'.at = at /\ gate'.kind = gate.kind /\ gate'.todo = gate.todo
           /\ gate'.base = gate.base /\ gate'.j = j /\ gate'.snap = pipe[Pending] /\ Pending' = Pending
           /\ gate.todo # <<>>
<1>1. gate \in GateRecords /\ pipe[Pending] \in Rows
  BY PendingIn DEF PipelineInv, PipelineRecords, PipelineTypeOK
<1>2. gate' = [gate EXCEPT !.at = at, !.j = j, !.snap = pipe[Pending]]
  BY DEF Go, Pending
<1>3. gate' \in GateRecords
  BY <1>1, <1>2 DEF GateRecords
<1>4. gate'.at = at /\ gate'.kind = gate.kind /\ gate'.todo = gate.todo
      /\ gate'.base = gate.base /\ gate'.j = j /\ gate'.snap = pipe[Pending]
  BY <1>1, <1>2 DEF GateRecords
<1>5. gate.todo # <<>>
  BY DEF PipelineInv, GateHolds
<1> QED BY <1>3, <1>4, <1>5 DEF Pending

LEMMA DecideHolds ==
    ASSUME PipelineInv, AtDecide
    PROVE  gate.at # "none" /\ gate.kind # "retry" /\ Pending \in Pipes
  BY PendingIn DEF PipelineInv, GateHolds, AtDecide

LEMMA EnsureDerivationKeeps ==
    ASSUME PipelineInv, EnsureDerivation
    PROVE  PipelineInv' /\ RowsKept
<1>1. gate.at # "none" /\ gate.kind # "retry" /\ Pending \in Pipes
  BY DecideHolds DEF EnsureDerivation
<1>2. /\ gate' \in GateRecords /\ gate'.at = "attach_derivation" /\ gate'.kind = gate.kind /\ gate'.todo = gate.todo
      /\ gate'.base = gate.base /\ gate'.snap = pipe[Pending] /\ Pending' = Pending
      /\ gate.todo # <<>>
  BY <1>1, GoEffect DEF EnsureDerivation, GatePlaces
<1>3. RowsMove /\ RowsKept /\ RowsOwn' /\ pipe' = pipe
  BY SameRowsKept, SameOwn DEF EnsureDerivation
<1>4. GateHolds'
  <2>1. gate'.kind = "start" => gate'.base.ver <= pipe'[Pending'].ver
                                /\ (gate'.base.ver = pipe'[Pending'].ver => gate'.base = pipe'[Pending'])
    BY <1>2, <1>3, BaseStays
  <2> QED BY <1>1, <1>2, <1>3, <2>1 DEF GateHolds
<1>5. der' \in [Pipes -> {"none", "running", "verified", "failed"}]
  BY <1>1 DEF EnsureDerivation, PipelineInv, PipelineTypeOK
<1>6. imp' \in [Pipes -> {"none", "running", "verified", "cancelled"}]
      /\ owes' \subseteq Lanes /\ phase' \in Phases
  BY DEF EnsureDerivation, PipelineInv, PipelineTypeOK
<1> QED BY <1>2, <1>3, <1>4, <1>5, <1>6, RowStep DEF EnsureDerivation, RowsMove

LEMMA ReplaceEffect ==
    ASSUME PipelineInv, NEW p \in Pipes, NEW snap \in Rows, NEW r \in Rows, Replace(p, snap, r)
    PROVE  /\ RowsMove
           /\ \A q \in Pipes \ {p} : pipe'[q] = pipe[q]
           /\ pipe[p].ver # snap.ver => pipe' = pipe
           /\ pipe[p].ver = snap.ver =>
                /\ pipe'[p].der = r.der /\ pipe'[p].admitted = r.admitted
                /\ pipe'[p].up = r.up /\ pipe'[p].ident = r.ident /\ pipe[p].ver < pipe'[p].ver
<1>1. pipe \in [Pipes -> Rows] /\ pipe[p].ver \in Nat /\ snap.ver \in Nat
  BY DEF PipelineInv, PipelineTypeOK, Rows
<1>2. CASE pipe[p].ver # snap.ver
  BY <1>1, <1>2 DEF Replace, RowsMove
<1>3. CASE pipe[p].ver = snap.ver
  <2> DEFINE s == [r EXCEPT !.ver = snap.ver + 1]
  <2>1. s \in Rows /\ s.der = r.der /\ s.admitted = r.admitted /\ s.up = r.up /\ s.ident = r.ident
        /\ s.ver = snap.ver + 1
    BY <1>1 DEF Rows
  <2>2. pipe' = [pipe EXCEPT ![p] = s]
    BY <1>3 DEF Replace
  <2> HIDE DEF s
  <2>3. pipe' \in [Pipes -> Rows] /\ pipe'[p] = s /\ \A q \in Pipes \ {p} : pipe'[q] = pipe[q]
    BY <1>1, <2>1, <2>2
  <2>4. pipe[p].ver < pipe'[p].ver
    BY <1>1, <1>3, <2>1, <2>3
  <2> QED BY <1>3, <2>1, <2>3, <2>4 DEF RowsMove
<1> QED BY <1>2, <1>3

LEMMA OwnFrom ==
    ASSUME PipelineInv, job' = job, NEW p \in Pipes, \A q \in Pipes \ {p} : pipe'[q] = pipe[q],
           pipe'[p].up # NoJob => job[pipe'[p].up].p = p /\ job[pipe'[p].up].ident = pipe'[p].ident
    PROVE  RowsOwn'
  BY DEF PipelineInv, StoresHold, RowsOwn

(* The caller's change leaves what the row names.                          *)
LEMMA ReplaceOwn ==
    ASSUME PipelineInv, job' = job, NEW p \in Pipes, NEW r \in Rows, Replace(p, pipe[p], r),
           r.up = pipe[p].up, r.ident = pipe[p].ident, pipe[p].der => r.der, pipe[p].admitted => r.admitted
    PROVE  RowsMove /\ RowsOwn' /\ RowsKept
<1>1. pipe[p] \in Rows
  BY DEF PipelineInv, PipelineTypeOK
<1>2. /\ RowsMove
      /\ \A q \in Pipes \ {p} : pipe'[q] = pipe[q]
      /\ pipe'[p].der = r.der /\ pipe'[p].admitted = r.admitted
      /\ pipe'[p].up = r.up /\ pipe'[p].ident = r.ident
  BY <1>1, ReplaceEffect
<1>3. pipe[p].up # NoJob => job[pipe[p].up].p = p /\ job[pipe[p].up].ident = pipe[p].ident
  BY DEF PipelineInv, StoresHold, RowsOwn
<1>4. RowsOwn'
  BY <1>2, <1>3, OwnFrom
<1>5. RowsKept
  BY <1>2 DEF RowsKept, Kept, Started
<1> QED BY <1>2, <1>4, <1>5

LEMMA AttachDerivationKeeps ==
    ASSUME PipelineInv, AttachDerivation
    PROVE  PipelineInv' /\ RowsKept
<1> DEFINE r == [gate.snap EXCEPT !.der = TRUE, !.action = "none"]
<1>1. gate.at # "none" /\ gate.kind # "retry" /\ gate.snap = pipe[Pending]
  BY DEF AttachDerivation, PipelineInv, GateHolds
<1>2. Pending \in Pipes /\ pipe[Pending] \in Rows
  BY <1>1, PendingIn DEF PipelineInv, PipelineTypeOK
<1>3. r \in Rows /\ r.up = pipe[Pending].up /\ r.ident = pipe[Pending].ident /\ r.der = TRUE
      /\ r.admitted = pipe[Pending].admitted
  BY <1>1, <1>2 DEF Rows
<1>4. Replace(Pending, pipe[Pending], r)
  BY <1>1 DEF AttachDerivation
<1> HIDE DEF r
<1>5. RowsMove /\ RowsOwn' /\ RowsKept
  BY <1>2, <1>3, <1>4, ReplaceOwn DEF AttachDerivation
<1>6. /\ gate' \in GateRecords /\ gate'.at = "decide" /\ gate'.kind = gate.kind /\ gate'.todo = gate.todo
      /\ gate'.base = gate.base /\ gate.todo # <<>>
  BY <1>1, GoEffect DEF AttachDerivation, GatePlaces
<1>7. GateHolds'
  <2>1. gate'.kind = "start" => gate'.base.ver <= pipe'[Pending'].ver
                                /\ (gate'.base.ver = pipe'[Pending'].ver => gate'.base = pipe'[Pending'])
    BY <1>5, <1>6, BaseStays
  <2> QED BY <1>1, <1>6, <2>1 DEF GateHolds
<1>8. imp' \in [Pipes -> {"none", "running", "verified", "cancelled"}]
      /\ der' \in [Pipes -> {"none", "running", "verified", "failed"}]
      /\ owes' \subseteq Lanes /\ phase' \in Phases
  BY DEF AttachDerivation, PipelineInv, PipelineTypeOK
<1> QED BY <1>5, <1>6, <1>7, <1>8, RowStep DEF AttachDerivation, RowsMove

LEMMA SetActionKeeps ==
    ASSUME PipelineInv, AtDecide, NEW a \in {"none", "admit"}, SetAction(a)
    PROVE  PipelineInv' /\ RowsKept
<1> DEFINE r == [pipe[Pending] EXCEPT !.action = a]
<1>1. gate.at # "none" /\ Pending \in Pipes /\ pipe[Pending] \in Rows
  BY DecideHolds DEF PipelineInv, PipelineTypeOK
<1>2. r \in Rows /\ r.up = pipe[Pending].up /\ r.ident = pipe[Pending].ident /\ r.der = pipe[Pending].der
      /\ r.admitted = pipe[Pending].admitted
  BY <1>1 DEF Rows
<1>3. pipe' = pipe \/ Replace(Pending, pipe[Pending], r)
  BY DEF SetAction
<1> HIDE DEF r
<1>4. RowsMove /\ RowsOwn' /\ RowsKept
  <2>1. CASE pipe' = pipe
    BY <2>1, SameRowsKept, SameOwn DEF SetAction
  <2>2. CASE Replace(Pending, pipe[Pending], r)
    BY <1>1, <1>2, <2>2, ReplaceOwn DEF SetAction
  <2> QED BY <1>3, <2>1, <2>2
<1>5. Proceeded
  BY <1>1, ProceedEffect DEF SetAction
<1>6. GateHolds'
  BY <1>4, <1>5, ProceededHolds
<1>7. imp' \in [Pipes -> {"none", "running", "verified", "cancelled"}]
      /\ der' \in [Pipes -> {"none", "running", "verified", "failed"}]
      /\ owes' \subseteq Lanes /\ phase' \in Phases /\ gate' \in GateRecords
  BY <1>5 DEF SetAction, PipelineInv, PipelineTypeOK, Proceeded
<1> QED BY <1>4, <1>6, <1>7, RowStep DEF SetAction, RowsMove

LEMMA ActionKeeps ==
    ASSUME PipelineInv, ClearAction \/ RequireAdmission
    PROVE  PipelineInv' /\ RowsKept
  BY SetActionKeeps DEF ClearAction, RequireAdmission

LEMMA AttachUploadKeeps ==
    ASSUME PipelineInv, AttachUpload
    PROVE  PipelineInv' /\ RowsKept
<1> DEFINE r == [gate.snap EXCEPT !.up = gate.j, !.action = "none"]
<1>1. gate.at # "none" /\ gate.kind # "retry" /\ gate.snap = pipe[Pending] /\ gate.todo # <<>>
  BY DEF AttachUpload, PipelineInv, GateHolds
<1>2. Pending \in Pipes /\ pipe[Pending] \in Rows
  BY <1>1, PendingIn DEF PipelineInv, PipelineTypeOK
<1>3. /\ Made(gate.j) /\ pipe[Pending].up = NoJob /\ job[gate.j].p = Pending
      /\ job[gate.j].ident = pipe[Pending].ident
  BY <1>1 DEF AttachUpload, PipelineInv, GateHolds
<1>4. r \in Rows /\ r.up = gate.j /\ r.ident = pipe[Pending].ident /\ r.der = pipe[Pending].der
      /\ r.admitted = pipe[Pending].admitted
  BY <1>1, <1>2, <1>3 DEF Rows, Made
<1>5. Replace(Pending, pipe[Pending], r)
  BY <1>1 DEF AttachUpload
<1> HIDE DEF r
<1>6. /\ RowsMove
      /\ \A q \in Pipes \ {Pending} : pipe'[q] = pipe[q]
      /\ pipe'[Pending].der = r.der /\ pipe'[Pending].admitted = r.admitted
      /\ pipe'[Pending].up = r.up /\ pipe'[Pending].ident = r.ident
  BY <1>2, <1>4, <1>5, ReplaceEffect
<1>7. RowsOwn'
  BY <1>2, <1>3, <1>4, <1>6, OwnFrom DEF AttachUpload
<1>8. RowsKept
  BY <1>3, <1>4, <1>6 DEF RowsKept, Kept, Started
<1>9. gate' \in GateRecords /\ gate'.at = "wake" /\ gate'.kind = gate.kind /\ gate'.todo = gate.todo
      /\ gate'.base = gate.base
  BY DEF AttachUpload, PipelineInv, PipelineRecords, GateRecords, GatePlaces
<1>10. GateHolds'
  <2>1. gate'.kind = "start" => gate'.base.ver <= pipe'[Pending'].ver
                                /\ (gate'.base.ver = pipe'[Pending'].ver => gate'.base = pipe'[Pending'])
    BY <1>6, <1>9, BaseStays
  <2> QED BY <1>1, <1>9, <2>1 DEF GateHolds
<1>11. imp' \in [Pipes -> {"none", "running", "verified", "cancelled"}]
      /\ der' \in [Pipes -> {"none", "running", "verified", "failed"}]
      /\ owes' \subseteq Lanes /\ phase' \in Phases
  BY DEF AttachUpload, PipelineInv, PipelineTypeOK
<1> QED BY <1>6, <1>7, <1>8, <1>9, <1>10, <1>11, RowStep DEF AttachUpload, RowsMove

LEMMA RefreshKeeps ==
    ASSUME PipelineInv, Refresh
    PROVE  PipelineInv' /\ RowsKept
<1>1. gate.kind = "start" /\ gate.at # "none" /\ gate.kind # "retry"
  BY DEF Refresh, PipelineInv, GateHolds
<1>2. Pending \in Pipes /\ pipe[Pending] \in Rows /\ gate.base \in Rows
  BY <1>1, PendingIn DEF PipelineInv, PipelineTypeOK, PipelineRecords, GateRecords
<1>3. gate.base.ver = pipe[Pending].ver => gate.base = pipe[Pending]
  BY <1>1 DEF PipelineInv, GateHolds
<1>4. Replace(Pending, gate.base, gate.base) /\ Release(TRUE)
  BY DEF Refresh
<1>5. RowsMove /\ RowsOwn' /\ RowsKept
  <2>1. CASE gate.base.ver = pipe[Pending].ver
    <3>1. Replace(Pending, pipe[Pending], pipe[Pending])
      BY <1>3, <1>4, <2>1
    <3> QED BY <1>2, <3>1, ReplaceOwn DEF Refresh
  <2>2. CASE gate.base.ver # pipe[Pending].ver
    <3>1. pipe' = pipe
      BY <1>2, <1>4, <2>2, ReplaceEffect
    <3> QED BY <3>1, SameRowsKept, SameOwn DEF Refresh
  <2> QED BY <2>1, <2>2
<1>6. Proceeded
  BY <1>4, ReleaseEffect
<1>7. GateHolds'
  BY <1>5, <1>6, ProceededHolds
<1>8. imp' \in [Pipes -> {"none", "running", "verified", "cancelled"}]
      /\ der' \in [Pipes -> {"none", "running", "verified", "failed"}]
      /\ owes' \subseteq Lanes /\ phase' \in Phases /\ gate' \in GateRecords
  BY <1>6 DEF Refresh, PipelineInv, PipelineTypeOK, Proceeded
<1> QED BY <1>5, <1>7, <1>8, RowStep DEF Refresh, RowsMove

(* The operation of a start, which remembers the row that admission        *)
(* returned.                                                               *)
StartOp(p, r) == [NoOp EXCEPT !.who = "user", !.kind = "start", !.at = "decide", !.todo = <<p>>, !.base = r]

LEMMA StartOpIs ==
    ASSUME NEW p \in Pipes, NEW r \in Rows
    PROVE  /\ StartOp(p, r) \in GateRecords /\ StartOp(p, r).at = "decide" /\ StartOp(p, r).kind = "start"
           /\ StartOp(p, r).todo # <<>> /\ Head(StartOp(p, r).todo) = p /\ StartOp(p, r).base = r
<1>1. <<p>> \in Seq(Pipes) /\ <<p>> # <<>> /\ Head(<<p>>) = p
  OBVIOUS
<1>2. StartOp(p, r).todo = <<p>> /\ StartOp(p, r).at = "decide" /\ StartOp(p, r).kind = "start"
      /\ StartOp(p, r).base = r
  BY Blanks DEF StartOp, GateRecords
<1>3. StartOp(p, r) \in GateRecords
  BY <1>1, Blanks DEF StartOp, GateRecords, GatePlaces
<1> QED BY <1>1, <1>2, <1>3

LEMMA StartHolds ==
    ASSUME NEW p \in Pipes, NEW r \in Rows, gate' = StartOp(p, r), pipe'[p] = r
    PROVE  gate' \in GateRecords /\ GateHolds'
<1>1. /\ gate' \in GateRecords /\ gate'.at = "decide" /\ gate'.kind = "start"
      /\ gate'.todo # <<>> /\ Pending' = p /\ gate'.base = r
  BY StartOpIs DEF Pending
<1>2. r.ver \in Nat
  BY DEF Rows
<1> QED BY <1>1, <1>2 DEF GateHolds

LEMMA StartPipelineKeeps ==
    ASSUME PipelineInv, NEW p \in Pipes, NEW policy \in Policies[p], StartPipeline(p, policy)
    PROVE  PipelineInv' /\ RowsKept
<1> DEFINE r == [NoRow EXCEPT !.policy = policy,
                              !.ident = IF policy = "upload" THEN config ELSE "none",
                              !.action = IF policy = "import" THEN "none" ELSE "quality",
                              !.ver = 1]
<1>1. policy \in {"import", "normalize", "upload"} /\ config \in Identities
  BY PipelineAssumption DEF PipelineInv, PipelineTypeOK
<1>2. r \in Rows /\ r.up = NoJob
  BY <1>1, Blanks DEF Rows
<1>3. pipe' = [pipe EXCEPT ![p] = r] /\ gate' = StartOp(p, r) /\ p \notin Started
  BY DEF StartPipeline, StartOp
<1> HIDE DEF r
<1>4. pipe \in [Pipes -> Rows]
  BY DEF PipelineInv, PipelineTypeOK
<1>5. pipe' \in [Pipes -> Rows] /\ pipe'[p] = r /\ \A q \in Pipes \ {p} : pipe'[q] = pipe[q]
  BY <1>2, <1>3, <1>4
<1>6. RowsOwn'
  BY <1>2, <1>5, OwnFrom DEF StartPipeline
<1>7. RowsKept
  BY <1>3, <1>5 DEF RowsKept, Kept, Started
<1>8. gate' \in GateRecords /\ GateHolds'
  BY <1>2, <1>3, <1>5, StartHolds
<1>9. imp' \in [Pipes -> {"none", "running", "verified", "cancelled"}]
  BY DEF StartPipeline, PipelineInv, PipelineTypeOK
<1>10. der' \in [Pipes -> {"none", "running", "verified", "failed"}]
       /\ owes' \subseteq Lanes /\ phase' \in Phases
  BY DEF StartPipeline, PipelineInv, PipelineTypeOK
<1> QED BY <1>5, <1>6, <1>7, <1>8, <1>9, <1>10, RowStep DEF StartPipeline

LEMMA StartAgainKeeps ==
    ASSUME PipelineInv, NEW p \in Pipes, StartAgain(p)
    PROVE  PipelineInv' /\ RowsKept
<1>1. gate' = StartOp(p, pipe[p]) /\ pipe' = pipe
  BY DEF StartAgain, StartOp, media
<1>2. pipe' \in [Pipes -> Rows] /\ pipe[p] \in Rows
  BY <1>1 DEF PipelineInv, PipelineTypeOK
<1>3. gate' \in GateRecords /\ GateHolds'
  BY <1>1, <1>2, StartHolds
<1>4. RowsKept /\ RowsOwn'
  BY <1>1, SameRowsKept, SameOwn DEF StartAgain
<1>5. imp' \in [Pipes -> {"none", "running", "verified", "cancelled"}]
      /\ der' \in [Pipes -> {"none", "running", "verified", "failed"}]
      /\ owes' \subseteq Lanes /\ phase' \in Phases
  BY DEF StartAgain, media, PipelineInv, PipelineTypeOK
<1> QED BY <1>2, <1>3, <1>4, <1>5, RowStep DEF StartAgain, media

LEMMA CommandKeeps ==
    ASSUME PipelineInv, NEW p \in Pipes, CommandPipeline(p)
    PROVE  PipelineInv' /\ RowsKept
<1>1. pipe[p] \in Rows /\ <<p>> \in Seq(Pipes) /\ <<p>> # <<>>
  BY DEF PipelineInv, PipelineTypeOK
<1>2. RowsMove /\ RowsOwn' /\ RowsKept
  BY <1>1, ReplaceOwn DEF CommandPipeline
<1>3. gate' \in GateRecords /\ GateHolds'
  BY <1>1, AcquireHolds DEF CommandPipeline
<1>4. imp' \in [Pipes -> {"none", "running", "verified", "cancelled"}]
  BY DEF CommandPipeline, PipelineInv, PipelineTypeOK
<1>5. der' \in [Pipes -> {"none", "running", "verified", "failed"}]
      /\ owes' \subseteq Lanes /\ phase' \in Phases
  BY DEF CommandPipeline, PipelineInv, PipelineTypeOK
<1> QED BY <1>2, <1>3, <1>4, <1>5, RowStep DEF CommandPipeline, RowsMove

LEMMA ApproveKeeps ==
    ASSUME PipelineInv, NEW p \in Pipes, ApproveUnsigned(p)
    PROVE  PipelineInv' /\ RowsKept
<1> DEFINE r == [pipe[p] EXCEPT !.admitted = TRUE, !.action = "none"]
<1>1. pipe[p] \in Rows /\ <<p>> \in Seq(Pipes) /\ <<p>> # <<>>
  BY DEF PipelineInv, PipelineTypeOK
<1>2. r \in Rows /\ r.up = pipe[p].up /\ r.ident = pipe[p].ident /\ r.der = pipe[p].der /\ r.admitted = TRUE
  BY <1>1 DEF Rows
<1>3. Replace(p, pipe[p], r)
  BY DEF ApproveUnsigned
<1> HIDE DEF r
<1>4. RowsMove /\ RowsOwn' /\ RowsKept
  BY <1>2, <1>3, ReplaceOwn DEF ApproveUnsigned
<1>5. gate' \in GateRecords /\ GateHolds'
  BY <1>1, AcquireHolds DEF ApproveUnsigned
<1>6. imp' \in [Pipes -> {"none", "running", "verified", "cancelled"}]
      /\ der' \in [Pipes -> {"none", "running", "verified", "failed"}]
      /\ owes' \subseteq Lanes /\ phase' \in Phases
  BY DEF ApproveUnsigned, PipelineInv, PipelineTypeOK
<1> QED BY <1>4, <1>5, <1>6, RowStep DEF ApproveUnsigned, RowsMove

LEMMA ReconcilesKeeps ==
    ASSUME PipelineInv, Reconciles
    PROVE  PipelineInv' /\ RowsKept
<1> DEFINE all == [i \in 1..NumPipes |-> i]
<1>1. all \in Seq(Pipes) /\ all # <<>>
  <2>1. NumPipes \in Nat /\ NumPipes # 0
    BY PipelineAssumption
  <2>2. all \in Seq(Pipes) /\ Len(all) = NumPipes
    BY <2>1 DEF Pipes
  <2> QED BY <2>1, <2>2, EmptySeq
<1>2. \E w \in Lanes \cup {"user", "startup"} : Acquire(w, "reconcile", all)
  BY DEF Reconciles, StartupReconciles, LaneReconciles
<1>3. UNCHANGED <<pipe, imp, der, impOut, derOut, job, lib, remote, settings, config, lane, proj, owes, phase>>
  BY DEF Reconciles, StartupReconciles, LaneReconciles, media
<1> HIDE DEF all
<1>4. gate' \in GateRecords /\ GateHolds'
  BY <1>1, <1>2, AcquireHolds
<1>5. RowsKept /\ RowsOwn'
  BY <1>3, SameRowsKept, SameOwn
<1>6. imp' \in [Pipes -> {"none", "running", "verified", "cancelled"}]
      /\ der' \in [Pipes -> {"none", "running", "verified", "failed"}]
      /\ owes' \subseteq Lanes /\ phase' \in Phases /\ pipe' \in [Pipes -> Rows]
  BY <1>3 DEF PipelineInv, PipelineTypeOK
<1> QED BY <1>3, <1>4, <1>5, <1>6, RowStep

LEMMA AttachRetryKeeps ==
    ASSUME PipelineInv, AttachRetry
    PROVE  PipelineInv' /\ RowsKept
<1> DEFINE owners == {p \in Started : pipe[p].up \in {gate.parent, gate.j}}
<1>1. /\ Made(gate.j) /\ Made(gate.parent) /\ Same(gate.parent, gate.j) /\ gate.kind = "retry"
      /\ job[gate.parent].state = "failed" /\ job[gate.parent].retryable = TRUE /\ gate.todo = <<>>
  BY DEF AttachRetry, PipelineInv, GateHolds
<1>2. UNCHANGED <<imp, der, impOut, derOut, job, lib, remote, settings, config, lane, proj>>
  BY DEF AttachRetry
<1>3. CASE pipe' = pipe /\ Release(FALSE)
  <2>1. Proceeded
    BY <1>3, ReleaseEffect
  <2> QED BY <1>2, <1>3, <2>1, GateOnly
<1>4. CASE /\ \E p \in owners : IF pipe[p].up = gate.parent
                                THEN Replace(p, pipe[p], [pipe[p] EXCEPT !.up = gate.j])
                                ELSE pipe' = pipe
           /\ gate' = [gate EXCEPT !.at = "wake"]
           /\ UNCHANGED <<owes, wakeup, phase>>
  <2>1. gate' \in GateRecords /\ gate'.at = "wake" /\ gate'.kind = "retry" /\ gate'.todo = <<>>
    BY <1>1, <1>4 DEF PipelineInv, PipelineRecords, GateRecords, GatePlaces
  <2>2. GateHolds'
    BY <2>1 DEF GateHolds
  <2>3. imp' \in [Pipes -> {"none", "running", "verified", "cancelled"}]
        /\ der' \in [Pipes -> {"none", "running", "verified", "failed"}]
        /\ owes' \subseteq Lanes /\ phase' \in Phases
    BY <1>2, <1>4 DEF PipelineInv, PipelineTypeOK
  <2>4. RowsMove /\ RowsOwn' /\ RowsKept
    <3>1. PICK p \in owners : IF pipe[p].up = gate.parent
                              THEN Replace(p, pipe[p], [pipe[p] EXCEPT !.up = gate.j])
                              ELSE pipe' = pipe
      BY <1>4
    <3>2. CASE pipe' = pipe
      BY <1>2, <3>2, SameRowsKept, SameOwn
    <3>3. CASE pipe[p].up = gate.parent /\ pipe' # pipe
      <4> DEFINE r == [pipe[p] EXCEPT !.up = gate.j]
      <4>1. p \in Pipes /\ pipe[p] \in Rows
        BY DEF Started, PipelineInv, PipelineTypeOK
      <4>2. r \in Rows /\ r.up = gate.j /\ r.ident = pipe[p].ident /\ r.der = pipe[p].der
            /\ r.admitted = pipe[p].admitted
        BY <1>1, <4>1 DEF Rows, Made
      <4>3. Replace(p, pipe[p], r)
        BY <3>1, <3>3
      <4> HIDE DEF r
      <4>4. /\ RowsMove
            /\ \A q \in Pipes \ {p} : pipe'[q] = pipe[q]
            /\ pipe'[p].der = r.der /\ pipe'[p].admitted = r.admitted
            /\ pipe'[p].up = r.up /\ pipe'[p].ident = r.ident
        BY <4>1, <4>2, <4>3, ReplaceEffect
      <4>5. gate.parent # NoJob /\ gate.j # NoJob
        BY <1>1, PipeFacts DEF PipelineInv
      <4>6. job[gate.parent].p = p /\ job[gate.parent].ident = pipe[p].ident
        BY <3>3, <4>1, <4>5 DEF PipelineInv, StoresHold, RowsOwn
      <4>7. job[gate.j].p = p /\ job[gate.j].ident = pipe[p].ident
        BY <1>1, <4>6 DEF Same
      <4>8. RowsOwn'
        BY <1>2, <4>1, <4>2, <4>4, <4>7, OwnFrom
      <4>9. RowsKept
        BY <1>1, <3>3, <4>2, <4>4, <4>5 DEF RowsKept, Kept, Started
      <4> QED BY <4>4, <4>8, <4>9
    <3> QED BY <3>1, <3>2, <3>3
  <2> QED BY <1>2, <2>1, <2>2, <2>3, <2>4, RowStep DEF RowsMove
<1> QED BY <1>3, <1>4 DEF AttachRetry

-----------------------------------------------------------------------------
(* The steps that move rows of the upload store.                           *)

LEMMA JobStep ==
    ASSUME PipelineInv, UploadsMove, StoresHold', pipe' = pipe, imp' = imp, der' = der, lib' = lib,
           remote' \in [Pipes -> SUBSET (1..NumObjects)],
           settings' \in Identities, config' \in Identities,
           gate' \in GateRecords, GateHolds', lane' \in LaneRecords, LaneHolds',
           proj' \in ProjRecords, ProjHolds',
           owes' \subseteq Lanes, phase' \in Phases, impOut' \subseteq impOut, derOut' \subseteq derOut
    PROVE  PipelineInv' /\ RowsKept
<1>1. PipelineRecords'
  BY DEF PipelineRecords, UploadsMove
<1>2. \A j \in Jobs : job'[j].p \in 0..NumPipes /\ job'[j].ck \in 0..NumObjects
                       /\ job'[j].state \in Ended \cup {"queued", "preparing"}
  BY DEF UploadsMove, Uploads, Ended
<1>3. PipelineTypeOK'
  BY <1>2 DEF PipelineInv, PipelineTypeOK
<1> QED BY <1>1, <1>3, SameRowsKept DEF PipelineInv

(* A new row of the upload store, of a natural key without a live attempt. *)
Adds(k, p, ident, parent) == job' = [job EXCEPT ![k] = NewUpload(p, ident, parent)]

LEMMA NewRow ==
    ASSUME PipelineInv, NEW k \in Jobs, job[k].p = 0, NEW p \in Pipes, NEW ident \in Identities \cup {"none"},
           NEW parent \in Jobs \cup {NoJob},
           parent # NoJob => job[parent].p = p /\ job[parent].ident = ident,
           Active(p, ident) = {}, Adds(k, p, ident, parent),
           pipe' = pipe, remote' = remote, lib' = lib
    PROVE  UploadsMove /\ StoresHold' /\ Made(k)' /\ job'[k].p = p /\ job'[k].ident = ident
<1> DEFINE n == NewUpload(p, ident, parent)
<1>0. job \in [Jobs -> Uploads] /\ p # 0 /\ 0 \notin Pipes /\ p \in 0..NumPipes /\ NumPipes \in Nat
  BY PipeFacts, PipelineAssumption DEF PipelineInv, PipelineRecords, Pipes
<1>1. n \in Uploads /\ n.p = p /\ n.ident = ident /\ n.parent = parent /\ n.ck = 0 /\ n.state = "queued"
  BY <1>0, Blanks DEF NewUpload, Uploads
<1>2. job' = [job EXCEPT ![k] = n]
  BY DEF Adds
<1> HIDE DEF n
<1>3. job'[k] = n /\ (\A j \in Jobs \ {k} : job'[j] = job[j]) /\ job' \in [Jobs -> Uploads]
  BY <1>0, <1>1, <1>2
<1>4. UploadsMove
  <2>1. \A j \in Jobs : job[j].p # 0 => job'[j] = job[j]
    BY <1>3
  <2> QED BY <1>3, <2>1 DEF UploadsMove
<1>5. Made(k)' /\ job'[k].p = p /\ job'[k].ident = ident
  BY <1>0, <1>1, <1>3 DEF Made
<1>6. RowsOwn'
  BY <1>4, OwnStays
<1>7. Lineage'
  <2> SUFFICES ASSUME NEW c \in Jobs, Made(c)', job'[c].parent # NoJob
               PROVE  Same(job[c].parent, c)'
    BY DEF Lineage
  <2>1. CASE c = k
    <3>1. job'[c].parent = parent /\ parent \in Jobs /\ parent # NoJob
      BY <1>1, <1>3, <2>1
    <3>2. job[parent].p = p /\ job[parent].ident = ident
      BY <3>1
    <3>3. parent # k
      BY <1>0, <3>2
    <3> QED BY <1>1, <1>3, <2>1, <3>1, <3>2, <3>3 DEF Same
  <2>2. CASE c # k
    <3>1. job'[c] = job[c] /\ Made(c)
      BY <1>3, <2>2 DEF Made
    <3>2. Same(job[c].parent, c) /\ job[c].parent \in Jobs
      BY <3>1, <1>0 DEF PipelineInv, StoresHold, Lineage, Uploads
    <3>3. job[c].parent # k
      BY <3>1, <3>2 DEF Same, Made
    <3> QED BY <1>3, <3>1, <3>2, <3>3 DEF Same
  <2> QED BY <2>1, <2>2
<1>8. OneLiveAttempt'
  <2> SUFFICES ASSUME NEW i \in Jobs, NEW j \in Jobs, Live(i)', Live(j)', job'[i].p = job'[j].p,
                      job'[i].ident = job'[j].ident, i # j
               PROVE  FALSE
    BY DEF OneLiveAttempt
  <2>1. ASSUME NEW a \in Jobs, a # k, Live(a)', job'[a].p = p, job'[a].ident = ident PROVE FALSE
    <3>1. Live(a) /\ job[a].p = p /\ job[a].ident = ident
      BY <1>3, <2>1 DEF Live
    <3> QED BY <3>1 DEF Active, Attempts
  <2>2. CASE i = k \/ j = k
    BY <1>1, <1>3, <2>1, <2>2
  <2>3. CASE i # k /\ j # k
    BY <1>3, <2>3 DEF PipelineInv, StoresHold, OneLiveAttempt, Live
  <2> QED BY <2>2, <2>3
<1>9. Verified'
  <2> SUFFICES ASSUME NEW j \in Jobs, Made(j)'
               PROVE  /\ 1..job'[j].ck \subseteq remote[job'[j].p]
                      /\ job'[j].state = "succeeded" => job'[j].ck = NumObjects
    BY DEF Verified
  <2>1. CASE j = k
    BY <1>1, <1>3, <2>1
  <2>2. CASE j # k
    BY <1>3, <2>2 DEF PipelineInv, StoresHold, Verified, Made
  <2> QED BY <2>1, <2>2
<1>10. ManifestIsLast'
  BY DEF PipelineInv, StoresHold, ManifestIsLast
<1>11. RemoteIsProven'
  <2> SUFFICES ASSUME NEW q \in Pipes, "remote" \in lib[q]
               PROVE  /\ "source" \in lib[q] /\ remote[q] = 1..NumObjects
                      /\ \E j \in Jobs : job'[j].p = q /\ job'[j].state = "succeeded" /\ job'[j].ck = NumObjects
    BY DEF RemoteIsProven, Attempts
  <2>1. PICK j \in Jobs : job[j].p = q /\ job[j].state = "succeeded" /\ job[j].ck = NumObjects
    BY DEF PipelineInv, StoresHold, RemoteIsProven, Attempts
  <2>2. j # k
    BY <1>0, <2>1
  <2> QED BY <1>3, <2>1, <2>2 DEF PipelineInv, StoresHold, RemoteIsProven
<1> QED BY <1>4, <1>5, <1>6, <1>7, <1>8, <1>9, <1>10, <1>11 DEF StoresHold

LEMMA RecoverUpload ==
    ASSUME PipelineInv, NEW p \in Pipes, Recover(p) = "upload"
    PROVE  pipe[p].up = NoJob
<1>1. pipe[p].der \in BOOLEAN
  BY DEF PipelineInv, PipelineTypeOK, Rows
<1> QED BY <1>1 DEF Recover

LEMMA PrepareUploadKeeps ==
    ASSUME PipelineInv, PrepareUpload
    PROVE  PipelineInv' /\ RowsKept
<1> DEFINE found == Active(Pending, settings)
<1>1. gate.at # "none" /\ gate.kind # "retry" /\ Pending \in Pipes /\ pipe[Pending].up = NoJob
      /\ settings = pipe[Pending].ident
  BY DecideHolds, RecoverUpload DEF PrepareUpload
<1>2. PICK j \in IF found # {} THEN found ELSE Fresh :
          /\ job' = IF found # {} THEN job
                    ELSE [job EXCEPT ![j] = NewUpload(Pending, settings, NoJob)]
          /\ Go("attach_upload", j)
  BY DEF PrepareUpload
<1>3. UNCHANGED <<pipe, imp, der, impOut, derOut, lib, remote, settings, config, lane, owes, proj, phase>>
  BY DEF PrepareUpload, media
<1>4. j \in Jobs /\ UploadsMove /\ StoresHold' /\ Made(j)' /\ job'[j].p = Pending /\ job'[j].ident = settings
  <2>1. CASE found # {}
    <3>1. j \in Jobs /\ job[j].p = Pending /\ job[j].ident = settings /\ job' = job
      BY <1>2, <2>1 DEF Active, Attempts
    <3>2. Pending # 0
      BY <1>1, PipeFacts DEF PipelineInv
    <3>3. UploadsMove /\ StoresHold'
      BY <1>3, <3>1, SameJobsMove, StoresSame DEF PipelineInv
    <3> QED BY <3>1, <3>2, <3>3 DEF Made
  <2>2. CASE found = {}
    <3>1. j \in Jobs /\ job[j].p = 0
      BY <1>2, <2>2 DEF Fresh
    <3>2. Adds(j, Pending, settings, NoJob)
      BY <1>2, <2>2 DEF Adds
    <3>3. settings \in Identities
      BY DEF PipelineInv, PipelineTypeOK
    <3> QED BY <1>1, <1>3, <2>2, <3>1, <3>2, <3>3, NewRow
  <2> QED BY <2>1, <2>2
<1>5. /\ gate' \in GateRecords /\ gate'.at = "attach_upload" /\ gate'.kind = gate.kind /\ gate'.todo = gate.todo
      /\ gate'.base = gate.base /\ gate'.j = j /\ gate'.snap = pipe[Pending] /\ Pending' = Pending
      /\ gate.todo # <<>>
  BY <1>1, <1>2, <1>4, GoEffect DEF GatePlaces
<1>6. GateHolds'
  <2>1. gate'.kind = "start" => gate'.base.ver <= pipe'[Pending'].ver
                                /\ (gate'.base.ver = pipe'[Pending'].ver => gate'.base = pipe'[Pending'])
    BY <1>3, <1>5, BaseStays, SameRowsKept
  <2> QED BY <1>1, <1>3, <1>4, <1>5, <2>1 DEF GateHolds
<1>7. LaneHolds' /\ ProjHolds' /\ lane' \in LaneRecords /\ proj' \in ProjRecords
  BY <1>3, <1>4, LaneStays, ProjStays DEF PipelineInv, PipelineRecords
<1>8. remote' \in [Pipes -> SUBSET (1..NumObjects)] /\ settings' \in Identities /\ config' \in Identities
      /\ owes' \subseteq Lanes /\ phase' \in Phases
  BY <1>3 DEF PipelineInv, PipelineTypeOK
<1> QED BY <1>3, <1>4, <1>5, <1>6, <1>7, <1>8, JobStep

RetryOp(k, j) == [NoOp EXCEPT !.who = "user", !.kind = "retry", !.at = "attach_retry", !.j = k, !.parent = j]

LEMMA RetryOpIs ==
    ASSUME NEW k \in Jobs, NEW j \in Jobs
    PROVE  /\ RetryOp(k, j) \in GateRecords /\ RetryOp(k, j).at = "attach_retry" /\ RetryOp(k, j).kind = "retry"
           /\ RetryOp(k, j).todo = <<>> /\ RetryOp(k, j).j = k /\ RetryOp(k, j).parent = j
<1>1. RetryOp(k, j) \in GateRecords
  BY Blanks DEF RetryOp, GateRecords, GatePlaces
<1>2. /\ RetryOp(k, j).at = "attach_retry" /\ RetryOp(k, j).kind = "retry"
      /\ RetryOp(k, j).todo = NoOp.todo /\ RetryOp(k, j).j = k /\ RetryOp(k, j).parent = j
  BY Blanks DEF RetryOp, GateRecords
<1> QED BY <1>1, <1>2, Blanks

LEMMA RetryUploadKeeps ==
    ASSUME PipelineInv, NEW j \in Jobs, RetryUpload(j)
    PROVE  PipelineInv' /\ RowsKept
<1>1. Made(j) /\ job[j].state = "failed" /\ job[j].retryable
  BY DEF RetryUpload, Made
<1>2. PICK k \in IF Reusable(j) # {} THEN Reusable(j) ELSE Fresh :
          /\ job' = IF k \in Reusable(j) THEN job
                    ELSE [job EXCEPT ![k] = NewUpload(job[j].p, job[j].ident, j)]
          /\ gate' = RetryOp(k, j)
  BY DEF RetryUpload, RetryOp
<1>3. UNCHANGED <<pipe, imp, der, impOut, derOut, lib, remote, settings, config, lane, owes, proj, phase>>
  BY DEF RetryUpload, media
<1>4. job[j] \in Uploads /\ job[j].p \in Pipes /\ job[j].ident \in Identities \cup {"none"} /\ job[j].retryable = TRUE
  BY <1>1, PipeFacts DEF PipelineInv, Uploads
<1>5. k \in Jobs /\ UploadsMove /\ StoresHold' /\ Made(k)' /\ job'[k].p = job[j].p /\ job'[k].ident = job[j].ident
  <2>1. CASE Reusable(j) # {}
    <3>1. k \in Reusable(j) /\ job' = job
      BY <1>2, <2>1
    <3>2. k \in Jobs /\ job[k].p = job[j].p /\ job[k].ident = job[j].ident
      <4>1. CASE k \in Children(j)
        BY <1>1, <4>1, PipeFacts DEF Children, PipelineInv, StoresHold, Lineage, Same, Made
      <4>2. CASE k \in Active(job[j].p, job[j].ident)
        BY <4>2 DEF Active, Attempts
      <4> QED BY <3>1, <4>1, <4>2 DEF Reusable
    <3>3. UploadsMove /\ StoresHold'
      BY <1>3, <3>1, SameJobsMove, StoresSame DEF PipelineInv
    <3> QED BY <1>1, <3>1, <3>2, <3>3 DEF Made
  <2>2. CASE Reusable(j) = {}
    <3>1. k \in Jobs /\ job[k].p = 0
      BY <1>2, <2>2 DEF Fresh
    <3>2. Adds(k, job[j].p, job[j].ident, j)
      BY <1>2, <2>2 DEF Adds
    <3>3. Active(job[j].p, job[j].ident) = {}
      BY <2>2 DEF Reusable
    <3> QED BY <1>3, <1>4, <3>1, <3>2, <3>3, NewRow
  <2> QED BY <2>1, <2>2
<1>6. /\ gate' \in GateRecords /\ gate'.at = "attach_retry" /\ gate'.kind = "retry"
      /\ gate'.todo = <<>> /\ gate'.j = k /\ gate'.parent = j
  BY <1>2, <1>5, RetryOpIs
<1>7. Made(j)' /\ Same(j, k)' /\ job'[j].state = "failed" /\ job'[j].retryable = TRUE
  <2>1. Made(j)' /\ job'[j].p = job[j].p /\ job'[j].ident = job[j].ident
    BY <1>1, <1>5, MadeStays
  <2>2. job'[j].state = "failed" /\ job'[j].retryable = TRUE
    BY <1>1, <1>4, <1>5 DEF UploadsMove, Made, Ended
  <2> QED BY <1>5, <2>1, <2>2 DEF Same
<1>8. GateHolds'
  BY <1>5, <1>6, <1>7 DEF GateHolds, Same
<1>9. LaneHolds' /\ ProjHolds' /\ lane' \in LaneRecords /\ proj' \in ProjRecords
  BY <1>3, <1>5, LaneStays, ProjStays DEF PipelineInv, PipelineRecords
<1>10. remote' \in [Pipes -> SUBSET (1..NumObjects)] /\ settings' \in Identities /\ config' \in Identities
      /\ owes' \subseteq Lanes /\ phase' \in Phases
  BY <1>3 DEF PipelineInv, PipelineTypeOK
<1> QED BY <1>3, <1>5, <1>6, <1>8, <1>9, <1>10, JobStep

(* The steps of the upload lane, of the deliverers and of the start leave  *)
(* the gate's operation, the pipelines and the library as they are.        *)
LEMMA LaneStep ==
    ASSUME PipelineInv, UploadsMove, StoresHold', pipe' = pipe, imp' = imp, der' = der, lib' = lib, gate' = gate,
           settings' = settings, config' \in Identities, remote' \in [Pipes -> SUBSET (1..NumObjects)],
           lane' \in LaneRecords, LaneHolds', proj' \in ProjRecords, ProjHolds',
           owes' \subseteq Lanes, phase' \in Phases, impOut' \subseteq impOut, derOut' \subseteq derOut
    PROVE  PipelineInv' /\ RowsKept
<1>1. GateHolds'
  BY GateStays
<1>2. gate' \in GateRecords /\ settings' \in Identities
  BY DEF PipelineInv, PipelineRecords, PipelineTypeOK
<1> QED BY <1>1, <1>2, JobStep

LEMMA StoreTypes ==
    ASSUME PipelineInv
    PROVE  /\ remote \in [Pipes -> SUBSET (1..NumObjects)] /\ settings \in Identities /\ config \in Identities
           /\ owes \subseteq Lanes /\ phase \in Phases /\ lane \in LaneRecords /\ proj \in ProjRecords
           /\ job \in [Jobs -> Uploads] /\ NumObjects \in Nat /\ NumObjects # 0
  BY PipelineAssumption DEF PipelineInv, PipelineTypeOK, PipelineRecords

LEMMA EndTurnHolds ==
    ASSUME PipelineInv, EndTurn
    PROVE  lane' \in LaneRecords /\ LaneHolds' /\ owes' \subseteq Lanes
  BY Blanks, StoreTypes DEF EndTurn, LaneHolds, Lanes

LEMMA CompleteEffect ==
    ASSUME PipelineInv, NEW j \in Jobs, NEW state \in {"failed", "succeeded"}, NEW retryable \in BOOLEAN,
           CompleteUpload(j, state, retryable), state = "succeeded" => job[j].ck = NumObjects
    PROVE  UploadsMove /\ NoneNew /\ NoneChecks
<1>1. CASE ~Live(j)
  BY <1>1, SameJobsMove DEF CompleteUpload, PipelineInv
<1>2. CASE Live(j)
  <2> DEFINE n == [job[j] EXCEPT !.state = state, !.retryable = retryable, !.acked = FALSE]
  <2>1. job[j] \in Uploads /\ job \in [Jobs -> Uploads] /\ job[j].p # 0 /\ job[j].state \notin Ended
    BY <1>2, StoreTypes DEF Live
  <2>2. n \in Uploads /\ n.p = job[j].p /\ n.ident = job[j].ident /\ n.parent = job[j].parent
        /\ n.ck = job[j].ck /\ n.state = state
    BY <2>1 DEF Uploads
  <2>3. job' = [job EXCEPT ![j] = n]
    BY <1>2, <2>1 DEF CompleteUpload
  <2> HIDE DEF n
  <2>4. job' \in [Jobs -> Uploads] /\ job'[j] = n /\ \A i \in Jobs \ {j} : job'[i] = job[i]
    BY <2>1, <2>2, <2>3
  <2>5. UploadsMove
    BY <2>1, <2>2, <2>4 DEF UploadsMove
  <2>6. NoneNew
    BY <2>1, <2>4 DEF NoneNew
  <2>7. NoneChecks
    BY <2>2, <2>4 DEF NoneChecks
  <2> QED BY <2>5, <2>6, <2>7
<1> QED BY <1>1, <1>2

(* The same for a function that gives every row a new state or             *)
(* acknowledges it.                                                        *)
LEMMA AckMoves ==
    ASSUME PipelineInv, job' \in [Jobs -> Uploads],
           \A j \in Jobs : /\ job'[j].p = job[j].p /\ job'[j].ident = job[j].ident /\ job'[j].parent = job[j].parent
                           /\ job'[j].ck = job[j].ck /\ job'[j].retryable = job[j].retryable
                           /\ job'[j].state = job[j].state \/ (Live(j) /\ job'[j].state \in {"cancelled", "preparing"})
    PROVE  UploadsMove /\ NoneNew /\ NoneChecks
<1>1. UploadsMove
  BY DEF UploadsMove, Live
<1>2. NoneNew /\ NoneChecks
  BY DEF NoneNew, NoneChecks
<1> QED BY <1>1, <1>2

LEMMA CancelMoves ==
    ASSUME PipelineInv, NEW j \in Jobs, CancelUpload(j)
    PROVE  UploadsMove /\ NoneNew /\ NoneChecks
<1>0. job \in [Jobs -> Uploads]
  BY StoreTypes
<1>1. ASSUME NEW k \in Jobs
      PROVE  /\ job'[k] \in Uploads /\ job'[k].p = job[k].p /\ job'[k].ident = job[k].ident
             /\ job'[k].parent = job[k].parent /\ job'[k].ck = job[k].ck /\ job'[k].retryable = job[k].retryable
             /\ job'[k].state = job[k].state \/ (Live(k) /\ job'[k].state \in {"cancelled", "preparing"})
  <2>1. job[k] \in Uploads /\ Live(j)
    BY <1>0 DEF CancelUpload
  <2>2. CASE k = j
    <3>1. job'[k] = [job[k] EXCEPT !.state = "cancelled", !.acked = TRUE]
      BY <2>2 DEF CancelUpload
    <3> QED BY <2>1, <2>2, <3>1 DEF Uploads
  <2>3. CASE k # j
    <3>1. PICK a \in BOOLEAN : job'[k] = [job[k] EXCEPT !.acked = a]
      <4> DEFINE a == (job[k].acked \/ job[k].state \in Ended)
      <4>1. job'[k] = [job[k] EXCEPT !.acked = a]
        BY <2>3 DEF CancelUpload
      <4>2. a \in BOOLEAN
        OBVIOUS
      <4> QED BY <4>1, <4>2
    <3> QED BY <2>1, <3>1 DEF Uploads
  <2> QED BY <2>2, <2>3
<1>2. job' \in [Jobs -> Uploads]
  BY <1>1 DEF CancelUpload
<1> QED BY <1>1, <1>2, AckMoves

LEMMA AckMovesJob ==
    ASSUME PipelineInv, proj.stage = "upload", ProjAck
    PROVE  UploadsMove /\ NoneNew /\ NoneChecks
<1>0. job \in [Jobs -> Uploads]
  BY StoreTypes
<1>1. ASSUME NEW k \in Jobs
      PROVE  /\ job'[k] \in Uploads /\ job'[k].p = job[k].p /\ job'[k].ident = job[k].ident
             /\ job'[k].parent = job[k].parent /\ job'[k].ck = job[k].ck /\ job'[k].retryable = job[k].retryable
             /\ job'[k].state = job[k].state
  <2>1. job[k] \in Uploads
    BY <1>0
  <2>2. PICK a \in BOOLEAN : job'[k] = [job[k] EXCEPT !.acked = a]
    <3> DEFINE a == (job[k].acked \/ k \in proj.cur)
    <3>1. job'[k] = [job[k] EXCEPT !.acked = a]
      BY DEF ProjAck
    <3>2. a \in BOOLEAN
      OBVIOUS
    <3> QED BY <3>1, <3>2
  <2> QED BY <2>1, <2>2 DEF Uploads
<1>2. job' \in [Jobs -> Uploads]
  BY <1>1 DEF ProjAck
<1> QED BY <1>1, <1>2, AckMoves

LEMMA BootMoves ==
    ASSUME PipelineInv, Boot
    PROVE  UploadsMove /\ NoneNew /\ NoneChecks
<1>0. job \in [Jobs -> Uploads]
  BY StoreTypes
<1>1. ASSUME NEW k \in Jobs
      PROVE  /\ job'[k] \in Uploads /\ job'[k].p = job[k].p /\ job'[k].ident = job[k].ident
             /\ job'[k].parent = job[k].parent /\ job'[k].ck = job[k].ck /\ job'[k].retryable = job[k].retryable
             /\ job'[k].state = job[k].state \/ (Live(k) /\ job'[k].state \in {"cancelled", "preparing"})
  <2>1. job[k] \in Uploads
    BY <1>0
  <2>2. job'[k] = job[k] \/ (Live(k) /\ job'[k] = [job[k] EXCEPT !.state = "cancelled"])
    BY DEF Boot
  <2> QED BY <2>1, <2>2 DEF Uploads
<1>2. job' \in [Jobs -> Uploads]
  BY <1>1 DEF Boot
<1> QED BY <1>1, <1>2, AckMoves

LEMMA LanMoves ==
    ASSUME PipelineInv, NEW j \in Jobs, LanDeliver(j)
    PROVE  UploadsMove /\ NoneNew /\ NoneChecks
<1> DEFINE n == [job[j] EXCEPT !.acked = TRUE]
<1>1. job \in [Jobs -> Uploads] /\ job[j] \in Uploads
  BY StoreTypes
<1>2. n \in Uploads /\ n.p = job[j].p /\ n.ident = job[j].ident /\ n.parent = job[j].parent
      /\ n.ck = job[j].ck /\ n.state = job[j].state /\ n.retryable = job[j].retryable
  BY <1>1 DEF Uploads
<1>3. job' = [job EXCEPT ![j] = n]
  BY DEF LanDeliver
<1> HIDE DEF n
<1>4. job' \in [Jobs -> Uploads] /\ job'[j] = n /\ \A i \in Jobs \ {j} : job'[i] = job[i]
  BY <1>1, <1>2, <1>3
<1>5. \A i \in Jobs : /\ job'[i].p = job[i].p /\ job'[i].ident = job[i].ident /\ job'[i].parent = job[i].parent
                      /\ job'[i].ck = job[i].ck /\ job'[i].retryable = job[i].retryable
                      /\ job'[i].state = job[i].state
  BY <1>2, <1>4
<1> QED BY <1>4, <1>5, AckMoves

LEMMA LaneJob ==
    ASSUME PipelineInv, lane.pc # "idle"
    PROVE  Made(lane.j) /\ lane.j \in Jobs /\ job[lane.j] \in Uploads /\ job[lane.j].p \in Pipes
           /\ job[lane.j].p # 0
  BY PipeFacts DEF PipelineInv, LaneHolds, Made

LEMMA TransferMoves ==
    ASSUME PipelineInv, StartTransfer
    PROVE  UploadsMove /\ NoneNew /\ NoneChecks
<1> DEFINE j == lane.j
           n == [job[j] EXCEPT !.state = IF @ = "queued" THEN "preparing" ELSE @]
<1>0. lane.pc # "idle"
  BY DEF StartTransfer
<1>1. job \in [Jobs -> Uploads] /\ j \in Jobs /\ job[j] \in Uploads /\ job[j].p # 0
  BY <1>0, LaneJob, StoreTypes
<1>2. n \in Uploads /\ n.p = job[j].p /\ n.ident = job[j].ident /\ n.parent = job[j].parent
      /\ n.ck = job[j].ck /\ n.retryable = job[j].retryable
      /\ (n.state = job[j].state \/ (job[j].state = "queued" /\ n.state = "preparing"))
  BY <1>1 DEF Uploads
<1>3. job' = [job EXCEPT ![j] = n]
  BY <1>1 DEF StartTransfer
<1> HIDE DEF n, j
<1>4. job' \in [Jobs -> Uploads] /\ job'[j] = n /\ \A i \in Jobs \ {j} : job'[i] = job[i]
  BY <1>1, <1>2, <1>3
<1>5. \A i \in Jobs : /\ job'[i].p = job[i].p /\ job'[i].ident = job[i].ident /\ job'[i].parent = job[i].parent
                      /\ job'[i].ck = job[i].ck /\ job'[i].retryable = job[i].retryable
                      /\ job'[i].state = job[i].state \/ (Live(i) /\ job'[i].state \in {"cancelled", "preparing"})
  BY <1>1, <1>2, <1>4 DEF Live, Ended
<1> QED BY <1>4, <1>5, AckMoves

LEMMA OnlyJobs ==
    ASSUME PipelineInv, UploadsMove, NoneNew, NoneChecks,
           pipe' = pipe, imp' = imp, der' = der, lib' = lib, gate' = gate, remote' = remote, settings' = settings,
           config' \in Identities, lane' \in LaneRecords, LaneHolds', proj' \in ProjRecords, ProjHolds',
           owes' \subseteq Lanes, phase' \in Phases, impOut' \subseteq impOut, derOut' \subseteq derOut
    PROVE  PipelineInv' /\ RowsKept
  BY StoresJobs, LaneStep, StoreTypes

LEMMA CancelKeeps ==
    ASSUME PipelineInv, NEW j \in Jobs, CancelUpload(j) \/ LanDeliver(j)
    PROVE  PipelineInv' /\ RowsKept
<1>1. UploadsMove /\ NoneNew /\ NoneChecks
  BY CancelMoves, LanMoves
<1>2. UNCHANGED <<pipe, imp, der, impOut, derOut, lib, gate, remote, settings, config, lane, proj, owes, phase>>
  BY DEF CancelUpload, LanDeliver, media, memory
<1> QED BY <1>1, <1>2, OnlyJobs, LaneStays, ProjStays, StoreTypes

LEMMA BootKeeps ==
    ASSUME PipelineInv, Boot
    PROVE  PipelineInv' /\ RowsKept
<1>1. UploadsMove /\ NoneNew /\ NoneChecks
  BY BootMoves
<1>2. UNCHANGED <<pipe, imp, der, impOut, derOut, lib, gate, remote, settings, lane, proj, owes>>
      /\ phase' = "boot_drain" /\ config' = settings
  BY DEF Boot, media
<1>3. phase' \in Phases /\ config' \in Identities
  BY <1>2, StoreTypes DEF Phases
<1> QED BY <1>1, <1>2, <1>3, OnlyJobs, LaneStays, ProjStays, StoreTypes

LEMMA StartTransferKeeps ==
    ASSUME PipelineInv, StartTransfer
    PROVE  PipelineInv' /\ RowsKept
<1>1. UploadsMove /\ NoneNew /\ NoneChecks
  BY TransferMoves
<1>2. UNCHANGED <<pipe, imp, der, impOut, derOut, lib, gate, remote, settings, config, proj, owes, phase>>
      /\ lane' = [lane EXCEPT !.pc = "send"] /\ lane.pc = "start"
  BY DEF StartTransfer, media
<1>3. lane' \in LaneRecords /\ lane'.j = lane.j
  BY <1>2, StoreTypes DEF LaneRecords
<1>4. Made(lane.j)
  BY <1>2, LaneJob
<1>5. LaneHolds'
  BY <1>1, <1>3, <1>4, MadeStays DEF LaneHolds, Made
<1> QED BY <1>1, <1>2, <1>3, <1>5, OnlyJobs, ProjStays, StoreTypes

LEMMA TurnEndsKeeps ==
    ASSUME PipelineInv, StorageChanged \/ FinishUpload
    PROVE  PipelineInv' /\ RowsKept
<1>1. lane.pc # "idle" /\ EndTurn
  BY DEF StorageChanged, FinishUpload
<1>2. UNCHANGED <<pipe, imp, der, impOut, derOut, lib, gate, remote, settings, config, proj, phase>>
  BY DEF StorageChanged, FinishUpload, media
<1>3. UploadsMove /\ NoneNew /\ NoneChecks
  BY <1>1, LaneJob, CompleteEffect DEF StorageChanged, FinishUpload
<1>4. lane' \in LaneRecords /\ LaneHolds' /\ owes' \subseteq Lanes
  BY <1>1, EndTurnHolds
<1> QED BY <1>2, <1>3, <1>4, OnlyJobs, ProjStays, StoreTypes

LEMMA ProjAckKeeps ==
    ASSUME PipelineInv, ProjAck
    PROVE  PipelineInv' /\ RowsKept
<1>1. UploadsMove /\ NoneNew /\ NoneChecks
  <2>1. CASE proj.stage = "upload"
    BY <2>1, AckMovesJob
  <2>2. CASE proj.stage # "upload"
    BY <2>2, SameJobsMove DEF ProjAck, PipelineInv
  <2> QED BY <2>1, <2>2
<1>2. UNCHANGED <<pipe, imp, der, lib, gate, remote, settings, config, lane, owes, phase>>
      /\ impOut' \subseteq impOut /\ derOut' \subseteq derOut /\ proj' = [proj EXCEPT !.cur = {}]
  BY DEF ProjAck
<1>3. proj' \in ProjRecords /\ proj'.stage = proj.stage /\ proj'.list = proj.list /\ proj'.cur = {}
  BY <1>2, StoreTypes DEF ProjRecords
<1>4. \A x : Made(x) => Made(x)'
  BY <1>1, MadeStays
<1>5. ProjHolds'
  BY <1>3, <1>4 DEF ProjHolds, PipelineInv
<1> QED BY <1>1, <1>2, <1>3, <1>5, OnlyJobs, LaneStays, StoreTypes

-----------------------------------------------------------------------------
(* What the lane sends.                                                    *)

Sends(j, add) == remote' = [remote EXCEPT ![job[j].p] = @ \cup add]

LEMMA SendsEffect ==
    ASSUME PipelineInv, NEW j \in Jobs, Made(j), job[j].ck < NumObjects, NEW add \in SUBSET {job[j].ck + 1}, Sends(j, add)
    PROVE  /\ remote' \in [Pipes -> SUBSET (1..NumObjects)] /\ ManifestIsLast'
           /\ \A p \in Pipes : remote[p] \subseteq remote'[p] /\ (remote[p] = 1..NumObjects => remote'[p] = 1..NumObjects)
           /\ remote'[job[j].p] = remote[job[j].p] \cup add
<1>1. job[j].p \in Pipes /\ job[j].ck \in Nat /\ NumObjects \in Nat
  BY PipeFacts, StoreTypes DEF PipelineInv
<1>2. add \subseteq 1..NumObjects
  BY <1>1
<1>3. remote' \in [Pipes -> SUBSET (1..NumObjects)] /\ remote'[job[j].p] = remote[job[j].p] \cup add
      /\ \A p \in Pipes : p # job[j].p => remote'[p] = remote[p]
  BY <1>1, <1>2, StoreTypes DEF Sends
<1>4. \A p \in Pipes : remote[p] \subseteq remote'[p] /\ (remote[p] = 1..NumObjects => remote'[p] = 1..NumObjects)
  BY <1>2, <1>3
<1>5. ManifestIsLast'
  <2> SUFFICES ASSUME NEW p \in Pipes, NumObjects \in remote'[p] PROVE remote'[p] = 1..NumObjects
    BY DEF ManifestIsLast
  <2>1. CASE NumObjects \in remote[p]
    BY <1>4, <2>1 DEF PipelineInv, StoresHold, ManifestIsLast
  <2>2. CASE NumObjects \notin remote[p]
    <3>1. p = job[j].p /\ NumObjects \in add
      BY <1>3, <2>2
    <3>2. job[j].ck + 1 = NumObjects
      BY <3>1
    <3>3. 1..job[j].ck \subseteq remote[p]
      BY <3>1 DEF PipelineInv, StoresHold, Verified
    <3>4. 1..NumObjects \subseteq remote'[p]
      BY <1>1, <1>3, <3>1, <3>2, <3>3
    <3>5. remote'[p] \subseteq 1..NumObjects
      BY <1>3
    <3> QED BY <3>4, <3>5
  <2> QED BY <2>1, <2>2
<1> QED BY <1>3, <1>4, <1>5

LEMMA ProvenGrows ==
    ASSUME PipelineInv, UploadsMove, Verified', lib' = lib,
           \A p \in Pipes : remote[p] = 1..NumObjects => remote'[p] = 1..NumObjects
    PROVE  RemoteIsProven'
<1> SUFFICES ASSUME NEW p \in Pipes, "remote" \in lib[p]
             PROVE  /\ "source" \in lib[p] /\ remote'[p] = 1..NumObjects
                    /\ \E j \in Jobs : job'[j].p = p /\ job'[j].state = "succeeded" /\ job'[j].ck = NumObjects
  BY DEF RemoteIsProven, Attempts
<1>1. "source" \in lib[p] /\ remote[p] = 1..NumObjects
  BY DEF PipelineInv, StoresHold, RemoteIsProven
<1>2. PICK j \in Jobs : job[j].p = p /\ job[j].state = "succeeded"
  BY DEF PipelineInv, StoresHold, RemoteIsProven, Attempts
<1>3. job[j].p # 0 /\ p # 0
  BY <1>2, PipeFacts DEF PipelineInv
<1>4. job'[j].p = p /\ job'[j].state = "succeeded"
  BY <1>2, <1>3 DEF UploadsMove, Ended
<1>5. job'[j].ck = NumObjects
  BY <1>3, <1>4 DEF Verified, Made
<1> QED BY <1>1, <1>4, <1>5

LEMMA SendObjectKeeps ==
    ASSUME PipelineInv, SendObject
    PROVE  PipelineInv' /\ RowsKept
<1> DEFINE j == lane.j
           n == [job[j] EXCEPT !.ck = @ + 1]
<1>0. lane.pc # "idle" /\ job[j].ck < NumObjects
  BY DEF SendObject
<1>1. job \in [Jobs -> Uploads] /\ j \in Jobs /\ job[j] \in Uploads /\ job[j].p # 0 /\ Made(j) /\ job[j].p \in Pipes
  BY <1>0, LaneJob, StoreTypes
<1>2. job[j].ck \in 0..NumObjects /\ NumObjects \in Nat
  BY <1>1, StoreTypes DEF Uploads
<1>3. n \in Uploads /\ n.p = job[j].p /\ n.ident = job[j].ident /\ n.parent = job[j].parent
      /\ n.ck = job[j].ck + 1 /\ n.state = job[j].state /\ n.retryable = job[j].retryable
  <2>1. job[j].ck + 1 \in 0..NumObjects
    BY <1>0, <1>2
  <2> QED BY <1>1, <2>1 DEF Uploads
<1>4. job' = [job EXCEPT ![j] = n]
  BY <1>1 DEF SendObject
<1>5. Sends(j, {job[j].ck + 1})
  BY DEF SendObject, NextObject, Sends
<1>6. UNCHANGED <<pipe, imp, der, impOut, derOut, lib, gate, settings, config, lane, proj, owes, phase>>
  BY DEF SendObject, media, memory
<1> HIDE DEF n, j
<1>7. job' \in [Jobs -> Uploads] /\ job'[j] = n /\ \A i \in Jobs \ {j} : job'[i] = job[i]
  BY <1>1, <1>3, <1>4
<1>8. UploadsMove
  BY <1>3, <1>7 DEF UploadsMove
<1>9. NoneNew
  BY <1>1, <1>7 DEF NoneNew
<1>10. /\ remote' \in [Pipes -> SUBSET (1..NumObjects)] /\ ManifestIsLast'
       /\ \A p \in Pipes : remote[p] \subseteq remote'[p] /\ (remote[p] = 1..NumObjects => remote'[p] = 1..NumObjects)
       /\ remote'[job[j].p] = remote[job[j].p] \cup {job[j].ck + 1}
  BY <1>0, <1>1, <1>5, SendsEffect DEF j
<1>11. Verified'
  <2> SUFFICES ASSUME NEW i \in Jobs, Made(i)'
               PROVE  /\ 1..job'[i].ck \subseteq remote'[job'[i].p]
                      /\ job'[i].state = "succeeded" => job'[i].ck = NumObjects
    BY DEF Verified
  <2>1. Made(i) /\ job[i].p \in Pipes
    BY <1>9, PipeFacts DEF Made, NoneNew, PipelineInv
  <2>2. 1..job[i].ck \subseteq remote[job[i].p] /\ (job[i].state = "succeeded" => job[i].ck = NumObjects)
    BY <2>1 DEF PipelineInv, StoresHold, Verified
  <2>3. CASE i = j
    <3>1. 1..(job[j].ck + 1) \subseteq remote'[job[j].p]
      <4>1. \A o \in 1..(job[j].ck + 1) : o \in 1..job[j].ck \/ o = job[j].ck + 1
        BY <1>2
      <4> QED BY <1>10, <2>2, <2>3, <4>1
    <3>2. job[j].state # "succeeded"
      BY <1>0, <1>2, <2>2, <2>3
    <3> QED BY <1>3, <1>7, <2>3, <3>1, <3>2
  <2>4. CASE i # j
    BY <1>7, <1>10, <2>1, <2>2, <2>4
  <2> QED BY <2>3, <2>4
<1>12. RemoteIsProven'
  BY <1>6, <1>8, <1>10, <1>11, ProvenGrows
<1>13. StoresHold'
  BY <1>6, <1>8, <1>9, <1>10, <1>11, <1>12, OwnStays, LineageStays, OneLiveStays DEF StoresHold
<1> QED BY <1>6, <1>8, <1>10, <1>13, LaneStep, LaneStays, ProjStays, StoreTypes

LEMMA SendFailsKeeps ==
    ASSUME PipelineInv, SendFails \/ RecordFails
    PROVE  PipelineInv' /\ RowsKept
<1>0. lane.pc # "idle" /\ EndTurn
  BY DEF SendFails, RecordFails
<1>1. lane.j \in Jobs /\ Made(lane.j)
  BY <1>0, LaneJob
<1>2. PICK add \in Unanswered(lane.j) : Sends(lane.j, add)
  BY DEF SendFails, RecordFails, Sends
<1>3. UNCHANGED <<pipe, imp, der, impOut, derOut, lib, gate, settings, config, proj, phase>>
  BY DEF SendFails, RecordFails, media
<1>4. UploadsMove /\ NoneNew /\ NoneChecks
  <2>1. CASE SendFails
    <3>1. PICK retryable \in BOOLEAN : CompleteUpload(lane.j, "failed", retryable)
      BY <2>1 DEF SendFails
    <3> QED BY <1>1, <3>1, CompleteEffect
  <2>2. CASE RecordFails
    BY <2>2, SameJobsMove DEF RecordFails, PipelineInv
  <2> QED BY <2>1, <2>2
<1>5. /\ remote' \in [Pipes -> SUBSET (1..NumObjects)] /\ ManifestIsLast'
      /\ \A p \in Pipes : remote[p] \subseteq remote'[p] /\ (remote[p] = 1..NumObjects => remote'[p] = 1..NumObjects)
  <2>1. CASE job[lane.j].ck < NumObjects
    <3>1. add \in SUBSET {job[lane.j].ck + 1}
      BY <1>2, <2>1 DEF Unanswered, NextObject
    <3> QED BY <1>1, <1>2, <2>1, <3>1, SendsEffect
  <2>2. CASE ~(job[lane.j].ck < NumObjects)
    <3>1. add = {}
      BY <1>2, <2>2 DEF Unanswered
    <3>2. remote' = remote
      BY <1>2, <3>1, StoreTypes DEF Sends
    <3> QED BY <3>2, StoreTypes DEF PipelineInv, StoresHold, ManifestIsLast
  <2> QED BY <2>1, <2>2
<1>6. Verified'
  <2> SUFFICES ASSUME NEW i \in Jobs, Made(i)'
               PROVE  /\ 1..job'[i].ck \subseteq remote'[job'[i].p]
                      /\ job'[i].state = "succeeded" => job'[i].ck = NumObjects
    BY DEF Verified
  <2>1. Made(i) /\ job[i].p \in Pipes /\ job[i].p # 0
    BY <1>4, PipeFacts DEF Made, NoneNew, PipelineInv
  <2>2. 1..job[i].ck \subseteq remote[job[i].p] /\ (job[i].state = "succeeded" => job[i].ck = NumObjects)
    BY <2>1 DEF PipelineInv, StoresHold, Verified
  <2>3. job'[i].p = job[i].p /\ job'[i].ck = job[i].ck
    BY <1>4, <2>1 DEF UploadsMove, NoneChecks
  <2> QED BY <1>4, <1>5, <2>1, <2>2, <2>3 DEF NoneChecks
<1>7. RemoteIsProven'
  BY <1>3, <1>4, <1>5, <1>6, ProvenGrows
<1>8. StoresHold'
  BY <1>3, <1>4, <1>5, <1>6, <1>7, OwnStays, LineageStays, OneLiveStays DEF StoresHold
<1>9. lane' \in LaneRecords /\ LaneHolds' /\ owes' \subseteq Lanes
  BY <1>0, EndTurnHolds
<1> QED BY <1>3, <1>4, <1>5, <1>8, <1>9, LaneStep, ProjStays, StoreTypes

-----------------------------------------------------------------------------
(* The steps that move no row of the two stores.                           *)

LEMMA RestStep ==
    ASSUME PipelineInv, pipe' = pipe, job' = job, remote' = remote,
           imp' \in [Pipes -> {"none", "running", "verified", "cancelled"}],
           der' \in [Pipes -> {"none", "running", "verified", "failed"}],
           lib' \in [Pipes -> SUBSET {"source", "derived", "remote"}], RemoteIsProven',
           impOut' \subseteq Pipes, derOut' \subseteq Pipes, settings' \in Identities, config' = config,
           gate' = gate \/ gate' = NoOp, lane' \in LaneRecords, LaneHolds', proj' \in ProjRecords, ProjHolds',
           owes' \subseteq Lanes, phase' \in Phases
    PROVE  PipelineInv' /\ RowsKept
<1>1. UploadsMove
  BY SameJobsMove DEF PipelineInv
<1>2. PipelineTypeOK'
  BY DEF PipelineInv, PipelineTypeOK
<1>3. PipelineRecords'
  BY Blanks DEF PipelineInv, PipelineRecords
<1>4. StoresHold'
  BY DEF PipelineInv, StoresHold, RowsOwn, Lineage, Verified, OneLiveAttempt, ManifestIsLast, Made, Same, Live
<1>5. GateHolds'
  BY <1>1, GateStays, FreeGate
<1> QED BY <1>2, <1>3, <1>4, <1>5, SameRowsKept DEF PipelineInv

LEMMA RestTypes ==
    ASSUME PipelineInv
    PROVE  /\ imp \in [Pipes -> {"none", "running", "verified", "cancelled"}]
           /\ der \in [Pipes -> {"none", "running", "verified", "failed"}]
           /\ lib \in [Pipes -> SUBSET {"source", "derived", "remote"}]
           /\ impOut \subseteq Pipes /\ derOut \subseteq Pipes
  BY DEF PipelineInv, PipelineTypeOK

LEMMA SameLib ==
    ASSUME PipelineInv, job' = job, remote' = remote, lib' = lib
    PROVE  RemoteIsProven' /\ UploadsMove
  BY SameJobsMove DEF PipelineInv, StoresHold, RemoteIsProven, Attempts

LEMMA EndsKeep ==
    ASSUME PipelineInv, NEW p \in Pipes, ImportEnds(p) \/ DerivationEnds(p)
    PROVE  PipelineInv' /\ RowsKept
<1>1. UNCHANGED <<pipe, job, lib, remote, settings, config, gate, lane, proj, phase>>
  BY DEF ImportEnds, DerivationEnds
<1>2. imp' \in [Pipes -> {"none", "running", "verified", "cancelled"}]
  BY RestTypes DEF ImportEnds, DerivationEnds
<1>3. der' \in [Pipes -> {"none", "running", "verified", "failed"}]
  BY RestTypes DEF ImportEnds, DerivationEnds
<1>4. impOut' \subseteq Pipes /\ derOut' \subseteq Pipes /\ owes' \subseteq Lanes
  BY RestTypes, StoreTypes DEF ImportEnds, DerivationEnds, Lanes
<1>5. RemoteIsProven' /\ LaneHolds' /\ ProjHolds'
  BY <1>1, SameLib, LaneStays, ProjStays
<1> QED BY <1>1, <1>2, <1>3, <1>4, <1>5, RestStep, RestTypes, StoreTypes

LEMMA SaveSettingsKeeps ==
    ASSUME PipelineInv, SaveSettings
    PROVE  PipelineInv' /\ RowsKept
<1>1. UNCHANGED <<pipe, imp, der, impOut, derOut, job, lib, remote, config, gate, lane, proj, owes, phase>>
      /\ settings' \in Identities
  BY DEF SaveSettings, media, memory
<1>2. RemoteIsProven' /\ LaneHolds' /\ ProjHolds'
  BY <1>1, SameLib, LaneStays, ProjStays
<1> QED BY <1>1, <1>2, RestStep, RestTypes, StoreTypes

LEMMA TakeUploadKeeps ==
    ASSUME PipelineInv, TakeUpload
    PROVE  PipelineInv' /\ RowsKept
<1>1. UNCHANGED <<pipe, imp, der, impOut, derOut, job, lib, remote, settings, config, gate, proj, phase>>
  BY DEF TakeUpload, media
<1>2. lane' \in LaneRecords /\ LaneHolds' /\ owes' \subseteq Lanes
  <2>1. CASE Head(queue) \in AttachedUploads
    <3>1. PICK p \in Started : Head(queue) = pipe[p].up /\ pipe[p].up # NoJob
      BY <2>1 DEF AttachedUploads
    <3>2. p \in Pipes /\ p # 0 /\ pipe[p].up \in Jobs
      BY <3>1, PipeFacts DEF Started, PipelineInv
    <3>3. Made(Head(queue)) /\ Head(queue) \in Jobs
      BY <3>1, <3>2 DEF PipelineInv, StoresHold, RowsOwn, Made
    <3>4. lane' = [pc |-> "start", j |-> Head(queue)] /\ owes' = owes
      BY <2>1 DEF TakeUpload
    <3>5. lane' \in LaneRecords /\ lane'.j = Head(queue)
      BY <3>3, <3>4 DEF LaneRecords
    <3> QED BY <1>1, <3>3, <3>4, <3>5, StoreTypes DEF LaneHolds, Made
  <2>2. CASE Head(queue) \notin AttachedUploads
    BY <2>2, EndTurnHolds DEF TakeUpload
  <2> QED BY <2>1, <2>2
<1>3. RemoteIsProven' /\ ProjHolds'
  BY <1>1, SameLib, ProjStays
<1> QED BY <1>1, <1>2, <1>3, RestStep, RestTypes, StoreTypes

LEMMA TakeFailsKeeps ==
    ASSUME PipelineInv, TakeFails
    PROVE  PipelineInv' /\ RowsKept
<1>1. UNCHANGED <<pipe, imp, der, impOut, derOut, job, lib, remote, settings, config, gate, proj, phase>> /\ EndTurn
  BY DEF TakeFails, media
<1>2. lane' \in LaneRecords /\ LaneHolds' /\ owes' \subseteq Lanes
  BY <1>1, EndTurnHolds
<1>3. RemoteIsProven' /\ ProjHolds'
  BY <1>1, SameLib, ProjStays
<1> QED BY <1>1, <1>2, <1>3, RestStep, RestTypes, StoreTypes

LEMMA ProjBeginKeeps ==
    ASSUME PipelineInv, ProjBegin
    PROVE  PipelineInv' /\ RowsKept
<1>1. UNCHANGED <<pipe, imp, der, impOut, derOut, job, lib, remote, settings, config, gate, lane, owes, phase>>
      /\ proj' = [stage |-> "import", list |-> impOut, cur |-> {}]
  BY DEF ProjBegin, media
<1>2. proj' \in ProjRecords /\ ProjHolds'
  BY <1>1, RestTypes DEF ProjRecords, ProjHolds
<1>3. RemoteIsProven' /\ LaneHolds'
  BY <1>1, SameLib, LaneStays
<1> QED BY <1>1, <1>2, <1>3, RestStep, RestTypes, StoreTypes

LEMMA ProjRefusedKeeps ==
    ASSUME PipelineInv, NEW x, ProjRefused(x)
    PROVE  PipelineInv' /\ RowsKept
<1>1. UNCHANGED <<pipe, imp, der, impOut, derOut, job, lib, remote, settings, config, gate, lane, owes>>
      /\ proj' = IdleProj /\ phase' \in Phases
  BY StoreTypes DEF ProjRefused, media, DrainFails, Phases
<1>2. proj' \in ProjRecords /\ ProjHolds'
  BY <1>1, Blanks DEF ProjHolds
<1>3. RemoteIsProven' /\ LaneHolds'
  BY <1>1, SameLib, LaneStays
<1> QED BY <1>1, <1>2, <1>3, RestStep, RestTypes, StoreTypes

LEMMA ProjDefersKeeps ==
    ASSUME PipelineInv, NEW x, ProjDefers(x)
    PROVE  PipelineInv' /\ RowsKept
<1>1. UNCHANGED <<pipe, imp, der, impOut, derOut, job, lib, remote, settings, config, gate, lane, owes, phase>>
      /\ proj' = [proj EXCEPT !.list = @ \ {x}]
  BY DEF ProjDefers, media
<1>2. proj' \in ProjRecords /\ proj'.stage = proj.stage /\ proj'.list = proj.list \ {x} /\ proj'.cur = proj.cur
  BY <1>1, StoreTypes DEF ProjRecords
<1>3. ProjHolds'
  BY <1>1, <1>2 DEF ProjHolds, PipelineInv, Made
<1>4. RemoteIsProven' /\ LaneHolds'
  BY <1>1, SameLib, LaneStays
<1> QED BY <1>1, <1>2, <1>3, <1>4, RestStep, RestTypes, StoreTypes

LEMMA ProjNextKeeps ==
    ASSUME PipelineInv, ProjNext
    PROVE  PipelineInv' /\ RowsKept
<1>1. UNCHANGED <<pipe, imp, der, impOut, derOut, job, lib, remote, settings, config, gate, lane, owes>>
      /\ phase' \in Phases /\ proj.cur = {}
  BY StoreTypes DEF ProjNext, media, Phases
<1>2. proj' \in ProjRecords /\ ProjHolds'
  <2>0. proj \in ProjRecords
    BY StoreTypes
  <2>1. CASE proj.stage = "import"
    <3>1. proj' = [proj EXCEPT !.stage = "derive", !.list = derOut]
      BY <2>1 DEF ProjNext
    <3>2. proj' \in ProjRecords /\ proj'.stage = "derive" /\ proj'.list = derOut /\ proj'.cur = {}
      BY <1>1, <2>0, <3>1, RestTypes DEF ProjRecords
    <3> QED BY <3>2, RestTypes DEF ProjHolds
  <2>2. CASE proj.stage = "derive"
    <3> DEFINE l == {j \in Jobs : Unacked(j)}
    <3>1. proj' = [proj EXCEPT !.stage = "upload", !.list = l]
      BY <2>2 DEF ProjNext
    <3>2. l \subseteq Jobs /\ \A x \in l : Made(x)
      BY DEF Unacked, Made
    <3> HIDE DEF l
    <3>3. proj' \in ProjRecords /\ proj'.stage = "upload" /\ proj'.list = l /\ proj'.cur = {}
      BY <1>1, <2>0, <3>1, <3>2 DEF ProjRecords
    <3> QED BY <1>1, <3>2, <3>3 DEF ProjHolds, Made
  <2>3. CASE proj.stage \notin {"import", "derive"}
    <3>1. proj' = IdleProj
      BY <2>3 DEF ProjNext
    <3> QED BY <3>1, Blanks DEF ProjHolds
  <2> QED BY <2>1, <2>2, <2>3
<1>3. RemoteIsProven' /\ LaneHolds'
  BY <1>1, SameLib, LaneStays
<1> QED BY <1>1, <1>2, <1>3, RestStep, RestTypes, StoreTypes

LEMMA ProjApplyKeeps ==
    ASSUME PipelineInv, NEW x, ProjApply(x)
    PROVE  PipelineInv' /\ RowsKept
<1>1. UNCHANGED <<pipe, imp, der, impOut, derOut, job, remote, settings, config, gate, lane, owes, phase>>
      /\ x \in proj.list /\ proj' = [proj EXCEPT !.list = @ \ {x}, !.cur = {x}]
  BY DEF ProjApply, media
<1>2. proj \in ProjRecords /\ x \in Pipes \cup Jobs
  BY <1>1, StoreTypes DEF ProjRecords
<1>3. proj' \in ProjRecords /\ proj'.stage = proj.stage /\ proj'.list \cup proj'.cur \subseteq proj.list
  BY <1>1, <1>2 DEF ProjRecords
<1>4. proj.stage # "idle"
  BY <1>1 DEF PipelineInv, ProjHolds
<1>5. ProjHolds'
  BY <1>1, <1>3, <1>4 DEF PipelineInv, ProjHolds, Made
<1>6. Subject(x) \in Pipes
  <2>1. CASE proj.stage = "upload"
    BY <1>1, <2>1, PipeFacts DEF PipelineInv, ProjHolds, Subject
  <2>2. CASE proj.stage # "upload"
    <3>1. proj.stage \in {"import", "derive"}
      BY <1>2, <1>4, <2>2 DEF ProjRecords
    <3> QED BY <1>1, <2>2, <3>1 DEF PipelineInv, ProjHolds, Subject
  <2> QED BY <2>1, <2>2
<1>7. Shown \in {"source", "derived", "remote"} /\ (Shown = "remote" => proj.stage = "upload")
  BY <1>2, <1>4 DEF Shown, ProjRecords
<1>8. lib' = lib \/ (ToProject(x) /\ HasEntry(x) /\ lib' = [lib EXCEPT ![Subject(x)] = @ \cup {Shown}])
  BY DEF ProjApply
<1>9. lib' \in [Pipes -> SUBSET {"source", "derived", "remote"}]
  BY <1>6, <1>7, <1>8, RestTypes
<1>10. RemoteIsProven'
  <2>1. CASE lib' = lib
    BY <1>1, <2>1, SameLib
  <2>2. CASE ToProject(x) /\ HasEntry(x) /\ lib' = [lib EXCEPT ![Subject(x)] = @ \cup {Shown}]
    <3> SUFFICES ASSUME NEW p \in Pipes, "remote" \in lib'[p]
                 PROVE  /\ "source" \in lib'[p] /\ remote[p] = 1..NumObjects
                        /\ \E j \in Jobs : job[j].p = p /\ job[j].state = "succeeded" /\ job[j].ck = NumObjects
      BY <1>1 DEF RemoteIsProven, Attempts
    <3>1. lib'[p] = lib[p] \/ (p = Subject(x) /\ lib'[p] = lib[p] \cup {Shown})
      BY <2>2, RestTypes
    <3>2. CASE "remote" \in lib[p]
      BY <3>1, <3>2 DEF PipelineInv, StoresHold, RemoteIsProven, Attempts
    <3>3. CASE "remote" \notin lib[p]
      <4>1. p = Subject(x) /\ Shown = "remote" /\ lib'[p] = lib[p] \cup {Shown} /\ proj.stage = "upload"
        BY <1>7, <3>1, <3>3
      <4>2. Made(x) /\ job[x].p = p /\ job[x].state = "succeeded" /\ "source" \in lib[p]
        BY <1>1, <2>2, <4>1 DEF PipelineInv, ProjHolds, Subject, ToProject, HasEntry
      <4>3. x \in Jobs /\ job[x].ck = NumObjects /\ 1..NumObjects \subseteq remote[p]
        BY <4>2 DEF PipelineInv, StoresHold, Verified, Made
      <4>4. remote[p] \subseteq 1..NumObjects
        BY StoreTypes
      <4> QED BY <4>1, <4>2, <4>3, <4>4
    <3> QED BY <3>2, <3>3
  <2> QED BY <1>8, <2>1, <2>2
<1>11. LaneHolds'
  BY <1>1, LaneStays, SameJobsMove DEF PipelineInv
<1> QED BY <1>1, <1>3, <1>5, <1>9, <1>10, <1>11, RestStep, RestTypes, StoreTypes

LEMMA CrashKeeps ==
    ASSUME PipelineInv, Crash
    PROVE  PipelineInv' /\ RowsKept
<1>1. UNCHANGED <<pipe, imp, der, impOut, derOut, job, lib, remote, settings, config>>
      /\ gate' = NoOp /\ lane' = IdleLane /\ proj' = IdleProj /\ owes' = {} /\ phase' \in Phases
  BY DEF Crash, media, Phases
<1>2. lane' \in LaneRecords /\ LaneHolds' /\ proj' \in ProjRecords /\ ProjHolds' /\ owes' \subseteq Lanes
  BY <1>1, Blanks DEF LaneHolds, ProjHolds
<1>3. RemoteIsProven'
  BY <1>1, SameLib
<1> QED BY <1>1, <1>2, <1>3, RestStep, RestTypes, StoreTypes

LEMMA RecoverKeeps ==
    ASSUME PipelineInv, RecoverUploads
    PROVE  PipelineInv' /\ RowsKept
<1>1. UNCHANGED <<pipe, imp, der, impOut, derOut, job, lib, remote, settings, config, gate, lane, owes, proj>>
      /\ phase' \in Phases
  BY DEF RecoverUploads, media, Phases
<1>2. RemoteIsProven' /\ LaneHolds' /\ ProjHolds'
  BY <1>1, SameLib, LaneStays, ProjStays
<1> QED BY <1>1, <1>2, RestStep, RestTypes, StoreTypes

-----------------------------------------------------------------------------
(* The specification.                                                      *)

LEMMA PipelineStart ==
    ASSUME PipelineInit
    PROVE  PipelineInv
<1>1. Saved \in Identities
  BY PipelineAssumption DEF Saved
<1>2. pipe \in [Pipes -> Rows] /\ \A p \in Pipes : pipe[p].up = NoJob
  BY Blanks DEF PipelineInit
<1>3. job \in [Jobs -> Uploads] /\ \A j \in Jobs : job[j].p = 0 /\ job[j].state = "queued" /\ job[j].ck = 0
  BY Blanks DEF PipelineInit
<1>4. PipelineTypeOK
  <2>1. \A j \in Jobs : job[j].p \in 0..NumPipes /\ job[j].ck \in 0..NumObjects
                         /\ job[j].state \in Ended \cup {"queued", "preparing"}
    BY <1>3, PipelineAssumption
  <2> QED BY <1>1, <1>2, <2>1 DEF PipelineInit, PipelineTypeOK, Phases
<1>5. PipelineRecords
  BY <1>3, Blanks DEF PipelineInit, PipelineRecords
<1>6. RowsOwn /\ Lineage /\ Verified /\ OneLiveAttempt
  BY <1>2, <1>3 DEF RowsOwn, Lineage, Verified, OneLiveAttempt, Made, Live
<1>7. ManifestIsLast /\ RemoteIsProven
  BY DEF PipelineInit, ManifestIsLast, RemoteIsProven
<1>8. GateHolds /\ LaneHolds /\ ProjHolds
  BY Blanks DEF PipelineInit, GateHolds, LaneHolds, ProjHolds
<1> QED BY <1>4, <1>5, <1>6, <1>7, <1>8 DEF PipelineInv, StoresHold

LEMMA PipelineStutters ==
    ASSUME PipelineInv, UNCHANGED pipelineVars
    PROVE  PipelineInv' /\ RowsKept
<1>1. UNCHANGED <<pipe, imp, der, impOut, derOut, job, lib, remote, settings, config, gate, lane, owes, proj, phase>>
  BY DEF pipelineVars
<1>2. RemoteIsProven' /\ LaneHolds' /\ ProjHolds'
  BY <1>1, SameLib, LaneStays, ProjStays
<1> QED BY <1>1, <1>2, RestStep, RestTypes, StoreTypes

LEMMA PipelineKeeps ==
    ASSUME PipelineInv, [PipelineNext]_pipelineVars
    PROVE  PipelineInv' /\ RowsKept
<1>1. CASE GateStep
  BY <1>1, ReconcileKeeps, EnsureDerivationKeeps, AttachDerivationKeeps, ActionKeeps, PrepareUploadKeeps,
     AttachUploadKeeps, RefreshKeeps, AttachRetryKeeps DEF GateStep
<1>2. CASE GateTrouble
  BY <1>2, ReconcileKeeps DEF GateTrouble
<1>3. CASE UserAsks
  BY <1>3, StartPipelineKeeps, StartAgainKeeps, CommandKeeps, ApproveKeeps, RetryUploadKeeps, CancelKeeps,
     SaveSettingsKeeps DEF UserAsks
<1>4. CASE \E p \in Pipes : ImportEnds(p) \/ DerivationEnds(p)
  BY <1>4, EndsKeep
<1>5. CASE Reconciles
  BY <1>5, ReconcilesKeeps
<1>6. CASE UploadStep
  BY <1>6, TakeUploadKeeps, StartTransferKeeps, TurnEndsKeeps, SendObjectKeeps DEF UploadStep
<1>7. CASE UploadTrouble
  BY <1>7, TakeFailsKeeps, SendFailsKeeps DEF UploadTrouble
<1>8. CASE ProjStep \/ ProjTrouble
  BY <1>8, ProjBeginKeeps, ProjAckKeeps, ProjNextKeeps, ProjApplyKeeps, ProjRefusedKeeps,
     ProjDefersKeeps DEF ProjStep, ProjTrouble
<1>9. CASE \E j \in Jobs : LanDeliver(j)
  BY <1>9, CancelKeeps
<1>10. CASE Crash \/ Boot \/ RecoverUploads
  BY <1>10, CrashKeeps, BootKeeps, RecoverKeeps
<1>11. CASE UNCHANGED pipelineVars
  BY <1>11, PipelineStutters
<1> QED BY <1>1, <1>2, <1>3, <1>4, <1>5, <1>6, <1>7, <1>8, <1>9, <1>10, <1>11 DEF PipelineNext

(* The operations under the gate, the lanes, the projector and the start   *)
(* keep PipelineInv, crashes between any two commits included: what a row  *)
(* of the one store names is what the other store holds, and the copy that *)
(* an operation read before it committed is still the row or is outdated   *)
(* by its version.                                                         *)
THEOREM PipelineInvariant == PipelineSpec => []PipelineInv
<1>1. PipelineInit => PipelineInv
  BY PipelineStart
<1>2. PipelineInv /\ [PipelineNext]_pipelineVars => PipelineInv'
  BY PipelineKeeps
<1> QED BY <1>1, <1>2, PTL DEF PipelineSpec

(* The rows of the stores, the library, the bucket and the phases have     *)
(* their types.                                                            *)
THEOREM PipelineTypes == PipelineSpec => []PipelineTypeOK
<1>1. PipelineInv => PipelineTypeOK
  BY DEF PipelineInv
<1> QED BY <1>1, PipelineInvariant, PTL

(* One live attempt for a bundle at a storage, however often the user      *)
(* starts the pipeline again or retries (prepare_for_derivation and        *)
(* prepare_retry give the active attempt of the natural key).              *)
THEOREM OneLive == PipelineSpec => []OneLiveAttempt
<1>1. PipelineInv => OneLiveAttempt
  BY DEF PipelineInv, StoresHold
<1> QED BY <1>1, PipelineInvariant, PTL

(* The bucket holds the manifest of a bundle only with all its objects.    *)
THEOREM ManifestComesLast == PipelineSpec => []ManifestIsLast
<1>1. PipelineInv => ManifestIsLast
  BY DEF PipelineInv, StoresHold
<1> QED BY <1>1, PipelineInvariant, PTL

(* The library shows a recording as remote only if an attempt of its       *)
(* pipeline verified all objects of the bundle and succeeded.              *)
THEOREM RemoteProven == PipelineSpec => []RemoteIsProven
<1>1. PipelineInv => RemoteIsProven
  BY DEF PipelineInv, StoresHold
<1> QED BY <1>1, PipelineInvariant, PTL

(* No step takes a derivation, an approval or an upload from a pipeline    *)
(* again, except to exchange a failed upload for its retry: the refresh of *)
(* a start and the attachments replace a row only in the version they read.*)
THEOREM KeepsAttachments == PipelineSpec => AttachmentsKept
<1>1. PipelineInv /\ [PipelineNext]_pipelineVars
      => [\A p \in Started :
            /\ pipe[p].der => pipe'[p].der
            /\ pipe[p].admitted => pipe'[p].admitted
            /\ pipe'[p].up = pipe[p].up \/ pipe[p].up = NoJob
                 \/ (job[pipe[p].up].state = "failed" /\ job[pipe[p].up].retryable
                     /\ pipe'[p].up # NoJob)]_pipelineVars
  BY PipelineKeeps DEF RowsKept, Kept
<1> QED BY <1>1, PipelineInvariant, PTL DEF PipelineSpec, AttachmentsKept
=============================================================================
