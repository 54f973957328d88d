--------------------------- MODULE SessionDownload ---------------------------
(***************************************************************************)
(* How the files of one session reach the library: the resumable download  *)
(* of each file into a staging directory of its publication revision, the  *)
(* seal of that directory, and its publication, as the whole session or as *)
(* selected files.  The target lease of the coordinator lets one job work  *)
(* on a session at a time, so there is one job; what interleaves with it   *)
(* is the device, which may publish another revision, and crashes, which   *)
(* fall between any two steps.                                             *)
(*                                                                         *)
(*   part, journal, tmp   <target>.part, its journal and the temporary     *)
(*                        file the journal is rewritten through            *)
(*   copy                 <target>: the finished files of the staging area *)
(*   seal, chosen         .ylx-revision and .ylx-selected of the staging   *)
(*                        area                                             *)
(*   visible              the session directory of the library: its files, *)
(*                        .ylx-revision (rev) and .ylx-selected (sel)      *)
(*   superseded           .superseded/<revision>: the directory moved away *)
(*   trash                .selected-trash/<revision>/file-<index>          *)
(*   serving              the revision the device serves; its ETag         *)
(*   job                  the job at work                                  *)
(*   shown, scar          history: the files the library has ever shown,   *)
(*                        and the holes left by a crash or by an error     *)
(*                        after which nothing was put back                 *)
(*                                                                         *)
(* A file is a sequence of blocks, each named by the revision its bytes    *)
(* belong to; a digest tells two sequences apart and nothing else.         *)
(***************************************************************************)
EXTENDS Naturals, Sequences, FiniteSets, Functions

CONSTANTS
    Files, Revisions,
    None,        \* no file, no marker, no revision
    Size,        \* blocks of a file
    Interval,    \* JOURNAL_CHECKPOINT_INTERVAL in blocks
    Requests,    \* the requests that may be enqueued: revision, list of files, scope
    MaxTrouble   \* bound of all crashes, failures, stops and republications

VARIABLES part, journal, tmp, copy, seal, chosen, visible, superseded, trash,
          serving, job, shown, scar, trouble

disk == <<part, journal, tmp, copy, seal, chosen>>
tree == <<visible, superseded, trash>>
vars == <<part, journal, tmp, copy, seal, chosen, visible, superseded, trash,
          serving, job, shown, scar, trouble>>

Whole(r) == [i \in 1..Size |-> r]
Contents == UNION {[1..n -> Revisions] : n \in 0..Size}
Journals == [off : 0..Size, etag : Revisions]
Selections == [rev : Revisions, files : SUBSET Files]
Trees == [file : [Files -> Contents \cup {None}], rev : Revisions \cup {None},
          sel : Selections \cup {None}]
Steps == {"file", "recover", "ask", "body", "journal", "rename", "discard", "forget", "check",
          "clean", "seal", "publish", "install", "tidy", "pick", "swap", "drop", "mark",
          "failed", "refused", "done"}
Jobs == [req : Requests, pc : Steps, i : Nat \ {0}, off : 0..Size, body : Revisions \cup {None},
         since : Nat, unsynced : Nat, pend : Journals \cup {None},
         next : {"file", "ask", "body", "check", "failed"}, already : BOOLEAN]

ASSUME DownloadAssumption ==
    /\ Size \in Nat \ {0} /\ Interval \in Nat \ {0} /\ MaxTrouble \in Nat
    /\ IsFiniteSet(Files)
    /\ None \notin Revisions \cup Contents \cup Journals \cup Trees \cup Jobs
    /\ \A S \in SUBSET Files : S # None
    /\ \A q \in Requests : /\ q.rev \in Revisions /\ q.scope \in {"whole", "selected"}
                           /\ q.files \in Seq(Files)
                           /\ IsInjective(q.files)
                           /\ q.scope = "whole" => Range(q.files) = Files

EmptyTree == [file |-> [f \in Files |-> None], rev |-> None, sel |-> None]

\* A job that has just been taken from the queue.
Fresh(q) == [req |-> q, pc |-> "file", i |-> 1, off |-> 0, body |-> None, since |-> 0,
             unsynced |-> 0, pend |-> None, next |-> "file", already |-> FALSE]

r == job.req.rev
f == job.req.files[job.i]
Len0(s) == IF s = None THEN 0 ELSE Len(s)
Offset(j) == IF j = None THEN 0 ELSE j.off
Lesser(a, b) == IF a < b THEN a ELSE b

At(pc) == job # None /\ job.pc = pc
Goto(pc) == job' = [job EXCEPT !.pc = pc]
Spend == trouble < MaxTrouble /\ trouble' = trouble + 1

DownloadInit ==
    /\ part = [v \in Revisions |-> [g \in Files |-> None]]
    /\ journal = [v \in Revisions |-> [g \in Files |-> None]]
    /\ tmp = [v \in Revisions |-> {}]
    /\ copy = [v \in Revisions |-> [g \in Files |-> None]]
    /\ seal = [v \in Revisions |-> FALSE]
    /\ chosen = [v \in Revisions |-> None]
    /\ visible = None
    /\ superseded = [v \in Revisions |-> None]
    /\ trash = [v \in Revisions |-> [i \in 1..Cardinality(Files) |-> None]]
    /\ serving \in Revisions
    /\ job = None /\ shown = {} /\ scar = {} /\ trouble = 0

-----------------------------------------------------------------------------
(* The file loop of run_transfer and download_file.                        *)

\* The worker takes a job whose session no other job holds.
StartJob(q) ==
    /\ job = None
    /\ job' = Fresh(q)
    /\ UNCHANGED <<disk, tree, serving, shown, scar, trouble>>

\* Mutant: the length stands for the content.
LengthOf(content) == IF content = None THEN 0 ELSE Len(content)

\* sha256_of_file, with the length: equal for equal contents only.
sha256_of_file(content) == content

\* committed_verdict: a finished file is what the signed manifest says.
Verified(content, v) == sha256_of_file(content) = sha256_of_file(Whole(v))

\* What download_file finds of a file: reuse it, or remove what is wrong and
\* go on with the part file.
InspectFile ==
    /\ At("file") /\ job.i <= Len(job.req.files)
    /\ IF Verified(copy[r][f], r)
       THEN /\ part' = [part EXCEPT ![r][f] = None]
            /\ journal' = [journal EXCEPT ![r][f] = None]
            /\ job' = [job EXCEPT !.i = @ + 1]
            /\ UNCHANGED copy
       ELSE /\ copy' = [copy EXCEPT ![r][f] = None]
            /\ Goto("recover")
            /\ UNCHANGED <<part, journal>>
    /\ UNCHANGED <<tmp, seal, chosen, tree, serving, shown, scar, trouble>>

\* Every file of the request is there.
EndOfFiles ==
    /\ At("file") /\ job.i > Len(job.req.files)
    /\ job' = [job EXCEPT !.pc = "seal", !.i = 1]
    /\ UNCHANGED <<disk, tree, serving, shown, scar, trouble>>

\* Mutant: the part file is trusted beyond what the journal confirms.
TrustedWhole(len, claimed) == len

\* recover_resume_offset: the shorter of what is there and what is confirmed.
recover_resume_offset(len, claimed) == Lesser(len, claimed)

\* The part file is cut back to the offset, the journal too when it claims more.
RecoverOffset ==
    /\ At("recover")
    /\ LET rec == journal[r][f]
           safe == recover_resume_offset(Len0(part[r][f]), Offset(rec))
       IN /\ part' = IF part[r][f] = None THEN part
                     ELSE [part EXCEPT ![r][f] = SubSeq(@, 1, safe)]
          /\ job' = IF Offset(rec) > safe
                    THEN [job EXCEPT !.off = safe, !.pc = "journal", !.next = "ask",
                                     !.pend = [rec EXCEPT !.off = safe]]
                    ELSE [job EXCEPT !.off = safe, !.pc = "ask"]
    /\ UNCHANGED <<journal, tmp, copy, seal, chosen, tree, serving, shown, scar, trouble>>

\* expected_etag_for_resume: a request from the start is unconditional.
expected_etag_for_resume(off, rec) == IF off = 0 \/ rec = None THEN None ELSE rec.etag

\* The answer to a request, as interpret_range_response reads it.  From offset
\* 0 no range is asked for and the whole object comes (200).  After that the
\* request names the ETag: the device answers 412, or a 206 that carries
\* another ETag, when it serves another revision, and 416 when there is
\* nothing left to send.
interpret_range_response(off, etag) ==
    CASE off = 0 -> "full"
      [] off > 0 /\ etag \notin {None, serving} -> "changed"
      [] off > 0 /\ etag \in {None, serving} /\ off < Size -> "partial"
      [] OTHER -> "complete"

\* fetch_range: a changed object restarts the file from the beginning, once:
\* the second request is unconditional.
Ask ==
    /\ At("ask")
    /\ LET answer == interpret_range_response(job.off,
                       expected_etag_for_resume(job.off, journal[r][f])) IN
       job' = CASE answer = "full" ->
                     [job EXCEPT !.pc = "discard", !.next = "body", !.body = serving, !.since = 0]
                [] answer = "changed" -> [job EXCEPT !.pc = "discard", !.next = "ask", !.off = 0]
                [] answer = "partial" ->
                     [job EXCEPT !.pc = "body", !.body = serving, !.since = 0]
                [] answer = "complete" -> [job EXCEPT !.pc = "check"]
    /\ UNCHANGED <<disk, tree, serving, shown, scar, trouble>>

\* discard_partial: the part file first, then the journal.
DiscardPart ==
    /\ At("discard")
    /\ part' = [part EXCEPT ![r][f] = None]
    /\ Goto("forget")
    /\ UNCHANGED <<journal, tmp, copy, seal, chosen, tree, serving, shown, scar, trouble>>

DiscardJournal ==
    /\ At("forget")
    /\ journal' = [journal EXCEPT ![r][f] = None]
    /\ part' = IF job.next = "body" THEN [part EXCEPT ![r][f] = <<>>] ELSE part
    /\ Goto(job.next)
    /\ UNCHANGED <<tmp, copy, seal, chosen, tree, serving, shown, scar, trouble>>

\* A body ends at the length that was announced.
MoreToRead(len) == len < Size

\* One read of write_response_body is appended.  When enough has come since
\* the last checkpoint the file is flushed and the journal written.
ReceiveBlock ==
    /\ At("body") /\ MoreToRead(Len(part[r][f]))
    /\ part' = [part EXCEPT ![r][f] = Append(@, job.body)]
    /\ job' = IF job.since + 1 >= Interval
              THEN [job EXCEPT !.since = 0, !.unsynced = 0, !.pc = "journal", !.next = "body",
                               !.pend = [off |-> Len(part[r][f]) + 1, etag |-> job.body]]
              ELSE [job EXCEPT !.since = @ + 1, !.unsynced = @ + 1]
    /\ UNCHANGED <<journal, tmp, copy, seal, chosen, tree, serving, shown, scar, trouble>>

\* The body has the length that was announced: flush and checkpoint.
EndOfBody ==
    /\ At("body") /\ Len(part[r][f]) = Size
    /\ job' = [job EXCEPT !.since = 0, !.unsynced = 0, !.pc = "journal", !.next = "check",
                          !.pend = [off |-> Size, etag |-> job.body]]
    /\ UNCHANGED <<disk, tree, serving, shown, scar, trouble>>

\* DownloadJournal::advance: no checkpoint beyond the file, none that moves
\* back, none that changes the ETag of the one before.
AdvanceRefused(rec, prop, len) ==
    \/ prop.off > len
    \/ rec # None /\ (prop.off < rec.off \/ prop.etag # rec.etag)

\* write_file_durably of the journal: the temporary file ...
WriteJournal ==
    /\ At("journal")
    /\ IF job.next # "ask" /\ AdvanceRefused(journal[r][f], job.pend, Len0(part[r][f]))
       THEN Goto("failed") /\ UNCHANGED tmp
       ELSE Goto("rename") /\ tmp' = [tmp EXCEPT ![r] = @ \cup {f}]
    /\ UNCHANGED <<part, journal, copy, seal, chosen, tree, serving, shown, scar, trouble>>

\* ... and its rename over the journal.
RenameJournal ==
    /\ At("rename")
    /\ tmp' = [tmp EXCEPT ![r] = @ \ {f}]
    /\ journal' = [journal EXCEPT ![r][f] = job.pend]
    /\ job' = [job EXCEPT !.pc = job.next, !.pend = None]
    /\ UNCHANGED <<part, copy, seal, chosen, tree, serving, shown, scar, trouble>>

\* A part file that matches becomes the finished file, another is discarded.
CheckPart ==
    /\ At("check")
    /\ IF Verified(part[r][f], r)
       THEN /\ copy' = [copy EXCEPT ![r][f] = part[r][f]]
            /\ part' = [part EXCEPT ![r][f] = None]
            /\ Goto("clean")
       ELSE /\ job' = [job EXCEPT !.pc = "discard", !.next = "failed"]
            /\ UNCHANGED <<copy, part>>
    /\ UNCHANGED <<journal, tmp, seal, chosen, tree, serving, shown, scar, trouble>>

CleanJournal ==
    /\ At("clean")
    /\ journal' = [journal EXCEPT ![r][f] = None]
    /\ job' = [job EXCEPT !.pc = "file", !.i = @ + 1, !.body = None, !.off = 0]
    /\ UNCHANGED <<part, tmp, copy, seal, chosen, tree, serving, shown, scar, trouble>>

-----------------------------------------------------------------------------
(* commit_staged_session: seal, then publish.                              *)

\* verify_manifest: every file of the manifest is verified, and nothing else
\* lies in the staging directory.
Strays == {g \in Files : part[r][g] # None \/ journal[r][g] # None \/ g \in tmp[r]}
            \cup {g \in Files \ Range(job.req.files) : copy[r][g] # None}

verify_manifest ==
    /\ \A g \in Range(job.req.files) : Verified(copy[r][g], r)
    /\ Strays = {}

is_published == visible # None /\ visible.rev = r

SelectedIsComplete ==
    /\ visible # None
    /\ visible.sel = [rev |-> r, files |-> Range(job.req.files)]
    /\ \A g \in Range(job.req.files) : Verified(visible.file[g], r)

\* The markers of the staging area; a refusal is not retried.
Seal ==
    /\ At("seal")
    /\ LET whole == job.req.scope = "whole"
           there == IF whole THEN is_published ELSE SelectedIsComplete
       IN CASE there -> Goto("publish") /\ UNCHANGED <<seal, chosen>>
            [] ~there /\ ~verify_manifest -> Goto("refused") /\ UNCHANGED <<seal, chosen>>
            [] OTHER ->
                 /\ Goto("publish")
                 /\ seal' = IF whole THEN [seal EXCEPT ![r] = TRUE] ELSE seal
                 /\ chosen' = IF whole THEN chosen
                              ELSE [chosen EXCEPT ![r] = Range(job.req.files)]
    /\ UNCHANGED <<part, journal, tmp, copy, tree, serving, shown, scar, trouble>>

\* The staging directory of the revision is gone.
StagingCleared ==
    /\ part' = [part EXCEPT ![r] = [g \in Files |-> None]]
    /\ journal' = [journal EXCEPT ![r] = [g \in Files |-> None]]
    /\ tmp' = [tmp EXCEPT ![r] = {}]
    /\ copy' = [copy EXCEPT ![r] = [g \in Files |-> None]]
    /\ seal' = [seal EXCEPT ![r] = FALSE]
    /\ chosen' = [chosen EXCEPT ![r] = None]

\* SealedRevision::publish, up to the rename: an earlier tree is moved aside.
PublishWhole ==
    /\ At("publish") /\ job.req.scope = "whole"
    /\ IF is_published
       THEN /\ job' = [job EXCEPT !.pc = "tidy", !.already = TRUE]
            /\ UNCHANGED <<visible, superseded>>
       ELSE /\ seal[r]
            /\ superseded' = IF visible = None THEN superseded
                             ELSE [superseded EXCEPT ![r] = visible]
            /\ visible' = None
            /\ Goto("install")
    /\ UNCHANGED <<disk, trash, serving, shown, scar, trouble>>

\* The rename of the sealed directory onto the session path.
InstallTree ==
    /\ At("install")
    /\ visible' = [file |-> copy[r], rev |-> r,
                   sel |-> IF chosen[r] = None THEN None ELSE [rev |-> r, files |-> chosen[r]]]
    /\ StagingCleared
    /\ Goto("tidy")
    /\ shown' = shown \cup Files /\ scar' = {}
    /\ UNCHANGED <<superseded, trash, serving, trouble>>

\* Mutant: an error return without the rollback.
LeftAside ==
    /\ visible' = visible
    /\ superseded' = superseded

\* The rollback: the tree that was moved aside is put back.
PutBack ==
    /\ visible' = superseded[r]
    /\ superseded' = [superseded EXCEPT ![r] = None]

\* The files the library has shown and does not show.
Holes == {g \in shown : visible = None \/ visible.file[g] = None}

\* The rename fails.
InstallFails ==
    /\ At("install") /\ Spend
    /\ PutBack
    /\ Goto("failed")
    /\ UNCHANGED <<disk, trash, serving, shown, scar>>

\* cleanup_staging_skeleton, once the new tree is in place.
TidyWhole ==
    /\ At("tidy")
    /\ superseded' = [superseded EXCEPT ![r] = None]
    /\ StagingCleared
    /\ Goto("done")
    /\ UNCHANGED <<visible, trash, serving, shown, scar, trouble>>

\* publish_selected: nothing to do, or the files one by one.
PublishSelected ==
    /\ At("publish") /\ job.req.scope = "selected"
    /\ IF SelectedIsComplete
       THEN /\ StagingCleared
            /\ trash' = [trash EXCEPT ![r] = [i \in DOMAIN @ |-> None]]
            /\ job' = [job EXCEPT !.pc = "done", !.already = TRUE]
       ELSE /\ chosen[r] = Range(job.req.files)
            /\ Goto("pick")
            /\ UNCHANGED <<disk, trash>>
    /\ UNCHANGED <<visible, superseded, serving, shown, scar, trouble>>

Tree == IF visible = None THEN EmptyTree ELSE visible

\* publish_selected_file up to the replacement: a verified file is left alone,
\* an interrupted replacement is undone, and the file it replaces is moved to
\* the trash.
PickFile ==
    /\ At("pick") /\ job.i <= Len(job.req.files)
    /\ LET now == IF Tree.file[f] = None THEN trash[r][job.i] ELSE Tree.file[f]
       IN IF Verified(Tree.file[f], r)
          THEN /\ trash' = [trash EXCEPT ![r][job.i] = None]
               /\ job' = [job EXCEPT !.i = @ + 1]
               /\ visible' = Tree
          ELSE /\ trash' = [trash EXCEPT ![r][job.i] = now]
               /\ visible' = [Tree EXCEPT !.file[f] = None]
               /\ Goto("swap")
    /\ UNCHANGED <<disk, superseded, serving, shown, scar, trouble>>

\* The verified temporary copy is renamed into place.
SwapFile ==
    /\ At("swap")
    /\ visible' = [visible EXCEPT !.file[f] = copy[r][f]]
    /\ shown' = shown \cup {f} /\ scar' = scar \ {f}
    /\ Goto("drop")
    /\ UNCHANGED <<disk, superseded, trash, serving, trouble>>

\* Or the rename fails and the old file returns from the trash.
SwapFails ==
    /\ At("swap") /\ Spend
    /\ visible' = [visible EXCEPT !.file[f] = trash[r][job.i]]
    /\ trash' = [trash EXCEPT ![r][job.i] = None]
    /\ Goto("failed")
    /\ UNCHANGED <<disk, superseded, serving, shown, scar>>

\* An error after an old tree or file was moved aside that puts nothing back:
\* the flush of the directory fails, which returns at once, or the rename
\* fails and then the rollback too.
RollbackLost ==
    /\ \/ At("install") /\ superseded[r] # None
       \/ At("swap") /\ trash[r][job.i] # None
    /\ Spend
    /\ scar' = scar \cup Holes
    /\ Goto("failed")
    /\ UNCHANGED <<disk, tree, serving, shown>>

\* publish_selected_file puts back what an interrupted replacement moved away
\* before it copies; then the copy fails.
RestoreOnly ==
    /\ At("pick") /\ job.i <= Len(job.req.files)
    /\ Tree.file[f] = None /\ trash[r][job.i] # None
    /\ Spend
    /\ visible' = [Tree EXCEPT !.file[f] = trash[r][job.i]]
    /\ trash' = [trash EXCEPT ![r][job.i] = None]
    /\ Goto("failed")
    /\ UNCHANGED <<disk, superseded, serving, shown, scar>>

DropTrash ==
    /\ At("drop")
    /\ trash' = [trash EXCEPT ![r][job.i] = None]
    /\ job' = [job EXCEPT !.pc = "pick", !.i = @ + 1]
    /\ UNCHANGED <<disk, visible, superseded, serving, shown, scar, trouble>>

\* The marker of the selection, then the staging area goes.
MarkSelected ==
    /\ At("pick") /\ job.i > Len(job.req.files)
    /\ visible' = [Tree EXCEPT !.sel = [rev |-> r, files |-> Range(job.req.files)]]
    /\ Goto("mark")
    /\ UNCHANGED <<disk, superseded, trash, serving, shown, scar, trouble>>

TidySelected ==
    /\ At("mark")
    /\ StagingCleared
    /\ trash' = [trash EXCEPT ![r] = [i \in DOMAIN @ |-> None]]
    /\ Goto("done")
    /\ UNCHANGED <<visible, superseded, serving, shown, scar, trouble>>

-----------------------------------------------------------------------------
(* The end of a job, and what else happens.                                *)

EndJob ==
    /\ job # None /\ job.pc \in {"done", "failed", "refused"}
    /\ job' = None
    /\ UNCHANGED <<disk, tree, serving, shown, scar, trouble>>

\* The request, the body or the disk fails, or the job is interrupted at the
\* next file or read: what is on disk stays for the next attempt.  So do the
\* flush after a rename into place, the removal of the trash and the marker.
SourceFails ==
    /\ job # None /\ ~job.already /\ Spend
    /\ job.pc \in {"file", "ask", "body", "rename", "tidy", "pick", "drop", "mark"}
    /\ Goto("failed")
    /\ UNCHANGED <<disk, tree, serving, shown, scar>>

\* The device publishes the session anew.
Republish(v) ==
    /\ v # serving /\ Spend
    /\ serving' = v
    /\ UNCHANGED <<disk, tree, job, shown, scar>>

\* The process or the machine stops.  Of the bytes that were not flushed any
\* number may be on disk.
Crash ==
    /\ job # None /\ Spend
    /\ IF job.pc = "body" /\ job.unsynced > 0
       THEN \E n \in (Len(part[r][f]) - job.unsynced)..Len(part[r][f]) :
              part' = [part EXCEPT ![r][f] = SubSeq(@, 1, n)]
       ELSE UNCHANGED part
    /\ job' = None
    /\ scar' = scar \cup Holes
    /\ UNCHANGED <<journal, tmp, copy, seal, chosen, tree, serving, shown>>

Step ==
    \/ InspectFile \/ EndOfFiles \/ RecoverOffset \/ Ask \/ DiscardPart \/ DiscardJournal
    \/ ReceiveBlock \/ EndOfBody \/ WriteJournal \/ RenameJournal \/ CheckPart \/ CleanJournal
    \/ Seal \/ PublishWhole \/ InstallTree \/ TidyWhole
    \/ PublishSelected \/ PickFile \/ SwapFile \/ DropTrash \/ MarkSelected \/ TidySelected
    \/ EndJob

DownloadNext ==
    \/ Step
    \/ \E q \in Requests : StartJob(q)
    \/ InstallFails \/ SwapFails \/ RollbackLost \/ RestoreOnly \/ SourceFails \/ Crash
    \/ \E v \in Revisions : Republish(v)

DownloadSpec == DownloadInit /\ [][DownloadNext]_vars

-----------------------------------------------------------------------------
(* Properties.                                                             *)

DownloadTypeOK ==
    /\ part \in [Revisions -> [Files -> Contents \cup {None}]]
    /\ journal \in [Revisions -> [Files -> Journals \cup {None}]]
    /\ tmp \in [Revisions -> SUBSET Files]
    /\ copy \in [Revisions -> [Files -> Contents \cup {None}]]
    /\ seal \in [Revisions -> BOOLEAN]
    /\ chosen \in [Revisions -> (SUBSET Files) \cup {None}]
    /\ visible \in Trees \cup {None}
    /\ superseded \in [Revisions -> Trees \cup {None}]
    /\ trash \in [Revisions -> [1..Cardinality(Files) -> Contents \cup {None}]]
    /\ serving \in Revisions /\ shown \subseteq Files /\ trouble \in 0..MaxTrouble
    /\ job # None => job \in Jobs /\ job.i <= Len(job.req.files) + 1

\* What the journal confirms is on disk and is all of the revision its ETag
\* names, after any crash: the bytes a resumed request skips are the right
\* ones (advance, recover_resume_offset, discard_partial).
JournalIsHonest ==
    \A v \in Revisions, g \in Files :
        journal[v][g] # None /\ part[v][g] # None =>
            \A k \in 1..Lesser(journal[v][g].off, Len(part[v][g])) :
                part[v][g][k] = journal[v][g].etag

\* A failed rename leaves no hole: a file the library has shown is missing
\* between jobs only when a crash fell between the two renames of its
\* replacement, or when the flush after the first or the rollback itself
\* failed (SealedRevision::publish, publish_selected_file).
NoNeedlessHole == job = None \/ job.pc \in {"failed", "done"} => Holes \subseteq scar

\* A job that publishes leaves exactly its revision of each of its files.
PublishedIsExact ==
    At("done") /\ ~job.already =>
        \A g \in Range(job.req.files) : visible # None /\ visible.file[g] = Whole(r)

\* An error return of a publication adds no hole to those that were there:
\* "callers never observe a needless hole in the visible library after an
\* ordinary error return".
ErrorLeavesNoHole ==
    [][(At("install") \/ At("swap")) /\ At("failed")' => Holes' \subseteq scar]_vars

\* A crash during assembly is recovered by resuming, then sealing: a session
\* whose every file is verified is never refused by its own left-overs.
SealAccepts == At("refused") => job.req.scope = "selected"

\* A whole session that a job reports as published is there, file by file.
SucceededIsVisible ==
    At("done") => \A g \in Range(job.req.files) : visible # None /\ visible.file[g] = Whole(r)

=============================================================================
