------------------------ MODULE UploadWorkflowProofs ------------------------
(***************************************************************************)
(* Proofs about UploadWorkflow, for any number of jobs, command threads,   *)
(* multiparts, objects, lost answers, crashes and edits: a multipart whose *)
(* row was deleted is not open, and an entry shown as uploaded is backed   *)
(* up.                                                                     *)
(*                                                                         *)
(* Neither is inductive.  UploadInv adds what a thread relies on between   *)
(* its steps: a worker past the completion of a multipart holds one that   *)
(* became an object, one about to retire an aborted multipart holds one    *)
(* that is not open, and one whose multipart has no row yet is alone with  *)
(* it (WorkerOk, TracksApart): else its abort after a refused row could    *)
(* take an object away.  A deliverer lists jobs that have ended and, while *)
(* its snapshot of the library is current, writes an outcome that fits it  *)
(* (DeliveryOk); a command holds a job that exists (ClientOk).  Of the     *)
(* tables it says that only ended jobs have an outcome (OutcomeIsEnd), a   *)
(* receipt names an object (ReceiptsAreObjects), and only multiparts that  *)
(* had a row are swept (TrackedWasOpened).                                 *)
(*                                                                         *)
(* The proof states once what a step may change (Forward) and what is owed *)
(* for what it does change (Accounted); a step with both keeps the         *)
(* invariant.  Then there is one lemma for each action.                    *)
(*                                                                         *)
(* That the object in place holds the bytes of the entry needs a second    *)
(* invariant above the first: ContentInv relates what a key holds to the   *)
(* rows, receipts and threads of the jobs that write it.  A job reads one  *)
(* revision (Content), a receipt was taken when the object read back as    *)
(* those bytes, and a later completion of other bytes is remembered as     *)
(* late (Shown, Backs); the revision a thread carries is no newer than the *)
(* entry's (Fits).                                                         *)
(***************************************************************************)
EXTENDS UploadWorkflow, TLAPS

-----------------------------------------------------------------------------
(* Shapes of the tables and of the threads.                                *)
JobRows == [state : Live \cup Terminal, version : Nat, rev : Nat, digest : Nat \X Nat,
            parent : Jobs \cup {NoJob}, dismissed : BOOLEAN]
PartRows == [job : Jobs, obj : Nat, desired : {"running", "aborting"}, parts : SUBSET {1}]
Entries == [rev : 1..2, status : {"none", "uploading", "done", "failed"},
            marker : Jobs \cup {NoJob}]

\* The places of a command at which it holds a job, and the others.
WithJob == {"retry", "child", "start", "claim", "mark", "undo", "undo_claimed", "unclaim",
            "request", "cancel", "claim_cancelled"}
CommandPlaces == WithJob \cup {"idle", "lease", "create", "release"}
CommandState == [pc : CommandPlaces,
                 job : Jobs \cup {NoJob}, version : Nat, new : BOOLEAN, rev : Nat, conf : Nat,
                 give : Jobs \cup {NoJob}]

\* The places of a worker at which it holds a multipart, and the others.
Made == {"verify", "stage", "retire_row"}
Holding == Made \cup {"track", "check_part", "part", "record", "check_complete", "complete",
                      "mark_aborting", "abort", "retire_aborted"}
WorkerPlaces == Holding \cup {"idle", "check", "initiate", "settle", "retire_op"}
WorkerState == [pc : WorkerPlaces,
                version : Nat, obj : Nat, up : UploadIds \cup {NoUp},
                result : Terminal \cup {"ok"}]
DeliveryState == [pc : {"idle", "list", "apply", "write", "ack"}, todo : SUBSET Jobs,
                  at : Jobs \cup {NoJob}]

Tables ==
    /\ job \in [Jobs -> JobRows \cup {NoRow}]
    /\ outbox \in [Jobs -> {"none", "pending", "acked"}]
    /\ receipts \in [Jobs -> [Objects -> UploadIds \cup {NoUp}]]
    /\ rows \in [UploadIds -> PartRows \cup {NoRow}]
    /\ remote \in [UploadIds -> {"unused", "open", "object", "aborted"}]
    /\ tracked \subseteq UploadIds
    /\ lib \in Entries /\ conf \in Nat
Actors ==
    /\ cl \in [Clients -> CommandState]
    /\ wk \in [Jobs -> WorkerState]
    /\ dv \in [Threads -> DeliveryState]
Shapes == Tables /\ Actors

-----------------------------------------------------------------------------
(* The inductive invariant.                                                *)
ClientOk(c) ==
    /\ cl[c].job # NoJob => IsRow(cl[c].job)
    /\ cl[c].pc \in WithJob => cl[c].job # NoJob

WorkerOk(j) ==
    /\ wk[j].pc \in Holding => wk[j].up \in UploadIds /\ remote[wk[j].up] # "unused"
    /\ wk[j].pc \in Made => remote[wk[j].up] = "object"
    /\ wk[j].pc = "retire_aborted" => remote[wk[j].up] # "open"
    /\ wk[j].pc \in Holding \ {"track"} => wk[j].up \in tracked
    /\ wk[j].pc = "track" => remote[wk[j].up] = "open" /\ wk[j].up \notin tracked

DeliveryOk(t) ==
    /\ \A j \in dv[t].todo : IsTerminal(j)
    /\ dv[t].pc \in {"write", "ack"} => dv[t].at \in Jobs /\ IsTerminal(dv[t].at)
    /\ dv[t].pc = "write" /\ t \in fresh =>
         /\ job[dv[t].at].rev = lib.rev
         /\ job[dv[t].at].state = "succeeded" => HasAllReceipts(dv[t].at)

\* Only a job that has ended has an outcome, and a receipt names an object.
OutcomeIsEnd == \A j \in Jobs : outbox[j] # "none" => IsTerminal(j)
ReceiptsAreObjects ==
    \A j \in Jobs : \A o \in Objects : receipts[j][o] # NoUp => remote[receipts[j][o]] = "object"

\* A multipart that had a row was opened, and only such multiparts are swept.
TrackedWasOpened ==
    /\ \A u \in tracked : remote[u] # "unused"
    /\ \A u \in UploadIds : rows[u] # NoRow => u \in tracked
    /\ sweep \subseteq tracked

\* Multiparts that are to be tracked belong to one worker each.
TracksApart ==
    \A j, k \in Jobs : j # k /\ wk[j].pc = "track" /\ wk[k].pc = "track" => wk[j].up # wk[k].up

\* The job that an entry shown as done names is there.
DoneHasJob == lib.status = "done" => lib.marker \in Jobs

\* An entry shown as done names a job that succeeded for the revision shown
\* and whose receipts are for objects.
DoneHasReceipts ==
    lib.status = "done" =>
        /\ IsRow(lib.marker) /\ job[lib.marker].state = "succeeded"
        /\ job[lib.marker].rev = lib.rev
        /\ \A o \in Objects : /\ receipts[lib.marker][o] # NoUp
                              /\ remote[receipts[lib.marker][o]] = "object"

UploadInv ==
    /\ Shapes
    /\ \A c \in Clients : ClientOk(c)
    /\ \A j \in Jobs : WorkerOk(j)
    /\ \A t \in Threads : DeliveryOk(t)
    /\ OutcomeIsEnd /\ ReceiptsAreObjects /\ TrackedWasOpened /\ TracksApart /\ DoneHasJob
    /\ RetiredMultipartIsGone /\ DoneHasReceipts

-----------------------------------------------------------------------------
(* What a step may change of the tables: rows keep their revision and an   *)
(* ended one its outcome, an object stays, receipts are only added.        *)
JobsForward ==
    \A j \in Jobs : IsRow(j) => /\ IsRow(j)' /\ job'[j].rev = job[j].rev
                                /\ IsTerminal(j) => job'[j].state = job[j].state
RemoteForward ==
    \A u \in UploadIds : /\ remote[u] # "unused" => remote'[u] # "unused"
                         /\ remote[u] = "object" => remote'[u] = "object"
                         /\ remote'[u] = "open" => remote[u] \in {"open", "unused"}
ReceiptsForward ==
    \A j \in Jobs : \A o \in Objects :
        \/ receipts'[j][o] = receipts[j][o]
        \/ receipts'[j][o] # NoUp /\ remote'[receipts'[j][o]] = "object"
Forward == JobsForward /\ RemoteForward /\ ReceiptsForward

(* What is owed for what a step does change.                               *)
ClientsAccounted == \A c \in Clients : cl'[c] = cl[c] \/ ClientOk(c)'
TrackKept(j) ==
    wk[j].pc = "track" => remote'[wk[j].up] = "open" /\ wk[j].up \notin tracked'
WorkersAccounted ==
    /\ \A j \in Jobs : (wk'[j] = wk[j] /\ TrackKept(j)) \/ WorkerOk(j)'
    /\ TracksApart'
DeliveriesAccounted ==
    \A t \in Threads :
        \/ dv'[t] = dv[t] /\ (t \in fresh' => t \in fresh /\ lib'.rev = lib.rev)
        \/ DeliveryOk(t)'
OutcomesAccounted == \A j \in Jobs : outbox'[j] = outbox[j] \/ IsTerminal(j)'
PartsAccounted ==
    /\ \A u \in tracked' :
         /\ u \in tracked \/ remote'[u] # "unused"
         /\ rows'[u] = NoRow => (u \in tracked /\ rows[u] = NoRow) \/ remote'[u] # "open"
    /\ \A u \in UploadIds : rows'[u] # NoRow => rows[u] # NoRow \/ u \in tracked'
    /\ tracked \subseteq tracked' /\ sweep' \subseteq sweep \cup tracked
EntryAccounted == lib' = lib \/ lib'.status # "done" \/ (DoneHasJob' /\ DoneHasReceipts')
Accounted ==
    /\ ClientsAccounted /\ WorkersAccounted /\ DeliveriesAccounted
    /\ OutcomesAccounted /\ PartsAccounted /\ EntryAccounted

-----------------------------------------------------------------------------
(* A step that goes forward and is accounted for keeps the invariant.      *)
LEMMA ClientsKept ==
  ASSUME UploadInv, Shapes', JobsForward, ClientsAccounted
  PROVE  \A c \in Clients : ClientOk(c)'
  <1> SUFFICES ASSUME NEW c \in Clients, cl'[c] = cl[c] PROVE ClientOk(c)'
    BY DEF ClientsAccounted
  <1>1. ClientOk(c) /\ cl[c].job \in Jobs \cup {NoJob}
    BY DEF UploadInv, Shapes, Actors, CommandState
  <1> QED BY <1>1 DEF ClientOk, JobsForward

LEMMA WorkersKept ==
  ASSUME UploadInv, Shapes', RemoteForward, PartsAccounted, WorkersAccounted
  PROVE  (\A j \in Jobs : WorkerOk(j)') /\ TracksApart'
  <1>a. TracksApart' /\ tracked \subseteq tracked'
    BY DEF WorkersAccounted, PartsAccounted
  <1> SUFFICES ASSUME NEW j \in Jobs, wk'[j] = wk[j], TrackKept(j) PROVE WorkerOk(j)'
    BY <1>a DEF WorkersAccounted
  <1>1. WorkerOk(j)
    BY DEF UploadInv
  <1>2. "retire_aborted" \in Holding /\ Made \subseteq Holding
    BY DEF Holding, Made
  <1> QED BY <1>a, <1>1, <1>2 DEF WorkerOk, RemoteForward, TrackKept

LEMMA EndsStay ==
  ASSUME JobsForward, NEW j \in Jobs, IsTerminal(j)
  PROVE  IsTerminal(j)' /\ job'[j].state = job[j].state /\ job'[j].rev = job[j].rev
  BY DEF JobsForward, IsTerminal

LEMMA ReceiptsStay ==
  ASSUME ReceiptsForward, NEW j \in Jobs, HasAllReceipts(j)
  PROVE  HasAllReceipts(j)'
  BY DEF ReceiptsForward, HasAllReceipts

LEMMA DeliveriesKept ==
  ASSUME UploadInv, Shapes', JobsForward, ReceiptsForward, DeliveriesAccounted
  PROVE  \A t \in Threads : DeliveryOk(t)'
  <1> SUFFICES ASSUME NEW t \in Threads, dv'[t] = dv[t],
                      t \in fresh' => t \in fresh /\ lib'.rev = lib.rev
               PROVE  DeliveryOk(t)'
    BY DEF DeliveriesAccounted
  <1>1. DeliveryOk(t) /\ dv[t].todo \subseteq Jobs
    BY DEF UploadInv, Shapes, Actors, DeliveryState
  <1>2. \A j \in dv[t].todo : IsTerminal(j)'
    BY <1>1, EndsStay DEF DeliveryOk
  <1>3. ASSUME dv[t].pc \in {"write", "ack"}
        PROVE  dv[t].at \in Jobs /\ IsTerminal(dv[t].at)'
    BY <1>1, <1>3, EndsStay DEF DeliveryOk
  <1>4. ASSUME dv[t].pc = "write", t \in fresh'
        PROVE  /\ job'[dv[t].at].rev = lib'.rev
               /\ job'[dv[t].at].state = "succeeded" => HasAllReceipts(dv[t].at)'
    <2>1. PICK a \in Jobs : a = dv[t].at
      BY <1>1, <1>4 DEF DeliveryOk
    <2>2. IsTerminal(a) /\ job[a].rev = lib.rev /\ (job[a].state = "succeeded" => HasAllReceipts(a))
      BY <1>1, <1>4, <2>1 DEF DeliveryOk
    <2>3. job'[a].rev = lib'.rev /\ (job'[a].state = "succeeded" => HasAllReceipts(a)')
      BY <2>2, <1>4, EndsStay, ReceiptsStay
    <2> QED BY <2>1, <2>3 DEF HasAllReceipts
  <1> QED BY <1>2, <1>3, <1>4 DEF DeliveryOk, IsTerminal, IsRow, HasAllReceipts

LEMMA TablesKept ==
  ASSUME UploadInv, Shapes', Forward, OutcomesAccounted, PartsAccounted
  PROVE  OutcomeIsEnd' /\ ReceiptsAreObjects' /\ TrackedWasOpened' /\ RetiredMultipartIsGone'
  <1>1. OutcomeIsEnd'
    BY EndsStay DEF UploadInv, OutcomeIsEnd, OutcomesAccounted, Forward
  <1>2. ReceiptsAreObjects'
    <2> SUFFICES ASSUME NEW j \in Jobs, NEW o \in Objects, receipts'[j][o] = receipts[j][o],
                        receipts[j][o] # NoUp
                 PROVE  remote'[receipts[j][o]] = "object"
      BY DEF ReceiptsAreObjects, ReceiptsForward, Forward
    <2>1. remote[receipts[j][o]] = "object" /\ receipts[j][o] \in UploadIds
      BY DEF UploadInv, ReceiptsAreObjects, Shapes, Tables
    <2> QED BY <2>1 DEF RemoteForward, Forward
  <1>3. tracked \subseteq UploadIds /\ tracked' \subseteq UploadIds
    BY DEF UploadInv, Shapes, Tables
  <1>4. TrackedWasOpened'
    <2>1. TrackedWasOpened
      BY DEF UploadInv
    <2> QED BY <1>3, <2>1 DEF TrackedWasOpened, PartsAccounted, RemoteForward, Forward
  <1>5. RetiredMultipartIsGone'
    <2> SUFFICES ASSUME NEW u \in tracked', rows'[u] = NoRow, remote'[u] = "open" PROVE FALSE
      BY DEF RetiredMultipartIsGone
    <2>1. u \in tracked /\ rows[u] = NoRow
      BY DEF PartsAccounted
    <2>2. remote[u] # "open" /\ remote[u] # "unused"
      BY <2>1 DEF UploadInv, RetiredMultipartIsGone, TrackedWasOpened
    <2> QED BY <2>2, <1>3 DEF RemoteForward, Forward
  <1> QED BY <1>1, <1>2, <1>4, <1>5

LEMMA EntryKept ==
  ASSUME UploadInv, Shapes', Forward, EntryAccounted
  PROVE  DoneHasJob' /\ DoneHasReceipts'
  <1>1. CASE lib'.status # "done"
    BY <1>1 DEF DoneHasJob, DoneHasReceipts
  <1>2. CASE lib' = lib /\ lib.status = "done"
    <2>1. PICK m \in Jobs : m = lib.marker
      BY <1>2 DEF UploadInv, DoneHasJob
    <2>2. /\ IsRow(m) /\ job[m].state = "succeeded" /\ job[m].rev = lib.rev
          /\ \A o \in Objects : receipts[m][o] # NoUp /\ remote[receipts[m][o]] = "object"
      BY <1>2, <2>1 DEF UploadInv, DoneHasReceipts
    <2>3. \A o \in Objects : receipts[m][o] \in UploadIds
      BY <2>2 DEF UploadInv, Shapes, Tables
    <2>4. IsTerminal(m)
      BY <2>2 DEF IsTerminal, Terminal
    <2>5. IsRow(m)' /\ job'[m].state = "succeeded" /\ job'[m].rev = lib.rev
      BY <2>2, <2>4 DEF JobsForward, Forward
    <2>6. \A o \in Objects : receipts'[m][o] # NoUp /\ remote'[receipts'[m][o]] = "object"
      BY <2>2, <2>3 DEF RemoteForward, ReceiptsForward, Forward
    <2> QED BY <1>2, <2>1, <2>5, <2>6 DEF DoneHasJob, DoneHasReceipts, IsRow
  <1> QED BY <1>1, <1>2 DEF EntryAccounted

LEMMA StepKept ==
  ASSUME UploadInv, Shapes', Forward, Accounted
  PROVE  UploadInv'
  BY ClientsKept, WorkersKept, DeliveriesKept, TablesKept, EntryKept
     DEF UploadInv, Forward, Accounted

(* What a step leaves alone needs no account.                              *)
LEMMA TracksSame ==
  ASSUME UploadInv, UNCHANGED <<remote, tracked>>
  PROVE  \A j \in Jobs : TrackKept(j)
  BY DEF UploadInv, WorkerOk, TrackKept

LEMMA WorkersSame ==
  ASSUME UploadInv, UNCHANGED <<wk, remote, tracked>>
  PROVE  WorkersAccounted
  <1>1. TracksApart'
    BY DEF UploadInv, TracksApart
  <1> QED BY <1>1, TracksSame DEF WorkersAccounted

LEMMA Frames ==
  /\ job' = job => JobsForward
  /\ remote' = remote => RemoteForward
  /\ receipts' = receipts => ReceiptsForward
  /\ cl' = cl => ClientsAccounted
  /\ dv' = dv /\ fresh' = fresh /\ lib' = lib => DeliveriesAccounted
  /\ dv' = dv /\ fresh' = {} => DeliveriesAccounted
  /\ outbox' = outbox => OutcomesAccounted
  /\ rows' = rows /\ tracked' = tracked /\ sweep' = sweep => PartsAccounted
  /\ lib' = lib => EntryAccounted
  <1>1. (job' = job => JobsForward) /\ (remote' = remote => RemoteForward)
        /\ (receipts' = receipts => ReceiptsForward)
    BY DEF JobsForward, RemoteForward, ReceiptsForward, IsRow, IsTerminal
  <1>2. (cl' = cl => ClientsAccounted)
        /\ (outbox' = outbox => OutcomesAccounted) /\ (lib' = lib => EntryAccounted)
    BY DEF ClientsAccounted, OutcomesAccounted, EntryAccounted
  <1>3. (dv' = dv /\ fresh' = fresh /\ lib' = lib => DeliveriesAccounted)
        /\ (dv' = dv /\ fresh' = {} => DeliveriesAccounted)
    BY DEF DeliveriesAccounted
  <1>4. rows' = rows /\ tracked' = tracked /\ sweep' = sweep => PartsAccounted
    BY DEF PartsAccounted
  <1> QED BY <1>1, <1>2, <1>3, <1>4

-----------------------------------------------------------------------------
(* Writing one row or one thread's record.                                 *)
LEMMA RowsDiffer == NoRow \notin JobRows /\ NoRow \notin PartRows
  <1>1. NoRow \notin JobRows
    BY DEF NoRow, JobRows, Live, Terminal
  <1>2. NoRow \notin PartRows
    <2>1. \A x \in PartRows : DOMAIN x = {"job", "obj", "desired", "parts"}
      BY DEF PartRows
    <2>2. DOMAIN NoRow = {"state"}
      BY DEF NoRow
    <2> QED BY <2>1, <2>2
  <1> QED BY <1>1, <1>2

LEMMA JobRow ==
  ASSUME Tables, NEW j \in Jobs, IsRow(j)
  PROVE  /\ job[j] \in JobRows /\ job[j].state \in Live \cup Terminal /\ job[j].version \in Nat
         /\ job[j].rev \in Nat /\ job[j].parent \in Jobs \cup {NoJob}
  <1>1. job[j] \in JobRows
    BY DEF Tables, IsRow
  <1> QED BY <1>1 DEF JobRows

LEMMA JobPut ==
  ASSUME Tables, NEW j \in Jobs, NEW x \in JobRows, job' = [job EXCEPT ![j] = x],
         IsRow(j) => x.rev = job[j].rev /\ (job[j].state \in Terminal => x.state = job[j].state)
  PROVE  job' \in [Jobs -> JobRows \cup {NoRow}] /\ JobsForward /\ job'[j] = x /\ IsRow(j)'
  <1>1. job' \in [Jobs -> JobRows \cup {NoRow}] /\ job'[j] = x
    BY DEF Tables
  <1>2. \A k \in Jobs \ {j} : job'[k] = job[k]
    BY DEF Tables
  <1>3. IsRow(j)'
    BY <1>1, RowsDiffer DEF IsRow
  <1>4. JobsForward
    BY <1>1, <1>2, <1>3 DEF JobsForward, IsRow, IsTerminal
  <1> QED BY <1>1, <1>3, <1>4

LEMMA CompletedStep ==
  ASSUME Tables, NEW j \in Jobs, IsLive(j), NEW outcome \in Terminal, Completed(j, outcome)
  PROVE  /\ job' \in [Jobs -> JobRows \cup {NoRow}] /\ JobsForward
         /\ outbox' \in [Jobs -> {"none", "pending", "acked"}] /\ OutcomesAccounted
  <1> DEFINE x == [job[j] EXCEPT !.state = outcome, !.version = @ + 1]
  <1>1. job[j] \in JobRows /\ job[j].state \notin Terminal
    BY JobRow DEF IsLive, Live, Terminal
  <1>a. job[j].version + 1 \in Nat /\ outcome \in Live \cup Terminal
    BY JobRow DEF IsLive
  <1>2. x \in JobRows /\ x.rev = job[j].rev /\ x.state = outcome
    BY <1>1, <1>a DEF JobRows
  <1>3. job' = [job EXCEPT ![j] = x] /\ outbox' = [outbox EXCEPT ![j] = "pending"]
    BY DEF Completed
  <1> HIDE DEF x
  <1>4. job' \in [Jobs -> JobRows \cup {NoRow}] /\ JobsForward /\ job'[j] = x /\ IsRow(j)'
    BY <1>1, <1>2, <1>3, JobPut
  <1>5. IsTerminal(j)'
    BY <1>2, <1>4 DEF IsTerminal
  <1>6. outbox' \in [Jobs -> {"none", "pending", "acked"}]
    BY <1>3 DEF Tables
  <1>7. OutcomesAccounted
    BY <1>3, <1>5 DEF OutcomesAccounted, Tables
  <1> QED BY <1>4, <1>6, <1>7

LEMMA ClientPut ==
  ASSUME Actors, NEW c \in Clients, NEW x \in CommandState, cl' = [cl EXCEPT ![c] = x],
         x.job # NoJob => job'[x.job] # NoRow, x.pc \in WithJob => x.job # NoJob
  PROVE  cl' \in [Clients -> CommandState] /\ ClientsAccounted
  BY DEF Actors, ClientsAccounted, ClientOk, IsRow

LEMMA ClientFields ==
  ASSUME UploadInv, NEW c \in Clients
  PROVE  /\ Tables /\ Actors
         /\ cl[c] \in CommandState /\ cl[c].pc \in CommandPlaces
         /\ cl[c].job \in Jobs \cup {NoJob} /\ cl[c].version \in Nat /\ cl[c].new \in BOOLEAN
         /\ cl[c].rev \in Nat /\ cl[c].conf \in Nat /\ cl[c].give \in Jobs \cup {NoJob}
         /\ cl[c].job # NoJob => IsRow(cl[c].job)
         /\ cl[c].pc \in WithJob => cl[c].job \in Jobs /\ IsRow(cl[c].job)
  <1>1. Tables /\ Actors /\ ClientOk(c)
    BY DEF UploadInv, Shapes
  <1>2. cl[c] \in CommandState
    BY <1>1 DEF Actors
  <1>3. /\ cl[c].pc \in CommandPlaces
        /\ cl[c].job \in Jobs \cup {NoJob} /\ cl[c].version \in Nat /\ cl[c].new \in BOOLEAN
        /\ cl[c].rev \in Nat /\ cl[c].conf \in Nat /\ cl[c].give \in Jobs \cup {NoJob}
    BY <1>2 DEF CommandState
  <1> QED BY <1>1, <1>2, <1>3 DEF ClientOk

LEMMA ClientIdle ==
  ASSUME UploadInv, NEW c \in Clients, cl' = [cl EXCEPT ![c] = IdleClient]
  PROVE  cl' \in [Clients -> CommandState] /\ ClientsAccounted
  <1>1. IdleClient \in CommandState /\ IdleClient.job = NoJob /\ IdleClient.pc \notin WithJob
    BY DEF IdleClient, CommandState, CommandPlaces, WithJob
  <1> QED BY <1>1, ClientPut, ClientFields

LEMMA ClientGoto ==
  ASSUME UploadInv, NEW c \in Clients, NEW l \in CommandPlaces, Goto(c, l), JobsForward,
         l \in WithJob => cl[c].job # NoJob
  PROVE  cl' \in [Clients -> CommandState] /\ ClientsAccounted
  <1> DEFINE x == [cl[c] EXCEPT !.pc = l]
  <1>1. cl' = [cl EXCEPT ![c] = x]
    BY DEF Goto
  <1>2. x \in CommandState /\ x.job = cl[c].job /\ x.pc = l
    BY ClientFields DEF CommandState
  <1>3. cl[c].job # NoJob => job'[cl[c].job] # NoRow
    BY ClientFields DEF JobsForward, IsRow
  <1> HIDE DEF x
  <1> QED BY <1>1, <1>2, <1>3, ClientPut, ClientFields

-----------------------------------------------------------------------------
(* Commands that only move their thread or write job rows and outcomes.    *)
LEMMA ClientStep ==
  ASSUME UploadInv, UNCHANGED <<receipts, rows, lib, conf, remote, tracked, wk, dv, fresh, sweep>>,
         job' \in [Jobs -> JobRows \cup {NoRow}], JobsForward,
         outbox' \in [Jobs -> {"none", "pending", "acked"}], OutcomesAccounted,
         cl' \in [Clients -> CommandState], ClientsAccounted
  PROVE  UploadInv'
  <1>1. Shapes'
    BY DEF UploadInv, Shapes, Tables, Actors
  <1>2. Forward /\ Accounted
    BY Frames, WorkersSame DEF Forward, Accounted
  <1> QED BY <1>1, <1>2, StepKept

LEMMA ClientMoves ==
  ASSUME UploadInv,
         UNCHANGED <<job, outbox, receipts, rows, lib, conf, remote, tracked, wk, dv, fresh, sweep>>,
         cl' \in [Clients -> CommandState], ClientsAccounted
  PROVE  UploadInv'
  <1>1. job' \in [Jobs -> JobRows \cup {NoRow}] /\ outbox' \in [Jobs -> {"none", "pending", "acked"}]
    BY DEF UploadInv, Shapes, Tables
  <1> QED BY <1>1, ClientStep, Frames

LEMMA UploadEntryInv ==
  ASSUME UploadInv, NEW c \in Clients, upload_entry(c)
  PROVE  UploadInv'
  <1> DEFINE x == [IdleClient EXCEPT !.pc = "lease", !.rev = lib.rev, !.conf = conf]
  <1>1. lib.rev \in Nat /\ conf \in Nat
    BY DEF UploadInv, Shapes, Tables, Entries
  <1>2. x \in CommandState /\ x.job = NoJob /\ x.pc \notin WithJob
    BY <1>1 DEF IdleClient, CommandState, CommandPlaces, WithJob
  <1>3. cl' = [cl EXCEPT ![c] = x]
    BY DEF upload_entry
  <1> HIDE DEF x
  <1>4. cl' \in [Clients -> CommandState] /\ ClientsAccounted
    BY <1>2, <1>3, ClientPut, ClientFields
  <1> QED BY <1>4, ClientMoves DEF upload_entry, store

LEMMA RetryInv ==
  ASSUME UploadInv, NEW c \in Clients, NEW p \in Jobs, retry_transfer(c, p)
  PROVE  UploadInv'
  <1> DEFINE x == [IdleClient EXCEPT !.pc = "lease", !.job = p, !.conf = conf]
  <1>1. conf \in Nat
    BY DEF UploadInv, Shapes, Tables
  <1>2. x \in CommandState /\ x.job = p /\ x.pc \notin WithJob
    BY <1>1 DEF IdleClient, CommandState, CommandPlaces, WithJob
  <1>3. cl' = [cl EXCEPT ![c] = x] /\ job'[p] # NoRow
    BY DEF retry_transfer, store, IsRow
  <1> HIDE DEF x
  <1>4. cl' \in [Clients -> CommandState] /\ ClientsAccounted
    BY <1>2, <1>3, ClientPut, ClientFields
  <1> QED BY <1>4, ClientMoves DEF retry_transfer, store

LEMMA CancelInv ==
  ASSUME UploadInv, NEW c \in Clients, NEW j \in Jobs, cancel_upload(c, j)
  PROVE  UploadInv'
  <1> DEFINE x == [IdleClient EXCEPT !.pc = "request", !.job = j, !.version = job[j].version]
  <1>1. job[j].version \in Nat
    BY JobRow DEF UploadInv, Shapes, cancel_upload, IsLive
  <1>2. x \in CommandState /\ x.job = j
    BY <1>1 DEF IdleClient, CommandState, CommandPlaces, WithJob
  <1>3. cl' = [cl EXCEPT ![c] = x] /\ job'[j] # NoRow
    BY DEF cancel_upload, store, IsRow, IsLive
  <1>4. j # NoJob
    BY UploadConstants
  <1> HIDE DEF x
  <1>5. cl' \in [Clients -> CommandState] /\ ClientsAccounted
    BY <1>2, <1>3, <1>4, ClientPut, ClientFields
  <1> QED BY <1>5, ClientMoves DEF cancel_upload, store

LEMMA LeaseInv ==
  ASSUME UploadInv, NEW c \in Clients, acquire_upload_lease(c) \/ release_upload_lease(c)
  PROVE  UploadInv'
  <1>1. \/ \E l \in CommandPlaces : Goto(c, l) /\ (l \in WithJob => cl[c].job # NoJob)
        \/ cl' = [cl EXCEPT ![c] = IdleClient]
    <2>1. {"create", "retry"} \subseteq CommandPlaces /\ "create" \notin WithJob
      BY DEF CommandPlaces, WithJob
    <2> QED BY <2>1 DEF acquire_upload_lease, release_upload_lease
  <1>2. UNCHANGED <<job, outbox, receipts, rows, lib, conf, remote, tracked, wk, dv, fresh, sweep>>
    BY DEF acquire_upload_lease, release_upload_lease, store
  <1>3. cl' \in [Clients -> CommandState] /\ ClientsAccounted
    BY <1>1, <1>2, ClientIdle, ClientGoto, Frames
  <1> QED BY <1>2, <1>3, ClientMoves

(* A command that goes on with a job.                                      *)
LEMMA WithStep ==
  ASSUME UploadInv, NEW c \in Clients, NEW j \in Jobs, NEW row \in JobRows, NEW new \in BOOLEAN,
         With(c, j, row, new), job'[j] # NoRow
  PROVE  cl' \in [Clients -> CommandState] /\ ClientsAccounted
  <1> DEFINE l == CASE row.state = "queued" -> "start"
                    [] row.state = "preparing" -> "claim"
                    [] OTHER -> "child"
             x == [cl[c] EXCEPT !.job = j, !.version = row.version, !.new = new, !.pc = l]
  <1>1. l \in WithJob
    BY DEF WithJob
  <1>2. row.version \in Nat
    BY DEF JobRows
  <1>3. cl' = [cl EXCEPT ![c] = x]
    BY ClientFields DEF With, Actors
  <1> HIDE DEF l
  <1>4. x \in CommandState /\ x.job = j
    BY <1>1, <1>2, ClientFields DEF CommandState, CommandPlaces
  <1>5. j # NoJob
    BY UploadConstants
  <1> HIDE DEF x
  <1> QED BY <1>3, <1>4, <1>5, ClientPut, ClientFields

LEMMA NewJobRow ==
  ASSUME NEW rev \in Nat, NEW digest \in Nat \X Nat, NEW parent \in Jobs \cup {NoJob}
  PROVE  NewJob(rev, digest, parent) \in JobRows
  BY DEF NewJob, JobRows, Live

LEMMA CreateInv ==
  ASSUME UploadInv, NEW c \in Clients, create_upload_job(c)
  PROVE  UploadInv'
  <1> DEFINE rev == cl[c].rev
             digest == <<rev, cl[c].conf>>
  <1>1. /\ UNCHANGED <<outbox, receipts, rows, lib, conf, remote, tracked, wk, dv, fresh, sweep>>
        /\ Tables
    BY DEF create_upload_job, UploadInv, Shapes
  <1>2. outbox' \in [Jobs -> {"none", "pending", "acked"}] /\ OutcomesAccounted
    BY <1>1, Frames DEF Tables
  <1>3. "release" \in CommandPlaces /\ "release" \notin WithJob
    BY DEF CommandPlaces, WithJob
  <1>4. CASE Goto(c, "release") /\ UNCHANGED job
    BY <1>1, <1>3, <1>4, ClientGoto, ClientMoves, Frames
  <1>5. CASE /\ UNCHANGED job
             /\ \E j \in RootOf(rev) : With(c, j, job[j], FALSE)
    <2>1. PICK j \in Jobs : IsRow(j) /\ With(c, j, job[j], FALSE)
      BY <1>5 DEF RootOf
    <2>2. job[j] \in JobRows /\ job'[j] # NoRow
      BY <2>1, <1>1, <1>5, JobRow DEF IsRow
    <2>3. cl' \in [Clients -> CommandState] /\ ClientsAccounted
      BY <2>1, <2>2, WithStep
    <2> QED BY <2>3, <1>1, <1>5, ClientMoves
  <1>6. CASE \E j \in Jobs : /\ ~IsRow(j)
                             /\ job' = [job EXCEPT ![j] = NewJob(rev, digest, NoJob)]
                             /\ With(c, j, NewJob(rev, digest, NoJob), TRUE)
    <2> DEFINE x == NewJob(rev, digest, NoJob)
    <2>1. PICK j \in Jobs : ~IsRow(j) /\ job' = [job EXCEPT ![j] = x] /\ With(c, j, x, TRUE)
      BY <1>6
    <2>2. x \in JobRows
      BY ClientFields, NewJobRow
    <2> HIDE DEF x
    <2>3. job' \in [Jobs -> JobRows \cup {NoRow}] /\ JobsForward /\ job'[j] # NoRow
      BY <1>1, <2>1, <2>2, JobPut, RowsDiffer
    <2>4. cl' \in [Clients -> CommandState] /\ ClientsAccounted
      BY <2>1, <2>2, <2>3, WithStep
    <2> QED BY <1>1, <1>2, <2>3, <2>4, ClientStep
  <1> QED BY <1>4, <1>5, <1>6 DEF create_upload_job

LEMMA ChildInv ==
  ASSUME UploadInv, NEW c \in Clients, start_upload_child(c)
  PROVE  UploadInv'
  <1> DEFINE p == cl[c].job
             digest == <<lib.rev, cl[c].conf>>
             child == NewJob(job[p].rev, digest, p)
  <1>1. /\ UNCHANGED <<outbox, receipts, rows, lib, conf, remote, tracked, wk, dv, fresh, sweep>>
        /\ Tables /\ p \in Jobs /\ IsRow(p)
    BY ClientFields DEF start_upload_child, WithJob
  <1>2. outbox' \in [Jobs -> {"none", "pending", "acked"}] /\ OutcomesAccounted
    BY <1>1, Frames DEF Tables
  <1>3. lib.rev \in Nat /\ {"start", "claim"} \subseteq WithJob /\ WithJob \subseteq CommandPlaces
    BY <1>1 DEF Tables, Entries, WithJob, CommandPlaces
  <1>4. CASE Goto(c, "release") /\ UNCHANGED job
    <2>1. "release" \in CommandPlaces /\ "release" \notin WithJob
      BY DEF CommandPlaces, WithJob
    <2> QED BY <1>1, <2>1, <1>4, ClientGoto, ClientMoves, Frames
  <1>5. ASSUME NEW k \in Jobs, NEW v \in Nat, NEW new \in BOOLEAN, NEW l \in {"start", "claim"},
               cl' = [cl EXCEPT ![c].job = k, ![c].version = v, ![c].new = new,
                        ![c].rev = lib.rev, ![c].pc = l],
               job'[k] # NoRow
        PROVE  cl' \in [Clients -> CommandState] /\ ClientsAccounted
    <2> DEFINE x == [cl[c] EXCEPT !.job = k, !.version = v, !.new = new, !.rev = lib.rev, !.pc = l]
    <2>1. cl' = [cl EXCEPT ![c] = x]
      BY <1>5, ClientFields DEF Actors
    <2>2. x \in CommandState /\ x.job = k
      BY <1>3, ClientFields DEF CommandState
    <2>3. k # NoJob
      BY UploadConstants
    <2> HIDE DEF x
    <2> QED BY <2>1, <2>2, <2>3, <1>5, ClientPut, ClientFields
  <1>6. CASE /\ UNCHANGED job
             /\ \E k \in LiveChild(p) :
                    cl' = [cl EXCEPT ![c].job = k, ![c].version = job[k].version,
                             ![c].new = FALSE, ![c].rev = lib.rev,
                             ![c].pc = IF job[k].state = "queued" THEN "start" ELSE "claim"]
    <2> DEFINE label(k) == IF job[k].state = "queued" THEN "start" ELSE "claim"
    <2>1. PICK k \in Jobs : /\ IsRow(k)
                            /\ cl' = [cl EXCEPT ![c].job = k, ![c].version = job[k].version,
                                        ![c].new = FALSE, ![c].rev = lib.rev, ![c].pc = label(k)]
      BY <1>6 DEF LiveChild, ChildrenOf
    <2>2. job[k].version \in Nat /\ job'[k] # NoRow /\ label(k) \in {"start", "claim"}
      BY <2>1, <1>1, <1>6, JobRow DEF IsRow
    <2> HIDE DEF label
    <2>3. cl' \in [Clients -> CommandState] /\ ClientsAccounted
      BY <2>1, <2>2, <1>5
    <2> QED BY <2>3, <1>1, <1>6, ClientMoves
  <1>7. CASE \E k \in Jobs :
                /\ ~IsRow(k)
                /\ job' = [job EXCEPT ![k] = child]
                /\ cl' = [cl EXCEPT ![c].job = k, ![c].version = 1, ![c].new = TRUE,
                            ![c].rev = lib.rev, ![c].pc = "start"]
    <2>1. PICK k \in Jobs : /\ ~IsRow(k)
                            /\ job' = [job EXCEPT ![k] = child]
                            /\ cl' = [cl EXCEPT ![c].job = k, ![c].version = 1, ![c].new = TRUE,
                                        ![c].rev = lib.rev, ![c].pc = "start"]
      BY <1>7
    <2>2. job[p].rev \in Nat /\ digest \in Nat \X Nat
      BY <1>1, <1>3, JobRow, ClientFields
    <2>3. child \in JobRows
      BY <1>1, <2>2, NewJobRow
    <2> HIDE DEF child
    <2>4. job' \in [Jobs -> JobRows \cup {NoRow}] /\ JobsForward /\ job'[k] # NoRow
      BY <1>1, <2>1, <2>3, JobPut, RowsDiffer
    <2>5. cl' \in [Clients -> CommandState] /\ ClientsAccounted
      BY <2>1, <2>4, <1>5
    <2> QED BY <1>1, <1>2, <2>4, <2>5, ClientStep
  <1> QED BY <1>4, <1>6, <1>7 DEF start_upload_child

LEMMA StartInv ==
  ASSUME UploadInv, NEW c \in Clients, start_upload_job(c)
  PROVE  UploadInv'
  <1>1. PICK j \in Jobs : j = cl[c].job /\ IsRow(j)
    BY ClientFields DEF start_upload_job, WithJob
  <1>2. /\ UNCHANGED <<outbox, receipts, rows, lib, conf, remote, tracked, wk, dv, fresh, sweep>>
        /\ Tables /\ job[j] \in JobRows /\ j # NoJob
    BY <1>1, ClientFields, JobRow, UploadConstants DEF start_upload_job
  <1>3. outbox' \in [Jobs -> {"none", "pending", "acked"}] /\ OutcomesAccounted
    BY <1>2, Frames DEF Tables
  <1>4. CASE /\ CheckedLive(j, cl[c].version)
             /\ job' = [job EXCEPT ![j].state = "preparing", ![j].version = @ + 1]
             /\ cl' = [cl EXCEPT ![c].version = @ + 1, ![c].pc = "claim"]
    <2> DEFINE x == [job[j] EXCEPT !.state = "preparing", !.version = @ + 1]
               y == [cl[c] EXCEPT !.version = @ + 1, !.pc = "claim"]
    <2>1. job[j].version + 1 \in Nat /\ cl[c].version + 1 \in Nat
      BY <1>1, <1>2, JobRow, ClientFields
    <2>2. "preparing" \in Live \cup Terminal /\ job[j].state \notin Terminal
      BY <1>4 DEF CheckedLive, IsLive, Live, Terminal
    <2>3. x \in JobRows /\ x.rev = job[j].rev
      BY <1>2, <2>1, <2>2 DEF JobRows
    <2>4. job' = [job EXCEPT ![j] = x] /\ cl' = [cl EXCEPT ![c] = y]
      BY <1>4, ClientFields DEF Actors
    <2>5. "claim" \in CommandPlaces
      BY DEF CommandPlaces, WithJob
    <2>6. y \in CommandState /\ y.job = j
      BY <1>1, <2>1, <2>5, ClientFields DEF CommandState
    <2> HIDE DEF x, y
    <2>7. job' \in [Jobs -> JobRows \cup {NoRow}] /\ JobsForward /\ job'[j] # NoRow
      BY <1>2, <2>2, <2>3, <2>4, JobPut, RowsDiffer
    <2>8. cl' \in [Clients -> CommandState] /\ ClientsAccounted
      BY <1>2, <2>4, <2>6, <2>7, ClientPut, ClientFields
    <2> QED BY <1>2, <1>3, <2>7, <2>8, ClientStep
  <1>5. CASE UNCHANGED job /\ \E l \in {"undo", "release"} : Goto(c, l)
    <2>1. {"undo", "release"} \subseteq CommandPlaces
      BY DEF CommandPlaces, WithJob
    <2>2. cl' \in [Clients -> CommandState] /\ ClientsAccounted
      BY <1>1, <1>2, <1>5, <2>1, ClientGoto, Frames
    <2> QED BY <1>2, <1>5, <2>2, ClientMoves
  <1>6. CASE UNCHANGED job /\ With(c, j, job[j], FALSE)
    <2>1. cl' \in [Clients -> CommandState] /\ ClientsAccounted
      BY <1>1, <1>2, <1>6, WithStep DEF IsRow
    <2> QED BY <1>2, <1>6, <2>1, ClientMoves
  <1> QED BY <1>1, <1>4, <1>5, <1>6 DEF start_upload_job

LEMMA ClaimInv ==
  ASSUME UploadInv, NEW c \in Clients,
         begin_upload_operation(c) \/ clear_upload_operation(c) \/ request_cancel(c)
  PROVE  UploadInv'
  <1>1. /\ UNCHANGED <<job, outbox, receipts, rows, lib, conf, remote, tracked, wk, dv, fresh, sweep>>
        /\ cl[c].job \in Jobs /\ IsRow(cl[c].job) /\ cl[c].job # NoJob
    BY ClientFields, UploadConstants
       DEF begin_upload_operation, clear_upload_operation, request_cancel, store, WithJob
  <1>2. \/ \E l \in {"mark", "release", "cancel"} : Goto(c, l)
        \/ cl' = [cl EXCEPT ![c] = IdleClient]
        \/ \E g \in Jobs \cup {NoJob} : cl' = [cl EXCEPT ![c].pc = "undo", ![c].give = g]
    BY DEF begin_upload_operation, clear_upload_operation, request_cancel, ActiveOps
  <1>3. {"mark", "release", "cancel", "undo"} \subseteq CommandPlaces
    BY DEF CommandPlaces, WithJob
  <1>4. CASE \E g \in Jobs \cup {NoJob} : cl' = [cl EXCEPT ![c].pc = "undo", ![c].give = g]
    <2>1. PICK g \in Jobs \cup {NoJob} : cl' = [cl EXCEPT ![c].pc = "undo", ![c].give = g]
      BY <1>4
    <2> DEFINE x == [cl[c] EXCEPT !.pc = "undo", !.give = g]
    <2>2. cl' = [cl EXCEPT ![c] = x]
      BY <2>1, ClientFields DEF Actors
    <2>3. x \in CommandState /\ x.job = cl[c].job
      BY <1>3, ClientFields DEF CommandState
    <2> HIDE DEF x
    <2>4. cl' \in [Clients -> CommandState] /\ ClientsAccounted
      BY <1>1, <2>2, <2>3, ClientPut, ClientFields DEF IsRow
    <2> QED BY <1>1, <2>4, ClientMoves
  <1>5. CASE \/ \E l \in {"mark", "release", "cancel"} : Goto(c, l)
             \/ cl' = [cl EXCEPT ![c] = IdleClient]
    <2>1. cl' \in [Clients -> CommandState] /\ ClientsAccounted
      BY <1>1, <1>3, <1>5, ClientGoto, ClientIdle, Frames
    <2> QED BY <1>1, <2>1, ClientMoves
  <1> QED BY <1>2, <1>4, <1>5

LEMMA CancelsInv ==
  ASSUME UploadInv, NEW c \in Clients,
         compensate_new_upload_job(c) \/ cancel_upload_job(c)
  PROVE  UploadInv'
  <1>1. PICK j \in Jobs : j = cl[c].job /\ IsRow(j)
    BY ClientFields DEF compensate_new_upload_job, cancel_upload_job, WithJob
  <1>2. /\ UNCHANGED <<receipts, rows, lib, conf, remote, tracked, wk, dv, fresh, sweep>>
        /\ Tables /\ j # NoJob
    BY <1>1, ClientFields, UploadConstants DEF compensate_new_upload_job, cancel_upload_job
  <1>3. \/ IsLive(j) /\ Completed(j, "cancelled")
        \/ UNCHANGED <<job, outbox>>
    BY <1>1 DEF compensate_new_upload_job, cancel_upload_job, CheckedLive
  <1>4. /\ job' \in [Jobs -> JobRows \cup {NoRow}] /\ JobsForward
        /\ outbox' \in [Jobs -> {"none", "pending", "acked"}] /\ OutcomesAccounted
    <2>1. CASE IsLive(j) /\ Completed(j, "cancelled")
      BY <1>2, <2>1, CompletedStep DEF Terminal
    <2>2. CASE UNCHANGED <<job, outbox>>
      BY <1>2, <2>2, Frames DEF Tables
    <2> QED BY <1>3, <2>1, <2>2
  <1>5. \/ \E l \in {"release", "unclaim", "claim_cancelled"} : Goto(c, l)
        \/ cl' = [cl EXCEPT ![c] = IdleClient]
    BY DEF compensate_new_upload_job, cancel_upload_job
  <1>6. {"release", "unclaim", "claim_cancelled"} \subseteq CommandPlaces
    BY DEF CommandPlaces, WithJob
  <1>7. cl' \in [Clients -> CommandState] /\ ClientsAccounted
    BY <1>1, <1>2, <1>4, <1>5, <1>6, ClientGoto, ClientIdle
  <1> QED BY <1>2, <1>4, <1>7, ClientStep

-----------------------------------------------------------------------------
(* Writing a worker's record, a deliverer's and the intent to abort.       *)
LEMMA WorkerPut ==
  ASSUME Actors, NEW j \in Jobs, NEW x \in WorkerState, wk' = [wk EXCEPT ![j] = x],
         x.pc \in Holding => x.up \in UploadIds /\ remote'[x.up] # "unused",
         x.pc \in Made => remote'[x.up] = "object",
         x.pc = "retire_aborted" => remote'[x.up] # "open",
         x.pc \in Holding \ {"track"} => x.up \in tracked',
         x.pc = "track" => remote'[x.up] = "open" /\ x.up \notin tracked',
         \A k \in Jobs \ {j} : TrackKept(k),
         TracksApart, x.pc = "track" => \A k \in Jobs \ {j} : wk[k].pc = "track" => wk[k].up # x.up
  PROVE  wk' \in [Jobs -> WorkerState] /\ WorkersAccounted
  <1>1. wk' \in [Jobs -> WorkerState] /\ wk'[j] = x /\ \A k \in Jobs \ {j} : wk'[k] = wk[k]
    BY DEF Actors
  <1>2. WorkerOk(j)'
    BY <1>1 DEF WorkerOk
  <1>3. TracksApart'
    BY <1>1 DEF TracksApart
  <1> QED BY <1>1, <1>2, <1>3 DEF WorkersAccounted

(* A worker that works on its multipart, or opens one, disturbs no other   *)
(* worker's.                                                               *)
LEMMA TracksUndisturbed ==
  ASSUME UploadInv, NEW j \in Jobs, NEW u \in UploadIds,
         (wk[j].pc \in Holding /\ u = wk[j].up) \/ remote[u] = "unused",
         \A v \in UploadIds \ {u} : remote'[v] = remote[v] /\ (v \in tracked' => v \in tracked),
         u \in tracked' => wk[j].pc \in Holding
  PROVE  \A k \in Jobs \ {j} : TrackKept(k)
  <1> SUFFICES ASSUME NEW k \in Jobs \ {j}, wk[k].pc = "track"
               PROVE  remote'[wk[k].up] = "open" /\ wk[k].up \notin tracked'
    BY DEF TrackKept
  <1>1. "track" \in Holding
    BY DEF Holding
  <1>2. wk[k].up \in UploadIds /\ remote[wk[k].up] = "open" /\ wk[k].up \notin tracked
    BY <1>1 DEF UploadInv, WorkerOk
  <1>3. wk[j].pc \in Holding => wk[j].up # wk[k].up
    BY <1>2 DEF UploadInv, WorkerOk, TracksApart
  <1> QED BY <1>2, <1>3

LEMMA WorkerFields ==
  ASSUME UploadInv, NEW j \in Jobs
  PROVE  /\ Tables /\ Actors
         /\ wk[j] \in WorkerState /\ wk[j].pc \in WorkerPlaces /\ wk[j].version \in Nat
         /\ wk[j].obj \in Nat /\ wk[j].up \in UploadIds \cup {NoUp}
         /\ wk[j].result \in Terminal \cup {"ok"}
         /\ wk[j].pc \in Holding => wk[j].up \in UploadIds /\ remote[wk[j].up] # "unused"
         /\ wk[j].pc \in Made => remote[wk[j].up] = "object"
         /\ wk[j].pc = "retire_aborted" => remote[wk[j].up] # "open"
         /\ wk[j].pc \in Holding \ {"track"} => wk[j].up \in tracked
         /\ wk[j].pc = "track" => remote[wk[j].up] = "open" /\ wk[j].up \notin tracked
         /\ TracksApart
  <1>1. Tables /\ Actors /\ WorkerOk(j) /\ TracksApart
    BY DEF UploadInv, Shapes
  <1>2. wk[j] \in WorkerState
    BY <1>1 DEF Actors
  <1>3. /\ wk[j].pc \in WorkerPlaces /\ wk[j].version \in Nat
        /\ wk[j].obj \in Nat /\ wk[j].up \in UploadIds \cup {NoUp}
        /\ wk[j].result \in Terminal \cup {"ok"}
    BY <1>2 DEF WorkerState
  <1> QED BY <1>1, <1>2, <1>3 DEF WorkerOk

\* A worker goes on, or on with a failure.
Moved(j, l) == Step(j, l) \/ \E r \in Terminal : Fail(j, l, r)

LEMMA WorkerMoved ==
  ASSUME UploadInv, NEW j \in Jobs, NEW l \in WorkerPlaces, Moved(j, l), RemoteForward,
         \A k \in Jobs \ {j} : TrackKept(k), tracked \subseteq tracked', l # "track",
         l \in Holding => wk[j].pc \in Holding /\ (wk[j].pc = "track" => wk[j].up \in tracked'),
         l \in Made => remote'[wk[j].up] = "object",
         l = "retire_aborted" => remote'[wk[j].up] # "open"
  PROVE  wk' \in [Jobs -> WorkerState] /\ WorkersAccounted
  <1>1. PICK r \in Terminal \cup {"ok"} : wk' = [wk EXCEPT ![j] = [wk[j] EXCEPT !.pc = l, !.result = r]]
    <2>1. CASE Step(j, l)
      <3>1. [wk[j] EXCEPT !.pc = l] = [wk[j] EXCEPT !.pc = l, !.result = wk[j].result]
        BY WorkerFields DEF WorkerState
      <3>2. wk' = [wk EXCEPT ![j] = [wk[j] EXCEPT !.pc = l]]
        BY <2>1 DEF Step
      <3> QED BY <3>1, <3>2, WorkerFields
    <2>2. CASE \E r \in Terminal : Fail(j, l, r)
      <3>1. PICK r \in Terminal : Fail(j, l, r)
        BY <2>2
      <3>2. wk' = [wk EXCEPT ![j] = [wk[j] EXCEPT !.pc = l, !.result = r]]
        BY <3>1, WorkerFields DEF Fail, Actors
      <3> QED BY <3>2
    <2> QED BY <2>1, <2>2 DEF Moved
  <1> DEFINE x == [wk[j] EXCEPT !.pc = l, !.result = r]
  <1>2. x \in WorkerState /\ x.pc = l /\ x.up = wk[j].up
    BY WorkerFields DEF WorkerState
  <1>3. l \in Holding => wk[j].up \in UploadIds /\ remote'[wk[j].up] # "unused" /\ wk[j].up \in tracked'
    BY WorkerFields DEF RemoteForward
  <1> HIDE DEF x
  <1> QED BY <1>1, <1>2, <1>3, WorkerPut, WorkerFields DEF x

LEMMA DeliveryPut ==
  ASSUME Actors, NEW t \in Threads, NEW x \in DeliveryState, dv' = [dv EXCEPT ![t] = x],
         \A j \in x.todo : IsTerminal(j)',
         x.pc \in {"write", "ack"} => /\ x.at \in Jobs /\ job'[x.at] # NoRow
                                      /\ job'[x.at].state \in Terminal,
         x.pc = "write" /\ t \in fresh' =>
            /\ job'[x.at].rev = lib'.rev
            /\ job'[x.at].state = "succeeded" => \A o \in Objects : receipts'[x.at][o] # NoUp,
         \A s \in Threads \ {t} : s \in fresh' => s \in fresh /\ lib'.rev = lib.rev
  PROVE  dv' \in [Threads -> DeliveryState] /\ DeliveriesAccounted
  <1>1. dv' \in [Threads -> DeliveryState] /\ dv'[t] = x /\ \A s \in Threads \ {t} : dv'[s] = dv[s]
    BY DEF Actors
  <1>2. DeliveryOk(t)'
    BY <1>1 DEF DeliveryOk, IsTerminal, IsRow, HasAllReceipts
  <1> QED BY <1>1, <1>2 DEF DeliveriesAccounted

LEMMA DeliveryFields ==
  ASSUME UploadInv, NEW t \in Threads
  PROVE  /\ Tables /\ Actors
         /\ dv[t] \in DeliveryState /\ dv[t].pc \in {"idle", "list", "apply", "write", "ack"}
         /\ dv[t].todo \subseteq Jobs /\ dv[t].at \in Jobs \cup {NoJob}
         /\ \A j \in dv[t].todo : IsTerminal(j)
         /\ dv[t].pc \in {"write", "ack"} => dv[t].at \in Jobs /\ IsTerminal(dv[t].at)
  <1>1. Tables /\ Actors /\ DeliveryOk(t)
    BY DEF UploadInv, Shapes
  <1>2. dv[t] \in DeliveryState
    BY <1>1 DEF Actors
  <1>3. /\ dv[t].pc \in {"idle", "list", "apply", "write", "ack"}
        /\ dv[t].todo \subseteq Jobs /\ dv[t].at \in Jobs \cup {NoJob}
    BY <1>2 DEF DeliveryState
  <1> QED BY <1>1, <1>2, <1>3 DEF DeliveryOk

(* A thread that is to deliver next.                                       *)
LEMMA DeliveryListed ==
  ASSUME UploadInv, NEW t \in Threads, dv' = [dv EXCEPT ![t].pc = "list"], JobsForward,
         UNCHANGED <<fresh, lib>>
  PROVE  dv' \in [Threads -> DeliveryState] /\ DeliveriesAccounted
  <1> DEFINE x == [dv[t] EXCEPT !.pc = "list"]
  <1>1. dv' = [dv EXCEPT ![t] = x]
    OBVIOUS
  <1>2. x \in DeliveryState /\ x.pc = "list" /\ x.todo = dv[t].todo
    BY DeliveryFields DEF DeliveryState
  <1>3. \A j \in dv[t].todo : IsTerminal(j)'
    BY DeliveryFields, EndsStay
  <1> HIDE DEF x
  <1> QED BY <1>1, <1>2, <1>3, DeliveryPut, DeliveryFields

LEMMA AbortingStep ==
  ASSUME Tables, NEW us, SetAborting(us), tracked' = tracked, sweep' \subseteq sweep \cup tracked
  PROVE  rows' \in [UploadIds -> PartRows \cup {NoRow}] /\ PartsAccounted
  <1>1. ASSUME NEW u \in UploadIds
        PROVE  rows'[u] \in PartRows \cup {NoRow} /\ (rows'[u] = NoRow <=> rows[u] = NoRow)
    <2>1. CASE u \in us /\ rows[u] # NoRow
      <3>1. rows'[u] = [rows[u] EXCEPT !.desired = "aborting"] /\ rows[u] \in PartRows
        BY <2>1 DEF SetAborting, Tables
      <3>2. rows'[u] \in PartRows
        BY <3>1 DEF PartRows
      <3> QED BY <2>1, <3>2, RowsDiffer
    <2>2. CASE ~(u \in us /\ rows[u] # NoRow)
      <3>1. rows'[u] = rows[u]
        BY <2>2 DEF SetAborting
      <3> QED BY <3>1 DEF Tables
    <2> QED BY <2>1, <2>2
  <1>2. rows' = [u \in UploadIds |-> rows'[u]]
    BY DEF SetAborting
  <1>3. rows' \in [UploadIds -> PartRows \cup {NoRow}]
    BY <1>1, <1>2
  <1>4. PartsAccounted
    BY <1>1 DEF PartsAccounted, Tables
  <1> QED BY <1>3, <1>4

-----------------------------------------------------------------------------
(* The two commands that reach further: starting the worker, and the end   *)
(* of a cancel.                                                            *)
LEMMA SpawnInv ==
  ASSUME UploadInv, NEW c \in Clients, spawn_upload_worker(c)
  PROVE  UploadInv'
  <1>1. PICK j \in Jobs : j = cl[c].job /\ IsRow(j)
    BY ClientFields DEF spawn_upload_worker, WithJob
  <1>2. /\ UNCHANGED <<job, outbox, receipts, rows, conf, remote, tracked, dv, sweep>>
        /\ Tables /\ Actors /\ cl[c].job # NoJob
    BY <1>1, ClientFields, UploadConstants DEF spawn_upload_worker, store
  <1>3. CASE /\ lib' = [lib EXCEPT !.status = "uploading"]
             /\ fresh' = {}
             /\ wk' = [wk EXCEPT ![j] = [IdleWorker EXCEPT !.pc = "check", !.version = cl[c].version]]
             /\ cl' = [cl EXCEPT ![c] = IdleClient]
    <2> DEFINE x == [IdleWorker EXCEPT !.pc = "check", !.version = cl[c].version]
    <2>1. x \in WorkerState /\ x.pc = "check"
      BY ClientFields DEF IdleWorker, WorkerState, WorkerPlaces
    <2>2. wk' = [wk EXCEPT ![j] = x]
      BY <1>3
    <2>3. "check" \notin Holding /\ Made \subseteq Holding
      BY DEF Holding, Made
    <2> HIDE DEF x
    <2>4. wk' \in [Jobs -> WorkerState] /\ WorkersAccounted
      BY <1>2, <2>1, <2>2, <2>3, WorkerPut, WorkerFields, TracksSame
    <2>5. lib' \in Entries /\ lib'.status # "done"
      BY <1>2, <1>3 DEF Tables, Entries
    <2>6. cl' \in [Clients -> CommandState] /\ ClientsAccounted
      BY <1>3, ClientIdle
    <2>7. Shapes'
      BY <1>2, <2>4, <2>5, <2>6 DEF Shapes, Tables, Actors
    <2>8. Forward /\ Accounted
      BY <1>2, <1>3, <2>4, <2>5, <2>6, Frames DEF Forward, Accounted, EntryAccounted
    <2> QED BY <2>7, <2>8, StepKept
  <1>4. CASE /\ UNCHANGED <<lib, fresh, wk>>
             /\ \E l \in {"undo_claimed", "unclaim"} : Goto(c, l)
    <2>1. {"undo_claimed", "unclaim"} \subseteq CommandPlaces
      BY DEF CommandPlaces, WithJob
    <2>2. cl' \in [Clients -> CommandState] /\ ClientsAccounted
      BY <1>2, <1>4, <2>1, ClientGoto, Frames
    <2> QED BY <1>2, <1>4, <2>2, ClientMoves
  <1> QED BY <1>1, <1>3, <1>4 DEF spawn_upload_worker

LEMMA ClaimCancelledInv ==
  ASSUME UploadInv, NEW c \in Clients, claim_cancelled(c)
  PROVE  UploadInv'
  <1>1. /\ UNCHANGED <<job, outbox, receipts, lib, conf, remote, tracked, wk, fresh, sweep>>
        /\ cl' = [cl EXCEPT ![c] = IdleClient] /\ dv' = [dv EXCEPT ![c].pc = "list"]
        /\ \E us : SetAborting(us)
    BY DEF claim_cancelled
  <1>2. Tables /\ Actors /\ c \in Threads
    BY ClientFields DEF Threads
  <1>3. rows' \in [UploadIds -> PartRows \cup {NoRow}] /\ PartsAccounted
    BY <1>1, <1>2, AbortingStep
  <1>4. cl' \in [Clients -> CommandState] /\ ClientsAccounted
    BY <1>1, ClientIdle
  <1>5. dv' \in [Threads -> DeliveryState] /\ DeliveriesAccounted
    BY <1>1, <1>2, DeliveryListed, Frames
  <1>6. Shapes'
    BY <1>1, <1>2, <1>3, <1>4, <1>5 DEF Shapes, Tables, Actors
  <1>7. Forward /\ Accounted
    BY <1>1, <1>3, <1>4, <1>5, Frames, WorkersSame DEF Forward, Accounted
  <1> QED BY <1>6, <1>7, StepKept

(* Every step of a command keeps the invariant.                            *)
LEMMA CommandInv ==
  ASSUME UploadInv, NEW c \in Clients, command(c)
  PROVE  UploadInv'
  BY UploadEntryInv, RetryInv, CancelInv, LeaseInv, CreateInv, ChildInv, StartInv, ClaimInv,
     CancelsInv, SpawnInv, ClaimCancelledInv DEF command

-----------------------------------------------------------------------------
(* The worker.                                                             *)
LEMMA WorkerStep ==
  ASSUME UploadInv, UNCHANGED <<job, outbox, lib, conf, cl, dv, fresh, sweep>>,
         receipts' \in [Jobs -> [Objects -> UploadIds \cup {NoUp}]], ReceiptsForward,
         rows' \in [UploadIds -> PartRows \cup {NoRow}], tracked' \subseteq UploadIds, PartsAccounted,
         remote' \in [UploadIds -> {"unused", "open", "object", "aborted"}], RemoteForward,
         wk' \in [Jobs -> WorkerState], WorkersAccounted
  PROVE  UploadInv'
  <1>1. Shapes'
    BY DEF UploadInv, Shapes, Tables, Actors
  <1>2. Forward /\ Accounted
    BY Frames DEF Forward, Accounted
  <1> QED BY <1>1, <1>2, StepKept

LEMMA WorkerMoves ==
  ASSUME UploadInv,
         UNCHANGED <<job, outbox, receipts, rows, remote, tracked, lib, conf, cl, dv, fresh, sweep>>,
         wk' \in [Jobs -> WorkerState], WorkersAccounted
  PROVE  UploadInv'
  <1>1. Tables
    BY DEF UploadInv, Shapes
  <1> QED BY <1>1, WorkerStep, Frames DEF Tables

(* Which places hold a multipart.                                          *)
LEMMA Places ==
  /\ {"settle", "mark_aborting", "check_part", "part", "record", "check_complete", "complete",
      "verify", "stage", "retire_row", "abort", "retire_aborted", "initiate", "check",
      "retire_op", "track"} \subseteq WorkerPlaces
  /\ {"settle", "initiate", "check", "retire_op", "idle"} \cap Holding = {}
  /\ {"mark_aborting", "check_part", "part", "record", "check_complete", "complete", "verify",
      "stage", "retire_row", "abort", "retire_aborted", "track"} \subseteq Holding
  /\ {"settle", "initiate", "check", "retire_op", "idle", "mark_aborting", "check_part", "part",
      "record", "check_complete", "complete", "abort", "retire_aborted", "track"} \cap Made = {}
  /\ {"verify", "stage", "retire_row"} \subseteq Made
  BY DEF WorkerPlaces, Holding, Made

LEMMA WorkerOnly ==
  ASSUME UploadInv, NEW j \in Jobs, NEW l \in WorkerPlaces, Moved(j, l),
         UNCHANGED <<job, outbox, receipts, rows, remote, tracked, lib, conf, cl, dv, fresh, sweep>>,
         l \in Holding => wk[j].pc \in Holding \ {"track"}, l \in Made => wk[j].pc \in Made,
         l # "retire_aborted", l # "track"
  PROVE  UploadInv'
  <1>1. RemoteForward /\ (l \in Made => remote'[wk[j].up] = "object")
    BY Frames, WorkerFields
  <1>2. wk' \in [Jobs -> WorkerState] /\ WorkersAccounted
    BY <1>1, WorkerMoved, TracksSame
  <1> QED BY <1>2, WorkerMoves

LEMMA CheckInv ==
  ASSUME UploadInv, NEW j \in Jobs,
         check_cancelled(j) \/ upload_part(j) \/ verify_completed_object(j)
  PROVE  UploadInv'
  <1>1. UNCHANGED <<job, outbox, receipts, rows, remote, tracked, lib, conf, cl, dv, fresh, sweep>>
    BY DEF check_cancelled, upload_part, verify_completed_object, store
  <1>2. {"cancelled", "failed_final", "failed_retryable"} \subseteq Terminal
    BY DEF Terminal
  <1>3. \E l \in WorkerPlaces : /\ Moved(j, l) /\ l # "retire_aborted" /\ l # "track"
                                /\ l \in Holding => wk[j].pc \in Holding \ {"track"}
                                /\ l \in Made => wk[j].pc \in Made
    <2>1. CASE check_cancelled(j)
      <3>1. CASE wk[j].pc = "check"
        <4>a. wk[j].obj > NumObjects \/ wk[j].obj <= NumObjects
          BY WorkerFields, UploadConstants
        <4>1. Moved(j, "settle") \/ Moved(j, "initiate")
          BY <2>1, <3>1, <4>a, <1>2 DEF check_cancelled, Moved, At
        <4> QED BY <4>1, Places
      <3>2. CASE wk[j].pc \in {"check_part", "check_complete"}
        <4>1. Moved(j, "mark_aborting") \/ Moved(j, "part") \/ Moved(j, "complete")
          BY <2>1, <3>2, <1>2 DEF check_cancelled, Moved, At
        <4> QED BY <4>1, <3>2, Places
      <3> QED BY <2>1, <3>1, <3>2 DEF check_cancelled
    <2>2. CASE upload_part(j)
      <3>1. wk[j].pc = "part" /\ (Moved(j, "record") \/ Moved(j, "mark_aborting"))
        BY <2>2, <1>2 DEF upload_part, Moved, At
      <3> QED BY <3>1, Places
    <2>3. CASE verify_completed_object(j)
      <3>1. wk[j].pc = "verify" /\ (Moved(j, "stage") \/ Moved(j, "mark_aborting"))
        BY <2>3, <1>2 DEF verify_completed_object, Moved, At
      <3> QED BY <3>1, Places
    <2> QED BY <2>1, <2>2, <2>3
  <1> QED BY <1>1, <1>3, WorkerOnly

(* The object store opens, completes or aborts one multipart.              *)
LEMMA RemotePut ==
  ASSUME Tables, NEW u \in UploadIds, NEW r \in {"open", "object", "aborted"},
         remote' = [remote EXCEPT ![u] = r],
         remote[u] = "object" => r = "object", r = "open" => remote[u] \in {"open", "unused"}
  PROVE  /\ remote' \in [UploadIds -> {"unused", "open", "object", "aborted"}]
         /\ RemoteForward /\ remote'[u] = r
         /\ \A v \in UploadIds \ {u} : remote'[v] = remote[v]
  <1>1. /\ remote' \in [UploadIds -> {"unused", "open", "object", "aborted"}]
        /\ remote'[u] = r /\ \A v \in UploadIds \ {u} : remote'[v] = remote[v]
    BY DEF Tables
  <1> QED BY <1>1 DEF RemoteForward

LEMMA RemoteMoves ==
  ASSUME UploadInv,
         UNCHANGED <<job, outbox, receipts, rows, tracked, lib, conf, cl, dv, fresh, sweep>>,
         remote' \in [UploadIds -> {"unused", "open", "object", "aborted"}], RemoteForward,
         wk' \in [Jobs -> WorkerState], WorkersAccounted
  PROVE  UploadInv'
  <1>1. Tables
    BY DEF UploadInv, Shapes
  <1> QED BY <1>1, WorkerStep, Frames DEF Tables

LEMMA InitiateInv ==
  ASSUME UploadInv, NEW j \in Jobs, initiate_multipart_upload(j)
  PROVE  UploadInv'
  <1>1. UNCHANGED <<job, outbox, receipts, rows, tracked, lib, conf, cl, dv, fresh, sweep>>
    BY DEF initiate_multipart_upload, store
  <1>2. CASE \E u \in UploadIds : /\ remote[u] = "unused"
                                  /\ remote' = [remote EXCEPT ![u] = "open"]
                                  /\ wk' = [wk EXCEPT ![j].pc = "track", ![j].up = u]
    <2>1. PICK u \in UploadIds : /\ remote[u] = "unused"
                                 /\ remote' = [remote EXCEPT ![u] = "open"]
                                 /\ wk' = [wk EXCEPT ![j].pc = "track", ![j].up = u]
      BY <1>2
    <2> DEFINE x == [wk[j] EXCEPT !.pc = "track", !.up = u]
    <2>2. wk' = [wk EXCEPT ![j] = x]
      BY <2>1, WorkerFields DEF Actors
    <2>3. x \in WorkerState /\ x.pc = "track" /\ x.up = u
      BY WorkerFields, Places DEF WorkerState
    <2>4. /\ remote' \in [UploadIds -> {"unused", "open", "object", "aborted"}]
          /\ RemoteForward /\ remote'[u] = "open"
          /\ \A v \in UploadIds \ {u} : remote'[v] = remote[v]
      BY <2>1, WorkerFields, RemotePut
    <2>5. u \notin tracked'
      BY <1>1, <2>1 DEF UploadInv, TrackedWasOpened
    <2>6. \A k \in Jobs \ {j} : TrackKept(k) /\ (wk[k].pc = "track" => wk[k].up # u)
      BY <1>1, <2>1, <2>4, <2>5, TracksUndisturbed, WorkerFields
    <2> HIDE DEF x
    <2>7. wk' \in [Jobs -> WorkerState] /\ WorkersAccounted
      BY <2>2, <2>3, <2>4, <2>5, <2>6, WorkerFields, WorkerPut, Places
    <2> QED BY <1>1, <2>4, <2>7, RemoteMoves
  <1>3. CASE Fail(j, "settle", "failed_retryable") /\ UNCHANGED remote
    <2>1. Moved(j, "settle")
      BY <1>3 DEF Moved, Terminal
    <2> QED BY <1>1, <1>3, <2>1, WorkerOnly, Places
  <1> QED BY <1>2, <1>3 DEF initiate_multipart_upload

LEMMA CompleteInv ==
  ASSUME UploadInv, NEW j \in Jobs, complete_multipart_upload(j)
  PROVE  UploadInv'
  <1>1. /\ UNCHANGED <<job, outbox, receipts, rows, tracked, lib, conf, cl, dv, fresh, sweep>>
        /\ wk[j].pc = "complete" /\ wk[j].up \in UploadIds /\ Tables
        /\ {"failed_final", "failed_retryable"} \subseteq Terminal
    BY WorkerFields, Places DEF complete_multipart_upload, store, At, Terminal
  <1>2. \/ Moved(j, "mark_aborting") /\ remote' = remote
        \/ Moved(j, "mark_aborting") /\ remote[wk[j].up] = "open"
           /\ remote' = [remote EXCEPT ![wk[j].up] = "object"]
        \/ Moved(j, "verify") /\ remote[wk[j].up] = "open"
           /\ remote' = [remote EXCEPT ![wk[j].up] = "object"]
    BY <1>1 DEF complete_multipart_upload, Moved
  <1>3. CASE Moved(j, "mark_aborting") /\ remote' = remote
    BY <1>1, <1>3, WorkerOnly, Places
  <1>4. CASE Moved(j, "mark_aborting") /\ remote[wk[j].up] = "open"
             /\ remote' = [remote EXCEPT ![wk[j].up] = "object"]
    <2>1. /\ remote' \in [UploadIds -> {"unused", "open", "object", "aborted"}] /\ RemoteForward
          /\ \A v \in UploadIds \ {wk[j].up} : remote'[v] = remote[v]
      BY <1>1, <1>4, RemotePut
    <2>2. \A k \in Jobs \ {j} : TrackKept(k)
      BY <1>1, <2>1, TracksUndisturbed, Places
    <2>3. wk' \in [Jobs -> WorkerState] /\ WorkersAccounted
      BY <1>1, <1>4, <2>1, <2>2, WorkerMoved, Places
    <2> QED BY <1>1, <2>1, <2>3, RemoteMoves
  <1>5. CASE Moved(j, "verify") /\ remote[wk[j].up] = "open"
             /\ remote' = [remote EXCEPT ![wk[j].up] = "object"]
    <2>1. /\ remote' \in [UploadIds -> {"unused", "open", "object", "aborted"}] /\ RemoteForward
          /\ remote'[wk[j].up] = "object"
          /\ \A v \in UploadIds \ {wk[j].up} : remote'[v] = remote[v]
      BY <1>1, <1>5, RemotePut
    <2>2. \A k \in Jobs \ {j} : TrackKept(k)
      BY <1>1, <2>1, TracksUndisturbed, Places
    <2>3. wk' \in [Jobs -> WorkerState] /\ WorkersAccounted
      BY <1>1, <1>5, <2>1, <2>2, WorkerMoved, Places
    <2> QED BY <1>1, <2>1, <2>3, RemoteMoves
  <1> QED BY <1>2, <1>3, <1>4, <1>5

(* A row of transfer_uploads is written, or deleted.                       *)
LEMMA PartPut ==
  ASSUME Tables, NEW u \in UploadIds, NEW x \in PartRows \cup {NoRow},
         rows' = [rows EXCEPT ![u] = x], sweep' \subseteq sweep,
         tracked' = tracked \cup {u}, remote'[u] # "unused", x = NoRow => remote'[u] # "open"
  PROVE  /\ rows' \in [UploadIds -> PartRows \cup {NoRow}] /\ tracked' \subseteq UploadIds
         /\ PartsAccounted /\ \A v \in UploadIds \ {u} : v \in tracked' => v \in tracked
  <1>1. /\ rows' \in [UploadIds -> PartRows \cup {NoRow}] /\ tracked' \subseteq UploadIds
        /\ rows'[u] = x /\ \A v \in UploadIds \ {u} : rows'[v] = rows[v]
    BY DEF Tables
  <1> QED BY <1>1 DEF PartsAccounted

LEMMA TrackInv ==
  ASSUME UploadInv, NEW j \in Jobs, track_multipart(j)
  PROVE  UploadInv'
  <1>1. PICK u \in UploadIds : u = wk[j].up /\ remote[u] # "unused" /\ wk[j].pc = "track"
           /\ remote[u] = "open"
    BY WorkerFields, Places DEF track_multipart, At
  <1>2. UNCHANGED <<job, outbox, receipts, lib, conf, cl, dv, fresh, sweep>> /\ Tables
    BY WorkerFields DEF track_multipart
  <1>3. receipts' \in [Jobs -> [Objects -> UploadIds \cup {NoUp}]] /\ ReceiptsForward
    BY <1>2, Frames DEF Tables
  <1>4. CASE /\ rows' = [rows EXCEPT ![u] =
                           [job |-> j, obj |-> wk[j].obj, desired |-> "running", parts |-> {}]]
             /\ tracked' = tracked \cup {u} /\ Step(j, "check_part") /\ UNCHANGED remote
    <2> DEFINE x == [job |-> j, obj |-> wk[j].obj, desired |-> "running", parts |-> {}]
    <2>1. x \in PartRows
      BY WorkerFields DEF PartRows
    <2>2. rows' = [rows EXCEPT ![u] = x] /\ x # NoRow
      BY <1>4, <2>1, RowsDiffer
    <2> HIDE DEF x
    <2>3. /\ rows' \in [UploadIds -> PartRows \cup {NoRow}] /\ tracked' \subseteq UploadIds
          /\ PartsAccounted
      BY <1>1, <1>2, <1>4, <2>1, <2>2, PartPut
    <2>4. remote' \in [UploadIds -> {"unused", "open", "object", "aborted"}] /\ RemoteForward
      BY <1>2, <1>4, Frames DEF Tables
    <2>5. \A k \in Jobs \ {j} : TrackKept(k)
      BY <1>1, <1>4, TracksUndisturbed, Places
    <2>6. wk' \in [Jobs -> WorkerState] /\ WorkersAccounted
      BY <1>1, <1>4, <2>4, <2>5, WorkerMoved, Places DEF Moved
    <2> QED BY <1>2, <1>3, <2>3, <2>4, <2>6, WorkerStep
  <1>5. CASE /\ remote' = [remote EXCEPT ![u] = "aborted"]
             /\ Fail(j, "settle", "failed_final") /\ UNCHANGED <<rows, tracked>>
    <2>1. /\ remote' \in [UploadIds -> {"unused", "open", "object", "aborted"}] /\ RemoteForward
          /\ \A v \in UploadIds \ {u} : remote'[v] = remote[v]
      BY <1>1, <1>2, <1>5, RemotePut
    <2>2. \A k \in Jobs \ {j} : TrackKept(k)
      BY <1>1, <1>5, <2>1, TracksUndisturbed, Places
    <2>3. wk' \in [Jobs -> WorkerState] /\ WorkersAccounted
      BY <1>5, <2>1, <2>2, WorkerMoved, Places DEF Moved, Terminal
    <2> QED BY <1>2, <1>5, <2>1, <2>3, RemoteMoves
  <1> QED BY <1>1, <1>4, <1>5 DEF track_multipart

(* The worker at one of its steps with a tracked multipart.                *)
LEMMA HoldsTracked ==
  ASSUME UploadInv, NEW j \in Jobs, wk[j].pc \in Holding \ {"track"}
  PROVE  /\ wk[j].up \in UploadIds /\ wk[j].up \in tracked /\ tracked \cup {wk[j].up} = tracked
         /\ remote[wk[j].up] # "unused" /\ wk[j].obj \in Nat /\ Tables /\ Actors
  BY WorkerFields

(* Steps that write the worker's row, or a receipt, and leave the object   *)
(* store alone.                                                            *)
LEMMA RowMoves ==
  ASSUME UploadInv, NEW j \in Jobs, NEW l \in WorkerPlaces, Moved(j, l),
         UNCHANGED <<job, outbox, remote, tracked, lib, conf, cl, dv, fresh, sweep>>,
         receipts' \in [Jobs -> [Objects -> UploadIds \cup {NoUp}]], ReceiptsForward,
         rows' \in [UploadIds -> PartRows \cup {NoRow}], PartsAccounted,
         l \in Holding => wk[j].pc \in Holding \ {"track"}, l \in Made => wk[j].pc \in Made,
         l # "retire_aborted", l # "track"
  PROVE  UploadInv'
  <1>1. RemoteForward /\ (l \in Made => remote'[wk[j].up] = "object")
    BY Frames, WorkerFields
  <1>2. wk' \in [Jobs -> WorkerState] /\ WorkersAccounted
    BY <1>1, WorkerMoved, TracksSame
  <1>3. tracked' \subseteq UploadIds /\ remote' \in [UploadIds -> {"unused", "open", "object", "aborted"}]
    BY WorkerFields DEF Tables
  <1> QED BY <1>1, <1>2, <1>3, WorkerStep

LEMMA ReceiptsSame ==
  ASSUME UploadInv, UNCHANGED receipts
  PROVE  receipts' \in [Jobs -> [Objects -> UploadIds \cup {NoUp}]] /\ ReceiptsForward
  BY Frames DEF UploadInv, Shapes, Tables

LEMMA RecordInv ==
  ASSUME UploadInv, NEW j \in Jobs, record_multipart_part(j)
  PROVE  UploadInv'
  <1>1. /\ UNCHANGED <<job, outbox, receipts, remote, tracked, lib, conf, cl, dv, fresh, sweep>>
        /\ wk[j].pc = "record"
    BY DEF record_multipart_part, At
  <1>2. PICK u \in UploadIds : /\ u = wk[j].up /\ u \in tracked /\ tracked \cup {u} = tracked
                               /\ remote[u] # "unused" /\ Tables
    BY <1>1, HoldsTracked, Places
  <1>3. CASE UNCHANGED rows /\ Fail(j, "mark_aborting", "failed_final")
    <2>1. Moved(j, "mark_aborting")
      BY <1>3 DEF Moved, Terminal
    <2> QED BY <1>1, <1>3, <2>1, WorkerOnly, Places
  <1>4. CASE /\ rows[u] # NoRow /\ rows' = [rows EXCEPT ![u].parts = @ \cup {1}]
             /\ Step(j, "check_complete")
    <2> DEFINE x == [rows[u] EXCEPT !.parts = @ \cup {1}]
    <2>1. rows[u] \in PartRows
      BY <1>2, <1>4 DEF Tables
    <2>2. rows[u].parts \cup {1} \in SUBSET {1}
      BY <2>1 DEF PartRows
    <2>3. x \in PartRows
      BY <2>1, <2>2 DEF PartRows
    <2>4. rows' = [rows EXCEPT ![u] = x] /\ x # NoRow
      BY <1>4, <2>3, RowsDiffer
    <2> HIDE DEF x
    <2>5. rows' \in [UploadIds -> PartRows \cup {NoRow}] /\ PartsAccounted
      BY <1>1, <1>2, <2>3, <2>4, PartPut
    <2> QED BY <1>1, <1>4, <2>5, RowMoves, ReceiptsSame, Places DEF Moved
  <1> QED BY <1>2, <1>3, <1>4 DEF record_multipart_part

LEMMA StageInv ==
  ASSUME UploadInv, NEW j \in Jobs, stage_upload_receipts(j)
  PROVE  UploadInv'
  <1>1. /\ UNCHANGED <<job, outbox, rows, remote, tracked, lib, conf, cl, dv, fresh, sweep>>
        /\ wk[j].pc = "stage"
    BY DEF stage_upload_receipts, At
  <1>2. PICK u \in UploadIds : /\ u = wk[j].up /\ remote[u] = "object" /\ Tables
    BY <1>1, WorkerFields, Places
  <1>3. CASE UNCHANGED receipts /\ Fail(j, "mark_aborting", "failed_final")
    <2>1. Moved(j, "mark_aborting")
      BY <1>3 DEF Moved, Terminal
    <2> QED BY <1>1, <1>3, <2>1, WorkerOnly, Places
  <1>4. CASE /\ receipts' = [receipts EXCEPT ![j][wk[j].obj] = u]
             /\ Step(j, "retire_row")
    <2>1. receipts' \in [Jobs -> [Objects -> UploadIds \cup {NoUp}]]
      BY <1>2, <1>4 DEF Tables
    <2>2. \A i \in Jobs : \A o \in Objects : receipts'[i][o] \in {receipts[i][o], u}
      BY <1>2, <1>4 DEF Tables
    <2>3. ReceiptsForward
      BY <1>1, <1>2, <2>2, UploadConstants DEF ReceiptsForward
    <2>4. rows' \in [UploadIds -> PartRows \cup {NoRow}] /\ PartsAccounted
      BY <1>1, <1>2, Frames DEF Tables
    <2> QED BY <1>1, <1>4, <2>1, <2>3, <2>4, RowMoves, Places DEF Moved
  <1> QED BY <1>2, <1>3, <1>4 DEF stage_upload_receipts

LEMMA FinishMultipartInv ==
  ASSUME UploadInv, NEW j \in Jobs, finish_multipart(j)
  PROVE  UploadInv'
  <1>1. /\ UNCHANGED <<job, outbox, receipts, remote, tracked, lib, conf, cl, dv, fresh, sweep>>
        /\ wk[j].pc = "retire_row"
    BY DEF finish_multipart, At
  <1>2. PICK u \in UploadIds : /\ u = wk[j].up /\ tracked \cup {u} = tracked
                               /\ remote[u] = "object" /\ Tables
    BY <1>1, HoldsTracked, WorkerFields, Places
  <1>3. CASE UNCHANGED rows /\ Fail(j, "mark_aborting", "failed_final")
    <2>1. Moved(j, "mark_aborting")
      BY <1>3 DEF Moved, Terminal
    <2> QED BY <1>1, <1>3, <2>1, WorkerOnly, Places
  <1>4. CASE /\ rows' = [rows EXCEPT ![u] = NoRow]
             /\ wk' = [wk EXCEPT ![j].pc = "check", ![j].obj = @ + 1, ![j].up = NoUp]
    <2> DEFINE x == [wk[j] EXCEPT !.pc = "check", !.obj = @ + 1, !.up = NoUp]
    <2>1. wk[j].obj + 1 \in Nat
      BY WorkerFields
    <2>2. x \in WorkerState /\ x.pc = "check"
      BY <2>1, WorkerFields, Places DEF WorkerState
    <2>3. wk' = [wk EXCEPT ![j] = x]
      BY <1>4, WorkerFields DEF Actors
    <2> HIDE DEF x
    <2>4. wk' \in [Jobs -> WorkerState] /\ WorkersAccounted
      BY <1>1, <2>2, <2>3, WorkerPut, WorkerFields, TracksSame, Places
    <2>5. rows' \in [UploadIds -> PartRows \cup {NoRow}] /\ PartsAccounted
      BY <1>1, <1>2, <1>4, PartPut
    <2>6. /\ remote' \in [UploadIds -> {"unused", "open", "object", "aborted"}] /\ RemoteForward
          /\ tracked' \subseteq UploadIds
      BY <1>1, <1>2, Frames DEF Tables
    <2> QED BY <1>1, <2>4, <2>5, <2>6, ReceiptsSame, WorkerStep
  <1> QED BY <1>2, <1>3, <1>4 DEF finish_multipart

LEMMA MarkInv ==
  ASSUME UploadInv, NEW j \in Jobs, mark_multipart_aborting(j) \/ finish_aborted(j)
  PROVE  UploadInv'
  <1>1. /\ UNCHANGED <<job, outbox, receipts, remote, tracked, lib, conf, cl, dv, fresh, sweep>>
        /\ wk[j].pc \in {"mark_aborting", "retire_aborted"}
    BY DEF mark_multipart_aborting, finish_aborted, At
  <1>2. PICK u \in UploadIds : /\ u = wk[j].up /\ tracked \cup {u} = tracked
                               /\ remote[u] # "unused" /\ Tables
    BY <1>1, HoldsTracked, WorkerFields, Places
  <1>3. CASE mark_multipart_aborting(j)
    <2>1. SetAborting({u}) /\ Moved(j, "abort")
      BY <1>2, <1>3 DEF mark_multipart_aborting, Moved
    <2>2. rows' \in [UploadIds -> PartRows \cup {NoRow}] /\ PartsAccounted
      BY <1>1, <1>2, <2>1, AbortingStep
    <2> QED BY <1>1, <2>1, <2>2, RowMoves, ReceiptsSame, Places
  <1>4. CASE finish_aborted(j)
    <2>1. rows' = [rows EXCEPT ![u] = NoRow] /\ Moved(j, "settle") /\ remote[u] # "open"
      BY <1>2, <1>4, WorkerFields DEF finish_aborted, Moved, At
    <2>2. rows' \in [UploadIds -> PartRows \cup {NoRow}] /\ PartsAccounted
      BY <1>1, <1>2, <2>1, PartPut
    <2> QED BY <1>1, <2>1, <2>2, RowMoves, ReceiptsSame, Places
  <1> QED BY <1>3, <1>4

LEMMA AbortInv ==
  ASSUME UploadInv, NEW j \in Jobs, abort_multipart_after_failure(j)
  PROVE  UploadInv'
  <1>1. /\ UNCHANGED <<job, outbox, receipts, rows, tracked, lib, conf, cl, dv, fresh, sweep>>
        /\ wk[j].pc = "abort"
    BY DEF abort_multipart_after_failure, store, At
  <1>2. PICK u \in UploadIds : /\ u = wk[j].up /\ tracked \cup {u} = tracked
                               /\ remote[u] # "unused" /\ Tables
                               /\ remote[u] \in {"open", "object", "aborted"}
    BY <1>1, HoldsTracked, WorkerFields, Places DEF Tables
  <1> DEFINE gone == IF remote[u] = "open" THEN "aborted" ELSE remote[u]
  <1>3. \/ remote' = [remote EXCEPT ![u] = gone] /\ Moved(j, "retire_aborted")
        \/ remote' = remote /\ Moved(j, "settle")
        \/ (\E r \in {remote[u], gone} : remote' = [remote EXCEPT ![u] = r]) /\ Moved(j, "settle")
    BY <1>2 DEF abort_multipart_after_failure, AbortEffects, Moved
  <1>4. ASSUME NEW r \in {remote[u], gone}, remote' = [remote EXCEPT ![u] = r]
        PROVE  /\ remote' \in [UploadIds -> {"unused", "open", "object", "aborted"}]
               /\ RemoteForward /\ remote'[u] = r /\ \A k \in Jobs \ {j} : TrackKept(k)
    <2>1. /\ r \in {"open", "object", "aborted"} /\ (remote[u] = "object" => r = "object")
          /\ (r = "open" => remote[u] \in {"open", "unused"})
      BY <1>2, <1>4
    <2>2. /\ remote' \in [UploadIds -> {"unused", "open", "object", "aborted"}]
          /\ RemoteForward /\ remote'[u] = r /\ \A v \in UploadIds \ {u} : remote'[v] = remote[v]
      BY <1>2, <1>4, <2>1, RemotePut
    <2>3. \A k \in Jobs \ {j} : TrackKept(k)
      BY <1>1, <1>2, <2>2, TracksUndisturbed, Places
    <2> QED BY <2>2, <2>3
  <1>5. CASE remote' = [remote EXCEPT ![u] = gone] /\ Moved(j, "retire_aborted")
    <2>1. /\ remote' \in [UploadIds -> {"unused", "open", "object", "aborted"}]
          /\ RemoteForward /\ remote'[u] # "open" /\ \A k \in Jobs \ {j} : TrackKept(k)
      BY <1>4, <1>5
    <2>2. wk' \in [Jobs -> WorkerState] /\ WorkersAccounted
      BY <1>1, <1>2, <1>5, <2>1, WorkerMoved, Places
    <2> QED BY <1>1, <2>1, <2>2, RemoteMoves
  <1>6. CASE remote' = remote /\ Moved(j, "settle")
    BY <1>1, <1>6, WorkerOnly, Places
  <1>7. CASE (\E r \in {remote[u], gone} : remote' = [remote EXCEPT ![u] = r]) /\ Moved(j, "settle")
    <2>1. /\ remote' \in [UploadIds -> {"unused", "open", "object", "aborted"}]
          /\ RemoteForward /\ \A k \in Jobs \ {j} : TrackKept(k)
      BY <1>4, <1>7
    <2>2. wk' \in [Jobs -> WorkerState] /\ WorkersAccounted
      BY <1>1, <1>7, <2>1, WorkerMoved, Places
    <2> QED BY <1>1, <2>1, <2>2, RemoteMoves
  <1> QED BY <1>3, <1>5, <1>6, <1>7

(* The end of a worker.                                                    *)
LEMMA FinishUploadInv ==
  ASSUME UploadInv, NEW j \in Jobs, finish_upload(j)
  PROVE  UploadInv'
  <1>1. /\ UNCHANGED <<receipts, rows, remote, tracked, lib, conf, cl, dv, fresh, sweep>>
        /\ Moved(j, "retire_op") /\ Tables /\ Actors
    BY WorkerFields DEF finish_upload, Moved
  <1>2. \/ UNCHANGED <<job, outbox>>
        \/ IsLive(j) /\ \E outcome \in Terminal : Completed(j, outcome)
    <2>1. (IF wk[j].result = "ok" THEN "succeeded" ELSE wk[j].result) \in Terminal
      BY WorkerFields DEF Terminal
    <2> QED BY <2>1 DEF finish_upload, CheckedLive
  <1>3. /\ job' \in [Jobs -> JobRows \cup {NoRow}] /\ JobsForward
        /\ outbox' \in [Jobs -> {"none", "pending", "acked"}] /\ OutcomesAccounted
    <2>1. CASE UNCHANGED <<job, outbox>>
      BY <1>1, <2>1, Frames DEF Tables
    <2>2. CASE IsLive(j) /\ \E outcome \in Terminal : Completed(j, outcome)
      BY <1>1, <2>2, CompletedStep
    <2> QED BY <1>2, <2>1, <2>2
  <1>4. wk' \in [Jobs -> WorkerState] /\ WorkersAccounted
    BY <1>1, WorkerMoved, TracksSame, Frames, Places
  <1>5. Shapes'
    BY <1>1, <1>3, <1>4 DEF Shapes, Tables, Actors
  <1>6. Forward /\ Accounted
    BY <1>1, <1>3, <1>4, Frames DEF Forward, Accounted
  <1> QED BY <1>5, <1>6, StepKept

LEMMA RetireInv ==
  ASSUME UploadInv, NEW j \in Jobs, retire_operation(j)
  PROVE  UploadInv'
  <1>1. /\ UNCHANGED <<job, outbox, receipts, rows, remote, tracked, lib, conf, cl, fresh, sweep>>
        /\ wk' = [wk EXCEPT ![j] = IdleWorker] /\ dv' = [dv EXCEPT ![j].pc = "list"]
        /\ Tables /\ Actors /\ j \in Threads
    BY WorkerFields DEF retire_operation, store, Threads
  <1>2. IdleWorker \in WorkerState /\ IdleWorker.pc = "idle"
    BY DEF IdleWorker, WorkerState, WorkerPlaces
  <1>3. wk' \in [Jobs -> WorkerState] /\ WorkersAccounted
    BY <1>1, <1>2, WorkerPut, WorkerFields, TracksSame, Places
  <1>4. dv' \in [Threads -> DeliveryState] /\ DeliveriesAccounted
    BY <1>1, DeliveryListed, Frames
  <1>5. Shapes'
    BY <1>1, <1>3, <1>4 DEF Shapes, Tables, Actors
  <1>6. Forward /\ Accounted
    BY <1>1, <1>3, <1>4, Frames DEF Forward, Accounted
  <1> QED BY <1>5, <1>6, StepKept

(* Every step of a worker keeps the invariant.                             *)
LEMMA PerformInv ==
  ASSUME UploadInv, NEW j \in Jobs, perform_upload(j)
  PROVE  UploadInv'
  BY CheckInv, InitiateInv, TrackInv, RecordInv, CompleteInv, StageInv, FinishMultipartInv, MarkInv,
     AbortInv, FinishUploadInv, RetireInv DEF perform_upload

LEMMA DismissInv ==
  ASSUME UploadInv, NEW j \in Jobs, dismiss_upload_transfer(j)
  PROVE  UploadInv'
  <1> DEFINE x == [job[j] EXCEPT !.dismissed = TRUE]
  <1>1. /\ UNCHANGED <<outbox, receipts, rows, remote, tracked, lib, conf, cl, wk, dv, fresh, sweep>>
        /\ job' = [job EXCEPT ![j] = x] /\ IsRow(j) /\ Tables /\ Actors
    BY WorkerFields DEF dismiss_upload_transfer, memory, IsTerminal
  <1>2. x \in JobRows /\ x.rev = job[j].rev /\ x.state = job[j].state
    BY <1>1, JobRow DEF JobRows
  <1> HIDE DEF x
  <1>3. job' \in [Jobs -> JobRows \cup {NoRow}] /\ JobsForward
    BY <1>1, <1>2, JobPut
  <1>4. Shapes'
    BY <1>1, <1>3 DEF Shapes, Tables, Actors
  <1>5. Forward /\ Accounted
    BY <1>1, <1>3, Frames, WorkersSame DEF Forward, Accounted
  <1> QED BY <1>4, <1>5, StepKept

-----------------------------------------------------------------------------
(* The delivery of outcomes.                                               *)
LEMMA DeliveryStep ==
  ASSUME UploadInv, UNCHANGED <<job, receipts, rows, remote, tracked, conf, cl, wk, sweep>>,
         outbox' \in [Jobs -> {"none", "pending", "acked"}], OutcomesAccounted,
         lib' \in Entries, EntryAccounted,
         dv' \in [Threads -> DeliveryState], DeliveriesAccounted
  PROVE  UploadInv'
  <1>1. Shapes'
    BY DEF UploadInv, Shapes, Tables, Actors
  <1>2. Forward /\ Accounted
    BY Frames, WorkersSame DEF Forward, Accounted
  <1> QED BY <1>1, <1>2, StepKept

LEMMA LibSame ==
  ASSUME UploadInv, UNCHANGED lib
  PROVE  lib' \in Entries /\ EntryAccounted
  BY Frames DEF UploadInv, Shapes, Tables

LEMMA OutboxSame ==
  ASSUME UploadInv, UNCHANGED outbox
  PROVE  outbox' \in [Jobs -> {"none", "pending", "acked"}] /\ OutcomesAccounted
  BY Frames DEF UploadInv, Shapes, Tables

(* The record of a deliverer that drops a job from its list.               *)
LEMMA DroppedRecord ==
  ASSUME UploadInv, NEW t \in Threads, NEW j
  PROVE  /\ Dropped(t, j) \in DeliveryState /\ Dropped(t, j).pc \in {"idle", "apply"}
         /\ Dropped(t, j).todo \subseteq dv[t].todo
  <1>1. CASE dv[t].todo = {j}
    BY <1>1 DEF Dropped, IdleDelivery, DeliveryState
  <1>2. CASE dv[t].todo # {j}
    <2>1. Dropped(t, j) = [dv[t] EXCEPT !.pc = "apply", !.todo = @ \ {j}, !.at = NoJob]
      BY <1>2 DEF Dropped
    <2>2. dv[t].todo \ {j} \in SUBSET Jobs
      BY DeliveryFields
    <2> QED BY <2>1, <2>2, DeliveryFields DEF DeliveryState
  <1> QED BY <1>1, <1>2

LEMMA DroppedStep ==
  ASSUME UploadInv, NEW t \in Threads, NEW j, dv' = [dv EXCEPT ![t] = Dropped(t, j)],
         job' = job, lib' = lib, fresh' \subseteq fresh
  PROVE  dv' \in [Threads -> DeliveryState] /\ DeliveriesAccounted
  <1>1. \A i \in Dropped(t, j).todo : IsTerminal(i)'
    BY DroppedRecord, DeliveryFields DEF IsTerminal, IsRow
  <1> QED BY <1>1, DroppedRecord, DeliveryFields, DeliveryPut

LEMMA PendingInv ==
  ASSUME UploadInv, NEW t \in Threads, pending_completions(t)
  PROVE  UploadInv'
  <1> DEFINE todo == {j \in Jobs : outbox[j] = "pending"}
             x == IF todo = {} THEN IdleDelivery
                  ELSE [IdleDelivery EXCEPT !.pc = "apply", !.todo = todo]
  <1>1. UNCHANGED <<job, outbox, receipts, rows, remote, tracked, lib, conf, cl, wk, fresh, sweep>>
        /\ dv' = [dv EXCEPT ![t] = x]
    BY DEF pending_completions, store
  <1>2. x \in DeliveryState /\ x.pc \in {"idle", "apply"} /\ x.todo \subseteq todo
    BY DEF IdleDelivery, DeliveryState
  <1>3. \A j \in todo : IsTerminal(j)'
    BY <1>1 DEF UploadInv, OutcomeIsEnd, IsTerminal, IsRow
  <1> HIDE DEF x, todo
  <1>4. dv' \in [Threads -> DeliveryState] /\ DeliveriesAccounted
    BY <1>1, <1>2, <1>3, DeliveryPut, DeliveryFields
  <1> QED BY <1>1, <1>4, DeliveryStep, LibSame, OutboxSame

LEMMA ApplyInv ==
  ASSUME UploadInv, NEW t \in Threads, apply_upload_completion(t)
  PROVE  UploadInv'
  <1>1. UNCHANGED <<job, outbox, receipts, rows, remote, tracked, lib, conf, cl, wk, sweep>>
    BY DEF apply_upload_completion, store
  <1>2. PICK j \in dv[t].todo :
          \/ dv' = [dv EXCEPT ![t] = Dropped(t, j)] /\ fresh' = fresh
          \/ dv' = [dv EXCEPT ![t].pc = "ack", ![t].at = j] /\ fresh' = fresh
          \/ /\ SameRevision(j) /\ (job[j].state = "succeeded" => HasAllReceipts(j))
             /\ dv' = [dv EXCEPT ![t].pc = "write", ![t].at = j] /\ fresh' = fresh \cup {t}
    BY DEF apply_upload_completion
  <1>3. j \in Jobs /\ IsTerminal(j) /\ (\A i \in dv[t].todo : IsTerminal(i)')
    BY <1>1, DeliveryFields DEF IsTerminal, IsRow
  <1>4. ASSUME NEW l \in {"ack", "write"}, dv' = [dv EXCEPT ![t].pc = l, ![t].at = j],
               fresh' \subseteq fresh \cup {t},
               l = "write" => lib.rev = job[j].rev /\ (job[j].state = "succeeded" => HasAllReceipts(j))
        PROVE  dv' \in [Threads -> DeliveryState] /\ DeliveriesAccounted
    <2> DEFINE x == [dv[t] EXCEPT !.pc = l, !.at = j]
    <2>1. x \in DeliveryState /\ x.pc = l /\ x.at = j /\ x.todo = dv[t].todo
      BY <1>3, DeliveryFields DEF DeliveryState
    <2>2. dv' = [dv EXCEPT ![t] = x]
      BY <1>4, DeliveryFields DEF Actors
    <2>3. /\ j \in Jobs /\ job'[j] # NoRow /\ job'[j].state \in Terminal
          /\ l = "write" => /\ job'[j].rev = lib'.rev
                            /\ job'[j].state = "succeeded" => \A o \in Objects : receipts'[j][o] # NoUp
      BY <1>1, <1>3, <1>4 DEF IsTerminal, IsRow, HasAllReceipts
    <2>4. \A s \in Threads \ {t} : s \in fresh' => s \in fresh /\ lib'.rev = lib.rev
      BY <1>1, <1>4
    <2> HIDE DEF x
    <2> QED BY <1>3, <2>1, <2>2, <2>3, <2>4, DeliveryPut, DeliveryFields
  <1>5. dv' \in [Threads -> DeliveryState] /\ DeliveriesAccounted
    <2>1. CASE dv' = [dv EXCEPT ![t] = Dropped(t, j)] /\ fresh' = fresh
      BY <1>1, <2>1, DroppedStep
    <2>2. CASE dv' = [dv EXCEPT ![t].pc = "ack", ![t].at = j] /\ fresh' = fresh
      BY <1>4, <2>2
    <2>3. CASE /\ SameRevision(j) /\ (job[j].state = "succeeded" => HasAllReceipts(j))
               /\ dv' = [dv EXCEPT ![t].pc = "write", ![t].at = j] /\ fresh' = fresh \cup {t}
      BY <1>4, <2>3 DEF SameRevision
    <2> QED BY <1>2, <2>1, <2>2, <2>3
  <1> QED BY <1>1, <1>5, DeliveryStep, LibSame, OutboxSame

LEMMA UpsertInv ==
  ASSUME UploadInv, NEW t \in Threads, upsert_library_entry_if_revision(t)
  PROVE  UploadInv'
  <1>1. UNCHANGED <<job, outbox, receipts, rows, remote, tracked, conf, cl, wk, sweep>>
    BY DEF upsert_library_entry_if_revision, store
  <1>2. PICK j \in Jobs : /\ j = dv[t].at /\ IsTerminal(j) /\ dv[t].pc = "write"
                          /\ t \in fresh => /\ job[j].rev = lib.rev
                                            /\ job[j].state = "succeeded" => HasAllReceipts(j)
    BY DeliveryFields DEF upsert_library_entry_if_revision, UploadInv, DeliveryOk
  <1>3. ASSUME dv' = [dv EXCEPT ![t].pc = "ack"], fresh' \subseteq fresh,
               lib' = lib \/ fresh' = {}
        PROVE  dv' \in [Threads -> DeliveryState] /\ DeliveriesAccounted
    <2> DEFINE x == [dv[t] EXCEPT !.pc = "ack"]
    <2>1. x \in DeliveryState /\ x.pc = "ack" /\ x.at = j /\ x.todo = dv[t].todo
      BY <1>2, DeliveryFields DEF DeliveryState
    <2>2. dv' = [dv EXCEPT ![t] = x]
      BY <1>3
    <2>3. /\ job'[j] # NoRow /\ job'[j].state \in Terminal
          /\ \A i \in dv[t].todo : IsTerminal(i)'
      BY <1>1, <1>2, DeliveryFields DEF IsTerminal, IsRow
    <2> HIDE DEF x
    <2> QED BY <1>3, <2>1, <2>2, <2>3, DeliveryPut, DeliveryFields
  <1>4. CASE /\ t \in fresh /\ lib' = Projected(j) /\ fresh' = {}
             /\ dv' = [dv EXCEPT ![t].pc = "ack"]
    <2>1. lib \in Entries /\ Tables
      BY DeliveryFields DEF Tables
    <2>2. /\ lib'.marker = j /\ lib'.rev = lib.rev
          /\ lib'.status = IF job[j].state = "succeeded" THEN "done" ELSE "failed"
          /\ lib' \in Entries
      BY <1>4, <2>1 DEF Projected, Entries
    <2>3. EntryAccounted
      <3> SUFFICES ASSUME lib'.status = "done" PROVE DoneHasJob' /\ DoneHasReceipts'
        BY DEF EntryAccounted
      <3>1. job[j].state = "succeeded" /\ HasAllReceipts(j) /\ job[j].rev = lib.rev /\ IsRow(j)
        BY <1>2, <1>4, <2>2 DEF IsTerminal
      <3>2. \A o \in Objects : receipts[j][o] # NoUp /\ remote[receipts[j][o]] = "object"
        BY <3>1 DEF UploadInv, ReceiptsAreObjects, HasAllReceipts
      <3> QED BY <1>1, <2>2, <3>1, <3>2 DEF DoneHasJob, DoneHasReceipts, IsRow
    <2>4. dv' \in [Threads -> DeliveryState] /\ DeliveriesAccounted
      BY <1>3, <1>4
    <2> QED BY <1>1, <2>2, <2>3, <2>4, DeliveryStep, OutboxSame
  <1>5. CASE UNCHANGED <<lib, fresh>> /\ dv' = [dv EXCEPT ![t].pc = "ack"]
    <2>1. dv' \in [Threads -> DeliveryState] /\ DeliveriesAccounted
      BY <1>3, <1>5
    <2> QED BY <1>1, <1>5, <2>1, DeliveryStep, OutboxSame, LibSame
  <1>6. CASE lib' = lib /\ fresh' \subseteq fresh /\ dv' = [dv EXCEPT ![t] = Dropped(t, j)]
    <2>1. dv' \in [Threads -> DeliveryState] /\ DeliveriesAccounted
      BY <1>1, <1>6, DroppedStep
    <2> QED BY <1>1, <1>6, <2>1, DeliveryStep, OutboxSame, LibSame
  <1>7. CASE /\ UNCHANGED <<lib, fresh>>
             /\ dv' = [dv EXCEPT ![t] = IF lib = Projected(j) /\ SameRevision(j)
                                        THEN [@ EXCEPT !.pc = "ack"] ELSE Dropped(t, j)]
    BY <1>5, <1>6, <1>7
  <1> QED BY <1>2, <1>4, <1>6, <1>7 DEF upsert_library_entry_if_revision

LEMMA AcknowledgeInv ==
  ASSUME UploadInv, NEW t \in Threads, acknowledge_completion(t)
  PROVE  UploadInv'
  <1>1. PICK j \in Jobs : j = dv[t].at /\ IsTerminal(j)
    BY DeliveryFields DEF acknowledge_completion
  <1>2. /\ UNCHANGED <<job, receipts, rows, remote, tracked, lib, conf, cl, wk, fresh, sweep>>
        /\ outbox' = [outbox EXCEPT ![j] = "acked"] /\ dv' = [dv EXCEPT ![t] = Dropped(t, j)]
    BY <1>1 DEF acknowledge_completion
  <1>3. outbox' \in [Jobs -> {"none", "pending", "acked"}] /\ OutcomesAccounted
    <2>1. IsTerminal(j)'
      BY <1>1, <1>2 DEF IsTerminal, IsRow
    <2> QED BY <1>2, <2>1, DeliveryFields DEF OutcomesAccounted, Tables
  <1>4. dv' \in [Threads -> DeliveryState] /\ DeliveriesAccounted
    BY <1>2, DroppedStep
  <1> QED BY <1>2, <1>3, <1>4, DeliveryStep, LibSame

(* Every step of a deliverer keeps the invariant.                          *)
LEMMA DeliverInv ==
  ASSUME UploadInv, NEW t \in Threads, deliver_terminal_outcomes(t)
  PROVE  UploadInv'
  BY PendingInv, ApplyInv, UpsertInv, AcknowledgeInv DEF deliver_terminal_outcomes

-----------------------------------------------------------------------------
(* The world, the crash and the sweep.                                     *)
LEMMA WorldInv ==
  ASSUME UploadInv, replace_media \/ save_storage_config \/ spawn_upload_lease_reaper
  PROVE  UploadInv'
  <1>1. UNCHANGED <<job, outbox, receipts, rows, remote, tracked, cl, wk, dv, sweep>>
    BY DEF replace_media, save_storage_config, spawn_upload_lease_reaper, store, memory
  <1>2. Tables /\ Actors
    BY DEF UploadInv, Shapes
  <1>3. /\ lib' \in Entries /\ conf' \in Nat
        /\ lib' = lib \/ lib'.status # "done"
        /\ fresh' = {} \/ (fresh' = fresh /\ lib' = lib)
    <2>1. CASE replace_media
      BY <1>2, <2>1 DEF replace_media, Entries, Tables
    <2>2. CASE save_storage_config
      BY <1>2, <2>2 DEF save_storage_config, Tables
    <2>3. CASE spawn_upload_lease_reaper
      BY <1>2, <2>3 DEF spawn_upload_lease_reaper, Tables, memory
    <2> QED BY <2>1, <2>2, <2>3
  <1>4. Shapes'
    BY <1>1, <1>2, <1>3 DEF Shapes, Tables, Actors
  <1>5. Forward /\ Accounted
    BY <1>1, <1>3, Frames, WorkersSame DEF Forward, Accounted, EntryAccounted
  <1> QED BY <1>4, <1>5, StepKept

LEMMA ReconcileInv ==
  ASSUME UploadInv, reconcile_interrupted_uploads
  PROVE  UploadInv'
  <1>1. /\ UNCHANGED <<receipts, conf, remote, tracked>> /\ Tables /\ Actors
        /\ SetAborting(UploadIds) /\ sweep' = {u \in UploadIds : rows[u] # NoRow}
        /\ cl' = [c \in Clients |-> IdleClient] /\ wk' = [j \in Jobs |-> IdleWorker]
        /\ dv' = [t \in Threads |-> IdleDelivery] /\ fresh' = {}
    BY DEF reconcile_interrupted_uploads, UploadInv, Shapes
  <1>2. ASSUME NEW j \in Jobs
        PROVE  /\ job'[j] \in JobRows \cup {NoRow}
               /\ outbox'[j] \in {"none", "pending", "acked"}
               /\ outbox'[j] = outbox[j] \/ IsTerminal(j)'
               /\ IsRow(j) => /\ IsRow(j)' /\ job'[j].rev = job[j].rev
                              /\ IsTerminal(j) => job'[j].state = job[j].state
    <2>1. CASE j \in Interrupted
      <3> DEFINE x == [job[j] EXCEPT !.state = "cancelled", !.version = @ + 1]
      <3>1. job'[j] = x /\ outbox'[j] = "pending" /\ IsLive(j)
        BY <2>1 DEF reconcile_interrupted_uploads, Interrupted
      <3>2. job[j] \in JobRows /\ job[j].version + 1 \in Nat
        BY <1>1, <3>1, JobRow DEF IsLive
      <3>3. "cancelled" \in Terminal /\ "cancelled" \in Live \cup Terminal /\ ~IsTerminal(j)
        BY <3>1 DEF Terminal, IsLive, Live, IsTerminal
      <3>4. x \in JobRows /\ x.state = "cancelled" /\ x.rev = job[j].rev
        BY <3>2, <3>3 DEF JobRows
      <3> HIDE DEF x
      <3>5. IsRow(j)' /\ IsTerminal(j)'
        BY <3>1, <3>3, <3>4, RowsDiffer DEF IsRow, IsTerminal
      <3> QED BY <3>1, <3>3, <3>4, <3>5
    <2>2. CASE j \notin Interrupted
      <3>1. job'[j] = job[j] /\ outbox'[j] = outbox[j]
        BY <2>2 DEF reconcile_interrupted_uploads
      <3> QED BY <1>1, <3>1 DEF Tables, IsRow, IsTerminal
    <2> QED BY <2>1, <2>2
  <1>3. /\ job' \in [Jobs -> JobRows \cup {NoRow}]
        /\ outbox' \in [Jobs -> {"none", "pending", "acked"}]
    <2>1. job' = [j \in Jobs |-> job'[j]] /\ outbox' = [j \in Jobs |-> outbox'[j]]
      BY DEF reconcile_interrupted_uploads
    <2> QED BY <1>2, <2>1
  <1>4. JobsForward /\ OutcomesAccounted
    BY <1>2 DEF JobsForward, OutcomesAccounted
  <1>5. lib' \in Entries /\ (lib' = lib \/ lib'.status # "done")
    <2>1. lib' = lib \/ lib' = [lib EXCEPT !.status = "failed", !.marker = NoJob]
      BY DEF reconcile_interrupted_uploads
    <2> QED BY <1>1, <2>1 DEF Tables, Entries
  <1>6. rows' \in [UploadIds -> PartRows \cup {NoRow}] /\ PartsAccounted
    <2>1. sweep' \subseteq sweep \cup tracked
      BY <1>1 DEF UploadInv, TrackedWasOpened
    <2> QED BY <1>1, <2>1, AbortingStep
  <1>7. cl' \in [Clients -> CommandState] /\ ClientsAccounted
    <2>1. IdleClient \in CommandState /\ IdleClient.job = NoJob /\ IdleClient.pc \notin WithJob
      BY DEF IdleClient, CommandState, CommandPlaces, WithJob
    <2> QED BY <1>1, <2>1 DEF ClientsAccounted, ClientOk
  <1>8. wk' \in [Jobs -> WorkerState] /\ WorkersAccounted
    <2>1. IdleWorker \in WorkerState /\ IdleWorker.pc = "idle"
      BY DEF IdleWorker, WorkerState, WorkerPlaces
    <2>2. \A j \in Jobs : WorkerOk(j)'
      BY <1>1, <2>1, Places DEF WorkerOk
    <2> QED BY <1>1, <2>1, <2>2 DEF WorkersAccounted, TracksApart
  <1>9. dv' \in [Threads -> DeliveryState] /\ DeliveriesAccounted
    <2>1. IdleDelivery \in DeliveryState /\ IdleDelivery.pc = "idle" /\ IdleDelivery.todo = {}
      BY DEF IdleDelivery, DeliveryState
    <2> QED BY <1>1, <2>1 DEF DeliveriesAccounted, DeliveryOk
  <1>10. Shapes'
    BY <1>1, <1>3, <1>5, <1>6, <1>7, <1>8, <1>9 DEF Shapes, Tables, Actors
  <1>11. Forward /\ Accounted
    BY <1>1, <1>4, <1>5, <1>6, <1>7, <1>8, <1>9, Frames DEF Forward, Accounted, EntryAccounted
  <1> QED BY <1>10, <1>11, StepKept

LEMMA SweepInv ==
  ASSUME UploadInv, NEW u \in UploadIds, abort_orphan_multipart_uploads(u)
  PROVE  UploadInv'
  <1>1. /\ UNCHANGED <<job, outbox, receipts, tracked, lib, conf, cl, wk, dv, fresh>>
        /\ sweep' \subseteq sweep /\ Tables /\ Actors
    BY DEF abort_orphan_multipart_uploads, UploadInv, Shapes
  <1>2. u \in tracked /\ tracked \cup {u} = tracked /\ remote[u] \in {"open", "object", "aborted"}
    BY <1>1 DEF abort_orphan_multipart_uploads, UploadInv, TrackedWasOpened, Tables
  <1> DEFINE gone == IF remote[u] = "open" THEN "aborted" ELSE remote[u]
  <1>3. \E r \in {remote[u], gone} :
          /\ remote' = [remote EXCEPT ![u] = r]
          /\ rows' = rows \/ (r = gone /\ rows' = [rows EXCEPT ![u] = NoRow])
    <2>1. [remote EXCEPT ![u] = remote[u]] = remote
      BY <1>1 DEF Tables
    <2> QED BY <2>1 DEF abort_orphan_multipart_uploads, AbortEffects
  <1>4. PICK r \in {remote[u], gone} :
          /\ remote' = [remote EXCEPT ![u] = r]
          /\ rows' = rows \/ (r = gone /\ rows' = [rows EXCEPT ![u] = NoRow])
    BY <1>3
  <1>5. /\ r \in {"open", "object", "aborted"} /\ (remote[u] = "object" => r = "object")
        /\ (r = "open" => remote[u] \in {"open", "unused"})
    BY <1>2, <1>4
  <1>6. /\ remote' \in [UploadIds -> {"unused", "open", "object", "aborted"}]
        /\ RemoteForward /\ remote'[u] = r /\ \A v \in UploadIds \ {u} : remote'[v] = remote[v]
    BY <1>1, <1>4, <1>5, RemotePut
  <1>7. rows' \in [UploadIds -> PartRows \cup {NoRow}] /\ PartsAccounted
    <2>1. CASE rows' = rows
      BY <1>1, <2>1 DEF PartsAccounted, Tables
    <2>2. CASE r = gone /\ rows' = [rows EXCEPT ![u] = NoRow]
      <3>1. remote'[u] # "unused" /\ remote'[u] # "open"
        BY <1>2, <1>6, <2>2
      <3> QED BY <1>1, <1>2, <2>2, <3>1, PartPut
    <2> QED BY <1>4, <2>1, <2>2
  <1>8. WorkersAccounted
    <2>1. ASSUME NEW k \in Jobs, wk[k].pc = "track"
          PROVE  remote'[wk[k].up] = "open" /\ wk[k].up \notin tracked'
      BY <1>1, <1>2, <1>6, <2>1, WorkerFields, Places
    <2> QED BY <1>1, <2>1 DEF WorkersAccounted, TrackKept, UploadInv, TracksApart
  <1>9. Shapes'
    BY <1>1, <1>6, <1>7 DEF Shapes, Tables, Actors
  <1>10. Forward /\ Accounted
    BY <1>1, <1>6, <1>7, <1>8, Frames DEF Forward, Accounted
  <1> QED BY <1>9, <1>10, StepKept

-----------------------------------------------------------------------------
(* What the keys hold.  A second invariant, over the first: the jobs of a  *)
(* command, a worker and a receipt are rows whose bytes are of a revision  *)
(* the library showed by then, and the key of an object that a job of the  *)
(* revision shown now has completed holds those bytes, unless a late       *)
(* completion was the last under it.                                       *)
Shown(d, o) == objects[<<d, o>>].rev = lib.rev \/ objects[<<d, o>>].late
Backs(j, o) ==
    receipts[j][o] # NoUp \/ (wk[j].pc \in {"verify", "stage"} /\ wk[j].obj = o)
Fits(row) ==
    /\ row.rev <= row.digest[1] /\ row.digest[1] <= lib.rev
    /\ row.digest[2] \in Destinations

KeysTyped == objects \in [Destinations \X Objects -> [rev : Nat, late : BOOLEAN]]
ClientsFit ==
    /\ conf \in Destinations
    /\ \A c \in Clients : cl[c].rev <= lib.rev /\ cl[c].conf \in Destinations
JobsFit == \A j \in Jobs : IsRow(j) => Fits(job[j])
WorkerFits(j) ==
    /\ wk[j].pc # "idle" => IsRow(j)
    /\ wk[j].obj # 0
    /\ wk[j].pc \in Holding \cup {"initiate"} => wk[j].obj \in Objects
WorkersFit == \A j \in Jobs : WorkerFits(j)
ReceiptsHaveRows == \A j \in Jobs : \A o \in Objects : receipts[j][o] # NoUp => IsRow(j)
BackedIsShown ==
    \A j \in Jobs : \A o \in Objects :
        IsRow(j) /\ Backs(j, o) /\ Content(j) = lib.rev => Shown(job[j].digest[2], o)
ContentInv ==
    /\ KeysTyped /\ ClientsFit /\ JobsFit /\ WorkersFit
    /\ ReceiptsHaveRows /\ BackedIsShown

(* What a step owes for it: rows keep their bytes, and whoever comes to    *)
(* rely on a key finds the bytes there.                                    *)
JobsSteady ==
    \A j \in Jobs :
        /\ IsRow(j) => IsRow(j)' /\ job'[j].rev = job[j].rev /\ job'[j].digest = job[j].digest
        /\ ~IsRow(j) /\ IsRow(j)' => Fits(job'[j])
BacksSteady ==
    \A j \in Jobs : \A o \in Objects :
        Backs(j, o)' => \/ Backs(j, o) /\ IsRow(j)
                        \/ IsRow(j) /\ (Content(j) = lib.rev => Shown(job[j].digest[2], o)')
KeysSteady ==
    \A d \in Destinations : \A o \in Objects : Shown(d, o) => Shown(d, o)'

LEMMA ContentStep ==
  ASSUME UploadInv, UploadInv', ContentInv, lib'.rev = lib.rev, ClientsFit', KeysTyped',
         JobsSteady, WorkersFit', BacksSteady, KeysSteady
  PROVE  ContentInv'
  <1>1. JobsFit'
    BY DEF JobsFit, ContentInv, JobsSteady, Fits
  <1>2. ReceiptsHaveRows'
    BY DEF ReceiptsHaveRows, BacksSteady, Backs, JobsSteady
  <1>3. BackedIsShown'
    <2> SUFFICES ASSUME NEW j \in Jobs, NEW o \in Objects, IsRow(j)', Backs(j, o)', Content(j)' = lib'.rev
                 PROVE  Shown(job[j].digest[2], o)'
      BY DEF BackedIsShown
    <2>1. IsRow(j) /\ job'[j].digest = job[j].digest /\ Content(j) = lib.rev
      BY DEF BacksSteady, JobsSteady, Content
    <2>2. job[j].digest[2] \in Destinations
      BY <2>1 DEF ContentInv, JobsFit, Fits
    <2>3. Backs(j, o) => Shown(job[j].digest[2], o)
      BY <2>1 DEF ContentInv, BackedIsShown
    <2> QED BY <2>1, <2>2, <2>3 DEF BacksSteady, KeysSteady, Shown
  <1> QED BY <1>1, <1>2, <1>3 DEF ContentInv

(* What a step leaves alone.                                               *)
LEMMA ContentFrames ==
  ASSUME UploadInv, ContentInv
  PROVE  /\ job' = job => JobsSteady
         /\ objects' = objects /\ lib'.rev = lib.rev => KeysSteady /\ KeysTyped'
         /\ cl' = cl /\ conf' = conf /\ lib'.rev = lib.rev => ClientsFit'
         /\ JobsSteady /\ wk' = wk => WorkersFit'
         /\ receipts' = receipts /\ wk' = wk => BacksSteady
  <1>1. job' = job => JobsSteady
    BY DEF JobsSteady, IsRow
  <1>2. objects' = objects /\ lib'.rev = lib.rev => KeysSteady /\ KeysTyped'
    BY DEF KeysSteady, Shown, KeysTyped, ContentInv
  <1>3. cl' = cl /\ conf' = conf /\ lib'.rev = lib.rev => ClientsFit'
    BY DEF ClientsFit, ContentInv
  <1>4. JobsSteady /\ wk' = wk => WorkersFit'
    BY DEF JobsSteady, WorkersFit, WorkerFits, ContentInv
  <1>5. receipts' = receipts /\ wk' = wk => BacksSteady
    <2>1. {"verify", "stage"} \cap {"idle"} = {}
      OBVIOUS
    <2> QED BY <2>1 DEF BacksSteady, Backs, ContentInv, WorkersFit, WorkerFits, ReceiptsHaveRows
  <1> QED BY <1>1, <1>2, <1>3, <1>4, <1>5

(* A job row that gets another state keeps its bytes.                      *)
LEMMA RowSteady ==
  ASSUME Tables, NEW j \in Jobs, IsRow(j), NEW s \in Live \cup Terminal,
         job' = [job EXCEPT ![j].state = s, ![j].version = @ + 1]
  PROVE  JobsSteady
  <1>1. job[j] \in JobRows /\ s # "none"
    BY JobRow DEF Live, Terminal
  <1>2. job'[j] = [job[j] EXCEPT !.state = s, !.version = @ + 1] /\ \A k \in Jobs \ {j} : job'[k] = job[k]
    BY DEF Tables
  <1>3. job'[j].state = s /\ job'[j].rev = job[j].rev /\ job'[j].digest = job[j].digest
    <2> DEFINE old == job[j]
               new == job'[j]
    <2>1. old \in JobRows /\ new = [old EXCEPT !.state = s, !.version = @ + 1]
      BY <1>1, <1>2
    <2> HIDE DEF old, new
    <2>2. new.state = s /\ new.rev = old.rev /\ new.digest = old.digest
      BY ONLY <2>1 DEF JobRows
    <2> QED BY <2>2 DEF old, new
  <1>a. NoRow.state = "none"
    BY DEF NoRow
  <1>4. job'[j] # NoRow
    BY <1>1, <1>3, <1>a
  <1> QED BY <1>2, <1>3, <1>4 DEF JobsSteady, IsRow

LEMMA NewRowSteady ==
  ASSUME Tables, NEW j \in Jobs, ~IsRow(j), NEW x, Fits(x),
         job' = [job EXCEPT ![j] = x]
  PROVE  JobsSteady
  <1>1. job'[j] = x /\ \A k \in Jobs \ {j} : job'[k] = job[k]
    BY DEF Tables
  <1> QED BY <1>1 DEF JobsSteady, IsRow

(* A command leaves the workers, the receipts and the keys alone, and goes *)
(* on with the revision and the destination it has, or those of now.       *)
LEMMA CommandStep ==
  ASSUME UploadInv, UploadInv', ContentInv, JobsSteady,
         UNCHANGED <<receipts, objects, wk, conf>>, lib'.rev = lib.rev,
         \A c \in Clients : /\ cl'[c].rev \in {cl[c].rev, lib.rev, 0}
                            /\ cl'[c].conf \in {cl[c].conf, conf, 1}
  PROVE  ContentInv'
  <1>1. lib.rev \in Nat /\ \A c \in Clients : cl[c].rev \in Nat
    BY DEF UploadInv, Shapes, Tables, Actors, Entries, CommandState
  <1>2. ClientsFit'
    BY <1>1 DEF ClientsFit, ContentInv, Destinations
  <1> QED BY <1>2, ContentFrames, ContentStep

ClientsSteady ==
    \A c \in Clients : /\ cl'[c].rev \in {cl[c].rev, lib.rev, 0}
                       /\ cl'[c].conf \in {cl[c].conf, conf, 1}

LEMMA ClientPutSteady ==
  ASSUME UploadInv, NEW c \in Clients, NEW x, cl' = [cl EXCEPT ![c] = x],
         x.rev \in {cl[c].rev, lib.rev, 0}, x.conf \in {cl[c].conf, conf, 1}
  PROVE  ClientsSteady
  BY ClientFields DEF Actors, ClientsSteady

LEMMA GotoSteady ==
  ASSUME UploadInv, NEW c \in Clients, NEW l, Goto(c, l)
  PROVE  ClientsSteady
  <1> DEFINE x == [cl[c] EXCEPT !.pc = l]
  <1>1. cl' = [cl EXCEPT ![c] = x] /\ x.rev = cl[c].rev /\ x.conf = cl[c].conf
    BY ClientFields DEF Goto, CommandState
  <1> HIDE DEF x
  <1> QED BY <1>1, ClientPutSteady

LEMMA MoveSteady ==
  ASSUME UploadInv, NEW c \in Clients, NEW k, NEW v, NEW new, NEW l,
         \/ cl' = [cl EXCEPT ![c].job = k, ![c].version = v, ![c].new = new, ![c].pc = l]
         \/ cl' = [cl EXCEPT ![c].job = k, ![c].version = v, ![c].new = new,
                     ![c].rev = lib.rev, ![c].pc = l]
         \/ cl' = [cl EXCEPT ![c].pc = l, ![c].give = k]
         \/ cl' = [cl EXCEPT ![c].version = v, ![c].pc = l]
  PROVE  ClientsSteady
  <1> DEFINE x == cl'[c]
  <1>1. cl' = [cl EXCEPT ![c] = x] /\ x.rev \in {cl[c].rev, lib.rev} /\ x.conf = cl[c].conf
    BY ClientFields, SMTT(40) DEF Actors, CommandState
  <1> HIDE DEF x
  <1> QED BY <1>1, ClientPutSteady

LEMMA WithSteady ==
  ASSUME UploadInv, NEW c \in Clients, NEW j, NEW row, NEW new, With(c, j, row, new)
  PROVE  ClientsSteady
  <1> DEFINE l == CASE row.state = "queued" -> "start"
                    [] row.state = "preparing" -> "claim"
                    [] OTHER -> "child"
             v == row.version
  <1>1. cl' = [cl EXCEPT ![c].job = j, ![c].version = v, ![c].new = new, ![c].pc = l]
    BY DEF With
  <1> HIDE DEF l, v
  <1> QED BY <1>1, MoveSteady

LEMMA IdleSteady ==
  ASSUME UploadInv, NEW c \in Clients, cl' = [cl EXCEPT ![c] = IdleClient]
  PROVE  ClientsSteady
  BY ClientPutSteady DEF IdleClient

LEMMA BeginContent ==
  ASSUME UploadInv, UploadInv', ContentInv, NEW c \in Clients,
         \/ upload_entry(c) \/ acquire_upload_lease(c) \/ release_upload_lease(c)
         \/ begin_upload_operation(c) \/ clear_upload_operation(c) \/ request_cancel(c)
         \/ claim_cancelled(c)
         \/ \E j \in Jobs : retry_transfer(c, j) \/ cancel_upload(c, j)
  PROVE  ContentInv'
  <1>1. UNCHANGED <<job, receipts, objects, wk, conf, lib>>
    BY DEF upload_entry, acquire_upload_lease, release_upload_lease, begin_upload_operation,
           clear_upload_operation, request_cancel, claim_cancelled, retry_transfer, cancel_upload,
           store
  <1>2. ClientsSteady
    <2>1. CASE upload_entry(c) \/ \E j \in Jobs : retry_transfer(c, j) \/ cancel_upload(c, j)
      <3>1. CASE upload_entry(c)
        <4> DEFINE x == [IdleClient EXCEPT !.pc = "lease", !.rev = lib.rev, !.conf = conf]
        <4>1. cl' = [cl EXCEPT ![c] = x] /\ x.rev = lib.rev /\ x.conf = conf
          BY <3>1 DEF upload_entry, IdleClient
        <4> HIDE DEF x
        <4> QED BY <4>1, ClientPutSteady
      <3>2. ASSUME NEW j \in Jobs, retry_transfer(c, j) PROVE ClientsSteady
        <4> DEFINE x == [IdleClient EXCEPT !.pc = "lease", !.job = j, !.conf = conf]
        <4>1. cl' = [cl EXCEPT ![c] = x] /\ x.rev = 0 /\ x.conf = conf
          BY <3>2 DEF retry_transfer, IdleClient
        <4> HIDE DEF x
        <4> QED BY <4>1, ClientPutSteady
      <3>3. ASSUME NEW j \in Jobs, cancel_upload(c, j) PROVE ClientsSteady
        <4> DEFINE x == [IdleClient EXCEPT !.pc = "request", !.job = j, !.version = job[j].version]
        <4>1. cl' = [cl EXCEPT ![c] = x] /\ x.rev = 0 /\ x.conf = 1
          BY <3>3 DEF cancel_upload, IdleClient
        <4> HIDE DEF x
        <4> QED BY <4>1, ClientPutSteady
      <3> QED BY <2>1, <3>1, <3>2, <3>3
    <2>2. CASE acquire_upload_lease(c) \/ release_upload_lease(c) \/ clear_upload_operation(c)
               \/ request_cancel(c) \/ claim_cancelled(c)
      BY <2>2, IdleSteady, GotoSteady
         DEF acquire_upload_lease, release_upload_lease, clear_upload_operation, request_cancel,
             claim_cancelled
    <2>3. CASE begin_upload_operation(c)
      <3>1. ASSUME NEW g, cl' = [cl EXCEPT ![c].pc = "undo", ![c].give = g] PROVE ClientsSteady
        BY <3>1, MoveSteady
      <3> QED BY <2>3, <3>1, IdleSteady, GotoSteady DEF begin_upload_operation
    <2> QED BY <2>1, <2>2, <2>3
  <1> QED BY <1>1, <1>2, CommandStep, ContentFrames DEF ClientsSteady

LEMMA CreateContent ==
  ASSUME UploadInv, UploadInv', ContentInv, NEW c \in Clients, create_upload_job(c)
  PROVE  ContentInv'
  <1> DEFINE x == NewJob(cl[c].rev, <<cl[c].rev, cl[c].conf>>, NoJob)
  <1>1. UNCHANGED <<receipts, objects, wk, conf, lib>>
    BY DEF create_upload_job
  <1>2. Fits(x)
    <2>1. cl[c].rev \in Nat /\ cl[c].rev <= lib.rev /\ cl[c].conf \in Destinations
      BY ClientFields DEF ContentInv, ClientsFit
    <2>2. x.rev = cl[c].rev /\ x.digest = <<cl[c].rev, cl[c].conf>>
      BY DEF NewJob
    <2> HIDE DEF x
    <2> QED BY <2>1, <2>2 DEF Fits
  <1>3. /\ job' = job \/ \E j \in Jobs : ~IsRow(j) /\ job' = [job EXCEPT ![j] = x]
        /\ ClientsSteady
    BY GotoSteady, WithSteady DEF create_upload_job
  <1> HIDE DEF x
  <1>4. JobsSteady
    BY <1>2, <1>3, NewRowSteady, ContentFrames, ClientFields
  <1> QED BY <1>1, <1>3, <1>4, CommandStep DEF ClientsSteady

LEMMA ChildContent ==
  ASSUME UploadInv, UploadInv', ContentInv, NEW c \in Clients, start_upload_child(c)
  PROVE  ContentInv'
  <1> DEFINE x == NewJob(job[cl[c].job].rev, <<lib.rev, cl[c].conf>>, cl[c].job)
  <1>1. /\ UNCHANGED <<receipts, objects, wk, conf, lib>>
        /\ cl[c].job \in Jobs /\ IsRow(cl[c].job)
    BY ClientFields DEF start_upload_child, WithJob
  <1>2. Fits(x)
    <2>1. /\ lib.rev \in Nat /\ cl[c].conf \in Destinations
          /\ job[cl[c].job].rev \in Nat /\ job[cl[c].job].digest[1] \in Nat
          /\ Fits(job[cl[c].job])
      <3>1. job[cl[c].job] \in JobRows
        BY <1>1, JobRow, ClientFields
      <3>2. job[cl[c].job].rev \in Nat /\ job[cl[c].job].digest[1] \in Nat
        BY <3>1 DEF JobRows
      <3>3. lib.rev \in Nat
        BY ClientFields DEF Tables, Entries
      <3> QED BY <1>1, <3>2, <3>3 DEF ContentInv, ClientsFit, JobsFit
    <2>2. x.rev = job[cl[c].job].rev /\ x.digest = <<lib.rev, cl[c].conf>>
      BY DEF NewJob
    <2> HIDE DEF x
    <2> QED BY <2>1, <2>2 DEF Fits
  <1>3. /\ job' = job \/ \E j \in Jobs : ~IsRow(j) /\ job' = [job EXCEPT ![j] = x]
        /\ ClientsSteady
    <2>1. CASE Goto(c, "release") /\ UNCHANGED job
      BY <2>1, GotoSteady
    <2>2. ASSUME NEW k \in Jobs, UNCHANGED job,
                 cl' = [cl EXCEPT ![c].job = k, ![c].version = job[k].version,
                          ![c].new = FALSE, ![c].rev = lib.rev,
                          ![c].pc = IF job[k].state = "queued" THEN "start" ELSE "claim"]
          PROVE  job' = job /\ ClientsSteady
      <3> DEFINE l == IF job[k].state = "queued" THEN "start" ELSE "claim"
                 v == job[k].version
      <3>1. cl' = [cl EXCEPT ![c].job = k, ![c].version = v, ![c].new = FALSE,
                     ![c].rev = lib.rev, ![c].pc = l]
        BY <2>2
      <3> HIDE DEF l, v
      <3>2. ClientsSteady
        BY ONLY UploadInv, c \in Clients, k \in Jobs, <3>1, MoveSteady
      <3> QED BY <2>2, <3>2, Zenon
    <2>3. ASSUME NEW k \in Jobs, ~IsRow(k), job' = [job EXCEPT ![k] = x],
                 cl' = [cl EXCEPT ![c].job = k, ![c].version = 1, ![c].new = TRUE,
                          ![c].rev = lib.rev, ![c].pc = "start"]
          PROVE  (\E j \in Jobs : ~IsRow(j) /\ job' = [job EXCEPT ![j] = x]) /\ ClientsSteady
      <3> HIDE DEF x
      <3> QED BY <2>3, MoveSteady
    <2>4. \/ Goto(c, "release") /\ UNCHANGED job
          \/ UNCHANGED job /\ \E k \in Jobs :
               cl' = [cl EXCEPT ![c].job = k, ![c].version = job[k].version,
                        ![c].new = FALSE, ![c].rev = lib.rev,
                        ![c].pc = IF job[k].state = "queued" THEN "start" ELSE "claim"]
          \/ \E k \in Jobs : /\ ~IsRow(k) /\ job' = [job EXCEPT ![k] = x]
                             /\ cl' = [cl EXCEPT ![c].job = k, ![c].version = 1, ![c].new = TRUE,
                                         ![c].rev = lib.rev, ![c].pc = "start"]
      BY Zenon DEF start_upload_child, LiveChild, ChildrenOf
    <2> HIDE DEF x
    <2> QED BY <2>1, <2>2, <2>3, <2>4, Zenon
  <1> HIDE DEF x
  <1>4. JobsSteady
    BY <1>2, <1>3, NewRowSteady, ContentFrames, ClientFields
  <1> QED BY <1>1, <1>3, <1>4, CommandStep DEF ClientsSteady

LEMMA StartContent ==
  ASSUME UploadInv, UploadInv', ContentInv, NEW c \in Clients,
         start_upload_job(c) \/ compensate_new_upload_job(c) \/ cancel_upload_job(c)
  PROVE  ContentInv'
  <1>1. PICK j \in Jobs : j = cl[c].job /\ IsRow(j)
    BY ClientFields DEF start_upload_job, compensate_new_upload_job, cancel_upload_job, WithJob
  <1>2. UNCHANGED <<receipts, objects, wk, conf, lib>> /\ Tables
    BY ClientFields DEF start_upload_job, compensate_new_upload_job, cancel_upload_job
  <1>3. \/ job' = job
        \/ \E s \in Live \cup Terminal : job' = [job EXCEPT ![j].state = s, ![j].version = @ + 1]
    <2>1. "preparing" \in Live \cup Terminal /\ "cancelled" \in Live \cup Terminal
      BY DEF Live, Terminal
    <2> QED BY <1>1, <2>1 DEF start_upload_job, compensate_new_upload_job, cancel_upload_job, Completed
  <1>4. JobsSteady
    BY <1>1, <1>2, <1>3, RowSteady, ContentFrames
  <1>5. ClientsSteady
    <2>1. CASE cl' = [cl EXCEPT ![c].version = @ + 1, ![c].pc = "claim"]
      <3> DEFINE v == cl[c].version + 1
      <3>1. cl' = [cl EXCEPT ![c].version = v, ![c].pc = "claim"]
        BY <2>1
      <3> HIDE DEF v
      <3> QED BY <3>1, MoveSteady
    <2> QED BY <1>1, <2>1, GotoSteady, IdleSteady, WithSteady
            DEF start_upload_job, compensate_new_upload_job, cancel_upload_job
  <1> QED BY <1>2, <1>4, <1>5, CommandStep DEF ClientsSteady

LEMMA SpawnContent ==
  ASSUME UploadInv, UploadInv', ContentInv, NEW c \in Clients, spawn_upload_worker(c)
  PROVE  ContentInv'
  <1>1. PICK j \in Jobs : j = cl[c].job /\ IsRow(j)
    BY ClientFields DEF spawn_upload_worker, WithJob
  <1>2. UNCHANGED <<job, receipts, objects, conf>> /\ Tables /\ Actors /\ lib'.rev = lib.rev
    <2>1. lib' = lib \/ lib' = [lib EXCEPT !.status = "uploading"]
      BY DEF spawn_upload_worker
    <2>2. lib'.rev = lib.rev
      BY <2>1, ClientFields DEF Tables, Entries
    <2> QED BY <2>2, ClientFields DEF spawn_upload_worker, store
  <1>3. ClientsSteady
    BY IdleSteady, GotoSteady DEF spawn_upload_worker
  <1>4. CASE wk' = wk
    BY <1>2, <1>3, <1>4, CommandStep, ContentFrames DEF ClientsSteady
  <1>5. CASE wk' = [wk EXCEPT ![j] = [IdleWorker EXCEPT !.pc = "check", !.version = cl[c].version]]
    <2>1. /\ wk'[j].pc = "check" /\ wk'[j].obj = 1 /\ \A k \in Jobs \ {j} : wk'[k] = wk[k]
      BY <1>2, <1>5 DEF Actors, IdleWorker
    <2>2. WorkersFit'
      BY <1>1, <1>2, <2>1, Places DEF WorkersFit, WorkerFits, ContentInv, IsRow
    <2>3. BacksSteady
      BY <1>2, <2>1 DEF BacksSteady, Backs, ContentInv, WorkersFit, WorkerFits, ReceiptsHaveRows
    <2>4. ClientsFit'
      <3>1. lib.rev \in Nat /\ \A d \in Clients : cl[d].rev \in Nat
        BY DEF UploadInv, Shapes, Tables, Actors, Entries, CommandState
      <3> QED BY <1>2, <1>3, <3>1 DEF ClientsSteady, ClientsFit, ContentInv, Destinations
    <2> QED BY <1>2, <2>2, <2>3, <2>4, ContentFrames, ContentStep
  <1> QED BY <1>1, <1>4, <1>5 DEF spawn_upload_worker

LEMMA CommandContent ==
  ASSUME UploadInv, UploadInv', ContentInv, NEW c \in Clients, command(c)
  PROVE  ContentInv'
  BY BeginContent, CreateContent, ChildContent, StartContent, SpawnContent DEF command

(* A worker that goes to another place keeps the others and its object.    *)
WorkerGoes(j, l) ==
    /\ wk'[j].pc = l /\ wk'[j].obj = wk[j].obj
    /\ \A k \in Jobs \ {j} : wk'[k] = wk[k]

LEMMA MovedGoes ==
  ASSUME UploadInv, NEW j \in Jobs, NEW l, Moved(j, l)
  PROVE  WorkerGoes(j, l)
  <1>1. wk \in [Jobs -> WorkerState] /\ wk[j] \in WorkerState
    BY WorkerFields DEF Actors
  <1>2. CASE Step(j, l)
    BY <1>1, <1>2 DEF Step, WorkerGoes, WorkerState
  <1>3. ASSUME NEW r \in Terminal, Fail(j, l, r) PROVE WorkerGoes(j, l)
    BY <1>1, <1>3 DEF Fail, WorkerGoes, WorkerState
  <1> QED BY <1>2, <1>3 DEF Moved

(* Where a worker may go, with the object it is at.                        *)
GoesFit(j, l) ==
    /\ wk[j].pc # "idle" /\ l \notin {"idle", "verify"}
    /\ l = "stage" => wk[j].pc = "verify"
    /\ l \in Holding => wk[j].pc \in Holding \cup {"initiate"}
    /\ l = "initiate" => wk[j].obj <= NumObjects

LEMMA GoesContent ==
  ASSUME UploadInv, UploadInv', ContentInv, NEW j \in Jobs, NEW l \in WorkerPlaces,
         WorkerGoes(j, l), GoesFit(j, l), JobsSteady, UNCHANGED <<receipts, objects, conf, cl>>,
         lib'.rev = lib.rev
  PROVE  ContentInv'
  <1>1. WorkerFits(j) /\ wk[j].obj \in Nat /\ IsRow(j) /\ IsRow(j)'
    BY WorkerFields DEF ContentInv, WorkersFit, WorkerFits, GoesFit, JobsSteady
  <1>2. l \in Holding \cup {"initiate"} => wk[j].obj \in Objects
    <2>1. CASE l = "initiate"
      BY <1>1, <2>1, UploadConstants DEF GoesFit, Objects, WorkerFits
    <2>2. CASE l \in Holding
      BY <1>1, <2>2 DEF GoesFit, WorkerFits
    <2> QED BY <2>1, <2>2
  <1>3. WorkersFit'
    <2> SUFFICES ASSUME NEW k \in Jobs PROVE WorkerFits(k)'
      BY DEF WorkersFit
    <2>1. CASE k = j
      BY <1>1, <1>2, <2>1 DEF WorkerFits, WorkerGoes
    <2>2. CASE k # j
      BY <2>2 DEF WorkerFits, WorkerGoes, ContentInv, WorkersFit, JobsSteady
    <2> QED BY <2>1, <2>2
  <1>4. BacksSteady
    <2> SUFFICES ASSUME NEW k \in Jobs, NEW o \in Objects, Backs(k, o)' PROVE Backs(k, o) /\ IsRow(k)
      BY DEF BacksSteady
    <2>1. Backs(k, o)
      <3>1. CASE k = j
        BY <3>1 DEF Backs, WorkerGoes, GoesFit
      <3>2. CASE k # j
        BY <3>2 DEF Backs, WorkerGoes
      <3> QED BY <3>1, <3>2
    <2>2. IsRow(k)
      BY <2>1 DEF Backs, ContentInv, WorkersFit, WorkerFits, ReceiptsHaveRows
    <2> QED BY <2>1, <2>2
  <1> QED BY <1>3, <1>4, ContentFrames, ContentStep

LEMMA CheckContent ==
  ASSUME UploadInv, UploadInv', ContentInv, NEW j \in Jobs,
         check_cancelled(j) \/ upload_part(j) \/ verify_completed_object(j)
  PROVE  ContentInv'
  <1>1. UNCHANGED <<job, receipts, objects, conf, cl, lib>>
    BY DEF check_cancelled, upload_part, verify_completed_object, store
  <1>2. \E l \in WorkerPlaces : Moved(j, l) /\ GoesFit(j, l)
    <2>a. {"cancelled", "failed_final", "failed_retryable"} \subseteq Terminal
      BY DEF Terminal
    <2>1. CASE check_cancelled(j) /\ wk[j].pc = "check"
      <3>1. wk[j].obj > NumObjects \/ wk[j].obj <= NumObjects
        BY WorkerFields, UploadConstants
      <3>2. Moved(j, "settle") \/ (Moved(j, "initiate") /\ wk[j].obj <= NumObjects)
        BY <2>1, <3>1, <2>a DEF check_cancelled, Moved, At
      <3> QED BY <2>1, <3>2, Places DEF GoesFit
    <2>2. CASE check_cancelled(j) /\ wk[j].pc \in {"check_part", "check_complete"}
      <3>1. Moved(j, "mark_aborting") \/ Moved(j, "part") \/ Moved(j, "complete")
        BY <2>2, <2>a DEF check_cancelled, Moved, At
      <3> QED BY <2>2, <3>1, Places DEF GoesFit
    <2>3. CASE upload_part(j)
      <3>1. wk[j].pc = "part" /\ (Moved(j, "record") \/ Moved(j, "mark_aborting"))
        BY <2>3, <2>a DEF upload_part, Moved, At
      <3> QED BY <3>1, Places DEF GoesFit
    <2>4. CASE verify_completed_object(j)
      <3>1. wk[j].pc = "verify" /\ (Moved(j, "stage") \/ Moved(j, "mark_aborting"))
        BY <2>4, <2>a DEF verify_completed_object, Moved, At
      <3> QED BY <3>1, Places DEF GoesFit
    <2> QED BY <2>1, <2>2, <2>3, <2>4 DEF check_cancelled
  <1> QED BY <1>1, <1>2, MovedGoes, GoesContent, ContentFrames

LEMMA MultipartContent ==
  ASSUME UploadInv, UploadInv', ContentInv, NEW j \in Jobs,
         \/ initiate_multipart_upload(j) \/ track_multipart(j) \/ record_multipart_part(j)
         \/ mark_multipart_aborting(j) \/ abort_multipart_after_failure(j) \/ finish_aborted(j)
  PROVE  ContentInv'
  <1>1. UNCHANGED <<job, receipts, objects, conf, cl, lib>>
    BY DEF initiate_multipart_upload, track_multipart, record_multipart_part,
           mark_multipart_aborting, abort_multipart_after_failure, finish_aborted, store
  <1>a. {"failed_final", "failed_retryable"} \subseteq Terminal
    BY DEF Terminal
  <1>2. CASE initiate_multipart_upload(j)
    <2>1. wk[j].pc = "initiate"
      BY <1>2 DEF initiate_multipart_upload, At
    <2>2. CASE Fail(j, "settle", "failed_retryable")
      <3>1. Moved(j, "settle") /\ GoesFit(j, "settle")
        BY <1>a, <2>1, <2>2, Places DEF Moved, GoesFit
      <3> QED BY <1>1, <3>1, MovedGoes, GoesContent, ContentFrames, Places
    <2>3. CASE \E u \in UploadIds : wk' = [wk EXCEPT ![j].pc = "track", ![j].up = u]
      <3>1. WorkerGoes(j, "track")
        BY <2>3, WorkerFields DEF WorkerGoes, Actors, WorkerState
      <3>2. GoesFit(j, "track")
        BY <2>1, Places DEF GoesFit
      <3> QED BY <1>1, <3>1, <3>2, GoesContent, ContentFrames, Places
    <2> QED BY <1>2, <2>2, <2>3 DEF initiate_multipart_upload
  <1>3. CASE \/ track_multipart(j) \/ record_multipart_part(j)
             \/ mark_multipart_aborting(j) \/ abort_multipart_after_failure(j) \/ finish_aborted(j)
    <2>1. \E l \in {"check_part", "settle", "check_complete", "mark_aborting", "abort",
                    "retire_aborted"} : Moved(j, l)
      BY <1>3, <1>a DEF track_multipart, record_multipart_part, mark_multipart_aborting,
                        abort_multipart_after_failure, finish_aborted, Moved
    <2>2. wk[j].pc \in Holding
      BY <1>3, Places DEF track_multipart, record_multipart_part, mark_multipart_aborting,
                          abort_multipart_after_failure, finish_aborted, At
    <2>3. PICK l \in WorkerPlaces : Moved(j, l) /\ GoesFit(j, l)
      BY <2>1, <2>2, Places DEF GoesFit
    <2> QED BY <1>1, <2>3, MovedGoes, GoesContent, ContentFrames
  <1> QED BY <1>2, <1>3

(* A completion puts the bytes of its job's revision under the key.        *)
LEMMA CompleteContent ==
  ASSUME UploadInv, UploadInv', ContentInv, NEW j \in Jobs, complete_multipart_upload(j)
  PROVE  ContentInv'
  <1>1. /\ UNCHANGED <<job, receipts, conf, cl, lib>> /\ wk[j].pc = "complete"
        /\ {"failed_final", "failed_retryable"} \subseteq Terminal
    BY DEF complete_multipart_upload, store, At, Terminal
  <1>2. \/ UNCHANGED objects /\ Moved(j, "mark_aborting")
        \/ Landed(j) /\ (Moved(j, "mark_aborting") \/ Moved(j, "verify"))
    BY <1>1 DEF complete_multipart_upload, Moved
  <1>3. CASE UNCHANGED objects /\ Moved(j, "mark_aborting")
    <2>1. GoesFit(j, "mark_aborting")
      BY <1>1, Places DEF GoesFit
    <2> QED BY <1>1, <1>3, <2>1, MovedGoes, GoesContent, ContentFrames, Places
  <1>4. CASE Landed(j) /\ (Moved(j, "mark_aborting") \/ Moved(j, "verify"))
    <2>1. PICK l \in {"mark_aborting", "verify"} : WorkerGoes(j, l)
      BY <1>4, MovedGoes
    <2>2. IsRow(j) /\ wk[j].obj \in Objects /\ wk[j].obj # 0
      BY <1>1, Places DEF ContentInv, WorkersFit, WorkerFits
    <2>3. Fits(job[j]) /\ job[j] \in JobRows
      BY <2>2, JobRow, WorkerFields DEF ContentInv, JobsFit
    <2> DEFINE d == job[j].digest[2]
               key == <<d, wk[j].obj>>
               val == [rev |-> Content(j), late |-> Content(j) # lib.rev]
    <2>4. d \in Destinations /\ Content(j) \in Nat
      BY <2>3 DEF Fits, JobRows, Content
    <2>5. key \in Destinations \X Objects /\ val \in [rev : Nat, late : BOOLEAN]
      BY <2>2, <2>4
    <2>6. objects' = [objects EXCEPT ![key] = val]
      BY <1>4 DEF Landed, upload_object_key
    <2>7. val.rev = lib.rev \/ val.late
      OBVIOUS
    <2> HIDE DEF key, val
    <2>8. /\ KeysTyped' /\ objects'[key] = val
          /\ \A k \in Destinations \X Objects : k # key => objects'[k] = objects[k]
      BY <2>5, <2>6 DEF KeysTyped, ContentInv
    <2>9. KeysSteady /\ Shown(d, wk[j].obj)'
      <3>1. \A e \in Destinations : \A o \in Objects :
              objects'[<<e, o>>] = objects[<<e, o>>] \/ objects'[<<e, o>>] = val
        BY <2>8
      <3>2. KeysSteady
        BY <1>1, <2>7, <3>1 DEF KeysSteady, Shown
      <3>3. objects'[<<d, wk[j].obj>>] = val
        BY <2>8 DEF key
      <3> QED BY <1>1, <2>1, <2>7, <3>2, <3>3 DEF Shown, WorkerGoes
    <2>10. WorkersFit'
      BY <1>1, <2>1, <2>2 DEF ContentInv, WorkersFit, WorkerFits, WorkerGoes, IsRow
    <2>11. BacksSteady
      <3> SUFFICES ASSUME NEW k \in Jobs, NEW o \in Objects, Backs(k, o)'
                   PROVE  \/ Backs(k, o) /\ IsRow(k)
                          \/ IsRow(k) /\ Shown(job[k].digest[2], o)'
        BY DEF BacksSteady
      <3>1. CASE Backs(k, o)
        BY <3>1 DEF Backs, ContentInv, WorkersFit, WorkerFits, ReceiptsHaveRows
      <3>2. CASE ~Backs(k, o)
        <4>1. k = j /\ o = wk[j].obj
          BY <1>1, <2>1, <3>2 DEF Backs, WorkerGoes
        <4> QED BY <1>1, <2>1, <2>2, <2>9, <4>1 DEF Shown, WorkerGoes
      <3> QED BY <3>1, <3>2
    <2> QED BY <1>1, <2>8, <2>9, <2>10, <2>11, ContentFrames, ContentStep
  <1> QED BY <1>2, <1>3, <1>4

LEMMA StageContent ==
  ASSUME UploadInv, UploadInv', ContentInv, NEW j \in Jobs,
         stage_upload_receipts(j) \/ finish_multipart(j)
  PROVE  ContentInv'
  <1>1. /\ UNCHANGED <<job, objects, conf, cl, lib>>
        /\ wk[j].pc \in {"stage", "retire_row"} /\ wk[j].pc \in Holding
        /\ "failed_final" \in Terminal
    BY Places DEF stage_upload_receipts, finish_multipart, At, Terminal
  <1>2. CASE UNCHANGED receipts /\ Fail(j, "mark_aborting", "failed_final")
    <2>1. Moved(j, "mark_aborting") /\ GoesFit(j, "mark_aborting")
      BY <1>1, <1>2, Places DEF Moved, GoesFit
    <2> QED BY <1>1, <1>2, <2>1, MovedGoes, GoesContent, ContentFrames, Places
  <1>3. CASE /\ wk[j].pc = "stage" /\ Step(j, "retire_row")
             /\ receipts' = [receipts EXCEPT ![j][wk[j].obj] = wk[j].up]
    <2>1. WorkerGoes(j, "retire_row")
      BY <1>3, MovedGoes DEF Moved
    <2>2. IsRow(j) /\ wk[j].obj \in Objects /\ wk[j].obj # 0
      BY <1>1 DEF ContentInv, WorkersFit, WorkerFits
    <2>3. WorkersFit'
      BY <1>1, <2>1, <2>2, Places DEF ContentInv, WorkersFit, WorkerFits, WorkerGoes, IsRow
    <2>4. \A k \in Jobs : \A o \in Objects :
            receipts'[k][o] = receipts[k][o] \/ (k = j /\ o = wk[j].obj)
      BY <1>3, WorkerFields DEF Tables
    <2>5. \A k \in Jobs : \A o \in Objects : Backs(k, o)' => Backs(k, o)
      BY <1>3, <2>1, <2>4 DEF Backs, WorkerGoes
    <2>6. BacksSteady
      BY <2>5 DEF BacksSteady, Backs, ContentInv, WorkersFit, WorkerFits, ReceiptsHaveRows
    <2> QED BY <1>1, <2>3, <2>6, ContentFrames, ContentStep
  <1>4. CASE /\ UNCHANGED receipts
             /\ wk' = [wk EXCEPT ![j].pc = "check", ![j].obj = @ + 1, ![j].up = NoUp]
    <2>1. /\ wk'[j].pc = "check" /\ wk'[j].obj = wk[j].obj + 1 /\ wk[j].obj \in Nat
          /\ \A k \in Jobs \ {j} : wk'[k] = wk[k]
      BY <1>4, WorkerFields DEF Actors, WorkerState
    <2>2. IsRow(j)
      BY <1>1 DEF ContentInv, WorkersFit, WorkerFits
    <2>3. WorkersFit'
      BY <1>1, <2>1, <2>2, Places DEF ContentInv, WorkersFit, WorkerFits, IsRow
    <2>4. BacksSteady
      BY <1>4, <2>1 DEF BacksSteady, Backs, ContentInv, WorkersFit, WorkerFits, ReceiptsHaveRows
    <2> QED BY <1>1, <1>4, <2>3, <2>4, ContentFrames, ContentStep
  <1> QED BY <1>2, <1>3, <1>4 DEF stage_upload_receipts, finish_multipart, At

LEMMA FinishContent ==
  ASSUME UploadInv, UploadInv', ContentInv, NEW j \in Jobs,
         finish_upload(j) \/ retire_operation(j)
  PROVE  ContentInv'
  <1>1. UNCHANGED <<receipts, objects, conf, cl, lib>> /\ wk[j].pc \in {"settle", "retire_op"}
    BY DEF finish_upload, retire_operation, store, At
  <1>2. CASE finish_upload(j)
    <2>1. Moved(j, "retire_op") /\ GoesFit(j, "retire_op")
      BY <1>1, <1>2, Places DEF finish_upload, Moved, GoesFit
    <2>2. \/ job' = job
          \/ \E s \in Terminal : job' = [job EXCEPT ![j].state = s, ![j].version = @ + 1]
      <3>1. (IF wk[j].result = "ok" THEN "succeeded" ELSE wk[j].result) \in Terminal
        BY WorkerFields DEF Terminal
      <3> QED BY <1>2, <3>1 DEF finish_upload, Completed
    <2>3. JobsSteady
      <3>1. IsRow(j)
        BY <1>1 DEF ContentInv, WorkersFit, WorkerFits
      <3> QED BY <2>2, <3>1, RowSteady, ContentFrames, WorkerFields
    <2> QED BY <1>1, <2>1, <2>3, MovedGoes, GoesContent, Places
  <1>3. CASE retire_operation(j)
    <2>1. /\ job' = job /\ wk'[j] = IdleWorker /\ \A k \in Jobs \ {j} : wk'[k] = wk[k]
      BY <1>3, WorkerFields DEF retire_operation, store, Actors
    <2>2. IdleWorker.pc = "idle" /\ IdleWorker.obj = 1
      BY DEF IdleWorker
    <2>3. WorkersFit'
      BY <2>1, <2>2, Places DEF ContentInv, WorkersFit, WorkerFits, IsRow
    <2>4. BacksSteady
      BY <1>1, <2>1, <2>2 DEF BacksSteady, Backs, ContentInv, WorkersFit, WorkerFits, ReceiptsHaveRows
    <2> QED BY <1>1, <2>1, <2>3, <2>4, ContentFrames, ContentStep
  <1> QED BY <1>2, <1>3

LEMMA PerformContent ==
  ASSUME UploadInv, UploadInv', ContentInv, NEW j \in Jobs, perform_upload(j)
  PROVE  ContentInv'
  BY CheckContent, MultipartContent, CompleteContent, StageContent, FinishContent DEF perform_upload

(* What touches neither the workers nor the keys: outcomes, dismissals,    *)
(* another destination, the sweep.                                         *)
LEMMA QuietContent ==
  ASSUME UploadInv, UploadInv', ContentInv,
         \/ \E j \in Jobs : dismiss_upload_transfer(j)
         \/ \E t \in Threads : deliver_terminal_outcomes(t)
         \/ spawn_upload_lease_reaper \/ save_storage_config
         \/ \E u \in UploadIds : abort_orphan_multipart_uploads(u)
         \/ UNCHANGED vars
  PROVE  ContentInv'
  <1>1. UNCHANGED <<receipts, objects, cl, wk>>
    BY ZenonT(60) DEF dismiss_upload_transfer, deliver_terminal_outcomes, pending_completions,
           apply_upload_completion, upsert_library_entry_if_revision, acknowledge_completion,
           spawn_upload_lease_reaper, save_storage_config, abort_orphan_multipart_uploads,
           store, memory, vars
  <1>2. lib'.rev = lib.rev
    <2>1. \/ lib' = lib
          \/ \E j : lib' = Projected(j)
      BY ZenonT(60) DEF dismiss_upload_transfer, deliver_terminal_outcomes, pending_completions,
             apply_upload_completion, upsert_library_entry_if_revision, acknowledge_completion,
             spawn_upload_lease_reaper, save_storage_config, abort_orphan_multipart_uploads,
             vars
    <2>2. lib \in Entries
      BY DEF UploadInv, Shapes, Tables
    <2> QED BY <2>1, <2>2 DEF Projected, Entries
  <1>3. JobsSteady
    <2>1. CASE job' = job
      BY <2>1, ContentFrames
    <2>2. ASSUME NEW j \in Jobs, dismiss_upload_transfer(j) PROVE JobsSteady
      <3> DEFINE x == [job[j] EXCEPT !.dismissed = TRUE]
      <3>1. IsRow(j) /\ job' = [job EXCEPT ![j] = x] /\ Tables /\ job[j] \in JobRows
        BY <2>2, JobRow DEF dismiss_upload_transfer, IsTerminal, UploadInv, Shapes
      <3>2. x \in JobRows /\ x.rev = job[j].rev /\ x.digest = job[j].digest
        BY <3>1 DEF JobRows
      <3> HIDE DEF x
      <3>3. job'[j] = x /\ \A k \in Jobs \ {j} : job'[k] = job[k]
        BY <3>1 DEF Tables
      <3> QED BY <3>1, <3>2, <3>3, RowsDiffer DEF JobsSteady, IsRow
    <2> QED BY <2>1, <2>2
         DEF deliver_terminal_outcomes, pending_completions, apply_upload_completion,
             upsert_library_entry_if_revision, acknowledge_completion, store, vars,
             spawn_upload_lease_reaper, save_storage_config, abort_orphan_multipart_uploads
  <1>4. conf' \in {conf, 2}
    BY DEF dismiss_upload_transfer, deliver_terminal_outcomes, pending_completions,
           apply_upload_completion, upsert_library_entry_if_revision, acknowledge_completion,
           spawn_upload_lease_reaper, save_storage_config, abort_orphan_multipart_uploads, vars
  <1>5. ClientsFit'
    BY <1>1, <1>2, <1>4 DEF ClientsFit, ContentInv, Destinations
  <1> QED BY <1>1, <1>2, <1>3, <1>5, ContentFrames, ContentStep, SMTT(40)

(* Once another revision is shown, no job has bytes of the one shown.      *)
LEMMA ReplaceContent ==
  ASSUME UploadInv, UploadInv', ContentInv, replace_media
  PROVE  ContentInv'
  <1>1. /\ UNCHANGED <<job, receipts, objects, cl, wk, conf>>
        /\ lib.rev = 1 /\ lib'.rev = 2
    BY DEF replace_media, store
  <1>2. ClientsFit'
    <2>1. \A c \in Clients : cl[c].rev \in Nat
      BY ClientFields
    <2> QED BY <1>1, <2>1 DEF ClientsFit, ContentInv
  <1>3. \A j \in Jobs : IsRow(j) => Fits(job[j])' /\ Content(j) < 2
    <2>1. ASSUME NEW j \in Jobs, IsRow(j)
          PROVE  job[j].digest[1] \in Nat /\ job[j].rev \in Nat
      <3>1. job[j] \in JobRows
        BY <2>1, JobRow DEF UploadInv, Shapes
      <3> QED BY <3>1 DEF JobRows
    <2> QED BY <1>1, <2>1 DEF ContentInv, JobsFit, Fits, Content
  <1>4. JobsFit' /\ WorkersFit' /\ ReceiptsHaveRows' /\ KeysTyped'
    BY <1>1, <1>3 DEF JobsFit, WorkersFit, WorkerFits, ReceiptsHaveRows, KeysTyped, ContentInv, IsRow
  <1>5. BackedIsShown'
    <2> SUFFICES ASSUME NEW j \in Jobs, IsRow(j), Content(j) = 2 PROVE FALSE
      BY <1>1 DEF BackedIsShown, IsRow, Content
    <2> QED BY <1>3
  <1> QED BY <1>2, <1>4, <1>5 DEF ContentInv

LEMMA ReconcileContent ==
  ASSUME UploadInv, UploadInv', ContentInv, reconcile_interrupted_uploads
  PROVE  ContentInv'
  <1>1. /\ UNCHANGED <<receipts, objects, conf>> /\ Tables
        /\ wk' = [j \in Jobs |-> IdleWorker] /\ cl' = [c \in Clients |-> IdleClient]
    BY DEF reconcile_interrupted_uploads, UploadInv, Shapes
  <1>2. lib'.rev = lib.rev /\ lib.rev \in Nat
    <2>1. lib' = lib \/ lib' = [lib EXCEPT !.status = "failed", !.marker = NoJob]
      BY DEF reconcile_interrupted_uploads
    <2>2. lib \in Entries
      BY <1>1 DEF Tables
    <2>3. lib.rev \in Nat
      BY <2>2 DEF Entries
    <2>4. CASE lib' = lib
      BY <2>3, <2>4
    <2>5. CASE lib' = [lib EXCEPT !.status = "failed", !.marker = NoJob]
      BY <2>2, <2>3, <2>5 DEF Entries
    <2> QED BY <2>1, <2>4, <2>5
  <1>3. JobsSteady
    <2> SUFFICES ASSUME NEW j \in Jobs
                 PROVE  /\ IsRow(j) => /\ IsRow(j)' /\ job'[j].rev = job[j].rev
                                       /\ job'[j].digest = job[j].digest
                        /\ ~IsRow(j) => ~IsRow(j)'
      BY DEF JobsSteady
    <2>1. CASE j \in Interrupted
      <3> DEFINE x == [job[j] EXCEPT !.state = "cancelled", !.version = @ + 1]
      <3>1. job'[j] = x /\ IsRow(j) /\ job[j] \in JobRows
        BY <1>1, <2>1, JobRow DEF reconcile_interrupted_uploads, Interrupted, IsLive
      <3>2. x.state = "cancelled" /\ x.rev = job[j].rev /\ x.digest = job[j].digest
        BY <3>1 DEF JobRows
      <3>3. NoRow.state = "none"
        BY DEF NoRow
      <3> HIDE DEF x
      <3> QED BY <3>1, <3>2, <3>3 DEF IsRow
    <2>2. CASE j \notin Interrupted
      BY <2>2 DEF reconcile_interrupted_uploads, IsRow
    <2> QED BY <2>1, <2>2
  <1>4. ClientsFit'
    BY <1>1, <1>2 DEF ClientsFit, ContentInv, IdleClient, Destinations
  <1>5. IdleWorker.pc = "idle" /\ IdleWorker.obj = 1
    BY DEF IdleWorker
  <1>6. WorkersFit'
    BY <1>1, <1>5, Places DEF WorkersFit, WorkerFits
  <1>7. BacksSteady
    BY <1>1, <1>5 DEF BacksSteady, Backs, ContentInv, ReceiptsHaveRows
  <1> QED BY <1>1, <1>2, <1>3, <1>4, <1>6, <1>7, ContentFrames, ContentStep

LEMMA ContentInit ==
  ASSUME UploadInit
  PROVE  ContentInv
  <1>1. KeysTyped /\ ClientsFit /\ JobsFit
    BY DEF UploadInit, KeysTyped, ClientsFit, JobsFit, IdleClient, Destinations, IsRow
  <1>2. WorkersFit
    BY Places DEF UploadInit, WorkersFit, WorkerFits, IdleWorker
  <1>3. ReceiptsHaveRows /\ BackedIsShown
    BY DEF UploadInit, ReceiptsHaveRows, BackedIsShown, IsRow
  <1> QED BY <1>1, <1>2, <1>3 DEF ContentInv

-----------------------------------------------------------------------------
(* The theorems.                                                           *)
LEMMA UploadInitInv ==
  ASSUME UploadInit
  PROVE  UploadInv
  <1>1. Tables
    BY UploadConstants DEF UploadInit, Tables, Entries
  <1>2. Actors
    <2>1. IdleClient \in CommandState
      BY DEF IdleClient, CommandState, CommandPlaces
    <2>2. IdleWorker \in WorkerState
      BY DEF IdleWorker, WorkerState, WorkerPlaces
    <2>3. IdleDelivery \in DeliveryState
      BY DEF IdleDelivery, DeliveryState
    <2> QED BY <2>1, <2>2, <2>3 DEF UploadInit, Actors
  <1>3. \A c \in Clients : ClientOk(c)
    BY DEF UploadInit, ClientOk, IdleClient, WithJob
  <1>4. \A j \in Jobs : WorkerOk(j)
    BY Places DEF UploadInit, WorkerOk, IdleWorker
  <1>5. \A t \in Threads : DeliveryOk(t)
    BY DEF UploadInit, DeliveryOk, IdleDelivery
  <1>6. OutcomeIsEnd /\ ReceiptsAreObjects /\ TracksApart
    BY DEF UploadInit, OutcomeIsEnd, ReceiptsAreObjects, TracksApart, IdleWorker
  <1>7. TrackedWasOpened /\ RetiredMultipartIsGone /\ DoneHasJob /\ DoneHasReceipts
    BY DEF UploadInit, TrackedWasOpened, RetiredMultipartIsGone, DoneHasJob, DoneHasReceipts
  <1> QED BY <1>1, <1>2, <1>3, <1>4, <1>5, <1>6, <1>7 DEF UploadInv, Shapes

LEMMA UploadStutterInv ==
  ASSUME UploadInv, UNCHANGED vars
  PROVE  UploadInv'
  <1>1. Shapes' /\ JobsForward
    BY Frames DEF vars, store, memory, UploadInv, Shapes, Tables, Actors
  <1>2. UNCHANGED <<job, outbox, receipts, rows, lib, conf, remote, tracked, wk, dv, fresh, sweep>>
        /\ cl' = cl
    BY DEF vars, store, memory
  <1> QED BY <1>1, <1>2, ClientMoves, Frames DEF Shapes, Actors

(* No step of the commands, the workers, the deliverers, the restart or the *)
(* sweep breaks what they rely on of each other.                           *)
THEOREM UploadInvariant == UploadSpec => []UploadInv
  <1>1. UploadInit => UploadInv
    BY UploadInitInv
  <1>2. UploadInv /\ [UploadNext]_vars => UploadInv'
    BY CommandInv, PerformInv, DismissInv, DeliverInv, WorldInv, ReconcileInv, SweepInv,
       UploadStutterInv DEF UploadNext
  <1> QED BY <1>1, <1>2, PTL DEF UploadSpec

(* finish_upload of the store deletes a multipart's row only when the      *)
(* object store holds no open multipart for it, whatever answers of aborts *)
(* and completions were lost, for any number of workers and sweeps.        *)
THEOREM NoMultipartIsLeaked == UploadSpec => []RetiredMultipartIsGone
  <1>1. UploadInv => RetiredMultipartIsGone
    BY DEF UploadInv
  <1> QED BY <1>1, UploadInvariant, PTL

(* Nor do they take from under a job of the revision shown what it has     *)
(* completed, but by a late completion.                                    *)
THEOREM ContentInvariant == UploadSpec => []ContentInv
  <1>1. UploadInit => ContentInv
    BY ContentInit
  <1>2. UploadInv /\ UploadInv' /\ ContentInv /\ [UploadNext]_vars => ContentInv'
    BY CommandContent, PerformContent, QuietContent, ReplaceContent, ReconcileContent
       DEF UploadNext
  <1> QED BY <1>1, <1>2, UploadInvariant, PTL DEF UploadSpec

(* An entry shown as uploaded names a job that succeeded for the revision  *)
(* shown, and the key of every object of it holds the bytes of that        *)
(* revision unless a worker of a replaced revision was the last to write   *)
(* it, however many threads upload and deliver outcomes and whatever is    *)
(* published or configured in between.                                     *)
THEOREM UploadedIsBackedUp == UploadSpec => []DoneIsBackedUp
  <1>1. UploadInv /\ ContentInv => DoneIsBackedUp
    <2> SUFFICES ASSUME UploadInv, ContentInv, lib.status = "done" PROVE DoneIsBackedUp
      BY DEF DoneIsBackedUp
    <2>1. PICK m \in Jobs : m = lib.marker
      BY DEF UploadInv, DoneHasJob
    <2>2. /\ IsRow(m) /\ job[m].state = "succeeded" /\ job[m].rev = lib.rev
          /\ \A o \in Objects : receipts[m][o] # NoUp /\ remote[receipts[m][o]] = "object"
      BY <2>1 DEF UploadInv, DoneHasReceipts
    <2>3. Content(m) = lib.rev
      <3>1. job[m] \in JobRows /\ Fits(job[m])
        BY <2>2, JobRow DEF UploadInv, Shapes, ContentInv, JobsFit
      <3>2. job[m].rev \in Nat /\ job[m].digest[1] \in Nat
        BY <3>1 DEF JobRows
      <3> QED BY <2>2, <3>1, <3>2 DEF Fits, Content
    <2>4. \A o \in Objects : Shown(job[m].digest[2], o)
      BY <2>2, <2>3 DEF ContentInv, BackedIsShown, Backs
    <2> QED BY <2>1, <2>2, <2>4 DEF DoneIsBackedUp, Shown, upload_object_key
  <1> QED BY <1>1, UploadInvariant, ContentInvariant, PTL

=============================================================================
