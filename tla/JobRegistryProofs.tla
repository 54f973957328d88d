------------------------- MODULE JobRegistryProofs -------------------------
(***************************************************************************)
(* Proofs about JobRegistry.                                               *)
(*                                                                         *)
(* LiveIsRegistered is not inductive: it says nothing of a job that a      *)
(* command is bringing into memory or clearing from it, and every command  *)
(* takes several steps over maps that have a mutex each.  RegistryInv adds *)
(* what each command relies on at each of its steps: one that brings a job *)
(* that still runs brings the version of its row, and what it has put in   *)
(* memory is still there (BringsTruth); one that clears or repeats a job   *)
(* holds one that has ended (ClearsEnded).  Of a job that still runs it    *)
(* says that it is in all three maps with the version of its row, or that  *)
(* a command will put it there (Registered), and that one shown as being   *)
(* transferred is queued, held by a worker, or about to be (HasWorker).    *)
(***************************************************************************)
EXTENDS JobRegistry, WellFoundedInduction, TLAPS

\* Commands that bring a job into memory, before and after its entry in jobs
\* is there, and those that clear or repeat one that has ended.
Arrives(t, j) == th[t].job = j /\ th[t].pc \in {"look", "jobs"}
Installing(t, j) == th[t].job = j /\ th[t].pc \in {"control", "cell"}
Bringing == {"look", "jobs", "control", "cell"}
Clearing == {"spawn", "hide", "unhook", "rmjob", "rmcontrol", "rmcell"}

\* What a command that clears or repeats a job relies on: the job has ended.
ClearsEnded(t) ==
    th[t].pc \in Clearing => th[t].job \in Ids /\ row[th[t].job].state \in Terminal

\* What a command that brings a job relies on: what it saw of a job that still
\* runs is that it runs, what it has put in memory is still there, and it
\* brings the version of the row until memory has one.
BringsTruth(t) ==
    th[t].pc \in Bringing =>
        /\ th[t].job \in Ids /\ Exists(th[t].job) /\ th[t].seen # "none"
        /\ th[t].seen \in Terminal => row[th[t].job].state \in Terminal
        /\ row[th[t].job].state \in Live =>
             /\ th[t].pc \in {"control", "cell"} => jobs[th[t].job] # "none"
             /\ th[t].pc = "cell" => th[t].job \in control
             /\ cell[th[t].job] = 0 => th[t].version = row[th[t].job].version

ThreadOk(t) == (th[t].pc = "idle" => th[t].job = 0) /\ ClearsEnded(t) /\ BringsTruth(t)

\* A row that was never created is not in memory, and only a job that has
\* ended is shown as ended or acknowledged.
NoGhost(j) == ~Exists(j) => jobs[j] = "none" /\ cell[j] = 0
EndedIsEnded(j) == row[j].acked \/ jobs[j] \in Terminal => row[j].state \in Terminal

\* The version in memory is that of the row.
CellFollows(j) ==
    row[j].state \in Live => /\ row[j].version # 0 /\ cell[j] \in {0, row[j].version}
                             /\ cell[j] # 0 => j \in control

\* A job that runs is in memory, or a command is about to put it there.
Full(j) == jobs[j] # "none" /\ j \in control /\ cell[j] = row[j].version
Registered(j) ==
    row[j].state \in Live =>
        \/ Full(j)
        \/ jobs[j] = "none" /\ \E t \in Threads : Arrives(t, j)
        \/ jobs[j] # "none" /\ \E t \in Threads : Installing(t, j)

\* One that is shown as transferring has a worker, or will be offered one.
HasWorker(j) ==
    row[j].state \in Live /\ jobs[j] = "transferring" =>
        j \in ready \cup active \/ \E t \in Threads : Installing(t, j)

JobOk(j) == NoGhost(j) /\ EndedIsEnded(j) /\ CellFollows(j) /\ Registered(j) /\ HasWorker(j)

RegistryInv ==
    /\ RegistryTypeOK
    /\ \A t \in Threads : ThreadOk(t)
    /\ \A j \in Ids : JobOk(j)

(* A set of numbers that is not empty has a least one, and a greatest one *)
(* when it is bounded.                                                    *)
LEMMA MinIsIn ==
    ASSUME NEW S \in SUBSET Nat, S # {}
    PROVE  Min(S) \in S /\ \A x \in S : Min(S) <= x
<1>1. PICK m \in S : \A y \in S : ~(<<y, m>> \in OpToRel(<, Nat))
  BY WFMin, NatLessThanWellFounded
<1>2. ASSUME NEW y \in S
      PROVE  m <= y
  <2>1. m \in Nat /\ y \in Nat
    OBVIOUS
  <2>2. ~(<<y, m>> \in {p \in Nat \X Nat : p[1] < p[2]})
    BY <1>1 DEF OpToRel
  <2>3. ~(y < m)
    BY <2>1, <2>2
  <2> QED BY <2>1, <2>3
<1> QED BY <1>2 DEF Min
(* The same for the greatest. *)
LEMMA MaxIsIn ==
    ASSUME NEW n \in Nat, NEW S \in SUBSET (0..n), S # {}
    PROVE  Max(S) \in S /\ \A x \in S : x <= Max(S)
<1> DEFINE T == {k \in Nat : \A x \in S : x <= k}
<1>1. n \in T
  OBVIOUS
<1>2. PICK m \in Nat : (\A x \in S : x <= m) /\ \A k \in T : m <= k
  <2>1. Min(T) \in T /\ \A k \in T : Min(T) <= k
    BY <1>1, MinIsIn
  <2> QED BY <2>1
<1>3. m \in S
  <2> SUFFICES ASSUME m \notin S PROVE FALSE
    OBVIOUS
  <2>1. \A x \in S : x \in Nat /\ x < m
    BY <1>2
  <2>2. m - 1 \in Nat
    <3>1. PICK x \in S : TRUE
      OBVIOUS
    <3> QED BY <2>1, <3>1
  <2>3. m - 1 \in T
    BY <2>1, <2>2
  <2>4. m <= m - 1
    BY <1>2, <2>3
  <2> QED BY <2>4
<1>4. \A x \in S : m >= x
  BY <1>2
<1> QED BY <1>3, <1>4 DEF Max

(* Small facts that the provers are given once. *)
LEMMA Names ==
    /\ Live \subseteq Statuses /\ Terminal \subseteq Statuses /\ "none" \in Statuses
    /\ Live \cap Terminal = {} /\ "none" \notin Live /\ "none" \notin Terminal
    /\ Statuses = Live \cup Terminal \cup {"none"} /\ Outcomes \subseteq Terminal
    /\ Idle \in ThreadState /\ Absent \in JobRow /\ Idle.pc = "idle" /\ Idle.job = 0
    /\ Failures \subseteq Terminal
<1>1. /\ Live \subseteq Statuses /\ Terminal \subseteq Statuses /\ "none" \in Statuses
      /\ Live \cap Terminal = {} /\ "none" \notin Live /\ "none" \notin Terminal
      /\ Outcomes \subseteq Terminal /\ Failures \subseteq Terminal
      /\ Statuses = Live \cup Terminal \cup {"none"}
  BY DEF Live, Statuses, Terminal, Failures, Outcomes
<1>2. Idle \in ThreadState /\ Idle.pc = "idle" /\ Idle.job = 0
  BY <1>1 DEF Idle, ThreadState, Labels
<1>3. Absent \in JobRow
  BY <1>1 DEF Absent, JobRow
<1> QED BY <1>1, <1>2, <1>3

(* The row of a new job. *)
LEMMA NewRowType ==
    ASSUME NEW s \in Sessions \cup {"none"}, NEW p \in Plans \cup {"none"}, NEW i \in Ids \cup {0}
    PROVE  /\ NewRow(s, p, i) \in JobRow /\ NewRow(s, p, i).state = "queued"
           /\ NewRow(s, p, i).version = 1 /\ ~NewRow(s, p, i).acked
  BY DEF NewRow, Absent, JobRow, Statuses, Live

(* A new row takes the place of none. *)
LEMMA FreshRow ==
    ASSUME Unused # {}
    PROVE  Min(Unused) \in Ids /\ ~Exists(Min(Unused))
<1>1. Unused \in SUBSET Nat
  BY DEF Unused, Ids
<1>2. Min(Unused) \in Unused
  BY <1>1, MinIsIn
<1> QED BY <1>2 DEF Unused

(* The latest row of a session is one. *)
LEMMA LatestRow ==
    ASSUME NEW s, OfSession(s) # {}
    PROVE  Max(OfSession(s)) \in Ids /\ Exists(Max(OfSession(s)))
<1>1. OfSession(s) \in SUBSET (0..MaxJobs) /\ MaxJobs \in Nat
  BY RegistryConstants DEF OfSession, Ids
<1>2. Max(OfSession(s)) \in OfSession(s)
  BY <1>1, MaxIsIn
<1> QED BY <1>2 DEF OfSession

(* The retry of a failed job that still runs is a row that runs. *)
LEMMA LatestChild ==
    ASSUME NEW j, LiveChildren(j) # {}
    PROVE  Max(Children(j)) \in Ids /\ row[Max(Children(j))].state \in Live
  BY DEF LiveChildren, Children

(* What a command takes from the store. *)
LEMMA TakesType ==
    ASSUME RegistryTypeOK, row' \in [Ids -> JobRow], NEW t \in Threads, NEW k \in Ids,
           NEW label \in {"look", "jobs"}, NEW gate \in BOOLEAN, Takes(t, label, k, gate)
    PROVE  /\ th' \in [Threads -> ThreadState]
           /\ th'[t].pc = label /\ th'[t].job = k /\ th'[t].seen = row'[k].state
           /\ th'[t].version = row'[k].version /\ \A u \in Threads \ {t} : th'[u] = th[u]
<1>1. row'[k].state \in Statuses /\ row'[k].version \in Nat
  BY DEF JobRow
<1>2. [pc |-> label, job |-> k, seen |-> row'[k].state, version |-> row'[k].version,
       gate |-> gate] \in ThreadState
  BY <1>1 DEF ThreadState, Labels
<1> QED BY <1>2 DEF Takes, RegistryTypeOK

(* Commands go from one step to the next. *)
LEMMA GotoType ==
    ASSUME RegistryTypeOK, NEW t \in Threads, NEW label \in Labels, Goto(t, label)
    PROVE  /\ th' \in [Threads -> ThreadState]
           /\ th'[t].pc = label /\ th'[t].job = th[t].job /\ th'[t].seen = th[t].seen
           /\ th'[t].version = th[t].version /\ \A u \in Threads \ {t} : th'[u] = th[u]
<1>1. th \in [Threads -> ThreadState] /\ th[t] \in ThreadState
  BY DEF RegistryTypeOK
<1>2. [th[t] EXCEPT !.pc = label] \in ThreadState
  BY <1>1 DEF ThreadState
<1>3. th' = [th EXCEPT ![t] = [th[t] EXCEPT !.pc = label]]
  BY DEF Goto
<1>4. /\ [th[t] EXCEPT !.pc = label].pc = label /\ [th[t] EXCEPT !.pc = label].job = th[t].job
      /\ [th[t] EXCEPT !.pc = label].seen = th[t].seen
      /\ [th[t] EXCEPT !.pc = label].version = th[t].version
  BY <1>1 DEF ThreadState
<1> QED BY <1>1, <1>2, <1>3, <1>4

(* A step that leaves a job alone, and every command that brings it, leaves *)
(* it as it should be.                                                      *)
LEMMA JobFrame ==
    ASSUME NEW j \in Ids, JobOk(j), row'[j] = row[j], jobs'[j] = jobs[j], cell'[j] = cell[j],
           j \in control => j \in control', j \in ready \cup active => j \in ready' \cup active',
           \A t \in Threads : th[t].job = j /\ th[t].pc \in Bringing => th'[t] = th[t]
    PROVE  JobOk(j)'
<1>1. NoGhost(j)' /\ EndedIsEnded(j)' /\ CellFollows(j)'
  BY DEF JobOk, NoGhost, EndedIsEnded, CellFollows, Exists
<1>2. \A t \in Threads : /\ Arrives(t, j) => Arrives(t, j)'
                         /\ Installing(t, j) => Installing(t, j)'
  BY DEF Arrives, Installing, Bringing
<1>3. Registered(j)'
  BY <1>2 DEF JobOk, Registered, Full
<1>4. HasWorker(j)'
  BY <1>2 DEF JobOk, HasWorker
<1> QED BY <1>1, <1>3, <1>4 DEF JobOk

\* What a step must keep of a job for the commands that hold it.
Keeps(k) ==
    /\ row'[k].state = row[k].state /\ row'[k].version = row[k].version
    /\ row[k].state \in Live => /\ jobs[k] # "none" => jobs'[k] # "none"
                                /\ k \in control => k \in control'
                                /\ cell'[k] = 0 => cell[k] = 0

(* A command that a step leaves alone stays as it should be. *)
LEMMA ThreadFrame ==
    ASSUME NEW t \in Threads, ThreadOk(t), th'[t] = th[t], th[t].job \in Ids => Keeps(th[t].job)
    PROVE  ThreadOk(t)'
<1>1. ClearsEnded(t)'
  BY DEF ThreadOk, ClearsEnded, Keeps
<1>2. BringsTruth(t)'
  <2> SUFFICES ASSUME th[t].pc \in Bringing
               PROVE  BringsTruth(t)'
    BY DEF BringsTruth
  <2>1. Keeps(th[t].job) /\ th[t].job \in Ids
    BY DEF ThreadOk, BringsTruth
  <2> QED BY <2>1 DEF ThreadOk, BringsTruth, Keeps, Exists
<1> QED BY <1>1, <1>2 DEF ThreadOk

(* A row is created for a command that was not bringing another job. *)
LEMMA CreateStep ==
    ASSUME RegistryInv, NEW t \in Threads, NEW k \in Ids, ~Exists(k), th[t].pc \notin Bringing,
           NEW s \in Sessions \cup {"none"}, NEW p \in Plans \cup {"none"}, NEW i \in Ids \cup {0},
           NEW label \in {"look", "jobs"}, NEW gate \in BOOLEAN,
           row' = [row EXCEPT ![k] = NewRow(s, p, i)], Takes(t, label, k, gate),
           UNCHANGED <<maps, work>>, used' \in [DOMAIN Budget -> Nat]
    PROVE  RegistryInv'
<1>0. /\ RegistryTypeOK /\ row \in [Ids -> JobRow]
      /\ UNCHANGED <<jobs, control, cell, ready, active>>
  BY DEF RegistryInv, RegistryTypeOK, maps, work
<1>n. /\ NewRow(s, p, i) \in JobRow /\ NewRow(s, p, i).state = "queued"
      /\ NewRow(s, p, i).version = 1 /\ ~NewRow(s, p, i).acked
  BY NewRowType
<1>1. /\ row' \in [Ids -> JobRow] /\ row'[k].state = "queued" /\ row'[k].version = 1
      /\ ~row'[k].acked /\ \A j \in Ids \ {k} : row'[j] = row[j]
  BY <1>0, <1>n
<1>2. /\ th' \in [Threads -> ThreadState]
      /\ th'[t].pc = label /\ th'[t].job = k /\ th'[t].seen = row'[k].state
      /\ th'[t].version = row'[k].version /\ \A u \in Threads \ {t} : th'[u] = th[u]
  BY <1>0, <1>1, TakesType
<1>3. RegistryTypeOK'
  BY <1>0, <1>1, <1>2 DEF RegistryTypeOK
<1>4. ASSUME NEW u \in Threads
      PROVE  ThreadOk(u)'
  <2>1. CASE u = t
    BY <1>0, <1>1, <1>2, <2>1 DEF ThreadOk, ClearsEnded, BringsTruth, Bringing, Clearing, Exists, Live,
                                  Terminal, Failures
  <2>2. CASE u # t
    <3>1. ThreadOk(u) /\ th'[u] = th[u] /\ th[u] \in ThreadState
      BY <1>0, <1>2, <2>2 DEF RegistryInv, RegistryTypeOK
    <3>2. th[u].job # k
      <4>1. th[u].pc \in {"idle"} \cup Clearing \cup Bringing
        BY <3>1 DEF ThreadState, Labels, Clearing, Bringing
      <4>2. "none" \notin Terminal /\ 0 \notin Ids
        BY Names DEF Ids
      <4> QED BY <3>1, <4>1, <4>2 DEF ThreadOk, ClearsEnded, BringsTruth, Exists
    <3>3. th[u].job \in Ids => Keeps(th[u].job)
      BY <1>0, <1>1, <3>2 DEF Keeps
    <3> QED BY <3>1, <3>3, ThreadFrame
  <2> QED BY <2>1, <2>2
<1>5. ASSUME NEW j \in Ids
      PROVE  JobOk(j)'
  <2>1. CASE j # k
    <3>1. \A u \in Threads : th[u].job = j /\ th[u].pc \in Bringing => th'[u] = th[u]
      BY <1>2
    <3>2. JobOk(j) /\ row'[j] = row[j]
      BY <1>1, <2>1 DEF RegistryInv
    <3> QED BY <1>0, <3>1, <3>2, JobFrame
  <2>2. CASE j = k
    <3>1. jobs[k] = "none" /\ cell[k] = 0
      BY DEF RegistryInv, JobOk, NoGhost
    <3>2. Arrives(t, k)'
      BY <1>2 DEF Arrives
    <3>3. Registered(k)' /\ HasWorker(k)'
      BY <1>0, <3>1, <3>2 DEF Registered, HasWorker
    <3>4. NoGhost(k)' /\ EndedIsEnded(k)' /\ CellFollows(k)'
      BY <1>0, <1>1, <3>1, Names DEF NoGhost, EndedIsEnded, CellFollows, Exists
    <3> QED BY <2>2, <3>3, <3>4 DEF JobOk
  <2> QED BY <2>1, <2>2
<1> QED BY <1>3, <1>4, <1>5 DEF RegistryInv

(* A row is found by a command that was not bringing another job. *)
LEMMA FindStep ==
    ASSUME RegistryInv, NEW t \in Threads, NEW k \in Ids, Exists(k), th[t].pc \notin Bringing,
           NEW gate \in BOOLEAN, row' = row, Takes(t, "look", k, gate),
           UNCHANGED <<maps, work>>, used' \in [DOMAIN Budget -> Nat]
    PROVE  RegistryInv'
<1>0. /\ RegistryTypeOK /\ row' \in [Ids -> JobRow] /\ row[k].state \in Statuses
      /\ UNCHANGED <<row, jobs, control, cell, ready, active>>
  BY DEF RegistryInv, RegistryTypeOK, maps, work, JobRow
<1>2. /\ th' \in [Threads -> ThreadState]
      /\ th'[t].pc = "look" /\ th'[t].job = k /\ th'[t].seen = row'[k].state
      /\ th'[t].version = row'[k].version /\ \A u \in Threads \ {t} : th'[u] = th[u]
  BY <1>0, TakesType
<1>3. RegistryTypeOK'
  BY <1>0, <1>2 DEF RegistryTypeOK
<1>4. ASSUME NEW u \in Threads
      PROVE  ThreadOk(u)'
  <2>1. CASE u = t
    BY <1>0, <1>2, <2>1 DEF ThreadOk, ClearsEnded, BringsTruth, Bringing, Clearing, Exists
  <2>2. CASE u # t
    <3>1. ThreadOk(u) /\ th'[u] = th[u]
      BY <1>2, <2>2 DEF RegistryInv
    <3>2. th[u].job \in Ids => Keeps(th[u].job)
      BY <1>0 DEF Keeps
    <3> QED BY <3>1, <3>2, ThreadFrame
  <2> QED BY <2>1, <2>2
<1>5. ASSUME NEW j \in Ids
      PROVE  JobOk(j)'
  <2>1. \A u \in Threads : th[u].job = j /\ th[u].pc \in Bringing => th'[u] = th[u]
    BY <1>2
  <2>2. JobOk(j)
    BY DEF RegistryInv
  <2> QED BY <1>0, <2>1, <2>2, JobFrame
<1> QED BY <1>3, <1>4, <1>5 DEF RegistryInv

\* A step touches one job of the maps and of the queue.
OnlyTouches(k) ==
    \A j \in Ids \ {k} : /\ row'[j] = row[j] /\ jobs'[j] = jobs[j] /\ cell'[j] = cell[j]
                         /\ j \in control => j \in control'
                         /\ j \in ready \cup active => j \in ready' \cup active'

(* A step of one command on one job: what remains to be shown is that this *)
(* job and this command are as they should be.                             *)
LEMMA CommandStep ==
    ASSUME RegistryInv, RegistryTypeOK', NEW t \in Threads, NEW k \in Ids,
           \A u \in Threads \ {t} : th'[u] = th[u], th[t].pc \in Bringing => th[t].job = k,
           OnlyTouches(k), Keeps(k), ThreadOk(t)', JobOk(k)'
    PROVE  RegistryInv'
<1>1. ASSUME NEW j \in Ids, j # k
      PROVE  Keeps(j)
  BY <1>1 DEF OnlyTouches, Keeps
<1>2. ASSUME NEW u \in Threads
      PROVE  ThreadOk(u)'
  <2>1. CASE u # t
    <3>1. ThreadOk(u) /\ th'[u] = th[u]
      BY <2>1 DEF RegistryInv
    <3>2. th[u].job \in Ids => Keeps(th[u].job)
      BY <1>1
    <3> QED BY <3>1, <3>2, ThreadFrame
  <2> QED BY <2>1
<1>3. ASSUME NEW j \in Ids
      PROVE  JobOk(j)'
  <2>1. CASE j # k
    <3>1. \A u \in Threads : th[u].job = j /\ th[u].pc \in Bringing => th'[u] = th[u]
      BY <2>1
    <3>2. /\ JobOk(j) /\ row'[j] = row[j] /\ jobs'[j] = jobs[j] /\ cell'[j] = cell[j]
          /\ j \in control => j \in control'
          /\ j \in ready \cup active => j \in ready' \cup active'
      BY <2>1 DEF RegistryInv, OnlyTouches
    <3> QED BY <3>1, <3>2, JobFrame
  <2> QED BY <2>1
<1> QED BY <1>2, <1>3 DEF RegistryInv

(* Going back to rest. *)
LEMMA RestType ==
    ASSUME RegistryTypeOK, NEW t \in Threads, th' = [th EXCEPT ![t] = Idle]
    PROVE  /\ th' \in [Threads -> ThreadState] /\ th'[t].pc = "idle" /\ th'[t].job = 0
           /\ (\A u \in Threads \ {t} : th'[u] = th[u]) /\ ThreadOk(t)'
<1>1. /\ th' \in [Threads -> ThreadState] /\ th'[t].pc = "idle" /\ th'[t].job = 0
      /\ \A u \in Threads \ {t} : th'[u] = th[u]
  BY Names DEF RegistryTypeOK
<1>2. ThreadOk(t)'
  BY <1>1 DEF ThreadOk, ClearsEnded, BringsTruth, Clearing, Bringing
<1> QED BY <1>1, <1>2

(* The steps of a command that brings a job. *)
LEMMA BringStep ==
    ASSUME RegistryInv, NEW t \in Threads,
           contains_key(t) \/ insert_job(t) \/ insert_control(t) \/ insert_cell(t)
    PROVE  RegistryInv'
<1>k. PICK k \in Ids : k = th[t].job
  BY DEF RegistryInv, ThreadOk, BringsTruth, contains_key, insert_job, insert_control, insert_cell,
         Bringing
<1> USE <1>k
<1>0. /\ RegistryTypeOK /\ row \in [Ids -> JobRow] /\ jobs \in [Ids -> Statuses]
      /\ cell \in [Ids -> Nat] /\ control \subseteq Ids /\ ready \subseteq Ids
      /\ active \subseteq Ids /\ th[t] \in ThreadState /\ used \in [DOMAIN Budget -> Nat]
  BY DEF RegistryInv, RegistryTypeOK
<1>1. /\ k \in Ids /\ Exists(k) /\ th[t].seen # "none" /\ th[t].pc \in Bringing
      /\ th[t].seen \in Terminal => row[k].state \in Terminal
      /\ row[k].state \in Live =>
           /\ th[t].pc \in {"control", "cell"} => jobs[k] # "none"
           /\ th[t].pc = "cell" => k \in control
           /\ cell[k] = 0 => th[t].version = row[k].version
  BY DEF RegistryInv, ThreadOk, BringsTruth, contains_key, insert_job, insert_control, insert_cell,
         Bringing
<1>2. th[t].seen \in Statuses /\ th[t].version \in Nat /\ row[k] \in JobRow /\ JobOk(k)
  BY <1>0, <1>1 DEF ThreadState, RegistryInv
<1>3. row[k].state \in Live => th[t].seen \in Live
  BY <1>1, <1>2, Names
<1>4. row[k].state \in Live \/ row[k].state \in Terminal
  BY <1>1, <1>2, Names DEF JobRow, Exists
<1>5. {"jobs", "control", "cell"} \subseteq Labels
  BY DEF Labels
<1>6. CASE contains_key(t)
  <2>1. UNCHANGED <<row, jobs, control, cell, ready, active, used>>
    BY <1>6 DEF contains_key, maps, work
  <2>2. OnlyTouches(k) /\ Keeps(k)
    BY <2>1 DEF OnlyTouches, Keeps
  <2>3. CASE Installs(t)
    <3>1. Goto(t, "jobs")
      BY <1>6, <2>3 DEF contains_key
    <3>2. /\ th' \in [Threads -> ThreadState]
          /\ th'[t].pc = "jobs" /\ th'[t].job = th[t].job /\ th'[t].seen = th[t].seen
          /\ th'[t].version = th[t].version /\ \A u \in Threads \ {t} : th'[u] = th[u]
      BY <1>0, <1>5, <3>1, GotoType
    <3>3. RegistryTypeOK'
      BY <1>0, <2>1, <3>2 DEF RegistryTypeOK
    <3>4. ThreadOk(t)'
      BY <1>1, <2>1, <3>2 DEF ThreadOk, ClearsEnded, BringsTruth, Bringing, Clearing, Exists
    <3>5. JobOk(k)'
      <4>1. jobs[k] = "none" /\ Arrives(t, k)'
        BY <2>3, <3>2 DEF Installs, Arrives
      <4>2. Registered(k)' /\ HasWorker(k)'
        BY <2>1, <3>2, <4>1 DEF Registered, HasWorker
      <4> QED BY <1>2, <2>1, <3>2, <4>2 DEF JobOk, NoGhost, EndedIsEnded, CellFollows, Exists
    <3> QED BY <1>1, <2>2, <3>2, <3>3, <3>4, <3>5, CommandStep
  <2>4. CASE ~Installs(t)
    <3>1. th' = [th EXCEPT ![t] = Idle] /\ th[t].pc = "look"
      BY <1>6, <2>4 DEF contains_key
    <3>2. /\ th' \in [Threads -> ThreadState] /\ th'[t].pc = "idle" /\ th'[t].job = 0
          /\ (\A u \in Threads \ {t} : th'[u] = th[u]) /\ ThreadOk(t)'
      BY <1>0, <3>1, RestType
    <3>3. RegistryTypeOK'
      BY <1>0, <2>1, <3>2 DEF RegistryTypeOK
    <3>4. JobOk(k)'
      <4>1. row[k].state \in Live => jobs[k] # "none"
        BY <1>3, <2>4 DEF Installs
      <4>2. \A u \in Threads : Installing(u, k) => Installing(u, k)'
        BY <3>1, <3>2 DEF Installing
      <4>3. Registered(k)' /\ HasWorker(k)'
        BY <1>2, <2>1, <4>1, <4>2 DEF JobOk, Registered, HasWorker, Full
      <4> QED BY <1>2, <2>1, <4>3 DEF JobOk, NoGhost, EndedIsEnded, CellFollows, Exists
    <3> QED BY <1>1, <2>2, <3>2, <3>3, <3>4, CommandStep
  <2> QED BY <2>3, <2>4
<1>7. CASE insert_job(t)
  <2>1. /\ UNCHANGED <<row, control, cell, ready, active, used>> /\ Goto(t, "control")
        /\ jobs' = [jobs EXCEPT ![k] = th[t].seen]
    BY <1>7 DEF insert_job, work
  <2>2. /\ th' \in [Threads -> ThreadState]
        /\ th'[t].pc = "control" /\ th'[t].job = th[t].job /\ th'[t].seen = th[t].seen
        /\ th'[t].version = th[t].version /\ \A u \in Threads \ {t} : th'[u] = th[u]
    BY <1>0, <1>5, <2>1, GotoType
  <2>3. jobs' \in [Ids -> Statuses] /\ jobs'[k] = th[t].seen
    BY <1>0, <1>1, <1>2, <2>1
  <2>4. RegistryTypeOK'
    BY <1>0, <2>1, <2>2, <2>3 DEF RegistryTypeOK
  <2>5. OnlyTouches(k) /\ Keeps(k)
    BY <1>0, <1>1, <2>1, <2>3 DEF OnlyTouches, Keeps
  <2>6. ThreadOk(t)'
    BY <1>1, <2>1, <2>2, <2>3 DEF ThreadOk, ClearsEnded, BringsTruth, Bringing, Clearing, Exists
  <2>7. JobOk(k)'
    <3>1. Installing(t, k)'
      BY <2>2 DEF Installing
    <3>2. Registered(k)' /\ HasWorker(k)'
      BY <1>1, <2>3, <3>1 DEF Registered, HasWorker
    <3> QED BY <1>1, <1>2, <2>1, <2>3, <3>2 DEF JobOk, NoGhost, EndedIsEnded, CellFollows, Exists
  <2> QED BY <1>1, <2>2, <2>4, <2>5, <2>6, <2>7, CommandStep
<1>8. CASE insert_control(t)
  <2>1. /\ UNCHANGED <<row, jobs, cell, ready, active, used>> /\ Goto(t, "cell")
        /\ control' = control \cup {k} /\ th[t].pc = "control"
    BY <1>8 DEF insert_control, work
  <2>2. /\ th' \in [Threads -> ThreadState]
        /\ th'[t].pc = "cell" /\ th'[t].job = th[t].job /\ th'[t].seen = th[t].seen
        /\ th'[t].version = th[t].version /\ \A u \in Threads \ {t} : th'[u] = th[u]
    BY <1>0, <1>5, <2>1, GotoType
  <2>4. RegistryTypeOK'
    BY <1>0, <1>1, <2>1, <2>2 DEF RegistryTypeOK
  <2>5. OnlyTouches(k) /\ Keeps(k)
    BY <2>1 DEF OnlyTouches, Keeps
  <2>6. ThreadOk(t)'
    BY <1>1, <2>1, <2>2 DEF ThreadOk, ClearsEnded, BringsTruth, Bringing, Clearing, Exists
  <2>7. JobOk(k)'
    <3>1. Installing(t, k)'
      BY <2>2 DEF Installing
    <3>2. Registered(k)' /\ HasWorker(k)'
      BY <1>1, <2>1, <3>1 DEF Registered, HasWorker
    <3> QED BY <1>2, <2>1, <3>2 DEF JobOk, NoGhost, EndedIsEnded, CellFollows, Exists
  <2> QED BY <1>1, <2>2, <2>4, <2>5, <2>6, <2>7, CommandStep
<1>9. CASE insert_cell(t)
  <2>1. /\ UNCHANGED <<row, jobs, control, active, used>> /\ th' = [th EXCEPT ![t] = Idle]
        /\ cell' = [cell EXCEPT ![k] = IF cell[k] = 0 THEN th[t].version ELSE cell[k]]
        /\ ready' = (IF th[t].seen \in Live THEN ready \cup {k} ELSE ready) /\ th[t].pc = "cell"
    BY <1>9 DEF insert_cell
  <2>2. /\ th' \in [Threads -> ThreadState] /\ th'[t].pc = "idle" /\ th'[t].job = 0
        /\ (\A u \in Threads \ {t} : th'[u] = th[u]) /\ ThreadOk(t)'
    BY <1>0, <2>1, RestType
  <2>3. /\ cell' \in [Ids -> Nat] /\ ready' \subseteq Ids
        /\ cell'[k] = IF cell[k] = 0 THEN th[t].version ELSE cell[k]
    BY <1>0, <1>1, <1>2, <2>1
  <2>4. RegistryTypeOK'
    BY <1>0, <2>1, <2>2, <2>3 DEF RegistryTypeOK
  <2>5. OnlyTouches(k) /\ Keeps(k)
    BY <1>0, <2>1, <2>3 DEF OnlyTouches, Keeps
  <2>6. JobOk(k)'
    <3>1. row[k].state \in Live => Full(k)' /\ k \in ready' /\ row[k].version # 0
      BY <1>1, <1>2, <1>3, <2>1, <2>3 DEF JobOk, CellFollows, Full
    <3>2. Registered(k)' /\ HasWorker(k)' /\ CellFollows(k)'
      BY <2>1, <3>1 DEF Registered, HasWorker, CellFollows, Full
    <3>3. NoGhost(k)' /\ EndedIsEnded(k)'
      BY <1>1, <1>2, <2>1 DEF JobOk, NoGhost, EndedIsEnded, Exists
    <3> QED BY <3>2, <3>3 DEF JobOk
  <2> QED BY <1>1, <2>2, <2>4, <2>5, <2>6, CommandStep
<1> QED BY <1>6, <1>7, <1>8, <1>9

(* Counting an event. *)
LEMMA SpendType ==
    ASSUME used \in [DOMAIN Budget -> Nat], NEW event, Spend(event)
    PROVE  used' \in [DOMAIN Budget -> Nat]
<1>1. ASSUME NEW D, NEW f \in [D -> Nat]
      PROVE  [f EXCEPT ![event] = f[event] + 1] \in [D -> Nat]
  <2>1. \A x \in D : f[x] \in Nat /\ f[x] + 1 \in Nat
    BY <1>1
  <2> QED BY <1>1, <2>1
<1>2. used' = [used EXCEPT ![event] = used[event] + 1]
  BY DEF Spend
<1> HIDE DEF Spend
<1> QED BY <1>1, <1>2

(* A command that works on a job that has ended: nothing is asked of that *)
(* job but that it stays ended, and is not taken for one that was never   *)
(* created.                                                               *)
LEMMA EndedJob ==
    ASSUME NEW k \in Ids, row'[k].state \in Terminal
    PROVE  JobOk(k)'
<1>1. row'[k].state \notin Live /\ row'[k].state # "none"
  BY Names
<1> QED BY <1>1 DEF JobOk, NoGhost, EndedIsEnded, CellFollows, Registered, HasWorker, Exists

(* A command that goes on to clear a job that has ended. *)
LEMMA ClearingOk ==
    ASSUME NEW t \in Threads, th'[t].pc \in Clearing, th'[t].job \in Ids,
           row'[th'[t].job].state \in Terminal
    PROVE  ThreadOk(t)'
<1>1. th'[t].pc # "idle" /\ th'[t].pc \notin Bringing
  BY DEF Clearing, Bringing
<1> QED BY <1>1 DEF ThreadOk, ClearsEnded, BringsTruth

(* A thread at rest starts to clear or repeat a job that has ended. *)
LEMMA StartsClearing ==
    ASSUME RegistryInv, NEW t \in Threads, NEW k \in Ids, th[t].pc = "idle",
           row[k].state \in Terminal, NEW new \in ThreadState, new.pc \in {"spawn", "hide"},
           new.job = k, th' = [th EXCEPT ![t] = new],
           UNCHANGED <<row, maps, work>>, used' \in [DOMAIN Budget -> Nat]
    PROVE  RegistryInv'
<1>0. /\ RegistryTypeOK /\ th \in [Threads -> ThreadState] /\ th[t].pc \notin Bringing
      /\ UNCHANGED <<row, jobs, control, cell, ready, active>>
  BY DEF RegistryInv, RegistryTypeOK, maps, work, Bringing
<1>2. /\ th' \in [Threads -> ThreadState] /\ th'[t] = new
      /\ \A u \in Threads \ {t} : th'[u] = th[u]
  BY <1>0
<1>3. RegistryTypeOK'
  BY <1>0, <1>2 DEF RegistryTypeOK
<1>4. ThreadOk(t)'
  BY <1>0, <1>2, ClearingOk DEF Clearing
<1>5. OnlyTouches(k) /\ Keeps(k) /\ JobOk(k)'
  BY <1>0, EndedJob DEF OnlyTouches, Keeps
<1> QED BY <1>0, <1>2, <1>3, <1>4, <1>5, CommandStep

(* Retrying, dismissing and retiring. *)
LEMMA StartStep ==
    ASSUME RegistryInv, NEW j \in Ids,
           \/ \E c \in Callers : retry(c, j) \/ dismiss_transfer_job(c, j)
           \/ retire_successful_download(j)
    PROVE  RegistryInv'
<1>0. JobOk(j) /\ jobs[j] \in Statuses /\ used \in [DOMAIN Budget -> Nat] /\ Poll \in Threads
  BY DEF RegistryInv, RegistryTypeOK, Threads
<1>1. Spend("commands") => used' \in [DOMAIN Budget -> Nat]
  BY <1>0, SpendType
<1>2. jobs[j] \in Terminal \/ row[j].acked => row[j].state \in Terminal
  BY <1>0 DEF JobOk, EndedIsEnded
<1>3. ASSUME NEW c \in Callers, retry(c, j)
      PROVE  RegistryInv'
  <2>1. row[j].state \in Terminal /\ c \in Threads
    BY <1>2, <1>3 DEF retry, Terminal, Failures, Threads
  <2>2. PICK new \in ThreadState : /\ new.pc = "spawn" /\ new.job = j
                                   /\ th' = [th EXCEPT ![c] = new]
    <3>1. /\ [Idle EXCEPT !.pc = "spawn", !.job = j] \in ThreadState
          /\ [Idle EXCEPT !.pc = "spawn", !.job = j].pc = "spawn"
          /\ [Idle EXCEPT !.pc = "spawn", !.job = j].job = j
      BY Names DEF Idle, ThreadState, Labels
    <3> QED BY <1>3, <3>1 DEF retry
  <2>4. th[c].pc = "idle" /\ UNCHANGED <<row, maps, work>> /\ used' \in [DOMAIN Budget -> Nat]
    BY <1>1, <1>3 DEF retry
  <2> QED BY <2>1, <2>2, <2>4, StartsClearing
<1>4. ASSUME NEW c \in Callers, dismiss_transfer_job(c, j)
      PROVE  RegistryInv'
  <2>1. row[j].state \in Terminal /\ c \in Threads
    BY <1>2, <1>4 DEF dismiss_transfer_job, validate_dismissal, Threads
  <2>2. PICK new \in ThreadState : /\ new.pc = "hide" /\ new.job = j
                                   /\ th' = [th EXCEPT ![c] = new]
    <3>1. /\ [Idle EXCEPT !.pc = "hide", !.job = j] \in ThreadState
          /\ [Idle EXCEPT !.pc = "hide", !.job = j].pc = "hide"
          /\ [Idle EXCEPT !.pc = "hide", !.job = j].job = j
      BY Names DEF Idle, ThreadState, Labels
    <3> QED BY <1>4, <3>1 DEF dismiss_transfer_job
  <2>4. th[c].pc = "idle" /\ UNCHANGED <<row, maps, work>> /\ used' \in [DOMAIN Budget -> Nat]
    BY <1>1, <1>4 DEF dismiss_transfer_job
  <2> QED BY <2>1, <2>2, <2>4, StartsClearing
<1>5. ASSUME retire_successful_download(j)
      PROVE  RegistryInv'
  <2>1. row[j].state \in Terminal
    BY <1>5 DEF retire_successful_download, Terminal
  <2>2. PICK new \in ThreadState : /\ new.pc = "hide" /\ new.job = j
                                   /\ th' = [th EXCEPT ![Poll] = new]
    <3>1. /\ [Idle EXCEPT !.pc = "hide", !.job = j, !.seen = jobs[j]] \in ThreadState
          /\ [Idle EXCEPT !.pc = "hide", !.job = j, !.seen = jobs[j]].pc = "hide"
          /\ [Idle EXCEPT !.pc = "hide", !.job = j, !.seen = jobs[j]].job = j
      BY <1>0 DEF Idle, ThreadState, Labels
    <3> QED BY <1>5, <3>1 DEF retire_successful_download
  <2>3. /\ th[Poll].pc = "idle" /\ UNCHANGED <<row, maps, work>>
        /\ used' \in [DOMAIN Budget -> Nat]
    BY <1>0, <1>5 DEF retire_successful_download
  <2> QED BY <1>0, <2>1, <2>2, <2>3, StartsClearing
<1> QED BY <1>3, <1>4, <1>5

(* The steps of a command that clears a job. *)
LEMMA ClearStep ==
    ASSUME RegistryInv, NEW t \in Threads,
           \/ dismiss_job(t) \/ dismiss_runtime(t)
           \/ remove_job(t) \/ remove_control(t) \/ remove_cell(t)
    PROVE  RegistryInv'
<1>p. th[t].pc \in Clearing /\ th[t].pc \notin Bringing
  BY DEF dismiss_job, dismiss_runtime, remove_job, remove_control, remove_cell, Clearing, Bringing
<1>k. PICK k \in Ids : k = th[t].job /\ row[k].state \in Terminal
  BY <1>p DEF RegistryInv, ThreadOk, ClearsEnded
<1>0. /\ RegistryTypeOK /\ row \in [Ids -> JobRow] /\ jobs \in [Ids -> Statuses]
      /\ cell \in [Ids -> Nat] /\ control \subseteq Ids /\ ready \subseteq Ids
      /\ active \subseteq Ids /\ th[t] \in ThreadState /\ used \in [DOMAIN Budget -> Nat]
  BY DEF RegistryInv, RegistryTypeOK
<1>1. PICK label \in {"unhook", "rmjob", "rmcontrol", "rmcell"} :
          Goto(t, label) \/ th' = [th EXCEPT ![t] = Idle]
  BY DEF dismiss_job, dismiss_runtime, remove_job, remove_control, remove_cell
<1>2. /\ th' \in [Threads -> ThreadState] /\ \A u \in Threads \ {t} : th'[u] = th[u]
  <2>1. label \in Labels
    BY DEF Labels
  <2> QED BY <1>0, <1>1, <2>1, GotoType, RestType
<1>3. /\ row' \in [Ids -> JobRow] /\ \A j \in Ids \ {k} : row'[j] = row[j]
      /\ row'[k].state = row[k].state /\ row'[k].version = row[k].version
  <2>1. CASE dismiss_job(t)
    <3>1. row[k] \in JobRow
      BY <1>0
    <3>2. /\ [row[k] EXCEPT !.gone = TRUE] \in JobRow
          /\ [row[k] EXCEPT !.gone = TRUE].state = row[k].state
          /\ [row[k] EXCEPT !.gone = TRUE].version = row[k].version
      BY <3>1 DEF JobRow
    <3>3. row' = [row EXCEPT ![k] = [row[k] EXCEPT !.gone = TRUE]]
      BY <1>k, <2>1 DEF dismiss_job
    <3> QED BY <1>0, <3>2, <3>3
  <2>2. CASE row' = row
    BY <1>0, <2>2
  <2> QED BY <2>1, <2>2 DEF dismiss_runtime, remove_job, remove_control, remove_cell
<1>4. /\ jobs' \in [Ids -> Statuses] /\ \A j \in Ids \ {k} : jobs'[j] = jobs[j]
  BY <1>0, <1>k, Names DEF dismiss_job, dismiss_runtime, remove_job, remove_control, remove_cell, maps
<1>5. /\ cell' \in [Ids -> Nat] /\ \A j \in Ids \ {k} : cell'[j] = cell[j]
  BY <1>0, <1>k DEF dismiss_job, dismiss_runtime, remove_job, remove_control, remove_cell, maps
<1>6. /\ control' \subseteq Ids /\ \A j \in Ids \ {k} : j \in control => j \in control'
  BY <1>0, <1>k DEF dismiss_job, dismiss_runtime, remove_job, remove_control, remove_cell, maps
<1>7. UNCHANGED <<ready, active, used>>
  BY DEF dismiss_job, dismiss_runtime, remove_job, remove_control, remove_cell, work
<1>8. RegistryTypeOK'
  BY <1>0, <1>2, <1>3, <1>4, <1>5, <1>6, <1>7 DEF RegistryTypeOK
<1>9. OnlyTouches(k) /\ Keeps(k) /\ JobOk(k)'
  BY <1>k, <1>3, <1>4, <1>5, <1>6, <1>7, EndedJob, Names DEF OnlyTouches, Keeps
<1>10. ThreadOk(t)'
  <2>1. CASE th' = [th EXCEPT ![t] = Idle]
    BY <1>0, <2>1, RestType
  <2>2. CASE Goto(t, label)
    <3>1. label \in Labels
      BY DEF Labels
    <3>2. th'[t].pc = label /\ th'[t].job = k
      BY <1>0, <1>k, <2>2, <3>1, GotoType
    <3>3. label \in Clearing
      BY DEF Clearing
    <3> QED BY <1>k, <1>3, <3>2, <3>3, ClearingOk
  <2> QED BY <1>1, <2>1, <2>2
<1> QED BY <1>p, <1>2, <1>8, <1>9, <1>10, CommandStep

(* A step that no command takes, on one job. *)
LEMMA JobStep ==
    ASSUME RegistryInv, RegistryTypeOK', NEW k \in Ids, UNCHANGED th, OnlyTouches(k), JobOk(k)',
           \A u \in Threads : th[u].job = k => ThreadOk(u)'
    PROVE  RegistryInv'
<1>1. ASSUME NEW j \in Ids, j # k
      PROVE  Keeps(j) /\ JobOk(j)'
  <2>1. /\ JobOk(j) /\ row'[j] = row[j] /\ jobs'[j] = jobs[j] /\ cell'[j] = cell[j]
        /\ j \in control => j \in control'
        /\ j \in ready \cup active => j \in ready' \cup active'
    BY <1>1 DEF RegistryInv, OnlyTouches
  <2>2. Keeps(j)
    BY <2>1 DEF Keeps
  <2> QED BY <2>1, <2>2, JobFrame
<1>2. ASSUME NEW u \in Threads
      PROVE  ThreadOk(u)'
  <2>1. CASE th[u].job # k
    <3>1. ThreadOk(u) /\ th'[u] = th[u]
      BY DEF RegistryInv
    <3>2. th[u].job \in Ids => Keeps(th[u].job)
      BY <1>1, <2>1
    <3> QED BY <3>1, <3>2, ThreadFrame
  <2> QED BY <2>1
<1> QED BY <1>1, <1>2 DEF RegistryInv

(* The same when the row keeps its state and version, and memory its entry. *)
LEMMA QuietStep ==
    ASSUME RegistryInv, RegistryTypeOK', NEW k \in Ids, UNCHANGED th, OnlyTouches(k), JobOk(k)', Keeps(k)
    PROVE  RegistryInv'
<1>1. ASSUME NEW u \in Threads, th[u].job = k
      PROVE  ThreadOk(u)'
  <2>1. ThreadOk(u) /\ th'[u] = th[u]
    BY DEF RegistryInv
  <2> QED BY <1>1, <2>1, ThreadFrame
<1> QED BY <1>1, JobStep

(* A worker records the next state of the job it holds. *)
LEMMA CommitStep ==
    ASSUME RegistryInv, NEW k \in Ids, CommitFits(k), NEW to \in Live \cup Terminal,
           commit_transition(k, to), UNCHANGED <<control, th>>, k \in active', active' \subseteq Ids,
           ready' \subseteq Ids, \A j \in Ids \ {k} : j \in ready \cup active => j \in ready' \cup active',
           used' \in [DOMAIN Budget -> Nat]
    PROVE  RegistryInv'
<1>0. /\ RegistryTypeOK /\ row \in [Ids -> JobRow] /\ jobs \in [Ids -> Statuses]
      /\ cell \in [Ids -> Nat] /\ row[k] \in JobRow /\ JobOk(k) /\ to \in Statuses
  BY Names DEF RegistryInv, RegistryTypeOK
<1>1. row[k].version \in Nat
  BY <1>0 DEF JobRow
<1>v. PICK v \in Nat : v = row[k].version + 1
  BY <1>1
<1> DEFINE next == [row[k] EXCEPT !.state = to, !.version = v]
<1>n. next \in JobRow /\ next.state = to /\ next.version = v /\ next.acked = row[k].acked
  BY <1>0 DEF JobRow
<1>2. /\ next \in JobRow /\ next.state = to /\ next.version = row[k].version + 1
      /\ next.acked = row[k].acked
  BY <1>v, <1>n
<1>3. /\ row' = [row EXCEPT ![k] = next] /\ jobs' = [jobs EXCEPT ![k] = to]
      /\ cell' = [cell EXCEPT ![k] = cell[k] + 1]
  BY <1>0, <1>v DEF commit_transition
<1> HIDE DEF next
<1>4. /\ row' \in [Ids -> JobRow] /\ row'[k] = next /\ \A j \in Ids \ {k} : row'[j] = row[j]
  BY <1>0, <1>2, <1>3
<1>5. /\ jobs' \in [Ids -> Statuses] /\ jobs'[k] = to /\ \A j \in Ids \ {k} : jobs'[j] = jobs[j]
  BY <1>0, <1>3
<1>6. /\ cell' \in [Ids -> Nat] /\ cell'[k] = row[k].version + 1 /\ cell'[k] # 0
      /\ \A j \in Ids \ {k} : cell'[j] = cell[j]
  BY <1>0, <1>1, <1>3 DEF CommitFits
<1>7. RegistryTypeOK'
  BY <1>0, <1>4, <1>5, <1>6 DEF RegistryTypeOK
<1>8. OnlyTouches(k)
  BY <1>4, <1>5, <1>6 DEF OnlyTouches
<1>9. k \in control /\ row[k].state \in Live /\ row[k].state \notin Terminal /\ ~row[k].acked
  BY <1>0, Names DEF JobOk, CellFollows, EndedIsEnded, CommitFits
<1>10. JobOk(k)'
  <2>1. CASE to \in Terminal
    BY <1>2, <1>4, <2>1, EndedJob
  <2>2. CASE to \in Live
    <3>1. to # "none" /\ to \notin Terminal
      BY <2>2, Names
    <3>2. Full(k)' /\ HasWorker(k)'
      BY <1>2, <1>4, <1>5, <1>6, <1>9, <3>1 DEF Full, HasWorker
    <3>3. NoGhost(k)' /\ EndedIsEnded(k)' /\ CellFollows(k)'
      BY <1>2, <1>4, <1>5, <1>6, <1>9, <3>1 DEF NoGhost, EndedIsEnded, CellFollows, Exists
    <3> QED BY <3>2, <3>3 DEF JobOk, Registered
  <2> QED BY <2>1, <2>2
<1>11. ASSUME NEW u \in Threads, th[u].job = k
       PROVE  ThreadOk(u)'
  <2>1. ThreadOk(u) /\ th'[u] = th[u]
    BY DEF RegistryInv
  <2>2. th[u].pc \notin Clearing
    BY <1>9, <1>11, <2>1 DEF ThreadOk, ClearsEnded
  <2>3. ASSUME th[u].pc \in Bringing
        PROVE  BringsTruth(u)'
    <3>1. th[u].seen # "none" /\ ~(th[u].seen \in Terminal)
      BY <1>9, <1>11, <2>1, <2>3 DEF ThreadOk, BringsTruth
    <3>2. to # "none"
      BY Names
    <3>3. /\ th'[u].job = k /\ th'[u].seen # "none" /\ th'[u].seen \notin Terminal /\ Exists(k)'
          /\ jobs'[k] # "none" /\ k \in control' /\ cell'[k] # 0
      BY <1>2, <1>4, <1>5, <1>6, <1>9, <1>11, <2>1, <3>1, <3>2 DEF Exists
    <3> QED BY <3>3 DEF BringsTruth
  <2>4. ClearsEnded(u)' /\ BringsTruth(u)'
    BY <2>1, <2>2, <2>3 DEF ClearsEnded, BringsTruth
  <2> QED BY <2>1, <2>4 DEF ThreadOk
<1> QED BY <1>7, <1>8, <1>10, <1>11, JobStep

(* The steps of a worker. *)
LEMMA WorkerStep ==
    ASSUME RegistryInv, NEW j \in Ids, Worker(j)
    PROVE  RegistryInv'
<1>0. /\ RegistryTypeOK /\ used \in [DOMAIN Budget -> Nat] /\ ready \subseteq Ids
      /\ active \subseteq Ids /\ JobOk(j)
  BY DEF RegistryInv, RegistryTypeOK
<1>1. CASE Claim(j)
  <2>1. CASE j \notin active /\ jobs[j] \in Live /\ j \in control /\ CommitFits(j)
    <3>1. /\ active' = active \cup {j} /\ commit_transition(j, "transferring")
          /\ ready' = ready \ {j} /\ UNCHANGED <<control, th, used>>
      BY <1>1, <2>1 DEF Claim
    <3>2. "transferring" \in Live \cup Terminal
      BY DEF Live
    <3>3. j \in active' /\ active' \subseteq Ids /\ ready' \subseteq Ids
      BY <1>0, <3>1
    <3>4. \A i \in Ids \ {j} : i \in ready \cup active => i \in ready' \cup active'
      BY <3>1
    <3> QED BY <1>0, <2>1, <3>1, <3>2, <3>3, <3>4, CommitStep
  <2>2. CASE ~(j \notin active /\ jobs[j] \in Live /\ j \in control /\ CommitFits(j))
    <3>1. UNCHANGED <<row, jobs, control, cell, active, th, used>> /\ ready' = ready \ {j}
      BY <1>1, <2>2 DEF Claim
    <3>2. RegistryTypeOK'
      BY <1>0, <3>1 DEF RegistryTypeOK
    <3>3. OnlyTouches(j) /\ Keeps(j)
      BY <3>1 DEF OnlyTouches, Keeps
    <3>4. row[j].state \in Live /\ jobs[j] = "transferring" => j \in active \/ \E u \in Threads : Installing(u, j)
      BY <1>0, <2>2 DEF JobOk, Registered, Full, CommitFits, Live
    <3>5. \A u \in Threads : (Installing(u, j) <=> Installing(u, j)') /\ (Arrives(u, j) <=> Arrives(u, j)')
      BY <3>1 DEF Installing, Arrives
    <3>6. HasWorker(j)' /\ Registered(j)'
      BY <1>0, <3>1, <3>4, <3>5 DEF HasWorker, Registered, JobOk, Full
    <3>7. JobOk(j)'
      BY <1>0, <3>1, <3>6 DEF JobOk, NoGhost, EndedIsEnded, CellFollows, Exists
    <3> QED BY <3>1, <3>2, <3>3, <3>7, QuietStep
  <2> QED BY <2>1, <2>2
<1>2. CASE Release(j)
  <2>1. /\ UNCHANGED <<row, jobs, control, cell, ready, th, used>> /\ active' = active \ {j}
        /\ jobs[j] # "transferring"
    BY <1>2 DEF Release, maps
  <2>2. RegistryTypeOK'
    BY <1>0, <2>1 DEF RegistryTypeOK
  <2>3. OnlyTouches(j) /\ Keeps(j)
    BY <2>1 DEF OnlyTouches, Keeps
  <2>4. \A u \in Threads : (Installing(u, j) <=> Installing(u, j)') /\ (Arrives(u, j) <=> Arrives(u, j)')
    BY <2>1 DEF Installing, Arrives
  <2>5. HasWorker(j)' /\ Registered(j)'
    BY <1>0, <2>1, <2>4 DEF HasWorker, Registered, JobOk, Full
  <2>6. JobOk(j)'
    BY <1>0, <2>1, <2>5 DEF JobOk, NoGhost, EndedIsEnded, CellFollows, Exists
  <2> QED BY <2>1, <2>2, <2>3, <2>6, QuietStep
<1>3. CASE Park(j)
  <2>1. /\ commit_transition(j, "queued") /\ CommitFits(j) /\ j \in active'
        /\ UNCHANGED <<control, th, ready, active>> /\ Spend("faults")
    BY <1>3 DEF Park, work
  <2>2. used' \in [DOMAIN Budget -> Nat] /\ "queued" \in Live \cup Terminal
    BY <1>0, <2>1, SpendType DEF Live
  <2> QED BY <1>0, <2>1, <2>2, CommitStep
<1>4. ASSUME NEW outcome \in Outcomes, Finish(j, outcome)
      PROVE  RegistryInv'
  <2>1. /\ commit_transition(j, outcome) /\ CommitFits(j) /\ j \in active'
        /\ UNCHANGED <<control, th, ready, active, used>>
    BY <1>4 DEF Finish, work
  <2>2. outcome \in Live \cup Terminal
    BY Names
  <2> QED BY <1>0, <2>1, <2>2, CommitStep
<1> QED BY <1>1, <1>2, <1>3, <1>4 DEF Worker

(* Enqueueing a download. *)
LEMMA EnqueueStep ==
    ASSUME RegistryInv, NEW c \in Callers, NEW s \in Sessions, NEW p \in Plans, enqueue(c, s, p)
    PROVE  RegistryInv'
<1>0. /\ RegistryTypeOK /\ used \in [DOMAIN Budget -> Nat] /\ c \in Threads /\ th[c].pc \notin Bringing
      /\ UNCHANGED <<maps, work>>
  BY DEF RegistryInv, RegistryTypeOK, Threads, Bringing, enqueue
<1>1. used' \in [DOMAIN Budget -> Nat]
  BY <1>0, SpendType DEF enqueue
<1>2. CASE OfSession(s) = {}
  <2>1. /\ Unused # {} /\ row' = [row EXCEPT ![Min(Unused)] = NewRow(s, p, 0)]
        /\ Takes(c, "jobs", Min(Unused), TRUE)
    BY <1>2 DEF enqueue
  <2>2. Min(Unused) \in Ids /\ ~Exists(Min(Unused))
    BY <2>1, FreshRow
  <2> QED BY <1>0, <1>1, <2>1, <2>2, CreateStep
<1>3. CASE OfSession(s) # {} /\ row[Max(OfSession(s))].plan = p
  <2>1. row' = row /\ Takes(c, "look", Max(OfSession(s)), TRUE)
    BY <1>3 DEF enqueue
  <2>2. Max(OfSession(s)) \in Ids /\ Exists(Max(OfSession(s)))
    BY <1>3, LatestRow
  <2> QED BY <1>0, <1>1, <2>1, <2>2, FindStep
<1>4. CASE OfSession(s) # {} /\ row[Max(OfSession(s))].plan # p
  <2>1. UNCHANGED <<row, jobs, control, cell, ready, active, th>>
    BY <1>4 DEF enqueue, maps, work
  <2>2. RegistryTypeOK'
    BY <1>0, <1>1, <2>1 DEF RegistryTypeOK
  <2>3. ASSUME NEW j \in Ids
        PROVE  JobOk(j)' /\ Keeps(j)
    <3>1. JobOk(j)
      BY DEF RegistryInv
    <3> QED BY <2>1, <3>1, JobFrame DEF Keeps
  <2>4. ASSUME NEW u \in Threads
        PROVE  ThreadOk(u)'
    <3>1. ThreadOk(u)
      BY DEF RegistryInv
    <3> QED BY <2>1, <2>3, <3>1, ThreadFrame
  <2> QED BY <2>2, <2>3, <2>4 DEF RegistryInv
<1> QED BY <1>2, <1>3, <1>4

(* Retrying a job that failed. *)
LEMMA RetryStep ==
    ASSUME RegistryInv, NEW c \in Threads, spawn_retry_job(c)
    PROVE  RegistryInv'
<1>p. th[c].pc \in Clearing /\ th[c].pc \notin Bringing
  BY DEF spawn_retry_job, Clearing, Bringing
<1>k. PICK k \in Ids : k = th[c].job /\ row[k].state \in Terminal
  BY <1>p DEF RegistryInv, ThreadOk, ClearsEnded
<1>0. /\ RegistryTypeOK /\ used' \in [DOMAIN Budget -> Nat] /\ UNCHANGED <<maps, work, used>>
      /\ row[k] \in JobRow
  BY DEF RegistryInv, RegistryTypeOK, spawn_retry_job
<1>1. CASE row[k].gone \/ ~row[k].acked
  <2>1. UNCHANGED <<row, jobs, control, cell, ready, active, used>> /\ th' = [th EXCEPT ![c] = Idle]
    BY <1>k, <1>1 DEF spawn_retry_job, maps, work
  <2>2. /\ th' \in [Threads -> ThreadState] /\ \A u \in Threads \ {c} : th'[u] = th[u]
    BY <1>0, <2>1, RestType
  <2>3. ThreadOk(c)'
    BY <1>0, <2>1, RestType
  <2>4. RegistryTypeOK'
    BY <1>0, <2>1, <2>2 DEF RegistryTypeOK
  <2>5. OnlyTouches(k) /\ Keeps(k) /\ JobOk(k)'
    BY <1>k, <2>1, EndedJob DEF OnlyTouches, Keeps
  <2> QED BY <1>p, <2>2, <2>3, <2>4, <2>5, CommandStep
<1>2. CASE ~(row[k].gone \/ ~row[k].acked) /\ LiveChildren(k) # {}
  <2>1. row' = row /\ Takes(c, "look", Max(Children(k)), FALSE)
    BY <1>k, <1>2 DEF spawn_retry_job
  <2>2. Max(Children(k)) \in Ids /\ Exists(Max(Children(k)))
    BY <1>2, LatestChild, Names DEF Exists
  <2> QED BY <1>p, <1>0, <2>1, <2>2, FindStep
<1>3. CASE ~(row[k].gone \/ ~row[k].acked) /\ LiveChildren(k) = {}
  <2>1. /\ Unused # {} /\ row' = [row EXCEPT ![Min(Unused)] = NewRow(row[k].session, row[k].plan, k)]
        /\ Takes(c, "look", Min(Unused), FALSE)
    BY <1>k, <1>3 DEF spawn_retry_job
  <2>2. Min(Unused) \in Ids /\ ~Exists(Min(Unused))
    BY <2>1, FreshRow
  <2>3. row[k].session \in Sessions \cup {"none"} /\ row[k].plan \in Plans \cup {"none"} /\ k \in Ids \cup {0}
    BY <1>0 DEF JobRow
  <2> QED BY <1>p, <1>0, <2>1, <2>2, <2>3, CreateStep
<1> QED BY <1>1, <1>2, <1>3

(* The acknowledgement of a finished job, and the tick. *)
LEMMA DeliveryStep ==
    ASSUME RegistryInv, tick \/ \E j \in Ids : acknowledge_completion(j)
    PROVE  RegistryInv'
<1>0. /\ RegistryTypeOK /\ row \in [Ids -> JobRow] /\ ready \subseteq Ids
  BY DEF RegistryInv, RegistryTypeOK
<1>1. ASSUME NEW j \in Ids, acknowledge_completion(j)
      PROVE  RegistryInv'
  <2>1. /\ row[j].state \in Terminal /\ row' = [row EXCEPT ![j] = [row[j] EXCEPT !.acked = TRUE]]
        /\ UNCHANGED <<jobs, control, cell, ready, active, th, used>>
    BY <1>1 DEF acknowledge_completion, maps, work
  <2>2. /\ [row[j] EXCEPT !.acked = TRUE] \in JobRow
        /\ [row[j] EXCEPT !.acked = TRUE].state = row[j].state
        /\ [row[j] EXCEPT !.acked = TRUE].version = row[j].version
    <3>1. row[j] \in JobRow
      BY <1>0
    <3> QED BY <3>1 DEF JobRow
  <2>3. /\ row' \in [Ids -> JobRow] /\ row'[j].state = row[j].state /\ row'[j].version = row[j].version
        /\ \A i \in Ids \ {j} : row'[i] = row[i]
    BY <1>0, <2>1, <2>2
  <2>4. RegistryTypeOK'
    BY <1>0, <2>1, <2>3 DEF RegistryTypeOK
  <2>5. OnlyTouches(j) /\ Keeps(j) /\ JobOk(j)'
    BY <2>1, <2>3, EndedJob, Names DEF OnlyTouches, Keeps
  <2> QED BY <2>1, <2>4, <2>5, QuietStep
<1>2. CASE tick
  <2>1. UNCHANGED <<row, jobs, control, cell, active, th, used>> /\ ready' = ready \cup Offered
    BY <1>2 DEF tick, maps
  <2>2. RegistryTypeOK'
    BY <1>0, <2>1 DEF RegistryTypeOK, Offered
  <2>3. ASSUME NEW j \in Ids
        PROVE  JobOk(j)' /\ Keeps(j)
    <3>1. JobOk(j)
      BY DEF RegistryInv
    <3> QED BY <2>1, <3>1, JobFrame DEF Keeps
  <2>4. ASSUME NEW u \in Threads
        PROVE  ThreadOk(u)'
    <3>1. ThreadOk(u)
      BY DEF RegistryInv
    <3> QED BY <2>1, <2>3, <3>1, ThreadFrame
  <2> QED BY <2>2, <2>3, <2>4 DEF RegistryInv
<1> QED BY <1>1, <1>2

(* A restart takes up every job still to run, and nothing else. *)
LEMMA RestartStep ==
    ASSUME RegistryInv, Restart
    PROVE  RegistryInv'
<1>0. /\ RegistryTypeOK /\ row \in [Ids -> JobRow] /\ used \in [DOMAIN Budget -> Nat]
  BY DEF RegistryInv, RegistryTypeOK
<1> DEFINE again == list_recoverable_jobs
<1>1. /\ jobs' = [j \in Ids |-> IF j \in again THEN row[j].state ELSE "none"]
      /\ control' = again /\ ready' = again /\ active' = {} /\ row' = row
      /\ cell' = [j \in Ids |-> IF j \in again THEN row[j].version ELSE 0]
      /\ th' = [t \in Threads |-> Idle] /\ Spend("crashes")
  BY DEF Restart
<1>2. \A j \in Ids : row[j].state \in Statuses /\ row[j].version \in Nat
  BY <1>0 DEF JobRow
<1>3. again \subseteq Ids /\ \A j \in Ids : j \in again <=> row[j].state \in Live
  BY DEF list_recoverable_jobs
<1> HIDE DEF again
<1>4. used' \in [DOMAIN Budget -> Nat]
  BY <1>0, <1>1, SpendType
<1>5. jobs' \in [Ids -> Statuses] /\ cell' \in [Ids -> Nat] /\ th' \in [Threads -> ThreadState]
  BY <1>1, <1>2, Names
<1>6. RegistryTypeOK'
  BY <1>0, <1>1, <1>3, <1>4, <1>5 DEF RegistryTypeOK
<1>7. ASSUME NEW t \in Threads
      PROVE  ThreadOk(t)'
  <2>1. th'[t].pc = "idle" /\ th'[t].job = 0
    BY <1>1, Names
  <2> QED BY <2>1 DEF ThreadOk, ClearsEnded, BringsTruth, Clearing, Bringing
<1>8. ASSUME NEW j \in Ids
      PROVE  JobOk(j)'
  <2>0. JobOk(j)
    BY DEF RegistryInv
  <2>1. CASE row[j].state \in Live
    <3>1. /\ jobs'[j] = row[j].state /\ j \in control' /\ cell'[j] = row[j].version /\ j \in ready'
          /\ jobs'[j] # "none" /\ jobs'[j] \notin Terminal
      BY <1>1, <1>3, <2>1, Names
    <3>2. Full(j)' /\ HasWorker(j)'
      BY <1>1, <3>1 DEF Full, HasWorker
    <3>3. NoGhost(j)' /\ EndedIsEnded(j)' /\ CellFollows(j)'
      BY <1>1, <2>0, <2>1, <3>1, Names DEF JobOk, NoGhost, EndedIsEnded, CellFollows, Exists
    <3> QED BY <3>2, <3>3 DEF JobOk, Registered
  <2>2. CASE row[j].state \in Terminal
    BY <1>1, <2>2, EndedJob
  <2>3. CASE row[j].state = "none"
    <3>1. jobs'[j] = "none" /\ cell'[j] = 0 /\ row'[j] = row[j]
      BY <1>1, <1>3, <2>3, Names
    <3> QED BY <2>0, <2>3, <3>1, Names
            DEF JobOk, NoGhost, EndedIsEnded, CellFollows, Registered, HasWorker, Exists
  <2> QED BY <1>2, <2>1, <2>2, <2>3, Names
<1> QED BY <1>6, <1>7, <1>8 DEF RegistryInv

(* Nothing is in memory at the start. *)
LEMMA RegistryInitInv == RegistryInit => RegistryInv
<1> SUFFICES ASSUME RegistryInit PROVE RegistryInv
  OBVIOUS
<1>1. RegistryTypeOK
  BY Names DEF RegistryInit, RegistryTypeOK
<1>2. ASSUME NEW t \in Threads
      PROVE  ThreadOk(t)
  <2>1. th[t].pc = "idle" /\ th[t].job = 0
    BY Names DEF RegistryInit
  <2> QED BY <2>1 DEF ThreadOk, ClearsEnded, BringsTruth, Clearing, Bringing
<1>3. ASSUME NEW j \in Ids
      PROVE  JobOk(j)
  <2>1. row[j].state = "none" /\ ~row[j].acked /\ jobs[j] = "none" /\ cell[j] = 0
    BY DEF RegistryInit, Absent
  <2> QED BY <2>1, Names
          DEF JobOk, NoGhost, EndedIsEnded, CellFollows, Registered, HasWorker, Exists
<1> QED BY <1>1, <1>2, <1>3 DEF RegistryInv

(* Every step keeps the maps, the rows and the commands in agreement. *)
THEOREM RegistryStepInv == RegistryInv /\ [RegistryNext]_registryVars => RegistryInv'
<1> SUFFICES ASSUME RegistryInv, [RegistryNext]_registryVars
             PROVE  RegistryInv'
  OBVIOUS
<1>1. ASSUME NEW c \in Callers, UserCommand(c)
      PROVE  RegistryInv'
  BY <1>1, EnqueueStep, StartStep DEF UserCommand
<1>2. ASSUME NEW t \in Threads, Thread(t)
      PROVE  RegistryInv'
  BY <1>2, BringStep, RetryStep, ClearStep DEF Thread
<1>3. ASSUME NEW j \in Ids, Worker(j) \/ acknowledge_completion(j) \/ retire_successful_download(j)
      PROVE  RegistryInv'
  BY <1>3, WorkerStep, DeliveryStep, StartStep
<1>4. CASE tick \/ Restart
  BY <1>4, DeliveryStep, RestartStep
<1>5. CASE UNCHANGED registryVars
  <2>1. UNCHANGED <<row, jobs, control, cell, ready, active, th, used>>
    BY <1>5 DEF registryVars, maps, work
  <2> QED BY <2>1 DEF RegistryInv, RegistryTypeOK, ThreadOk, ClearsEnded, BringsTruth, JobOk, NoGhost,
                      EndedIsEnded, CellFollows, Registered, HasWorker, Exists, Full, Arrives, Installing
<1> QED BY <1>1, <1>2, <1>3, <1>4, <1>5 DEF RegistryNext

(* The inductive invariant holds throughout. *)
THEOREM RegistryInvariant == RegistrySpec => []RegistryInv
<1> QED BY RegistryInitInv, RegistryStepInv, PTL DEF RegistrySpec

(* No job accepted from the user is forgotten: in every state, whatever    *)
(* commands cross one another, a job still to run that no command holds is *)
(* known to the coordinator, and has a worker or will be offered one.      *)
THEOREM NoJobIsForgotten == RegistrySpec => []LiveIsRegistered
<1>1. ASSUME RegistryInv
      PROVE  LiveIsRegistered
  <2> SUFFICES ASSUME NEW j \in Ids, row[j].state \in Live, ~Busy(j)
               PROVE  jobs[j] # "none" /\ (jobs[j] = "transferring" => j \in ready \cup active)
    BY DEF LiveIsRegistered
  <2>1. JobOk(j)
    BY <1>1 DEF RegistryInv
  <2>2. \A t \in Threads : ~Arrives(t, j) /\ ~Installing(t, j)
    BY DEF Busy, Arrives, Installing
  <2> QED BY <2>1, <2>2 DEF JobOk, Registered, HasWorker, Full
<1> QED BY <1>1, RegistryInvariant, PTL

(* A finished job is never run again: a step that changes the state of a   *)
(* row creates it, or is the transition of a worker, and the store refuses *)
(* the transition of a row that has ended.                                 *)
THEOREM FinishedIsFinal == RegistrySpec => FinishedStaysFinished
<1>1. ASSUME RegistryInv, [RegistryNext]_registryVars
      PROVE  [\A j \in Ids : row[j].state \in Terminal => row'[j].state = row[j].state]_registryVars
  <2> SUFFICES ASSUME NEW j \in Ids, row[j].state \in Terminal, RegistryNext
               PROVE  row'[j].state = row[j].state
    BY <1>1
  <2>0. row \in [Ids -> JobRow] /\ j \notin Unused /\ row[j] \in JobRow /\ row[j].state \notin Live
    BY <1>1, Names DEF RegistryInv, RegistryTypeOK, Unused, Exists
  <2>1. ASSUME NEW r, Unused # {}, row' = [row EXCEPT ![Min(Unused)] = r]
        PROVE  row'[j] = row[j]
    BY <2>0, <2>1, FreshRow, Names DEF Exists
  <2>2. ASSUME NEW c \in Callers, UserCommand(c)
        PROVE  row'[j].state = row[j].state
    BY <2>1, <2>2 DEF UserCommand, enqueue, retry, dismiss_transfer_job
  <2>3. ASSUME NEW t \in Threads, Thread(t)
        PROVE  row'[j].state = row[j].state
    <3>1. CASE spawn_retry_job(t)
      BY <2>1, <3>1 DEF spawn_retry_job
    <3>2. CASE dismiss_job(t)
      <4>1. row' = [row EXCEPT ![th[t].job].gone = TRUE]
        BY <3>2 DEF dismiss_job
      <4> QED BY <2>0, <4>1 DEF JobRow
    <3>3. CASE row' = row
      BY <3>3
    <3> QED BY <2>3, <3>1, <3>2, <3>3
            DEF Thread, contains_key, insert_job, insert_control, insert_cell, dismiss_runtime,
                remove_job, remove_control, remove_cell
  <2>4. ASSUME NEW k \in Ids, NEW to, commit_transition(k, to), CommitFits(k)
        PROVE  row'[j] = row[j]
    BY <2>0, <2>4 DEF commit_transition, CommitFits
  <2>5. ASSUME NEW k \in Ids, Worker(k)
        PROVE  row'[j].state = row[j].state
    BY <2>4, <2>5 DEF Worker, Claim, Release, Park, Finish
  <2>6. ASSUME NEW k \in Ids, acknowledge_completion(k)
        PROVE  row'[j].state = row[j].state
    <3>1. row' = [row EXCEPT ![k].acked = TRUE]
      BY <2>6 DEF acknowledge_completion
    <3> QED BY <2>0, <3>1 DEF JobRow
  <2>7. CASE tick \/ Restart \/ \E k \in Ids : retire_successful_download(k)
    BY <2>7 DEF tick, Restart, retire_successful_download
  <2> QED BY <2>2, <2>3, <2>5, <2>6, <2>7 DEF RegistryNext
<1> QED BY <1>1, RegistryInvariant, PTL DEF RegistrySpec, FinishedStaysFinished

=============================================================================
