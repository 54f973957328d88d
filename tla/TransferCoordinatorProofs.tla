---------------------- MODULE TransferCoordinatorProofs ----------------------
(***************************************************************************)
(* Proofs about TransferCoordinator, for any number of workers, tickers,   *)
(* clients, jobs and directories.                                          *)
(*                                                                         *)
(* None of its properties is inductive: each depends on what threads are   *)
(* in the middle of.  CoordinatorInv says, of every thread, what its place *)
(* in the code lets it rely on:                                            *)
(*   - inside a job's critical section it holds the lock, and what is left *)
(*     of its decision still fits the job: the commits follow the graph    *)
(*     from the state the job has now, at the versions it will have (Plan, *)
(*     Held);                                                              *)
(*   - a worker owns its job, and its directory while its guard lives      *)
(*     (Owns, Apart);                                                      *)
(*   - a cancel that got past a step left the job cancelling or ended      *)
(*     (Cancels), a pause that got past a step left the intent paused,     *)
(*     unless a resume took it back (Pauses);                              *)
(*   - a client that has waited finds no worker reading for its job        *)
(*     (Quiet).                                                            *)
(* Every job in the map agrees with its row at every step, not only when   *)
(* the lock is free (JobInv), and what an enqueue or a retry took from the *)
(* store is what the row says until the job is installed (RequestInv).     *)
(* Both need that no install is late (NoLateInstall): the code lets two    *)
(* requests install one job, the second with an older snapshot, and the    *)
(* theorems name that as their hypothesis.                                 *)
(*                                                                         *)
(* The proof goes: the graph and the reducer (what a decision may hold);   *)
(* what a step of one thread leaves to the others; the steps of workers,   *)
(* tickers and clients; the steps of apply_checked; start and restart; the *)
(* properties; the refinement; and, from a second invariant of who may     *)
(* have raised a flag and why (InterruptInv), that only a cancel cancels.  *)
(***************************************************************************)
EXTENDS TransferCoordinator, FiniteSetTheorems, TLAPS

-----------------------------------------------------------------------------
(* Shapes.                                                                 *)
Ops == {"commit", "set_desired", "request_interrupt", "clear_interrupt", "await_worker_release",
        "dispatch", "record_device_version"}
Effects == [op : Ops, arg : States \cup RunIntents \cup Reasons \cup {"none"}, version : Nat]

WorkerKinds == {"device_observed", "stage", "interrupted", "panicked"}
ClientKinds == {"pause", "resume", "cancel", "finalize_cancel"}
Outs == Reasons \cup {"none", "not_ready", "panicked", "exiting"}
Commands == [kind : WorkerKinds \cup ClientKinds \cup {"none"}, report : StageReports \cup {NoReport},
             reason : Outs, snapshot : [version : {0, 1}, readiness : Readiness]]
Frames == [cmd : Commands, eff : Seq(Effects), ok : Labels, err : Labels,
           hint : [Readiness -> Labels]]
JobRows == [state : States \cup {"absent"}, version : Nat, desired : RunIntents,
            dismissed : BOOLEAN, identity : Identities \cup {NoIdentity},
            digest : Digests \cup {NoIdentity}]
Notes == [state : States \cup {"absent"}, desired : RunIntents]

Shapes ==
    /\ rows \in [JobIds -> JobRows] /\ outbox \in [JobIds -> [outcome : Terminal \cup {"none"},
                                                             version : Nat, acked : BOOLEAN]]
    /\ mem \in [JobIds -> Notes] /\ version \in [JobIds -> Nat]
    /\ serial \in [JobIds -> Threads \cup {NoThread}] /\ active \in [JobIds -> BOOLEAN]
    /\ reason \in [JobIds -> Reasons \cup {"none"}] /\ leases \in [Targets -> JobIds \cup {NoJob}]
    /\ queue \in Seq(JobIds) /\ device \in Readiness
    /\ pc \in [Threads -> Labels] /\ job \in [Threads -> JobIds \cup {NoJob}]
    /\ frame \in [Threads -> Frames] /\ out \in [Workers -> Outs] /\ guard \in [Workers -> BOOLEAN]
    /\ call \in [Clients -> ClientKinds \cup {"none", "overtaken"}] /\ resting \subseteq JobIds

-----------------------------------------------------------------------------
(* What is left of a decision, for a command of kind k on a job in state s *)
(* at version v.                                                           *)
InSerial == {"perform", "raise", "wipe"}
Early == Parked \cup {"preparing"}
AwaitAhead(e) == \E i \in 1..Len(e) : e[i].op = "await_worker_release"

\* The commits follow the graph from s, one version each, with nothing between them.
Chain(e, s, v) ==
    \A i \in 1..Len(e) : e[i].op = "commit" =>
        IF i > 1 /\ e[i - 1].op = "commit"
        THEN e[i].version = e[i - 1].version + 1 /\ is_legal_transition(e[i - 1].arg, e[i].arg)
        ELSE /\ e[i].version = v /\ is_legal_transition(s, e[i].arg)
             /\ \A m \in 1..(i - 1) : e[m].op # "commit"

\* An intent is set first, on a job that runs; after the wait only the
\* interrupt is cleared.
Ordered(k, e, s) ==
    \A i \in 1..Len(e) :
        /\ e[i].op = "set_desired" => /\ i = 1 /\ s \notin Terminal
                                      /\ k \in {"pause", "resume"}
                                      /\ e[i].arg = (IF k = "pause" THEN "paused" ELSE "run")
                                      /\ k = "pause" => AwaitAhead(e)
        /\ e[i].op = "await_worker_release" => /\ k \in {"pause", "cancel"}
                                               /\ k = "cancel" => i = Len(e)
                                               /\ \A m \in (i + 1)..Len(e) : e[m].op = "clear_interrupt"
        /\ e[i].op = "request_interrupt" => e[i].arg \in Reasons
        /\ e[i].op = "record_device_version" => k = "device_observed"

\* What each command may still commit.
Leads(k, e, s) ==
    /\ k \in {"device_observed", "resume"} =>
          /\ \A i \in 1..Len(e) : e[i].op = "commit" => e[i].arg \in Early /\ s \in Early
    /\ k = "pause" => \A i \in 1..Len(e) : e[i].op # "commit"
    /\ k = "cancel" => /\ AwaitAhead(e)
                       /\ \A i \in 1..Len(e) : e[i].op = "commit" => e[i].arg = "cancelling"
                       /\ s = "cancelling" \/ \E i \in 1..Len(e) : e[i].op = "commit"
    /\ k = "finalize_cancel" =>
          s = "cancelled" \/ \E i \in 1..Len(e) : e[i].op = "commit" /\ e[i].arg = "cancelled"

Plan(k, e, s, v) == Chain(e, s, v) /\ Ordered(k, e, s) /\ Leads(k, e, s)

-----------------------------------------------------------------------------
(* What each thread relies on.                                             *)
Kind(t) == frame[t].cmd.kind
JobState(t) == mem[job[t]].state

\* A thread that is not idle works on a job the coordinator knows.
Placed(t) == pc[t] # "idle" => job[t] \in JobIds /\ JobState(t) # "absent"

\* Each role is where its code can be, with the commands it issues and the
\* places it returns to.
WorkerReturns == {"loop", "leave", "reschedule"}
Owning(w) == pc[w] \notin {"idle", "popped", "exited"}
WorkerRole(w) ==
    /\ pc[w] \in {"idle"} \cup ApplyLabels \cup WorkerLabels
    /\ pc[w] \in ApplyLabels /\ guard[w] => frame[w].ok \in WorkerReturns \cup {"idle"} /\ frame[w].err = "leave"
    /\ pc[w] \in ApplyLabels /\ ~guard[w] =>
          frame[w].ok = "clear" /\ frame[w].err = "clear" /\ out[w] = "panicked"
    /\ pc[w] \in {"mint", "read"} =>
          guard[w] /\ \A r \in Readiness : frame[w].hint[r] \in WorkerReturns
    /\ pc[w] \in ApplyLabels \ {"mint", "read"} =>
          Kind(w) \in WorkerKinds /\ frame[w].ok # "idle"
TickerRole(k) ==
    /\ pc[k] \in {"idle"} \cup ApplyLabels \cup TickLabels
    /\ pc[k] \in ApplyLabels => frame[k].ok \in {"idle", "tick_schedule"} /\ frame[k].err = "idle"
    /\ pc[k] \in {"mint", "read"} => \A r \in Readiness : frame[k].hint[r] \in {"idle", "tick_schedule"}
    /\ pc[k] \in ApplyLabels \ {"mint", "read"} => Kind(k) = "device_observed"
ClientRole(c) ==
    /\ pc[c] \in {"idle"} \cup (ApplyLabels \ {"mint", "read"}) \cup ClientLabels
    /\ pc[c] \in ApplyLabels =>
          /\ frame[c].ok = (IF Kind(c) = "cancel" THEN "finalize" ELSE "acked") /\ frame[c].err = "refused"
          /\ \/ Kind(c) \in {"cancel", "finalize_cancel"} /\ call[c] = "cancel"
             \/ Kind(c) = "pause" /\ call[c] \in {"pause", "overtaken"}
             \/ Kind(c) = "resume" /\ call[c] = "resume"
    /\ pc[c] = "finalize" => call[c] = "cancel"

Role(t) == /\ t \in Workers => WorkerRole(t)
           /\ t \in Tickers => TickerRole(t)
           /\ t \in Clients => ClientRole(t)

\* A stage report is one of the reducer's.
Reports(t) ==
    pc[t] \in ApplyLabels /\ Kind(t) = "stage" => frame[t].cmd.report \in StageReports

\* Inside the critical section: the lock is the thread's, and what is left of its
\* decision fits the job as it stands.
Held(t) ==
    pc[t] \in InSerial =>
        /\ serial[job[t]] = t /\ frame[t].eff # << >>
        /\ Head(frame[t].eff).op # "await_worker_release"
        /\ pc[t] \in {"raise", "wipe"} => Head(frame[t].eff).op \notin {"commit", "set_desired"}
        /\ Plan(Kind(t), frame[t].eff, JobState(t), version[job[t]])

\* Outside it, waiting for a worker.
Waits(t) ==
    pc[t] \in {"await", "relock"} =>
        /\ Kind(t) \in {"pause", "cancel"}
        /\ pc[t] = "relock" => frame[t].eff # << >>
        /\ Kind(t) = "cancel" => frame[t].eff = << >>
        /\ \A i \in 1..Len(frame[t].eff) : frame[t].eff[i].op = "clear_interrupt"

\* A worker owns the job it works on, and its directory while its guard lives.
Owns(w) ==
    /\ Owning(w) => active[job[w]]
    /\ guard[w] => Owning(w) /\ leases[TargetOf[job[w]]] = job[w]
    /\ pc[w] \in {"loop", "reschedule", "leave"} \cup TransferLabels => guard[w]
    /\ pc[w] \in {"claimed", "release_active"} => ~guard[w]
    /\ pc[w] \in {"clear", "clear_reason", "report"} => (guard[w] <=> out[w] # "panicked")
    /\ pc[w] \in TransferLabels => JobState(w) \in {"transferring", "cancelling"}

\* What the steps of a cancel have established.
Ending == {"cancelling"} \cup Terminal
Finalizes(c) == pc[c] = "finalize" \/ (pc[c] \in ApplyLabels /\ Kind(c) = "finalize_cancel")
Cancels(c) ==
    /\ pc[c] \in {"await", "relock"} /\ Kind(c) = "cancel" => JobState(c) \in Ending
    /\ Finalizes(c) => JobState(c) \in Ending
    /\ pc[c] = "acked" /\ call[c] = "cancel" => JobState(c) = "cancelled"

\* What the steps of a pause have established, unless it was taken back.
IntentAhead(c) == frame[c].eff[1].op = "set_desired"
HasPaused(c) ==
    /\ call[c] = "pause"
    /\ \/ pc[c] \in {"await", "relock", "acked"}
       \/ pc[c] \in InSerial /\ ~IntentAhead(c)
HasWaited(c) ==
    /\ call[c] = "pause"
    /\ \/ pc[c] \in {"relock", "acked"}
       \/ pc[c] \in InSerial /\ ~AwaitAhead(frame[c].eff)
Pauses(c) == HasPaused(c) => rows[job[c]].desired = "paused"

ThreadInv(t) ==
    /\ Placed(t) /\ Role(t) /\ Reports(t) /\ Held(t) /\ Waits(t)
    /\ t \in Workers => Owns(t)
    /\ t \in Clients => Cancels(t) /\ Pauses(t)

\* Two workers never own one job.
Apart(v, w) == v # w /\ Owning(v) /\ Owning(w) => job[v] # job[w]

\* No worker transfers a job that is being finalized, or reads for one that is paused.
Reading == {"check_device", "reading"}
Quiet(c, w) ==
    job[c] = job[w] => /\ Finalizes(c) => pc[w] \notin TransferLabels
                       /\ HasWaited(c) => pc[w] \notin Reading

JobInv(j) ==
    /\ mem[j].state # "absent" => /\ mem[j].state = rows[j].state /\ mem[j].desired = rows[j].desired
                                  /\ version[j] = rows[j].version
    /\ j \in resting => /\ rows[j].desired = "paused"
                        /\ \A w \in Workers : pc[w] \in Reading => job[w] # j

QueueInv == \A i \in 1..Len(queue) : mem[queue[i]].state # "absent"

CoordinatorInv ==
    /\ Shapes /\ QueueInv
    /\ \A t \in Threads : ThreadInv(t)
    /\ \A v, w \in Workers : Apart(v, w)
    /\ \A c \in Clients, w \in Workers : Quiet(c, w)
    /\ \A j \in JobIds : JobInv(j)

(* The edges of the graph, one source at a time. *)
LEMMA EdgeTable ==
    ASSUME NEW s, NEW to
    PROVE  is_legal_transition(s, to) <=>
             \/ s = "queued" /\ to \in {"waiting_for_device", "waiting_for_pairing", "preparing", "cancelling"}
             \/ s = "waiting_for_device" /\ to \in {"queued", "preparing", "paused_capture_active", "cancelling"}
             \/ s = "waiting_for_pairing" /\ to \in {"queued", "preparing", "cancelling"}
             \/ s = "paused_capture_active" /\ to \in {"queued", "preparing", "cancelling"}
             \/ s = "preparing" /\ to \in {"transferring", "waiting_for_device", "cancelling"} \cup Failures
             \/ s = "transferring" /\ to \in {"verifying", "retry_wait", "paused_capture_active",
                                              "cancelling"} \cup Failures
             \/ s = "verifying" /\ to \in {"committing", "retry_wait", "cancelling"} \cup Failures
             \/ s = "committing" /\ to \in {"succeeded", "retry_wait"} \cup Failures
             \/ s = "retry_wait" /\ to \in {"queued", "preparing", "cancelling"} \cup Failures
             \/ s = "cancelling" /\ to \in {"cancelled"} \cup Failures
<1> DEFINE From(f, targets) == {<<f, t>> : t \in targets}
<1>1. \A f, T : <<s, to>> \in From(f, T) <=> s = f /\ to \in T
  OBVIOUS
<1>2. LegalEdges = UNION {From("queued", {"waiting_for_device", "waiting_for_pairing", "preparing", "cancelling"}),
                          From("waiting_for_device", {"queued", "preparing", "paused_capture_active", "cancelling"}),
                          From("waiting_for_pairing", {"queued", "preparing", "cancelling"}),
                          From("paused_capture_active", {"queued", "preparing", "cancelling"}),
                          From("preparing", {"transferring", "waiting_for_device", "cancelling"} \cup Failures),
                          From("transferring", {"verifying", "retry_wait", "paused_capture_active", "cancelling"} \cup Failures),
                          From("verifying", {"committing", "retry_wait", "cancelling"} \cup Failures),
                          From("committing", {"succeeded", "retry_wait"} \cup Failures),
                          From("retry_wait", {"queued", "preparing", "cancelling"} \cup Failures),
                          From("cancelling", {"cancelled"} \cup Failures)}
  BY DEF LegalEdges
<1> HIDE DEF From
<1>3. is_legal_transition(s, to) <=>
         \/ <<s, to>> \in From("queued", {"waiting_for_device", "waiting_for_pairing", "preparing", "cancelling"})
         \/ <<s, to>> \in From("waiting_for_device", {"queued", "preparing", "paused_capture_active", "cancelling"})
         \/ <<s, to>> \in From("waiting_for_pairing", {"queued", "preparing", "cancelling"})
         \/ <<s, to>> \in From("paused_capture_active", {"queued", "preparing", "cancelling"})
         \/ <<s, to>> \in From("preparing", {"transferring", "waiting_for_device", "cancelling"} \cup Failures)
         \/ <<s, to>> \in From("transferring", {"verifying", "retry_wait", "paused_capture_active", "cancelling"} \cup Failures)
         \/ <<s, to>> \in From("verifying", {"committing", "retry_wait", "cancelling"} \cup Failures)
         \/ <<s, to>> \in From("committing", {"succeeded", "retry_wait"} \cup Failures)
         \/ <<s, to>> \in From("retry_wait", {"queued", "preparing", "cancelling"} \cup Failures)
         \/ <<s, to>> \in From("cancelling", {"cancelled"} \cup Failures)
  BY <1>2 DEF is_legal_transition
<1> QED BY <1>1, <1>3

(* What the graph means for a job: it is left by its own edges only, and a *)
(* state that ends it has none.                                            *)
LEMMA EdgeFacts ==
    ASSUME NEW s, NEW to, is_legal_transition(s, to)
    PROVE  /\ s \in States /\ to \in States /\ s \notin Terminal /\ s # "absent" /\ to # "absent"
           /\ s = "cancelling" => to \in Terminal
  BY EdgeTable DEF States, Parked, Working, Terminal, Failures

(* The edges the reducer takes without asking. *)
LEMMA KnownEdges ==
    /\ is_legal_transition("retry_wait", "queued") /\ is_legal_transition("cancelling", "cancelled")
    /\ is_legal_transition("cancelling", "failed_final")
    /\ is_legal_transition("transferring", "paused_capture_active")
    /\ is_legal_transition("transferring", "retry_wait")
    /\ is_legal_transition("transferring", "cancelling")
  BY EdgeTable DEF Failures

(* Every report of a worker follows an edge. *)
LEMMA ReportEdges ==
    ASSUME NEW r \in StageReports
    PROVE  is_legal_transition(r.expects, r.to)
<1>1. CASE r.name = "failed"
  BY <1>1, EdgeTable DEF StageReports, Failures
<1>2. CASE r.name # "failed"
  BY <1>2, EdgeTable DEF StageReports
<1> QED BY <1>1, <1>2

(* An effect has the shape of one. *)
LEMMA EffectShapes ==
    /\ \A v \in Nat, to \in States : Commit(v, to) \in Effects
    /\ \A d \in RunIntents : SetDesiredRunState(d) \in Effects
    /\ \A r \in Reasons : RequestInterrupt(r) \in Effects
    /\ \A v \in Nat : RecordDeviceVersion(v) \in Effects
    /\ ClearInterrupt \in Effects /\ AwaitWorkerRelease \in Effects /\ Dispatch \in Effects
  BY DEF Commit, SetDesiredRunState, RequestInterrupt, RecordDeviceVersion, ClearInterrupt,
         AwaitWorkerRelease, Dispatch, Effect, Effects, Ops

(* Of a list that is not empty, what is left after its head. *)
LEMMA TailFacts ==
    ASSUME NEW S, NEW e \in Seq(S), e # << >>
    PROVE  /\ Len(e) \in Nat /\ Len(e) >= 1 /\ Head(e) = e[1] /\ Head(e) \in S
           /\ Tail(e) \in Seq(S) /\ Len(Tail(e)) = Len(e) - 1
           /\ \A i \in 1..Len(Tail(e)) : Tail(e)[i] = e[i + 1] /\ i + 1 \in 1..Len(e)
  OBVIOUS

(* Performing an effect that is not a commit leaves a plan. *)
LEMMA TailPlan ==
    ASSUME NEW k, NEW e \in Seq(Effects), NEW s, NEW v \in Nat, e # << >>, Plan(k, e, s, v),
           Head(e).op \notin {"commit", "await_worker_release"}
    PROVE  Plan(k, Tail(e), s, v)
<1> DEFINE f == Tail(e)
<1>0. /\ Len(e) \in Nat /\ Len(e) >= 1 /\ Head(e) = e[1] /\ Len(f) = Len(e) - 1
      /\ \A i \in 1..Len(f) : f[i] = e[i + 1] /\ i + 1 \in 1..Len(e)
  BY TailFacts
<1>i. \A i \in 1..Len(e) : i = 1 \/ (i - 1 \in 1..Len(f) /\ f[i - 1] = e[i])
  BY <1>0
<1> HIDE DEF f
<1>1. Chain(f, s, v)
  <2> SUFFICES ASSUME NEW i \in 1..Len(f), f[i].op = "commit"
               PROVE  IF i > 1 /\ f[i - 1].op = "commit"
                      THEN f[i].version = f[i - 1].version + 1 /\ is_legal_transition(f[i - 1].arg, f[i].arg)
                      ELSE /\ f[i].version = v /\ is_legal_transition(s, f[i].arg)
                           /\ \A m \in 1..(i - 1) : f[m].op # "commit"
    BY DEF Chain
  <2>1. f[i] = e[i + 1] /\ i + 1 \in 1..Len(e) /\ (i + 1) - 1 = i
    BY <1>0
  <2>2. IF i + 1 > 1 /\ e[i].op = "commit"
        THEN e[i + 1].version = e[i].version + 1 /\ is_legal_transition(e[i].arg, e[i + 1].arg)
        ELSE /\ e[i + 1].version = v /\ is_legal_transition(s, e[i + 1].arg)
             /\ \A m \in 1..i : e[m].op # "commit"
    BY <2>1 DEF Plan, Chain
  <2>3. CASE i = 1
    BY <1>0, <2>1, <2>2, <2>3
  <2>4. CASE i > 1
    <3>1. i - 1 \in 1..Len(f) /\ f[i - 1] = e[i]
      BY <1>0, <2>1, <2>4
    <3>2. \A m \in 1..(i - 1) : f[m] = e[m + 1] /\ m + 1 \in 1..i
      BY <1>0, <2>1
    <3> QED BY <2>1, <2>2, <2>4, <3>1, <3>2, SMTT(40)
  <2> QED BY <2>3, <2>4, <1>0
<1>2. Ordered(k, f, s)
  <2> SUFFICES ASSUME NEW i \in 1..Len(f)
               PROVE  /\ f[i].op # "set_desired"
                      /\ f[i].op = "await_worker_release" =>
                           /\ k \in {"pause", "cancel"} /\ (k = "cancel" => i = Len(f))
                           /\ \A m \in (i + 1)..Len(f) : f[m].op = "clear_interrupt"
                      /\ f[i].op = "request_interrupt" => f[i].arg \in Reasons
                      /\ f[i].op = "record_device_version" => k = "device_observed"
    BY DEF Ordered
  <2>1. f[i] = e[i + 1] /\ i + 1 \in 1..Len(e) /\ i + 1 # 1
    BY <1>0
  <2>2. \A m \in (i + 1)..Len(f) : f[m] = e[m + 1] /\ m + 1 \in (i + 2)..Len(e)
    BY <1>0, <2>1
  <2>3. (i + 1) + 1 = i + 2 /\ (i + 1 = Len(e) => i = Len(f))
    BY <1>0, <2>1
  <2> QED BY <2>1, <2>2, <2>3 DEF Plan, Ordered
<1>3. Leads(k, f, s)
  <2>1. \A i \in 1..Len(f) : f[i] = e[i + 1] /\ i + 1 \in 1..Len(e)
    BY <1>0
  <2>2. AwaitAhead(e) => AwaitAhead(f)
    BY <1>0, <1>i DEF AwaitAhead
  <2>3. (\E i \in 1..Len(e) : e[i].op = "commit") => \E i \in 1..Len(f) : f[i].op = "commit"
    BY <1>0, <1>i
  <2>4. (\E i \in 1..Len(e) : e[i].op = "commit" /\ e[i].arg = "cancelled")
           => \E i \in 1..Len(f) : f[i].op = "commit" /\ f[i].arg = "cancelled"
    BY <1>0, <1>i
  <2> QED BY <2>1, <2>2, <2>3, <2>4 DEF Plan, Leads
<1> QED BY <1>1, <1>2, <1>3 DEF Plan, f

(* Performing a commit: it is the next edge, and what is left is a plan from *)
(* there.                                                                    *)
LEMMA TailCommit ==
    ASSUME NEW k, NEW e \in Seq(Effects), NEW s, NEW v \in Nat, e # << >>, Plan(k, e, s, v),
           Head(e).op = "commit"
    PROVE  /\ Head(e).version = v /\ is_legal_transition(s, Head(e).arg)
           /\ Plan(k, Tail(e), Head(e).arg, v + 1)
<1> DEFINE f == Tail(e)
           to == Head(e).arg
<1>0. /\ Len(e) \in Nat /\ Len(e) >= 1 /\ Head(e) = e[1] /\ Len(f) = Len(e) - 1
      /\ \A i \in 1..Len(f) : f[i] = e[i + 1] /\ i + 1 \in 1..Len(e)
  BY TailFacts
<1>i. \A i \in 1..Len(e) : i = 1 \/ (i - 1 \in 1..Len(f) /\ f[i - 1] = e[i])
  BY <1>0
<1>h. e[1].op = "commit" /\ e[1].arg = to /\ 1 \in 1..Len(e)
  BY <1>0
<1>v. e[1].version = v /\ is_legal_transition(s, to)
  BY <1>h DEF Plan, Chain
<1> HIDE DEF f, to
<1>1. Chain(f, to, v + 1)
  <2> SUFFICES ASSUME NEW i \in 1..Len(f), f[i].op = "commit"
               PROVE  IF i > 1 /\ f[i - 1].op = "commit"
                      THEN f[i].version = f[i - 1].version + 1 /\ is_legal_transition(f[i - 1].arg, f[i].arg)
                      ELSE /\ f[i].version = v + 1 /\ is_legal_transition(to, f[i].arg)
                           /\ \A m \in 1..(i - 1) : f[m].op # "commit"
    BY DEF Chain
  <2>1. f[i] = e[i + 1] /\ i + 1 \in 1..Len(e) /\ (i + 1) - 1 = i
    BY <1>0
  <2>2. IF i + 1 > 1 /\ e[i].op = "commit"
        THEN e[i + 1].version = e[i].version + 1 /\ is_legal_transition(e[i].arg, e[i + 1].arg)
        ELSE /\ e[i + 1].version = v /\ is_legal_transition(s, e[i + 1].arg)
             /\ \A m \in 1..i : e[m].op # "commit"
    BY <2>1 DEF Plan, Chain
  <2>3. CASE i = 1
    BY <1>0, <1>h, <1>v, <2>1, <2>2, <2>3
  <2>4. CASE i > 1
    <3>1. i - 1 \in 1..Len(f) /\ f[i - 1] = e[i] /\ 1 \in 1..i
      BY <1>0, <2>1, <2>4
    <3> QED BY <1>h, <2>1, <2>2, <2>4, <3>1
  <2> QED BY <2>3, <2>4, <1>0
<1>2. Ordered(k, f, to)
  <2> SUFFICES ASSUME NEW i \in 1..Len(f)
               PROVE  /\ f[i].op # "set_desired"
                      /\ f[i].op = "await_worker_release" =>
                           /\ k \in {"pause", "cancel"} /\ (k = "cancel" => i = Len(f))
                           /\ \A m \in (i + 1)..Len(f) : f[m].op = "clear_interrupt"
                      /\ f[i].op = "request_interrupt" => f[i].arg \in Reasons
                      /\ f[i].op = "record_device_version" => k = "device_observed"
    BY DEF Ordered
  <2>1. f[i] = e[i + 1] /\ i + 1 \in 1..Len(e) /\ i + 1 # 1
    BY <1>0
  <2>2. \A m \in (i + 1)..Len(f) : f[m] = e[m + 1] /\ m + 1 \in (i + 2)..Len(e)
    BY <1>0, <2>1
  <2>3. (i + 1) + 1 = i + 2 /\ (i + 1 = Len(e) => i = Len(f))
    BY <1>0, <2>1
  <2> QED BY <2>1, <2>2, <2>3 DEF Plan, Ordered
<1>3. Leads(k, f, to)
  <2>1. \A i \in 1..Len(f) : f[i] = e[i + 1] /\ i + 1 \in 1..Len(e)
    BY <1>0
  <2>2. AwaitAhead(e) => AwaitAhead(f)
    BY <1>0, <1>h, <1>i DEF AwaitAhead
  <2>3. s # "cancelled"
    BY <1>v, EdgeFacts DEF Terminal
  <2>4. to = "cancelled" \/ ((\E i \in 1..Len(e) : e[i].op = "commit" /\ e[i].arg = "cancelled")
           => \E i \in 1..Len(f) : f[i].op = "commit" /\ f[i].arg = "cancelled")
    BY <1>0, <1>h, <1>i
  <2> QED BY <1>h, <2>1, <2>2, <2>3, <2>4 DEF Plan, Leads
<1> QED BY <1>0, <1>v, <1>1, <1>2, <1>3 DEF Plan, f, to

(* The commits of a route, in order. *)
LEMMA RouteFacts ==
    ASSUME NEW a, a.state \in States, a.version \in Nat, NEW to \in States, Routable(a.state, to)
    PROVE  LET c == commits_towards(a, to)
           IN  /\ c \in Seq(Effects) /\ Len(c) \in 0..2
               /\ \A i \in 1..Len(c) : c[i].op = "commit" /\ c[i].arg \in {"queued", to}
               /\ Chain(c, a.state, a.version) /\ (a.state = to => Len(c) = 0)
<1> DEFINE s == a.state
           v == a.version
           hops == route(s, to)
           c == commits_towards(a, to)
<1>s. "queued" \in States
  BY DEF States, Parked
<1>1. CASE s = to
  <2>1. hops = << >> /\ Len(hops) = 0
    BY <1>1 DEF route
  <2>2. c = [i \in 1..0 |-> Commit(v + i - 1, hops[i])]
    BY <2>1 DEF commits_towards
  <2>3. c \in Seq(Effects) /\ Len(c) = 0
    BY <2>2
  <2> QED BY <2>3 DEF Chain
<1>2. CASE s # to /\ is_legal_transition(s, to)
  <2>1. hops = <<to>> /\ Len(hops) = 1 /\ hops[1] = to
    BY <1>2 DEF route
  <2>2. c = [i \in 1..1 |-> Commit(v + i - 1, hops[i])]
    BY <2>1 DEF commits_towards
  <2>3. Commit(v, to) \in Effects /\ v + 1 - 1 = v
    BY EffectShapes
  <2>4. c \in Seq(Effects) /\ Len(c) = 1 /\ c[1] = Commit(v, to)
    <3>1. \A i \in 1..1 : Commit(v + i - 1, hops[i]) \in Effects
      BY <2>1, <2>3
    <3>2. c \in [1..1 -> Effects] /\ c[1] = Commit(v, to)
      BY <2>1, <2>2, <2>3, <3>1
    <3> QED BY <2>2, <3>1, <3>2
  <2>5. Commit(v, to).op = "commit" /\ Commit(v, to).arg = to /\ Commit(v, to).version = v
    BY DEF Commit, Effect
  <2>6. Chain(c, s, v)
    BY <1>2, <2>4, <2>5 DEF Chain
  <2> QED BY <1>2, <2>4, <2>5, <2>6
<1>3. CASE s # to /\ ~is_legal_transition(s, to)
  <2>1. hops = <<"queued", to>> /\ Len(hops) = 2 /\ hops[1] = "queued" /\ hops[2] = to
    BY <1>3 DEF route
  <2>2. c = [i \in 1..2 |-> Commit(v + i - 1, hops[i])]
    BY <2>1 DEF commits_towards
  <2>3. /\ Commit(v, "queued") \in Effects /\ Commit(v + 1, to) \in Effects
        /\ v + 1 - 1 = v /\ v + 2 - 1 = v + 1 /\ v + 1 \in Nat
    BY <1>s, EffectShapes
  <2>4. c \in Seq(Effects) /\ Len(c) = 2 /\ c[1] = Commit(v, "queued") /\ c[2] = Commit(v + 1, to)
    <3>1. \A i \in 1..2 : Commit(v + i - 1, hops[i]) \in Effects
      BY <2>1, <2>3
    <3>2. c \in [1..2 -> Effects] /\ c[1] = Commit(v, "queued") /\ c[2] = Commit(v + 1, to)
      BY <2>1, <2>2, <2>3, <3>1
    <3> QED BY <2>2, <3>1, <3>2
  <2>5. /\ Commit(v, "queued").op = "commit" /\ Commit(v, "queued").arg = "queued"
        /\ Commit(v, "queued").version = v /\ Commit(v + 1, to).op = "commit"
        /\ Commit(v + 1, to).arg = to /\ Commit(v + 1, to).version = v + 1
    BY DEF Commit, Effect
  <2>6. is_legal_transition(s, "queued") /\ is_legal_transition("queued", to)
    BY <1>3 DEF Routable
  <2>7. Chain(c, s, v)
    <3>1. \A i \in 1..Len(c) : i = 1 \/ i = 2
      BY <2>4
    <3>2. /\ c[1].version = v /\ is_legal_transition(s, c[1].arg) /\ c[1].op = "commit"
          /\ c[2].version = c[1].version + 1 /\ is_legal_transition(c[1].arg, c[2].arg)
      BY <2>4, <2>5, <2>6
    <3> HIDE DEF c
    <3> QED BY <3>1, <3>2 DEF Chain
  <2> QED BY <1>3, <2>4, <2>5, <2>7
<1> QED BY <1>1, <1>2, <1>3

(* The names of the states. *)
LEMMA StateNames ==
    /\ Terminal \subseteq States /\ Parked \subseteq States /\ Early \subseteq States
    /\ {"cancelling", "preparing", "transferring", "waiting_for_device", "queued", "retry_wait",
        "paused_capture_active", "cancelled", "failed_final", "waiting_for_pairing"} \subseteq States
    /\ "absent" \notin States /\ "cancelling" \notin Terminal /\ "cancelled" \in Terminal
    /\ Early \cap Terminal = {} /\ "cancelling" \notin Early /\ "transferring" \notin Early \cup Terminal
    /\ "queued" \in Early /\ "preparing" \in Early /\ "retry_wait" \in Early
    /\ "transferring" \in States /\ "failed_final" \in Terminal
  BY DEF States, Parked, Working, Terminal, Failures, Early

(* The fields of the effects. *)
LEMMA EffectFields ==
    /\ \A v, to : Commit(v, to).op = "commit" /\ Commit(v, to).arg = to /\ Commit(v, to).version = v
    /\ \A d : SetDesiredRunState(d).op = "set_desired" /\ SetDesiredRunState(d).arg = d
    /\ \A r : RequestInterrupt(r).op = "request_interrupt" /\ RequestInterrupt(r).arg = r
    /\ \A v : RecordDeviceVersion(v).op = "record_device_version"
    /\ ClearInterrupt.op = "clear_interrupt" /\ AwaitWorkerRelease.op = "await_worker_release"
    /\ Dispatch.op = "dispatch"
  BY DEF Commit, SetDesiredRunState, RequestInterrupt, RecordDeviceVersion, ClearInterrupt,
         AwaitWorkerRelease, Dispatch, Effect

(* Decisions with no effect, with one commit after or before other effects, *)
(* and with two.                                                            *)
LEMMA EmptyPlan ==
    ASSUME NEW k, k # "cancel", NEW s, NEW v, k = "finalize_cancel" => s = "cancelled"
    PROVE  << >> \in Seq(Effects) /\ Plan(k, << >>, s, v)
  BY DEF Plan, Chain, Ordered, Leads, AwaitAhead

(* Pausing a job. *)
LEMMA PausePlan ==
    ASSUME NEW a, a.state \in States, a.version \in Nat, ~IsRejected(decide_pause(a))
    PROVE  decide_pause(a).effects \in Seq(Effects)
           /\ Plan("pause", decide_pause(a).effects, a.state, a.version)
<1> DEFINE e == << SetDesiredRunState("paused"), RequestInterrupt("user_pause"),
                   AwaitWorkerRelease, ClearInterrupt >>
<1>1. a.state \notin Terminal /\ decide_pause(a).effects = e
  BY DEF decide_pause, IsRejected, Rejected, Accepted
<1>2. e \in Seq(Effects) /\ Len(e) = 4
  BY EffectShapes DEF RunIntents, Reasons
<1>3. /\ e[1].op = "set_desired" /\ e[1].arg = "paused" /\ e[2].op = "request_interrupt"
      /\ e[2].arg = "user_pause" /\ e[3].op = "await_worker_release" /\ e[4].op = "clear_interrupt"
  BY EffectFields
<1> HIDE DEF e
<1>4. \A i \in 1..Len(e) : i = 1 \/ i = 2 \/ i = 3 \/ i = 4
  BY <1>2
<1>5. Chain(e, a.state, a.version) /\ Leads("pause", e, a.state)
  BY <1>3, <1>4 DEF Chain, Leads
<1>6. Ordered("pause", e, a.state)
  <2>1. AwaitAhead(e)
    BY <1>2, <1>3 DEF AwaitAhead
  <2> QED BY <1>1, <1>2, <1>3, <1>4, <2>1 DEF Ordered, Reasons
<1> QED BY <1>1, <1>2, <1>5, <1>6 DEF Plan

(* Resuming one. *)
LEMMA ResumePlan ==
    ASSUME NEW a, a.state \in States, a.version \in Nat, ~IsRejected(decide_resume(a))
    PROVE  decide_resume(a).effects \in Seq(Effects)
           /\ Plan("resume", decide_resume(a).effects, a.state, a.version)
<1>0. a.state \notin Terminal
  BY DEF decide_resume, IsRejected, Rejected, Accepted
<1>1. CASE a.state = "retry_wait"
  <2> DEFINE e == << SetDesiredRunState("run"), Commit(a.version, "queued"), Dispatch >>
  <2>1. decide_resume(a).effects = e
    BY <1>0, <1>1 DEF decide_resume, Accepted
  <2>2. e \in Seq(Effects) /\ Len(e) = 3
    BY EffectShapes, StateNames DEF RunIntents
  <2>3. /\ e[1].op = "set_desired" /\ e[1].arg = "run" /\ e[2].op = "commit"
        /\ e[2].arg = "queued" /\ e[2].version = a.version /\ e[3].op = "dispatch"
    BY EffectFields
  <2> HIDE DEF e
  <2>4. \A i \in 1..Len(e) : i = 1 \/ i = 2 \/ i = 3
    BY <2>2
  <2>5. Chain(e, a.state, a.version)
    BY <1>1, <2>2, <2>3, <2>4, KnownEdges DEF Chain
  <2>6. Ordered("resume", e, a.state) /\ Leads("resume", e, a.state)
    BY <1>0, <1>1, <2>3, <2>4, StateNames DEF Ordered, Leads
  <2> QED BY <2>1, <2>2, <2>5, <2>6 DEF Plan
<1>2. CASE a.state # "retry_wait"
  <2> DEFINE e == << SetDesiredRunState("run"), Dispatch >>
  <2>1. decide_resume(a).effects = e
    BY <1>0, <1>2 DEF decide_resume, IsRejected, Rejected, Accepted
  <2>2. e \in Seq(Effects) /\ Len(e) = 2
    BY EffectShapes DEF RunIntents
  <2>3. e[1].op = "set_desired" /\ e[1].arg = "run" /\ e[2].op = "dispatch"
    BY EffectFields
  <2> HIDE DEF e
  <2>4. \A i \in 1..Len(e) : i = 1 \/ i = 2
    BY <2>2
  <2>5. Chain(e, a.state, a.version) /\ Ordered("resume", e, a.state) /\ Leads("resume", e, a.state)
    BY <1>0, <2>3, <2>4 DEF Chain, Ordered, Leads
  <2> QED BY <2>1, <2>2, <2>5 DEF Plan
<1> QED BY <1>1, <1>2

(* Cancelling one. *)
LEMMA CancelPlan ==
    ASSUME NEW a, a.state \in States, a.version \in Nat, ~IsRejected(decide_cancel(a))
    PROVE  decide_cancel(a).effects \in Seq(Effects)
           /\ Plan("cancel", decide_cancel(a).effects, a.state, a.version)
<1>0. a.state \notin Terminal
  BY DEF decide_cancel, IsRejected, Rejected, Accepted
<1>1. CASE a.state = "cancelling"
  <2> DEFINE e == << RequestInterrupt("cancel"), Dispatch, AwaitWorkerRelease >>
  <2>1. decide_cancel(a).effects = e
    BY <1>0, <1>1 DEF decide_cancel, Accepted
  <2>2. e \in Seq(Effects) /\ Len(e) = 3
    BY EffectShapes DEF Reasons
  <2>3. /\ e[1].op = "request_interrupt" /\ e[1].arg = "cancel" /\ e[2].op = "dispatch"
        /\ e[3].op = "await_worker_release"
    BY EffectFields
  <2> HIDE DEF e
  <2>4. (\A i \in 1..Len(e) : i = 1 \/ i = 2 \/ i = 3) /\ 3 \in 1..Len(e)
    BY <2>2
  <2>5. Chain(e, a.state, a.version) /\ Leads("cancel", e, a.state)
    BY <1>1, <2>3, <2>4 DEF Chain, Leads, AwaitAhead
  <2>6. Ordered("cancel", e, a.state)
    BY <2>2, <2>3, <2>4 DEF Ordered, Reasons
  <2> QED BY <2>1, <2>2, <2>5, <2>6 DEF Plan
<1>2. CASE a.state # "cancelling"
  <2> DEFINE e == << RequestInterrupt("cancel"), Commit(a.version, "cancelling"), Dispatch,
                     AwaitWorkerRelease >>
  <2>1. decide_cancel(a).effects = e /\ is_legal_transition(a.state, "cancelling")
    BY <1>0, <1>2 DEF decide_cancel, IsRejected, Rejected, Accepted
  <2>2. e \in Seq(Effects) /\ Len(e) = 4
    BY EffectShapes, StateNames DEF Reasons
  <2>3. /\ e[1].op = "request_interrupt" /\ e[1].arg = "cancel" /\ e[2].op = "commit"
        /\ e[2].arg = "cancelling" /\ e[2].version = a.version /\ e[3].op = "dispatch"
        /\ e[4].op = "await_worker_release"
    BY EffectFields
  <2> HIDE DEF e
  <2>4. (\A i \in 1..Len(e) : i = 1 \/ i = 2 \/ i = 3 \/ i = 4) /\ 4 \in 1..Len(e) /\ 2 \in 1..Len(e)
    BY <2>2
  <2>5. Chain(e, a.state, a.version)
    BY <2>1, <2>3, <2>4 DEF Chain
  <2>6. Ordered("cancel", e, a.state)
    BY <2>2, <2>3, <2>4 DEF Ordered, Reasons
  <2>7. Leads("cancel", e, a.state)
    BY <2>3, <2>4 DEF Leads, AwaitAhead
  <2> QED BY <2>1, <2>2, <2>5, <2>6, <2>7 DEF Plan
<1> QED BY <1>1, <1>2

(* Finalizing a cancel, for the client and for the worker. *)
LEMMA FinalizePlan ==
    ASSUME NEW a, a.state \in States, a.version \in Nat, ~IsRejected(decide_finalize_cancel(a)),
           NEW k \in {"finalize_cancel", "interrupted"}
    PROVE  decide_finalize_cancel(a).effects \in Seq(Effects)
           /\ Plan(k, decide_finalize_cancel(a).effects, a.state, a.version)
<1>0. CASE a.state \in Terminal
  <2>1. a.state = "cancelled" /\ decide_finalize_cancel(a).effects = << >>
    BY <1>0 DEF decide_finalize_cancel, IsRejected, Rejected, Accepted, NoOp
  <2> QED BY <2>1, EmptyPlan
<1>1. CASE a.state = "cancelling"
  <2> DEFINE e == << Commit(a.version, "cancelled"), ClearInterrupt >>
  <2>1. decide_finalize_cancel(a).effects = e
    BY <1>1, StateNames DEF decide_finalize_cancel, Accepted
  <2>2. e \in Seq(Effects) /\ Len(e) = 2
    BY EffectShapes, StateNames
  <2>3. /\ e[1].op = "commit" /\ e[1].arg = "cancelled" /\ e[1].version = a.version
        /\ e[2].op = "clear_interrupt"
    BY EffectFields
  <2> HIDE DEF e
  <2>4. (\A i \in 1..Len(e) : i = 1 \/ i = 2) /\ 1 \in 1..Len(e)
    BY <2>2
  <2>5. Chain(e, a.state, a.version)
    BY <1>1, <2>3, <2>4, KnownEdges DEF Chain
  <2>6. Ordered(k, e, a.state) /\ Leads(k, e, a.state)
    BY <2>3, <2>4 DEF Ordered, Leads
  <2> QED BY <2>1, <2>2, <2>5, <2>6 DEF Plan
<1>2. CASE a.state \notin Terminal /\ a.state # "cancelling"
  <2> DEFINE e == << Commit(a.version, "cancelling"), Commit(a.version + 1, "cancelled"),
                     ClearInterrupt >>
  <2>1. decide_finalize_cancel(a).effects = e /\ is_legal_transition(a.state, "cancelling")
    BY <1>2, StateNames DEF decide_finalize_cancel, IsRejected, Rejected, Accepted
  <2>2. e \in Seq(Effects) /\ Len(e) = 3
    BY EffectShapes, StateNames
  <2>3. /\ e[1].op = "commit" /\ e[1].arg = "cancelling" /\ e[1].version = a.version
        /\ e[2].op = "commit" /\ e[2].arg = "cancelled" /\ e[2].version = a.version + 1
        /\ e[3].op = "clear_interrupt"
    BY EffectFields
  <2> HIDE DEF e
  <2>4. (\A i \in 1..Len(e) : i = 1 \/ i = 2 \/ i = 3) /\ 2 \in 1..Len(e)
    BY <2>2
  <2>5. Chain(e, a.state, a.version)
    BY <2>1, <2>3, <2>4, KnownEdges DEF Chain
  <2>6. Ordered(k, e, a.state) /\ Leads(k, e, a.state)
    BY <2>3, <2>4 DEF Ordered, Leads
  <2> QED BY <2>1, <2>2, <2>5, <2>6 DEF Plan
<1> QED BY <1>0, <1>1, <1>2

(* One commit after an effect that is none: interrupts, and reports. *)
LEMMA CommitPlans ==
    ASSUME NEW s, NEW v \in Nat, NEW to, is_legal_transition(s, to), NEW k \in {"interrupted", "stage"}
    PROVE  /\ << ClearInterrupt, Commit(v, to) >> \in Seq(Effects)
           /\ Plan(k, << ClearInterrupt, Commit(v, to) >>, s, v)
           /\ << Commit(v, to) >> \in Seq(Effects) /\ Plan(k, << Commit(v, to) >>, s, v)
<1> DEFINE e == << ClearInterrupt, Commit(v, to) >>
           f == << Commit(v, to) >>
<1>1. to \in States
  BY EdgeFacts
<1>2. e \in Seq(Effects) /\ Len(e) = 2 /\ f \in Seq(Effects) /\ Len(f) = 1
  BY <1>1, EffectShapes
<1>3. /\ e[1].op = "clear_interrupt" /\ e[2].op = "commit" /\ e[2].arg = to /\ e[2].version = v
      /\ f[1].op = "commit" /\ f[1].arg = to /\ f[1].version = v
  BY EffectFields
<1> HIDE DEF e, f
<1>4. (\A i \in 1..Len(e) : i = 1 \/ i = 2) /\ \A i \in 1..Len(f) : i = 1
  BY <1>2
<1>5. Chain(e, s, v) /\ Chain(f, s, v)
  BY <1>3, <1>4 DEF Chain
<1>6. Ordered(k, e, s) /\ Leads(k, e, s) /\ Ordered(k, f, s) /\ Leads(k, f, s)
  BY <1>3, <1>4 DEF Ordered, Leads
<1> QED BY <1>2, <1>5, <1>6 DEF Plan, e, f

(* A worker's interrupt. *)
LEMMA InterruptedPlan ==
    ASSUME NEW a, a.state \in States, a.version \in Nat, NEW r,
           ~IsRejected(decide_interrupted(a, r))
    PROVE  decide_interrupted(a, r).effects \in Seq(Effects)
           /\ Plan("interrupted", decide_interrupted(a, r).effects, a.state, a.version)
<1> DEFINE d == decide_interrupted(a, r)
<1>1. CASE d = NoOp
  <2>1. d.effects = << >>
    BY <1>1 DEF NoOp
  <2> QED BY <2>1, EmptyPlan
<1>2. CASE d = decide_finalize_cancel(a)
  BY <1>2, FinalizePlan
<1>3. CASE a.state = "transferring" /\ d = Accepted(<< ClearInterrupt, Commit(a.version, "paused_capture_active") >>)
  <2>1. d.effects = << ClearInterrupt, Commit(a.version, "paused_capture_active") >>
    BY <1>3 DEF Accepted
  <2> QED BY <1>3, <2>1, CommitPlans, KnownEdges
<1>4. CASE a.state = "transferring" /\ d = Accepted(<< ClearInterrupt, Commit(a.version, "retry_wait") >>)
  <2>1. d.effects = << ClearInterrupt, Commit(a.version, "retry_wait") >>
    BY <1>4 DEF Accepted
  <2> QED BY <1>4, <2>1, CommitPlans, KnownEdges
<1> QED BY <1>1, <1>2, <1>3, <1>4 DEF decide_interrupted, IsRejected, Rejected

(* A worker's report. *)
LEMMA StagePlan ==
    ASSUME NEW a, a.state \in States, a.version \in Nat, NEW r \in StageReports,
           ~IsRejected(decide_stage(a, r))
    PROVE  decide_stage(a, r).effects \in Seq(Effects)
           /\ Plan("stage", decide_stage(a, r).effects, a.state, a.version)
<1>1. CASE a.state = "cancelling"
  <2>1. decide_stage(a, r).effects = << >>
    BY <1>1, StateNames DEF decide_stage, NoOp
  <2> QED BY <2>1, EmptyPlan
<1>2. CASE a.state # "cancelling"
  <2>1. a.state = r.expects /\ decide_stage(a, r).effects = << Commit(a.version, r.to) >>
    BY <1>2 DEF decide_stage, IsRejected, Rejected, Accepted
  <2>2. is_legal_transition(a.state, r.to)
    BY <2>1, ReportEdges
  <2> QED BY <2>1, <2>2, CommitPlans
<1> QED BY <1>1, <1>2

(* A worker that panicked. *)
LEMMA PanicPlan ==
    ASSUME NEW a, a.state \in States, a.version \in Nat, ~IsRejected(decide_worker_panic(a))
    PROVE  decide_worker_panic(a).effects \in Seq(Effects)
           /\ Plan("panicked", decide_worker_panic(a).effects, a.state, a.version)
<1>1. CASE Routable(a.state, "failed_final")
  <2> DEFINE c == commits_towards(a, "failed_final")
  <2>1. decide_worker_panic(a).effects = c
    BY <1>1 DEF decide_worker_panic, Accepted
  <2>2. /\ c \in Seq(Effects) /\ \A i \in 1..Len(c) : c[i].op = "commit"
        /\ Chain(c, a.state, a.version)
    BY <1>1, RouteFacts, StateNames
  <2> HIDE DEF c
  <2>3. Ordered("panicked", c, a.state) /\ Leads("panicked", c, a.state)
    BY <2>2 DEF Ordered, Leads
  <2> QED BY <2>1, <2>2, <2>3 DEF Plan
<1>2. CASE ~Routable(a.state, "failed_final")
  <2> DEFINE e == << Commit(a.version, "cancelling"), Commit(a.version + 1, "failed_final") >>
  <2>1. decide_worker_panic(a).effects = e /\ is_legal_transition(a.state, "cancelling")
    BY <1>2 DEF decide_worker_panic, IsRejected, Rejected, Accepted
  <2>2. e \in Seq(Effects) /\ Len(e) = 2
    BY EffectShapes, StateNames
  <2>3. /\ e[1].op = "commit" /\ e[1].arg = "cancelling" /\ e[1].version = a.version
        /\ e[2].op = "commit" /\ e[2].arg = "failed_final" /\ e[2].version = a.version + 1
    BY EffectFields
  <2> HIDE DEF e
  <2>4. \A i \in 1..Len(e) : i = 1 \/ i = 2
    BY <2>2
  <2>5. Chain(e, a.state, a.version)
    BY <2>1, <2>3, <2>4, KnownEdges DEF Chain
  <2>6. Ordered("panicked", e, a.state) /\ Leads("panicked", e, a.state)
    BY <2>3, <2>4 DEF Ordered, Leads
  <2> QED BY <2>1, <2>2, <2>5, <2>6 DEF Plan
<1> QED BY <1>1, <1>2

(* A reading of the device. *)
LEMMA ObservedPlan ==
    ASSUME NEW a, a.state \in States, a.version \in Nat, NEW snapshot, snapshot.version \in Nat,
           snapshot.readiness \in Readiness
    PROVE  decide_device_observed(a, snapshot).effects \in Seq(Effects)
           /\ Plan("device_observed", decide_device_observed(a, snapshot).effects, a.state, a.version)
<1> DEFINE record == RecordDeviceVersion(snapshot.version)
           target == ObservedTarget(a.state, snapshot.readiness)
           commits == IF Routable(a.state, target) THEN commits_towards(a, target) ELSE << >>
           d == decide_device_observed(a, snapshot)
<1>1. CASE d = NoOp
  <2>1. d.effects = << >>
    BY <1>1 DEF NoOp
  <2> QED BY <2>1, EmptyPlan
<1>2. ASSUME NEW r \in {"capture_pause", "device_lost"}, d = Accepted(<< record, RequestInterrupt(r) >>)
      PROVE  d.effects \in Seq(Effects) /\ Plan("device_observed", d.effects, a.state, a.version)
  <2> DEFINE e == << record, RequestInterrupt(r) >>
  <2>1. d.effects = e
    BY <1>2 DEF Accepted
  <2>2. e \in Seq(Effects) /\ Len(e) = 2
    BY EffectShapes DEF Reasons
  <2>3. e[1].op = "record_device_version" /\ e[2].op = "request_interrupt" /\ e[2].arg = r
    BY EffectFields
  <2> HIDE DEF e, d
  <2>4. \A i \in 1..Len(e) : i = 1 \/ i = 2
    BY <2>2
  <2>5. /\ Chain(e, a.state, a.version) /\ Ordered("device_observed", e, a.state)
        /\ Leads("device_observed", e, a.state)
    BY <2>3, <2>4 DEF Chain, Ordered, Leads, Reasons
  <2> QED BY <2>1, <2>2, <2>5 DEF Plan
<1>3. CASE d = Accepted(<< record >> \o commits) /\ a.state \notin Terminal
  <2> DEFINE e == << record >> \o commits
  <2>0. target \in States /\ (a.state \in Early => target \in Early) /\ (a.state \notin Early => target = a.state)
    <3>1. ParkingTarget(snapshot.readiness) \in Early
      BY DEF ParkingTarget, Readiness, Early, Parked
    <3>2. "waiting_for_device" \in Early /\ Early = Parked \cup {"preparing"}
      BY DEF Early, Parked
    <3>3. CASE a.state \in Parked
      BY <3>1, <3>2, <3>3, StateNames DEF ObservedTarget
    <3>4. CASE a.state \notin Parked /\ a.state = "preparing" /\ snapshot.readiness # "ready"
      BY <3>2, <3>4, StateNames DEF ObservedTarget
    <3>5. CASE a.state \notin Parked /\ ~(a.state = "preparing" /\ snapshot.readiness # "ready")
      BY <3>5 DEF ObservedTarget
    <3> QED BY <3>3, <3>4, <3>5
  <2>1. d.effects = e
    BY <1>3 DEF Accepted
  <2>2. /\ commits \in Seq(Effects) /\ Chain(commits, a.state, a.version)
        /\ \A i \in 1..Len(commits) : /\ commits[i].op = "commit" /\ a.state \in Early
                                      /\ commits[i].arg \in Early
    <3>1. CASE Routable(a.state, target)
      <4>1. commits = commits_towards(a, target)
        BY <3>1
      <4>2. /\ commits \in Seq(Effects) /\ Chain(commits, a.state, a.version) /\ Len(commits) \in 0..2
            /\ \A i \in 1..Len(commits) : commits[i].op = "commit" /\ commits[i].arg \in {"queued", target}
            /\ (a.state = target => Len(commits) = 0)
        BY <2>0, <3>1, <4>1, RouteFacts
      <4> HIDE DEF commits, target
      <4>3. a.state \notin Early => Len(commits) = 0
        BY <2>0, <4>2
      <4> QED BY <2>0, <4>2, <4>3, StateNames
    <3>2. CASE ~Routable(a.state, target)
      BY <3>2 DEF Chain
    <3> QED BY <3>1, <3>2
  <2> HIDE DEF d, target, commits
  <2>3. /\ e \in Seq(Effects) /\ Len(e) = Len(commits) + 1 /\ e[1] = record /\ Len(commits) \in Nat
        /\ \A i \in 1..Len(e) : i # 1 => i - 1 \in 1..Len(commits) /\ e[i] = commits[i - 1]
    BY <2>2, EffectShapes
  <2>4. e[1].op = "record_device_version"
    BY <2>3, EffectFields
  <2> HIDE DEF e
  <2>5. Chain(e, a.state, a.version)
    <3> SUFFICES ASSUME NEW i \in 1..Len(e), e[i].op = "commit"
                 PROVE  IF i > 1 /\ e[i - 1].op = "commit"
                        THEN /\ e[i].version = e[i - 1].version + 1
                             /\ is_legal_transition(e[i - 1].arg, e[i].arg)
                        ELSE /\ e[i].version = a.version /\ is_legal_transition(a.state, e[i].arg)
                             /\ \A m \in 1..(i - 1) : e[m].op # "commit"
      BY DEF Chain
    <3>1. i # 1 /\ i - 1 \in 1..Len(commits) /\ e[i] = commits[i - 1]
      BY <2>3, <2>4
    <3>2. CASE i = 2
      <4>1. /\ commits[1].version = a.version /\ is_legal_transition(a.state, commits[1].arg)
        BY <2>2, <3>1, <3>2 DEF Chain
      <4> QED BY <2>4, <3>1, <3>2, <4>1
    <3>3. CASE i > 2
      <4>1. i - 1 \in 1..Len(e) /\ i - 1 # 1 /\ i - 2 \in 1..Len(commits) /\ i - 1 > 1 /\ (i - 1) - 1 = i - 2
        BY <2>3, <3>1, <3>3
      <4>2. e[i - 1] = commits[i - 2] /\ commits[i - 2].op = "commit" /\ commits[i - 1].op = "commit"
        BY <2>2, <2>3, <3>1, <4>1
      <4>3. /\ commits[i - 1].version = commits[i - 2].version + 1
            /\ is_legal_transition(commits[i - 2].arg, commits[i - 1].arg)
        BY <2>2, <3>1, <4>1, <4>2 DEF Chain
      <4> QED BY <3>1, <4>1, <4>2, <4>3, <3>3
    <3> QED BY <2>3, <3>1, <3>2, <3>3
  <2>6. Ordered("device_observed", e, a.state) /\ Leads("device_observed", e, a.state)
    <3>1. \A i \in 1..Len(e) : /\ e[i].op \in {"record_device_version", "commit"}
                               /\ e[i].op = "commit" => e[i].arg \in Early /\ a.state \in Early
      BY <2>2, <2>3, <2>4
    <3> QED BY <3>1 DEF Ordered, Leads
  <2> QED BY <2>1, <2>3, <2>5, <2>6 DEF Plan, d
<1> QED BY <1>1, <1>2, <1>3 DEF decide_device_observed

(* Every decision is a plan. *)
LEMMA DecisionPlan ==
    ASSUME NEW a, a.state \in States, a.version \in Nat, NEW c \in Commands,
           c.kind \in WorkerKinds \cup ClientKinds, c.kind = "stage" => c.report \in StageReports,
           ~IsRejected(decide(a, c))
    PROVE  decide(a, c).effects \in Seq(Effects) /\ Plan(c.kind, decide(a, c).effects, a.state, a.version)
<1>1. c.snapshot.version \in Nat /\ c.snapshot.readiness \in Readiness
  BY DEF Commands
<1>2. ~IsRejected(decide(a, c)) => ~(decide(a, c) = Rejected("already_terminal"))
  BY DEF IsRejected, Rejected
<1>3. CASE c.kind = "pause"
  BY <1>3, PausePlan DEF decide
<1>4. CASE c.kind = "resume"
  BY <1>4, ResumePlan DEF decide
<1>5. CASE c.kind = "cancel"
  BY <1>5, CancelPlan DEF decide
<1>6. CASE c.kind = "finalize_cancel"
  BY <1>6, FinalizePlan DEF decide
<1>7. CASE c.kind = "device_observed"
  BY <1>1, <1>7, ObservedPlan DEF decide
<1>8. CASE c.kind = "stage"
  BY <1>8, StagePlan DEF decide
<1>9. CASE c.kind = "interrupted"
  BY <1>2, <1>9, InterruptedPlan DEF decide
<1>10. CASE c.kind = "panicked"
  BY <1>2, <1>10, PanicPlan DEF decide
<1> QED BY <1>3, <1>4, <1>5, <1>6, <1>7, <1>8, <1>9, <1>10 DEF WorkerKinds, ClientKinds

(* The commands a thread issues, and the frames they run in. *)
LEMMA CommandShapes ==
    /\ \A k \in WorkerKinds \cup ClientKinds \cup {"none"} :
          Command(k) \in Commands /\ Command(k).kind = k
    /\ \A r \in StageReports : /\ StageReport(r) \in Commands /\ StageReport(r).kind = "stage"
                               /\ StageReport(r).report = r
    /\ \A r \in Outs : Interrupted(r) \in Commands /\ Interrupted(r).kind = "interrupted"
    /\ \A r \in Readiness : LET c == DeviceObserved([version |-> 1, readiness |-> r])
                            IN  c \in Commands /\ c.kind = "device_observed"
<1>1. ASSUME NEW k \in WorkerKinds \cup ClientKinds \cup {"none"}
      PROVE  Command(k) \in Commands /\ Command(k).kind = k
  BY DEF Command, Commands, NoReport, NoSnapshot, Outs, Readiness
<1>2. {"stage", "interrupted", "device_observed"} \subseteq WorkerKinds \cup ClientKinds \cup {"none"}
  BY DEF WorkerKinds
<1>3. ASSUME NEW r \in StageReports
      PROVE  StageReport(r) \in Commands /\ StageReport(r).kind = "stage" /\ StageReport(r).report = r
  <2>1. Command("stage") \in Commands /\ Command("stage").kind = "stage"
    BY <1>1, <1>2
  <2> QED BY <2>1 DEF StageReport, Commands
<1>4. ASSUME NEW r \in Outs
      PROVE  Interrupted(r) \in Commands /\ Interrupted(r).kind = "interrupted"
  <2>1. Command("interrupted") \in Commands /\ Command("interrupted").kind = "interrupted"
    BY <1>1, <1>2
  <2> QED BY <2>1 DEF Interrupted, Commands
<1>5. ASSUME NEW r \in Readiness
      PROVE  LET c == DeviceObserved([version |-> 1, readiness |-> r])
             IN  c \in Commands /\ c.kind = "device_observed"
  <2>1. Command("device_observed") \in Commands /\ Command("device_observed").kind = "device_observed"
    BY <1>1, <1>2
  <2>2. [version |-> 1, readiness |-> r] \in [version : {0, 1}, readiness : Readiness]
    OBVIOUS
  <2> QED BY <2>1, <2>2 DEF DeviceObserved, Commands
<1> QED BY <1>1, <1>3, <1>4, <1>5

(* The empty frame. *)
LEMMA FrameShapes ==
    /\ NoFrame \in Frames /\ NoFrame.eff = << >> /\ NoFrame.ok = "idle" /\ NoFrame.cmd.kind = "none"
    /\ NoHint \in [Readiness -> Labels] /\ \A r \in Readiness : NoHint[r] = "idle"
<1>1. NoHint \in [Readiness -> Labels] /\ \A r \in Readiness : NoHint[r] = "idle"
  BY DEF NoHint, Labels
<1>2. Command("none") \in Commands /\ Command("none").kind = "none"
  BY CommandShapes
<1>3. << >> \in Seq(Effects) /\ "idle" \in Labels
  BY DEF Labels
<1>4. NoFrame \in Frames /\ NoFrame.eff = << >> /\ NoFrame.ok = "idle" /\ NoFrame.cmd.kind = "none"
  BY <1>1, <1>2, <1>3 DEF NoFrame, Frames
<1> QED BY <1>1, <1>4

\* A step moves one thread; what the others hold is theirs.
Alone(t) ==
    /\ \A u \in Threads \ {t} : pc'[u] = pc[u] /\ job'[u] = job[u] /\ frame'[u] = frame[u]
    /\ \A w \in Workers \ {t} : out'[w] = out[w] /\ guard'[w] = guard[w]
    /\ \A c \in Clients \ {t} : call'[c] = call[c] \/ (call[c] = "pause" /\ call'[c] = "overtaken")

(* Who is who. *)
LEMMA Roles ==
    /\ \A t \in Threads : t \in Workers \/ t \in Clients \/ t \in Tickers
    /\ \A t \in Workers : t \in Threads /\ t \notin Clients /\ t \notin Tickers
    /\ \A t \in Clients : t \in Threads /\ t \notin Workers /\ t \notin Tickers
    /\ \A t \in Tickers : t \in Threads /\ t \notin Workers /\ t \notin Clients
    /\ NoThread \notin Threads /\ NoJob \notin JobIds /\ TargetOf \in [JobIds -> Targets]
  BY CoordinatorConstants, StoreConstants DEF Threads

(* The labels of a worker that owns its job. *)
LEMMA OwningLabels ==
    /\ TransferLabels \cap {"idle", "popped", "exited"} = {} /\ Reading \subseteq TransferLabels
    /\ ApplyLabels \cap {"idle", "popped", "exited"} = {} /\ InSerial \subseteq ApplyLabels
    /\ ApplyLabels \cap (WorkerLabels \cup TickLabels \cup ClientLabels) = {}
    /\ TransferLabels \cap ({"idle"} \cup ApplyLabels) = {}
    /\ {"await", "relock", "lock", "perform", "raise", "wipe", "mint", "read"} = ApplyLabels
  BY DEF TransferLabels, Reading, ApplyLabels, InSerial, WorkerLabels, TickLabels, ClientLabels

(* A pause that has seen the worker leave has set its intent. *)
LEMMA WaitedHasPaused ==
    ASSUME NEW c \in Clients, Shapes, ThreadInv(c), HasWaited(c)
    PROVE  HasPaused(c)
<1>1. CASE pc[c] \in {"relock", "acked"}
  BY <1>1 DEF HasWaited, HasPaused
<1>2. CASE pc[c] \in InSerial /\ ~AwaitAhead(frame[c].eff)
  <2>1. /\ Ordered(Kind(c), frame[c].eff, JobState(c)) /\ frame[c].eff # << >>
        /\ call[c] = "pause" /\ pc[c] \in ApplyLabels
    BY <1>2, OwningLabels DEF ThreadInv, Held, Plan, HasWaited
  <2>2. Kind(c) = "pause"
    BY <2>1 DEF ThreadInv, Role, ClientRole
  <2>3. frame[c].eff \in Seq(Effects)
    BY Roles DEF Shapes, Frames
  <2>4. 1 \in 1..Len(frame[c].eff)
    BY <2>1, <2>3
  <2>5. ~IntentAhead(c)
    BY <1>2, <2>1, <2>2, <2>4 DEF Ordered, IntentAhead
  <2> QED BY <1>2, <2>1, <2>5 DEF HasPaused
<1> QED BY <1>1, <1>2 DEF HasWaited

\* What a step keeps of the job of a thread that it leaves alone.
Keep(u) ==
    pc[u] # "idle" =>
        /\ mem'[job[u]] = mem[job[u]] /\ version'[job[u]] = version[job[u]]
        /\ rows'[job[u]].desired = rows[job[u]].desired
        /\ serial[job[u]] = u => serial'[job[u]] = u
        /\ u \in Workers /\ Owning(u) => active'[job[u]]
        /\ u \in Workers /\ guard[u] => leases'[TargetOf[job[u]]] = leases[TargetOf[job[u]]]

(* A thread left alone stays as it should be. *)
LEMMA OtherKept ==
    ASSUME CoordinatorInv, NEW t, Alone(t), NEW u \in Threads, u # t, Keep(u)
    PROVE  ThreadInv(u)'
<1>0. ThreadInv(u) /\ pc'[u] = pc[u] /\ job'[u] = job[u] /\ frame'[u] = frame[u]
  BY DEF CoordinatorInv, Alone
<1>1. u \in Workers => out'[u] = out[u] /\ guard'[u] = guard[u]
  BY DEF Alone
<1>2. u \in Clients => call'[u] = call[u] \/ (call[u] = "pause" /\ call'[u] = "overtaken")
  BY DEF Alone
<1>3. CASE pc[u] = "idle"
  <2>1. u \in Workers => guard[u] = FALSE
    BY <1>0, <1>3 DEF ThreadInv, Owns, Owning, CoordinatorInv, Shapes
  <2>2. Placed(u)' /\ Reports(u)' /\ Held(u)' /\ Waits(u)'
    BY <1>0, <1>3, OwningLabels DEF Placed, Reports, Held, Waits, ApplyLabels
  <2>3. Role(u)'
    BY <1>0, <1>3, OwningLabels DEF Role, WorkerRole, TickerRole, ClientRole, ApplyLabels
  <2>4. u \in Workers => Owns(u)'
    BY <1>0, <1>1, <1>3, <2>1, OwningLabels DEF Owns, Owning
  <2>5. u \in Clients => Cancels(u)' /\ Pauses(u)'
    BY <1>0, <1>3, OwningLabels DEF Cancels, Pauses, Finalizes, HasPaused, ApplyLabels, InSerial
  <2> QED BY <2>2, <2>3, <2>4, <2>5 DEF ThreadInv
<1>4. CASE pc[u] # "idle"
  <2>0. /\ mem'[job[u]] = mem[job[u]] /\ version'[job[u]] = version[job[u]]
        /\ rows'[job[u]].desired = rows[job[u]].desired
        /\ serial[job[u]] = u => serial'[job[u]] = u
        /\ u \in Workers /\ Owning(u) => active'[job[u]]
        /\ u \in Workers /\ guard[u] => leases'[TargetOf[job[u]]] = leases[TargetOf[job[u]]]
    BY <1>4 DEF Keep
  <2>1. Kind(u)' = Kind(u) /\ JobState(u)' = JobState(u)
    BY <1>0, <2>0 DEF Kind, JobState
  <2>2. Placed(u)' /\ Reports(u)' /\ Waits(u)'
    BY <1>0, <2>1 DEF ThreadInv, Placed, Reports, Waits
  <2>3. Held(u)'
    BY <1>0, <2>0, <2>1 DEF ThreadInv, Held
  <2>4. Role(u)'
    <3>1. u \in Workers => WorkerRole(u)'
      BY <1>0, <1>1, <2>1 DEF ThreadInv, Role, WorkerRole
    <3>2. u \in Tickers => TickerRole(u)'
      BY <1>0, <2>1 DEF ThreadInv, Role, TickerRole
    <3>3. u \in Clients => ClientRole(u)'
      <4>1. u \in Clients => ClientRole(u)
        BY <1>0 DEF ThreadInv, Role
      <4> QED BY <4>1, <1>0, <2>1, <1>2 DEF ClientRole
    <3> QED BY <3>1, <3>2, <3>3 DEF Role
  <2>5. u \in Workers => Owns(u)'
    BY <1>0, <1>1, <2>0, <2>1 DEF ThreadInv, Owns, Owning
  <2>6. u \in Clients => Cancels(u)'
    <3>1. u \in Clients => Cancels(u)
      BY <1>0 DEF ThreadInv
    <3> QED BY <1>0, <1>2, <2>1, <3>1 DEF Cancels, Finalizes
  <2>7. u \in Clients => Pauses(u)'
    <3>1. u \in Clients => Pauses(u)
      BY <1>0 DEF ThreadInv
    <3>2. u \in Clients /\ HasPaused(u)' => HasPaused(u)
      BY <1>0, <1>2 DEF HasPaused, IntentAhead
    <3> QED BY <1>0, <2>0, <3>1, <3>2 DEF Pauses
  <2> QED BY <2>2, <2>3, <2>4, <2>5, <2>6, <2>7 DEF ThreadInv
<1> QED BY <1>3, <1>4

\* How the thread that moves may come to own, transfer, read for or quieten a job.
MovesFairly(t) ==
    /\ t \in Workers =>
         /\ Owning(t)' => (Owning(t) /\ job'[t] = job[t]) \/ ~active[job'[t]]
         /\ pc'[t] \in TransferLabels =>
              job'[t] = job[t] /\ (pc[t] \in TransferLabels \/ JobState(t) = "transferring")
         /\ pc'[t] \in Reading =>
              job'[t] = job[t] /\ (pc[t] \in Reading \/ rows[job[t]].desired = "run")
    /\ t \in Clients =>
         /\ Finalizes(t)' => job'[t] = job[t] /\ (Finalizes(t) \/ ~active[job[t]])
         /\ HasWaited(t)' => job'[t] = job[t] /\ (HasWaited(t) \/ ~active[job[t]])

\* What memory holds of a job is what its row holds.
Matches(j) ==
    mem[j].state # "absent" => /\ mem[j].state = rows[j].state /\ mem[j].desired = rows[j].desired
                               /\ version[j] = rows[j].version

(* A step of one thread: what remains to be shown is that it, the threads *)
(* that share its job and the job are as they should be.                  *)
LEMMA ActorStep ==
    ASSUME CoordinatorInv, Shapes', QueueInv', NEW t, Alone(t), MovesFairly(t),
           \A u \in Threads : ThreadInv(u)', \A j \in JobIds : Matches(j)',
           \A j \in resting' : /\ rows'[j].desired = "paused"
                               /\ j \in resting \/ (t \in Clients /\ HasWaited(t) /\ job[t] = j)
    PROVE  CoordinatorInv'
<1>0. /\ \A u \in Threads \ {t} : pc'[u] = pc[u] /\ job'[u] = job[u] /\ frame'[u] = frame[u]
      /\ \A c \in Clients \ {t} : call'[c] = call[c] \/ (call[c] = "pause" /\ call'[c] = "overtaken")
  BY DEF Alone
<1>2. \A w \in Workers : Owning(w) => active[job[w]]
  BY Roles DEF CoordinatorInv, ThreadInv, Owns
<1>3. \A w \in Workers : pc[w] \in TransferLabels => Owning(w)
  BY OwningLabels DEF Owning
<1>4. ASSUME NEW v \in Workers, NEW w \in Workers
      PROVE  Apart(v, w)'
  <2>1. Apart(v, w) /\ v \in Threads /\ w \in Threads
    BY Roles DEF CoordinatorInv
  <2>2. CASE v # t /\ w # t
    BY <1>0, <2>1, <2>2 DEF Apart, Owning
  <2>3. CASE v = t /\ w # t
    BY <1>0, <1>2, <2>1, <2>3 DEF Apart, Owning, MovesFairly
  <2>4. CASE v # t /\ w = t
    BY <1>0, <1>2, <2>1, <2>4 DEF Apart, Owning, MovesFairly
  <2>5. CASE v = t /\ w = t
    BY <2>5 DEF Apart
  <2> QED BY <2>2, <2>3, <2>4, <2>5
<1>5. ASSUME NEW c \in Clients, NEW w \in Workers
      PROVE  Quiet(c, w)'
  <2>1. /\ Quiet(c, w) /\ ThreadInv(c) /\ ThreadInv(w) /\ c \in Threads /\ w \in Threads /\ c # w
        /\ c \notin Workers /\ w \notin Clients /\ Shapes
    BY Roles DEF CoordinatorInv
  <2>2. CASE c # t /\ w # t
    <3>1. (Finalizes(c)' => Finalizes(c)) /\ (HasWaited(c)' => HasWaited(c))
      BY <1>0, <2>1, <2>2 DEF Finalizes, HasWaited, Kind
    <3> QED BY <1>0, <2>1, <2>2, <3>1 DEF Quiet
  <2>3. CASE c = t
    <3>1. pc'[w] = pc[w] /\ job'[w] = job[w]
      BY <1>0, <2>1, <2>3
    <3>2. pc[w] \in TransferLabels => active[job[w]]
      BY <1>2, <1>3
    <3> QED BY <2>1, <2>3, <3>1, <3>2, OwningLabels DEF Quiet, MovesFairly
  <2>4. CASE w = t
    <3>1. (Finalizes(c)' => Finalizes(c)) /\ (HasWaited(c)' => HasWaited(c)) /\ job'[c] = job[c]
      BY <1>0, <2>1, <2>4 DEF Finalizes, HasWaited, Kind
    <3>2. Finalizes(c) => JobState(c) \in Ending
      BY <2>1 DEF ThreadInv, Cancels
    <3>3. HasWaited(c) => rows[job[c]].desired = "paused"
      BY <2>1, WaitedHasPaused DEF ThreadInv, Pauses
    <3>4. "transferring" \notin Ending
      BY DEF Ending, Terminal, Failures
    <3>5. pc'[t] \in TransferLabels /\ job'[c] = job'[t] => ~Finalizes(c)'
      BY <2>1, <2>4, <3>1, <3>2, <3>4 DEF Quiet, MovesFairly, JobState
    <3>6. pc'[t] \in Reading /\ job'[c] = job'[t] => ~HasWaited(c)'
      BY <2>1, <2>4, <3>1, <3>3 DEF Quiet, MovesFairly
    <3> QED BY <2>4, <3>5, <3>6 DEF Quiet
  <2> QED BY <2>2, <2>3, <2>4
<1>6. ASSUME NEW j \in JobIds
      PROVE  JobInv(j)'
  <2>1. JobInv(j) /\ Matches(j)'
    BY DEF CoordinatorInv
  <2>2. ASSUME j \in resting', NEW w \in Workers, pc'[w] \in Reading
        PROVE  job'[w] # j
    <3>0. w \in Threads /\ pc[w] \in Reading => active[job[w]]
      BY <1>2, <1>3, Roles, OwningLabels
    <3>1. CASE j \in resting
      <4>1. rows[j].desired = "paused" /\ \A x \in Workers : pc[x] \in Reading => job[x] # j
        BY <2>1, <3>1 DEF JobInv
      <4> QED BY <1>0, <2>2, <4>1, Roles DEF MovesFairly
    <3>2. CASE t \in Clients /\ HasWaited(t) /\ job[t] = j
      <4>1. w # t /\ pc'[w] = pc[w] /\ job'[w] = job[w] /\ Quiet(t, w)
        BY <1>0, <3>2, Roles DEF CoordinatorInv
      <4> QED BY <2>2, <3>2, <4>1 DEF Quiet
    <3> QED BY <2>2, <3>1, <3>2
  <2> QED BY <2>1, <2>2 DEF JobInv, Matches
<1> QED BY <1>4, <1>5, <1>6 DEF CoordinatorInv

(* A step that leaves the jobs alone: their rows, memory and versions. *)
LEMMA QuietStep ==
    ASSUME CoordinatorInv, Shapes', QueueInv', NEW t \in Threads, Alone(t), MovesFairly(t),
           UNCHANGED <<rows, mem, version>>, ThreadInv(t)',
           \A j \in JobIds : serial[j] \notin {t, NoThread} => serial'[j] = serial[j],
           \A u \in Workers \ {t} : Owning(u) => active'[job[u]],
           \A u \in Workers \ {t} : guard[u] => leases'[TargetOf[job[u]]] = leases[TargetOf[job[u]]],
           \A j \in resting' : j \in resting \/ (t \in Clients /\ HasWaited(t) /\ job[t] = j)
    PROVE  CoordinatorInv'
<1>1. ASSUME NEW u \in Threads, u # t
      PROVE  Keep(u)
  <2>1. pc[u] # "idle" => job[u] \in JobIds
    BY DEF CoordinatorInv, ThreadInv, Placed
  <2> QED BY <1>1, <2>1, Roles DEF Keep
<1>2. \A u \in Threads : ThreadInv(u)'
  BY <1>1, OtherKept
<1>3. \A j \in JobIds : Matches(j)'
  BY DEF CoordinatorInv, JobInv, Matches
<1>4. ASSUME NEW j \in resting'
      PROVE  rows'[j].desired = "paused"
  <2>1. CASE j \in resting
    BY <2>1 DEF CoordinatorInv, JobInv, Shapes
  <2>2. CASE t \in Clients /\ HasWaited(t) /\ job[t] = j
    <3>1. ThreadInv(t) /\ Shapes
      BY DEF CoordinatorInv
    <3> QED BY <2>2, <3>1, WaitedHasPaused DEF ThreadInv, Pauses
  <2> QED BY <2>1, <2>2
<1> QED BY <1>2, <1>3, <1>4, ActorStep

(* The ready queue takes a job the coordinator knows. *)
LEMMA ScheduleFacts ==
    ASSUME Shapes, QueueInv, NEW j \in JobIds, mem[j].state # "absent"
    PROVE  /\ schedule(j) \in Seq(JobIds)
           /\ \A i \in 1..Len(schedule(j)) : mem[schedule(j)[i]].state # "absent"
<1>1. queue \in Seq(JobIds)
  BY DEF Shapes
<1>2. CASE schedule(j) = queue
  BY <1>1, <1>2 DEF QueueInv
<1>3. CASE schedule(j) = Append(queue, j)
  <2>1. /\ Append(queue, j) \in Seq(JobIds) /\ Len(Append(queue, j)) = Len(queue) + 1
        /\ \A i \in 1..Len(Append(queue, j)) :
              Append(queue, j)[i] = (IF i = Len(queue) + 1 THEN j ELSE queue[i])
    BY <1>1
  <2>2. ASSUME NEW i \in 1..Len(Append(queue, j))
        PROVE  mem[Append(queue, j)[i]].state # "absent"
    <3>1. CASE i = Len(queue) + 1
      BY <2>1, <3>1
    <3>2. CASE i # Len(queue) + 1
      <4>1. i \in 1..Len(queue)
        BY <1>1, <2>1, <3>2
      <4> QED BY <2>1, <3>2, <4>1 DEF QueueInv
    <3> QED BY <3>1, <3>2
  <2> QED BY <1>3, <2>1, <2>2
<1> QED BY <1>2, <1>3 DEF schedule

\* Where a worker may go by a step of its own, outside the critical section.
WorkerGoes(w) ==
    /\ pc'[w] \in {"lock", "mint", "loop", "reschedule", "leave", "clear", "clear_reason", "report",
                   "release_active"} \cup TransferLabels
    /\ pc'[w] = "lock" => /\ guard[w] /\ frame'[w].ok \in WorkerReturns /\ frame'[w].err = "leave"
                          /\ frame'[w].cmd.kind \in WorkerKinds
                          /\ (frame'[w].cmd.kind = "stage" => frame'[w].cmd.report \in StageReports)
    /\ pc'[w] = "mint" => /\ guard[w] /\ frame'[w].ok = "idle" /\ frame'[w].err = "leave"
                          /\ frame'[w].cmd.kind = "none"
                          /\ \A r \in Readiness : frame'[w].hint[r] \in WorkerReturns
    /\ pc'[w] \in {"loop", "reschedule", "leave"} \cup TransferLabels => guard[w]
    /\ pc'[w] = "release_active" => ~guard[w]
    /\ pc'[w] \in {"clear", "clear_reason", "report"} => (guard[w] <=> out'[w] # "panicked")
    /\ pc'[w] \in TransferLabels => pc[w] \in TransferLabels \/ JobState(w) = "transferring"
    /\ pc'[w] \in Reading => pc[w] \in Reading \/ mem[job[w]].desired = "run"

(* A worker that owns its job moves on. *)
LEMMA WorkerMoves ==
    ASSUME CoordinatorInv, Shapes', QueueInv', NEW w \in Workers, Alone(w), Owning(w), WorkerGoes(w),
           UNCHANGED <<rows, mem, version, serial, active, leases, job, guard, resting>>
    PROVE  CoordinatorInv'
<1>0. ThreadInv(w) /\ w \in Threads /\ w \notin Clients /\ w \notin Tickers /\ Shapes
  BY Roles DEF CoordinatorInv
<1>a. pc'[w] \notin InSerial \cup {"await", "relock", "read", "idle", "popped", "exited", "claimed"}
  BY DEF WorkerGoes, InSerial, TransferLabels
<1>b. pc[w] # "idle" /\ job[w] \in JobIds /\ JobState(w) # "absent" /\ active[job[w]]
  BY <1>0 DEF ThreadInv, Placed, Owns, Owning
<1>c. pc'[w] \in ApplyLabels => pc'[w] \in {"lock", "mint"}
  BY <1>a DEF ApplyLabels, InSerial
<1>1. Placed(w)'
  BY <1>b DEF Placed, JobState
<1>2. Role(w)'
  <2>1. pc'[w] \in {"idle"} \cup ApplyLabels \cup WorkerLabels
    BY DEF WorkerGoes, ApplyLabels, WorkerLabels
  <2>2. pc'[w] \in ApplyLabels => /\ guard'[w] /\ frame'[w].ok \in WorkerReturns \cup {"idle"}
                                  /\ frame'[w].err = "leave"
    BY <1>c DEF WorkerGoes
  <2>3. pc'[w] \in {"mint", "read"} =>
            guard'[w] /\ \A r \in Readiness : frame'[w].hint[r] \in WorkerReturns
    BY <1>a DEF WorkerGoes
  <2>4. pc'[w] \in ApplyLabels \ {"mint", "read"} =>
            frame'[w].cmd.kind \in WorkerKinds /\ frame'[w].ok # "idle"
    BY <1>c DEF WorkerGoes, WorkerReturns
  <2>5. WorkerRole(w)'
    BY <2>1, <2>2, <2>3, <2>4 DEF WorkerRole, Kind
  <2> QED BY <1>0, <2>5 DEF Role
<1>3. Reports(w)'
  BY <1>c DEF Reports, WorkerGoes, Kind
<1>4. Held(w)' /\ Waits(w)'
  BY <1>a DEF Held, Waits
<1>5. Owns(w)'
  <2>1. JobState(w)' = JobState(w)
    BY DEF JobState
  <2>2. guard[w] => leases[TargetOf[job[w]]] = job[w]
    BY <1>0 DEF ThreadInv, Owns
  <2>3. pc[w] \in TransferLabels => JobState(w) \in {"transferring", "cancelling"}
    BY <1>0 DEF ThreadInv, Owns
  <2>4. Owning(w)'
    BY <1>a DEF Owning
  <2> QED BY <1>a, <1>b, <2>1, <2>2, <2>3, <2>4 DEF Owns, WorkerGoes
<1>6. ThreadInv(w)'
  BY <1>0, <1>1, <1>2, <1>3, <1>4, <1>5 DEF ThreadInv
<1>7. MovesFairly(w)
  <2>1. mem[job[w]].desired = rows[job[w]].desired
    BY <1>b DEF CoordinatorInv, JobInv, JobState
  <2> QED BY <1>0, <2>1 DEF MovesFairly, WorkerGoes
<1>8. \A u \in Workers : Owning(u) => active[job[u]]
  BY Roles DEF CoordinatorInv, ThreadInv, Owns
<1> QED BY <1>0, <1>6, <1>7, <1>8, QuietStep

(* A thread that only changes its label. *)
LEMMA JumpFrame ==
    ASSUME CoordinatorInv, NEW t \in Threads, NEW L \in Labels, Jump(t, L)
    PROVE  /\ Shapes' /\ QueueInv' /\ Alone(t) /\ pc'[t] = L
           /\ UNCHANGED <<rows, mem, version, serial, active, leases, job, guard, resting, out, call, frame>>
<1>1. UNCHANGED <<rows, outbox, mem, version, serial, active, reason, queue, leases, device, job, guard,
                  resting, out, call, frame>>
  BY DEF Jump, Steady, storeVars, memoryVars, observeVars, historyVars, workerVars
<1>2. pc \in [Threads -> Labels] /\ pc' = [pc EXCEPT ![t] = L]
  BY DEF CoordinatorInv, Shapes, Jump, Goto
<1>3. pc' \in [Threads -> Labels] /\ pc'[t] = L /\ \A u \in Threads \ {t} : pc'[u] = pc[u]
  BY <1>2
<1>4. Shapes'
  BY <1>1, <1>3 DEF CoordinatorInv, Shapes
<1>5. QueueInv'
  BY <1>1 DEF CoordinatorInv, QueueInv
<1>6. Alone(t)
  BY <1>1, <1>3, Roles DEF Alone
<1> QED BY <1>1, <1>3, <1>4, <1>5, <1>6

(* A thread that starts a call of apply_checked. *)
LEMMA ApplyFrame ==
    ASSUME CoordinatorInv, NEW t \in Threads, NEW cmd \in Commands, NEW ok \in Labels, NEW err \in Labels,
           Apply(t, cmd, ok, err)
    PROVE  /\ pc' \in [Threads -> Labels] /\ frame' \in [Threads -> Frames]
           /\ pc'[t] = "lock" /\ frame'[t].cmd = cmd /\ frame'[t].ok = ok /\ frame'[t].err = err
           /\ \A u \in Threads \ {t} : pc'[u] = pc[u] /\ frame'[u] = frame[u]
<1>1. pc \in [Threads -> Labels] /\ frame \in [Threads -> Frames]
  BY DEF CoordinatorInv, Shapes
<1> DEFINE f == [NoFrame EXCEPT !.cmd = cmd, !.ok = ok, !.err = err]
<1>2. f \in Frames /\ f.cmd = cmd /\ f.ok = ok /\ f.err = err
  <2>1. NoFrame \in Frames
    BY FrameShapes
  <2> QED BY <2>1 DEF Frames
<1>f. frame' = [frame EXCEPT ![t] = f]
  BY DEF Apply
<1> HIDE DEF f
<1>3. pc' = [pc EXCEPT ![t] = "lock"] /\ "lock" \in Labels
  BY DEF Apply, Goto, Labels, ApplyLabels
<1> QED BY <1>1, <1>2, <1>3, <1>f

(* A thread that starts by reading the device. *)
LEMMA ObserveFrame ==
    ASSUME CoordinatorInv, NEW t \in Threads, NEW hint \in [Readiness -> Labels], NEW err \in Labels,
           Observe(t, hint, err)
    PROVE  /\ pc' \in [Threads -> Labels] /\ frame' \in [Threads -> Frames]
           /\ pc'[t] = "mint" /\ frame'[t].hint = hint /\ frame'[t].ok = "idle" /\ frame'[t].err = err
           /\ frame'[t].cmd.kind = "none"
           /\ \A u \in Threads \ {t} : pc'[u] = pc[u] /\ frame'[u] = frame[u]
<1>1. pc \in [Threads -> Labels] /\ frame \in [Threads -> Frames]
  BY DEF CoordinatorInv, Shapes
<1> DEFINE f == [NoFrame EXCEPT !.hint = hint, !.err = err]
<1>2. f \in Frames /\ f.hint = hint /\ f.ok = "idle" /\ f.err = err /\ f.cmd.kind = "none"
  <2>1. NoFrame \in Frames /\ NoFrame.ok = "idle" /\ NoFrame.cmd.kind = "none"
    BY FrameShapes
  <2> QED BY <2>1 DEF Frames
<1>f. frame' = [frame EXCEPT ![t] = f]
  BY DEF Observe
<1> HIDE DEF f
<1>3. pc' = [pc EXCEPT ![t] = "mint"] /\ "mint" \in Labels
  BY DEF Observe, Goto, Labels, ApplyLabels
<1> QED BY <1>1, <1>2, <1>3, <1>f

(* A worker reports to the reducer. *)
LEMMA WorkerApplies ==
    ASSUME CoordinatorInv, NEW w \in Workers, Owning(w), guard[w], NEW cmd \in Commands,
           cmd.kind \in WorkerKinds, cmd.kind = "stage" => cmd.report \in StageReports,
           NEW ok \in WorkerReturns, Apply(w, cmd, ok, "leave"), Steady, UNCHANGED <<out, guard>>
    PROVE  CoordinatorInv'
<1>1. UNCHANGED <<rows, outbox, mem, version, serial, active, reason, queue, leases, device, job, guard,
                  resting, out, call>>
  BY DEF Steady, storeVars, memoryVars, observeVars, historyVars
<1>2. ok \in Labels /\ "leave" \in Labels /\ w \in Threads
  BY Roles DEF WorkerReturns, Labels, WorkerLabels
<1>3. /\ pc' \in [Threads -> Labels] /\ frame' \in [Threads -> Frames]
      /\ pc'[w] = "lock" /\ frame'[w].cmd = cmd /\ frame'[w].ok = ok /\ frame'[w].err = "leave"
      /\ \A u \in Threads \ {w} : pc'[u] = pc[u] /\ frame'[u] = frame[u]
  BY <1>2, ApplyFrame
<1>4. Shapes'
  BY <1>1, <1>3 DEF CoordinatorInv, Shapes
<1>5. QueueInv'
  BY <1>1 DEF CoordinatorInv, QueueInv
<1>6. Alone(w)
  BY <1>1, <1>3, Roles DEF Alone
<1>7. WorkerGoes(w)
  BY <1>3, OwningLabels DEF WorkerGoes
<1> QED BY <1>1, <1>4, <1>5, <1>6, <1>7, WorkerMoves

(* A worker leaves run_transfer. *)
LEMMA WorkerEnds ==
    ASSUME CoordinatorInv, NEW w \in Workers, Owning(w), guard[w], NEW o \in Outs, o # "panicked",
           EndTransfer(w, o)
    PROVE  CoordinatorInv'
<1>1. UNCHANGED <<rows, outbox, mem, version, serial, active, reason, queue, leases, device, job, guard,
                  resting, call, frame>>
  BY DEF EndTransfer, Steady, storeVars, memoryVars, observeVars, historyVars
<1>2. /\ pc \in [Threads -> Labels] /\ out \in [Workers -> Outs] /\ w \in Threads /\ "clear" \in Labels
      /\ pc' = [pc EXCEPT ![w] = "clear"] /\ out' = [out EXCEPT ![w] = o]
  BY Roles DEF CoordinatorInv, Shapes, EndTransfer, Goto, Labels, WorkerLabels
<1>3. /\ pc' \in [Threads -> Labels] /\ out' \in [Workers -> Outs] /\ pc'[w] = "clear" /\ out'[w] = o
      /\ \A u \in Threads \ {w} : pc'[u] = pc[u]
      /\ \A u \in Workers \ {w} : out'[u] = out[u]
  BY <1>2
<1>4. Shapes'
  BY <1>1, <1>3 DEF CoordinatorInv, Shapes
<1>5. QueueInv'
  BY <1>1 DEF CoordinatorInv, QueueInv
<1>6. Alone(w)
  BY <1>1, <1>3, Roles DEF Alone
<1>7. WorkerGoes(w)
  BY <1>3, OwningLabels DEF WorkerGoes, TransferLabels
<1> QED BY <1>1, <1>4, <1>5, <1>6, <1>7, WorkerMoves

(* A worker jumps. *)
LEMMA WorkerJumps ==
    ASSUME CoordinatorInv, NEW w \in Workers, Owning(w), NEW L \in Labels, Jump(w, L),
           L \in {"leave", "release_active"} \cup TransferLabels,
           L \in {"leave"} \cup TransferLabels => guard[w], L = "release_active" => ~guard[w],
           L \in TransferLabels => pc[w] \in TransferLabels,
           L \in Reading => pc[w] \in Reading \/ mem[job[w]].desired = "run"
    PROVE  CoordinatorInv'
<1>1. w \in Threads
  BY Roles
<1>2. /\ Shapes' /\ QueueInv' /\ Alone(w) /\ pc'[w] = L
      /\ UNCHANGED <<rows, mem, version, serial, active, leases, job, guard, resting, out, call, frame>>
  BY <1>1, JumpFrame
<1>3. WorkerGoes(w)
  BY <1>2, OwningLabels DEF WorkerGoes, TransferLabels
<1> QED BY <1>2, <1>3, WorkerMoves

(* The reports of a worker. *)
LEMMA WorkerReports ==
    /\ \A s \in {"preparing", "transferring", "committing"}, f \in Failures :
          FailureReport(s, f) \in StageReports
    /\ Report("prepared", "preparing") \in StageReports
    /\ Report("transfer_complete", "transferring") \in StageReports
    /\ Report("verified", "verifying") \in StageReports
    /\ Report("commit_complete", "committing") \in StageReports
<1>1. \A s \in {"preparing", "transferring", "committing"}, f \in Failures :
          FailureReport(s, f) \in StageReports
  BY DEF FailureReport, StageReports
<1>2. ASSUME NEW n, NEW s, NEW x, [name |-> n, expects |-> s, to |-> x] \in StageReports
      PROVE  Report(n, s) \in StageReports
  <2>1. \E r \in StageReports : r.name = n /\ r.expects = s
    BY <1>2
  <2> QED BY <2>1 DEF Report
<1>3. /\ [name |-> "prepared", expects |-> "preparing", to |-> "transferring"] \in StageReports
      /\ [name |-> "transfer_complete", expects |-> "transferring", to |-> "verifying"] \in StageReports
      /\ [name |-> "verified", expects |-> "verifying", to |-> "committing"] \in StageReports
      /\ [name |-> "commit_complete", expects |-> "committing", to |-> "succeeded"] \in StageReports
  BY DEF StageReports
<1> QED BY <1>1, <1>2, <1>3

(* What a worker inside process_job may count on. *)
LEMMA WorkerFacts ==
    ASSUME CoordinatorInv, NEW w \in Workers, pc[w] \notin {"idle", "popped", "exited"}
    PROVE  /\ Owning(w) /\ w \in Threads /\ job[w] \in JobIds /\ JobState(w) # "absent" /\ active[job[w]]
           /\ pc[w] \in {"loop", "reschedule", "leave"} \cup TransferLabels => guard[w]
           /\ pc[w] \in {"claimed", "release_active"} => ~guard[w]
           /\ pc[w] \in {"clear", "clear_reason", "report"} => (guard[w] <=> out[w] # "panicked")
           /\ guard[w] => leases[TargetOf[job[w]]] = job[w]
<1>1. ThreadInv(w) /\ w \in Threads
  BY Roles DEF CoordinatorInv
<1>2. Owning(w)
  BY DEF Owning
<1> QED BY <1>1, <1>2 DEF ThreadInv, Owns, Placed

(* The steps of process_job that read the state and report, or leave. *)
LEMMA ProcessSteps ==
    ASSUME CoordinatorInv, NEW w \in Workers,
           \/ ProbeDevice(w) \/ StopHere(w) \/ Prepare(w) \/ BeginTransfer(w) \/ Verify(w)
           \/ CommitSession(w) \/ FinishCancelling(w)
    PROVE  CoordinatorInv'
<1>0. pc[w] = "loop"
  BY DEF ProbeDevice, StopHere, Prepare, BeginTransfer, Verify, CommitSession, FinishCancelling, Finds
<1>1. Owning(w) /\ guard[w] /\ w \in Threads
  BY <1>0, WorkerFacts
<1>2. ASSUME NEW r \in StageReports, NEW ok \in WorkerReturns, ApplyFrom(w, StageReport(r), ok, "leave")
      PROVE  CoordinatorInv'
  <2>1. /\ StageReport(r) \in Commands /\ StageReport(r).kind \in WorkerKinds
        /\ StageReport(r).report \in StageReports
    BY CommandShapes DEF WorkerKinds
  <2> QED BY <1>1, <1>2, <2>1, WorkerApplies DEF ApplyFrom, workerVars
<1>3. {"loop", "leave"} \subseteq WorkerReturns /\ "failed_final" \in Failures
  BY DEF WorkerReturns, Failures
<1>4. CASE ProbeDevice(w)
  <2>1. UNCHANGED <<rows, outbox, mem, version, serial, active, reason, queue, leases, device, job, guard,
                    resting, out, call>>
    BY <1>4 DEF ProbeDevice, Steady, storeVars, memoryVars, observeVars, historyVars, workerVars
  <2> DEFINE h == ParkedHint(mem[job[w]].state)
  <2>2. \A r \in Readiness : h[r] \in WorkerReturns
    BY DEF ParkedHint, WorkerReturns
  <2>3. h \in [Readiness -> Labels] /\ "leave" \in Labels
    BY DEF ParkedHint, Labels, WorkerLabels
  <2>4. Observe(w, h, "leave")
    BY <1>4 DEF ProbeDevice
  <2> HIDE DEF h
  <2>5. /\ pc' \in [Threads -> Labels] /\ frame' \in [Threads -> Frames]
        /\ pc'[w] = "mint" /\ frame'[w].hint = h /\ frame'[w].ok = "idle" /\ frame'[w].err = "leave"
        /\ frame'[w].cmd.kind = "none"
        /\ \A u \in Threads \ {w} : pc'[u] = pc[u] /\ frame'[u] = frame[u]
    BY <1>1, <2>3, <2>4, ObserveFrame
  <2>6. Shapes'
    BY <2>1, <2>5 DEF CoordinatorInv, Shapes
  <2>7. QueueInv'
    BY <2>1 DEF CoordinatorInv, QueueInv
  <2>8. Alone(w)
    BY <2>1, <2>5, Roles DEF Alone
  <2>9. WorkerGoes(w)
    BY <1>1, <2>2, <2>5, OwningLabels DEF WorkerGoes
  <2> QED BY <1>1, <2>1, <2>6, <2>7, <2>8, <2>9, WorkerMoves
<1>5. CASE StopHere(w)
  <2>1. Jump(w, "leave") /\ "leave" \in Labels /\ "leave" \notin TransferLabels /\ "leave" \notin Reading
    BY <1>5 DEF StopHere, Labels, WorkerLabels, TransferLabels, Reading
  <2> QED BY <1>1, <2>1, WorkerJumps
<1>6. CASE Prepare(w)
  BY <1>2, <1>3, <1>6, WorkerReports DEF Prepare
<1>7. ASSUME TransferFails(w)
      PROVE  CoordinatorInv'
  BY <1>2, <1>3, <1>7, WorkerReports DEF TransferFails
<1>8. CASE BeginTransfer(w) /\ ~TransferFails(w)
  <2>1. UNCHANGED <<rows, outbox, mem, version, serial, active, reason, queue, leases, device, job, guard,
                    resting, out, call, frame>>
    BY <1>8 DEF BeginTransfer, Steady, storeVars, memoryVars, observeVars, historyVars
  <2>2. /\ pc \in [Threads -> Labels] /\ "check_flag" \in Labels /\ pc' = [pc EXCEPT ![w] = "check_flag"]
    BY <1>8 DEF BeginTransfer, CoordinatorInv, Shapes, Goto, Labels, WorkerLabels, TransferLabels
  <2>3. /\ pc' \in [Threads -> Labels] /\ pc'[w] = "check_flag"
        /\ \A u \in Threads \ {w} : pc'[u] = pc[u]
    BY <1>1, <2>2
  <2>4. Shapes'
    BY <2>1, <2>3 DEF CoordinatorInv, Shapes
  <2>5. QueueInv'
    BY <2>1 DEF CoordinatorInv, QueueInv
  <2>6. Alone(w)
    BY <2>1, <2>3, Roles DEF Alone
  <2>7. JobState(w) = "transferring"
    BY <1>8 DEF BeginTransfer, Finds, JobState
  <2>8. WorkerGoes(w)
    BY <1>1, <2>3, <2>7 DEF WorkerGoes, TransferLabels, Reading
  <2> QED BY <1>1, <2>1, <2>4, <2>5, <2>6, <2>8, WorkerMoves
<1>9. CASE Verify(w)
  BY <1>2, <1>3, <1>9, WorkerReports DEF Verify
<1>10. CASE CommitSession(w)
  BY <1>2, <1>3, <1>10, WorkerReports DEF CommitSession
<1>11. CASE FinishCancelling(w)
  <2>1. EndTransfer(w, "cancel") /\ "cancel" \in Outs
    BY <1>11 DEF FinishCancelling, Outs, Reasons
  <2> QED BY <1>1, <2>1, WorkerEnds
<1> QED BY <1>4, <1>5, <1>6, <1>7, <1>8, <1>9, <1>10, <1>11

(* The steps of run_transfer. *)
LEMMA TransferSteps ==
    ASSUME CoordinatorInv, NEW w \in Workers,
           \/ CheckFlag(w) \/ CheckDesired(w) \/ CheckDevice(w) \/ NoticeInterrupt(w) \/ FinishFile(w)
           \/ DownloadFails(w) \/ ReadReason(w)
    PROVE  CoordinatorInv'
<1>0. pc[w] \in TransferLabels
  BY DEF CheckFlag, CheckDesired, CheckDevice, NoticeInterrupt, FinishFile, DownloadFails, ReadReason,
         TransferLabels
<1>1. Owning(w) /\ guard[w] /\ w \in Threads /\ job[w] \in JobIds
  BY <1>0, OwningLabels, WorkerFacts
<1>2. ASSUME NEW L \in TransferLabels, Jump(w, L),
             L \in Reading => pc[w] \in Reading \/ mem[job[w]].desired = "run"
      PROVE  CoordinatorInv'
  <2>1. L \in Labels /\ L # "release_active" /\ L # "leave"
    BY <1>2 DEF Labels, WorkerLabels, TransferLabels
  <2> QED BY <1>0, <1>1, <1>2, <2>1, WorkerJumps
<1>3. ASSUME NEW o \in Reasons \cup {"not_ready"}, EndTransfer(w, o)
      PROVE  CoordinatorInv'
  <2>1. o \in Outs /\ o # "panicked"
    BY DEF Outs, Reasons
  <2> QED BY <1>1, <1>3, <2>1, WorkerEnds
<1>4. CASE CheckFlag(w)
  <2>1. \/ Jump(w, "reason") \/ Jump(w, "check_desired")
    BY <1>4 DEF CheckFlag
  <2>2. {"reason", "check_desired"} \subseteq TransferLabels \ Reading
    BY DEF TransferLabels, Reading
  <2> QED BY <1>2, <2>1, <2>2
<1>5. CASE CheckDesired(w)
  <2>1. \/ EndTransfer(w, "user_pause")
        \/ mem[job[w]].desired = "run" /\ Jump(w, "check_device")
    BY <1>5 DEF CheckDesired
  <2>2. "user_pause" \in Reasons /\ "check_device" \in TransferLabels
    BY DEF TransferLabels, Reasons
  <2> QED BY <1>2, <1>3, <2>1, <2>2
<1>6. CASE CheckDevice(w)
  <2>1. \/ EndTransfer(w, "capture_pause") \/ EndTransfer(w, "not_ready")
        \/ Jump(w, "reading")
    BY <1>6 DEF CheckDevice
  <2>2. "capture_pause" \in Reasons /\ "reading" \in TransferLabels /\ pc[w] \in Reading
    BY <1>6 DEF TransferLabels, Reasons, CheckDevice, Reading
  <2> QED BY <1>2, <1>3, <2>1, <2>2
<1>7. CASE NoticeInterrupt(w)
  <2>1. Jump(w, "reason") /\ "reason" \in TransferLabels \ Reading
    BY <1>7 DEF NoticeInterrupt, TransferLabels, Reading
  <2> QED BY <1>2, <2>1
<1>8. ASSUME NEW r \in StageReports, NEW ok \in WorkerReturns, Apply(w, StageReport(r), ok, "leave"),
             Steady, UNCHANGED <<out, guard>>
      PROVE  CoordinatorInv'
  <2>1. /\ StageReport(r) \in Commands /\ StageReport(r).kind \in WorkerKinds
        /\ StageReport(r).report \in StageReports
    BY CommandShapes DEF WorkerKinds
  <2> QED BY <1>1, <1>8, <2>1, WorkerApplies
<1>9. CASE FinishFile(w)
  <2>0. Steady /\ UNCHANGED <<out, guard>>
    BY <1>9 DEF FinishFile
  <2>1. CASE Apply(w, StageReport(Report("transfer_complete", "transferring")), "loop", "leave")
    <3>1. "loop" \in WorkerReturns
      BY DEF WorkerReturns
    <3> QED BY <1>8, <2>0, <2>1, <3>1, WorkerReports
  <2>2. CASE Goto(w, "check_flag") /\ UNCHANGED frame
    <3>1. UNCHANGED <<rows, outbox, mem, version, serial, active, reason, queue, leases, device, job, guard,
                      resting, out, call, frame>>
      BY <2>0, <2>2 DEF Steady, storeVars, memoryVars, observeVars, historyVars
    <3>2. pc \in [Threads -> Labels] /\ "check_flag" \in Labels /\ pc' = [pc EXCEPT ![w] = "check_flag"]
      BY <2>2 DEF CoordinatorInv, Shapes, Goto, Labels, WorkerLabels, TransferLabels
    <3>3. /\ pc' \in [Threads -> Labels] /\ pc'[w] = "check_flag"
          /\ \A u \in Threads \ {w} : pc'[u] = pc[u]
      BY <1>1, <3>2
    <3>4. Shapes'
      BY <3>1, <3>3 DEF CoordinatorInv, Shapes
    <3>5. QueueInv'
      BY <3>1 DEF CoordinatorInv, QueueInv
    <3>6. Alone(w)
      BY <3>1, <3>3, Roles DEF Alone
    <3>7. WorkerGoes(w)
      BY <1>0, <1>1, <3>3 DEF WorkerGoes, TransferLabels, Reading
    <3> QED BY <1>1, <3>1, <3>4, <3>5, <3>6, <3>7, WorkerMoves
  <2> QED BY <1>9, <2>1, <2>2 DEF FinishFile
<1>10. CASE DownloadFails(w)
  <2>1. "leave" \in WorkerReturns
    BY DEF WorkerReturns
  <2> QED BY <1>8, <1>10, <2>1, WorkerReports DEF DownloadFails, TransferFails, ApplyFrom, workerVars
<1>11. CASE ReadReason(w)
  <2>1. reason[job[w]] \in Reasons \cup {"none"}
    BY <1>1 DEF CoordinatorInv, Shapes
  <2>2. interrupt_outcome(w) \in Reasons \cup {"not_ready"}
    BY <2>1 DEF interrupt_outcome, Reasons
  <2> QED BY <1>3, <1>11, <2>2 DEF ReadReason
<1> QED BY <1>4, <1>5, <1>6, <1>7, <1>9, <1>10, <1>11

(* A worker clears the interrupt and reports; one that saw the shutdown lets go; *)
(* one that found the device away offers the job again.                          *)
LEMMA ClearingSteps ==
    ASSUME CoordinatorInv, NEW w \in Workers,
           \/ ClearFlag(w) \/ ClearReason(w) \/ ReportInterrupt(w) \/ SeeShutdown(w) \/ Reoffer(w)
    PROVE  CoordinatorInv'
<1>0. pc[w] \in {"clear", "clear_reason", "report", "claimed", "reschedule"}
  BY DEF ClearFlag, ClearReason, ReportInterrupt, SeeShutdown, Reoffer
<1>1. /\ Owning(w) /\ w \in Threads /\ job[w] \in JobIds /\ JobState(w) # "absent"
      /\ pc[w] = "reschedule" => guard[w]
      /\ pc[w] = "claimed" => ~guard[w]
      /\ pc[w] \in {"clear", "clear_reason", "report"} => (guard[w] <=> out[w] # "panicked")
  BY <1>0, WorkerFacts
<1>s. Shapes /\ QueueInv /\ pc \in [Threads -> Labels] /\ out \in [Workers -> Outs]
      /\ reason \in [JobIds -> Reasons \cup {"none"}]
  BY DEF CoordinatorInv, Shapes
<1>2. ASSUME NEW L \in {"clear_reason", "report", "release_active", "leave"}, Goto(w, L)
      PROVE  /\ pc' \in [Threads -> Labels] /\ pc'[w] = L
             /\ \A u \in Threads \ {w} : pc'[u] = pc[u]
  <2>1. L \in Labels
    BY DEF Labels, WorkerLabels
  <2> QED BY <1>1, <1>2, <1>s, <2>1 DEF Goto
<1>3. CASE ClearFlag(w)
  <2>1. UNCHANGED <<rows, outbox, mem, version, serial, active, reason, queue, leases, device, job, guard,
                    resting, out, call, frame>> /\ Goto(w, "clear_reason") /\ pc[w] = "clear"
    BY <1>3 DEF ClearFlag, storeVars, observeVars, historyVars, workerVars
  <2>2. Shapes' /\ QueueInv' /\ Alone(w)
    <3>1. Shapes'
      BY <1>2, <1>s, <2>1 DEF Shapes
    <3>2. QueueInv'
      BY <1>s, <2>1 DEF QueueInv
    <3>3. Alone(w)
      BY <1>2, <2>1, Roles DEF Alone
    <3> QED BY <3>1, <3>2, <3>3
  <2>3. WorkerGoes(w)
    BY <1>1, <1>2, <2>1 DEF WorkerGoes, TransferLabels, Reading
  <2> QED BY <1>1, <2>1, <2>2, <2>3, WorkerMoves
<1>4. CASE ClearReason(w)
  <2>1. UNCHANGED <<rows, outbox, mem, version, serial, active, queue, leases, device, job, guard,
                    resting, out, call, frame>> /\ Goto(w, "report") /\ pc[w] = "clear_reason"
    BY <1>4 DEF ClearReason, storeVars, observeVars, historyVars, workerVars
  <2>r. reason' \in [JobIds -> Reasons \cup {"none"}]
    BY <1>4, <1>s DEF ClearReason
  <2>2. Shapes' /\ QueueInv' /\ Alone(w)
    <3>1. Shapes'
      BY <1>2, <1>s, <2>1, <2>r DEF Shapes
    <3>2. QueueInv'
      BY <1>s, <2>1 DEF QueueInv
    <3>3. Alone(w)
      BY <1>2, <2>1, Roles DEF Alone
    <3> QED BY <3>1, <3>2, <3>3
  <2>3. WorkerGoes(w)
    BY <1>1, <1>2, <2>1 DEF WorkerGoes, TransferLabels, Reading
  <2> QED BY <1>1, <2>1, <2>2, <2>3, WorkerMoves
<1>5. CASE ReportInterrupt(w)
  <2>1. CASE out[w] = "panicked" /\ Jump(w, "release_active")
    <3>1. pc[w] = "report" /\ "release_active" \in Labels
          /\ "release_active" \notin TransferLabels /\ "release_active" \notin Reading
      BY <1>5 DEF ReportInterrupt, Labels, WorkerLabels, TransferLabels, Reading
    <3> QED BY <1>1, <2>1, <3>1, WorkerJumps
  <2>2. CASE out[w] # "panicked" /\ ApplyFrom(w, Interrupted(InterruptReason(w)), "leave", "leave")
    <3>1. pc[w] = "report"
      BY <1>5 DEF ReportInterrupt
    <3>2. InterruptReason(w) \in Outs
      BY <1>s DEF InterruptReason, Outs, Reasons
    <3>3. /\ Interrupted(InterruptReason(w)) \in Commands
          /\ Interrupted(InterruptReason(w)).kind = "interrupted" /\ "interrupted" \in WorkerKinds
          /\ "leave" \in WorkerReturns
      BY <3>2, CommandShapes DEF WorkerKinds, WorkerReturns
    <3> QED BY <1>1, <2>2, <3>1, <3>3, WorkerApplies DEF ApplyFrom, workerVars
  <2> QED BY <1>5, <2>1, <2>2 DEF ReportInterrupt
<1>6. CASE SeeShutdown(w)
  <2>1. UNCHANGED <<rows, outbox, mem, version, serial, active, queue, leases, device, job, guard,
                    resting, call, frame>> /\ Goto(w, "release_active") /\ pc[w] = "claimed"
    BY <1>6 DEF SeeShutdown, storeVars, observeVars, historyVars
  <2>r. /\ reason' \in [JobIds -> Reasons \cup {"none"}] /\ out' \in [Workers -> Outs]
        /\ \A u \in Workers \ {w} : out'[u] = out[u]
    BY <1>6, <1>s DEF SeeShutdown, Outs, Reasons
  <2>2. Shapes' /\ QueueInv' /\ Alone(w)
    <3>1. Shapes'
      BY <1>2, <1>s, <2>1, <2>r DEF Shapes
    <3>2. QueueInv'
      BY <1>s, <2>1 DEF QueueInv
    <3>3. Alone(w)
      BY <1>2, <2>1, <2>r, Roles DEF Alone
    <3> QED BY <3>1, <3>2, <3>3
  <2>3. WorkerGoes(w)
    BY <1>1, <1>2, <2>1 DEF WorkerGoes, TransferLabels, Reading
  <2> QED BY <1>1, <2>1, <2>2, <2>3, WorkerMoves
<1>7. CASE Reoffer(w)
  <2>1. UNCHANGED <<rows, outbox, mem, version, serial, active, reason, leases, device, job, guard,
                    resting, out, call, frame>> /\ Goto(w, "leave") /\ pc[w] = "reschedule"
    BY <1>7 DEF Reoffer, storeVars, observeVars, historyVars, workerVars
  <2>q. queue' = schedule(job[w])
    BY <1>7 DEF Reoffer
  <2>r. /\ queue' \in Seq(JobIds)
        /\ \A i \in 1..Len(queue') : mem[queue'[i]].state # "absent"
    BY <1>1, <1>s, <2>q, ScheduleFacts DEF JobState
  <2>2. Shapes' /\ QueueInv' /\ Alone(w)
    <3>1. Shapes'
      BY <1>2, <1>s, <2>1, <2>r DEF Shapes
    <3>2. QueueInv'
      BY <2>1, <2>r DEF QueueInv
    <3>3. Alone(w)
      BY <1>2, <2>1, Roles DEF Alone
    <3> QED BY <3>1, <3>2, <3>3
  <2>3. WorkerGoes(w)
    BY <1>1, <1>2, <2>1 DEF WorkerGoes, TransferLabels, Reading
  <2> QED BY <1>1, <2>1, <2>2, <2>3, WorkerMoves
<1> QED BY <1>3, <1>4, <1>5, <1>6, <1>7

(* A worker between jobs, or at the edge of one. *)
LEMMA WorkerRests ==
    ASSUME NEW w \in Workers,
           pc'[w] \in {"idle", "popped", "exited", "claimed", "loop", "release_active"},
           pc'[w] # "idle" => job'[w] \in JobIds /\ mem'[job'[w]].state # "absent",
           pc'[w] \in {"claimed", "loop", "release_active"} => active'[job'[w]],
           guard'[w] <=> pc'[w] = "loop",
           guard'[w] => leases'[TargetOf[job'[w]]] = job'[w]
    PROVE  ThreadInv(w)'
<1>1. w \notin Clients /\ w \notin Tickers
  BY Roles
<1>2. pc'[w] \notin ApplyLabels \cup TransferLabels \cup InSerial
  BY DEF ApplyLabels, TransferLabels, InSerial
<1>3. Placed(w)' /\ Reports(w)' /\ Held(w)'
  BY <1>2 DEF Placed, JobState, Reports, Held
<1>4. Waits(w)'
  BY DEF Waits
<1>5. WorkerRole(w)'
  BY <1>2, OwningLabels DEF WorkerRole, WorkerLabels
<1>6. Role(w)'
  BY <1>1, <1>5 DEF Role
<1>7. Owns(w)'
  BY <1>2 DEF Owns, Owning
<1> QED BY <1>1, <1>3, <1>4, <1>6, <1>7 DEF ThreadInv

(* Nobody else owns the job or the directory of a worker. *)
LEMMA Separate ==
    ASSUME CoordinatorInv, NEW w \in Workers, NEW u \in Workers, u # w, Owning(u)
    PROVE  /\ active[job[u]] /\ job[u] \in JobIds
           /\ Owning(w) => job[u] # job[w]
           /\ guard[u] => leases[TargetOf[job[u]]] = job[u]
           /\ guard[u] /\ guard[w] => TargetOf[job[u]] # TargetOf[job[w]]
<1>1. Apart(u, w) /\ ThreadInv(u) /\ ThreadInv(w)
  BY Roles DEF CoordinatorInv
<1>2. job[u] \in JobIds
  BY <1>1 DEF ThreadInv, Placed, Owning
<1> QED BY <1>1, <1>2 DEF Apart, ThreadInv, Owns

(* A worker takes a notification, claims its job, takes its directory, and gives *)
(* all of them back.                                                             *)
LEMMA ClaimingSteps ==
    ASSUME CoordinatorInv, NEW w \in Workers,
           \/ ClaimNotification(w) \/ try_claim(w) \/ try_acquire(w) \/ ReleaseTarget(w) \/ ReleaseActive(w)
    PROVE  CoordinatorInv'
<1>s. /\ Shapes /\ QueueInv /\ w \in Threads /\ ThreadInv(w) /\ w \notin Clients
      /\ \A u \in Workers : u \in Threads
  BY Roles DEF CoordinatorInv
<1>t. /\ pc \in [Threads -> Labels] /\ job \in [Threads -> JobIds \cup {NoJob}]
      /\ active \in [JobIds -> BOOLEAN] /\ guard \in [Workers -> BOOLEAN] /\ out \in [Workers -> Outs]
      /\ leases \in [Targets -> JobIds \cup {NoJob}] /\ TargetOf \in [JobIds -> Targets]
      /\ queue \in Seq(JobIds)
  BY <1>s, Roles DEF Shapes
<1>0. /\ pc[w] # "idle" => job[w] \in JobIds /\ mem[job[w]].state # "absent"
      /\ pc[w] \in {"idle", "popped"} => ~guard[w]
      /\ guard[w] => pc[w] # "idle"
  BY <1>s DEF ThreadInv, Placed, JobState, Owns, Owning
<1>1. ASSUME NEW L \in {"idle", "popped", "exited", "claimed", "loop", "release_active"}, Goto(w, L)
      PROVE  /\ pc' \in [Threads -> Labels] /\ pc'[w] = L
             /\ \A u \in Threads \ {w} : pc'[u] = pc[u]
  <2>1. L \in Labels
    BY DEF Labels, WorkerLabels
  <2> QED BY <1>1, <1>s, <1>t, <2>1 DEF Goto
<1>2. ASSUME Shapes', QueueInv', Alone(w), ThreadInv(w)',
             UNCHANGED <<rows, mem, version, serial, resting>>,
             pc'[w] \in {"idle", "popped", "exited", "claimed", "loop", "release_active"},
             Owning(w)' => job'[w] = job[w] /\ (Owning(w) \/ ~active[job[w]]),
             \A u \in Workers \ {w} : Owning(u) => active'[job[u]],
             \A u \in Workers \ {w} : guard[u] => leases'[TargetOf[job[u]]] = leases[TargetOf[job[u]]]
      PROVE  CoordinatorInv'
  <2>1. pc'[w] \notin TransferLabels /\ pc'[w] \notin Reading
    BY <1>2 DEF TransferLabels, Reading
  <2>2. MovesFairly(w)
    BY <1>2, <1>s, <2>1 DEF MovesFairly
  <2> QED BY <1>2, <1>s, <2>2, QuietStep
<1>3. \A u \in Workers \ {w} : Owning(u) => active[job[u]] /\ (Owning(w) => job[u] # job[w])
  BY Separate
<1>4. CASE ClaimNotification(w)
  <2>1. UNCHANGED <<rows, outbox, mem, version, serial, active, reason, leases, device, guard,
                    resting, out, call, frame>> /\ Goto(w, "popped") /\ pc[w] = "idle"
    BY <1>4 DEF ClaimNotification, storeVars, observeVars, historyVars, workerVars
  <2>2. /\ queue # << >> /\ queue' = Tail(queue) /\ job' = [job EXCEPT ![w] = Head(queue)]
    BY <1>4 DEF ClaimNotification
  <2>3. /\ Len(queue) \in Nat /\ Len(queue) >= 1 /\ Head(queue) = queue[1] /\ Head(queue) \in JobIds
        /\ queue' \in Seq(JobIds) /\ Len(queue') = Len(queue) - 1
        /\ \A i \in 1..Len(queue') : queue'[i] = queue[i + 1] /\ i + 1 \in 1..Len(queue)
    BY <1>t, <2>2, TailFacts
  <2>4. mem[Head(queue)].state # "absent" /\ \A i \in 1..Len(queue') : mem[queue'[i]].state # "absent"
    BY <1>s, <2>3 DEF QueueInv
  <2>5. /\ job' \in [Threads -> JobIds \cup {NoJob}] /\ job'[w] = Head(queue)
        /\ \A u \in Threads \ {w} : job'[u] = job[u]
    BY <1>s, <1>t, <2>2, <2>3
  <2>p. /\ pc' \in [Threads -> Labels] /\ pc'[w] = "popped"
        /\ \A u \in Threads \ {w} : pc'[u] = pc[u]
    BY <1>1, <2>1
  <2>6. Shapes'
    BY <1>s, <2>1, <2>3, <2>5, <2>p DEF Shapes
  <2>7. QueueInv'
    BY <2>1, <2>4 DEF QueueInv
  <2>8. Alone(w)
    BY <1>s, <2>1, <2>5, <2>p DEF Alone
  <2>9. ThreadInv(w)'
    BY <1>0, <2>1, <2>3, <2>4, <2>5, <2>p, WorkerRests
  <2>10. ~Owning(w)'
    BY <2>p DEF Owning
  <2> QED BY <1>2, <1>3, <2>1, <2>6, <2>7, <2>8, <2>9, <2>10, <2>p
<1>5. CASE try_claim(w)
  <2>1. UNCHANGED <<rows, outbox, mem, version, serial, reason, queue, leases, device, guard, job,
                    resting, out, call, frame>> /\ pc[w] = "popped"
    BY <1>5 DEF try_claim, storeVars, observeVars, historyVars, workerVars
  <2>2. PICK L \in {"idle", "claimed"} :
            /\ Goto(w, L) /\ active' \in [JobIds -> BOOLEAN] /\ \A j \in JobIds : active[j] => active'[j]
            /\ L = "claimed" => ~active[job[w]] /\ active'[job[w]]
    <3>1. CASE active[job[w]] /\ Goto(w, "idle") /\ UNCHANGED active
      BY <1>t, <3>1
    <3>2. CASE /\ ~active[job[w]] /\ active' = [active EXCEPT ![job[w]] = TRUE] /\ Goto(w, "claimed")
      BY <1>0, <1>t, <2>1, <3>2
    <3> QED BY <1>5, <3>1, <3>2 DEF try_claim
  <2>p. /\ pc' \in [Threads -> Labels] /\ pc'[w] = L
        /\ \A u \in Threads \ {w} : pc'[u] = pc[u]
    BY <1>1, <2>2
  <2>6. Shapes'
    BY <1>s, <2>1, <2>2, <2>p DEF Shapes
  <2>7. QueueInv'
    BY <1>s, <2>1 DEF QueueInv
  <2>8. Alone(w)
    BY <1>s, <2>1, <2>p DEF Alone
  <2>9. ThreadInv(w)'
    BY <1>0, <1>t, <2>1, <2>2, <2>p, WorkerRests
  <2>10. Owning(w)' => ~active[job[w]]
    BY <2>2, <2>p DEF Owning
  <2>11. \A u \in Workers \ {w} : Owning(u) => active'[job[u]]
    BY <2>2, Separate
  <2> QED BY <1>2, <2>1, <2>2, <2>6, <2>7, <2>8, <2>9, <2>10, <2>11, <2>p
<1>6. CASE try_acquire(w)
  <2>1. UNCHANGED <<rows, outbox, mem, version, serial, active, reason, queue, device, job,
                    resting, out, call, frame>> /\ pc[w] = "claimed"
    BY <1>6 DEF try_acquire, storeVars, observeVars, historyVars
  <2>0. Owning(w) /\ active[job[w]] /\ ~guard[w] /\ job[w] \in JobIds
    BY <2>1, WorkerFacts
  <2>2. PICK L \in {"loop", "release_active"} :
            /\ Goto(w, L) /\ leases' \in [Targets -> JobIds \cup {NoJob}] /\ guard' \in [Workers -> BOOLEAN]
            /\ \A u \in Workers \ {w} : guard'[u] = guard[u]
            /\ \A x \in Targets : leases[x] # NoJob => leases'[x] = leases[x]
            /\ guard'[w] <=> L = "loop"
            /\ guard'[w] => leases'[TargetOf[job[w]]] = job[w]
    <3>1. CASE /\ TargetFree(job[w]) /\ leases' = [leases EXCEPT ![TargetOf[job[w]]] = job[w]]
               /\ guard' = [guard EXCEPT ![w] = TRUE] /\ Goto(w, "loop")
      BY <1>t, <2>0, <3>1 DEF TargetFree
    <3>2. CASE ~TargetFree(job[w]) /\ Goto(w, "release_active") /\ UNCHANGED <<leases, guard>>
      BY <1>t, <2>0, <3>2
    <3> QED BY <1>6, <3>1, <3>2 DEF try_acquire
  <2>p. /\ pc' \in [Threads -> Labels] /\ pc'[w] = L
        /\ \A u \in Threads \ {w} : pc'[u] = pc[u]
    BY <1>1, <2>2
  <2>6. Shapes'
    BY <1>s, <2>1, <2>2, <2>p DEF Shapes
  <2>7. QueueInv'
    BY <1>s, <2>1 DEF QueueInv
  <2>8. Alone(w)
    BY <1>s, <2>1, <2>2, <2>p DEF Alone
  <2>9. ThreadInv(w)'
    BY <1>0, <2>0, <2>1, <2>2, <2>p, WorkerRests
  <2>10. \A u \in Workers \ {w} : Owning(u) => active'[job[u]]
    BY <1>3, <2>1
  <2>11. ASSUME NEW u \in Workers \ {w}, guard[u]
         PROVE  leases'[TargetOf[job[u]]] = leases[TargetOf[job[u]]]
    <3>1. Owning(u)
      BY <1>s, <2>11 DEF CoordinatorInv, ThreadInv, Owns
    <3>2. job[u] \in JobIds /\ leases[TargetOf[job[u]]] = job[u]
      BY <2>11, <3>1, Separate
    <3> QED BY <1>t, <2>2, <3>2, Roles
  <2> QED BY <1>2, <2>0, <2>1, <2>2, <2>6, <2>7, <2>8, <2>9, <2>10, <2>11, <2>p
<1>7. CASE ReleaseTarget(w)
  <2>1. UNCHANGED <<rows, outbox, mem, version, serial, active, reason, queue, device, job,
                    resting, out, call, frame>> /\ pc[w] = "leave" /\ Goto(w, "release_active")
    BY <1>7 DEF ReleaseTarget, storeVars, observeVars, historyVars
  <2>0. Owning(w) /\ active[job[w]] /\ guard[w] /\ job[w] \in JobIds
    BY <2>1, WorkerFacts
  <2>2. /\ leases' = [leases EXCEPT ![TargetOf[job[w]]] = NoJob]
        /\ guard' = [guard EXCEPT ![w] = FALSE]
    BY <1>7 DEF ReleaseTarget, DropLease
  <2>3. /\ leases' \in [Targets -> JobIds \cup {NoJob}] /\ guard' \in [Workers -> BOOLEAN]
        /\ guard'[w] = FALSE /\ \A u \in Workers \ {w} : guard'[u] = guard[u]
        /\ \A x \in Targets : x # TargetOf[job[w]] => leases'[x] = leases[x]
    BY <1>t, <2>0, <2>2
  <2>p. /\ pc' \in [Threads -> Labels] /\ pc'[w] = "release_active"
        /\ \A u \in Threads \ {w} : pc'[u] = pc[u]
    BY <1>1, <2>1
  <2>6. Shapes'
    BY <1>s, <2>1, <2>3, <2>p DEF Shapes
  <2>7. QueueInv'
    BY <1>s, <2>1 DEF QueueInv
  <2>8. Alone(w)
    BY <1>s, <2>1, <2>3, <2>p DEF Alone
  <2>9. ThreadInv(w)'
    BY <1>0, <2>0, <2>1, <2>3, <2>p, WorkerRests
  <2>10. \A u \in Workers \ {w} : Owning(u) => active'[job[u]]
    BY <1>3, <2>1
  <2>11. ASSUME NEW u \in Workers \ {w}, guard[u]
         PROVE  leases'[TargetOf[job[u]]] = leases[TargetOf[job[u]]]
    <3>1. Owning(u)
      BY <1>s, <2>11 DEF CoordinatorInv, ThreadInv, Owns
    <3>2. job[u] \in JobIds /\ TargetOf[job[u]] # TargetOf[job[w]]
      BY <2>0, <2>11, <3>1, Separate
    <3> QED BY <1>t, <2>3, <3>2
  <2> QED BY <1>2, <2>0, <2>1, <2>6, <2>7, <2>8, <2>9, <2>10, <2>11, <2>p
<1>8. CASE ReleaseActive(w)
  <2>1. UNCHANGED <<rows, outbox, mem, version, serial, reason, queue, leases, guard, device, job,
                    resting, call, frame>> /\ pc[w] = "release_active"
    BY <1>8 DEF ReleaseActive, storeVars, observeVars, historyVars
  <2>0. Owning(w) /\ ~guard[w] /\ job[w] \in JobIds
    BY <2>1, WorkerFacts
  <2>2. PICK L \in {"idle", "exited"} : Goto(w, L)
    BY <1>8 DEF ReleaseActive
  <2>3. /\ active' \in [JobIds -> BOOLEAN] /\ out' \in [Workers -> Outs]
        /\ \A j \in JobIds : j # job[w] => active'[j] = active[j]
        /\ \A u \in Workers \ {w} : out'[u] = out[u]
    BY <1>8, <1>t, <2>0 DEF ReleaseActive, Outs
  <2>p. /\ pc' \in [Threads -> Labels] /\ pc'[w] = L
        /\ \A u \in Threads \ {w} : pc'[u] = pc[u]
    BY <1>1, <2>2
  <2>6. Shapes'
    BY <1>s, <2>1, <2>3, <2>p DEF Shapes
  <2>7. QueueInv'
    BY <1>s, <2>1 DEF QueueInv
  <2>8. Alone(w)
    BY <1>s, <2>1, <2>3, <2>p DEF Alone
  <2>9. ThreadInv(w)'
    BY <1>0, <2>0, <2>1, <2>3, <2>p, WorkerRests
  <2>10. \A u \in Workers \ {w} : Owning(u) => active'[job[u]]
    BY <2>0, <2>3, Separate
  <2>11. ~Owning(w)'
    BY <2>p DEF Owning
  <2> QED BY <1>2, <2>1, <2>6, <2>7, <2>8, <2>9, <2>10, <2>11, <2>p
<1> QED BY <1>4, <1>5, <1>6, <1>7, <1>8

(* A panic drops the directory and reports. *)
LEMMA PanicStep ==
    ASSUME CoordinatorInv, NEW w \in Workers, Panic(w)
    PROVE  CoordinatorInv'
<1>1. UNCHANGED <<rows, outbox, mem, version, serial, active, reason, queue, device, job,
                  resting, call>> /\ pc[w] = "reading"
  BY DEF Panic, storeVars, observeVars, historyVars
<1>s. /\ Shapes /\ QueueInv /\ w \in Threads /\ w \notin Clients /\ w \notin Tickers
      /\ \A u \in Workers : u \in Threads
      /\ guard \in [Workers -> BOOLEAN] /\ out \in [Workers -> Outs]
      /\ leases \in [Targets -> JobIds \cup {NoJob}] /\ TargetOf \in [JobIds -> Targets]
  BY Roles DEF CoordinatorInv, Shapes
<1>0. /\ Owning(w) /\ active[job[w]] /\ guard[w] /\ job[w] \in JobIds /\ JobState(w) # "absent"
  BY <1>1, WorkerFacts DEF TransferLabels
<1>2. /\ leases' = [leases EXCEPT ![TargetOf[job[w]]] = NoJob]
      /\ guard' = [guard EXCEPT ![w] = FALSE] /\ out' = [out EXCEPT ![w] = "panicked"]
      /\ Apply(w, Command("panicked"), "clear", "clear")
  BY DEF Panic, DropLease
<1>3. /\ leases' \in [Targets -> JobIds \cup {NoJob}] /\ guard' \in [Workers -> BOOLEAN]
      /\ out' \in [Workers -> Outs] /\ guard'[w] = FALSE /\ out'[w] = "panicked"
      /\ \A u \in Workers \ {w} : guard'[u] = guard[u] /\ out'[u] = out[u]
      /\ \A x \in Targets : x # TargetOf[job[w]] => leases'[x] = leases[x]
  BY <1>s, <1>0, <1>2 DEF Outs
<1>4. /\ Command("panicked") \in Commands /\ Command("panicked").kind = "panicked" /\ "clear" \in Labels
  BY CommandShapes DEF WorkerKinds, Labels, WorkerLabels
<1>5. /\ pc' \in [Threads -> Labels] /\ frame' \in [Threads -> Frames]
      /\ pc'[w] = "lock" /\ frame'[w].cmd.kind = "panicked" /\ frame'[w].ok = "clear"
      /\ frame'[w].err = "clear"
      /\ \A u \in Threads \ {w} : pc'[u] = pc[u] /\ frame'[u] = frame[u]
  BY <1>s, <1>2, <1>4, ApplyFrame
<1>6. Shapes'
  BY <1>s, <1>1, <1>3, <1>5 DEF Shapes
<1>7. QueueInv'
  BY <1>s, <1>1 DEF QueueInv
<1>8. Alone(w)
  BY <1>s, <1>1, <1>3, <1>5 DEF Alone
<1>9. ThreadInv(w)'
  <2>1. Placed(w)' /\ Reports(w)' /\ Held(w)'
    BY <1>0, <1>1, <1>5 DEF Placed, JobState, Reports, Held, InSerial, Kind
  <2>2. Waits(w)'
    BY <1>5 DEF Waits
  <2>3. WorkerRole(w)'
    BY <1>3, <1>5 DEF WorkerRole, ApplyLabels, Kind, WorkerKinds
  <2>4. Owns(w)'
    BY <1>0, <1>1, <1>3, <1>5 DEF Owns, Owning, TransferLabels
  <2> QED BY <1>s, <2>1, <2>2, <2>3, <2>4 DEF ThreadInv, Role
<1>10. MovesFairly(w)
  BY <1>s, <1>0, <1>1, <1>5 DEF MovesFairly, Owning, TransferLabels, Reading
<1>11. \A u \in Workers \ {w} : Owning(u) => active'[job[u]]
  BY <1>1, Separate
<1>12. ASSUME NEW u \in Workers \ {w}, guard[u]
       PROVE  leases'[TargetOf[job[u]]] = leases[TargetOf[job[u]]]
  <2>1. Owning(u)
    BY <1>s, <1>12 DEF CoordinatorInv, ThreadInv, Owns
  <2>2. job[u] \in JobIds /\ TargetOf[job[u]] # TargetOf[job[w]]
    BY <1>0, <1>12, <2>1, Separate
  <2> QED BY <1>s, <1>3, <2>2
<1> QED BY <1>s, <1>1, <1>6, <1>7, <1>8, <1>9, <1>10, <1>11, <1>12, QuietStep

(* Every step of a worker outside apply_checked. *)
LEMMA WorkerStepInv ==
    ASSUME CoordinatorInv, NEW w \in Workers, WorkerStep(w)
    PROVE  CoordinatorInv'
  BY ProcessSteps, TransferSteps, ClearingSteps, ClaimingSteps, PanicStep DEF WorkerStep

-----------------------------------------------------------------------------
(* A ticker moves on. *)
LEMMA TickerMoves ==
    ASSUME CoordinatorInv, Shapes', QueueInv', NEW k \in Tickers, Alone(k),
           UNCHANGED <<rows, mem, version, serial, active, leases, guard, resting>>,
           pc'[k] \in {"idle", "mint"} \cup TickLabels,
           pc'[k] # "idle" => job'[k] \in JobIds /\ mem[job'[k]].state # "absent",
           pc'[k] = "mint" => /\ frame'[k].ok = "idle" /\ frame'[k].err = "idle"
                              /\ frame'[k].cmd.kind = "none"
                              /\ \A r \in Readiness : frame'[k].hint[r] \in {"idle", "tick_schedule"}
    PROVE  CoordinatorInv'
<1>0. k \in Threads /\ k \notin Workers /\ k \notin Clients
  BY Roles
<1>1. pc'[k] \notin InSerial \cup {"await", "relock", "read", "lock"}
  BY DEF InSerial, TickLabels
<1>2. pc'[k] \in ApplyLabels => pc'[k] = "mint"
  BY <1>1 DEF ApplyLabels, InSerial
<1>3. Placed(k)' /\ Reports(k)' /\ Held(k)' /\ Waits(k)'
  BY <1>1, <1>2 DEF Placed, JobState, Reports, Held, Waits, Kind
<1>4. TickerRole(k)'
  BY <1>1, <1>2, OwningLabels DEF TickerRole
<1>5. ThreadInv(k)'
  BY <1>0, <1>3, <1>4 DEF ThreadInv, Role
<1>6. MovesFairly(k)
  BY <1>0 DEF MovesFairly
<1>7. \A u \in Workers : Owning(u) => active[job[u]]
  BY Roles DEF CoordinatorInv, ThreadInv, Owns
<1> QED BY <1>0, <1>5, <1>6, <1>7, QuietStep

(* Every step of tick outside apply_checked. *)
LEMMA TickerStepInv ==
    ASSUME CoordinatorInv, NEW k \in Tickers, TickerStep(k)
    PROVE  CoordinatorInv'
<1>s. /\ Shapes /\ QueueInv /\ k \in Threads /\ k \notin Workers /\ k \notin Clients /\ ThreadInv(k)
      /\ pc \in [Threads -> Labels] /\ job \in [Threads -> JobIds \cup {NoJob}]
      /\ mem \in [JobIds -> Notes]
  BY Roles DEF CoordinatorInv, Shapes
<1>0. pc[k] # "idle" => job[k] \in JobIds /\ mem[job[k]].state # "absent"
  BY <1>s DEF ThreadInv, Placed, JobState
<1>1. ASSUME NEW L \in {"idle"} \cup TickLabels, Goto(k, L)
      PROVE  /\ pc' \in [Threads -> Labels] /\ pc'[k] = L /\ L # "mint"
             /\ \A u \in Threads \ {k} : pc'[u] = pc[u]
  <2>1. L \in Labels /\ L # "mint"
    BY DEF Labels, TickLabels
  <2> QED BY <1>1, <1>s, <2>1 DEF Goto
<1>2. ASSUME NEW L \in {"idle"} \cup TickLabels, Jump(k, L), pc[k] # "idle"
      PROVE  CoordinatorInv'
  <2>1. L \in Labels /\ L # "mint"
    BY DEF Labels, TickLabels
  <2>2. /\ Shapes' /\ QueueInv' /\ Alone(k) /\ pc'[k] = L
        /\ UNCHANGED <<rows, mem, version, serial, active, leases, job, guard, resting, out, call, frame>>
    BY <1>2, <1>s, <2>1, JumpFrame
  <2> QED BY <1>2, <1>0, <2>1, <2>2, TickerMoves
<1>3. CASE TickRead(k)
  <2>1. UNCHANGED <<rows, outbox, mem, version, serial, active, reason, queue, leases, device, guard,
                    resting, out, call, frame>> /\ Goto(k, "tick_lease")
    BY <1>3 DEF TickRead, storeVars, memoryVars, observeVars, historyVars, workerVars
  <2>2. PICK j \in JobIds : mem[j].state \in NonTerminal /\ job' = [job EXCEPT ![k] = j]
    BY <1>3 DEF TickRead
  <2>3. mem[j].state # "absent"
    BY <2>2, StateNames DEF NonTerminal
  <2>4. /\ job' \in [Threads -> JobIds \cup {NoJob}] /\ job'[k] = j
        /\ \A u \in Threads \ {k} : job'[u] = job[u]
    BY <1>s, <2>2
  <2>5. /\ pc' \in [Threads -> Labels] /\ pc'[k] = "tick_lease" /\ "tick_lease" \in TickLabels
        /\ \A u \in Threads \ {k} : pc'[u] = pc[u]
    BY <1>1, <2>1 DEF TickLabels
  <2>6. Shapes'
    BY <1>s, <2>1, <2>4, <2>5 DEF Shapes
  <2>7. QueueInv'
    BY <1>s, <2>1 DEF QueueInv
  <2>8. Alone(k)
    BY <2>1, <2>4, <2>5, Roles DEF Alone
  <2> QED BY <2>1, <2>3, <2>4, <2>5, <2>6, <2>7, <2>8, TickerMoves
<1>4. CASE TickLease(k)
  <2>1. \/ Jump(k, "tick_queued") \/ Jump(k, "idle")
    BY <1>4 DEF TickLease
  <2> QED BY <1>2, <1>4, <2>1 DEF TickLease, TickLabels
<1>5. CASE TickQueued(k)
  <2>1. \/ Jump(k, "tick_active") \/ Jump(k, "idle")
    BY <1>5 DEF TickQueued
  <2> QED BY <1>2, <1>5, <2>1 DEF TickQueued, TickLabels
<1>6. CASE TickActive(k)
  <2>1. UNCHANGED <<rows, outbox, mem, version, serial, active, reason, queue, leases, device, guard,
                    resting, out, call, job>> /\ pc[k] # "idle"
    BY <1>6 DEF TickActive, storeVars, memoryVars, observeVars, historyVars, workerVars
  <2>2. QueueInv'
    BY <1>s, <2>1 DEF QueueInv
  <2>3. ASSUME NEW h \in [Readiness -> Labels], \A r \in Readiness : h[r] \in {"idle", "tick_schedule"},
               Observe(k, h, "idle")
        PROVE  CoordinatorInv'
    <3>1. /\ pc' \in [Threads -> Labels] /\ frame' \in [Threads -> Frames]
          /\ pc'[k] = "mint" /\ frame'[k].hint = h /\ frame'[k].ok = "idle" /\ frame'[k].err = "idle"
          /\ frame'[k].cmd.kind = "none"
          /\ \A u \in Threads \ {k} : pc'[u] = pc[u] /\ frame'[u] = frame[u]
      BY <1>s, <2>3, ObserveFrame DEF Labels
    <3>2. Shapes'
      BY <1>s, <2>1, <3>1 DEF Shapes
    <3>3. Alone(k)
      BY <2>1, <3>1, Roles DEF Alone
    <3> QED BY <1>0, <2>1, <2>2, <2>3, <3>1, <3>2, <3>3, TickerMoves
  <2>4. ASSUME NEW L \in {"idle", "tick_schedule"}, Goto(k, L), UNCHANGED frame
        PROVE  CoordinatorInv'
    <3>0. L \in {"idle"} \cup TickLabels
      BY DEF TickLabels
    <3>1. /\ pc' \in [Threads -> Labels] /\ pc'[k] = L /\ L # "mint"
          /\ \A u \in Threads \ {k} : pc'[u] = pc[u]
      BY <1>1, <2>4, <3>0
    <3>2. Shapes'
      BY <1>s, <2>1, <2>4, <3>1 DEF Shapes
    <3>3. Alone(k)
      BY <2>1, <2>4, <3>1, Roles DEF Alone
    <3> QED BY <1>0, <2>1, <2>2, <2>4, <3>0, <3>1, <3>2, <3>3, TickerMoves
  <2>5. NoHint \in [Readiness -> Labels] /\ \A r \in Readiness : NoHint[r] \in {"idle", "tick_schedule"}
    BY FrameShapes
  <2>6. TickHint \in [Readiness -> Labels] /\ \A r \in Readiness : TickHint[r] \in {"idle", "tick_schedule"}
    BY FrameShapes DEF TickHint, Labels, TickLabels
  <2> QED BY <1>6, <2>3, <2>4, <2>5, <2>6 DEF TickActive
<1>7. CASE TickSchedule(k)
  <2>1. UNCHANGED <<rows, outbox, mem, version, serial, active, reason, leases, device, guard,
                    resting, out, call, frame, job>> /\ Goto(k, "idle") /\ pc[k] # "idle"
    BY <1>7 DEF TickSchedule, storeVars, observeVars, historyVars, workerVars
  <2>2. queue' = schedule(job[k])
    BY <1>7 DEF TickSchedule
  <2>3. queue' \in Seq(JobIds) /\ \A i \in 1..Len(queue') : mem[queue'[i]].state # "absent"
    BY <1>0, <1>s, <2>1, <2>2, ScheduleFacts
  <2>5. /\ pc' \in [Threads -> Labels] /\ pc'[k] = "idle"
        /\ \A u \in Threads \ {k} : pc'[u] = pc[u]
    BY <1>1, <2>1
  <2>6. Shapes'
    BY <1>s, <2>1, <2>3, <2>5 DEF Shapes
  <2>7. QueueInv'
    BY <2>1, <2>3 DEF QueueInv
  <2>8. Alone(k)
    BY <2>1, <2>5, Roles DEF Alone
  <2> QED BY <2>1, <2>5, <2>6, <2>7, <2>8, TickerMoves
<1> QED BY <1>3, <1>4, <1>5, <1>6, <1>7 DEF TickerStep

(* Every step of a client outside apply_checked. *)
LEMMA ClientStepInv ==
    ASSUME CoordinatorInv, NEW c \in Clients, ClientStep(c)
    PROVE  CoordinatorInv'
<1>s. /\ Shapes /\ QueueInv /\ c \in Threads /\ c \notin Workers /\ c \notin Tickers /\ ThreadInv(c)
      /\ pc \in [Threads -> Labels] /\ job \in [Threads -> JobIds \cup {NoJob}]
      /\ call \in [Clients -> ClientKinds \cup {"none", "overtaken"}] /\ resting \subseteq JobIds
      /\ \A w \in Workers : w # c
  BY Roles DEF CoordinatorInv, Shapes
<1>0. pc[c] # "idle" => job[c] \in JobIds /\ mem[job[c]].state # "absent"
  BY <1>s DEF ThreadInv, Placed, JobState
<1>a. \A u \in Workers : Owning(u) => active[job[u]]
  BY Roles DEF CoordinatorInv, ThreadInv, Owns
<1>1. CASE IssueCommand(c)
  <2>1. UNCHANGED <<rows, outbox, mem, version, serial, active, reason, queue, leases, device, guard,
                    resting, out>>
    BY <1>1 DEF IssueCommand, storeVars, memoryVars, observeVars, workerVars
  <2>2. PICK k \in CommandKinds, j \in JobIds :
            /\ mem[j].state # "absent" /\ call' = [call EXCEPT ![c] = k]
            /\ job' = [job EXCEPT ![c] = j]
            /\ Apply(c, Command(k), IF k = "cancel" THEN "finalize" ELSE "acked", "refused")
    BY <1>1 DEF IssueCommand
  <2>3. k \in {"pause", "resume", "cancel"}
    BY CoordinatorConstants
  <2>4. k \in ClientKinds /\ Command(k) \in Commands /\ Command(k).kind = k
        /\ {"finalize", "acked", "refused"} \subseteq Labels
    BY <2>3, CommandShapes DEF ClientKinds, Labels, ClientLabels
  <2>5. /\ pc' \in [Threads -> Labels] /\ frame' \in [Threads -> Frames]
        /\ pc'[c] = "lock" /\ frame'[c].cmd.kind = k
        /\ frame'[c].ok = (IF k = "cancel" THEN "finalize" ELSE "acked")
        /\ frame'[c].err = "refused"
        /\ \A u \in Threads \ {c} : pc'[u] = pc[u] /\ frame'[u] = frame[u]
    BY <1>s, <2>2, <2>4, ApplyFrame
  <2>6. /\ job' \in [Threads -> JobIds \cup {NoJob}] /\ job'[c] = j
        /\ call' \in [Clients -> ClientKinds \cup {"none", "overtaken"}] /\ call'[c] = k
        /\ \A u \in Threads \ {c} : job'[u] = job[u]
        /\ \A u \in Clients \ {c} : call'[u] = call[u]
    BY <1>s, <2>2, <2>4
  <2>7. Shapes'
    BY <1>s, <2>1, <2>5, <2>6 DEF Shapes
  <2>8. QueueInv'
    BY <1>s, <2>1 DEF QueueInv
  <2>9. Alone(c)
    BY <1>s, <2>1, <2>5, <2>6 DEF Alone
  <2>10. ThreadInv(c)'
    <3>1. Placed(c)' /\ Reports(c)' /\ Held(c)' /\ Waits(c)'
      BY <2>1, <2>2, <2>3, <2>5, <2>6 DEF Placed, JobState, Reports, Held, Waits, InSerial, Kind
    <3>2. ClientRole(c)'
      BY <2>3, <2>5, <2>6 DEF ClientRole, ApplyLabels, Kind
    <3>3. Cancels(c)' /\ Pauses(c)'
      BY <2>3, <2>5 DEF Cancels, Pauses, Finalizes, HasPaused, InSerial, Kind
    <3> QED BY <1>s, <3>1, <3>2, <3>3 DEF ThreadInv, Role
  <2>11. MovesFairly(c)
    BY <1>s, <2>3, <2>5 DEF MovesFairly, Finalizes, HasWaited, InSerial, Kind
  <2> QED BY <1>s, <1>a, <2>1, <2>7, <2>8, <2>9, <2>10, <2>11, QuietStep
<1>2. CASE FinalizeCancel(c)
  <2>1. UNCHANGED <<rows, outbox, mem, version, serial, active, reason, queue, leases, device, guard,
                    resting, out, job, call>> /\ pc[c] = "finalize"
    BY <1>2 DEF FinalizeCancel, ApplyFrom, Steady, storeVars, memoryVars, observeVars, historyVars, workerVars
  <2>2. Apply(c, Command("finalize_cancel"), "acked", "refused")
    BY <1>2 DEF FinalizeCancel, ApplyFrom
  <2>4. /\ Command("finalize_cancel") \in Commands /\ Command("finalize_cancel").kind = "finalize_cancel"
        /\ {"acked", "refused"} \subseteq Labels
    BY CommandShapes DEF ClientKinds, Labels, ClientLabels
  <2>5. /\ pc' \in [Threads -> Labels] /\ frame' \in [Threads -> Frames]
        /\ pc'[c] = "lock" /\ frame'[c].cmd.kind = "finalize_cancel"
        /\ frame'[c].ok = "acked" /\ frame'[c].err = "refused"
        /\ \A u \in Threads \ {c} : pc'[u] = pc[u] /\ frame'[u] = frame[u]
    BY <1>s, <2>2, <2>4, ApplyFrame
  <2>6. Finalizes(c) /\ JobState(c) \in Ending /\ call[c] = "cancel"
    BY <1>s, <2>1 DEF ThreadInv, Cancels, Finalizes, Role, ClientRole
  <2>7. Shapes'
    BY <1>s, <2>1, <2>5 DEF Shapes
  <2>8. QueueInv'
    BY <1>s, <2>1 DEF QueueInv
  <2>9. Alone(c)
    BY <1>s, <2>1, <2>5 DEF Alone
  <2>10. ThreadInv(c)'
    <3>1. Placed(c)' /\ Reports(c)' /\ Held(c)' /\ Waits(c)'
      BY <1>0, <2>1, <2>5 DEF Placed, JobState, Reports, Held, Waits, InSerial, Kind
    <3>2. ClientRole(c)'
      BY <2>1, <2>5, <2>6 DEF ClientRole, ApplyLabels, Kind
    <3>3. Cancels(c)' /\ Pauses(c)'
      BY <2>1, <2>5, <2>6 DEF Cancels, Pauses, HasPaused, InSerial, Kind, JobState
    <3> QED BY <1>s, <3>1, <3>2, <3>3 DEF ThreadInv, Role
  <2>11. MovesFairly(c)
    BY <1>s, <2>1, <2>5, <2>6 DEF MovesFairly, HasWaited, InSerial
  <2> QED BY <1>s, <1>a, <2>1, <2>7, <2>8, <2>9, <2>10, <2>11, QuietStep
<1>3. CASE EndCommand(c)
  <2>1. UNCHANGED <<rows, outbox, mem, version, serial, active, reason, queue, leases, device, guard,
                    out, job, frame>> /\ pc[c] \in {"acked", "refused"}
    BY <1>3 DEF EndCommand, storeVars, memoryVars, observeVars, workerVars
  <2>2. /\ pc' = [pc EXCEPT ![c] = "idle"] /\ call' = [call EXCEPT ![c] = "none"] /\ "idle" \in Labels
        /\ resting' = IF pc[c] = "acked" /\ call[c] = "pause" THEN resting \cup {job[c]} ELSE resting
    BY <1>3 DEF EndCommand, Goto, Labels
  <2>5. /\ pc' \in [Threads -> Labels] /\ pc'[c] = "idle"
        /\ call' \in [Clients -> ClientKinds \cup {"none", "overtaken"}]
        /\ \A u \in Threads \ {c} : pc'[u] = pc[u]
        /\ \A u \in Clients \ {c} : call'[u] = call[u]
    BY <1>s, <2>2
  <2>6. /\ resting' \subseteq JobIds
        /\ \A j \in resting' : j \in resting \/ (HasWaited(c) /\ job[c] = j)
    BY <1>s, <1>0, <2>1, <2>2 DEF HasWaited
  <2>7. Shapes'
    BY <1>s, <2>1, <2>5, <2>6 DEF Shapes
  <2>8. QueueInv'
    BY <1>s, <2>1 DEF QueueInv
  <2>9. Alone(c)
    BY <1>s, <2>1, <2>5 DEF Alone
  <2>10. ThreadInv(c)'
    <3>1. Placed(c)' /\ Reports(c)' /\ Held(c)' /\ Waits(c)'
      BY <2>5 DEF Placed, Reports, Held, Waits, InSerial, ApplyLabels
    <3>2. ClientRole(c)'
      BY <2>5 DEF ClientRole, ApplyLabels
    <3>3. Cancels(c)' /\ Pauses(c)'
      BY <2>5 DEF Cancels, Pauses, Finalizes, HasPaused, InSerial, ApplyLabels
    <3> QED BY <1>s, <3>1, <3>2, <3>3 DEF ThreadInv, Role
  <2>11. MovesFairly(c)
    BY <1>s, <2>5 DEF MovesFairly, Finalizes, HasWaited, InSerial, ApplyLabels
  <2> QED BY <1>s, <1>a, <2>1, <2>6, <2>7, <2>8, <2>9, <2>10, <2>11, QuietStep
<1> QED BY <1>1, <1>2, <1>3 DEF ClientStep

-----------------------------------------------------------------------------
(* A step that moves no thread and touches no job. *)
LEMMA StillStep ==
    ASSUME CoordinatorInv, Shapes', QueueInv',
           UNCHANGED <<rows, mem, version, serial, active, leases, pc, job, frame, out, guard, call, resting>>
    PROVE  CoordinatorInv'
<1>1. ASSUME NEW t \in Threads
      PROVE  ThreadInv(t)'
  <2>1. ThreadInv(t)
    BY DEF CoordinatorInv
  <2>2. Kind(t)' = Kind(t) /\ JobState(t)' = JobState(t)
    BY DEF Kind, JobState
  <2>3. Placed(t)' /\ Reports(t)' /\ Waits(t)'
    BY <2>1, <2>2 DEF ThreadInv, Placed, Reports, Waits
  <2>4. Held(t)'
    BY <2>1, <2>2 DEF ThreadInv, Held
  <2>5. Role(t)'
    BY <2>1, <2>2 DEF ThreadInv, Role, WorkerRole, TickerRole, ClientRole
  <2>6. t \in Workers => Owns(t)'
    BY <2>1, <2>2 DEF ThreadInv, Owns, Owning
  <2>7. t \in Clients => Cancels(t)' /\ Pauses(t)'
    BY <2>1, <2>2 DEF ThreadInv, Cancels, Finalizes, Pauses, HasPaused, IntentAhead
  <2> QED BY <2>3, <2>4, <2>5, <2>6, <2>7 DEF ThreadInv
<1>2. \A v, w \in Workers : Apart(v, w)'
  BY DEF CoordinatorInv, Apart, Owning
<1>3. ASSUME NEW c \in Clients, NEW w \in Workers
      PROVE  Quiet(c, w)'
  <2>1. Quiet(c, w)
    BY DEF CoordinatorInv
  <2>2. Finalizes(c)' = Finalizes(c) /\ HasWaited(c)' = HasWaited(c)
    BY DEF Finalizes, Kind, HasWaited
  <2> QED BY <2>1, <2>2 DEF Quiet
<1>4. \A j \in JobIds : JobInv(j)'
  BY DEF CoordinatorInv, JobInv
<1> QED BY <1>1, <1>2, <1>3, <1>4 DEF CoordinatorInv

(* The device, the shutdown and a step that changes nothing. *)
LEMMA EnvironmentSteps ==
    ASSUME CoordinatorInv,
           \/ DeviceChange \/ BeginShutdown \/ StopQueue \/ UNCHANGED vars
           \/ \E j \in JobIds : TellShutdown(j) \/ RaiseShutdown(j)
    PROVE  CoordinatorInv'
<1>1. UNCHANGED <<rows, outbox, mem, version, serial, active, leases, pc, job, frame, out, guard, call, resting>>
  BY DEF DeviceChange, BeginShutdown, StopQueue, TellShutdown, RaiseShutdown, vars, storeVars,
         memoryVars, observeVars, workerVars, historyVars
<1>s. /\ Shapes /\ QueueInv /\ reason \in [JobIds -> Reasons \cup {"none"}] /\ queue \in Seq(JobIds)
      /\ device \in Readiness
  BY DEF CoordinatorInv, Shapes
<1>2. reason' \in [JobIds -> Reasons \cup {"none"}]
  <2>1. CASE reason' = reason
    BY <1>s, <2>1
  <2>2. ASSUME NEW j \in JobIds, reason' = [reason EXCEPT ![j] = "shutdown"]
        PROVE  reason' \in [JobIds -> Reasons \cup {"none"}]
    BY <1>s, <2>2 DEF Reasons
  <2> QED BY <2>1, <2>2 DEF DeviceChange, BeginShutdown, StopQueue, TellShutdown, RaiseShutdown, vars,
                            memoryVars
<1>3. device' \in Readiness
  BY <1>s, CoordinatorConstants DEF DeviceChange, BeginShutdown, StopQueue, TellShutdown, RaiseShutdown,
         vars, observeVars
<1>4. queue' = queue \/ queue' = << >>
  BY DEF DeviceChange, BeginShutdown, StopQueue, TellShutdown, RaiseShutdown, vars, memoryVars
<1>5. queue' \in Seq(JobIds) /\ \A i \in 1..Len(queue') : mem[queue'[i]].state # "absent"
  <2>1. CASE queue' = queue
    BY <1>s, <2>1 DEF QueueInv
  <2>2. CASE queue' = << >>
    BY <2>2
  <2> QED BY <1>4, <2>1, <2>2
<1>6. Shapes'
  BY <1>s, <1>1, <1>2, <1>3, <1>5 DEF Shapes
<1>7. QueueInv'
  BY <1>1, <1>5 DEF QueueInv
<1> QED BY <1>1, <1>6, <1>7, StillStep

\* A thread inside apply_checked keeps its call, its job and its claims.
SameCall(t) ==
    /\ frame'[t].cmd = frame[t].cmd /\ frame'[t].ok = frame[t].ok /\ frame'[t].err = frame[t].err
SameClaims(t) ==
    /\ job'[t] = job[t] /\ mem'[job[t]].state # "absent"
    /\ t \in Workers => /\ out'[t] = out[t] /\ guard'[t] = guard[t] /\ active'[job[t]] = active[job[t]]
                        /\ leases'[TargetOf[job[t]]] = leases[TargetOf[job[t]]]
    /\ t \in Clients => call'[t] = call[t]

(* What a thread inside apply_checked may count on. *)
LEMMA ApplyFacts ==
    ASSUME CoordinatorInv, NEW t \in Threads, pc[t] \in ApplyLabels
    PROVE  /\ ThreadInv(t) /\ job[t] \in JobIds /\ mem[job[t]].state # "absent"
           /\ frame[t] \in Frames /\ frame[t].eff \in Seq(Effects)
           /\ pc[t] \notin {"mint", "read"} => Kind(t) \in WorkerKinds \cup ClientKinds
           /\ t \in Workers => /\ Owning(t) /\ active[job[t]]
                               /\ guard[t] => leases[TargetOf[job[t]]] = job[t]
           /\ Kind(t) \in {"pause", "cancel", "finalize_cancel", "resume"} /\ pc[t] \notin {"mint", "read"}
                 => t \in Clients
<1>1. ThreadInv(t) /\ pc[t] # "idle"
  BY OwningLabels DEF CoordinatorInv
<1>2. job[t] \in JobIds /\ mem[job[t]].state # "absent"
  BY <1>1 DEF ThreadInv, Placed, JobState
<1>3. frame[t] \in Frames
  BY DEF CoordinatorInv, Shapes
<1>4. frame[t].eff \in Seq(Effects)
  BY <1>3 DEF Frames
<1>5. pc[t] \notin {"mint", "read"} => /\ t \in Workers => Kind(t) \in WorkerKinds
                                       /\ t \in Tickers => Kind(t) = "device_observed"
                                       /\ t \in Clients => Kind(t) \in ClientKinds
  BY <1>1 DEF ThreadInv, Role, WorkerRole, TickerRole, ClientRole, ClientKinds
<1>6. t \in Workers => Owning(t)
  BY OwningLabels DEF Owning
<1>7. t \in Workers => /\ active[job[t]] /\ (guard[t] => leases[TargetOf[job[t]]] = job[t])
  BY <1>1, <1>6 DEF ThreadInv, Owns
<1> QED BY <1>1, <1>2, <1>3, <1>4, <1>5, <1>6, <1>7, Roles DEF WorkerKinds, ClientKinds

(* A thread that stays inside apply_checked keeps its role. *)
LEMMA StaysApplying ==
    ASSUME CoordinatorInv, NEW t \in Threads, pc[t] \in ApplyLabels \ {"mint", "read"},
           pc'[t] \in ApplyLabels \ {"mint", "read"}, SameCall(t), SameClaims(t)
    PROVE  /\ Placed(t)' /\ Role(t)' /\ Reports(t)' /\ Kind(t)' = Kind(t)
           /\ t \in Workers => Owns(t)'
<1>1. /\ ThreadInv(t) /\ job[t] \in JobIds
      /\ t \in Workers => Owning(t) /\ active[job[t]] /\ (guard[t] => leases[TargetOf[job[t]]] = job[t])
  BY ApplyFacts
<1>2. Kind(t)' = Kind(t)
  BY DEF Kind, SameCall
<1>3. Placed(t)' /\ Reports(t)'
  BY <1>1, <1>2 DEF Placed, JobState, Reports, ThreadInv, SameClaims, SameCall
<1>4. t \in Workers => WorkerRole(t)'
  BY <1>1, <1>2 DEF ThreadInv, Role, WorkerRole, SameCall, SameClaims
<1>5. t \in Tickers => TickerRole(t)'
  BY <1>1, <1>2 DEF ThreadInv, Role, TickerRole, SameCall, SameClaims
<1>6. t \in Clients => ClientRole(t)'
  BY <1>1, <1>2, OwningLabels DEF ThreadInv, Role, ClientRole, SameCall, SameClaims, ClientLabels
<1>7. t \in Workers => Owns(t)'
  BY <1>1 DEF Owns, Owning, SameClaims, ApplyLabels, TransferLabels
<1> QED BY <1>2, <1>3, <1>4, <1>5, <1>6, <1>7 DEF Role

(* A thread that leaves apply_checked is where its call said it would be. *)
LEMMA LeavesApply ==
    ASSUME CoordinatorInv, NEW t \in Threads, pc[t] \in ApplyLabels \ {"mint", "read"}, SameClaims(t),
           \/ pc'[t] = frame[t].ok \/ pc'[t] = frame[t].err
           \/ t \in Clients /\ Kind(t) # "cancel" /\ pc'[t] = "acked"
           \/ t \in Clients /\ mem'[job[t]].state = "cancelled" /\ pc'[t] = "acked",
           t \in Clients /\ pc'[t] = "finalize" => mem'[job[t]].state \in Ending,
           t \in Clients /\ pc'[t] = "acked" /\ call[t] = "cancel" => mem'[job[t]].state = "cancelled",
           t \in Clients /\ pc'[t] = "acked" /\ call[t] = "pause" => rows'[job[t]].desired = "paused"
    PROVE  /\ ThreadInv(t)' /\ (t \in Workers => pc'[t] \notin TransferLabels)
           /\ t \in Clients => pc'[t] \in {"finalize", "acked", "refused"}
<1>1. /\ ThreadInv(t) /\ job[t] \in JobIds
      /\ t \in Workers => Owning(t) /\ active[job[t]] /\ (guard[t] => leases[TargetOf[job[t]]] = job[t])
  BY ApplyFacts
<1>2. CASE t \in Workers
  <2>1. \/ guard[t] /\ pc'[t] \in WorkerReturns
        \/ ~guard[t] /\ pc'[t] = "clear" /\ out[t] = "panicked"
    BY <1>1, <1>2, Roles DEF ThreadInv, Role, WorkerRole, WorkerReturns
  <2>2. pc'[t] \in {"loop", "leave", "reschedule", "clear"}
    BY <2>1 DEF WorkerReturns
  <2>3. pc'[t] \notin ApplyLabels \cup TransferLabels \cup InSerial \cup {"await", "relock"}
    BY <2>2 DEF ApplyLabels, TransferLabels, InSerial
  <2>4. Placed(t)' /\ Reports(t)' /\ Held(t)' /\ Waits(t)'
    BY <1>1, <2>3 DEF Placed, JobState, Reports, Held, Waits, SameClaims
  <2>5. WorkerRole(t)'
    BY <2>2, <2>3 DEF WorkerRole, WorkerLabels, ApplyLabels
  <2>6. Owns(t)'
    BY <1>1, <1>2, <2>1, <2>2, <2>3 DEF Owns, Owning, SameClaims, WorkerReturns
  <2> QED BY <1>2, <2>3, <2>4, <2>5, <2>6, Roles DEF ThreadInv, Role
<1>3. CASE t \in Tickers
  <2>1. pc'[t] \in {"idle", "tick_schedule"}
    BY <1>1, <1>3, Roles DEF ThreadInv, Role, TickerRole
  <2>2. pc'[t] \notin ApplyLabels \cup InSerial \cup {"await", "relock"}
    BY <2>1 DEF ApplyLabels, InSerial
  <2>3. Placed(t)' /\ Reports(t)' /\ Held(t)' /\ Waits(t)'
    BY <1>1, <2>2 DEF Placed, JobState, Reports, Held, Waits, SameClaims
  <2>4. TickerRole(t)'
    BY <2>1, <2>2 DEF TickerRole, TickLabels, ApplyLabels
  <2> QED BY <1>3, <2>3, <2>4, Roles DEF ThreadInv, Role
<1>4. CASE t \in Clients
  <2>1. /\ pc'[t] \in {"finalize", "acked", "refused"}
        /\ pc'[t] = "finalize" => call[t] = "cancel"
    BY <1>1, <1>4 DEF ThreadInv, Role, ClientRole
  <2>2. pc'[t] \notin ApplyLabels \cup InSerial \cup {"await", "relock"}
    BY <2>1 DEF ApplyLabels, InSerial
  <2>3. Placed(t)' /\ Reports(t)' /\ Held(t)' /\ Waits(t)'
    BY <1>1, <2>2 DEF Placed, JobState, Reports, Held, Waits, SameClaims
  <2>4. ClientRole(t)'
    BY <1>4, <2>1, <2>2 DEF ClientRole, ClientLabels, SameClaims
  <2>5. Cancels(t)'
    BY <1>4, <2>1, <2>2 DEF Cancels, Finalizes, JobState, SameClaims
  <2>6. Pauses(t)'
    BY <1>4, <2>1, <2>2 DEF Pauses, HasPaused, SameClaims
  <2> QED BY <1>4, <2>1, <2>3, <2>4, <2>5, <2>6, Roles DEF ThreadInv, Role
<1> QED BY <1>2, <1>3, <1>4, Roles

\* A thread carries on with the effects e of its call on job j.
Proceeds(t, j, e) ==
    /\ pc' \in [Threads -> Labels] /\ frame' \in [Threads -> Frames]
    /\ serial' \in [JobIds -> Threads \cup {NoThread}]
    /\ \A u \in Threads \ {t} : pc'[u] = pc[u] /\ frame'[u] = frame[u]
    /\ \A x \in JobIds \ {j} : serial'[x] = serial[x]
    /\ \/ e = << >> /\ pc'[t] = frame[t].ok
       \/ /\ e # << >> /\ Head(e).op = "await_worker_release" /\ pc'[t] = "await"
          /\ frame'[t].eff = Tail(e) /\ SameCall(t)
       \/ /\ e # << >> /\ Head(e).op # "await_worker_release" /\ pc'[t] = "perform"
          /\ frame'[t].eff = e /\ serial'[j] = t /\ SameCall(t)

(* A thread that leaves apply_checked, and one that goes on with effects e. *)
LEMMA ReturnFrame ==
    ASSUME Shapes, NEW t \in Threads, NEW L \in Labels, frame' = [frame EXCEPT ![t] = NoFrame], Goto(t, L)
    PROVE  /\ pc' \in [Threads -> Labels] /\ frame' \in [Threads -> Frames] /\ pc'[t] = L
           /\ \A u \in Threads \ {t} : pc'[u] = pc[u] /\ frame'[u] = frame[u]
<1>1. pc \in [Threads -> Labels] /\ frame \in [Threads -> Frames] /\ NoFrame \in Frames
  BY FrameShapes DEF Shapes
<1> QED BY <1>1 DEF Goto

(* Only the effects of the call change. *)
LEMMA EffectsFrame ==
    ASSUME Shapes, NEW t \in Threads, NEW e \in Seq(Effects), frame' = [frame EXCEPT ![t].eff = e]
    PROVE  /\ frame' \in [Threads -> Frames] /\ frame'[t].eff = e /\ SameCall(t)
           /\ \A u \in Threads \ {t} : frame'[u] = frame[u]
<1>1. frame \in [Threads -> Frames] /\ frame[t] \in Frames
  BY DEF Shapes
<1> DEFINE f == [frame[t] EXCEPT !.eff = e]
<1>2. /\ f \in Frames /\ f.eff = e /\ f.cmd = frame[t].cmd /\ f.ok = frame[t].ok /\ f.err = frame[t].err
  BY <1>1 DEF Frames
<1>3. frame' = [frame EXCEPT ![t] = f]
  OBVIOUS
<1> HIDE DEF f
<1> QED BY <1>1, <1>2, <1>3 DEF SameCall

(* Continue: it returns, waits without the lock, or performs the next effect. *)
LEMMA ContinueFrame ==
    ASSUME Shapes, NEW t \in Threads, NEW j \in JobIds, NEW e \in Seq(Effects), Continue(t, j, e)
    PROVE  Proceeds(t, j, e)
<1>1. /\ pc \in [Threads -> Labels] /\ serial \in [JobIds -> Threads \cup {NoThread}]
      /\ frame[t] \in Frames /\ frame[t].ok \in Labels /\ {"await", "perform"} \subseteq Labels
  BY DEF Shapes, Frames, Labels, ApplyLabels
<1>2. CASE e = << >> /\ Leave(j) /\ Return(t, frame[t].ok)
  <2>1. /\ pc' \in [Threads -> Labels] /\ frame' \in [Threads -> Frames] /\ pc'[t] = frame[t].ok
        /\ \A u \in Threads \ {t} : pc'[u] = pc[u] /\ frame'[u] = frame[u]
    BY <1>1, <1>2, ReturnFrame DEF Return
  <2>2. /\ serial' \in [JobIds -> Threads \cup {NoThread}]
        /\ \A x \in JobIds \ {j} : serial'[x] = serial[x]
    BY <1>1, <1>2 DEF Leave
  <2> QED BY <1>2, <2>1, <2>2 DEF Proceeds
<1>3. CASE /\ e # << >> /\ Head(e).op = "await_worker_release" /\ DropForAwait(t, j)
           /\ frame' = [frame EXCEPT ![t].eff = Tail(e)] /\ Goto(t, "await")
  <2>1. Tail(e) \in Seq(Effects)
    BY <1>3, TailFacts
  <2>2. /\ frame' \in [Threads -> Frames] /\ frame'[t].eff = Tail(e) /\ SameCall(t)
        /\ \A u \in Threads \ {t} : frame'[u] = frame[u]
    BY <1>3, <2>1, EffectsFrame
  <2>3. /\ pc' \in [Threads -> Labels] /\ pc'[t] = "await"
        /\ \A u \in Threads \ {t} : pc'[u] = pc[u]
    BY <1>1, <1>3 DEF Goto
  <2>4. /\ serial' \in [JobIds -> Threads \cup {NoThread}]
        /\ \A x \in JobIds \ {j} : serial'[x] = serial[x]
    BY <1>1, <1>3 DEF DropForAwait, Leave
  <2> QED BY <1>3, <2>2, <2>3, <2>4 DEF Proceeds
<1>4. CASE /\ e # << >> /\ Head(e).op # "await_worker_release" /\ Hold(t, j)
           /\ frame' = [frame EXCEPT ![t].eff = e] /\ Goto(t, "perform")
  <2>2. /\ frame' \in [Threads -> Frames] /\ frame'[t].eff = e /\ SameCall(t)
        /\ \A u \in Threads \ {t} : frame'[u] = frame[u]
    BY <1>4, EffectsFrame
  <2>3. /\ pc' \in [Threads -> Labels] /\ pc'[t] = "perform"
        /\ \A u \in Threads \ {t} : pc'[u] = pc[u]
    BY <1>1, <1>4 DEF Goto
  <2>4. /\ serial' \in [JobIds -> Threads \cup {NoThread}] /\ serial'[j] = t
        /\ \A x \in JobIds \ {j} : serial'[x] = serial[x]
    BY <1>1, <1>4 DEF Hold
  <2> QED BY <1>4, <2>2, <2>3, <2>4 DEF Proceeds
<1> QED BY <1>2, <1>3, <1>4 DEF Continue

(* A thread that goes on with a plan is as it should be. *)
LEMMA ProceedInv ==
    ASSUME CoordinatorInv, NEW t \in Threads, pc[t] \in {"lock"} \cup InSerial, SameClaims(t),
           NEW e \in Seq(Effects), Proceeds(t, job[t], e),
           Plan(Kind(t), e, mem'[job[t]].state, version'[job[t]]),
           t \in Clients /\ Kind(t) = "finalize_cancel" => mem'[job[t]].state \in Ending,
           t \in Clients /\ call[t] = "pause" =>
               (e # << >> /\ e[1].op = "set_desired") \/ rows'[job[t]].desired = "paused",
           t \in Clients /\ call[t] = "pause" => AwaitAhead(e) \/ HasWaited(t)
    PROVE  ThreadInv(t)' /\ MovesFairly(t)
<1>0. /\ ThreadInv(t) /\ job[t] \in JobIds /\ pc[t] \in ApplyLabels \ {"mint", "read"}
      /\ (t \in Workers => Owning(t)) /\ (t \in Workers => t \notin Clients)
      /\ Kind(t) \in {"pause", "cancel", "finalize_cancel", "resume"} => t \in Clients
  <2>1. pc[t] \in ApplyLabels \ {"mint", "read"}
    BY DEF InSerial, ApplyLabels
  <2> QED BY <2>1, ApplyFacts, Roles
<1>c. t \in Clients => /\ call[t] = "cancel" => Kind(t) \in {"cancel", "finalize_cancel"}
                       /\ call[t] = "pause" => Kind(t) = "pause"
                       /\ frame[t].ok = (IF Kind(t) = "cancel" THEN "finalize" ELSE "acked")
  BY <1>0 DEF ThreadInv, Role, ClientRole
<1>1. CASE e = << >> /\ pc'[t] = frame[t].ok
  <2>1. Kind(t) # "cancel" /\ (Kind(t) = "finalize_cancel" => mem'[job[t]].state = "cancelled") /\ ~AwaitAhead(e)
    BY <1>1 DEF Plan, Leads, AwaitAhead
  <2>2. t \in Clients => pc'[t] = "acked"
    BY <1>1, <1>c, <2>1
  <2>3. /\ ThreadInv(t)' /\ (t \in Workers => pc'[t] \notin TransferLabels)
    BY <1>0, <1>1, <1>c, <2>1, <2>2, LeavesApply
  <2>4. MovesFairly(t)
    <3>1. t \in Clients => ~Finalizes(t)'
      BY <2>2 DEF Finalizes, ApplyLabels
    <3>2. t \in Clients /\ HasWaited(t)' => HasWaited(t)
      BY <2>1 DEF HasWaited, SameClaims
    <3> QED BY <1>0, <2>3, <3>1, <3>2, OwningLabels DEF MovesFairly, SameClaims
  <2> QED BY <2>3, <2>4
<1>2. CASE /\ e # << >> /\ Head(e).op = "await_worker_release" /\ pc'[t] = "await"
           /\ frame'[t].eff = Tail(e) /\ SameCall(t)
  <2>1. /\ Placed(t)' /\ Role(t)' /\ Reports(t)' /\ Kind(t)' = Kind(t)
        /\ t \in Workers => Owns(t)'
    BY <1>0, <1>2, StaysApplying DEF ApplyLabels
  <2>2. /\ Len(e) \in Nat /\ Len(e) >= 1 /\ e[1].op = "await_worker_release" /\ 1 \in 1..Len(e)
        /\ Tail(e) \in Seq(Effects) /\ Len(Tail(e)) = Len(e) - 1
        /\ \A i \in 1..Len(Tail(e)) : Tail(e)[i] = e[i + 1] /\ i + 1 \in 1..Len(e)
    BY <1>2, TailFacts, SMTT(40)
  <2>3. /\ Kind(t) \in {"pause", "cancel"} /\ (Kind(t) = "cancel" => 1 = Len(e))
        /\ \A m \in (1 + 1)..Len(e) : e[m].op = "clear_interrupt"
    BY <2>2 DEF Plan, Ordered
  <2>4. t \in Clients /\ t \notin Workers
    BY <1>0, <2>3
  <2>5. Held(t)'
    BY <1>2 DEF Held, InSerial
  <2>6. Waits(t)'
    <3>0. \A f \in Seq(Effects) : Len(f) = 0 => f = << >>
      OBVIOUS
    <3>1. Kind(t) = "cancel" => Tail(e) = << >>
      <4>a. PICK n, m : n \in Nat /\ n = Len(e) /\ m = Len(Tail(e)) /\ m = n - 1
        BY <2>2
      <4>b. Kind(t) = "cancel" => n = 1
        BY <2>3, <4>a, Zenon
      <4>c. n = 1 => m = 0
        BY ONLY <4>a
      <4>1. Kind(t) = "cancel" => Len(Tail(e)) = 0
        BY ONLY <4>a, <4>b, <4>c, Zenon
      <4>2. Tail(e) \in Seq(Effects)
        BY <2>2
      <4> QED BY ONLY <3>0, <4>1, <4>2, Zenon
    <3>2. ASSUME NEW i \in 1..Len(Tail(e))
          PROVE  Tail(e)[i].op = "clear_interrupt"
      <4>1. i + 1 \in (1 + 1)..Len(e) /\ Tail(e)[i] = e[i + 1]
        BY <2>2
      <4> QED BY <2>3, <4>1
    <3> QED BY <1>2, <2>1, <2>3, <3>1, <3>2 DEF Waits
  <2>7. Cancels(t)'
    <3>1. \A i \in 1..Len(e) : e[i].op # "commit"
      BY <2>2, <2>3
    <3>2. Kind(t) = "cancel" => mem'[job[t]].state = "cancelling"
      BY <3>1 DEF Plan, Leads
    <3> QED BY <1>2, <2>1, <2>3, <3>2 DEF Cancels, Finalizes, JobState, SameClaims, Ending
  <2>8. Pauses(t)'
    BY <1>2, <2>2, <2>4 DEF Pauses, HasPaused, SameClaims
  <2>9. MovesFairly(t)
    BY <1>2, <2>1, <2>3, <2>4 DEF MovesFairly, Finalizes, HasWaited, InSerial
  <2> QED BY <2>1, <2>4, <2>5, <2>6, <2>7, <2>8, <2>9 DEF ThreadInv
<1>3. CASE /\ e # << >> /\ Head(e).op # "await_worker_release" /\ pc'[t] = "perform"
           /\ frame'[t].eff = e /\ serial'[job[t]] = t /\ SameCall(t)
  <2>1. /\ Placed(t)' /\ Role(t)' /\ Reports(t)' /\ Kind(t)' = Kind(t)
        /\ t \in Workers => Owns(t)'
    BY <1>0, <1>3, StaysApplying DEF ApplyLabels
  <2>2. Held(t)'
    BY <1>3, <2>1 DEF Held, JobState, SameClaims
  <2>3. Waits(t)'
    BY <1>3 DEF Waits
  <2>4. t \in Clients => Cancels(t)'
    BY <1>3, <2>1 DEF Cancels, Finalizes, JobState, SameClaims
  <2>5. t \in Clients => Pauses(t)'
    BY <1>3 DEF Pauses, HasPaused, IntentAhead, SameClaims
  <2>6. MovesFairly(t)
    <3>1. t \in Clients /\ Finalizes(t)' => Finalizes(t)
      BY <1>0, <1>3, <2>1 DEF Finalizes
    <3>2. t \in Clients /\ HasWaited(t)' => HasWaited(t)
      BY <1>3 DEF HasWaited, SameClaims
    <3>3. pc'[t] \notin TransferLabels
      BY <1>3 DEF TransferLabels
    <3> QED BY <1>0, <3>1, <3>2, <3>3, OwningLabels DEF MovesFairly, SameClaims
  <2> QED BY <2>1, <2>2, <2>3, <2>4, <2>5, <2>6 DEF ThreadInv
<1> QED BY <1>1, <1>2, <1>3 DEF Proceeds

(* A step of apply_checked that leaves the job's row and memory alone. *)
LEMMA ApplyQuiet ==
    ASSUME CoordinatorInv, NEW t \in Threads, pc[t] \in ApplyLabels,
           UNCHANGED <<rows, outbox, mem, version, active, leases, job, out, guard, call, resting>>,
           reason' \in [JobIds -> Reasons \cup {"none"}], device' = device, queue' \in Seq(JobIds),
           \A i \in 1..Len(queue') : mem[queue'[i]].state # "absent",
           pc' \in [Threads -> Labels], frame' \in [Threads -> Frames],
           serial' \in [JobIds -> Threads \cup {NoThread}],
           \A u \in Threads \ {t} : pc'[u] = pc[u] /\ frame'[u] = frame[u],
           \A x \in JobIds \ {job[t]} : serial'[x] = serial[x],
           serial[job[t]] \in {t, NoThread} \/ serial'[job[t]] = serial[job[t]],
           ThreadInv(t)', MovesFairly(t)
    PROVE  CoordinatorInv'
<1>1. Shapes'
  BY DEF CoordinatorInv, Shapes
<1>2. QueueInv'
  BY DEF QueueInv
<1>3. Alone(t)
  BY Roles DEF Alone
<1>4. \A j \in JobIds : serial[j] \notin {t, NoThread} => serial'[j] = serial[j]
  OBVIOUS
<1>5. \A u \in Workers : Owning(u) => active[job[u]]
  BY Roles DEF CoordinatorInv, ThreadInv, Owns
<1> QED BY <1>1, <1>2, <1>3, <1>4, <1>5, QuietStep

(* A step of apply_checked that goes on with effects e. *)
LEMMA ApplyProceeds ==
    ASSUME CoordinatorInv, NEW t \in Threads, pc[t] \in {"lock"} \cup InSerial,
           UNCHANGED <<rows, outbox, mem, version, active, leases, job, out, guard, call, resting>>,
           reason' \in [JobIds -> Reasons \cup {"none"}], device' = device, queue' \in Seq(JobIds),
           \A i \in 1..Len(queue') : mem[queue'[i]].state # "absent",
           NEW e \in Seq(Effects), Proceeds(t, job[t], e), Plan(Kind(t), e, JobState(t), version[job[t]]),
           serial[job[t]] \in {t, NoThread},
           t \in Clients /\ call[t] = "pause" =>
               (e # << >> /\ e[1].op = "set_desired") \/ rows[job[t]].desired = "paused",
           t \in Clients /\ call[t] = "pause" => AwaitAhead(e) \/ HasWaited(t)
    PROVE  CoordinatorInv'
<1>0. pc[t] \in ApplyLabels
  BY DEF InSerial, ApplyLabels
<1>1. SameClaims(t)
  BY <1>0, ApplyFacts DEF SameClaims
<1>2. t \in Clients /\ Kind(t) = "finalize_cancel" => mem[job[t]].state \in Ending
  BY <1>0, ApplyFacts DEF ThreadInv, Cancels, Finalizes, JobState
<1>3. ThreadInv(t)' /\ MovesFairly(t)
  BY <1>1, <1>2, ProceedInv DEF JobState
<1> QED BY <1>0, <1>3, ApplyQuiet DEF Proceeds

(* What the lock holder has left after its first effect, when that effect *)
(* writes nothing durable.                                                *)
LEMMA NextFacts ==
    ASSUME CoordinatorInv, NEW t \in Threads, pc[t] \in InSerial,
           Head(frame[t].eff).op \notin {"commit", "set_desired"}
    PROVE  LET e == Tail(frame[t].eff)
           IN  /\ e \in Seq(Effects) /\ Plan(Kind(t), e, JobState(t), version[job[t]])
               /\ serial[job[t]] = t /\ job[t] \in JobIds
               /\ t \in Clients /\ call[t] = "pause" => rows[job[t]].desired = "paused"
               /\ t \in Clients /\ call[t] = "pause" => AwaitAhead(e) \/ HasWaited(t)
<1> DEFINE g == frame[t].eff
           e == Tail(g)
<1>0. pc[t] \in ApplyLabels
  BY DEF InSerial, ApplyLabels
<1>1. /\ ThreadInv(t) /\ g \in Seq(Effects) /\ job[t] \in JobIds
  BY <1>0, ApplyFacts
<1>2. /\ serial[job[t]] = t /\ g # << >> /\ Head(g).op # "await_worker_release"
      /\ Plan(Kind(t), g, JobState(t), version[job[t]])
  BY <1>1 DEF ThreadInv, Held
<1>3. version[job[t]] \in Nat
  BY <1>1 DEF CoordinatorInv, Shapes
<1> HIDE DEF g
<1>4. /\ Len(g) \in Nat /\ Len(g) >= 1 /\ Head(g) = g[1] /\ e \in Seq(Effects) /\ Len(e) = Len(g) - 1
      /\ \A i \in 1..Len(e) : e[i] = g[i + 1] /\ i + 1 \in 1..Len(g)
  BY <1>1, <1>2, TailFacts
<1>5. Plan(Kind(t), e, JobState(t), version[job[t]])
  <2>1. Head(g).op \notin {"commit", "await_worker_release"}
    BY <1>2 DEF g
  <2> QED BY <1>1, <1>2, <1>3, <2>1, TailPlan
<1>6. AwaitAhead(g) => AwaitAhead(e)
  <2> SUFFICES ASSUME NEW i \in 1..Len(g), g[i].op = "await_worker_release"
               PROVE  \E m \in 1..Len(e) : e[m].op = "await_worker_release"
    BY DEF AwaitAhead
  <2>1. i # 1
    BY <1>2, <1>4
  <2>2. i - 1 \in 1..Len(e) /\ (i - 1) + 1 = i
    BY <1>4, <2>1
  <2>3. e[i - 1] = g[i]
    BY <1>4, <2>2
  <2> QED BY <2>2, <2>3
<1>7. ASSUME t \in Clients, call[t] = "pause"
      PROVE  rows[job[t]].desired = "paused" /\ (AwaitAhead(e) \/ HasWaited(t))
  <2>1. ~IntentAhead(t)
    BY <1>4 DEF IntentAhead, g
  <2>2. HasPaused(t)
    BY <1>7, <2>1 DEF HasPaused
  <2>3. rows[job[t]].desired = "paused"
    BY <1>1, <1>7, <2>2 DEF ThreadInv, Pauses
  <2>4. AwaitAhead(g) \/ HasWaited(t)
    BY <1>7 DEF HasWaited, g
  <2> QED BY <1>6, <2>3, <2>4
<1> QED BY <1>1, <1>2, <1>4, <1>5, <1>7 DEF g

(* The effects that write nothing durable. *)
LEMMA LightFrame ==
    ASSUME CoordinatorInv, NEW t \in Threads,
           RaiseFlag(t) \/ WipeReason(t) \/ PerformDispatch(t) \/ PerformRecordVersion(t)
    PROVE  /\ pc[t] \in InSerial /\ Head(frame[t].eff).op \notin {"commit", "set_desired"}
           /\ UNCHANGED <<rows, outbox, mem, version, active, leases, job, out, guard, call, resting, device>>
           /\ Proceeds(t, job[t], Tail(frame[t].eff))
<1> DEFINE e == Tail(frame[t].eff)
<1>0. /\ pc[t] \in InSerial
      /\ PerformDispatch(t) => Head(frame[t].eff).op = "dispatch"
      /\ PerformRecordVersion(t) => pc[t] = "perform" /\ Head(frame[t].eff).op = "record_device_version"
      /\ RaiseFlag(t) => pc[t] = "raise"
      /\ WipeReason(t) => pc[t] = "wipe"
  BY DEF RaiseFlag, WipeReason, PerformDispatch, PerformRecordVersion, At, InSerial
<1>1. Head(frame[t].eff).op \notin {"commit", "set_desired"}
  BY <1>0 DEF CoordinatorInv, ThreadInv, Held
<1>2. /\ e \in Seq(Effects) /\ Plan(Kind(t), e, JobState(t), version[job[t]])
      /\ serial[job[t]] = t /\ job[t] \in JobIds
      /\ t \in Clients /\ call[t] = "pause" => rows[job[t]].desired = "paused"
      /\ t \in Clients /\ call[t] = "pause" => AwaitAhead(e) \/ HasWaited(t)
  BY <1>0, <1>1, NextFacts
<1>s. /\ Shapes /\ QueueInv /\ reason \in [JobIds -> Reasons \cup {"none"}] /\ queue \in Seq(JobIds)
      /\ pc \in [Threads -> Labels] /\ serial \in [JobIds -> Threads \cup {NoThread}] /\ frame[t] \in Frames
      /\ mem[job[t]].state # "absent"
  BY <1>0, ApplyFacts, OwningLabels DEF CoordinatorInv, Shapes
<1>3. UNCHANGED <<rows, outbox, mem, version, active, leases, job, out, guard, call, resting, device>>
  BY DEF RaiseFlag, WipeReason, PerformDispatch, PerformRecordVersion, storeVars, workerVars, historyVars
<1>4. Proceeds(t, job[t], e)
  <2>1. CASE NextEffect(t)
    BY <1>s, <1>2, <2>1, ContinueFrame DEF NextEffect
  <2>2. CASE PerformRecordVersion(t)
    <3>0. pc[t] = "perform" /\ Kind(t) = "device_observed"
      <4>1. /\ Ordered(Kind(t), frame[t].eff, JobState(t)) /\ frame[t].eff \in Seq(Effects)
            /\ frame[t].eff # << >>
        BY <1>0, <2>2, ApplyFacts, OwningLabels DEF ThreadInv, Held, Plan
      <4>2. 1 \in 1..Len(frame[t].eff) /\ frame[t].eff[1].op = "record_device_version"
        BY <1>0, <2>2, <4>1, TailFacts
      <4> QED BY <1>0, <2>2, <4>1, <4>2 DEF Ordered
    <3>1. CASE /\ e = << >> /\ Leave(job[t]) /\ frame' = [frame EXCEPT ![t] = NoFrame]
               /\ Goto(t, frame[t].ok)
      <4>1. frame[t].ok \in Labels
        BY <1>s DEF Frames
      <4>2. /\ pc' \in [Threads -> Labels] /\ frame' \in [Threads -> Frames] /\ pc'[t] = frame[t].ok
            /\ \A u \in Threads \ {t} : pc'[u] = pc[u] /\ frame'[u] = frame[u]
        BY <1>s, <3>1, <4>1, ReturnFrame
      <4>3. /\ serial' \in [JobIds -> Threads \cup {NoThread}]
            /\ \A x \in JobIds \ {job[t]} : serial'[x] = serial[x]
        BY <1>s, <1>2, <3>1 DEF Leave
      <4> QED BY <3>1, <4>2, <4>3 DEF Proceeds
    <3>2. CASE e # << >> /\ frame' = [frame EXCEPT ![t].eff = e] /\ UNCHANGED <<serial, pc>>
      <4>1. /\ frame' \in [Threads -> Frames] /\ frame'[t].eff = e /\ SameCall(t)
            /\ \A u \in Threads \ {t} : frame'[u] = frame[u]
        BY <1>s, <1>2, <3>2, EffectsFrame
      <4>2. Head(e).op # "await_worker_release"
        <5>1. 1 \in 1..Len(e) /\ Head(e) = e[1]
          BY <1>2, <3>2, TailFacts
        <5> QED BY <1>2, <3>0, <5>1 DEF Plan, Ordered
      <4> QED BY <1>s, <1>2, <3>0, <3>2, <4>1, <4>2 DEF Proceeds
    <3> QED BY <2>2, <3>1, <3>2 DEF PerformRecordVersion
  <2> QED BY <2>1, <2>2 DEF RaiseFlag, WipeReason, PerformDispatch
<1> QED BY <1>0, <1>1, <1>3, <1>4

(* They keep the invariant. *)
LEMMA LightEffects ==
    ASSUME CoordinatorInv, NEW t \in Threads,
           RaiseFlag(t) \/ WipeReason(t) \/ PerformDispatch(t) \/ PerformRecordVersion(t)
    PROVE  CoordinatorInv'
<1> DEFINE e == Tail(frame[t].eff)
<1>0. /\ pc[t] \in InSerial /\ Head(frame[t].eff).op \notin {"commit", "set_desired"}
      /\ UNCHANGED <<rows, outbox, mem, version, active, leases, job, out, guard, call, resting, device>>
      /\ Proceeds(t, job[t], e)
  BY LightFrame
<1>2. /\ e \in Seq(Effects) /\ Plan(Kind(t), e, JobState(t), version[job[t]])
      /\ serial[job[t]] = t /\ job[t] \in JobIds
      /\ t \in Clients /\ call[t] = "pause" => rows[job[t]].desired = "paused"
      /\ t \in Clients /\ call[t] = "pause" => AwaitAhead(e) \/ HasWaited(t)
  BY <1>0, NextFacts
<1>s. /\ Shapes /\ QueueInv /\ reason \in [JobIds -> Reasons \cup {"none"}] /\ queue \in Seq(JobIds)
      /\ mem[job[t]].state # "absent"
  BY <1>0, ApplyFacts, OwningLabels DEF CoordinatorInv, Shapes
<1>4. reason' \in [JobIds -> Reasons \cup {"none"}]
  BY <1>s, <1>2 DEF RaiseFlag, WipeReason, PerformDispatch, PerformRecordVersion
<1>5. queue' \in Seq(JobIds) /\ \A i \in 1..Len(queue') : mem[queue'[i]].state # "absent"
  <2>1. queue' = queue \/ queue' = schedule(job[t])
    BY DEF RaiseFlag, WipeReason, PerformDispatch, PerformRecordVersion
  <2>2. CASE queue' = queue
    BY <1>s, <2>2 DEF QueueInv
  <2>3. CASE queue' = schedule(job[t])
    BY <1>s, <1>2, <2>3, ScheduleFacts
  <2> QED BY <2>1, <2>2, <2>3
<1> QED BY <1>0, <1>2, <1>4, <1>5, ApplyProceeds

(* The device is read before the lock is taken. *)
LEMMA ReadingSteps ==
    ASSUME CoordinatorInv, NEW t \in Threads, MintVersion(t) \/ ReadDevice(t)
    PROVE  CoordinatorInv'
<1>0. pc[t] \in {"mint", "read"} /\ pc[t] \in ApplyLabels
  BY DEF MintVersion, ReadDevice, ApplyLabels
<1>1. /\ ThreadInv(t) /\ job[t] \in JobIds /\ mem[job[t]].state # "absent" /\ frame[t] \in Frames
      /\ t \in Workers => Owning(t) /\ active[job[t]] /\ (guard[t] => leases[TargetOf[job[t]]] = job[t])
  BY <1>0, ApplyFacts
<1>2. t \notin Clients
  BY <1>0, <1>1 DEF ThreadInv, Role, ClientRole, ClientLabels
<1>s. /\ Shapes /\ QueueInv /\ reason \in [JobIds -> Reasons \cup {"none"}] /\ queue \in Seq(JobIds)
      /\ pc \in [Threads -> Labels] /\ serial \in [JobIds -> Threads \cup {NoThread}]
      /\ frame \in [Threads -> Frames] /\ device \in Readiness /\ {"read", "lock"} \subseteq Labels
      /\ \A i \in 1..Len(queue) : mem[queue[i]].state # "absent"
  BY DEF CoordinatorInv, Shapes, Labels, ApplyLabels, QueueInv
<1>3. UNCHANGED <<rows, outbox, mem, version, active, leases, job, out, guard, call, resting, device,
                  reason, queue, serial>>
  BY DEF MintVersion, ReadDevice, storeVars, memoryVars, observeVars, workerVars, historyVars
<1>4. /\ t \in Workers => /\ guard[t] /\ frame[t].err = "leave"
                          /\ \A r \in Readiness : frame[t].hint[r] \in WorkerReturns
                          /\ frame[t].ok \in WorkerReturns \cup {"idle"}
      /\ t \in Tickers => /\ frame[t].err = "idle" /\ frame[t].ok \in {"idle", "tick_schedule"}
                          /\ \A r \in Readiness : frame[t].hint[r] \in {"idle", "tick_schedule"}
  BY <1>0, <1>1 DEF ThreadInv, Role, WorkerRole, TickerRole
<1>5. CASE MintVersion(t)
  <2>1. pc' = [pc EXCEPT ![t] = "read"] /\ UNCHANGED frame
    BY <1>5 DEF MintVersion, Goto
  <2>2. /\ pc' \in [Threads -> Labels] /\ pc'[t] = "read" /\ frame' \in [Threads -> Frames]
        /\ \A u \in Threads \ {t} : pc'[u] = pc[u] /\ frame'[u] = frame[u]
    BY <1>s, <2>1
  <2>3. Placed(t)' /\ Held(t)' /\ Waits(t)'
    BY <1>1, <1>3, <2>2 DEF Placed, JobState, Held, Waits, InSerial
  <2>4. Reports(t)'
    BY <1>0, <1>1, <2>1 DEF ThreadInv, Reports, Kind
  <2>5. t \in Workers => WorkerRole(t)' /\ Owns(t)'
    <3>1. t \in Workers => WorkerRole(t)'
      BY <1>3, <1>4, <2>1, <2>2 DEF WorkerRole, ApplyLabels
    <3>2. t \in Workers => Owns(t)'
      BY <1>1, <1>3, <2>2 DEF Owns, Owning, TransferLabels
    <3> QED BY <3>1, <3>2
  <2>6. t \in Tickers => TickerRole(t)'
    BY <1>4, <2>1, <2>2 DEF TickerRole, ApplyLabels
  <2>7. ThreadInv(t)'
    BY <1>2, <2>3, <2>4, <2>5, <2>6 DEF ThreadInv, Role
  <2>8. MovesFairly(t)
    BY <1>1, <1>2, <1>3, <2>2, OwningLabels DEF MovesFairly, TransferLabels
  <2> QED BY <1>0, <1>s, <1>3, <2>2, <2>7, <2>8, ApplyQuiet
<1>6. CASE ReadDevice(t)
  <2> DEFINE cmd == DeviceObserved([version |-> 1, readiness |-> device])
             ok == frame[t].hint[device]
             f == [frame[t] EXCEPT !.cmd = cmd, !.ok = ok]
  <2>1. pc' = [pc EXCEPT ![t] = "lock"] /\ frame' = [frame EXCEPT ![t] = f]
    BY <1>6 DEF ReadDevice, Goto
  <2>2. cmd \in Commands /\ cmd.kind = "device_observed"
    BY <1>s, CommandShapes
  <2>3. /\ t \in Workers => ok \in WorkerReturns
        /\ t \in Tickers => ok \in {"idle", "tick_schedule"}
        /\ ok \in Labels
    BY <1>s, <1>1, <1>4 DEF Frames
  <2> HIDE DEF cmd, ok
  <2>4. f \in Frames /\ f.cmd = cmd /\ f.ok = ok /\ f.err = frame[t].err
    BY <1>1, <2>2, <2>3 DEF Frames
  <2> HIDE DEF f
  <2>5. /\ pc' \in [Threads -> Labels] /\ pc'[t] = "lock" /\ frame' \in [Threads -> Frames]
        /\ frame'[t].cmd.kind = "device_observed" /\ frame'[t].ok = ok /\ frame'[t].err = frame[t].err
        /\ \A u \in Threads \ {t} : pc'[u] = pc[u] /\ frame'[u] = frame[u]
    BY <1>s, <2>1, <2>2, <2>4
  <2>6. Placed(t)' /\ Held(t)' /\ Waits(t)' /\ Reports(t)'
    BY <1>1, <1>3, <2>5 DEF Placed, JobState, Held, Waits, InSerial, Reports, Kind
  <2>7. t \in Workers => WorkerRole(t)' /\ Owns(t)'
    <3>1. t \in Workers => WorkerRole(t)'
      BY <1>3, <1>4, <2>3, <2>5 DEF WorkerRole, ApplyLabels, Kind, WorkerKinds, WorkerReturns
    <3>2. t \in Workers => Owns(t)'
      BY <1>1, <1>3, <2>5 DEF Owns, Owning, TransferLabels
    <3> QED BY <3>1, <3>2
  <2>8. t \in Tickers => TickerRole(t)'
    BY <1>4, <2>3, <2>5 DEF TickerRole, ApplyLabels, Kind
  <2>9. ThreadInv(t)'
    BY <1>2, <2>6, <2>7, <2>8 DEF ThreadInv, Role
  <2>10. MovesFairly(t)
    BY <1>1, <1>2, <1>3, <2>5, OwningLabels DEF MovesFairly, TransferLabels
  <2> QED BY <1>0, <1>s, <1>3, <2>5, <2>9, <2>10, ApplyQuiet
<1> QED BY <1>5, <1>6

(* A pause sets its intent first and then waits. *)
LEMMA PauseDecision ==
    ASSUME NEW a, ~IsRejected(decide_pause(a))
    PROVE  LET e == decide_pause(a).effects
           IN  e # << >> /\ e[1].op = "set_desired" /\ AwaitAhead(e)
<1> DEFINE e == << SetDesiredRunState("paused"), RequestInterrupt("user_pause"),
                   AwaitWorkerRelease, ClearInterrupt >>
<1>1. decide_pause(a).effects = e
  BY DEF decide_pause, IsRejected, Rejected, Accepted
<1>2. e # << >> /\ Len(e) = 4 /\ e[1].op = "set_desired" /\ e[3].op = "await_worker_release"
  BY EffectFields
<1> HIDE DEF e
<1>3. AwaitAhead(e)
  <2>1. 3 \in 1..Len(e)
    BY <1>2
  <2> QED BY <1>2, <2>1 DEF AwaitAhead
<1> QED BY <1>1, <1>2, <1>3

(* The critical section is entered and the reducer decides. *)
LEMMA EnterStep ==
    ASSUME CoordinatorInv, NEW t \in Threads, EnterSerial(t)
    PROVE  CoordinatorInv'
<1> DEFINE a == Aggregate(t)
           d == decide(a, frame[t].cmd)
<1>0. pc[t] = "lock" /\ pc[t] \in ApplyLabels /\ serial[job[t]] = NoThread
  BY DEF EnterSerial, SerialFree, ApplyLabels
<1>1. /\ ThreadInv(t) /\ job[t] \in JobIds /\ mem[job[t]].state # "absent" /\ frame[t] \in Frames
      /\ Kind(t) \in WorkerKinds \cup ClientKinds
      /\ t \in Workers => Owning(t) /\ t \notin Clients
      /\ Kind(t) \in {"pause", "cancel", "finalize_cancel", "resume"} => t \in Clients
  BY <1>0, ApplyFacts, Roles
<1>s. /\ Shapes /\ QueueInv /\ reason \in [JobIds -> Reasons \cup {"none"}] /\ queue \in Seq(JobIds)
      /\ serial \in [JobIds -> Threads \cup {NoThread}]
      /\ mem[job[t]] \in Notes /\ version[job[t]] \in Nat
      /\ \A i \in 1..Len(queue) : mem[queue[i]].state # "absent"
  BY <1>1 DEF CoordinatorInv, Shapes, QueueInv
<1>3. UNCHANGED <<rows, outbox, mem, version, active, leases, job, out, guard, call, resting, device,
                  reason, queue>>
  BY DEF EnterSerial, storeVars, workerVars, historyVars
<1>4. CASE IsRejected(d) /\ Return(t, RefusedLabel(t, d)) /\ UNCHANGED serial
  <2>1. \/ RefusedLabel(t, d) = frame[t].err
        \/ /\ RefusedLabel(t, d) = "acked" /\ mem[job[t]].state = "cancelled"
           /\ Kind(t) \in {"cancel", "finalize_cancel"}
    BY DEF RefusedLabel, Kind
  <2>2. RefusedLabel(t, d) \in Labels
    BY <1>1, <2>1 DEF Frames, Labels, ClientLabels
  <2>3. /\ pc' \in [Threads -> Labels] /\ frame' \in [Threads -> Frames] /\ pc'[t] = RefusedLabel(t, d)
        /\ \A u \in Threads \ {t} : pc'[u] = pc[u] /\ frame'[u] = frame[u]
    BY <1>s, <1>4, <2>2, ReturnFrame DEF Return
  <2>4. SameClaims(t)
    BY <1>1, <1>3 DEF SameClaims
  <2>5. t \in Clients => /\ frame[t].err = "refused"
                         /\ call[t] = "pause" => Kind(t) = "pause"
    BY <1>0, <1>1 DEF ThreadInv, Role, ClientRole
  <2>6. /\ ThreadInv(t)' /\ (t \in Workers => pc'[t] \notin TransferLabels)
        /\ t \in Clients => pc'[t] \in {"finalize", "acked", "refused"}
    BY <1>0, <1>1, <1>3, <2>1, <2>3, <2>4, <2>5, LeavesApply
  <2>7. MovesFairly(t)
    <3>1. t \in Clients => ~Finalizes(t)' /\ ~HasWaited(t)'
      BY <1>3, <2>1, <2>3, <2>5 DEF Finalizes, HasWaited, ApplyLabels, InSerial
    <3> QED BY <1>1, <1>3, <2>6, <3>1, OwningLabels DEF MovesFairly
  <2> QED BY <1>0, <1>s, <1>3, <1>4, <2>3, <2>6, <2>7, ApplyQuiet
<1>5. CASE ~IsRejected(d) /\ Continue(t, job[t], d.effects)
  <2>1. a.state = JobState(t) /\ a.version = version[job[t]]
    BY DEF Aggregate, JobState
  <2>2. a.state \in States /\ a.version \in Nat
    BY <1>s, <1>1, <2>1 DEF Notes, JobState
  <2>3. frame[t].cmd \in Commands /\ frame[t].cmd.kind = Kind(t)
        /\ (Kind(t) = "stage" => frame[t].cmd.report \in StageReports)
    BY <1>0, <1>1 DEF Frames, Kind, ThreadInv, Reports
  <2>4. Kind(t) = "pause" => d = decide_pause(a)
    BY <2>3 DEF decide
  <2> HIDE DEF a
  <2>5. d.effects \in Seq(Effects) /\ Plan(Kind(t), d.effects, JobState(t), version[job[t]])
    BY <1>1, <1>5, <2>1, <2>2, <2>3, DecisionPlan
  <2>6. Kind(t) = "pause" => d.effects # << >> /\ d.effects[1].op = "set_desired" /\ AwaitAhead(d.effects)
    BY <1>5, <2>4, PauseDecision
  <2> HIDE DEF d
  <2>7. Proceeds(t, job[t], d.effects)
    BY <1>s, <1>1, <1>5, <2>5, ContinueFrame
  <2>8. t \in Clients /\ call[t] = "pause" => Kind(t) = "pause"
    BY <1>0, <1>1 DEF ThreadInv, Role, ClientRole
  <2> QED BY <1>0, <1>s, <1>3, <2>5, <2>6, <2>7, <2>8, ApplyProceeds
<1> QED BY <1>4, <1>5 DEF EnterSerial

(* The first half of raising and of clearing an interrupt. *)
LEMMA InterruptSteps ==
    ASSUME CoordinatorInv, NEW t \in Threads, PerformRequestInterrupt(t) \/ PerformClearInterrupt(t)
    PROVE  CoordinatorInv'
<1>0. /\ pc[t] = "perform" /\ pc[t] \in ApplyLabels \ {"mint", "read"}
      /\ Head(frame[t].eff).op \in {"request_interrupt", "clear_interrupt"}
      /\ PerformRequestInterrupt(t) => Head(frame[t].eff).op = "request_interrupt"
  BY DEF PerformRequestInterrupt, PerformClearInterrupt, At, ApplyLabels
<1>1. /\ ThreadInv(t) /\ job[t] \in JobIds /\ mem[job[t]].state # "absent" /\ frame[t].eff \in Seq(Effects)
      /\ t \in Workers => Owning(t)
      /\ t \in Workers => t \notin Clients
  BY <1>0, ApplyFacts, Roles
<1>s. /\ Shapes /\ QueueInv /\ reason \in [JobIds -> Reasons \cup {"none"}] /\ queue \in Seq(JobIds)
      /\ pc \in [Threads -> Labels] /\ serial \in [JobIds -> Threads \cup {NoThread}]
      /\ frame \in [Threads -> Frames] /\ {"raise", "wipe"} \subseteq Labels
      /\ \A i \in 1..Len(queue) : mem[queue[i]].state # "absent"
  BY DEF CoordinatorInv, Shapes, Labels, ApplyLabels, QueueInv
<1>3. UNCHANGED <<rows, outbox, mem, version, active, leases, job, out, guard, call, resting, device,
                  queue, serial, frame>>
  BY DEF PerformRequestInterrupt, PerformClearInterrupt, storeVars, observeVars, workerVars, historyVars
<1>4. reason' \in [JobIds -> Reasons \cup {"none"}]
  <2>1. CASE PerformRequestInterrupt(t)
    <3>1. frame[t].eff # << >> /\ Ordered(Kind(t), frame[t].eff, JobState(t))
      BY <1>0, <1>1 DEF ThreadInv, Held, Plan, InSerial
    <3>2. 1 \in 1..Len(frame[t].eff) /\ Head(frame[t].eff) = frame[t].eff[1]
      BY <1>1, <3>1, TailFacts
    <3>3. Head(frame[t].eff).arg \in Reasons
      BY <1>0, <2>1, <3>1, <3>2 DEF Ordered
    <3> QED BY <1>s, <2>1, <3>3 DEF PerformRequestInterrupt
  <2>2. CASE PerformClearInterrupt(t)
    BY <1>s, <2>2 DEF PerformClearInterrupt
  <2> QED BY <2>1, <2>2
<1>5. PICK L \in {"raise", "wipe"} : pc' = [pc EXCEPT ![t] = L]
  BY DEF PerformRequestInterrupt, PerformClearInterrupt, Goto
<1>6. /\ pc' \in [Threads -> Labels] /\ pc'[t] = L /\ frame' \in [Threads -> Frames]
      /\ pc'[t] \in InSerial /\ pc[t] \in InSerial
      /\ \A u \in Threads \ {t} : pc'[u] = pc[u] /\ frame'[u] = frame[u]
  BY <1>s, <1>0, <1>3, <1>5 DEF InSerial
<1>7. SameCall(t) /\ SameClaims(t)
  BY <1>1, <1>3 DEF SameCall, SameClaims
<1>8. /\ Placed(t)' /\ Role(t)' /\ Reports(t)' /\ Kind(t)' = Kind(t)
      /\ t \in Workers => Owns(t)'
  <2>1. pc'[t] \in ApplyLabels \ {"mint", "read"}
    BY <1>6 DEF InSerial, ApplyLabels
  <2> QED BY <1>0, <1>7, <2>1, StaysApplying
<1>9. Held(t)'
  <2>1. /\ serial[job[t]] = t /\ frame[t].eff # << >>
        /\ Plan(Kind(t), frame[t].eff, JobState(t), version[job[t]])
    BY <1>1, <1>6 DEF ThreadInv, Held
  <2>2. JobState(t)' = JobState(t)
    BY <1>3 DEF JobState
  <2> QED BY <1>0, <1>3, <1>8, <2>1, <2>2 DEF Held
<1>10. Waits(t)'
  BY <1>6 DEF Waits, InSerial
<1>11. t \in Clients => Cancels(t)'
  <2>1. t \in Clients => Cancels(t)
    BY <1>1 DEF ThreadInv
  <2>2. Finalizes(t)' => Finalizes(t)
    BY <1>0, <1>6, <1>8 DEF Finalizes, InSerial
  <2> QED BY <1>3, <1>6, <2>1, <2>2 DEF Cancels, InSerial, JobState
<1>12. t \in Clients => Pauses(t)'
  <2>1. HasPaused(t)' => HasPaused(t)
    BY <1>3, <1>6, OwningLabels DEF HasPaused, IntentAhead, InSerial
  <2> QED BY <1>1, <1>3, <2>1 DEF ThreadInv, Pauses
<1>13. ThreadInv(t)'
  BY <1>8, <1>9, <1>10, <1>11, <1>12 DEF ThreadInv
<1>14. MovesFairly(t)
  <2>1. t \in Clients => /\ Finalizes(t)' => Finalizes(t)
                         /\ HasWaited(t)' => HasWaited(t)
    BY <1>0, <1>3, <1>6, <1>8 DEF Finalizes, HasWaited, InSerial
  <2>2. pc'[t] \notin TransferLabels
    BY <1>6 DEF InSerial, TransferLabels
  <2> QED BY <1>1, <1>3, <2>1, <2>2, OwningLabels DEF MovesFairly
<1> QED BY <1>0, <1>s, <1>3, <1>4, <1>6, <1>13, <1>14, ApplyQuiet

(* A thread leaves with its error: an effect failed, or the wait timed out. *)
LEMMA ErrorSteps ==
    ASSUME CoordinatorInv, NEW t \in Threads, PerformFails(t) \/ AwaitTimeout(t)
    PROVE  CoordinatorInv'
<1>0. /\ pc[t] \in {"perform", "await"} /\ pc[t] \in ApplyLabels \ {"mint", "read"}
      /\ PerformFails(t) => pc[t] = "perform"
  BY DEF PerformFails, AwaitTimeout, At, ApplyLabels
<1>1. /\ ThreadInv(t) /\ job[t] \in JobIds /\ mem[job[t]].state # "absent" /\ frame[t] \in Frames
      /\ frame[t].err \in Labels
      /\ t \in Workers => Owning(t)
      /\ t \in Workers => t \notin Clients
  BY <1>0, ApplyFacts, Roles DEF Frames
<1>s. /\ Shapes /\ QueueInv /\ reason \in [JobIds -> Reasons \cup {"none"}] /\ queue \in Seq(JobIds)
      /\ serial \in [JobIds -> Threads \cup {NoThread}]
      /\ \A i \in 1..Len(queue) : mem[queue[i]].state # "absent"
  BY DEF CoordinatorInv, Shapes, QueueInv
<1>3. UNCHANGED <<rows, outbox, mem, version, active, leases, job, out, guard, call, resting, device,
                  reason, queue>>
  BY DEF PerformFails, AwaitTimeout, storeVars, memoryVars, workerVars, historyVars
<1>4. frame' = [frame EXCEPT ![t] = NoFrame] /\ Goto(t, frame[t].err)
  BY DEF PerformFails, AwaitTimeout, Abandon, Return
<1>5. /\ serial' \in [JobIds -> Threads \cup {NoThread}]
      /\ \A x \in JobIds \ {job[t]} : serial'[x] = serial[x]
      /\ serial[job[t]] = t \/ serial'[job[t]] = serial[job[t]]
  <2>1. CASE PerformFails(t)
    <3>1. serial[job[t]] = t /\ Leave(job[t])
      BY <1>0, <1>1, <2>1 DEF ThreadInv, Held, InSerial, PerformFails, Abandon
    <3> QED BY <1>s, <1>1, <3>1 DEF Leave
  <2>2. CASE AwaitTimeout(t)
    BY <1>s, <2>2 DEF AwaitTimeout, memoryVars
  <2> QED BY <2>1, <2>2
<1>6. /\ pc' \in [Threads -> Labels] /\ frame' \in [Threads -> Frames] /\ pc'[t] = frame[t].err
      /\ \A u \in Threads \ {t} : pc'[u] = pc[u] /\ frame'[u] = frame[u]
  BY <1>s, <1>1, <1>4, ReturnFrame
<1>7. SameClaims(t)
  BY <1>1, <1>3 DEF SameClaims
<1>8. t \in Clients => frame[t].err = "refused"
  BY <1>0, <1>1 DEF ThreadInv, Role, ClientRole
<1>9. /\ ThreadInv(t)' /\ (t \in Workers => pc'[t] \notin TransferLabels)
  BY <1>0, <1>6, <1>7, <1>8, LeavesApply
<1>10. MovesFairly(t)
  <2>1. t \in Clients => ~Finalizes(t)' /\ ~HasWaited(t)'
    BY <1>6, <1>8 DEF Finalizes, HasWaited, ApplyLabels, InSerial
  <2> QED BY <1>1, <1>3, <1>9, <2>1, OwningLabels DEF MovesFairly
<1> QED BY <1>0, <1>s, <1>3, <1>5, <1>6, <1>9, <1>10, ApplyQuiet

(* The wait for a worker ends, and the lock is taken again for what is left. *)
LEMMA AwaitSteps ==
    ASSUME CoordinatorInv, NEW t \in Threads, AwaitRelease(t) \/ EnterSerialAgain(t)
    PROVE  CoordinatorInv'
<1>0. /\ pc[t] \in {"await", "relock"} /\ pc[t] \in ApplyLabels \ {"mint", "read"}
      /\ AwaitRelease(t) => pc[t] = "await" /\ ~active[job[t]]
      /\ EnterSerialAgain(t) => pc[t] = "relock"
  BY DEF AwaitRelease, EnterSerialAgain, ApplyLabels
<1>1. /\ ThreadInv(t) /\ job[t] \in JobIds /\ mem[job[t]].state # "absent" /\ frame[t] \in Frames
      /\ frame[t].ok \in Labels /\ frame[t].eff \in Seq(Effects)
  BY <1>0, ApplyFacts DEF Frames
<1>2. /\ Kind(t) \in {"pause", "cancel"} /\ (pc[t] = "relock" => frame[t].eff # << >>)
      /\ (Kind(t) = "cancel" => frame[t].eff = << >>)
      /\ \A i \in 1..Len(frame[t].eff) : frame[t].eff[i].op = "clear_interrupt"
  BY <1>0, <1>1 DEF ThreadInv, Waits
<1>c. /\ t \in Clients /\ t \notin Workers /\ t \notin Tickers
      /\ frame[t].ok = (IF Kind(t) = "cancel" THEN "finalize" ELSE "acked")
      /\ call[t] = "cancel" <=> Kind(t) = "cancel"
      /\ Kind(t) = "cancel" => mem[job[t]].state \in Ending
      /\ call[t] = "pause" => rows[job[t]].desired = "paused" /\ Kind(t) = "pause"
  <2>1. t \in Clients /\ t \notin Workers /\ t \notin Tickers
    BY <1>0, <1>2, ApplyFacts, Roles
  <2>2. ClientRole(t) /\ Cancels(t) /\ Pauses(t)
    BY <1>1, <2>1 DEF ThreadInv, Role
  <2> QED BY <1>0, <1>2, <2>1, <2>2 DEF ClientRole, Cancels, Pauses, HasPaused, JobState
<1>s. /\ Shapes /\ QueueInv /\ reason \in [JobIds -> Reasons \cup {"none"}] /\ queue \in Seq(JobIds)
      /\ pc \in [Threads -> Labels] /\ serial \in [JobIds -> Threads \cup {NoThread}]
      /\ frame \in [Threads -> Frames] /\ {"relock", "perform"} \subseteq Labels
      /\ \A i \in 1..Len(queue) : mem[queue[i]].state # "absent"
  BY DEF CoordinatorInv, Shapes, Labels, ApplyLabels, QueueInv
<1>3. UNCHANGED <<rows, outbox, mem, version, active, leases, job, out, guard, call, resting, device,
                  reason, queue>>
  BY DEF AwaitRelease, Resume, EnterSerialAgain, storeVars, memoryVars, observeVars, workerVars, historyVars
<1>7. SameClaims(t)
  BY <1>1, <1>3 DEF SameClaims
<1>4. CASE AwaitRelease(t) /\ frame[t].eff = << >>
  <2>1. frame' = [frame EXCEPT ![t] = NoFrame] /\ Goto(t, frame[t].ok) /\ UNCHANGED serial
    BY <1>4 DEF AwaitRelease, Resume, Return, memoryVars
  <2>2. /\ pc' \in [Threads -> Labels] /\ frame' \in [Threads -> Frames] /\ pc'[t] = frame[t].ok
        /\ \A u \in Threads \ {t} : pc'[u] = pc[u] /\ frame'[u] = frame[u]
    BY <1>s, <1>1, <2>1, ReturnFrame
  <2>3. ThreadInv(t)'
    BY <1>0, <1>3, <1>7, <1>c, <2>2, LeavesApply
  <2>4. MovesFairly(t)
    BY <1>0, <1>3, <1>4, <1>c DEF MovesFairly
  <2> QED BY <1>0, <1>s, <1>3, <2>1, <2>2, <2>3, <2>4, ApplyQuiet
<1>5. CASE AwaitRelease(t) /\ frame[t].eff # << >>
  <2>1. UNCHANGED <<frame, serial>> /\ pc' = [pc EXCEPT ![t] = "relock"]
    BY <1>5 DEF AwaitRelease, Resume, Goto, memoryVars
  <2>2. /\ pc' \in [Threads -> Labels] /\ frame' \in [Threads -> Frames] /\ pc'[t] = "relock"
        /\ \A u \in Threads \ {t} : pc'[u] = pc[u] /\ frame'[u] = frame[u]
    BY <1>s, <2>1
  <2>3. /\ Placed(t)' /\ Role(t)' /\ Reports(t)' /\ Kind(t)' = Kind(t)
    BY <1>0, <1>7, <2>1, <2>2, StaysApplying DEF SameCall, ApplyLabels
  <2>4. Held(t)' /\ Waits(t)'
    BY <1>2, <1>5, <2>1, <2>2, <2>3 DEF Held, Waits, InSerial
  <2>5. Cancels(t)' /\ Pauses(t)'
    BY <1>2, <1>3, <1>5, <1>c, <2>2, <2>3 DEF Cancels, Pauses, Finalizes, HasPaused, JobState
  <2>6. ThreadInv(t)'
    BY <1>c, <2>3, <2>4, <2>5 DEF ThreadInv
  <2>7. MovesFairly(t)
    BY <1>0, <1>3, <1>5, <1>c DEF MovesFairly
  <2> QED BY <1>0, <1>s, <1>3, <2>1, <2>2, <2>6, <2>7, ApplyQuiet
<1>6. CASE EnterSerialAgain(t)
  <2>1. /\ UNCHANGED frame /\ pc' = [pc EXCEPT ![t] = "perform"]
        /\ serial' = [serial EXCEPT ![job[t]] = t] /\ serial[job[t]] = NoThread
    BY <1>6 DEF EnterSerialAgain, Goto, Hold, SerialFree
  <2>2. /\ pc' \in [Threads -> Labels] /\ frame' \in [Threads -> Frames] /\ pc'[t] = "perform"
        /\ serial' \in [JobIds -> Threads \cup {NoThread}] /\ serial'[job[t]] = t
        /\ \A x \in JobIds \ {job[t]} : serial'[x] = serial[x]
        /\ \A u \in Threads \ {t} : pc'[u] = pc[u] /\ frame'[u] = frame[u]
    BY <1>s, <1>1, <2>1
  <2>k. Kind(t) = "pause" /\ frame[t].eff # << >> /\ pc[t] = "relock"
    BY <1>0, <1>2, <1>6
  <2>3. /\ Placed(t)' /\ Role(t)' /\ Reports(t)' /\ Kind(t)' = Kind(t)
    BY <1>0, <1>7, <2>1, <2>2, StaysApplying DEF SameCall, ApplyLabels
  <2>4. Plan("pause", frame[t].eff, JobState(t), version[job[t]])
    BY <1>2 DEF Plan, Chain, Ordered, Leads
  <2>5. Head(frame[t].eff).op = "clear_interrupt"
    BY <1>1, <1>2, <2>k, TailFacts
  <2>6. Held(t)' /\ Waits(t)'
    BY <1>3, <2>1, <2>2, <2>3, <2>4, <2>5, <2>k DEF Held, Waits, JobState
  <2>7. Cancels(t)' /\ Pauses(t)'
    BY <1>3, <1>c, <2>2, <2>3, <2>k DEF Cancels, Pauses, Finalizes, HasPaused, JobState
  <2>8. ThreadInv(t)'
    BY <1>c, <2>3, <2>6, <2>7 DEF ThreadInv
  <2>9. MovesFairly(t)
    BY <1>3, <1>c, <2>2, <2>3, <2>k DEF MovesFairly, Finalizes, HasWaited
  <2> QED BY <1>0, <1>s, <1>3, <2>1, <2>2, <2>8, <2>9, ApplyQuiet
<1> QED BY <1>4, <1>5, <1>6

(* What a commit writes. *)
LEMMA CommitWrites ==
    ASSUME Shapes, NEW j \in JobIds, NEW v \in Nat, NEW to \in States, StoreCommit(j, v, to)
    PROVE  /\ rows' \in [JobIds -> JobRows]
           /\ outbox' \in [JobIds -> [outcome : Terminal \cup {"none"}, version : Nat, acked : BOOLEAN]]
           /\ rows[j].version = v /\ rows'[j].version = v + 1 /\ rows'[j].state = to
           /\ rows'[j].desired = rows[j].desired
           /\ \A x \in JobIds \ {j} : rows'[x] = rows[x]
<1>1. PICK n \in Nat : n = v + 1
  OBVIOUS
<1>2. rows[j].version = v /\ rows' = [rows EXCEPT ![j].state = to, ![j].version = n]
  BY <1>1 DEF StoreCommit, transition_job, complete_job
<1>s. /\ rows \in [JobIds -> JobRows] /\ rows[j] \in JobRows
      /\ outbox \in [JobIds -> [outcome : Terminal \cup {"none"}, version : Nat, acked : BOOLEAN]]
  BY DEF Shapes
<1> DEFINE r == [rows[j] EXCEPT !.state = to, !.version = n]
<1>3. r \in JobRows /\ r.state = to /\ r.version = n /\ r.desired = rows[j].desired
  BY <1>s DEF JobRows
<1>4. rows' = [rows EXCEPT ![j] = r]
  BY <1>2
<1> HIDE DEF r
<1>5. /\ rows' \in [JobIds -> JobRows] /\ rows'[j] = r /\ \A x \in JobIds \ {j} : rows'[x] = rows[x]
  BY <1>s, <1>3, <1>4
<1>6. outbox' \in [JobIds -> [outcome : Terminal \cup {"none"}, version : Nat, acked : BOOLEAN]]
  <2>1. CASE to \in Terminal
    <3>1. outbox' = [outbox EXCEPT ![j] = [outcome |-> to, version |-> n, acked |-> FALSE]]
      BY <1>1, <1>2, <2>1 DEF StoreCommit, complete_job, insert_outbox_row
    <3>2. [outcome |-> to, version |-> n, acked |-> FALSE]
             \in [outcome : Terminal \cup {"none"}, version : Nat, acked : BOOLEAN]
      BY <2>1
    <3> QED BY <1>s, <3>1, <3>2
  <2>2. CASE to \notin Terminal
    BY <1>s, <2>2 DEF StoreCommit, transition_job
  <2> QED BY <2>1, <2>2
<1> QED BY <1>1, <1>2, <1>3, <1>5, <1>6

(* Another thread that works on the job the lock holder writes. *)
LEMMA OtherWritten ==
    ASSUME CoordinatorInv, NEW t \in Threads, pc[t] \in InSerial, Alone(t), NEW u \in Threads, u # t,
           pc[u] # "idle", job[u] = job[t], UNCHANGED <<active, leases>>,
           mem'[job[t]].state # "absent",
           \/ mem'[job[t]].state = mem[job[t]].state
           \/ is_legal_transition(mem[job[t]].state, mem'[job[t]].state),
           u \in Workers /\ pc[u] \in TransferLabels =>
               mem'[job[t]].state \in {"transferring", "cancelling"},
           u \in Clients /\ HasPaused(u) => call'[u] = "overtaken" \/ rows'[job[t]].desired = "paused"
    PROVE  ThreadInv(u)'
<1>0. /\ ThreadInv(u) /\ pc'[u] = pc[u] /\ job'[u] = job[u] /\ frame'[u] = frame[u]
      /\ serial[job[t]] = t
  BY DEF CoordinatorInv, Alone, ThreadInv, Held
<1>1. u \in Workers => out'[u] = out[u] /\ guard'[u] = guard[u]
  BY DEF Alone
<1>2. u \in Clients => call'[u] = call[u] \/ (call[u] = "pause" /\ call'[u] = "overtaken")
  BY DEF Alone
<1>3. pc[u] \notin InSerial
  BY <1>0 DEF ThreadInv, Held
<1>4. Kind(u)' = Kind(u) /\ JobState(u)' = mem'[job[t]].state /\ JobState(u) = mem[job[t]].state
  BY <1>0 DEF Kind, JobState
<1>5. Placed(u)' /\ Reports(u)' /\ Waits(u)' /\ Held(u)'
  BY <1>0, <1>3, <1>4 DEF ThreadInv, Placed, Reports, Waits, Held
<1>6. Role(u)'
  <2>1. u \in Workers => WorkerRole(u)'
    BY <1>0, <1>1, <1>4 DEF ThreadInv, Role, WorkerRole
  <2>2. u \in Tickers => TickerRole(u)'
    BY <1>0, <1>4 DEF ThreadInv, Role, TickerRole
  <2>3. u \in Clients => ClientRole(u)'
    <3>1. u \in Clients => ClientRole(u)
      BY <1>0 DEF ThreadInv, Role
    <3> QED BY <1>0, <1>2, <1>4, <3>1 DEF ClientRole
  <2> QED BY <2>1, <2>2, <2>3 DEF Role
<1>7. u \in Workers => Owns(u)'
  BY <1>0, <1>1, <1>4 DEF ThreadInv, Owns, Owning
<1>8. u \in Clients => Cancels(u)'
  <2>1. u \in Clients => Cancels(u)
    BY <1>0 DEF ThreadInv
  <2>2. JobState(u) \in Ending => JobState(u)' \in Ending
    BY <1>4, EdgeFacts DEF Ending
  <2>3. JobState(u) = "cancelled" => JobState(u)' = "cancelled"
    BY <1>4, EdgeFacts, StateNames
  <2> QED BY <1>0, <1>2, <1>4, <2>1, <2>2, <2>3 DEF Cancels, Finalizes
<1>9. u \in Clients => Pauses(u)'
  <2>1. u \in Clients => Pauses(u)
    BY <1>0 DEF ThreadInv
  <2>2. u \in Clients /\ HasPaused(u)' => HasPaused(u) /\ call'[u] # "overtaken"
    BY <1>0, <1>2 DEF HasPaused, IntentAhead
  <2> QED BY <1>0, <2>1, <2>2 DEF Pauses
<1> QED BY <1>5, <1>6, <1>7, <1>8, <1>9 DEF ThreadInv

(* The wait of a plan is still ahead after its first effect, if that is not it. *)
LEMMA AwaitTail ==
    ASSUME NEW g \in Seq(Effects), g # << >>, Head(g).op # "await_worker_release", AwaitAhead(g)
    PROVE  AwaitAhead(Tail(g))
<1>1. /\ Len(g) \in Nat /\ Len(g) >= 1 /\ Head(g) = g[1] /\ Len(Tail(g)) = Len(g) - 1
      /\ \A i \in 1..Len(Tail(g)) : Tail(g)[i] = g[i + 1] /\ i + 1 \in 1..Len(g)
  BY TailFacts
<1>2. PICK i \in 1..Len(g) : g[i].op = "await_worker_release"
  BY DEF AwaitAhead
<1>3. i # 1
  BY <1>1, <1>2
<1>4. i - 1 \in 1..Len(Tail(g)) /\ (i - 1) + 1 = i
  BY <1>1, <1>3
<1>5. Tail(g)[i - 1] = g[i]
  BY <1>1, <1>4
<1> QED BY <1>2, <1>4, <1>5 DEF AwaitAhead

(* What a durable write leaves for the threads that do not hold the lock. *)
LEMMA WriteStep ==
    ASSUME CoordinatorInv, Shapes', NEW t \in Threads, pc[t] = "perform", Alone(t), MovesFairly(t), ThreadInv(t)',
           NEW j \in JobIds, j = job[t],
           UNCHANGED <<active, leases, queue>>,
           \A x \in JobIds \ {j} : /\ mem'[x] = mem[x] /\ version'[x] = version[x] /\ rows'[x] = rows[x]
                                        /\ serial'[x] = serial[x],
           mem'[j].state # "absent", Matches(j)',
           \/ mem'[j].state = mem[j].state
           \/ is_legal_transition(mem[j].state, mem'[j].state),
           \A u \in Workers \ {t} : pc[u] \in TransferLabels /\ job[u] = j =>
               mem'[j].state \in {"transferring", "cancelling"},
           \A u \in Clients \ {t} : HasPaused(u) /\ job[u] = j =>
               call'[u] = "overtaken" \/ rows'[j].desired = "paused",
           resting' \subseteq resting, j \in resting' => rows'[j].desired = "paused"
    PROVE  CoordinatorInv'
<1>0. pc[t] \in InSerial
  BY DEF InSerial
<1>1. ASSUME NEW u \in Threads, u # t
      PROVE  ThreadInv(u)'
  <2>1. CASE pc[u] # "idle" /\ job[u] = job[t]
    BY <1>0, <1>1, <2>1, OtherWritten
  <2>2. CASE ~(pc[u] # "idle" /\ job[u] = job[t])
    <3>1. pc[u] # "idle" => job[u] \in JobIds
      BY DEF CoordinatorInv, ThreadInv, Placed
    <3>2. u \in Workers /\ Owning(u) => active[job[u]]
      BY DEF CoordinatorInv, ThreadInv, Owns
    <3>3. Keep(u)
      BY <2>2, <3>1, <3>2 DEF Keep
    <3> QED BY <1>1, <3>3, OtherKept
  <2> QED BY <2>1, <2>2
<1>2. \A x \in JobIds : Matches(x)'
  <2>1. ASSUME NEW x \in JobIds, x # j
        PROVE  Matches(x)'
    BY <2>1 DEF CoordinatorInv, JobInv, Matches
  <2> QED BY <2>1
<1>3. ASSUME NEW x \in resting'
      PROVE  rows'[x].desired = "paused" /\ x \in resting
  <2>1. x \in resting /\ x \in JobIds /\ rows[x].desired = "paused"
    BY <1>3 DEF CoordinatorInv, JobInv, Shapes
  <2> QED BY <1>3, <2>1
<1>4. QueueInv'
  <2>1. ASSUME NEW i \in 1..Len(queue)
        PROVE  mem'[queue[i]].state # "absent"
    <3>1. mem[queue[i]].state # "absent"
      BY DEF CoordinatorInv, QueueInv
    <3>2. queue[i] \in JobIds
      BY DEF CoordinatorInv, Shapes
    <3> QED BY <3>1, <3>2
  <2> QED BY <2>1 DEF QueueInv
<1>5. \A u \in Threads : ThreadInv(u)'
  BY <1>1
<1> QED BY <1>2, <1>3, <1>4, <1>5, ActorStep

(* commit_transition. *)
LEMMA CommitStep ==
    ASSUME CoordinatorInv, NEW t \in Threads, PerformCommit(t)
    PROVE  /\ CoordinatorInv' /\ job[t] \in JobIds
           /\ is_legal_transition(rows[job[t]].state, Head(frame[t].eff).arg)
           /\ StoreCommit(job[t], Head(frame[t].eff).version, Head(frame[t].eff).arg)
           /\ rows[job[t]] \in JobRows /\ Head(frame[t].eff).version = rows[job[t]].version
<1>k. PICK j : j = job[t]
  OBVIOUS
<1> DEFINE g == frame[t].eff
           to == Head(g).arg
           v == Head(g).version
<1>0. pc[t] = "perform" /\ pc[t] \in InSerial /\ pc[t] \in ApplyLabels /\ Head(g).op = "commit"
  BY DEF PerformCommit, At, InSerial, ApplyLabels
<1>1. /\ ThreadInv(t) /\ j \in JobIds /\ mem[j].state # "absent" /\ g \in Seq(Effects)
      /\ (t \in Workers => Owning(t)) /\ (t \in Workers => t \notin Clients)
      /\ Kind(t) \in WorkerKinds \cup ClientKinds
  BY <1>k, <1>0, ApplyFacts, Roles
<1>2. /\ serial[j] = t /\ g # << >> /\ Plan(Kind(t), g, mem[j].state, version[j])
  BY <1>k, <1>0, <1>1 DEF ThreadInv, Held, JobState
<1>s. /\ Shapes /\ version \in [JobIds -> Nat] /\ version[j] \in Nat /\ mem \in [JobIds -> Notes]
      /\ mem[j] \in Notes /\ rows[j] \in JobRows
  BY <1>1 DEF CoordinatorInv, Shapes
<1>3. /\ StoreCommit(j, v, to) /\ version[j] = v
      /\ mem' = [mem EXCEPT ![j].state = to] /\ version' = [version EXCEPT ![j] = v + 1]
      /\ Continue(t, j, Tail(g))
  BY <1>k DEF PerformCommit, NextEffect
<1>4. UNCHANGED <<active, leases, queue, reason, device, job, out, guard, call, resting>>
  BY DEF PerformCommit, workerVars, historyVars
<1> HIDE DEF g
<1>5. /\ v = version[j] /\ is_legal_transition(mem[j].state, to)
      /\ Plan(Kind(t), Tail(g), to, version[j] + 1) /\ Tail(g) \in Seq(Effects)
      /\ Head(g) = g[1] /\ 1 \in 1..Len(g)
  BY <1>0, <1>1, <1>2, <1>s, TailCommit, TailFacts
<1>6. to \in States /\ to # "absent" /\ v \in Nat
  BY <1>5, <1>s, EdgeFacts
<1> HIDE DEF to, v
<1>7. /\ rows' \in [JobIds -> JobRows]
      /\ outbox' \in [JobIds -> [outcome : Terminal \cup {"none"}, version : Nat, acked : BOOLEAN]]
      /\ rows[j].version = v /\ rows'[j].version = v + 1 /\ rows'[j].state = to
      /\ rows'[j].desired = rows[j].desired
      /\ \A x \in JobIds \ {j} : rows'[x] = rows[x]
  BY <1>1, <1>3, <1>6, <1>s, CommitWrites
<1>8. /\ mem' \in [JobIds -> Notes] /\ mem'[j].state = to /\ mem'[j].desired = mem[j].desired
      /\ \A x \in JobIds \ {j} : mem'[x] = mem[x]
  <2> DEFINE m == [mem[j] EXCEPT !.state = to]
  <2>1. m \in Notes /\ m.state = to /\ m.desired = mem[j].desired
    BY <1>6, <1>s DEF Notes
  <2>2. mem' = [mem EXCEPT ![j] = m]
    BY <1>3
  <2> HIDE DEF m
  <2> QED BY <1>1, <1>s, <2>1, <2>2
<1>9. /\ version' \in [JobIds -> Nat] /\ version'[j] = v + 1
      /\ \A x \in JobIds \ {j} : version'[x] = version[x]
  BY <1>1, <1>3, <1>6, <1>s
<1>10. Proceeds(t, j, Tail(g))
  BY <1>1, <1>3, <1>5, <1>s, ContinueFrame
<1>11. Shapes'
  BY <1>4, <1>7, <1>8, <1>9, <1>10, <1>s DEF Shapes, Proceeds
<1>12. Alone(t)
  BY <1>4, <1>10, Roles DEF Alone, Proceeds
<1>13. SameClaims(t)
  BY <1>k, <1>4, <1>6, <1>8 DEF SameClaims
<1>14. t \in Clients => Kind(t) # "pause" /\ (call[t] = "pause" => Kind(t) = "pause")
  <2>1. Kind(t) # "pause"
    BY <1>0, <1>2, <1>5 DEF Plan, Leads
  <2> QED BY <1>0, <1>1, <2>1 DEF ThreadInv, Role, ClientRole
<1>15. t \in Clients /\ Kind(t) = "finalize_cancel" => mem[j].state \in Ending /\ to \in Ending
  <2>1. t \in Clients /\ Kind(t) = "finalize_cancel" => mem[j].state \in Ending
    BY <1>k, <1>0, <1>1 DEF ThreadInv, Cancels, Finalizes, JobState
  <2> QED BY <1>5, <2>1, EdgeFacts DEF Ending
<1>16. ThreadInv(t)' /\ MovesFairly(t)
  BY <1>k, <1>0, <1>5, <1>8, <1>9, <1>10, <1>13, <1>14, <1>15, ProceedInv
<1>17. ASSUME NEW u \in Workers \ {t}, pc[u] \in TransferLabels, job[u] = j
       PROVE  to \in {"transferring", "cancelling"}
  <2>1. u \in Threads /\ ThreadInv(u) /\ Owning(u)
    BY <1>17, Roles, OwningLabels DEF CoordinatorInv, Owning
  <2>2. mem[j].state \in {"transferring", "cancelling"}
    BY <1>17, <2>1 DEF ThreadInv, Owns, JobState
  <2>3. t \notin Workers
    <3>1. t \in Workers => Apart(t, u)
      BY <1>17 DEF CoordinatorInv
    <3> QED BY <1>k, <1>1, <1>17, <2>1, <3>1 DEF Apart
  <2>4. Kind(t) \notin {"device_observed", "resume"}
    <3>1. mem[j].state \notin Early
      BY <2>2, StateNames
    <3> QED BY <1>0, <1>2, <1>5, <3>1 DEF Plan, Leads
  <2>5. t \in Clients
    BY <1>0, <1>1, <2>3, <2>4, Roles, OwningLabels DEF ThreadInv, Role, TickerRole, InSerial
  <2>6. Kind(t) # "finalize_cancel"
    <3>1. Quiet(t, u)
      BY <1>17, <2>5 DEF CoordinatorInv
    <3> QED BY <1>k, <1>0, <1>17, <3>1 DEF Quiet, Finalizes
  <2>7. Kind(t) = "cancel"
    BY <1>0, <1>1, <1>14, <2>4, <2>5, <2>6 DEF ThreadInv, Role, ClientRole
  <2> QED BY <1>0, <1>2, <1>5, <2>7 DEF Plan, Leads, to
<1>m. Matches(j) 
  BY <1>1 DEF CoordinatorInv, JobInv, Matches
<1>18. Matches(j)'
  BY <1>1, <1>7, <1>8, <1>9, <1>m DEF Matches
<1>19. ASSUME NEW u \in Clients \ {t}, HasPaused(u), job[u] = j
       PROVE  rows[j].desired = "paused"
  BY <1>19, Roles DEF CoordinatorInv, ThreadInv, Pauses
<1>20. j \in resting => rows[j].desired = "paused"
  BY <1>1 DEF CoordinatorInv, JobInv
<1>21. CoordinatorInv'
  <2>1. \A x \in JobIds \ {j} : /\ mem'[x] = mem[x] /\ version'[x] = version[x] /\ rows'[x] = rows[x]
                                 /\ serial'[x] = serial[x]
    BY <1>7, <1>8, <1>9, <1>10 DEF Proceeds
  <2>2. mem'[j].state # "absent" /\ is_legal_transition(mem[j].state, mem'[j].state)
    BY <1>5, <1>6, <1>8
  <2>3. \A u \in Workers \ {t} : pc[u] \in TransferLabels /\ job[u] = j =>
            mem'[j].state \in {"transferring", "cancelling"}
    BY <1>8, <1>17
  <2>4. \A u \in Clients \ {t} : HasPaused(u) /\ job[u] = j => rows'[j].desired = "paused"
    BY <1>7, <1>19
  <2>5. resting' \subseteq resting /\ (j \in resting' => rows'[j].desired = "paused")
    BY <1>4, <1>7, <1>20
  <2> QED BY <1>k, <1>0, <1>1, <1>4, <1>11, <1>12, <1>16, <1>18, <2>1, <2>2, <2>3, <2>4, <2>5, WriteStep
<1>22. mem[j].state = rows[j].state
  BY <1>1, <1>m DEF Matches
<1> QED BY <1>k, <1>1, <1>3, <1>5, <1>7, <1>s, <1>21, <1>22 DEF to, v, g

(* set_desired_run_state. *)
LEMMA IntentStep ==
    ASSUME CoordinatorInv, NEW t \in Threads, PerformSetDesired(t)
    PROVE  /\ CoordinatorInv' /\ job[t] \in JobIds /\ rows[job[t]] \in JobRows
           /\ rows[job[t]].state \notin Terminal \cup {"absent"}
           /\ Head(frame[t].eff).arg \in RunIntents
<1>k. PICK j : j = job[t]
  OBVIOUS
<1> DEFINE g == frame[t].eff
           d == Head(g).arg
<1>0. pc[t] = "perform" /\ pc[t] \in InSerial /\ pc[t] \in ApplyLabels /\ Head(g).op = "set_desired"
  BY DEF PerformSetDesired, At, InSerial, ApplyLabels
<1>1. /\ ThreadInv(t) /\ j \in JobIds /\ mem[j].state # "absent" /\ g \in Seq(Effects)
      /\ (t \in Workers => Owning(t)) /\ (t \in Workers => t \notin Clients)
  BY <1>k, <1>0, ApplyFacts, Roles
<1>2. /\ serial[j] = t /\ g # << >> /\ Plan(Kind(t), g, mem[j].state, version[j])
  BY <1>k, <1>0, <1>1 DEF ThreadInv, Held, JobState
<1>s. /\ Shapes /\ version[j] \in Nat /\ mem \in [JobIds -> Notes] /\ mem[j] \in Notes
      /\ rows \in [JobIds -> JobRows] /\ rows[j] \in JobRows
      /\ call \in [Clients -> ClientKinds \cup {"none", "overtaken"}]
  BY <1>1 DEF CoordinatorInv, Shapes
<1>3. /\ rows' = [rows EXCEPT ![j].desired = d] /\ UNCHANGED outbox
      /\ mem' = [mem EXCEPT ![j].desired = d]
      /\ resting' = IF d = "run" THEN resting \ {j} ELSE resting
      /\ call' = IF d = "run" THEN [c \in Clients |-> Overtaken(c, j)] ELSE call
      /\ Continue(t, j, Tail(g))
  BY <1>k DEF PerformSetDesired, NextEffect, set_desired_run_state
<1>4. UNCHANGED <<version, active, leases, queue, reason, device, job, out, guard>>
  BY DEF PerformSetDesired, workerVars
<1> HIDE DEF g
<1>5. /\ Head(g) = g[1] /\ 1 \in 1..Len(g) /\ Tail(g) \in Seq(Effects)
      /\ Plan(Kind(t), Tail(g), mem[j].state, version[j])
  BY <1>0, <1>1, <1>2, <1>s, TailPlan, TailFacts
<1>6. /\ Kind(t) \in {"pause", "resume"} /\ d = (IF Kind(t) = "pause" THEN "paused" ELSE "run")
      /\ mem[j].state \notin Terminal /\ (Kind(t) = "pause" => AwaitAhead(g))
  BY <1>0, <1>2, <1>5 DEF Plan, Ordered
<1>7. d \in RunIntents
  BY <1>6 DEF RunIntents
<1> HIDE DEF d
<1>8. /\ rows' \in [JobIds -> JobRows] /\ rows'[j].desired = d /\ rows'[j].state = rows[j].state
      /\ rows'[j].version = rows[j].version /\ \A x \in JobIds \ {j} : rows'[x] = rows[x]
  <2> DEFINE r == [rows[j] EXCEPT !.desired = d]
  <2>1. r \in JobRows /\ r.desired = d /\ r.state = rows[j].state /\ r.version = rows[j].version
    BY <1>7, <1>s DEF JobRows
  <2>2. rows' = [rows EXCEPT ![j] = r]
    BY <1>3
  <2> HIDE DEF r
  <2> QED BY <1>1, <1>s, <2>1, <2>2
<1>9. /\ mem' \in [JobIds -> Notes] /\ mem'[j].state = mem[j].state /\ mem'[j].desired = d
      /\ \A x \in JobIds \ {j} : mem'[x] = mem[x]
  <2> DEFINE m == [mem[j] EXCEPT !.desired = d]
  <2>1. m \in Notes /\ m.desired = d /\ m.state = mem[j].state
    BY <1>7, <1>s DEF Notes
  <2>2. mem' = [mem EXCEPT ![j] = m]
    BY <1>3
  <2> HIDE DEF m
  <2> QED BY <1>1, <1>s, <2>1, <2>2
<1>10. Proceeds(t, j, Tail(g))
  BY <1>1, <1>3, <1>5, <1>s, ContinueFrame
<1>11. /\ call' \in [Clients -> ClientKinds \cup {"none", "overtaken"}]
       /\ \A c \in Clients : /\ call'[c] = call[c] \/ (call[c] = "pause" /\ call'[c] = "overtaken")
                             /\ d = "run" => call'[c] = Overtaken(c, j)
       /\ t \in Clients => call'[t] = call[t]
       /\ resting' \subseteq resting /\ (j \in resting' => d # "run")
  <2>1. \A c \in Clients : Overtaken(c, j) = call[c] \/ (call[c] = "pause" /\ Overtaken(c, j) = "overtaken")
    BY DEF Overtaken
  <2>2. t \in Clients => Overtaken(t, j) = call[t]
    BY <1>0 DEF Overtaken
  <2>3. CASE d = "run"
    BY <1>3, <1>s, <2>1, <2>2, <2>3
  <2>4. CASE d # "run"
    BY <1>3, <1>s, <2>4
  <2> QED BY <2>3, <2>4
<1>12. Shapes'
  BY <1>3, <1>4, <1>8, <1>9, <1>10, <1>11, <1>s DEF Shapes, Proceeds
<1>13. Alone(t)
  BY <1>4, <1>10, <1>11, Roles DEF Alone, Proceeds
<1>14. SameClaims(t)
  BY <1>k, <1>1, <1>4, <1>9, <1>11 DEF SameClaims
<1>15. t \in Clients /\ call[t] = "pause" => Kind(t) = "pause"
  BY <1>0, <1>1 DEF ThreadInv, Role, ClientRole
<1>16. Kind(t) = "pause" => AwaitAhead(Tail(g))
  BY <1>0, <1>1, <1>2, <1>6, AwaitTail
<1>17. ThreadInv(t)' /\ MovesFairly(t)
  <2>1. /\ Plan(Kind(t), Tail(g), mem'[j].state, version'[j]) /\ Kind(t) # "finalize_cancel"
        /\ t \in Clients /\ call[t] = "pause" => rows'[j].desired = "paused"
        /\ t \in Clients /\ call[t] = "pause" => AwaitAhead(Tail(g))
    BY <1>4, <1>5, <1>6, <1>8, <1>9, <1>15, <1>16
  <2> QED BY <1>k, <1>0, <1>5, <1>10, <1>14, <2>1, ProceedInv
<1>m. Matches(j)
  BY <1>1 DEF CoordinatorInv, JobInv, Matches
<1>18. Matches(j)'
  BY <1>1, <1>4, <1>8, <1>9, <1>m DEF Matches
<1>19. ASSUME NEW u \in Workers \ {t}, pc[u] \in TransferLabels, job[u] = j
       PROVE  mem[j].state \in {"transferring", "cancelling"}
  BY <1>19, Roles DEF CoordinatorInv, ThreadInv, Owns, JobState
<1>20. ASSUME NEW u \in Clients \ {t}, HasPaused(u), job[u] = j
       PROVE  call'[u] = "overtaken" \/ rows'[j].desired = "paused"
  <2>1. u \in Threads /\ ThreadInv(u) /\ pc[u] \notin InSerial
    <3>1. u \in Threads /\ ThreadInv(u)
      BY <1>20, Roles DEF CoordinatorInv
    <3> QED BY <1>2, <1>20, <3>1 DEF ThreadInv, Held
  <2>2. call[u] = "pause" /\ pc[u] \in {"await", "relock", "acked"}
    BY <1>20, <2>1 DEF HasPaused
  <2>3. Overtaken(u, j) = "overtaken"
    BY <1>20, <2>2 DEF Overtaken
  <2> QED BY <1>6, <1>8, <1>11, <1>20, <2>3
<1>21. CoordinatorInv'
  <2>1. \A x \in JobIds \ {j} : /\ mem'[x] = mem[x] /\ version'[x] = version[x] /\ rows'[x] = rows[x]
                                 /\ serial'[x] = serial[x]
    BY <1>4, <1>8, <1>9, <1>10 DEF Proceeds
  <2>2. mem'[j].state # "absent" /\ mem'[j].state = mem[j].state
    BY <1>1, <1>9
  <2>3. \A u \in Workers \ {t} : pc[u] \in TransferLabels /\ job[u] = j =>
            mem'[j].state \in {"transferring", "cancelling"}
    BY <1>9, <1>19
  <2>4. \A u \in Clients \ {t} : HasPaused(u) /\ job[u] = j =>
            call'[u] = "overtaken" \/ rows'[j].desired = "paused"
    BY <1>20
  <2>5. resting' \subseteq resting /\ (j \in resting' => rows'[j].desired = "paused")
    BY <1>6, <1>8, <1>11
  <2> QED BY <1>k, <1>0, <1>1, <1>4, <1>12, <1>13, <1>17, <1>18, <2>1, <2>2, <2>3, <2>4, <2>5, WriteStep
<1>22. mem[j].state = rows[j].state
  BY <1>1, <1>m DEF Matches
<1> QED BY <1>k, <1>1, <1>6, <1>7, <1>s, <1>21, <1>22 DEF d, g

(* Every step of apply_checked. *)
LEMMA ApplyStepInv ==
    ASSUME CoordinatorInv, NEW t \in Threads, ApplyStep(t)
    PROVE  CoordinatorInv'
  BY ReadingSteps, EnterStep, CommitStep, IntentStep, ErrorSteps, InterruptSteps, LightEffects, AwaitSteps
     DEF ApplyStep

-----------------------------------------------------------------------------
(* What the ready queue holds after a start. *)
LEMMA OffersAreJobs ==
    ASSUME NEW S \in SUBSET JobIds, NEW q \in OffersOf(S)
    PROVE  q \in Seq(JobIds) /\ \A i \in 1..Len(q) : q[i] \in S
<1>1. Cardinality(S) \in Nat
  BY CoordinatorConstants, FS_Subset, FS_CardinalityType
<1>2. PICK n \in Nat : q \in [1..n -> S]
  BY <1>1, CoordinatorConstants DEF OffersOf
<1>3. q \in Seq(S) /\ Len(q) = n
  BY <1>2
<1> QED BY <1>2, <1>3

(* Of threads that are all idle nothing is asked. *)
LEMMA IdleThreads ==
    ASSUME Shapes', \A t \in Threads : pc'[t] = "idle", \A w \in Workers : guard'[w] = FALSE
    PROVE  /\ \A t \in Threads : ThreadInv(t)'
           /\ \A v, w \in Workers : Apart(v, w)'
           /\ \A c \in Clients, w \in Workers : Quiet(c, w)'
<1>1. ASSUME NEW t \in Threads
      PROVE  ThreadInv(t)'
  <2>1. pc'[t] = "idle" /\ (t \in Workers => guard'[t] = FALSE)
    OBVIOUS
  <2>2. Placed(t)' /\ Reports(t)' /\ Held(t)' /\ Waits(t)'
    BY <2>1 DEF Placed, Reports, Held, Waits, ApplyLabels, InSerial
  <2>3. Role(t)'
    BY <2>1 DEF Role, WorkerRole, TickerRole, ClientRole, ApplyLabels
  <2>4. t \in Workers => Owns(t)'
    BY <2>1 DEF Owns, Owning, TransferLabels
  <2>5. t \in Clients => Cancels(t)' /\ Pauses(t)'
    BY <2>1 DEF Cancels, Pauses, HasPaused, Finalizes, ApplyLabels, InSerial
  <2> QED BY <2>2, <2>3, <2>4, <2>5 DEF ThreadInv
<1>2. \A w \in Workers : pc'[w] = "idle"
  BY Roles
<1>3. \A c \in Clients : pc'[c] = "idle"
  BY Roles
<1>4. \A v, w \in Workers : Apart(v, w)'
  BY <1>2 DEF Apart, Owning
<1>5. \A c \in Clients, w \in Workers : Quiet(c, w)'
  BY <1>2 DEF Quiet, TransferLabels, Reading
<1> QED BY <1>1, <1>4, <1>5

(* The process died and came back: the rows are as they were, the map is   *)
(* rebuilt from them and nobody is under way.                              *)
LEMMA RestartStep ==
    ASSUME CoordinatorInv, Restart
    PROVE  CoordinatorInv'
<1>1. /\ rows \in [JobIds -> JobRows] /\ resting \subseteq JobIds
      /\ rows' = rows /\ outbox' = outbox /\ device' = device /\ resting' = resting
  BY DEF CoordinatorInv, Shapes, Restart, storeVars
<1>2. ASSUME NEW j \in JobIds
      PROVE  /\ Rehydrated(j) \in Notes
             /\ Rehydrated(j).state # "absent" =>
                   Rehydrated(j).state = rows[j].state /\ Rehydrated(j).desired = rows[j].desired
             /\ Live(j) => Rehydrated(j).state # "absent"
             /\ rows[j].version \in Nat
  <2>1. rows[j] \in JobRows
    BY <1>1
  <2>2. rows[j].state \in States \cup {"absent"} /\ rows[j].desired \in RunIntents /\ rows[j].version \in Nat
    BY <2>1 DEF JobRows
  <2> QED BY <2>2 DEF Rehydrated, Notes, NoNote, RunIntents, Live, Present
<1>3. /\ mem' = [j \in JobIds |-> Rehydrated(j)] /\ version' = [j \in JobIds |-> rows[j].version]
  BY DEF Restart
<1>4. /\ mem' \in [JobIds -> Notes] /\ version' \in [JobIds -> Nat]
  BY <1>2, <1>3
<1>5. PICK S \in SUBSET JobIds : queue' \in OffersOf(S) /\ \A j \in S : Live(j)
  <2> DEFINE S == {j \in JobIds : Live(j) /\ rows[j].desired = "run"}
  <2>1. S \in SUBSET JobIds /\ queue' \in OffersOf(S) /\ \A j \in S : Live(j)
    BY DEF Restart
  <2> QED BY <2>1
<1>6. queue' \in Seq(JobIds) /\ \A i \in 1..Len(queue') : queue'[i] \in S
  BY <1>5, OffersAreJobs
<1>7. QueueInv'
  BY <1>6, <1>5, <1>2, <1>3 DEF QueueInv
<1>8. NoFrame \in Frames
  BY FrameShapes
<1>9. /\ serial' = [j \in JobIds |-> NoThread] /\ active' = [j \in JobIds |-> FALSE]
      /\ reason' = [j \in JobIds |-> "none"] /\ leases' = [x \in Targets |-> NoJob]
      /\ pc' = [t \in Threads |-> "idle"] /\ job' = [t \in Threads |-> NoJob]
      /\ frame' = [t \in Threads |-> NoFrame] /\ call' = [c \in Clients |-> "none"]
      /\ out' = [w \in Workers |-> "none"] /\ guard' = [w \in Workers |-> FALSE]
  BY DEF Restart, BecomeFresh
<1>10. /\ serial' \in [JobIds -> Threads \cup {NoThread}] /\ active' \in [JobIds -> BOOLEAN]
       /\ reason' \in [JobIds -> Reasons \cup {"none"}] /\ leases' \in [Targets -> JobIds \cup {NoJob}]
       /\ pc' \in [Threads -> Labels] /\ job' \in [Threads -> JobIds \cup {NoJob}]
       /\ frame' \in [Threads -> Frames] /\ call' \in [Clients -> ClientKinds \cup {"none", "overtaken"}]
       /\ out' \in [Workers -> Outs] /\ guard' \in [Workers -> BOOLEAN]
  BY <1>8, <1>9 DEF Labels, Outs
<1>11. Shapes'
  BY <1>1, <1>4, <1>6, <1>10 DEF CoordinatorInv, Shapes
<1>12. (\A t \in Threads : pc'[t] = "idle") /\ (\A w \in Workers : pc'[w] = "idle" /\ guard'[w] = FALSE)
  BY <1>9, Roles
<1>13. ASSUME NEW j \in JobIds
       PROVE  JobInv(j)'
  <2>1. mem'[j] = Rehydrated(j) /\ version'[j] = rows[j].version
    BY <1>3
  <2>2. j \in resting => rows[j].desired = "paused"
    BY DEF CoordinatorInv, JobInv
  <2> QED BY <1>1, <1>2, <1>12, <2>1, <2>2 DEF JobInv, Reading
<1> QED BY <1>7, <1>11, <1>12, <1>13, IdleThreads DEF CoordinatorInv

(* Every job has just been enqueued. *)
LEMMA InitInv ==
    ASSUME Init
    PROVE  /\ CoordinatorInv
           /\ \E S \in SUBSET JobIds :
                /\ \A j \in JobIds : /\ rows[j].state = (IF j \in S THEN "queued" ELSE "absent")
                                     /\ rows[j].version = (IF j \in S THEN 1 ELSE 0)
                                     /\ rows[j].desired = "run"
                /\ outbox = [j \in JobIds |-> NoOutcome]
<1> DEFINE S == budget.jobs
<1>1. S \in SUBSET JobIds
  BY CoordinatorConstants DEF Init
<1>2. PICK id \in Identities, d \in Digests :
         rows = [j \in JobIds |-> IF j \in S THEN NewRow(id, d) ELSE NoRow]
  BY DEF Init
<1>3. /\ outbox = [j \in JobIds |-> NoOutcome] /\ mem = [j \in JobIds |-> Rehydrated(j)]
      /\ version = [j \in JobIds |-> rows[j].version] /\ queue \in OffersOf(S)
      /\ device \in Readings /\ resting = {}
  BY DEF Init
<1> HIDE DEF S
<1>4. NewRow(id, d) \in JobRows /\ NoRow \in JobRows
  BY DEF NewRow, NoRow, JobRows, States, Parked, RunIntents, NoIdentity
<1>5. rows \in [JobIds -> JobRows] /\ outbox \in [JobIds -> [outcome : Terminal \cup {"none"}, version : Nat, acked : BOOLEAN]]
  BY <1>2, <1>3, <1>4 DEF NoOutcome
<1>6. ASSUME NEW j \in JobIds
      PROVE  /\ rows[j].state = (IF j \in S THEN "queued" ELSE "absent")
             /\ rows[j].version = (IF j \in S THEN 1 ELSE 0) /\ rows[j].desired = "run"
  BY <1>2 DEF NewRow, NoRow
<1>7. ASSUME NEW j \in JobIds
      PROVE  /\ mem[j] = [state |-> rows[j].state, desired |-> rows[j].desired] /\ mem[j] \in Notes
             /\ mem[j].state = rows[j].state /\ mem[j].desired = rows[j].desired
             /\ version[j] = rows[j].version /\ version[j] \in Nat
             /\ j \in S => mem[j].state # "absent"
  <2>1. mem[j] = Rehydrated(j) /\ version[j] = rows[j].version
    BY <1>3
  <2>2. CASE j \in S
    <3>1. Live(j)
      BY <1>6, <2>2 DEF Live, Present, IsTerminal, Terminal, Failures
    <3> QED BY <1>6, <2>1, <2>2, <3>1 DEF Rehydrated, Notes, RunIntents, States, Parked
  <2>3. CASE j \notin S
    BY <1>6, <2>1, <2>3 DEF Rehydrated, Live, Present, Notes, NoNote, RunIntents
  <2> QED BY <2>2, <2>3
<1>8. queue \in Seq(JobIds) /\ \A i \in 1..Len(queue) : queue[i] \in S
  BY <1>1, <1>3, OffersAreJobs
<1>9. QueueInv
  BY <1>1, <1>7, <1>8 DEF QueueInv
<1>10. mem \in [JobIds -> Notes] /\ version \in [JobIds -> Nat] /\ device \in Readiness
  <2>1. device \in Readiness
    BY <1>3, CoordinatorConstants
  <2>2. mem = [j \in JobIds |-> mem[j]] /\ version = [j \in JobIds |-> version[j]]
    BY <1>3
  <2> QED BY <1>7, <2>1, <2>2
<1>11. /\ serial = [j \in JobIds |-> NoThread] /\ active = [j \in JobIds |-> FALSE]
       /\ reason = [j \in JobIds |-> "none"] /\ leases = [x \in Targets |-> NoJob]
       /\ pc = [t \in Threads |-> "idle"] /\ job = [t \in Threads |-> NoJob]
       /\ frame = [t \in Threads |-> NoFrame] /\ call = [c \in Clients |-> "none"]
       /\ out = [w \in Workers |-> "none"] /\ guard = [w \in Workers |-> FALSE]
  BY DEF Init, FreshProcess
<1>12. /\ serial \in [JobIds -> Threads \cup {NoThread}] /\ active \in [JobIds -> BOOLEAN]
       /\ reason \in [JobIds -> Reasons \cup {"none"}] /\ leases \in [Targets -> JobIds \cup {NoJob}]
       /\ pc \in [Threads -> Labels] /\ job \in [Threads -> JobIds \cup {NoJob}]
       /\ frame \in [Threads -> Frames] /\ call \in [Clients -> ClientKinds \cup {"none", "overtaken"}]
       /\ out \in [Workers -> Outs] /\ guard \in [Workers -> BOOLEAN]
  BY <1>11, FrameShapes DEF Labels, Outs
<1>13. Shapes
  BY <1>3, <1>5, <1>8, <1>10, <1>12 DEF Shapes
<1>14. \A t \in Threads : pc[t] = "idle"
  BY <1>11
<1>15. \A w \in Workers : pc[w] = "idle" /\ guard[w] = FALSE
  BY <1>11, Roles
<1>16. ASSUME NEW t \in Threads
       PROVE  ThreadInv(t)
  <2>1. pc[t] = "idle" /\ (t \in Workers => guard[t] = FALSE)
    BY <1>14, <1>15
  <2>2. Placed(t) /\ Reports(t) /\ Held(t) /\ Waits(t)
    BY <2>1 DEF Placed, Reports, Held, Waits, ApplyLabels, InSerial
  <2>3. Role(t)
    BY <2>1 DEF Role, WorkerRole, TickerRole, ClientRole, ApplyLabels
  <2>4. t \in Workers => Owns(t)
    BY <2>1 DEF Owns, Owning, TransferLabels
  <2>5. t \in Clients => Cancels(t) /\ Pauses(t)
    BY <2>1 DEF Cancels, Pauses, HasPaused, Finalizes, ApplyLabels, InSerial
  <2> QED BY <2>2, <2>3, <2>4, <2>5 DEF ThreadInv
<1>17. \A v, w \in Workers : Apart(v, w)
  BY <1>15 DEF Apart, Owning
<1>18. \A c \in Clients, w \in Workers : Quiet(c, w)
  BY <1>15 DEF Quiet, TransferLabels, Reading
<1>19. \A j \in JobIds : JobInv(j)
  BY <1>3, <1>7 DEF JobInv
<1>20. CoordinatorInv
  BY <1>9, <1>13, <1>16, <1>17, <1>18, <1>19 DEF CoordinatorInv
<1> QED BY <1>1, <1>3, <1>6, <1>20

-----------------------------------------------------------------------------
(* Enqueue and retry, as long as no install is late: what a request took from   *)
(* the store is still what the row says when it is installed, because nobody    *)
(* writes the row of a job that is not in the map.                              *)
Requests == [at : RequestLabels, kind : {"none", "enqueue", "retry"}, job : JobIds \cup {NoJob},
             state : States \cup {"absent"}, desired : RunIntents, version : Nat]

Fresh(r) ==
    LET q == request[r]
    IN  /\ q.at # "idle" => q.job \in JobIds
        /\ q.at \in {"look", "install"} =>
              /\ q.state # "absent"
              /\ mem[q.job].state = "absent" =>
                    rows[q.job].state = q.state /\ rows[q.job].desired = q.desired /\ rows[q.job].version = q.version
        /\ q.at = "offer" => mem[q.job].state # "absent"

\* No intent was ever set for a job that has no row.
Blank(j) == rows[j].state = "absent" => rows[j].desired = "run"

RequestInv ==
    /\ request \in [Requesters -> Requests]
    /\ \A r \in Requesters : Fresh(r)
    /\ \A j \in JobIds : Blank(j)

\* The one way a row comes to be.
Creates(c) ==
    /\ rows[c].state = "absent" /\ outbox' = outbox
    /\ \E id \in Identities \cup {NoIdentity}, d \in Digests \cup {NoIdentity} :
          rows' = [rows EXCEPT ![c] = NewRow(id, d)]

(* A step that writes no row of a job in the map, or of one that has a row, *)
(* leaves the other requests fresh.                                         *)
LEMMA RequestsKept ==
    ASSUME RequestInv, request' \in [Requesters -> Requests],
           \A r \in Requesters : request'[r] = request[r] \/ Fresh(r)',
           \A j \in JobIds : mem'[j].state = "absent" =>
               mem[j].state = "absent" /\ (rows'[j] = rows[j] \/ rows[j].state = "absent"),
           \A j \in JobIds : Blank(j)'
    PROVE  RequestInv'
<1>1. ASSUME NEW r \in Requesters, request'[r] = request[r]
      PROVE  Fresh(r)'
  BY <1>1 DEF RequestInv, Fresh
<1> QED BY <1>1 DEF RequestInv

(* A step that installs or creates a job, and leaves the jobs in the map alone. *)
LEMMA NewJobStep ==
    ASSUME CoordinatorInv, Shapes', QueueInv',
           UNCHANGED <<serial, active, leases, pc, job, frame, out, guard, call, resting>>,
           \A j \in JobIds : mem[j].state # "absent" =>
               mem'[j] = mem[j] /\ version'[j] = version[j] /\ rows'[j] = rows[j],
           \A j \in JobIds : Matches(j)',
           \A j \in resting : rows'[j] = rows[j]
    PROVE  CoordinatorInv'
<1>1. Alone(NoThread) /\ MovesFairly(NoThread) /\ NoThread \notin Threads
  BY Roles DEF Alone, MovesFairly
<1>2. ASSUME NEW u \in Threads
      PROVE  ThreadInv(u)'
  <2>1. ThreadInv(u)
    BY DEF CoordinatorInv
  <2>2. pc[u] # "idle" => job[u] \in JobIds /\ mem[job[u]].state # "absent"
    BY <2>1 DEF ThreadInv, Placed, JobState
  <2>3. u \in Workers /\ Owning(u) => active[job[u]]
    BY <2>1 DEF ThreadInv, Owns
  <2>4. Keep(u)
    BY <2>2, <2>3 DEF Keep
  <2> QED BY <1>1, <2>4, OtherKept
<1>3. \A j \in resting' : rows'[j].desired = "paused" /\ j \in resting
  BY DEF CoordinatorInv, Shapes, JobInv
<1> QED BY <1>1, <1>2, <1>3, ActorStep

(* What a request takes from the store. *)
LEMMA TakeFacts ==
    ASSUME RequestInv, rows' \in [JobIds -> JobRows], NEW r \in Requesters, NEW j \in JobIds,
           NEW kind \in {"enqueue", "retry"}, NEW label \in {"look", "install"},
           Take(r, kind, j, label), rows'[j].state # "absent"
    PROVE  /\ request' \in [Requesters -> Requests]
           /\ \A x \in Requesters : request'[x] = request[x] \/ Fresh(x)'
<1> DEFINE q == [at |-> label, kind |-> kind, job |-> j, state |-> rows'[j].state,
                 desired |-> rows'[j].desired, version |-> rows'[j].version]
<1>1. rows'[j] \in JobRows
  OBVIOUS
<1>2. q \in Requests
  BY <1>1 DEF JobRows, Requests, RequestLabels
<1>3. request' = [request EXCEPT ![r] = q] /\ request \in [Requesters -> Requests]
  BY DEF Take, RequestInv
<1>4. /\ q.at \in {"look", "install"} /\ q.job = j /\ q.state = rows'[j].state
      /\ q.desired = rows'[j].desired /\ q.version = rows'[j].version
  OBVIOUS
<1> HIDE DEF q
<1>5. request' \in [Requesters -> Requests] /\ request'[r] = q /\ \A x \in Requesters : x # r => request'[x] = request[x]
  BY <1>2, <1>3
<1>6. Fresh(r)'
  BY <1>4, <1>5 DEF Fresh
<1> QED BY <1>5, <1>6

(* Where a request goes. *)
LEMMA GoFacts ==
    ASSUME RequestInv, NEW r \in Requesters, NEW label \in RequestLabels, RequestTo(r, label)
    PROVE  /\ request' \in [Requesters -> Requests]
           /\ \A x \in Requesters : x # r => request'[x] = request[x]
           /\ request'[r].at = label
           /\ label # "idle" => /\ request'[r].job = request[r].job /\ request'[r].state = request[r].state
                                /\ request'[r].desired = request[r].desired
                                /\ request'[r].version = request[r].version
           /\ label = "idle" => Fresh(r)'
<1>1. request[r] \in Requests /\ request \in [Requesters -> Requests]
  BY DEF RequestInv
<1>2. NoRequest \in Requests /\ NoRequest.at = "idle"
  BY DEF NoRequest, Requests, RequestLabels, RunIntents
<1>3. CASE label = "idle"
  <2>1. request' = [request EXCEPT ![r] = NoRequest]
    BY <1>3 DEF RequestTo
  <2>2. request'[r] = NoRequest
    BY <1>1, <2>1
  <2> QED BY <1>1, <1>2, <1>3, <2>1, <2>2 DEF Fresh
<1>4. CASE label # "idle"
  <2>1. request' = [request EXCEPT ![r] = [request[r] EXCEPT !.at = label]]
    BY <1>4 DEF RequestTo
  <2>2. [request[r] EXCEPT !.at = label] \in Requests
    BY <1>1 DEF Requests
  <2>3. request'[r] = [request[r] EXCEPT !.at = label]
    BY <1>1, <2>1
  <2>4. /\ request'[r].job = request[r].job /\ request'[r].state = request[r].state
        /\ request'[r].desired = request[r].desired /\ request'[r].version = request[r].version
        /\ request'[r].at = label
    BY <1>1, <2>3 DEF Requests
  <2> QED BY <1>1, <1>4, <2>1, <2>2, <2>4
<1> QED BY <1>3, <1>4

(* A request that only moves. *)
LEMMA RequestStill ==
    ASSUME CoordinatorInv, RequestInv, request' \in [Requesters -> Requests],
           \A x \in Requesters : request'[x] = request[x] \/ Fresh(x)',
           UNCHANGED <<rows, outbox, mem, version, queue>>, RequestSteady
    PROVE  CoordinatorInv' /\ RequestInv'
<1>1. UNCHANGED <<rows, outbox, mem, version, serial, active, leases, pc, job, frame, out, guard, call, resting,
                  reason, queue, device>>
  BY DEF RequestSteady, observeVars, workerVars
<1>2. Shapes' /\ QueueInv'
  BY <1>1 DEF CoordinatorInv, Shapes, QueueInv
<1>3. CoordinatorInv'
  BY <1>1, <1>2, StillStep
<1>4. \A j \in JobIds : Blank(j)'
  BY DEF RequestInv, Blank
<1> QED BY <1>3, <1>4, RequestsKept

(* A request that writes a row. *)
LEMMA RequestCreates ==
    ASSUME CoordinatorInv, RequestInv, NEW r \in Requesters, NEW c \in JobIds, Creates(c),
           NEW kind \in {"enqueue", "retry"}, NEW label \in {"look", "install"},
           Take(r, kind, c, label), UNCHANGED <<mem, version, queue>>, RequestSteady
    PROVE  CoordinatorInv' /\ RequestInv'
<1>1. UNCHANGED <<outbox, mem, version, serial, active, leases, pc, job, frame, out, guard, call, resting,
                  reason, queue, device>>
  BY DEF RequestSteady, observeVars, workerVars, Creates
<1>2. PICK id \in Identities \cup {NoIdentity}, d \in Digests \cup {NoIdentity} :
         rows' = [rows EXCEPT ![c] = NewRow(id, d)]
  BY DEF Creates
<1>3. NewRow(id, d) \in JobRows /\ NewRow(id, d).state = "queued"
  BY DEF NewRow, JobRows, States, Parked, RunIntents
<1>4. rows \in [JobIds -> JobRows] /\ rows[c].state = "absent" /\ Shapes /\ QueueInv
  BY DEF CoordinatorInv, Shapes, Creates
<1>5. /\ rows' \in [JobIds -> JobRows] /\ rows'[c].state = "queued"
      /\ \A j \in JobIds : j # c => rows'[j] = rows[j]
  BY <1>2, <1>3, <1>4
<1>6. mem[c].state = "absent" /\ c \notin resting
  BY <1>4 DEF CoordinatorInv, JobInv, RequestInv, Blank
<1>7. Shapes' /\ QueueInv'
  BY <1>1, <1>4, <1>5 DEF Shapes, QueueInv
<1>8. \A j \in JobIds : Matches(j)'
  BY <1>1, <1>5, <1>6 DEF CoordinatorInv, JobInv, Matches
<1>9. CoordinatorInv'
  <2>1. \A j \in resting : rows'[j] = rows[j]
    BY <1>4, <1>5, <1>6 DEF Shapes
  <2> QED BY <1>1, <1>5, <1>6, <1>7, <1>8, <2>1, NewJobStep
<1>10. \A j \in JobIds : Blank(j)'
  BY <1>5 DEF RequestInv, Blank
<1>11. rows'[c].state # "absent"
  BY <1>5
<1>12. /\ request' \in [Requesters -> Requests]
       /\ \A x \in Requesters : request'[x] = request[x] \/ Fresh(x)'
  BY <1>5, <1>11, TakeFacts
<1> QED BY <1>1, <1>4, <1>5, <1>9, <1>10, <1>12, RequestsKept

(* Only a new job's row is written, and only by create_job and spawn_retry_job. *)
LEMMA RequestRows ==
    ASSUME CoordinatorInv, RequestInv, NEW r \in Requesters, RequesterStep(r)
    PROVE  UNCHANGED <<rows, outbox>> \/ \E c \in JobIds : Creates(c)
<1>1. ASSUME NEW j \in JobIds, NEW id \in Identities, NEW d \in Digests, create_job(j, id, d)
      PROVE  Creates(j)
  BY <1>1 DEF create_job, Creates, Present
<1>2. ASSUME NEW p, NEW c \in JobIds, spawn_retry_job(p, c), p \in JobIds
      PROVE  Creates(c)
  <2>1. rows[p] \in JobRows
    BY <1>2 DEF CoordinatorInv, Shapes
  <2>2. rows[p].identity \in Identities \cup {NoIdentity} /\ rows[p].digest \in Digests \cup {NoIdentity}
    BY <2>1 DEF JobRows
  <2> QED BY <1>2, <2>2 DEF spawn_retry_job, Creates, Present
<1>3. CASE Enqueue(r)
  BY <1>1, <1>3 DEF Enqueue, storeVars
<1>4. CASE Spawn(r)
  <2>1. request[r].job \in JobIds
    BY <1>4 DEF Spawn, Stands, RequestInv, Fresh
  <2> QED BY <1>2, <1>4, <2>1 DEF Spawn, storeVars
<1>5. CASE Retry(r) \/ Look(r) \/ Install(r) \/ Offer(r)
  BY <1>5 DEF Retry, Look, Install, Offer, storeVars
<1> QED BY <1>3, <1>4, <1>5 DEF RequesterStep

(* Every step of a requester, unless it installs late. *)
LEMMA RequesterStepInv ==
    ASSUME CoordinatorInv, RequestInv, NoLateInstall, NEW r \in Requesters, RequesterStep(r)
    PROVE  CoordinatorInv' /\ RequestInv'
<1>r. /\ request[r] \in Requests /\ request \in [Requesters -> Requests] /\ Fresh(r)
      /\ rows \in [JobIds -> JobRows] /\ mem \in [JobIds -> Notes] /\ Shapes /\ QueueInv
  BY DEF RequestInv, CoordinatorInv, Shapes
<1>1. ASSUME NEW j \in JobIds, rows[j].state # "absent", NEW kind \in {"enqueue", "retry"},
             Take(r, kind, j, "look"), UNCHANGED storeVars, UNCHANGED <<mem, version, queue>>, RequestSteady
      PROVE  CoordinatorInv' /\ RequestInv'
  <2>1. UNCHANGED <<rows, outbox, mem, version, queue>>
    BY <1>1 DEF storeVars
  <2>2. rows' \in [JobIds -> JobRows] /\ rows'[j].state # "absent" /\ "look" \in {"look", "install"}
    BY <1>1, <1>r, <2>1
  <2>3. /\ request' \in [Requesters -> Requests]
        /\ \A x \in Requesters : request'[x] = request[x] \/ Fresh(x)'
    BY <1>1, <2>2, TakeFacts
  <2> QED BY <1>1, <2>1, <2>3, RequestStill
<1>2. CASE Enqueue(r)
  <2>1. UNCHANGED <<mem, version, queue>> /\ RequestSteady
    BY <1>2 DEF Enqueue
  <2>2. ASSUME NEW j \in JobIds, NEW id \in Identities, NEW d \in Digests, create_job(j, id, d),
               Take(r, "enqueue", j, "install")
        PROVE  CoordinatorInv' /\ RequestInv'
    <3>1. Creates(j)
      BY <2>2 DEF create_job, Creates, Present
    <3> QED BY <2>1, <2>2, <3>1, RequestCreates
  <2>3. ASSUME NEW j \in JobIds, Newest(j), UNCHANGED storeVars, Take(r, "enqueue", j, "look")
        PROVE  CoordinatorInv' /\ RequestInv'
    <3>1. rows[j].state # "absent"
      BY <2>3 DEF Newest, Present
    <3> QED BY <1>1, <2>1, <2>3, <3>1
  <2> QED BY <1>2, <2>2, <2>3 DEF Enqueue
<1>3. CASE Retry(r)
  <2>1. UNCHANGED <<rows, outbox, mem, version, queue>> /\ RequestSteady
    BY <1>3 DEF Retry, storeVars
  <2>2. PICK p \in JobIds : request' = [request EXCEPT ![r] = [NoRequest EXCEPT !.at = "spawn", !.kind = "retry", !.job = p]]
    BY <1>3 DEF Retry
  <2> DEFINE q == [NoRequest EXCEPT !.at = "spawn", !.kind = "retry", !.job = p]
  <2>3. q \in Requests /\ q.at = "spawn" /\ q.job = p
    BY DEF NoRequest, Requests, RequestLabels, RunIntents
  <2>4. request' = [request EXCEPT ![r] = q]
    BY <2>2
  <2> HIDE DEF q
  <2>5. request' \in [Requesters -> Requests] /\ request'[r] = q /\ \A x \in Requesters : x # r => request'[x] = request[x]
    BY <1>r, <2>3, <2>4
  <2>6. Fresh(r)'
    BY <2>3, <2>5 DEF Fresh
  <2> QED BY <2>1, <2>5, <2>6, RequestStill
<1>4. CASE Spawn(r)
  <2>1. UNCHANGED <<mem, version, queue>> /\ RequestSteady /\ request[r].job \in JobIds
    BY <1>4, <1>r DEF Spawn, Stands, Fresh
  <2>2. CASE RequestTo(r, "idle") /\ UNCHANGED storeVars
    <3>1. UNCHANGED <<rows, outbox, mem, version, queue>> /\ "idle" \in RequestLabels
      BY <2>1, <2>2 DEF storeVars, RequestLabels
    <3>2. request' \in [Requesters -> Requests] /\ \A x \in Requesters : request'[x] = request[x] \/ Fresh(x)'
      BY <2>2, <3>1, GoFacts
    <3> QED BY <2>1, <3>1, <3>2, RequestStill
  <2>3. ASSUME NEW c \in JobIds, Live(c), UNCHANGED storeVars, Take(r, "retry", c, "look")
        PROVE  CoordinatorInv' /\ RequestInv'
    <3>1. rows[c].state # "absent"
      BY <2>3 DEF Live, Present
    <3> QED BY <1>1, <2>1, <2>3, <3>1
  <2>4. ASSUME NEW c \in JobIds, spawn_retry_job(request[r].job, c), Take(r, "retry", c, "look")
        PROVE  CoordinatorInv' /\ RequestInv'
    <3>1. rows[request[r].job] \in JobRows
      BY <1>r, <2>1
    <3>2. rows[request[r].job].identity \in Identities \cup {NoIdentity} /\ rows[request[r].job].digest \in Digests \cup {NoIdentity}
      BY <3>1 DEF JobRows
    <3>3. Creates(c)
      BY <2>4, <3>2 DEF spawn_retry_job, Creates, Present
    <3> QED BY <2>1, <2>4, <3>3, RequestCreates
  <2> QED BY <1>4, <2>2, <2>3, <2>4 DEF Spawn
<1>5. CASE Look(r)
  <2>1. UNCHANGED <<rows, outbox, mem, version, queue>> /\ RequestSteady /\ request[r].at = "look"
    BY <1>5 DEF Look, storeVars, Stands
  <2>2. PICK label \in {"install", "idle"} : RequestTo(r, label)
    BY <1>5 DEF Look
  <2>3. label \in RequestLabels
    BY DEF RequestLabels
  <2>4. Fresh(r)'
    <3>1. CASE label = "idle"
      BY <2>2, <2>3, <3>1, GoFacts
    <3>2. CASE label = "install"
      <4>1. /\ request'[r].at = "install" /\ request'[r].job = request[r].job /\ request'[r].state = request[r].state
            /\ request'[r].desired = request[r].desired /\ request'[r].version = request[r].version
        BY <2>2, <2>3, <3>2, GoFacts
      <4> QED BY <1>r, <2>1, <4>1 DEF Fresh
    <3> QED BY <3>1, <3>2
  <2>5. request' \in [Requesters -> Requests] /\ \A x \in Requesters : request'[x] = request[x] \/ Fresh(x)'
    BY <2>2, <2>3, <2>4, GoFacts
  <2> QED BY <2>1, <2>5, RequestStill
<1>6. CASE Install(r)
  <2>k. PICK j : j = request[r].job
    OBVIOUS
  <2>1. /\ j \in JobIds /\ mem[j].state = "absent" /\ request[r].state # "absent" /\ request[r].at = "install"
        /\ rows[j].state = request[r].state /\ rows[j].desired = request[r].desired
        /\ rows[j].version = request[r].version
    BY <1>6, <1>r, <2>k DEF Install, Stands, NoLateInstall, Fresh
  <2>2. /\ mem' = [mem EXCEPT ![j] = [state |-> request[r].state, desired |-> request[r].desired]]
        /\ version' = [version EXCEPT ![j] = request[r].version]
        /\ RequestTo(r, "offer") /\ UNCHANGED <<rows, outbox, queue>> /\ RequestSteady
    BY <1>6, <2>k, <2>1 DEF Install, storeVars
  <2>3. [state |-> request[r].state, desired |-> request[r].desired] \in Notes /\ request[r].version \in Nat
    BY <1>r DEF Requests, Notes
  <2>4. /\ mem' \in [JobIds -> Notes] /\ version' \in [JobIds -> Nat]
        /\ mem'[j].state = request[r].state /\ mem'[j].desired = request[r].desired /\ version'[j] = request[r].version
        /\ \A x \in JobIds : x # j => mem'[x] = mem[x] /\ version'[x] = version[x]
    BY <1>r, <2>1, <2>2, <2>3 DEF Shapes
  <2>5. UNCHANGED <<outbox, rows, serial, active, leases, pc, job, frame, out, guard, call, resting, reason, queue, device>>
    BY <2>2 DEF RequestSteady, observeVars, workerVars
  <2>6. Shapes'
    BY <1>r, <2>4, <2>5 DEF Shapes
  <2>7. QueueInv'
    <3>1. \A i \in 1..Len(queue) : queue[i] \in JobIds
      BY <1>r DEF Shapes
    <3> QED BY <1>r, <2>1, <2>4, <2>5, <3>1 DEF QueueInv
  <2>8. \A x \in JobIds : Matches(x)'
    BY <2>1, <2>4, <2>5 DEF CoordinatorInv, JobInv, Matches
  <2>9. CoordinatorInv'
    BY <2>1, <2>4, <2>5, <2>6, <2>7, <2>8, NewJobStep
  <2>10. "offer" \in RequestLabels
    BY DEF RequestLabels
  <2>11. /\ request' \in [Requesters -> Requests] /\ \A x \in Requesters : x # r => request'[x] = request[x]
         /\ request'[r].at = "offer" /\ request'[r].job = j
    BY <2>2, <2>10, <2>k, GoFacts
  <2>12. Fresh(r)'
    BY <2>1, <2>4, <2>11 DEF Fresh
  <2>13. \A x \in JobIds : Blank(x)'
    BY <2>5 DEF RequestInv, Blank
  <2>14. \A x \in JobIds : mem'[x].state = "absent" => mem[x].state = "absent" /\ rows'[x] = rows[x]
    BY <2>1, <2>4, <2>5
  <2> QED BY <2>9, <2>11, <2>12, <2>13, <2>14, RequestsKept
<1>7. CASE Offer(r)
  <2>k. PICK j : j = request[r].job
    OBVIOUS
  <2>1. j \in JobIds /\ mem[j].state # "absent"
    BY <1>7, <1>r, <2>k DEF Offer, Stands, Fresh
  <2>2. /\ queue' = schedule(j) \/ queue' = queue
        /\ RequestTo(r, "idle") /\ RequestSteady /\ UNCHANGED <<rows, outbox, mem, version>>
    BY <1>7, <2>k DEF Offer, storeVars
  <2>3. queue' \in Seq(JobIds) /\ \A i \in 1..Len(queue') : mem[queue'[i]].state # "absent"
    <3>1. queue \in Seq(JobIds) /\ \A i \in 1..Len(queue) : mem[queue[i]].state # "absent"
      BY <1>r DEF Shapes, QueueInv
    <3> QED BY <1>r, <2>1, <2>2, <3>1, ScheduleFacts
  <2>4. UNCHANGED <<rows, outbox, mem, version, serial, active, leases, pc, job, frame, out, guard, call, resting,
                    reason, device>>
    BY <2>2 DEF RequestSteady, observeVars, workerVars
  <2>5. Shapes' /\ QueueInv'
    BY <1>r, <2>3, <2>4 DEF Shapes, QueueInv
  <2>6. CoordinatorInv'
    BY <2>4, <2>5, StillStep
  <2>7. "idle" \in RequestLabels
    BY DEF RequestLabels
  <2>8. request' \in [Requesters -> Requests] /\ \A x \in Requesters : request'[x] = request[x] \/ Fresh(x)'
    BY <2>2, <2>7, GoFacts
  <2>9. \A x \in JobIds : Blank(x)'
    BY <2>4 DEF RequestInv, Blank
  <2> QED BY <2>4, <2>6, <2>8, <2>9, RequestsKept
<1> QED BY <1>2, <1>3, <1>4, <1>5, <1>6, <1>7 DEF RequesterStep

(* The app acknowledges an outcome. *)
LEMMA AcknowledgeStep ==
    ASSUME CoordinatorInv, RequestInv, NEW j \in JobIds, Acknowledge(j)
    PROVE  /\ CoordinatorInv' /\ RequestInv' /\ rows' = rows
           /\ \A x \in JobIds : outbox'[x].outcome = outbox[x].outcome /\ outbox'[x].version = outbox[x].version
<1>1. /\ outbox' = [outbox EXCEPT ![j].acked = TRUE] /\ UNCHANGED <<rows, mem, version, queue, request>> /\ RequestSteady
  BY DEF Acknowledge, acknowledge_completion
<1>2. outbox \in [JobIds -> [outcome : Terminal \cup {"none"}, version : Nat, acked : BOOLEAN]] /\ Shapes /\ QueueInv
  BY DEF CoordinatorInv, Shapes
<1>3. /\ outbox' \in [JobIds -> [outcome : Terminal \cup {"none"}, version : Nat, acked : BOOLEAN]]
      /\ \A x \in JobIds : outbox'[x].outcome = outbox[x].outcome /\ outbox'[x].version = outbox[x].version
  BY <1>1, <1>2
<1>4. UNCHANGED <<rows, mem, version, serial, active, leases, pc, job, frame, out, guard, call, resting,
                  reason, queue, device, request>>
  BY <1>1 DEF RequestSteady, observeVars, workerVars
<1>5. Shapes' /\ QueueInv'
  BY <1>2, <1>3, <1>4 DEF Shapes, QueueInv
<1>6. CoordinatorInv'
  BY <1>4, <1>5, StillStep
<1>7. RequestInv'
  BY <1>4 DEF RequestInv, Fresh, Blank
<1> QED BY <1>3, <1>4, <1>6, <1>7

(* Who writes a row, an outcome, the map or a request. *)
LEMMA OthersLeaveTheJobs ==
    ASSUME [Next]_vars
    PROVE  \/ \E t \in Threads : PerformCommit(t) \/ PerformSetDesired(t)
           \/ \E r \in Requesters : RequesterStep(r)
           \/ \E j \in JobIds : Acknowledge(j)
           \/ Restart
           \/ UNCHANGED <<rows, outbox, mem, request>>
<1>1. ASSUME NEW t \in Threads, ApplyStep(t)
      PROVE  PerformCommit(t) \/ PerformSetDesired(t) \/ UNCHANGED <<rows, outbox, mem, request>>
  BY <1>1 DEF ApplyStep, MintVersion, ReadDevice, EnterSerial, PerformFails, PerformRequestInterrupt, RaiseFlag,
        PerformClearInterrupt, WipeReason, PerformDispatch, PerformRecordVersion, AwaitRelease, AwaitTimeout,
        EnterSerialAgain, Resume, storeVars, memoryVars
<1>2. ASSUME NEW w \in Workers, WorkerStep(w)
      PROVE  UNCHANGED <<rows, outbox, mem, request>>
  <2>1. CASE \/ ClaimNotification(w) \/ try_claim(w) \/ SeeShutdown(w) \/ try_acquire(w)
             \/ ProbeDevice(w) \/ StopHere(w) \/ Prepare(w) \/ BeginTransfer(w)
    BY <2>1 DEF ClaimNotification, try_claim, SeeShutdown, try_acquire, ProbeDevice, StopHere, Prepare,
          BeginTransfer, TransferFails, ApplyFrom, Jump, Steady, storeVars, memoryVars
  <2>2. CASE \/ Verify(w) \/ CommitSession(w) \/ FinishCancelling(w) \/ Reoffer(w) \/ CheckFlag(w)
             \/ CheckDesired(w) \/ CheckDevice(w) \/ NoticeInterrupt(w)
    BY <2>2 DEF Verify, CommitSession, FinishCancelling, Reoffer, CheckFlag, CheckDesired, CheckDevice,
          NoticeInterrupt, EndTransfer, ApplyFrom, Jump, Steady, storeVars, memoryVars
  <2>3. CASE \/ FinishFile(w) \/ DownloadFails(w) \/ Panic(w) \/ ReadReason(w) \/ ClearFlag(w) \/ ClearReason(w)
             \/ ReportInterrupt(w) \/ ReleaseTarget(w) \/ ReleaseActive(w)
    BY <2>3 DEF FinishFile, DownloadFails, TransferFails, Panic, ReadReason, ClearFlag, ClearReason,
          ReportInterrupt, ReleaseTarget, ReleaseActive, EndTransfer, ApplyFrom, Jump, Steady, storeVars, memoryVars
  <2> QED BY <1>2, <2>1, <2>2, <2>3 DEF WorkerStep
<1>3. ASSUME NEW k \in Tickers, TickerStep(k)
      PROVE  UNCHANGED <<rows, outbox, mem, request>>
  BY <1>3 DEF TickerStep, TickRead, TickLease, TickQueued, TickActive, TickSchedule, Jump, Steady, storeVars, memoryVars
<1>4. ASSUME NEW c \in Clients, ClientStep(c)
      PROVE  UNCHANGED <<rows, outbox, mem, request>>
  BY <1>4 DEF ClientStep, IssueCommand, FinalizeCancel, EndCommand, ApplyFrom, Steady, storeVars, memoryVars
<1>5. CASE \/ DeviceChange \/ BeginShutdown \/ StopQueue \/ UNCHANGED vars
           \/ \E j \in JobIds : TellShutdown(j) \/ RaiseShutdown(j)
  BY <1>5 DEF DeviceChange, BeginShutdown, StopQueue, TellShutdown, RaiseShutdown, vars, storeVars, memoryVars
<1> QED BY <1>1, <1>2, <1>3, <1>4, <1>5 DEF Next

(* The steps of the other threads leave the requests fresh. *)
LEMMA RequestInvKept ==
    ASSUME CoordinatorInv, CoordinatorInv', RequestInv, [Next]_vars,
           ~(\E r \in Requesters : RequesterStep(r)), ~(\E j \in JobIds : Acknowledge(j))
    PROVE  RequestInv'
<1>0. /\ rows \in [JobIds -> JobRows] /\ mem \in [JobIds -> Notes] /\ request \in [Requesters -> Requests]
      /\ \A j \in JobIds : Blank(j)
  BY DEF CoordinatorInv, Shapes, RequestInv
<1>1. ASSUME NEW t \in Threads, PerformCommit(t)
      PROVE  RequestInv'
  <2>k. PICK j, to : j = job[t] /\ to = Head(frame[t].eff).arg
    OBVIOUS
  <2>1. /\ j \in JobIds /\ is_legal_transition(rows[j].state, to)
        /\ StoreCommit(j, Head(frame[t].eff).version, to)
    BY <1>1, <2>k, CommitStep
  <2>2. mem' = [mem EXCEPT ![j].state = to] /\ request' = request
    BY <1>1, <2>k DEF PerformCommit
  <2>3. to # "absent"
    BY <2>1, EdgeFacts
  <2>4. \A x \in JobIds : x # j => rows'[x] = rows[x]
    BY <1>0, <2>1 DEF StoreCommit, transition_job, complete_job
  <2>5. rows'[j].state = to
    <3>1. rows[j] \in JobRows
      BY <1>0, <2>1
    <3> QED BY <1>0, <2>1, <3>1 DEF StoreCommit, transition_job, complete_job, JobRows
  <2>6. mem'[j].state = to /\ \A x \in JobIds : x # j => mem'[x] = mem[x]
    <3>1. mem[j] \in Notes
      BY <1>0, <2>1
    <3> QED BY <1>0, <2>1, <2>2, <3>1 DEF Notes
  <2>7. \A x \in JobIds : Blank(x)'
    BY <1>0, <2>3, <2>4, <2>5 DEF Blank
  <2>8. \A x \in JobIds : mem'[x].state = "absent" => mem[x].state = "absent" /\ rows'[x] = rows[x]
    BY <2>3, <2>4, <2>6
  <2> QED BY <1>0, <2>2, <2>7, <2>8, RequestsKept
<1>2. ASSUME NEW t \in Threads, PerformSetDesired(t)
      PROVE  RequestInv'
  <2>k. PICK j, d : j = job[t] /\ d = Head(frame[t].eff).arg
    OBVIOUS
  <2>1. /\ j \in JobIds /\ rows[j].state # "absent" /\ rows' = [rows EXCEPT ![j].desired = d]
    BY <1>2, <2>k, IntentStep DEF PerformSetDesired, set_desired_run_state
  <2>2. mem' = [mem EXCEPT ![j].desired = d] /\ request' = request
    BY <1>2, <2>k DEF PerformSetDesired
  <2>3. /\ \A x \in JobIds : x # j => rows'[x] = rows[x] /\ mem'[x] = mem[x]
        /\ rows'[j].state = rows[j].state /\ mem'[j].state = mem[j].state
    <3>1. rows[j] \in JobRows /\ mem[j] \in Notes
      BY <1>0, <2>1
    <3> QED BY <1>0, <2>1, <2>2, <3>1 DEF JobRows, Notes
  <2>4. \A x \in JobIds : Blank(x)'
    BY <1>0, <2>1, <2>3 DEF Blank
  <2>5. mem[j].state # "absent"
    <3>1. ThreadInv(t) /\ pc[t] # "idle"
      BY <1>2 DEF CoordinatorInv, PerformSetDesired, At
    <3> QED BY <2>k, <3>1 DEF ThreadInv, Placed, JobState
  <2>6. \A x \in JobIds : mem'[x].state = "absent" => mem[x].state = "absent" /\ rows'[x] = rows[x]
    BY <2>3, <2>5
  <2> QED BY <1>0, <2>2, <2>4, <2>6, RequestsKept
<1>3. CASE Restart
  <2>1. request' = [r \in Requesters |-> NoRequest] /\ rows' = rows
    BY <1>3 DEF Restart, BecomeFresh, storeVars
  <2>2. NoRequest \in Requests /\ NoRequest.at = "idle"
    BY DEF NoRequest, Requests, RequestLabels, RunIntents
  <2>3. \A r \in Requesters : Fresh(r)'
    BY <2>1, <2>2 DEF Fresh
  <2> QED BY <1>0, <2>1, <2>2, <2>3 DEF RequestInv, Blank
<1>4. CASE UNCHANGED <<rows, outbox, mem, request>>
  BY <1>4 DEF RequestInv, Fresh, Blank
<1> QED BY <1>1, <1>2, <1>3, <1>4, OthersLeaveTheJobs

(* No request is under way at the start, and a job without a row is blank. *)
LEMMA RequestInit ==
    ASSUME Init
    PROVE  RequestInv
<1>1. request = [r \in Requesters |-> NoRequest]
  BY DEF Init, FreshProcess
<1>2. NoRequest \in Requests /\ NoRequest.at = "idle"
  BY DEF NoRequest, Requests, RequestLabels, RunIntents
<1>3. \A r \in Requesters : Fresh(r)
  BY <1>1, <1>2 DEF Fresh
<1>4. \A j \in JobIds : Blank(j)
  BY InitInv DEF Blank
<1> QED BY <1>1, <1>2, <1>3, <1>4 DEF RequestInv

-----------------------------------------------------------------------------
(* Every step of the coordinator keeps the invariant. *)
LEMMA CoordinatorStepInv ==
    ASSUME CoordinatorInv, RequestInv, NoLateInstall, [Next]_vars
    PROVE  CoordinatorInv' /\ RequestInv'
<1>a. CASE \E r \in Requesters : RequesterStep(r)
  BY <1>a, RequesterStepInv
<1>b. CASE \E j \in JobIds : Acknowledge(j)
  BY <1>b, AcknowledgeStep
<1> SUFFICES ASSUME ~(\E r \in Requesters : RequesterStep(r)), ~(\E j \in JobIds : Acknowledge(j))
             PROVE  CoordinatorInv'
  BY <1>a, <1>b, RequestInvKept
<1>1. CASE \E t \in Threads : ApplyStep(t)
  BY <1>1, ApplyStepInv
<1>2. CASE \E w \in Workers : WorkerStep(w)
  BY <1>2, WorkerStepInv
<1>3. CASE \E k \in Tickers : TickerStep(k)
  BY <1>3, TickerStepInv
<1>4. CASE \E c \in Clients : ClientStep(c)
  BY <1>4, ClientStepInv
<1>5. CASE Restart
  BY <1>5, RestartStep
<1>6. CASE \/ DeviceChange \/ BeginShutdown \/ StopQueue \/ UNCHANGED vars
           \/ \E j \in JobIds : TellShutdown(j) \/ RaiseShutdown(j)
  BY <1>6, EnvironmentSteps
<1> QED BY <1>1, <1>2, <1>3, <1>4, <1>5, <1>6 DEF Next

(* The invariant holds in every behaviour without a late install, crashes and
   restarts included. *)
THEOREM CoordinatorInvariant == Spec /\ []NoLateInstall => [](CoordinatorInv /\ RequestInv)
<1>1. Init => CoordinatorInv /\ RequestInv
  BY InitInv, RequestInit
<1>2. CoordinatorInv /\ RequestInv /\ NoLateInstall /\ [Next]_vars => CoordinatorInv' /\ RequestInv'
  BY CoordinatorStepInv
<1> QED BY <1>1, <1>2, PTL DEF Spec

(* "At most one writer per target directory" (queue.rs, TargetLeases), for any
   number of workers, jobs and directories: a worker inside process_job holds the
   directory's lease in its job's name, and no two workers own one job. *)
THEOREM WritersAreApart == Spec /\ []NoLateInstall => []OneWriterPerTarget
<1>1. CoordinatorInv => OneWriterPerTarget
  <2> SUFFICES ASSUME CoordinatorInv, NEW v \in Workers, NEW w \in Workers, v # w,
                      InsideProcessJob(v), InsideProcessJob(w)
               PROVE  TargetOf[job[v]] # TargetOf[job[w]]
    BY DEF OneWriterPerTarget
  <2>1. Owns(v) /\ Owns(w) /\ Apart(v, w)
    BY Roles DEF CoordinatorInv, ThreadInv
  <2>2. guard[v] /\ guard[w]
    BY <2>1 DEF InsideProcessJob, Owns
  <2> QED BY <2>1, <2>2 DEF Owns, Apart
<1> QED BY <1>1, CoordinatorInvariant, PTL

(* commit_transition: when nobody is inside a job's critical section, the map and
   the row agree in state, intent and version, through enqueues, retries and
   restarts, in every behaviour in which no install is late.  The hypothesis is
   needed: a second request's jobs.insert puts an older state back. *)
THEOREM MemoryIsTheStore == Spec /\ []NoLateInstall => []MemoryMatchesStore
<1>1. CoordinatorInv => MemoryMatchesStore
  BY DEF CoordinatorInv, JobInv, MemoryMatchesStore
<1> QED BY <1>1, CoordinatorInvariant, PTL

(* AwaitWorkerRelease: after pause answered, and until a resume takes it back, no
   worker reads bytes for the job, whatever other commands, ticks and device
   changes ran between its steps. *)
THEOREM PausedJobIsQuiet == Spec /\ []NoLateInstall => []PausedIsQuiet
<1>1. CoordinatorInv => PausedIsQuiet
  BY DEF CoordinatorInv, Shapes, JobInv, PausedIsQuiet, Reading
<1> QED BY <1>1, CoordinatorInvariant, PTL

(* No worker reads for a job whose row has ended. *)
THEOREM FinishedJobIsQuiet == Spec /\ []NoLateInstall => []TerminalIsQuiet
<1>1. CoordinatorInv => TerminalIsQuiet
  <2> SUFFICES ASSUME CoordinatorInv, NEW w \in Workers, pc[w] = "reading"
               PROVE  ~IsTerminal(job[w])
    BY DEF TerminalIsQuiet
  <2>1. Owns(w) /\ Placed(w)
    BY Roles DEF CoordinatorInv, ThreadInv
  <2>2. job[w] \in JobIds /\ JobState(w) \in {"transferring", "cancelling"}
    BY <2>1 DEF Owns, Placed, TransferLabels
  <2>3. rows[job[w]].state = JobState(w)
    BY <2>2 DEF CoordinatorInv, JobInv, JobState
  <2> QED BY <2>2, <2>3 DEF IsTerminal, Terminal, Failures
<1> QED BY <1>1, CoordinatorInvariant, PTL

(* cancel answers Ok only once the row says cancelled: the wait, the second command
   and the "already terminal" answer each leave the job there. *)
THEOREM CancelIsDurable == Spec /\ []NoLateInstall => []CancelAcked
<1>1. CoordinatorInv => CancelAcked
  <2> SUFFICES ASSUME CoordinatorInv, NEW c \in Clients, pc[c] = "acked", call[c] = "cancel"
               PROVE  rows[job[c]].state = "cancelled"
    BY DEF CancelAcked
  <2>1. Cancels(c) /\ Placed(c)
    BY Roles DEF CoordinatorInv, ThreadInv
  <2>2. job[c] \in JobIds /\ mem[job[c]].state = "cancelled"
    BY <2>1 DEF Cancels, Placed, JobState
  <2> QED BY <2>2 DEF CoordinatorInv, JobInv
<1> QED BY <1>1, CoordinatorInvariant, PTL

-----------------------------------------------------------------------------
(* Refinement: the rows and the outbox, seen as JobLifecycle's job, move by its
   three actions only.  The abstract graph is the reducer's. *)
LEMMA SameVocabulary ==
    /\ Lifecycle!States = States /\ Lifecycle!Terminal = Terminal /\ Lifecycle!RunIntents = RunIntents
    /\ Lifecycle!LegalEdges = LegalEdges
<1>1. /\ Lifecycle!Failures = Failures /\ Lifecycle!Parked = Parked /\ Lifecycle!Working = Working
      /\ Lifecycle!RunIntents = RunIntents
  BY DEF Lifecycle!Failures, Failures, Lifecycle!Parked, Parked, Lifecycle!Working, Working,
         Lifecycle!RunIntents, RunIntents
<1>2. Lifecycle!Terminal = Terminal
  BY <1>1 DEF Lifecycle!Terminal, Terminal
<1>3. Lifecycle!States = States
  BY <1>1, <1>2 DEF Lifecycle!States, States
<1>4. Lifecycle!LegalEdges = LegalEdges
  BY <1>1 DEF Lifecycle!LegalEdges, LegalEdges
<1> QED BY <1>1, <1>2, <1>3, <1>4

(* commit_transition is one step of the job along a legal edge. *)
LEMMA CommitAdvances ==
    ASSUME CoordinatorInv, NEW t \in Threads, PerformCommit(t)
    PROVE  [Lifecycle!LifecycleNext]_Lifecycle!lifecycleVars
<1> DEFINE to == Head(frame[t].eff).arg
           v == Head(frame[t].eff).version
<1>k. PICK j : j = job[t]
  OBVIOUS
<1>1. /\ j \in JobIds /\ is_legal_transition(rows[j].state, to) /\ StoreCommit(j, v, to)
      /\ rows[j] \in JobRows /\ v = rows[j].version
  BY <1>k, CommitStep
<1>2. rows \in [JobIds -> JobRows] /\ outbox \in [JobIds -> [outcome : Terminal \cup {"none"},
                                                             version : Nat, acked : BOOLEAN]]
  BY DEF CoordinatorInv, Shapes
<1> HIDE DEF to, v
<1>3. to \in States
  BY <1>1, EdgeFacts
<1>4. /\ rows' = [rows EXCEPT ![j].state = to, ![j].version = v + 1]
      /\ outbox' = IF to \in Terminal THEN [outbox EXCEPT ![j] = insert_outbox_row(to, v + 1)] ELSE outbox
  BY <1>1 DEF StoreCommit, transition_job, complete_job
<1>5. ASSUME NEW x \in JobIds
      PROVE  /\ rows'[x].state = (IF x = j THEN to ELSE rows[x].state)
             /\ rows'[x].version = (IF x = j THEN v + 1 ELSE rows[x].version)
             /\ rows'[x].desired = rows[x].desired
  <2>1. rows[x] \in JobRows
    BY <1>2
  <2> QED BY <1>1, <1>2, <1>4, <2>1 DEF JobRows
<1>6. ASSUME NEW x \in JobIds
      PROVE  [outcome |-> outbox'[x].outcome, version |-> outbox'[x].version] =
                IF x = j /\ to \in Terminal THEN [outcome |-> to, version |-> v + 1]
                ELSE [outcome |-> outbox[x].outcome, version |-> outbox[x].version]
  BY <1>2, <1>4 DEF insert_outbox_row
<1>7. Lifecycle!Advance(j, to)
  <2>1. is_legal_transition([x \in JobIds |-> rows[x].state][j], to)
    BY <1>1
  <2>2. [x \in JobIds |-> rows'[x].state] = [[x \in JobIds |-> rows[x].state] EXCEPT ![j] = to]
    BY <1>1, <1>5
  <2>3. [x \in JobIds |-> rows'[x].version] =
           [[x \in JobIds |-> rows[x].version] EXCEPT ![j] = [x \in JobIds |-> rows[x].version][j] + 1]
    BY <1>1, <1>5
  <2>4. [x \in JobIds |-> rows'[x].desired] = [x \in JobIds |-> rows[x].desired]
    BY <1>5
  <2> DEFINE o == [x \in JobIds |-> [outcome |-> outbox[x].outcome, version |-> outbox[x].version]]
  <2>5. [x \in JobIds |-> [outcome |-> outbox'[x].outcome, version |-> outbox'[x].version]] =
           [o EXCEPT ![j] = IF to \in Terminal
                            THEN [outcome |-> to, version |-> [x \in JobIds |-> rows[x].version][j] + 1]
                            ELSE o[j]]
    BY <1>1, <1>6
  <2>6. Lifecycle!is_legal_transition([x \in JobIds |-> rows[x].state][j], to)
    BY <2>1, SameVocabulary DEF is_legal_transition, Lifecycle!is_legal_transition
  <2> QED BY <2>2, <2>3, <2>4, <2>5, <2>6, SameVocabulary DEF Lifecycle!Advance
<1>8. \E s \in Lifecycle!States : Lifecycle!Advance(j, s)
  BY <1>3, <1>7, SameVocabulary DEF Lifecycle!Advance
<1>9. Lifecycle!LifecycleNext
  BY <1>1, <1>8 DEF Lifecycle!LifecycleNext
<1> QED BY <1>9

(* set_desired_run_state is a change of intent of a job that has not ended. *)
LEMMA IntentChanges ==
    ASSUME CoordinatorInv, NEW t \in Threads, PerformSetDesired(t)
    PROVE  [Lifecycle!LifecycleNext]_Lifecycle!lifecycleVars
<1> DEFINE d == Head(frame[t].eff).arg
<1>k. PICK j : j = job[t]
  OBVIOUS
<1>1. /\ j \in JobIds /\ rows[j].state \notin Terminal \cup {"absent"} /\ d \in RunIntents
      /\ rows' = [rows EXCEPT ![j].desired = d] /\ outbox' = outbox
  BY <1>k, IntentStep DEF PerformSetDesired, set_desired_run_state
<1>2. rows \in [JobIds -> JobRows]
  BY DEF CoordinatorInv, Shapes
<1> HIDE DEF d
<1>3. ASSUME NEW x \in JobIds
      PROVE  /\ rows'[x].state = rows[x].state /\ rows'[x].version = rows[x].version
             /\ rows'[x].desired = (IF x = j THEN d ELSE rows[x].desired)
  <2>1. rows[x] \in JobRows
    BY <1>2
  <2> QED BY <1>1, <1>2, <2>1 DEF JobRows
<1>4. Lifecycle!ChangeIntent(j, d)
  <2>1. [x \in JobIds |-> rows'[x].state] = [x \in JobIds |-> rows[x].state]
    BY <1>3
  <2>2. [x \in JobIds |-> rows'[x].version] = [x \in JobIds |-> rows[x].version]
    BY <1>3
  <2>3. [x \in JobIds |-> rows'[x].desired] = [[x \in JobIds |-> rows[x].desired] EXCEPT ![j] = d]
    BY <1>1, <1>3
  <2> QED BY <1>1, <2>1, <2>2, <2>3, SameVocabulary DEF Lifecycle!ChangeIntent
<1>5. \E e \in Lifecycle!RunIntents : Lifecycle!ChangeIntent(j, e)
  BY <1>1, <1>4, SameVocabulary DEF Lifecycle!ChangeIntent
<1>6. Lifecycle!LifecycleNext
  BY <1>1, <1>5 DEF Lifecycle!LifecycleNext
<1> QED BY <1>6

(* create_job and spawn_retry_job put a new job at the start of the graph. *)
LEMMA CreateStarts ==
    ASSUME CoordinatorInv, RequestInv, NEW c \in JobIds, Creates(c)
    PROVE  [Lifecycle!LifecycleNext]_Lifecycle!lifecycleVars
<1>1. PICK id \in Identities \cup {NoIdentity}, d \in Digests \cup {NoIdentity} :
         rows' = [rows EXCEPT ![c] = NewRow(id, d)]
  BY DEF Creates
<1>2. /\ rows \in [JobIds -> JobRows] /\ rows[c].state = "absent" /\ outbox' = outbox
      /\ rows[c].desired = "run"
  BY DEF CoordinatorInv, Shapes, Creates, RequestInv, Blank
<1>3. ASSUME NEW x \in JobIds
      PROVE  /\ rows'[x].state = (IF x = c THEN "queued" ELSE rows[x].state)
             /\ rows'[x].version = (IF x = c THEN 1 ELSE rows[x].version)
             /\ rows'[x].desired = rows[x].desired
  BY <1>1, <1>2 DEF NewRow
<1>4. Lifecycle!Create(c)
  <2>1. [x \in JobIds |-> rows'[x].state] = [[x \in JobIds |-> rows[x].state] EXCEPT ![c] = "queued"]
    BY <1>3
  <2>2. [x \in JobIds |-> rows'[x].version] = [[x \in JobIds |-> rows[x].version] EXCEPT ![c] = 1]
    BY <1>3
  <2>3. [x \in JobIds |-> rows'[x].desired] = [x \in JobIds |-> rows[x].desired]
    BY <1>3
  <2>4. [x \in JobIds |-> rows[x].state][c] = "absent"
    BY <1>2
  <2> QED BY <1>2, <2>1, <2>2, <2>3, <2>4 DEF Lifecycle!Create
<1>5. Lifecycle!LifecycleNext
  BY <1>4 DEF Lifecycle!LifecycleNext
<1> QED BY <1>5

(* The coordinator, enqueues, retries and restarts included, implements the
   lifecycle of a job in every behaviour in which no install is late: one
   legal edge at a time, one version per edge, and one outcome, announced by the
   step that ends the job at that step's version. *)
THEOREM CoordinatorRefinesLifecycle == Spec /\ []NoLateInstall => ImplementsLifecycle
<1>1. Init => Lifecycle!LifecycleInit
  <2> SUFFICES ASSUME Init
               PROVE  Lifecycle!LifecycleInit
    OBVIOUS
  <2>1. PICK S \in SUBSET JobIds :
           /\ \A j \in JobIds : /\ rows[j].state = (IF j \in S THEN "queued" ELSE "absent")
                                /\ rows[j].version = (IF j \in S THEN 1 ELSE 0)
                                /\ rows[j].desired = "run"
           /\ outbox = [j \in JobIds |-> NoOutcome]
    BY InitInv
  <2>2. /\ [j \in JobIds |-> rows[j].state] = [j \in JobIds |-> IF j \in S THEN "queued" ELSE "absent"]
        /\ [j \in JobIds |-> rows[j].version] = [j \in JobIds |-> IF j \in S THEN 1 ELSE 0]
    BY <2>1
  <2>3. [j \in JobIds |-> rows[j].desired] = [j \in JobIds |-> "run"]
    BY <2>1
  <2>4. [j \in JobIds |-> [outcome |-> outbox[j].outcome, version |-> outbox[j].version]] =
           [j \in JobIds |-> Lifecycle!Unannounced]
    BY <2>1 DEF NoOutcome, Lifecycle!Unannounced
  <2> QED BY <2>2, <2>3, <2>4 DEF Lifecycle!LifecycleInit
<1>2. CoordinatorInv /\ RequestInv /\ [Next]_vars => [Lifecycle!LifecycleNext]_Lifecycle!lifecycleVars
  <2> SUFFICES ASSUME CoordinatorInv, RequestInv, [Next]_vars
               PROVE  [Lifecycle!LifecycleNext]_Lifecycle!lifecycleVars
    OBVIOUS
  <2>1. ASSUME rows' = rows,
               \A j \in JobIds : outbox'[j].outcome = outbox[j].outcome /\ outbox'[j].version = outbox[j].version
        PROVE  [Lifecycle!LifecycleNext]_Lifecycle!lifecycleVars
    <3>1. /\ [j \in JobIds |-> rows'[j].state] = [j \in JobIds |-> rows[j].state]
          /\ [j \in JobIds |-> rows'[j].version] = [j \in JobIds |-> rows[j].version]
          /\ [j \in JobIds |-> rows'[j].desired] = [j \in JobIds |-> rows[j].desired]
          /\ [j \in JobIds |-> [outcome |-> outbox'[j].outcome, version |-> outbox'[j].version]] =
                [j \in JobIds |-> [outcome |-> outbox[j].outcome, version |-> outbox[j].version]]
      BY <2>1
    <3>2. UNCHANGED Lifecycle!lifecycleVars
      BY <3>1 DEF Lifecycle!lifecycleVars
    <3> QED BY <3>2
  <2>2. CASE UNCHANGED <<rows, outbox>>
    BY <2>1, <2>2
  <2>3. CASE Restart
    BY <2>2, <2>3 DEF Restart, storeVars
  <2>4. CASE \E r \in Requesters : RequesterStep(r)
    BY <2>2, <2>4, RequestRows, CreateStarts
  <2>5. CASE \E j \in JobIds : Acknowledge(j)
    BY <2>1, <2>5, AcknowledgeStep
  <2> QED BY <2>2, <2>3, <2>4, <2>5, OthersLeaveTheJobs, CommitAdvances, IntentChanges
<1> QED BY <1>1, <1>2, CoordinatorInvariant, PTL DEF Spec, ImplementsLifecycle, Lifecycle!LifecycleSpec

-----------------------------------------------------------------------------
(* Only a user's cancel cancels.  What each thread and each job rely on while   *)
(* nobody has asked for the job to be cancelled.                                *)

\* A flag that is raised, about to be raised, or was seen by the worker that now
\* asks for the reason.
Raised(j) ==
    \/ flag[j] \/ halted[j] = "told"
    \/ \E t \in Threads : job[t] = j /\ pc[t] \in {"raise", "reason"}

\* A reason was wiped under a raised flag, and the worker that wiped it still has to
\* clear the flag inside the critical section.
Clears(w) ==
    \/ pc[w] = "report" /\ out[w] # "panicked"
    \/ pc[w] = "lock" /\ Kind(w) = "interrupted"
    \/ pc[w] = "perform" /\ Kind(w) = "interrupted" /\ Head(frame[w].eff).op = "clear_interrupt"
    \/ pc[w] = "wipe"

\* A worker that will look at no interrupt of its job before it lets go of it,
\* once the process is stopping.
AfterTransfer == {"clear", "clear_reason", "report"}
Past(w) ==
    \/ pc[w] \in {"idle", "popped", "claimed", "reschedule", "leave", "release_active", "exited"}
                  \cup AfterTransfer
    \/ pc[w] \in ApplyLabels /\ Kind(w) = "interrupted"

\* No worker will take a raised flag of the job for a cancel.
Explained(j) ==
    \/ Raised(j) => reason[j] # "none"
    \/ rows[j].state \in Terminal
    \/ \E w \in Workers : job[w] = j /\ Clears(w)
    \/ phase # "running" /\ \A w \in Workers : job[w] = j => Past(w)

\* What a decision for a job nobody cancels may hold.
Harmless(k, e) ==
    /\ e.op = "commit" => e.arg \notin {"cancelling", "cancelled"}
    /\ e.op = "request_interrupt" => e.arg \in {"capture_pause", "device_lost"}
    /\ e.op = "clear_interrupt" => k = "interrupted"

Speaks(t) ==
    pc[t] \in ApplyLabels /\ job[t] \notin asked =>
        /\ frame[t].cmd.reason # "cancel"
        /\ frame[t].cmd.reason = "shutdown" => phase # "running"
        /\ \A i \in 1..Len(frame[t].eff) : Harmless(Kind(t), frame[t].eff[i])
        /\ pc[t] \in {"mint", "read", "lock"} => frame[t].eff = << >>
        /\ pc[t] = "wipe" => Kind(t) = "interrupted" /\ (flag[job[t]] => phase # "running")

\* Where a worker's report returns to, and what its outcome may be.
Answers(w) ==
    /\ pc[w] \in {"idle", "popped"} => out[w] = "none"
    /\ pc[w] \in {"mint", "read"} => Kind(w) = "none"
    /\ pc[w] \in ApplyLabels /\ Kind(w) = "interrupted" => frame[w].ok = "leave" /\ frame[w].err = "leave"
    /\ pc[w] \in ApplyLabels /\ "clear" \in {frame[w].ok, frame[w].err} => Kind(w) = "panicked"

Works(w) ==
    job[w] \notin asked =>
        /\ out[w] # "cancel" /\ (out[w] = "shutdown" => phase # "running")
        /\ pc[w] \in AfterTransfer =>
              IF out[w] = "panicked" THEN JobState(w) \in Terminal ELSE JobState(w) = "transferring"
        /\ pc[w] = "lock" /\ Kind(w) \in {"interrupted", "panicked"} => JobState(w) = "transferring"
        /\ pc[w] \in InSerial /\ Kind(w) = "panicked" =>
              \A i \in 1..Len(frame[w].eff) : frame[w].eff[i].op = "commit" /\ frame[w].eff[i].arg \in Terminal

Unasked(j) ==
    j \notin asked =>
        /\ rows[j].state \notin {"cancelling", "cancelled"}
        /\ reason[j] # "cancel" /\ (reason[j] = "shutdown" => phase # "running")
        /\ Explained(j)

InterruptShapes ==
    /\ flag \in [JobIds -> BOOLEAN] /\ halted \in [JobIds -> {"no", "told", "done"}]
    /\ phase = "running" => \A j \in JobIds : halted[j] = "no"

InterruptInv ==
    /\ InterruptShapes
    /\ \A t \in Threads : Speaks(t)
    /\ \A w \in Workers : Answers(w) /\ Works(w)
    /\ \A c \in Clients : call[c] = "cancel" => job[c] \in asked
    /\ \A j \in JobIds : Unasked(j)

\* The two ways a job may be cancelled unasked: a pause clears the reason a worker
\* is about to read, and a panicked worker whose failure was not stored clears the
\* interrupt of a job that is still transferring, outside the critical section.
NobodyPauses == \A c \in Clients : Kind(c) # "pause"
PanicsAreStored == \A w \in Workers : ~(PerformFails(w) /\ Kind(w) = "panicked")

(* What a step leaves to the threads it does not move. *)
LEMMA OthersTruthful ==
    ASSUME CoordinatorInv, InterruptInv, NEW t, Alone(t), asked \subseteq asked',
           phase # "running" => phase' # "running",
           \A j \in JobIds : flag'[j] => flag[j] \/ phase' # "running" \/ serial[j] = t,
           \A j \in JobIds : \/ mem'[j].state = mem[j].state
                             \/ mem[j].state \notin Terminal \cup {"transferring"}
                             \/ t \in Workers /\ Owning(t) /\ job[t] = j
                             \/ j \in asked',
           NEW u \in Threads, u # t
    PROVE  /\ Speaks(u)'
           /\ u \in Workers => Answers(u)' /\ Works(u)'
           /\ u \in Clients /\ call'[u] = "cancel" => job'[u] \in asked'
<1>0. pc'[u] = pc[u] /\ job'[u] = job[u] /\ frame'[u] = frame[u] /\ Kind(u)' = Kind(u)
  BY DEF Alone, Kind
<1>1. u \in Workers => out'[u] = out[u]
  BY DEF Alone
<1>2. Speaks(u) /\ ThreadInv(u)
  BY DEF InterruptInv, CoordinatorInv
<1>3. pc[u] # "idle" => job[u] \in JobIds
  BY <1>2 DEF ThreadInv, Placed
<1>4. Speaks(u)'
  <2>1. pc[u] = "wipe" => serial[job[u]] = u /\ job[u] \in JobIds
    BY <1>2, <1>3 DEF ThreadInv, Held, InSerial
  <2> SUFFICES ASSUME pc[u] \in ApplyLabels, job[u] \notin asked
               PROVE  Speaks(u)'
    BY <1>0 DEF Speaks
  <2> QED BY <1>0, <1>2, <2>1 DEF Speaks
<1>5. ASSUME u \in Workers
      PROVE  Answers(u)' /\ Works(u)'
  <2>1. Answers(u) /\ Works(u)
    BY <1>5 DEF InterruptInv
  <2>2. Answers(u)'
    BY <1>0, <1>1, <1>5, <2>1 DEF Answers
  <2>3. ASSUME Owning(u)
        PROVE  \/ JobState(u)' = JobState(u) \/ JobState(u) \notin Terminal \cup {"transferring"}
               \/ job'[u] \in asked'
    <3>1. t \in Workers /\ Owning(t) => job[t] # job[u]
      BY <1>5, <2>3 DEF CoordinatorInv, Apart
    <3>2. job[u] \in JobIds
      BY <1>3, <2>3 DEF Owning
    <3> QED BY <1>0, <3>1, <3>2 DEF JobState
  <2>4. pc[u] \in AfterTransfer \cup {"lock"} => Owning(u)
    BY DEF Owning, AfterTransfer
  <2> QED BY <1>0, <1>1, <1>5, <2>1, <2>2, <2>3, <2>4 DEF Works
<1>6. u \in Clients /\ call'[u] = "cancel" => job'[u] \in asked'
  BY <1>0 DEF InterruptInv, Alone
<1> QED BY <1>4, <1>5, <1>6

(* A step of one thread, or of none: what remains to be shown is its own part and *)
(* every job's.                                                                   *)
LEMMA TruthStep ==
    ASSUME CoordinatorInv, InterruptInv, InterruptShapes', NEW t, Alone(t), asked \subseteq asked',
           phase # "running" => phase' # "running",
           \A j \in JobIds : flag'[j] => flag[j] \/ phase' # "running" \/ serial[j] = t,
           \A j \in JobIds : \/ mem'[j].state = mem[j].state
                             \/ mem[j].state \notin Terminal \cup {"transferring"}
                             \/ t \in Workers /\ Owning(t) /\ job[t] = j
                             \/ j \in asked',
           t \in Threads => Speaks(t)', t \in Workers => Answers(t)' /\ Works(t)',
           t \in Clients /\ call'[t] = "cancel" => job'[t] \in asked',
           \A j \in JobIds : Unasked(j)'
    PROVE  InterruptInv'
<1>1. \A u \in Threads : u # t => /\ Speaks(u)'
                                  /\ u \in Workers => Answers(u)' /\ Works(u)'
                                  /\ u \in Clients /\ call'[u] = "cancel" => job'[u] \in asked'
  BY OthersTruthful
<1>2. \A u \in Threads : Speaks(u)'
  BY <1>1
<1>3. \A w \in Workers : Answers(w)' /\ Works(w)'
  BY <1>1, Roles
<1>4. \A c \in Clients : call'[c] = "cancel" => job'[c] \in asked'
  BY <1>1, Roles
<1> QED BY <1>2, <1>3, <1>4 DEF InterruptInv

(* A raised flag stays explained. *)
LEMMA ExplainedKept ==
    ASSUME NEW t, Alone(t), NEW j \in JobIds, Explained(j),
           phase # "running" => phase' # "running",
           flag'[j] => Raised(j) \/ reason'[j] # "none",
           halted'[j] = "told" => Raised(j) \/ reason'[j] # "none",
           t \in Threads /\ pc'[t] \in {"raise", "reason"} /\ job'[t] = j => Raised(j) \/ reason'[j] # "none",
           reason'[j] = reason[j] \/ reason'[j] # "none",
           rows[j].state \in Terminal => rows'[j].state \in Terminal,
           t \in Workers /\ job[t] = j /\ Clears(t) => job'[t] = j /\ Clears(t)',
           phase # "running" /\ t \in Workers /\ job'[t] = j => Past(t)' \/ (job[t] = j /\ ~Past(t))
    PROVE  Explained(j)'
<1>0. /\ \A u \in Threads \ {t} : pc'[u] = pc[u] /\ job'[u] = job[u] /\ frame'[u] = frame[u]
      /\ \A w \in Workers \ {t} : out'[w] = out[w]
      /\ \A w \in Workers : w \in Threads
  BY Roles DEF Alone
<1>1. CASE Raised(j) => reason[j] # "none"
  <2>1. Raised(j)' => Raised(j) \/ reason'[j] # "none"
    BY <1>0 DEF Raised
  <2> QED BY <1>1, <2>1 DEF Explained
<1>2. CASE rows[j].state \in Terminal
  BY <1>2 DEF Explained
<1>3. ASSUME NEW w \in Workers, job[w] = j, Clears(w)
      PROVE  Explained(j)'
  <2>1. job'[w] = j /\ Clears(w)'
    BY <1>0, <1>3 DEF Clears, Kind
  <2> QED BY <2>1 DEF Explained
<1>4. CASE phase # "running" /\ \A w \in Workers : job[w] = j => Past(w)
  <2>1. ASSUME NEW w \in Workers, job'[w] = j
        PROVE  Past(w)'
    <3>1. CASE w = t
      BY <1>4, <2>1, <3>1
    <3>2. CASE w # t
      BY <1>0, <1>4, <2>1, <3>2 DEF Past, Kind
    <3> QED BY <3>1, <3>2
  <2> QED BY <1>4, <2>1 DEF Explained
<1> QED BY <1>1, <1>2, <1>3, <1>4 DEF Explained

(* A step that leaves the jobs and their interrupts alone. *)
LEMMA CalmStep ==
    ASSUME CoordinatorInv, InterruptInv, NEW t \in Threads, Alone(t),
           UNCHANGED <<rows, mem, flag, reason, halted, phase, asked>>,
           Speaks(t)', t \in Workers => Answers(t)' /\ Works(t)',
           t \in Clients /\ call'[t] = "cancel" => job'[t] \in asked,
           job'[t] = job[t] \/ (pc'[t] \notin {"raise", "reason"} /\ (t \in Workers => Past(t)' /\ ~Clears(t))),
           pc'[t] \in {"raise", "reason"} => pc[t] \in {"raise", "reason"} \/ flag[job[t]],
           t \in Workers /\ job[t] \notin asked /\ Clears(t) => Clears(t)',
           t \in Workers /\ job[t] \notin asked /\ phase # "running" /\ Past(t) => Past(t)'
    PROVE  InterruptInv'
<1>1. ASSUME NEW j \in JobIds
      PROVE  Unasked(j)'
  <2>1. Unasked(j)
    BY DEF InterruptInv
  <2>2. CASE j \in asked
    BY <2>2 DEF Unasked
  <2>3. CASE j \notin asked
    <3>1. Explained(j)
      BY <2>1, <2>3 DEF Unasked
    <3>2. flag[j] => Raised(j)
      BY DEF Raised
    <3>3. halted[j] = "told" => Raised(j)
      BY DEF Raised
    <3>4. pc'[t] \in {"raise", "reason"} /\ job'[t] = j => Raised(j)
      BY DEF Raised
    <3>5. Explained(j)'
      BY <2>3, <3>1, <3>2, <3>3, <3>4, ExplainedKept
    <3> QED BY <2>1, <3>5 DEF Unasked
  <2> QED BY <2>2, <2>3
<1>2. InterruptShapes'
  BY DEF InterruptInv, InterruptShapes
<1> QED BY <1>1, <1>2, TruthStep

(* A worker outside apply_checked that owns its job, and what it knows of it. *)
LEMMA TruthfulWorker ==
    ASSUME CoordinatorInv, InterruptInv, NEW w \in Workers
    PROVE  /\ w \in Threads /\ w \notin Clients /\ w \notin Tickers /\ Answers(w) /\ Works(w) /\ Speaks(w)
           /\ pc[w] # "idle" => job[w] \in JobIds /\ JobState(w) = rows[job[w]].state /\ Unasked(job[w])
           /\ pc[w] # "idle" /\ job[w] \notin asked => JobState(w) \notin {"cancelling", "cancelled"}
           /\ pc[w] \in TransferLabels /\ job[w] \notin asked => JobState(w) = "transferring"
<1>1. /\ w \in Threads /\ w \notin Clients /\ w \notin Tickers /\ Answers(w) /\ Works(w) /\ Speaks(w)
      /\ ThreadInv(w)
  BY Roles DEF InterruptInv, CoordinatorInv
<1>2. ASSUME pc[w] # "idle"
      PROVE  job[w] \in JobIds /\ JobState(w) = rows[job[w]].state /\ Unasked(job[w])
  <2>1. job[w] \in JobIds /\ JobState(w) # "absent"
    BY <1>1, <1>2 DEF ThreadInv, Placed
  <2> QED BY <2>1 DEF CoordinatorInv, JobInv, JobState, InterruptInv
<1>3. pc[w] # "idle" /\ job[w] \notin asked => JobState(w) \notin {"cancelling", "cancelled"}
  BY <1>2 DEF Unasked
<1>4. pc[w] \in TransferLabels => JobState(w) \in {"transferring", "cancelling"} /\ pc[w] # "idle"
  BY <1>1, OwningLabels DEF ThreadInv, Owns
<1> QED BY <1>1, <1>2, <1>3, <1>4

(* A worker jumps. *)
LEMMA TruthfulJump ==
    ASSUME CoordinatorInv, InterruptInv, NEW w \in Workers, NEW L, Jump(w, L), pc[w] \notin {"idle", "popped"},
           pc[w] \notin ApplyLabels, pc[w] = "report" => out[w] = "panicked",
           L \in {"leave", "release_active"} \cup TransferLabels,
           L = "reason" => flag[job[w]],
           L \in TransferLabels => pc[w] \in TransferLabels
    PROVE  InterruptInv'
<1>0. w \in Threads /\ L \in Labels
  BY Roles DEF Labels, WorkerLabels
<1>1. /\ Alone(w) /\ pc'[w] = L /\ UNCHANGED <<rows, mem, job, out, call, frame>>
  BY <1>0, JumpFrame
<1>2. UNCHANGED <<flag, reason, halted, phase, asked>>
  BY DEF Jump, Steady, memoryVars, historyVars
<1>3. L \notin ApplyLabels /\ L \notin AfterTransfer /\ L \notin {"idle", "popped", "raise"}
  BY DEF TransferLabels, ApplyLabels, AfterTransfer
<1>4. Speaks(w)'
  BY <1>1, <1>3 DEF Speaks
<1>5. Answers(w)' /\ Works(w)'
  <2>1. Works(w) /\ InSerial \subseteq ApplyLabels /\ {"lock", "mint", "read"} \subseteq ApplyLabels
    BY TruthfulWorker, OwningLabels DEF ApplyLabels
  <2> QED BY <1>1, <1>2, <1>3, <2>1 DEF Answers, Works
<1>6. ~Clears(w)
  BY DEF Clears, ApplyLabels
<1>7. Past(w) => Past(w)'
  BY <1>1, OwningLabels DEF Past, TransferLabels, AfterTransfer, ApplyLabels
<1> QED BY <1>0, <1>1, <1>2, <1>3, <1>4, <1>5, <1>6, <1>7, TruthfulWorker, CalmStep

(* A worker calls apply_checked. *)
LEMMA TruthfulApply ==
    ASSUME CoordinatorInv, InterruptInv, NEW w \in Workers, NEW cmd \in Commands, NEW ok \in Labels, NEW err \in Labels,
           Apply(w, cmd, ok, err), pc[w] \notin ApplyLabels \cup {"idle", "popped"},
           UNCHANGED <<rows, mem, flag, reason, halted, phase, asked, job, call>>,
           out' = [out EXCEPT ![w] = out'[w]], \A u \in Workers \ {w} : guard'[u] = guard[u],
           cmd.kind = "interrupted" => ok = "leave" /\ err = "leave",
           "clear" \in {ok, err} => cmd.kind = "panicked",
           cmd.kind = "interrupted" \/ pc[w] \in TransferLabels \cup {"loop"},
           job[w] \notin asked =>
              /\ cmd.reason # "cancel" /\ (cmd.reason = "shutdown" => phase # "running")
              /\ out'[w] # "cancel" /\ (out'[w] = "shutdown" => phase # "running")
              /\ cmd.kind \in {"interrupted", "panicked"} => JobState(w) = "transferring"
    PROVE  InterruptInv'
<1>0. w \in Threads
  BY Roles
<1>1. /\ pc'[w] = "lock" /\ frame'[w].cmd = cmd /\ frame'[w].ok = ok /\ frame'[w].err = err
      /\ \A u \in Threads \ {w} : pc'[u] = pc[u] /\ frame'[u] = frame[u]
  BY <1>0, ApplyFrame
<1>e. frame'[w].eff = << >>
  <2> DEFINE f == [NoFrame EXCEPT !.cmd = cmd, !.ok = ok, !.err = err]
  <2>1. f.eff = << >>
    BY FrameShapes DEF Frames
  <2>2. frame' = [frame EXCEPT ![w] = f] /\ frame \in [Threads -> Frames]
    BY DEF Apply, CoordinatorInv, Shapes
  <2> HIDE DEF f
  <2> QED BY <1>0, <2>1, <2>2
<1>2. Alone(w)
  <2>1. \A u \in Workers \ {w} : out'[u] = out[u]
    BY DEF CoordinatorInv, Shapes
  <2> QED BY <1>1, <2>1 DEF Alone
<1>3. Kind(w)' = cmd.kind /\ JobState(w)' = JobState(w)
  BY <1>1 DEF Kind, JobState
<1>4. Speaks(w)'
  <2>1. Len(frame'[w].eff) = 0
    BY <1>e
  <2> QED BY <1>1, <1>e, <2>1 DEF Speaks
<1>5. Answers(w)' /\ Works(w)'
  BY <1>1, <1>3 DEF Answers, Works, AfterTransfer, InSerial
<1>6. Clears(w) => Clears(w)'
  BY <1>1, <1>3, OwningLabels DEF Clears, ApplyLabels, TransferLabels
<1>7. Past(w) => Past(w)'
  BY <1>1, <1>3, OwningLabels DEF Past, TransferLabels, AfterTransfer, ApplyLabels
<1> QED BY <1>0, <1>1, <1>2, <1>4, <1>5, <1>6, <1>7, TruthfulWorker, CalmStep

(* A worker leaves run_transfer. *)
LEMMA TruthfulEnd ==
    ASSUME CoordinatorInv, InterruptInv, NEW w \in Workers, NEW o, EndTransfer(w, o), o # "panicked",
           pc[w] \in TransferLabels \cup {"loop"},
           job[w] \notin asked => /\ o # "cancel" /\ (o = "shutdown" => phase # "running")
                                  /\ JobState(w) = "transferring"
    PROVE  InterruptInv'
<1>0. w \in Threads
  BY Roles
<1>1. UNCHANGED <<rows, mem, flag, reason, halted, phase, asked, job, frame, call, guard>>
  BY DEF EndTransfer, Steady, storeVars, memoryVars, historyVars
<1>2. /\ pc'[w] = "clear" /\ out'[w] = o /\ \A u \in Threads \ {w} : pc'[u] = pc[u]
      /\ \A u \in Workers \ {w} : out'[u] = out[u]
  BY <1>0 DEF EndTransfer, Goto, CoordinatorInv, Shapes
<1>3. Alone(w)
  BY <1>1, <1>2, Roles DEF Alone
<1>4. Speaks(w)'
  BY <1>2 DEF Speaks, ApplyLabels
<1>5. Answers(w)' /\ Works(w)'
  BY <1>1, <1>2 DEF Answers, Works, AfterTransfer, InSerial, ApplyLabels, JobState
<1>6. ~Clears(w) /\ Past(w)'
  BY <1>2 DEF Clears, Past, TransferLabels, AfterTransfer
<1> QED BY <1>0, <1>1, <1>2, <1>3, <1>4, <1>5, <1>6, TruthfulWorker, CalmStep

(* The steps of process_job that report to the reducer or leave. *)
LEMMA TruthfulProcess ==
    ASSUME CoordinatorInv, InterruptInv, NEW w \in Workers,
           \/ ProbeDevice(w) \/ StopHere(w) \/ Prepare(w) \/ BeginTransfer(w) \/ Verify(w)
           \/ CommitSession(w) \/ FinishCancelling(w) \/ Reoffer(w)
    PROVE  InterruptInv'
<1>0. /\ w \in Threads /\ w \notin Clients /\ pc[w] \in {"loop", "reschedule"} /\ Answers(w) /\ Works(w)
      /\ pc[w] \notin ApplyLabels \cup {"idle", "popped"}
  BY TruthfulWorker DEF ProbeDevice, StopHere, Prepare, BeginTransfer, Verify, CommitSession,
         FinishCancelling, Reoffer, Finds, ApplyLabels
<1>1. ASSUME NEW r \in StageReports, NEW ok \in WorkerReturns, pc[w] = "loop", ApplyFrom(w, StageReport(r), ok, "leave")
      PROVE  InterruptInv'
  <2>1. /\ StageReport(r) \in Commands /\ StageReport(r).kind = "stage" /\ StageReport(r).reason = "none"
    BY CommandShapes DEF StageReport, Command
  <2>2. ok \in Labels /\ "leave" \in Labels /\ ok # "clear"
    BY DEF WorkerReturns, Labels, WorkerLabels
  <2>3. /\ Apply(w, StageReport(r), ok, "leave")
        /\ UNCHANGED <<rows, mem, flag, reason, halted, phase, asked, job, call, out, guard>>
    BY <1>1 DEF ApplyFrom, Steady, storeVars, memoryVars, historyVars, workerVars
  <2>4. out' = [out EXCEPT ![w] = out'[w]]
    BY <2>3 DEF CoordinatorInv, Shapes
  <2> QED BY <1>0, <1>1, <2>1, <2>2, <2>3, <2>4, TruthfulApply DEF Works
<1>r. {"loop", "leave"} \subseteq WorkerReturns
  BY DEF WorkerReturns
<1>2. CASE ProbeDevice(w)
  <2>1. PICK s : pc[w] = "loop" /\ Observe(w, ParkedHint(s), "leave")
    BY <1>2 DEF ProbeDevice, Finds
  <2>2. ParkedHint(s) \in [Readiness -> Labels] /\ "leave" \in Labels
    BY DEF ParkedHint, Labels, WorkerLabels
  <2>3. /\ pc'[w] = "mint" /\ frame'[w].err = "leave" /\ frame'[w].ok = "idle" /\ Kind(w)' = "none"
        /\ \A u \in Threads \ {w} : pc'[u] = pc[u] /\ frame'[u] = frame[u]
    BY <1>0, <2>1, <2>2, ObserveFrame DEF Kind
  <2>e. frame'[w].eff = << >> /\ frame'[w].cmd.reason = "none"
    <3> DEFINE f == [NoFrame EXCEPT !.hint = ParkedHint(s), !.err = "leave"]
    <3>1. f.eff = << >> /\ f.cmd = Command("none")
      BY DEF NoFrame
    <3>2. frame' = [frame EXCEPT ![w] = f] /\ frame \in [Threads -> Frames]
      BY <2>1 DEF Observe, CoordinatorInv, Shapes
    <3> HIDE DEF f
    <3> QED BY <1>0, <3>1, <3>2 DEF Command
  <2>4. UNCHANGED <<rows, mem, flag, reason, halted, phase, asked, job, call, out, guard>>
    BY <1>2 DEF ProbeDevice, Steady, storeVars, memoryVars, historyVars, workerVars
  <2>5. Alone(w)
    BY <2>3, <2>4 DEF Alone
  <2>6. Speaks(w)'
    <3>1. Len(frame'[w].eff) = 0
      BY <2>e
    <3> QED BY <2>3, <2>e, <3>1 DEF Speaks
  <2>7. Answers(w)' /\ Works(w)'
    BY <1>0, <2>3, <2>4 DEF Answers, Works, AfterTransfer, InSerial
  <2>8. ~Clears(w) /\ ~Past(w)
    BY <2>1 DEF Clears, Past, ApplyLabels, AfterTransfer
  <2> QED BY <1>0, <2>3, <2>4, <2>5, <2>6, <2>7, <2>8, CalmStep
<1>3. CASE StopHere(w)
  <2>1. Jump(w, "leave") /\ pc[w] = "loop"
    BY <1>3 DEF StopHere, Finds
  <2> QED BY <1>0, <2>1, TruthfulJump DEF TransferLabels
<1>4. CASE Prepare(w)
  BY <1>1, <1>r, <1>4, WorkerReports DEF Prepare, Finds, Failures
<1>5. CASE BeginTransfer(w)
  <2>1. CASE TransferFails(w)
    BY <1>1, <1>r, <1>5, <2>1, WorkerReports DEF BeginTransfer, TransferFails, Finds
  <2>2. CASE Goto(w, "check_flag") /\ UNCHANGED <<frame, out, guard>> /\ Steady
    <3>1. UNCHANGED <<rows, mem, flag, reason, halted, phase, asked, job, call, out, guard, frame>>
      BY <2>2 DEF Steady, storeVars, memoryVars, historyVars
    <3>2. pc'[w] = "check_flag" /\ \A u \in Threads \ {w} : pc'[u] = pc[u]
      BY <1>0, <2>2 DEF Goto, CoordinatorInv, Shapes
    <3>3. Alone(w)
      BY <3>1, <3>2 DEF Alone
    <3>4. Speaks(w)' /\ Answers(w)' /\ Works(w)'
      BY <1>0, <3>1, <3>2 DEF Speaks, Answers, Works, AfterTransfer, InSerial, ApplyLabels
    <3>5. ~Clears(w) /\ ~Past(w)
      BY <1>5 DEF Clears, Past, ApplyLabels, AfterTransfer, BeginTransfer, Finds
    <3> QED BY <1>0, <3>1, <3>2, <3>3, <3>4, <3>5, CalmStep
  <2> QED BY <1>5, <2>1, <2>2 DEF BeginTransfer
<1>6. CASE Verify(w)
  BY <1>1, <1>r, <1>6, WorkerReports DEF Verify, Finds
<1>7. CASE CommitSession(w)
  BY <1>1, <1>r, <1>7, WorkerReports DEF CommitSession, Finds
<1>8. CASE FinishCancelling(w)
  <2>1. pc[w] = "loop" /\ JobState(w) = "cancelling" /\ EndTransfer(w, "cancel")
    BY <1>8 DEF FinishCancelling, Finds, JobState
  <2>2. job[w] \in asked
    BY <2>1, TruthfulWorker
  <2> QED BY <2>1, <2>2, TruthfulEnd
<1>9. CASE Reoffer(w)
  <2>1. UNCHANGED <<rows, mem, flag, reason, halted, phase, asked, job, call, out, guard, frame>>
    BY <1>9 DEF Reoffer, storeVars, workerVars, historyVars
  <2>2. pc[w] = "reschedule" /\ pc'[w] = "leave" /\ \A u \in Threads \ {w} : pc'[u] = pc[u]
    BY <1>0, <1>9 DEF Reoffer, Goto, CoordinatorInv, Shapes
  <2>3. Alone(w)
    BY <2>1, <2>2 DEF Alone
  <2>4. Speaks(w)' /\ Answers(w)' /\ Works(w)'
    BY <1>0, <2>1, <2>2 DEF Speaks, Answers, Works, AfterTransfer, InSerial, ApplyLabels
  <2>5. ~Clears(w) /\ Past(w)'
    BY <2>2 DEF Clears, Past
  <2> QED BY <1>0, <2>1, <2>2, <2>3, <2>4, <2>5, CalmStep
<1> QED BY <1>2, <1>3, <1>4, <1>5, <1>6, <1>7, <1>8, <1>9

(* A worker that asks for the reason of a raised flag finds one, and unless the job's *)
(* cancel was asked for it is not a cancel.                                           *)
LEMMA ReasonIsGenuine ==
    ASSUME CoordinatorInv, InterruptInv, NEW w \in Workers, pc[w] = "reason", job[w] \notin asked
    PROVE  /\ reason[job[w]] \notin {"none", "cancel"}
           /\ reason[job[w]] = "shutdown" => phase # "running"
<1>1. /\ w \in Threads /\ job[w] \in JobIds /\ Unasked(job[w]) /\ rows[job[w]].state = "transferring"
  BY TruthfulWorker DEF TransferLabels
<1>2. rows[job[w]].state \notin Terminal
  BY <1>1 DEF Terminal, Failures
<1>3. ASSUME NEW v \in Workers, job[v] = job[w]
      PROVE  ~Clears(v)
  <2>1. Clears(v) => Owning(v) /\ pc[v] # "reason"
    BY DEF Clears, Owning
  <2>2. Owning(w) /\ Apart(v, w)
    BY DEF Owning, CoordinatorInv
  <2> QED BY <1>3, <2>1, <2>2 DEF Apart
<1>4. ~Past(w)
  BY DEF Past, AfterTransfer, ApplyLabels
<1>5. Raised(job[w])
  BY <1>1 DEF Raised
<1> QED BY <1>1, <1>2, <1>3, <1>4, <1>5 DEF Unasked, Explained

(* The steps of run_transfer. *)
LEMMA TruthfulTransfer ==
    ASSUME CoordinatorInv, InterruptInv, NEW w \in Workers,
           \/ CheckFlag(w) \/ CheckDesired(w) \/ CheckDevice(w) \/ NoticeInterrupt(w)
           \/ FinishFile(w) \/ DownloadFails(w) \/ Panic(w) \/ ReadReason(w)
    PROVE  InterruptInv'
<1>0. /\ w \in Threads /\ w \notin Clients /\ pc[w] \in TransferLabels /\ Answers(w) /\ Works(w)
      /\ pc[w] \notin ApplyLabels \cup {"idle", "popped", "report"}
      /\ job[w] \notin asked => JobState(w) = "transferring"
  <2>1. pc[w] \in TransferLabels
    BY DEF CheckFlag, CheckDesired, CheckDevice, NoticeInterrupt, FinishFile, DownloadFails, Panic, ReadReason,
           TransferLabels
  <2> QED BY <2>1, TruthfulWorker, OwningLabels DEF TransferLabels
<1>1. ASSUME NEW r \in StageReports, NEW ok \in WorkerReturns, Apply(w, StageReport(r), ok, "leave"), Steady,
             UNCHANGED <<out, guard>>
      PROVE  InterruptInv'
  <2>1. /\ StageReport(r) \in Commands /\ StageReport(r).kind = "stage" /\ StageReport(r).reason = "none"
    BY CommandShapes DEF StageReport, Command
  <2>2. ok \in Labels /\ "leave" \in Labels /\ ok # "clear"
    BY DEF WorkerReturns, Labels, WorkerLabels
  <2>3. UNCHANGED <<rows, mem, flag, reason, halted, phase, asked, job, call, out, guard>>
    BY <1>1 DEF Steady, storeVars, memoryVars, historyVars
  <2>4. out' = [out EXCEPT ![w] = out'[w]]
    BY <2>3 DEF CoordinatorInv, Shapes
  <2> QED BY <1>0, <1>1, <2>1, <2>2, <2>3, <2>4, TruthfulApply DEF Works
<1>r. {"loop", "leave"} \subseteq WorkerReturns
  BY DEF WorkerReturns
<1>2. CASE CheckFlag(w) \/ NoticeInterrupt(w)
  <2>1. PICK L \in {"reason", "check_desired"} : Jump(w, L) /\ (L = "reason" => flag[job[w]])
    BY <1>2 DEF CheckFlag, NoticeInterrupt
  <2> QED BY <1>0, <2>1, TruthfulJump DEF TransferLabels
<1>3. CASE CheckDesired(w)
  <2>1. CASE EndTransfer(w, "user_pause")
    BY <1>0, <2>1, TruthfulEnd
  <2>2. CASE Jump(w, "check_device")
    BY <1>0, <2>2, TruthfulJump DEF TransferLabels
  <2> QED BY <1>3, <2>1, <2>2 DEF CheckDesired
<1>4. CASE CheckDevice(w)
  <2>1. CASE EndTransfer(w, "capture_pause")
    BY <1>0, <2>1, TruthfulEnd
  <2>2. CASE EndTransfer(w, "not_ready")
    BY <1>0, <2>2, TruthfulEnd
  <2>3. CASE Jump(w, "reading")
    BY <1>0, <2>3, TruthfulJump DEF TransferLabels
  <2> QED BY <1>4, <2>1, <2>2, <2>3 DEF CheckDevice
<1>5. CASE FinishFile(w)
  <2>1. CASE Apply(w, StageReport(Report("transfer_complete", "transferring")), "loop", "leave")
    BY <1>1, <1>r, <1>5, <2>1, WorkerReports DEF FinishFile
  <2>2. CASE Goto(w, "check_flag") /\ UNCHANGED frame
    <3>1. UNCHANGED <<rows, mem, flag, reason, halted, phase, asked, job, call, out, guard, frame>>
      BY <1>5, <2>2 DEF FinishFile, Steady, storeVars, memoryVars, historyVars
    <3>2. pc'[w] = "check_flag" /\ \A u \in Threads \ {w} : pc'[u] = pc[u]
      BY <1>0, <2>2 DEF Goto, CoordinatorInv, Shapes
    <3>3. Alone(w)
      BY <3>1, <3>2 DEF Alone
    <3>4. Speaks(w)' /\ Answers(w)' /\ Works(w)'
      BY <1>0, <3>1, <3>2 DEF Speaks, Answers, Works, AfterTransfer, InSerial, ApplyLabels
    <3>5. ~Clears(w) /\ ~Past(w)
      BY <1>5 DEF Clears, Past, ApplyLabels, AfterTransfer, FinishFile
    <3> QED BY <1>0, <3>1, <3>2, <3>3, <3>4, <3>5, CalmStep
  <2> QED BY <1>5, <2>1, <2>2 DEF FinishFile
<1>6. CASE DownloadFails(w)
  BY <1>1, <1>r, <1>6, WorkerReports DEF DownloadFails, TransferFails, ApplyFrom, workerVars
<1>7. CASE Panic(w)
  <2>1. /\ Command("panicked") \in Commands /\ Command("panicked").kind = "panicked"
        /\ Command("panicked").reason = "none" /\ "clear" \in Labels
    BY CommandShapes DEF Command, WorkerKinds, Labels, WorkerLabels
  <2>2. /\ Apply(w, Command("panicked"), "clear", "clear") /\ out' = [out EXCEPT ![w] = "panicked"]
        /\ guard' = [guard EXCEPT ![w] = FALSE]
        /\ UNCHANGED <<rows, mem, flag, reason, halted, phase, asked, job, call>>
    BY <1>7 DEF Panic, DropLease, storeVars, historyVars
  <2>3. out'[w] = "panicked" /\ \A u \in Workers \ {w} : guard'[u] = guard[u]
    BY <2>2 DEF CoordinatorInv, Shapes
  <2> QED BY <1>0, <2>1, <2>2, <2>3, TruthfulApply
<1>8. CASE ReadReason(w)
  <2>1. pc[w] = "reason" /\ EndTransfer(w, interrupt_outcome(w))
    BY <1>8 DEF ReadReason
  <2>2. reason[job[w]] \in Reasons \cup {"none"}
    BY <1>0, TruthfulWorker DEF CoordinatorInv, Shapes
  <2>3. /\ interrupt_outcome(w) # "panicked"
        /\ job[w] \notin asked => /\ interrupt_outcome(w) # "cancel"
                                  /\ interrupt_outcome(w) = "shutdown" => phase # "running"
    BY <2>1, <2>2, ReasonIsGenuine DEF interrupt_outcome, Reasons
  <2> QED BY <1>0, <2>1, <2>3, TruthfulEnd
<1> QED BY <1>2, <1>3, <1>4, <1>5, <1>6, <1>7, <1>8

(* A worker claims a job, and lets go of it. *)
LEMMA TruthfulClaims ==
    ASSUME CoordinatorInv, InterruptInv, NEW w \in Workers,
           \/ ClaimNotification(w) \/ try_claim(w) \/ try_acquire(w) \/ ReleaseTarget(w) \/ ReleaseActive(w)
    PROVE  InterruptInv'
<1>0. w \in Threads /\ w \notin Clients /\ Answers(w) /\ Works(w)
  BY TruthfulWorker
<1>1. UNCHANGED <<rows, mem, flag, reason, halted, phase, asked, call, frame>>
  BY DEF ClaimNotification, try_claim, try_acquire, ReleaseTarget, ReleaseActive, storeVars, historyVars
<1>2. /\ pc[w] \in {"idle", "popped", "claimed", "leave", "release_active"}
      /\ pc'[w] \in {"idle", "popped", "claimed", "loop", "release_active", "exited"}
      /\ \A u \in Threads \ {w} : pc'[u] = pc[u]
      /\ pc'[w] = "loop" => phase = "running"
      /\ pc'[w] = "popped" => pc[w] = "idle" /\ out' = out
      /\ pc'[w] = "idle" => (pc[w] = "popped" /\ out' = out) \/ out'[w] = "none"
      /\ out' = out \/ out' = [out EXCEPT ![w] = "none"]
      /\ pc'[w] = "popped" \/ job' = job
  <2>1. pc \in [Threads -> Labels] /\ out \in [Workers -> Outs]
    BY DEF CoordinatorInv, Shapes
  <2>2. CASE ClaimNotification(w)
    BY <1>0, <2>1, <2>2 DEF ClaimNotification, Goto, workerVars
  <2>3. CASE try_claim(w)
    BY <1>0, <2>1, <2>3 DEF try_claim, Goto, workerVars
  <2>4. CASE try_acquire(w)
    BY <1>0, <2>1, <2>4 DEF try_acquire, Goto
  <2>5. CASE ReleaseTarget(w)
    BY <1>0, <2>1, <2>5 DEF ReleaseTarget, Goto
  <2>6. CASE ReleaseActive(w)
    BY <1>0, <2>1, <2>6 DEF ReleaseActive, Goto
  <2> QED BY <2>2, <2>3, <2>4, <2>5, <2>6
<1>3. Alone(w)
  <2>1. \A u \in Threads \ {w} : job'[u] = job[u]
    BY <1>0 DEF CoordinatorInv, Shapes, ClaimNotification, try_claim, try_acquire, ReleaseTarget, ReleaseActive
  <2>2. \A u \in Workers \ {w} : out'[u] = out[u] /\ guard'[u] = guard[u]
    <3>1. guard \in [Workers -> BOOLEAN] /\ out \in [Workers -> Outs]
      BY DEF CoordinatorInv, Shapes
    <3>2. guard' = guard \/ \E g \in BOOLEAN : guard' = [guard EXCEPT ![w] = g]
      BY DEF ClaimNotification, try_claim, try_acquire, ReleaseTarget, ReleaseActive, DropLease, workerVars
    <3> QED BY <1>2, <3>1, <3>2
  <2> QED BY <1>1, <1>2, <2>1, <2>2 DEF Alone
<1>4. out'[w] = out[w] \/ out'[w] = "none"
  BY <1>2 DEF CoordinatorInv, Shapes
<1>5. Speaks(w)'
  BY <1>2 DEF Speaks, ApplyLabels
<1>6. Answers(w)'
  BY <1>0, <1>2 DEF Answers, ApplyLabels
<1>7. Works(w)'
  <2>1. pc'[w] \notin AfterTransfer \cup InSerial \cup {"lock"}
    BY <1>2 DEF AfterTransfer, InSerial
  <2>2. CASE pc'[w] = "popped"
    BY <1>0, <1>1, <1>2, <2>1, <2>2 DEF Answers, Works
  <2>3. CASE job' = job
    BY <1>0, <1>1, <1>4, <2>1, <2>3 DEF Works
  <2> QED BY <1>2, <2>2, <2>3
<1>8. ~Clears(w)
  BY <1>2 DEF Clears
<1>9. pc'[w] = "loop" \/ Past(w)'
  BY <1>2 DEF Past
<1>10. pc'[w] \notin {"raise", "reason"}
  BY <1>2
<1>11. phase # "running" => Past(w)'
  BY <1>2, <1>9
<1>12. job'[w] = job[w] \/ Past(w)'
  BY <1>2, <1>9
<1> QED BY <1>0, <1>1, <1>3, <1>5, <1>6, <1>7, <1>8, <1>10, <1>11, <1>12, CalmStep

(* A worker that claims a job after the stop was requested. *)
LEMMA TruthfulShutdown ==
    ASSUME CoordinatorInv, InterruptInv, NEW w \in Workers, SeeShutdown(w)
    PROVE  InterruptInv'
<1>0. /\ w \in Threads /\ w \notin Clients /\ Answers(w) /\ Works(w) /\ job[w] \in JobIds /\ phase # "running"
      /\ pc[w] = "claimed"
  BY TruthfulWorker DEF SeeShutdown
<1>1. UNCHANGED <<rows, mem, halted, phase, asked, call, frame, job, guard>>
  BY DEF SeeShutdown, storeVars, historyVars
<1>s. /\ flag \in [JobIds -> BOOLEAN] /\ reason \in [JobIds -> Reasons \cup {"none"}] /\ out \in [Workers -> Outs]
      /\ pc \in [Threads -> Labels]
  BY DEF CoordinatorInv, Shapes, InterruptInv, InterruptShapes
<1>2. /\ pc'[w] = "release_active" /\ \A u \in Threads \ {w} : pc'[u] = pc[u]
      /\ out'[w] = "exiting" /\ \A u \in Workers \ {w} : out'[u] = out[u]
      /\ flag' \in [JobIds -> BOOLEAN]
      /\ \A j \in JobIds : (reason'[j] = reason[j] /\ flag'[j] = flag[j]) \/ reason'[j] = "shutdown"
  BY <1>0, <1>s DEF SeeShutdown, Goto
<1>3. Alone(w)
  BY <1>1, <1>2 DEF Alone
<1>4. Speaks(w)' /\ Answers(w)' /\ Works(w)'
  BY <1>2 DEF Speaks, Answers, Works, ApplyLabels, AfterTransfer, InSerial
<1>5. ASSUME NEW j \in JobIds
      PROVE  Unasked(j)'
  <2>1. Unasked(j)
    BY DEF InterruptInv
  <2>2. CASE j \in asked
    BY <1>1, <2>2 DEF Unasked
  <2>3. CASE j \notin asked
    <3>1. Explained(j)
      BY <2>1, <2>3 DEF Unasked
    <3>2. (flag[j] \/ halted[j] = "told") => Raised(j)
      BY DEF Raised
    <3>3. ~Clears(w) /\ Past(w)'
      BY <1>0, <1>2 DEF Clears, Past
    <3>4. Explained(j)'
      BY <1>1, <1>2, <1>3, <3>1, <3>2, <3>3, ExplainedKept
    <3> QED BY <1>0, <1>1, <1>2, <2>1, <3>4 DEF Unasked
  <2> QED BY <2>2, <2>3
<1>6. InterruptShapes'
  BY <1>1, <1>2 DEF InterruptInv, InterruptShapes
<1> QED BY <1>0, <1>1, <1>3, <1>4, <1>5, <1>6, TruthStep

(* clear_interrupt outside the critical section.  A reason wiped under a flag that was *)
(* raised in between is explained by the report that follows, or by the failure the    *)
(* panic left.                                                                         *)
LEMMA TruthfulClears ==
    ASSUME CoordinatorInv, InterruptInv, NEW w \in Workers, ClearFlag(w) \/ ClearReason(w)
    PROVE  InterruptInv'
<1>0. /\ w \in Threads /\ w \notin Clients /\ Answers(w) /\ Works(w) /\ job[w] \in JobIds
      /\ pc[w] \in {"clear", "clear_reason"} /\ JobState(w) = rows[job[w]].state
  BY TruthfulWorker DEF ClearFlag, ClearReason
<1>1. UNCHANGED <<rows, mem, halted, phase, asked, call, frame, job, guard, out>>
  BY DEF ClearFlag, ClearReason, storeVars, historyVars, workerVars
<1>s. /\ flag \in [JobIds -> BOOLEAN] /\ reason \in [JobIds -> Reasons \cup {"none"}]
      /\ pc \in [Threads -> Labels]
  BY DEF CoordinatorInv, Shapes, InterruptInv, InterruptShapes
<1>2. /\ pc'[w] \in {"clear_reason", "report"} /\ \A u \in Threads \ {w} : pc'[u] = pc[u]
      /\ flag' \in [JobIds -> BOOLEAN] /\ \A j \in JobIds : flag'[j] => flag[j]
      /\ \A j \in JobIds : reason'[j] = reason[j] \/ (j = job[w] /\ pc'[w] = "report" /\ reason'[j] = "none")
  <2>1. CASE ClearFlag(w)
    BY <1>0, <1>s, <2>1 DEF ClearFlag, Goto
  <2>2. CASE ClearReason(w)
    BY <1>0, <1>s, <2>2 DEF ClearReason, Goto
  <2> QED BY <2>1, <2>2
<1>3. Alone(w)
  BY <1>1, <1>2 DEF Alone
<1>4. Speaks(w)' /\ Answers(w)'
  BY <1>2 DEF Speaks, Answers, ApplyLabels
<1>w. Works(w)'
  BY <1>0, <1>1, <1>2 DEF Works, AfterTransfer, InSerial, JobState
<1>5. ASSUME NEW j \in JobIds
      PROVE  Unasked(j)'
  <2>1. Unasked(j)
    BY DEF InterruptInv
  <2>2. CASE j \in asked
    BY <1>1, <2>2 DEF Unasked
  <2>3. CASE j \notin asked
    <3>1. Explained(j)
      BY <2>1, <2>3 DEF Unasked
    <3>2. (flag[j] \/ halted[j] = "told") => Raised(j)
      BY DEF Raised
    <3>3. ~Clears(w) /\ Past(w)'
      BY <1>0, <1>2 DEF Clears, Past, AfterTransfer
    <3>4. Explained(j)'
      <4>1. CASE reason'[j] = reason[j]
        BY <1>1, <1>2, <1>3, <3>1, <3>2, <3>3, <4>1, ExplainedKept
      <4>2. CASE j = job[w] /\ pc'[w] = "report"
        <5>1. CASE out[w] = "panicked"
          <6>1. rows[j].state \in Terminal
            BY <1>0, <2>3, <4>2, <5>1 DEF Works, AfterTransfer
          <6> QED BY <1>1, <6>1 DEF Explained
        <5>2. CASE out[w] # "panicked"
          <6>1. job'[w] = j /\ Clears(w)'
            BY <1>1, <4>2, <5>2 DEF Clears
          <6> QED BY <6>1 DEF Explained
        <5> QED BY <5>1, <5>2
      <4> QED BY <1>2, <4>1, <4>2
    <3> QED BY <1>1, <1>2, <2>1, <3>4 DEF Unasked
  <2> QED BY <2>2, <2>3
<1>6. InterruptShapes'
  BY <1>1, <1>2 DEF InterruptInv, InterruptShapes
<1> QED BY <1>0, <1>1, <1>2, <1>3, <1>4, <1>w, <1>5, <1>6, TruthStep

(* The worker reports why it stopped. *)
LEMMA TruthfulReport ==
    ASSUME CoordinatorInv, InterruptInv, NEW w \in Workers, ReportInterrupt(w)
    PROVE  InterruptInv'
<1>0. /\ w \in Threads /\ w \notin Clients /\ Answers(w) /\ Works(w) /\ job[w] \in JobIds /\ pc[w] = "report"
  BY TruthfulWorker DEF ReportInterrupt
<1>1. CASE out[w] = "panicked" /\ Jump(w, "release_active")
  BY <1>0, <1>1, TruthfulJump DEF ApplyLabels, TransferLabels
<1>2. CASE out[w] # "panicked" /\ ApplyFrom(w, Interrupted(InterruptReason(w)), "leave", "leave")
  <2> DEFINE r == InterruptReason(w)
  <2>1. /\ r \in Outs /\ (r = "cancel" => out[w] = "cancel") /\ (r = "shutdown" => out[w] = "shutdown")
    BY DEF InterruptReason, Outs, Reasons, CoordinatorInv, Shapes
  <2> HIDE DEF r
  <2>2. Interrupted(r) \in Commands /\ Interrupted(r).kind = "interrupted" /\ Interrupted(r).reason = r
    BY <2>1, CommandShapes DEF Interrupted, Command
  <2>3. /\ Apply(w, Interrupted(r), "leave", "leave") /\ "leave" \in Labels
        /\ UNCHANGED <<rows, mem, flag, reason, halted, phase, asked, job, call, out, guard>>
    BY <1>2 DEF ApplyFrom, Steady, storeVars, memoryVars, historyVars, workerVars, Labels, WorkerLabels, r
  <2>4. out' = [out EXCEPT ![w] = out'[w]]
    BY <2>3 DEF CoordinatorInv, Shapes
  <2>5. /\ pc[w] \notin ApplyLabels \cup {"idle", "popped"}
        /\ job[w] \notin asked => /\ out[w] # "cancel" /\ (out[w] = "shutdown" => phase # "running")
                                  /\ JobState(w) = "transferring"
    BY <1>0, <1>2 DEF ApplyLabels, Works, AfterTransfer
  <2> QED BY <2>1, <2>2, <2>3, <2>4, <2>5, TruthfulApply
<1> QED BY <1>1, <1>2 DEF ReportInterrupt

(* Every step of a worker outside apply_checked. *)
LEMMA TruthfulWorkerStep ==
    ASSUME CoordinatorInv, InterruptInv, NEW w \in Workers, WorkerStep(w)
    PROVE  InterruptInv'
  BY TruthfulProcess, TruthfulTransfer, TruthfulClaims, TruthfulShutdown, TruthfulClears, TruthfulReport
     DEF WorkerStep

(* What the reducer decides for a job nobody cancels. *)
LEMMA ObservedHarmless ==
    ASSUME NEW a, a.state \in States, a.version \in Nat, NEW snapshot, snapshot.version \in Nat,
           snapshot.readiness \in Readiness
    PROVE  \A i \in 1..Len(decide_device_observed(a, snapshot).effects) :
              Harmless("device_observed", decide_device_observed(a, snapshot).effects[i])
<1> DEFINE record == RecordDeviceVersion(snapshot.version)
           target == ObservedTarget(a.state, snapshot.readiness)
           commits == IF Routable(a.state, target) THEN commits_towards(a, target) ELSE << >>
           d == decide_device_observed(a, snapshot)
<1>0. /\ d.effects \in Seq(Effects)
      /\ \A i \in 1..Len(d.effects) : d.effects[i].op = "commit" => d.effects[i].arg \in Early
  BY ObservedPlan DEF Plan, Leads
<1>t. "cancelling" \notin Early /\ "cancelled" \notin Early
  BY DEF Early, Parked
<1>1. CASE d = NoOp
  BY <1>1 DEF NoOp
<1>2. ASSUME NEW r \in {"capture_pause", "device_lost"}, d = Accepted(<< record, RequestInterrupt(r) >>)
      PROVE  \A i \in 1..Len(d.effects) : Harmless("device_observed", d.effects[i])
  <2> DEFINE e == << record, RequestInterrupt(r) >>
  <2>1. d.effects = e
    BY <1>2 DEF Accepted
  <2>2. Len(e) = 2
    OBVIOUS
  <2>3. e[1].op = "record_device_version" /\ e[2].op = "request_interrupt" /\ e[2].arg = r
    BY EffectFields
  <2> HIDE DEF e, d
  <2>4. \A i \in 1..Len(e) : i = 1 \/ i = 2
    BY <2>2
  <2> QED BY <2>1, <2>3, <2>4 DEF Harmless
<1>3. CASE d = Accepted(<< record >> \o commits)
  <2>1. d.effects = << record >> \o commits
    BY <1>3 DEF Accepted
  <2>2. commits \in Seq(Effects) /\ \A i \in 1..Len(commits) : commits[i].op = "commit"
    <3>0. target \in States
      BY StateNames DEF ObservedTarget, ParkingTarget, Readiness, States, Parked
    <3>1. CASE Routable(a.state, target)
      BY <3>0, <3>1, RouteFacts
    <3>2. CASE ~Routable(a.state, target)
      BY <3>2
    <3> QED BY <3>1, <3>2
  <2> HIDE DEF commits, target, d
  <2>3. \A i \in 1..Len(d.effects) : i = 1 \/ (i - 1 \in 1..Len(commits) /\ d.effects[i] = commits[i - 1])
    BY <2>1, <2>2, EffectShapes
  <2>4. d.effects[1] = record
    BY <2>1, <2>2, EffectShapes
  <2>5. \A i \in 1..Len(d.effects) : d.effects[i].op \in {"commit", "record_device_version"}
    BY <2>2, <2>3, <2>4, EffectFields
  <2> QED BY <1>0, <1>t, <2>5 DEF Harmless, d
<1> QED BY <1>1, <1>2, <1>3 DEF decide_device_observed

LEMMA DecisionHarmless ==
    ASSUME NEW a, a.state \in States \ {"cancelling", "cancelled"}, a.version \in Nat, NEW c \in Commands,
           c.kind \in WorkerKinds \cup {"resume"}, c.kind = "stage" => c.report \in StageReports,
           c.reason # "cancel", c.kind \in {"interrupted", "panicked"} => a.state = "transferring"
    PROVE  LET d == decide(a, c)
           IN  /\ ~IsRejected(d) => \A i \in 1..Len(d.effects) : Harmless(c.kind, d.effects[i])
               /\ c.kind = "panicked" =>
                    /\ ~IsRejected(d) /\ d.effects # << >>
                    /\ \A i \in 1..Len(d.effects) : d.effects[i].op = "commit" /\ d.effects[i].arg \in Terminal
               /\ c.kind = "interrupted" =>
                    /\ ~IsRejected(d)
                    /\ IF c.reason = "shutdown" THEN d.effects = << >>
                       ELSE d.effects # << >> /\ Head(d.effects).op = "clear_interrupt"
<1> DEFINE d == decide(a, c)
<1>s. "transferring" \notin Terminal
  BY StateNames
<1>1. CASE c.kind = "resume"
  <2>1. d = decide_resume(a)
    BY <1>1 DEF decide
  <2>2. CASE d = Accepted(<< SetDesiredRunState("run"), Commit(a.version, "queued"), Dispatch >>)
    <3> DEFINE e == << SetDesiredRunState("run"), Commit(a.version, "queued"), Dispatch >>
    <3>1. d.effects = e /\ Len(e) = 3
      BY <2>2 DEF Accepted
    <3>2. e[1].op = "set_desired" /\ e[2].op = "commit" /\ e[2].arg = "queued" /\ e[3].op = "dispatch"
      BY EffectFields
    <3> HIDE DEF e, d
    <3>3. \A i \in 1..Len(e) : i = 1 \/ i = 2 \/ i = 3
      BY <3>1
    <3> QED BY <1>1, <3>1, <3>2, <3>3 DEF Harmless, d
  <2>3. CASE d = Accepted(<< SetDesiredRunState("run"), Dispatch >>)
    <3> DEFINE e == << SetDesiredRunState("run"), Dispatch >>
    <3>1. d.effects = e /\ Len(e) = 2
      BY <2>3 DEF Accepted
    <3>2. e[1].op = "set_desired" /\ e[2].op = "dispatch"
      BY EffectFields
    <3> HIDE DEF e, d
    <3>3. \A i \in 1..Len(e) : i = 1 \/ i = 2
      BY <3>1
    <3> QED BY <1>1, <3>1, <3>2, <3>3 DEF Harmless, d
  <2> QED BY <1>1, <2>1, <2>2, <2>3 DEF decide_resume, IsRejected, Rejected
<1>2. CASE c.kind = "device_observed"
  <2>1. d = decide_device_observed(a, c.snapshot)
    BY <1>2 DEF decide
  <2>2. c.snapshot.version \in Nat /\ c.snapshot.readiness \in Readiness
    BY DEF Commands
  <2> QED BY <1>2, <2>1, <2>2, ObservedHarmless
<1>3. CASE c.kind = "stage"
  <2>1. d = decide_stage(a, c.report)
    BY <1>3 DEF decide
  <2>2. CASE IsRejected(d)
    BY <1>3, <2>2
  <2>3. CASE ~IsRejected(d)
    <3> DEFINE e == << Commit(a.version, c.report.to) >>
    <3>1. d.effects = e /\ Len(e) = 1 /\ e[1].op = "commit" /\ e[1].arg = c.report.to
      BY <2>1, <2>3, EffectFields DEF decide_stage, IsRejected, Rejected, Accepted
    <3>2. c.report.to \notin {"cancelling", "cancelled"}
      BY <1>3 DEF StageReports, Failures
    <3> HIDE DEF e, d
    <3>3. \A i \in 1..Len(e) : i = 1
      BY <3>1
    <3> QED BY <1>3, <3>1, <3>2, <3>3 DEF Harmless, d
  <2> QED BY <2>2, <2>3
<1>4. CASE c.kind = "interrupted"
  <2>1. d = decide_interrupted(a, c.reason) /\ a.state = "transferring"
    BY <1>4, <1>s DEF decide
  <2>2. CASE c.reason = "shutdown"
    <3>1. d = NoOp
      BY <2>1, <2>2 DEF decide_interrupted
    <3>2. d.effects = << >> /\ ~IsRejected(d)
      BY <3>1 DEF NoOp, IsRejected
    <3> QED BY <1>4, <2>2, <3>2
  <2>3. CASE c.reason # "shutdown"
    <3>1. PICK to \in {"paused_capture_active", "retry_wait"} :
             d = Accepted(<< ClearInterrupt, Commit(a.version, to) >>)
      BY <2>1, <2>3 DEF decide_interrupted
    <3> DEFINE e == << ClearInterrupt, Commit(a.version, to) >>
    <3>2. d.effects = e /\ Len(e) = 2 /\ ~IsRejected(d) /\ e # << >> /\ Head(e) = e[1]
      BY <3>1 DEF Accepted, IsRejected
    <3>3. e[1].op = "clear_interrupt" /\ e[2].op = "commit" /\ e[2].arg = to
      BY EffectFields
    <3> HIDE DEF e, d
    <3>4. \A i \in 1..Len(e) : i = 1 \/ i = 2
      BY <3>2
    <3> QED BY <1>4, <2>3, <3>2, <3>3, <3>4 DEF Harmless, d
  <2> QED BY <2>2, <2>3
<1>5. CASE c.kind = "panicked"
  <2>1. d = decide_worker_panic(a) /\ a.state = "transferring"
    BY <1>5, <1>s DEF decide
  <2>2. is_legal_transition("transferring", "failed_final") /\ Routable(a.state, "failed_final")
    BY <2>1, EdgeTable DEF Routable, Failures
  <2>3. d = Accepted(commits_towards(a, "failed_final"))
    BY <2>1, <2>2 DEF decide_worker_panic
  <2> DEFINE e == commits_towards(a, "failed_final")
  <2>4. d.effects = e /\ ~IsRejected(d)
    BY <2>3 DEF Accepted, IsRejected
  <2>5. e = [i \in 1..1 |-> Commit(a.version + i - 1, <<"failed_final">>[i])]
    <3>1. route(a.state, "failed_final") = <<"failed_final">>
      BY <2>1, <2>2 DEF route
    <3>2. Len(<<"failed_final">>) = 1
      OBVIOUS
    <3> QED BY <3>1, <3>2 DEF commits_towards
  <2>6. e \in Seq(Effects)
    BY <2>2, RouteFacts, StateNames
  <2>7. /\ Len(e) = 1 /\ e # << >> /\ e[1].op = "commit" /\ e[1].arg = "failed_final"
        /\ "failed_final" \notin {"cancelling", "cancelled"}
    BY <2>5, <2>6, EffectFields
  <2> HIDE DEF e, d
  <2>8. \A i \in 1..Len(e) : i = 1
    BY <2>7
  <2>9. \A i \in 1..Len(e) : Harmless(c.kind, e[i]) /\ e[i].op = "commit" /\ e[i].arg \in Terminal
    BY <2>7, <2>8, StateNames DEF Harmless
  <2> QED BY <1>5, <2>4, <2>7, <2>9 DEF d
<1> QED BY <1>1, <1>2, <1>3, <1>4, <1>5 DEF WorkerKinds

(* Who may be inside apply_checked for a job nobody cancels. *)
LEMMA UnaskedKinds ==
    ASSUME CoordinatorInv, InterruptInv, NobodyPauses, NEW t \in Threads,
           pc[t] \in ApplyLabels \ {"mint", "read"}, job[t] \notin asked
    PROVE  /\ Kind(t) \in WorkerKinds \cup {"resume"}
           /\ Kind(t) \in {"stage", "interrupted", "panicked"} => t \in Workers
           /\ pc[t] \notin {"await", "relock"} /\ Speaks(t)
<1>1. ThreadInv(t) /\ Speaks(t)
  BY DEF CoordinatorInv, InterruptInv
<1>2. t \in Workers => Kind(t) \in WorkerKinds
  BY <1>1 DEF ThreadInv, Role, WorkerRole
<1>3. t \in Tickers => Kind(t) = "device_observed"
  BY <1>1 DEF ThreadInv, Role, TickerRole
<1>4. t \in Clients => Kind(t) = "resume"
  <2>1. t \in Clients => call[t] # "cancel" /\ Kind(t) # "pause"
    BY DEF InterruptInv, NobodyPauses
  <2> QED BY <1>1, <2>1 DEF ThreadInv, Role, ClientRole
<1>5. pc[t] \in {"await", "relock"} => Kind(t) \in {"pause", "cancel"}
  BY <1>1 DEF ThreadInv, Waits
<1> QED BY <1>1, <1>2, <1>3, <1>4, <1>5, Roles DEF WorkerKinds

(* Where a thread inside apply_checked goes next. *)
LEMMA CallMoves ==
    ASSUME CoordinatorInv, InterruptInv, NEW t \in Threads, pc[t] \in ApplyLabels \ {"mint", "read"},
           UNCHANGED <<job, out>>,
           \/ pc'[t] \in ApplyLabels \ {"mint", "read", "lock"} /\ SameCall(t)
           \/ pc'[t] = frame[t].ok \/ pc'[t] = frame[t].err
           \/ t \in Clients /\ pc'[t] = "acked"
    PROVE  /\ t \in Workers => Answers(t)'
           /\ pc'[t] \in ApplyLabels => /\ pc'[t] \notin {"mint", "read", "lock"}
                                        /\ SameCall(t) /\ Kind(t)' = Kind(t)
           /\ pc'[t] \notin ApplyLabels =>
                /\ pc'[t] \notin TransferLabels
                /\ t \in Workers => /\ pc'[t] \in WorkerReturns \cup {"clear"}
                                    /\ pc'[t] = "clear" => Kind(t) = "panicked" /\ out[t] = "panicked"
           /\ t \in Workers /\ Past(t) => Past(t)'
<1>1. ThreadInv(t) /\ (t \in Workers => Answers(t))
  BY DEF CoordinatorInv, InterruptInv
<1>2. CASE pc'[t] \in ApplyLabels \ {"mint", "read", "lock"} /\ SameCall(t)
  <2>1. Kind(t)' = Kind(t)
    BY <1>2 DEF Kind, SameCall
  <2>2. t \in Workers => Answers(t)'
    BY <1>1, <1>2, <2>1, OwningLabels DEF Answers, SameCall
  <2>3. t \in Workers /\ Past(t) => Past(t)'
    BY <1>2, <2>1, OwningLabels DEF Past, AfterTransfer, ApplyLabels
  <2> QED BY <1>2, <2>1, <2>2, <2>3
<1>3. CASE t \in Workers /\ (pc'[t] = frame[t].ok \/ pc'[t] = frame[t].err)
  <2>0. WorkerRole(t) /\ Answers(t)
    BY <1>1, <1>3 DEF ThreadInv, Role
  <2>1. /\ pc'[t] \in WorkerReturns \cup {"clear"}
        /\ pc'[t] = "clear" => out[t] = "panicked"
    BY <1>3, <2>0 DEF WorkerRole, WorkerReturns
  <2>2. pc'[t] = "clear" => Kind(t) = "panicked"
    BY <1>3, <2>0 DEF Answers
  <2>3. pc'[t] \notin ApplyLabels \cup TransferLabels \cup {"idle", "popped"}
    BY <2>1 DEF WorkerReturns, ApplyLabels, TransferLabels
  <2>4. Answers(t)'
    BY <2>3, OwningLabels DEF Answers
  <2>5. Past(t) => Past(t)'
    <3>1. Past(t) => Kind(t) = "interrupted"
      BY OwningLabels DEF Past, AfterTransfer, ApplyLabels
    <3>2. Kind(t) = "interrupted" => pc'[t] = "leave"
      BY <1>3, <2>0 DEF Answers
    <3> QED BY <3>1, <3>2 DEF Past
  <2> QED BY <2>1, <2>2, <2>3, <2>4, <2>5
<1>4. CASE t \notin Workers /\ ~(pc'[t] \in ApplyLabels \ {"mint", "read", "lock"} /\ SameCall(t))
  <2>1. pc'[t] \in {"idle", "tick_schedule", "finalize", "acked", "refused"}
    BY <1>1, <1>4, Roles DEF ThreadInv, Role, TickerRole, ClientRole
  <2> QED BY <1>4, <2>1 DEF ApplyLabels, TransferLabels
<1> QED BY <1>2, <1>3, <1>4, Roles

(* A step inside apply_checked touches the interrupt and the state of one job. *)
LEMMA CallStep ==
    ASSUME CoordinatorInv, InterruptInv, NEW t \in Threads, pc[t] \in ApplyLabels, job[t] \in JobIds,
           UNCHANGED <<halted, phase, asked, job, out, guard>>,
           \A u \in Threads \ {t} : pc'[u] = pc[u] /\ frame'[u] = frame[u],
           \A c \in Clients : call'[c] = call[c] \/ (call[c] = "pause" /\ call'[c] = "overtaken"),
           flag' \in [JobIds -> BOOLEAN],
           \A j \in JobIds \ {job[t]} : /\ flag'[j] = flag[j] /\ reason'[j] = reason[j]
                                        /\ rows'[j].state = rows[j].state /\ mem'[j].state = mem[j].state,
           flag'[job[t]] => flag[job[t]] \/ serial[job[t]] = t,
           t \in Workers => Answers(t)',
           job[t] \notin asked =>
              /\ \/ mem'[job[t]].state = mem[job[t]].state
                 \/ mem[job[t]].state \notin Terminal \cup {"transferring"} \/ t \in Workers
              /\ Speaks(t)' /\ (t \in Workers => Works(t)')
              /\ rows'[job[t]].state \notin {"cancelling", "cancelled"}
              /\ reason'[job[t]] # "cancel" /\ (reason'[job[t]] = "shutdown" => phase # "running")
              /\ Explained(job[t])'
    PROVE  InterruptInv'
<1>1. Alone(t)
  BY Roles DEF Alone
<1>2. InterruptShapes'
  BY DEF InterruptInv, InterruptShapes
<1>3. ASSUME NEW j \in JobIds
      PROVE  Unasked(j)'
  <2>1. CASE j \in asked
    BY <2>1 DEF Unasked
  <2>2. CASE j \notin asked /\ j = job[t]
    BY <2>2 DEF Unasked
  <2>3. CASE j \notin asked /\ j # job[t]
    <3>1. Unasked(j) /\ Explained(j)
      BY <2>3 DEF InterruptInv, Unasked
    <3>2. flag[j] \/ halted[j] = "told" => Raised(j)
      BY DEF Raised
    <3>3. Explained(j)'
      BY <1>1, <2>3, <3>1, <3>2, ExplainedKept
    <3> QED BY <2>3, <3>1, <3>3 DEF Unasked
  <2> QED BY <2>1, <2>2, <2>3
<1>4. Speaks(t)' /\ (t \in Workers => Works(t)')
  BY DEF Speaks, Works
<1>5. t \in Clients /\ call'[t] = "cancel" => job'[t] \in asked'
  BY DEF InterruptInv
<1>6. t \in Workers => Owning(t)
  BY OwningLabels DEF Owning
<1> QED BY <1>1, <1>2, <1>3, <1>4, <1>5, <1>6, TruthStep

(* What a thread inside the critical section of a job nobody cancels has left to do. *)
LEMMA TailSafe ==
    ASSUME CoordinatorInv, InterruptInv, NobodyPauses, NEW t \in Threads, pc[t] \in InSerial, job[t] \notin asked
    PROVE  LET g == frame[t].eff
               e == Tail(g)
           IN  /\ g \in Seq(Effects) /\ g # << >> /\ Head(g) \in Effects /\ e \in Seq(Effects)
               /\ Harmless(Kind(t), Head(g)) /\ serial[job[t]] = t /\ job[t] \in JobIds
               /\ \A i \in 1..Len(e) : Harmless(Kind(t), e[i]) /\ e[i].op # "await_worker_release"
               /\ Kind(t) = "panicked" =>
                    /\ Head(g).op = "commit" /\ Head(g).arg \in Terminal
                    /\ \A i \in 1..Len(e) : e[i].op = "commit" /\ e[i].arg \in Terminal
<1> DEFINE g == frame[t].eff
           e == Tail(g)
<1>0. pc[t] \in ApplyLabels \ {"mint", "read"}
  BY DEF InSerial, ApplyLabels
<1>1. /\ Kind(t) \in WorkerKinds \cup {"resume"} /\ Speaks(t)
      /\ Kind(t) = "panicked" => t \in Workers
  BY <1>0, UnaskedKinds
<1>2. ThreadInv(t) /\ job[t] \in JobIds /\ g \in Seq(Effects)
  BY <1>0, ApplyFacts
<1>3. g # << >> /\ serial[job[t]] = t /\ Ordered(Kind(t), g, JobState(t))
  BY <1>2 DEF ThreadInv, Held, Plan
<1>4. \A i \in 1..Len(g) : Harmless(Kind(t), g[i]) /\ g[i].op # "await_worker_release"
  BY <1>0, <1>1, <1>3 DEF Speaks, Ordered, WorkerKinds
<1>5. Kind(t) = "panicked" => \A i \in 1..Len(g) : g[i].op = "commit" /\ g[i].arg \in Terminal
  BY <1>1 DEF InterruptInv, Works
<1> HIDE DEF g
<1>6. /\ Len(g) \in Nat /\ Len(g) >= 1 /\ Head(g) = g[1] /\ Head(g) \in Effects
      /\ e \in Seq(Effects) /\ \A i \in 1..Len(e) : e[i] = g[i + 1] /\ i + 1 \in 1..Len(g)
  BY <1>2, <1>3, TailFacts
<1> QED BY <1>2, <1>3, <1>4, <1>5, <1>6 DEF g

(* Such a thread goes on. *)
LEMMA GoesOn ==
    ASSUME CoordinatorInv, InterruptInv, NobodyPauses, NEW t \in Threads, pc[t] \in {"lock"} \cup InSerial,
           job[t] \notin asked, UNCHANGED <<job, out, phase, asked>>, NEW e \in Seq(Effects),
           Proceeds(t, job[t], e),
           \A i \in 1..Len(e) : Harmless(Kind(t), e[i]) /\ e[i].op # "await_worker_release",
           Kind(t) = "panicked" =>
              /\ e = << >> => JobState(t)' \in Terminal
              /\ \A i \in 1..Len(e) : e[i].op = "commit" /\ e[i].arg \in Terminal
    PROVE  /\ Speaks(t)' /\ pc'[t] \notin {"raise", "reason"}
           /\ t \in Workers => Works(t)'
           /\ e # << >> => pc'[t] = "perform" /\ frame'[t].eff = e /\ Kind(t)' = Kind(t)
           /\ e = << >> => pc'[t] = frame[t].ok
<1>0. /\ pc[t] \in ApplyLabels \ {"mint", "read"} /\ Speaks(t)
      /\ t \in Workers => Works(t)
  <2>1. pc[t] \in ApplyLabels \ {"mint", "read"}
    BY DEF InSerial, ApplyLabels
  <2> QED BY <2>1, UnaskedKinds DEF InterruptInv
<1>1. CASE e # << >>
  <2>1. Head(e).op # "await_worker_release"
    <3>1. 1 \in 1..Len(e) /\ Head(e) = e[1]
      BY <1>1, TailFacts
    <3> QED BY <3>1
  <2>2. pc'[t] = "perform" /\ frame'[t].eff = e /\ SameCall(t)
    BY <1>1, <2>1 DEF Proceeds
  <2>3. Kind(t)' = Kind(t) /\ frame'[t].cmd = frame[t].cmd
    BY <2>2 DEF Kind, SameCall
  <2>4. Speaks(t)'
    BY <1>0, <2>2, <2>3 DEF Speaks
  <2>5. t \in Workers => Works(t)'
    BY <1>0, <2>2, <2>3 DEF Works, AfterTransfer
  <2> QED BY <1>1, <2>2, <2>3, <2>4, <2>5
<1>2. CASE e = << >>
  <2>1. pc'[t] = frame[t].ok
    BY <1>2 DEF Proceeds
  <2>2. /\ pc'[t] \in ApplyLabels => pc'[t] \notin {"mint", "read", "lock"} /\ SameCall(t)
        /\ pc'[t] \notin ApplyLabels =>
             /\ pc'[t] \notin TransferLabels
             /\ t \in Workers => /\ pc'[t] \in WorkerReturns \cup {"clear"}
                                 /\ pc'[t] = "clear" => Kind(t) = "panicked" /\ out[t] = "panicked"
    BY <1>0, <2>1, CallMoves
  <2>3. pc'[t] \notin ApplyLabels
    <3>1. ThreadInv(t)
      BY DEF CoordinatorInv
    <3>2. t \in Workers => frame[t].ok \in WorkerReturns \cup {"clear"}
      BY <1>0, <3>1 DEF ThreadInv, Role, WorkerRole
    <3>3. t \notin Workers => frame[t].ok \in {"idle", "tick_schedule", "finalize", "acked"}
      BY <1>0, <3>1, Roles DEF ThreadInv, Role, TickerRole, ClientRole
    <3> QED BY <2>1, <3>2, <3>3 DEF WorkerReturns, ApplyLabels
  <2>4. Speaks(t)'
    BY <2>3 DEF Speaks
  <2>5. ASSUME t \in Workers
        PROVE  Works(t)'
    <3>1. pc'[t] \in AfterTransfer => pc'[t] = "clear"
      BY <2>2, <2>3, <2>5 DEF WorkerReturns, AfterTransfer
    <3>2. pc'[t] \notin InSerial \cup {"lock"}
      BY <2>3 DEF InSerial, ApplyLabels
    <3> QED BY <1>0, <1>2, <2>2, <2>3, <2>5, <3>1, <3>2 DEF Works
  <2>6. pc'[t] \notin {"raise", "reason"}
    BY <2>2, <2>3 DEF ApplyLabels, TransferLabels
  <2> QED BY <1>2, <2>1, <2>4, <2>5, <2>6
<1> QED BY <1>1, <1>2

(* Once the process stops, the worker that owns a job alone decides who looks at it. *)
LEMMA OnlyOwnerLooks ==
    ASSUME CoordinatorInv, NEW t \in Workers, Owning(t), Alone(t), job'[t] = job[t], Past(t)'
    PROVE  \A w \in Workers : job'[w] = job[t] => Past(w)'
<1> SUFFICES ASSUME NEW w \in Workers, job'[w] = job[t], w # t
             PROVE  Past(w)'
  OBVIOUS
<1>1. pc'[w] = pc[w] /\ job'[w] = job[w]
  BY Roles DEF Alone
<1>2. ~Owning(w)
  BY <1>1 DEF CoordinatorInv, Apart
<1> QED BY <1>1, <1>2 DEF Owning, Past

(* The device is read. *)
LEMMA TruthfulReading ==
    ASSUME CoordinatorInv, InterruptInv, NEW t \in Threads, MintVersion(t) \/ ReadDevice(t)
    PROVE  InterruptInv'
<1>0. pc[t] \in {"mint", "read"} /\ pc[t] \in ApplyLabels
  BY DEF MintVersion, ReadDevice, ApplyLabels
<1>1. /\ ThreadInv(t) /\ job[t] \in JobIds /\ frame[t] \in Frames /\ Speaks(t)
      /\ t \in Workers => Answers(t) /\ Works(t) /\ WorkerRole(t)
  BY <1>0, ApplyFacts DEF InterruptInv, ThreadInv, Role
<1>2. t \notin Clients
  BY <1>0, <1>1 DEF ThreadInv, Role, ClientRole, ClientLabels
<1>3. UNCHANGED <<rows, mem, flag, reason, halted, phase, asked, job, out, guard, call>>
  BY DEF MintVersion, ReadDevice, storeVars, memoryVars, observeVars, workerVars, historyVars
<1>s. pc \in [Threads -> Labels] /\ frame \in [Threads -> Frames] /\ device \in Readiness
  BY DEF CoordinatorInv, Shapes
<1>4. CASE MintVersion(t)
  <2>1. pc'[t] = "read" /\ UNCHANGED frame /\ \A u \in Threads \ {t} : pc'[u] = pc[u]
    BY <1>s, <1>4 DEF MintVersion, Goto
  <2>2. Alone(t) /\ Kind(t)' = Kind(t)
    BY <1>3, <2>1 DEF Alone, Kind
  <2>3. Speaks(t)'
    BY <1>0, <1>1, <1>3, <2>1, <2>2 DEF Speaks
  <2>4. t \in Workers => Answers(t)'
    BY <1>0, <1>1, <1>3, <2>1, <2>2 DEF Answers
  <2>5. t \in Workers => Works(t)'
    BY <1>1, <1>3, <2>1 DEF Works, AfterTransfer, InSerial
  <2>6. t \in Workers => ~Clears(t) /\ ~Past(t)
    BY <1>0, <1>1 DEF Answers, Clears, Past, AfterTransfer
  <2> QED BY <1>2, <1>3, <2>1, <2>2, <2>3, <2>4, <2>5, <2>6, CalmStep
<1>5. CASE ReadDevice(t)
  <2> DEFINE cmd == DeviceObserved([version |-> 1, readiness |-> device])
             ok == frame[t].hint[device]
             f == [frame[t] EXCEPT !.cmd = cmd, !.ok = ok]
  <2>1. pc' = [pc EXCEPT ![t] = "lock"] /\ frame' = [frame EXCEPT ![t] = f]
    BY <1>5 DEF ReadDevice, Goto
  <2>2. cmd.kind = "device_observed" /\ cmd.reason = "none"
    BY DEF DeviceObserved, Command
  <2>3. t \in Workers => ok \in WorkerReturns /\ frame[t].err = "leave"
    BY <1>s, <1>0, <1>1 DEF WorkerRole
  <2> HIDE DEF cmd, ok
  <2>4. f.cmd = cmd /\ f.ok = ok /\ f.err = frame[t].err /\ f.eff = frame[t].eff
    BY <1>1 DEF Frames
  <2> HIDE DEF f
  <2>5. /\ pc'[t] = "lock" /\ frame'[t] = f /\ Kind(t)' = "device_observed"
        /\ \A u \in Threads \ {t} : pc'[u] = pc[u] /\ frame'[u] = frame[u]
    BY <1>s, <2>1, <2>2, <2>4 DEF Kind
  <2>6. Alone(t)
    BY <1>3, <2>5 DEF Alone
  <2>7. Speaks(t)'
    <3>1. job[t] \notin asked => frame'[t].eff = << >> /\ frame'[t].cmd.reason = "none"
      BY <1>0, <1>1, <2>2, <2>4, <2>5 DEF Speaks
    <3>2. Len(<< >>) = 0
      OBVIOUS
    <3> QED BY <1>3, <2>5, <3>1, <3>2 DEF Speaks
  <2>8. t \in Workers => Answers(t)'
    BY <1>1, <1>3, <2>3, <2>4, <2>5 DEF Answers, WorkerReturns
  <2>9. t \in Workers => Works(t)'
    BY <1>1, <1>3, <2>5 DEF Works, AfterTransfer, InSerial
  <2>10. t \in Workers => ~Clears(t) /\ ~Past(t)
    BY <1>0, <1>1 DEF Answers, Clears, Past, AfterTransfer
  <2> QED BY <1>2, <1>3, <2>5, <2>6, <2>7, <2>8, <2>9, <2>10, CalmStep
<1> QED BY <1>4, <1>5

(* The critical section is entered.  A worker that was interrupted is not refused: it *)
(* goes on to clear the flag it left, or the process is stopping.                     *)
LEMMA TruthfulEnter ==
    ASSUME CoordinatorInv, InterruptInv, NobodyPauses, NEW t \in Threads, EnterSerial(t)
    PROVE  InterruptInv'
<1> DEFINE a == Aggregate(t)
           d == decide(a, frame[t].cmd)
           j == job[t]
<1>0. pc[t] = "lock" /\ pc[t] \in ApplyLabels /\ pc[t] \in ApplyLabels \ {"mint", "read"}
  BY DEF EnterSerial, ApplyLabels
<1>1. /\ ThreadInv(t) /\ j \in JobIds /\ mem[j].state # "absent" /\ frame[t] \in Frames
      /\ Kind(t) \in WorkerKinds \cup ClientKinds
  BY <1>0, ApplyFacts
<1>s. /\ Shapes /\ mem[j] \in Notes /\ version[j] \in Nat /\ flag \in [JobIds -> BOOLEAN]
      /\ mem[j].state = rows[j].state
  BY <1>1 DEF CoordinatorInv, Shapes, InterruptInv, InterruptShapes, JobInv
<1>3. UNCHANGED <<rows, mem, flag, reason, halted, phase, asked, job, out, guard, call>>
  BY DEF EnterSerial, storeVars, workerVars, historyVars
<1>a. a.state = mem[j].state /\ a.version = version[j]
  BY DEF Aggregate
<1>b. /\ a.state \in States /\ a.version \in Nat /\ frame[t].cmd \in Commands /\ frame[t].cmd.kind = Kind(t)
      /\ Kind(t) = "stage" => frame[t].cmd.report \in StageReports
  BY <1>0, <1>1, <1>s, <1>a DEF Notes, Frames, Kind, ThreadInv, Reports
<1> HIDE DEF a
<1>4. /\ \A u \in Threads \ {t} : pc'[u] = pc[u] /\ frame'[u] = frame[u]
      /\ \/ /\ IsRejected(d) /\ pc'[t] = RefusedLabel(t, d)
         \/ ~IsRejected(d) /\ d.effects \in Seq(Effects) /\ Proceeds(t, j, d.effects)
  <2>1. CASE IsRejected(d) /\ Return(t, RefusedLabel(t, d))
    <3>1. RefusedLabel(t, d) \in Labels
      BY <1>1 DEF RefusedLabel, Frames, Labels, ClientLabels
    <3> QED BY <1>s, <2>1, <3>1, ReturnFrame DEF Return
  <2>2. CASE ~IsRejected(d) /\ Continue(t, j, d.effects)
    <3>1. d.effects \in Seq(Effects)
      BY <1>1, <1>b, <2>2, DecisionPlan
    <3>2. Proceeds(t, j, d.effects)
      BY <1>1, <1>s, <2>2, <3>1, ContinueFrame
    <3> QED BY <2>2, <3>1, <3>2 DEF Proceeds
  <2> QED BY <2>1, <2>2 DEF EnterSerial, a
<1>5. \/ pc'[t] \in ApplyLabels \ {"mint", "read", "lock"} /\ SameCall(t)
      \/ pc'[t] = frame[t].ok \/ pc'[t] = frame[t].err
      \/ t \in Clients /\ pc'[t] = "acked"
  <2>1. CASE IsRejected(d) /\ pc'[t] = RefusedLabel(t, d)
    <3>1. RefusedLabel(t, d) = frame[t].err \/ (RefusedLabel(t, d) = "acked" /\ Kind(t) \in {"cancel", "finalize_cancel"})
      BY DEF RefusedLabel, Kind
    <3> QED BY <1>0, <2>1, <3>1, ApplyFacts
  <2>2. CASE Proceeds(t, j, d.effects)
    BY <2>2 DEF Proceeds, ApplyLabels
  <2> QED BY <1>4, <2>1, <2>2
<1>6. t \in Workers => Answers(t)'
  BY <1>0, <1>3, <1>5, CallMoves
<1>7. ASSUME j \notin asked
      PROVE  Speaks(t)' /\ (t \in Workers => Works(t)') /\ Explained(j)'
  <2>1. /\ Kind(t) \in WorkerKinds \cup {"resume"} /\ Speaks(t) /\ Unasked(j)
        /\ Kind(t) \in {"stage", "interrupted", "panicked"} => t \in Workers
    BY <1>0, <1>1, <1>7, UnaskedKinds DEF InterruptInv
  <2>2. /\ frame[t].cmd.reason # "cancel" /\ (frame[t].cmd.reason = "shutdown" => phase # "running")
        /\ a.state \notin {"cancelling", "cancelled"} /\ Explained(j)
    BY <1>0, <1>7, <1>a, <1>s, <2>1 DEF Speaks, Unasked
  <2>3. Kind(t) \in {"interrupted", "panicked"} => a.state = "transferring"
    BY <1>0, <1>7, <1>a, <2>1 DEF InterruptInv, Works, JobState
  <2>4. /\ ~IsRejected(d) => \A i \in 1..Len(d.effects) : Harmless(Kind(t), d.effects[i])
        /\ Kind(t) = "panicked" =>
             /\ ~IsRejected(d) /\ d.effects # << >>
             /\ \A i \in 1..Len(d.effects) : d.effects[i].op = "commit" /\ d.effects[i].arg \in Terminal
        /\ Kind(t) = "interrupted" =>
             /\ ~IsRejected(d)
             /\ IF frame[t].cmd.reason = "shutdown" THEN d.effects = << >>
                ELSE d.effects # << >> /\ Head(d.effects).op = "clear_interrupt"
    BY <1>b, <2>1, <2>2, <2>3, DecisionHarmless
  <2>5. ~IsRejected(d) => \A i \in 1..Len(d.effects) : d.effects[i].op # "await_worker_release"
    <3>1. ~IsRejected(d) => Plan(Kind(t), d.effects, a.state, a.version)
      BY <1>1, <1>b, DecisionPlan
    <3> QED BY <2>1, <3>1 DEF Plan, Ordered, WorkerKinds
  <2> HIDE DEF d
  <2>6. CASE IsRejected(d) /\ pc'[t] = RefusedLabel(t, d)
    <3>1. Kind(t) \notin {"interrupted", "panicked"} /\ pc'[t] = frame[t].err
      BY <2>1, <2>4, <2>6 DEF RefusedLabel, Kind, WorkerKinds
    <3>2. /\ t \in Workers => frame[t].err = "leave"
          /\ pc'[t] \in {"leave", "idle", "refused"}
      <4>1. t \in Workers => frame[t].err = "leave" \/ frame[t].err = "clear"
        BY <1>0, <1>1 DEF ThreadInv, Role, WorkerRole
      <4>2. t \in Workers => frame[t].err # "clear"
        BY <1>0, <3>1 DEF InterruptInv, Answers
      <4>3. t \notin Workers => frame[t].err \in {"idle", "refused"}
        BY <1>0, <1>1, Roles DEF ThreadInv, Role, TickerRole, ClientRole
      <4> QED BY <3>1, <4>1, <4>2, <4>3
    <3>3. Speaks(t)'
      BY <3>2 DEF Speaks, ApplyLabels
    <3>4. t \in Workers => Works(t)'
      BY <1>3, <3>2 DEF InterruptInv, Works, AfterTransfer, InSerial
    <3>5. ~Clears(t) /\ ~Past(t)
      BY <1>0, <3>1 DEF Clears, Past, AfterTransfer
    <3>6. flag[j] \/ halted[j] = "told" => Raised(j)
      BY DEF Raised
    <3>7. Alone(t)
      BY <1>3, <1>4 DEF Alone
    <3>8. Explained(j)'
      BY <1>1, <1>3, <2>2, <3>2, <3>5, <3>6, <3>7, ExplainedKept
    <3> QED BY <3>3, <3>4, <3>8
  <2>7. CASE ~IsRejected(d) /\ d.effects \in Seq(Effects) /\ Proceeds(t, j, d.effects)
    <3>1. /\ Speaks(t)' /\ pc'[t] \notin {"raise", "reason"}
          /\ t \in Workers => Works(t)'
          /\ d.effects # << >> => pc'[t] = "perform" /\ frame'[t].eff = d.effects /\ Kind(t)' = Kind(t)
          /\ d.effects = << >> => pc'[t] = frame[t].ok
      BY <1>0, <1>3, <1>7, <2>4, <2>5, <2>7, GoesOn
    <3>2. Alone(t)
      BY <1>3, <1>4 DEF Alone
    <3>3. CASE Kind(t) = "interrupted" /\ frame[t].cmd.reason = "shutdown"
      <4>1. t \in Workers /\ Owning(t) /\ phase # "running"
        BY <1>0, <2>1, <2>2, <3>3 DEF Owning
      <4>2. pc'[t] = "leave"
        BY <1>0, <2>1, <2>4, <3>1, <3>3 DEF InterruptInv, Answers
      <4>3. Past(t)'
        BY <4>2 DEF Past
      <4>4. \A w \in Workers : job'[w] = j => Past(w)'
        BY <1>3, <3>2, <4>1, <4>3, OnlyOwnerLooks
      <4>5. Explained(j)'
        BY <1>3, <4>1, <4>4 DEF Explained
      <4> QED BY <3>1, <4>5
    <3>4. CASE Kind(t) = "interrupted" /\ frame[t].cmd.reason # "shutdown"
      <4>1. t \in Workers /\ job'[t] = j /\ Clears(t)'
        BY <1>3, <2>1, <2>4, <3>1, <3>4 DEF Clears
      <4>2. Explained(j)'
        BY <4>1 DEF Explained
      <4> QED BY <3>1, <4>2
    <3>5. CASE Kind(t) # "interrupted"
      <4>1. ~Clears(t) /\ ~Past(t)
        BY <1>0, <3>5 DEF Clears, Past, AfterTransfer
      <4>2. flag[j] \/ halted[j] = "told" => Raised(j)
        BY DEF Raised
      <4>3. Explained(j)'
        BY <1>1, <1>3, <2>2, <3>1, <3>2, <4>1, <4>2, ExplainedKept
      <4> QED BY <3>1, <4>3
    <3> QED BY <3>3, <3>4, <3>5
  <2> QED BY <1>4, <2>6, <2>7 DEF d
<1>8. j \notin asked => Unasked(j) /\ rows[j].state \notin {"cancelling", "cancelled"}
  BY <1>1 DEF InterruptInv, Unasked
<1> QED BY <1>0, <1>1, <1>s, <1>3, <1>4, <1>6, <1>7, <1>8, CallStep DEF Unasked

(* Light effects: the flag is raised, a job dispatched, a version recorded. *)
LEMMA TruthfulLight ==
    ASSUME CoordinatorInv, InterruptInv, NobodyPauses, NEW t \in Threads,
           RaiseFlag(t) \/ PerformDispatch(t) \/ PerformRecordVersion(t)
    PROVE  InterruptInv'
<1> DEFINE j == job[t]
           e == Tail(frame[t].eff)
<1>0. /\ pc[t] \in InSerial /\ Head(frame[t].eff).op \notin {"commit", "set_desired"}
      /\ UNCHANGED <<rows, mem, job, out, guard, call>>
      /\ Proceeds(t, j, e)
  BY LightFrame
<1>1. pc[t] \in ApplyLabels \ {"mint", "read"} /\ pc[t] \in ApplyLabels
  BY <1>0 DEF InSerial, ApplyLabels
<1>2. UNCHANGED <<reason, halted, phase, asked>>
  BY DEF RaiseFlag, PerformDispatch, PerformRecordVersion, historyVars
<1>3. /\ j \in JobIds /\ serial[j] = t /\ flag \in [JobIds -> BOOLEAN]
  BY <1>0, <1>1, ApplyFacts DEF ThreadInv, Held, InterruptInv, InterruptShapes
<1>4. \/ pc[t] = "raise" /\ flag' = [flag EXCEPT ![j] = TRUE]
      \/ flag' = flag /\ pc[t] = "perform" /\ Head(frame[t].eff).op # "clear_interrupt"
  BY DEF RaiseFlag, PerformDispatch, PerformRecordVersion, At
<1>5. flag' \in [JobIds -> BOOLEAN] /\ \A x \in JobIds \ {j} : flag'[x] = flag[x]
  BY <1>3, <1>4
<1>6. /\ \A u \in Threads \ {t} : pc'[u] = pc[u] /\ frame'[u] = frame[u]
      /\ \/ pc'[t] \in ApplyLabels \ {"mint", "read", "lock"} /\ SameCall(t)
         \/ pc'[t] = frame[t].ok
  BY <1>0 DEF Proceeds, ApplyLabels
<1>7. t \in Workers => Answers(t)' /\ (Past(t) => Past(t)')
  BY <1>0, <1>1, <1>6, CallMoves
<1>8. ASSUME j \notin asked
      PROVE  Speaks(t)' /\ (t \in Workers => Works(t)') /\ Explained(j)'
  <2>1. /\ e \in Seq(Effects)
        /\ \A i \in 1..Len(e) : Harmless(Kind(t), e[i]) /\ e[i].op # "await_worker_release"
        /\ Kind(t) # "panicked"
    BY <1>0, <1>8, TailSafe
  <2>2. Speaks(t)' /\ pc'[t] \notin {"raise", "reason"} /\ (t \in Workers => Works(t)')
    BY <1>0, <1>2, <1>8, <2>1, GoesOn
  <2>3. Explained(j)
    BY <1>3, <1>8 DEF InterruptInv, Unasked
  <2>4. flag'[j] \/ halted[j] = "told" => Raised(j)
    BY <1>4 DEF Raised
  <2>5. ~Clears(t)
    BY <1>4 DEF Clears
  <2>6. Alone(t)
    BY <1>0, <1>6, Roles DEF Alone
  <2>7. t \in Workers => Past(t)' \/ ~Past(t)
    BY <1>7
  <2>8. Explained(j)'
    BY <1>0, <1>2, <1>3, <2>2, <2>3, <2>4, <2>5, <2>6, <2>7, ExplainedKept
  <2> QED BY <2>2, <2>8
<1>9. j \notin asked => Unasked(j)
  BY <1>3 DEF InterruptInv
<1> QED BY <1>0, <1>1, <1>2, <1>3, <1>5, <1>6, <1>7, <1>8, <1>9, CallStep DEF Unasked

(* The reason is written, and the flag cleared: the first halves. *)
LEMMA TruthfulInterrupts ==
    ASSUME CoordinatorInv, InterruptInv, NobodyPauses, NEW t \in Threads,
           PerformRequestInterrupt(t) \/ PerformClearInterrupt(t)
    PROVE  InterruptInv'
<1> DEFINE j == job[t]
<1>0. pc[t] = "perform" /\ pc[t] \in ApplyLabels \ {"mint", "read"} /\ pc[t] \in ApplyLabels /\ pc[t] \in InSerial
  BY DEF PerformRequestInterrupt, PerformClearInterrupt, At, ApplyLabels, InSerial
<1>1. /\ j \in JobIds /\ serial[j] = t
  BY <1>0, ApplyFacts DEF ThreadInv, Held
<1>2. UNCHANGED <<rows, mem, halted, phase, asked, job, out, guard, call, frame>>
  BY DEF PerformRequestInterrupt, PerformClearInterrupt, storeVars, observeVars, workerVars, historyVars
<1>s. /\ flag \in [JobIds -> BOOLEAN] /\ reason \in [JobIds -> Reasons \cup {"none"}] /\ pc \in [Threads -> Labels]
  BY DEF CoordinatorInv, Shapes, InterruptInv, InterruptShapes
<1>3. /\ flag' \in [JobIds -> BOOLEAN] /\ \A x \in JobIds : flag'[x] => flag[x]
      /\ \A x \in JobIds \ {j} : flag'[x] = flag[x] /\ reason'[x] = reason[x]
      /\ pc'[t] \in {"raise", "wipe"} /\ \A u \in Threads \ {t} : pc'[u] = pc[u]
      /\ pc'[t] = "raise" => /\ Head(frame[t].eff).op = "request_interrupt"
                             /\ reason'[j] = Head(frame[t].eff).arg
      /\ pc'[t] = "wipe" => /\ Head(frame[t].eff).op = "clear_interrupt"
                            /\ ~flag'[j] /\ reason'[j] = reason[j]
  <2>1. CASE PerformRequestInterrupt(t)
    BY <1>1, <1>s, <2>1 DEF PerformRequestInterrupt, At, Goto
  <2>2. CASE PerformClearInterrupt(t)
    BY <1>1, <1>s, <2>2 DEF PerformClearInterrupt, At, Goto
  <2> QED BY <2>1, <2>2
<1>4. SameCall(t) /\ Kind(t)' = Kind(t) /\ pc'[t] \in ApplyLabels \ {"mint", "read", "lock"}
  BY <1>2, <1>3 DEF SameCall, Kind, ApplyLabels
<1>5. t \in Workers => Answers(t)'
  BY <1>0, <1>2, <1>4, CallMoves
<1>6. ASSUME j \notin asked
      PROVE  /\ Speaks(t)' /\ (t \in Workers => Works(t)') /\ Explained(j)'
             /\ reason'[j] # "cancel" /\ (reason'[j] = "shutdown" => phase # "running")
  <2>1. Harmless(Kind(t), Head(frame[t].eff)) /\ Speaks(t) /\ Unasked(j)
    BY <1>0, <1>1, <1>6, TailSafe DEF InterruptInv
  <2>k. Kind(t) = "interrupted" => t \in Workers
    BY <1>0, <1>6, UnaskedKinds
  <2>2. pc'[t] = "wipe" => Kind(t) = "interrupted"
    BY <1>3, <2>1 DEF Harmless
  <2>3. pc'[t] = "raise" => reason'[j] \in {"capture_pause", "device_lost"}
    BY <1>3, <2>1 DEF Harmless
  <2>4. Speaks(t)'
    BY <1>0, <1>2, <1>3, <1>4, <2>1, <2>2 DEF Speaks
  <2>5. t \in Workers => Works(t)'
    BY <1>0, <1>2, <1>3, <1>4 DEF InterruptInv, Works, AfterTransfer, InSerial
  <2>6. Explained(j)'
    <3>1. CASE pc'[t] = "raise"
      BY <1>2, <2>3, <3>1 DEF Explained
    <3>2. CASE pc'[t] = "wipe"
      <4>1. t \in Workers /\ job'[t] = j /\ Clears(t)'
        BY <1>2, <2>2, <2>k, <3>2 DEF Clears
      <4> QED BY <4>1 DEF Explained
    <3> QED BY <1>3, <3>1, <3>2
  <2>7. reason[j] # "cancel" /\ (reason[j] = "shutdown" => phase # "running")
    BY <1>6, <2>1 DEF Unasked
  <2>8. reason'[j] # "cancel" /\ (reason'[j] = "shutdown" => phase # "running")
    BY <1>3, <2>3, <2>7
  <2> QED BY <2>4, <2>5, <2>6, <2>8
<1>7. j \notin asked => rows[j].state \notin {"cancelling", "cancelled"}
  BY <1>1 DEF InterruptInv, Unasked
<1> QED BY <1>0, <1>1, <1>2, <1>3, <1>5, <1>6, <1>7, CallStep

(* The reason is wiped inside the critical section: no flag is up, or nobody will *)
(* look.                                                                          *)
LEMMA TruthfulWipe ==
    ASSUME CoordinatorInv, InterruptInv, NobodyPauses, NEW t \in Threads, WipeReason(t)
    PROVE  InterruptInv'
<1> DEFINE j == job[t]
           e == Tail(frame[t].eff)
<1>0. /\ pc[t] \in InSerial /\ UNCHANGED <<rows, mem, job, out, guard, call>> /\ Proceeds(t, j, e)
  BY LightFrame
<1>1. pc[t] = "wipe" /\ pc[t] \in ApplyLabels \ {"mint", "read"} /\ pc[t] \in ApplyLabels
  BY DEF WipeReason, ApplyLabels
<1>2. UNCHANGED <<flag, halted, phase, asked>> /\ reason' = [reason EXCEPT ![j] = "none"]
  BY DEF WipeReason, historyVars
<1>3. /\ j \in JobIds /\ serial[j] = t /\ InterruptShapes /\ reason \in [JobIds -> Reasons \cup {"none"}]
  BY <1>0, <1>1, ApplyFacts DEF ThreadInv, Held, InterruptInv, CoordinatorInv, Shapes
<1>4. reason'[j] = "none" /\ \A x \in JobIds \ {j} : reason'[x] = reason[x]
  BY <1>2, <1>3
<1>6. /\ \A u \in Threads \ {t} : pc'[u] = pc[u] /\ frame'[u] = frame[u]
      /\ \/ pc'[t] \in ApplyLabels \ {"mint", "read", "lock"} /\ SameCall(t)
         \/ pc'[t] = frame[t].ok
  BY <1>0 DEF Proceeds, ApplyLabels
<1>7. t \in Workers => Answers(t)' /\ (Past(t) => Past(t)')
  BY <1>0, <1>1, <1>6, CallMoves
<1>8. ASSUME j \notin asked
      PROVE  Speaks(t)' /\ (t \in Workers => Works(t)') /\ Explained(j)'
  <2>1. /\ e \in Seq(Effects)
        /\ \A i \in 1..Len(e) : Harmless(Kind(t), e[i]) /\ e[i].op # "await_worker_release"
    BY <1>0, <1>8, TailSafe
  <2>2. Kind(t) = "interrupted" /\ t \in Workers /\ (flag[j] => phase # "running")
    BY <1>1, <1>8, UnaskedKinds DEF Speaks
  <2>3. Speaks(t)' /\ pc'[t] \notin {"raise", "reason"} /\ Works(t)'
    BY <1>0, <1>2, <1>8, <2>1, <2>2, GoesOn
  <2>4. Alone(t) /\ Owning(t) /\ Past(t)
    BY <1>0, <1>1, <1>6, <2>2, Roles, OwningLabels DEF Alone, Owning, Past
  <2>5. CASE phase # "running"
    <3>1. \A w \in Workers : job'[w] = j => Past(w)'
      BY <1>0, <1>7, <2>2, <2>4, OnlyOwnerLooks
    <3>2. Explained(j)'
      BY <1>0, <1>2, <2>5, <3>1 DEF Explained
    <3> QED BY <2>3, <3>2
  <2>6. CASE phase = "running"
    <3>1. ~flag'[j] /\ halted'[j] # "told"
      BY <1>2, <1>3, <2>2, <2>6 DEF InterruptShapes
    <3>2. ASSUME NEW u \in Threads, job'[u] = j, pc'[u] \in {"raise", "reason"}
          PROVE  FALSE
      <4>1. u # t /\ pc[u] = pc'[u] /\ job[u] = j /\ ThreadInv(u)
        BY <1>0, <1>6, <2>3, <3>2 DEF CoordinatorInv
      <4>2. CASE pc[u] = "raise"
        BY <1>3, <4>1, <4>2 DEF ThreadInv, Held, InSerial
      <4>3. CASE pc[u] = "reason"
        <5>1. u \in Workers
          BY <4>1, <4>3, Roles DEF ThreadInv, Role, TickerRole, ClientRole, ApplyLabels, TickLabels, ClientLabels
        <5>2. Owning(u)
          BY <4>3 DEF Owning
        <5> QED BY <2>2, <2>4, <4>1, <5>1, <5>2 DEF CoordinatorInv, Apart
      <4> QED BY <3>2, <4>1, <4>2, <4>3
    <3>3. ~Raised(j)'
      BY <1>0, <3>1, <3>2 DEF Raised
    <3>4. Explained(j)'
      BY <1>0, <3>3 DEF Explained
    <3> QED BY <2>3, <3>4
  <2> QED BY <2>5, <2>6
<1>9. j \notin asked => rows[j].state \notin {"cancelling", "cancelled"}
  BY <1>3 DEF InterruptInv, Unasked
<1> QED BY <1>0, <1>1, <1>2, <1>3, <1>4, <1>6, <1>7, <1>8, <1>9, CallStep DEF InterruptShapes

(* A write that fails ends the command; a panic that is stored leaves no job behind. *)
LEMMA TruthfulErrors ==
    ASSUME CoordinatorInv, InterruptInv, NobodyPauses, PanicsAreStored, NEW t \in Threads,
           PerformFails(t) \/ AwaitTimeout(t) \/ AwaitRelease(t) \/ EnterSerialAgain(t)
    PROVE  InterruptInv'
<1> DEFINE j == job[t]
<1>0. /\ pc[t] \in {"perform", "await", "relock"} /\ pc[t] \in ApplyLabels \ {"mint", "read"}
      /\ pc[t] \in ApplyLabels
      /\ PerformFails(t) => /\ pc[t] = "perform" /\ Head(frame[t].eff).op # "clear_interrupt"
                            /\ pc'[t] = frame[t].err
      /\ ~PerformFails(t) => pc[t] \in {"await", "relock"}
  <2>1. pc \in [Threads -> Labels]
    BY DEF CoordinatorInv, Shapes
  <2> QED BY <2>1 DEF PerformFails, AwaitTimeout, AwaitRelease, EnterSerialAgain, At, ApplyLabels, Abandon, Return, Goto
<1>1. j \in JobIds /\ ThreadInv(t)
  BY <1>0, ApplyFacts
<1>2. UNCHANGED <<rows, mem, flag, reason, halted, phase, asked, job, out, guard, call>>
  BY DEF PerformFails, AwaitTimeout, AwaitRelease, EnterSerialAgain, Resume, storeVars, memoryVars, workerVars, historyVars
<1>s. flag \in [JobIds -> BOOLEAN] /\ pc \in [Threads -> Labels] /\ frame \in [Threads -> Frames]
  BY DEF CoordinatorInv, Shapes, InterruptInv, InterruptShapes
<1>3. \A u \in Threads \ {t} : pc'[u] = pc[u] /\ frame'[u] = frame[u]
  BY <1>s DEF PerformFails, AwaitTimeout, AwaitRelease, EnterSerialAgain, Resume, Abandon, Return, Goto
<1>4. \/ pc'[t] \in ApplyLabels \ {"mint", "read", "lock"} /\ SameCall(t)
      \/ pc'[t] = frame[t].ok \/ pc'[t] = frame[t].err
  BY <1>s DEF PerformFails, AwaitTimeout, AwaitRelease, EnterSerialAgain, Resume, Abandon, Return, Goto,
         SameCall, ApplyLabels
<1>5. t \in Workers => Answers(t)' /\ (Past(t) => Past(t)')
  BY <1>0, <1>2, <1>4, CallMoves
<1>6. ASSUME j \notin asked
      PROVE  Speaks(t)' /\ (t \in Workers => Works(t)') /\ Explained(j)'
  <2>1. PerformFails(t) /\ pc[t] = "perform" /\ pc'[t] = frame[t].err
    BY <1>0, <1>6, UnaskedKinds
  <2>2. /\ t \in Workers => Kind(t) # "panicked" /\ frame[t].err # "clear"
    BY <1>0, <2>1 DEF PanicsAreStored, InterruptInv, Answers
  <2>3. /\ t \in Workers => pc'[t] = "leave"
        /\ pc'[t] \in {"leave", "idle", "refused"}
    <3>1. t \in Workers => frame[t].err = "leave" \/ frame[t].err = "clear"
      BY <1>0, <1>1 DEF ThreadInv, Role, WorkerRole
    <3>2. t \notin Workers => frame[t].err \in {"idle", "refused"}
      BY <1>0, <1>1, Roles DEF ThreadInv, Role, TickerRole, ClientRole
    <3> QED BY <2>1, <2>2, <3>1, <3>2
  <2>4. Speaks(t)'
    BY <2>3 DEF Speaks, ApplyLabels
  <2>5. t \in Workers => Works(t)'
    BY <1>2, <2>3 DEF InterruptInv, Works, AfterTransfer, InSerial
  <2>6. ~Clears(t) /\ Alone(t)
    BY <1>0, <1>2, <1>3, <2>1, Roles DEF Clears, Alone
  <2>7. flag[j] \/ halted[j] = "told" => Raised(j)
    BY DEF Raised
  <2>8. Explained(j)
    BY <1>1, <1>6 DEF InterruptInv, Unasked
  <2>9. Explained(j)'
    BY <1>1, <1>2, <1>5, <2>3, <2>6, <2>7, <2>8, ExplainedKept
  <2> QED BY <2>4, <2>5, <2>9
<1>7. j \notin asked => Unasked(j)
  BY <1>1 DEF InterruptInv
<1> QED BY <1>0, <1>1, <1>2, <1>s, <1>3, <1>5, <1>6, <1>7, CallStep DEF Unasked

(* A state is committed: never the end of a job that somebody else looks at. *)
LEMMA TruthfulCommit ==
    ASSUME CoordinatorInv, InterruptInv, NobodyPauses, NEW t \in Threads, PerformCommit(t)
    PROVE  InterruptInv'
<1>k. PICK j : j = job[t]
  OBVIOUS
<1> DEFINE g == frame[t].eff
           to == Head(g).arg
           v == Head(g).version
<1>0. /\ pc[t] = "perform" /\ pc[t] \in InSerial /\ pc[t] \in ApplyLabels /\ Head(g).op = "commit"
      /\ pc[t] \in ApplyLabels \ {"mint", "read"} /\ pc[t] \in {"lock"} \cup InSerial
  BY DEF PerformCommit, At, InSerial, ApplyLabels
<1>1. ThreadInv(t) /\ j \in JobIds /\ mem[j].state # "absent" /\ g \in Seq(Effects)
  BY <1>k, <1>0, ApplyFacts
<1>s. Shapes /\ mem \in [JobIds -> Notes] /\ mem[j] \in Notes
  BY <1>1 DEF CoordinatorInv, Shapes
<1>2. serial[j] = t /\ g # << >> /\ Plan(Kind(t), g, mem[j].state, version[j])
  BY <1>k, <1>0, <1>1 DEF ThreadInv, Held, JobState
<1>3. /\ is_legal_transition(rows[j].state, to) /\ StoreCommit(j, v, to) /\ v \in Nat
  <2>1. v = rows[j].version /\ rows[j] \in JobRows /\ is_legal_transition(rows[j].state, to) /\ StoreCommit(j, v, to)
    BY <1>k, CommitStep
  <2> QED BY <2>1 DEF JobRows
<1>4. /\ mem' = [mem EXCEPT ![j].state = to] /\ Continue(t, j, Tail(g))
      /\ UNCHANGED <<flag, reason, halted, phase, asked, job, out, guard, call>>
  BY <1>k DEF PerformCommit, NextEffect, workerVars, historyVars
<1>5. Tail(g) \in Seq(Effects) /\ Head(g) = g[1] /\ 1 \in 1..Len(g)
  BY <1>1, <1>2, TailFacts
<1>6. Proceeds(t, j, Tail(g))
  BY <1>1, <1>4, <1>5, <1>s, ContinueFrame
<1>7. to \in States /\ rows[j].state \notin Terminal /\ rows[j].state = mem[j].state
  <2>1. JobInv(j)
    BY <1>1 DEF CoordinatorInv
  <2> QED BY <1>1, <1>3, <2>1, EdgeFacts DEF JobInv
<1>8. /\ rows'[j].state = to /\ mem'[j].state = to
      /\ \A x \in JobIds \ {j} : rows'[x] = rows[x] /\ mem'[x] = mem[x]
  <2>1. rows'[j].state = to /\ \A x \in JobIds \ {j} : rows'[x] = rows[x]
    BY <1>1, <1>3, <1>7, <1>s, CommitWrites
  <2> DEFINE m == [mem[j] EXCEPT !.state = to]
  <2>2. m.state = to
    BY <1>7, <1>s DEF Notes
  <2>3. mem' = [mem EXCEPT ![j] = m]
    BY <1>4
  <2> HIDE DEF m
  <2> QED BY <1>1, <1>s, <2>1, <2>2, <2>3
<1>9. /\ \A u \in Threads \ {t} : pc'[u] = pc[u] /\ frame'[u] = frame[u]
      /\ \/ pc'[t] \in ApplyLabels \ {"mint", "read", "lock"} /\ SameCall(t)
         \/ pc'[t] = frame[t].ok
  BY <1>6 DEF Proceeds, ApplyLabels
<1>10. t \in Workers => Answers(t)' /\ (Past(t) => Past(t)')
  BY <1>0, <1>4, <1>9, CallMoves
<1>11. ASSUME j \notin asked
       PROVE  /\ Speaks(t)' /\ (t \in Workers => Works(t)') /\ Explained(j)'
              /\ to \notin {"cancelling", "cancelled"}
              /\ mem[j].state \notin Terminal \cup {"transferring"} \/ t \in Workers
  <2>1. /\ Harmless(Kind(t), Head(g))
        /\ \A i \in 1..Len(Tail(g)) : Harmless(Kind(t), Tail(g)[i]) /\ Tail(g)[i].op # "await_worker_release"
        /\ Kind(t) = "panicked" =>
              to \in Terminal /\ \A i \in 1..Len(Tail(g)) : Tail(g)[i].op = "commit" /\ Tail(g)[i].arg \in Terminal
    BY <1>k, <1>0, <1>11, TailSafe
  <2>2. to \notin {"cancelling", "cancelled"}
    BY <1>0, <2>1 DEF Harmless
  <2>3. JobState(t)' = to
    BY <1>k, <1>4, <1>8 DEF JobState
  <2>4. Speaks(t)' /\ pc'[t] \notin {"raise", "reason"} /\ (t \in Workers => Works(t)')
    BY <1>k, <1>0, <1>4, <1>5, <1>6, <1>11, <2>1, <2>3, GoesOn
  <2>5. mem[j].state \notin Terminal \cup {"transferring"} \/ t \in Workers
    <3>1. ASSUME t \notin Workers
          PROVE  mem[j].state \in Early
      <4>1. Kind(t) \in {"device_observed", "resume"}
        BY <1>k, <1>0, <1>11, <3>1, UnaskedKinds DEF WorkerKinds
      <4> QED BY <1>0, <1>2, <1>5, <4>1 DEF Plan, Leads
    <3> QED BY <3>1, StateNames DEF Terminal
  <2>6. Explained(j)'
    <3>1. CASE to \in Terminal
      BY <1>8, <3>1 DEF Explained
    <3>2. CASE to \notin Terminal
      <4>1. Explained(j)
        BY <1>1, <1>11 DEF InterruptInv, Unasked
      <4>2. flag[j] \/ halted[j] = "told" => Raised(j)
        BY DEF Raised
      <4>3. ~Clears(t)
        BY <1>0 DEF Clears
      <4>4. Alone(t)
        BY <1>4, <1>9, Roles DEF Alone
      <4> QED BY <1>1, <1>4, <1>7, <1>10, <2>4, <4>1, <4>2, <4>3, <4>4, ExplainedKept
    <3> QED BY <3>1, <3>2
  <2> QED BY <2>2, <2>4, <2>5, <2>6
<1>12. j \notin asked => reason[j] # "cancel" /\ (reason[j] = "shutdown" => phase # "running")
  BY <1>1 DEF InterruptInv, Unasked
<1>13. flag \in [JobIds -> BOOLEAN]
  BY DEF InterruptInv, InterruptShapes
<1> HIDE DEF g, to, v
<1> QED BY <1>k, <1>0, <1>1, <1>4, <1>8, <1>9, <1>10, <1>11, <1>12, <1>13, CallStep

(* An intent is written: states stay. *)
LEMMA TruthfulIntent ==
    ASSUME CoordinatorInv, InterruptInv, NobodyPauses, NEW t \in Threads, PerformSetDesired(t)
    PROVE  InterruptInv'
<1>k. PICK j : j = job[t]
  OBVIOUS
<1> DEFINE g == frame[t].eff
           d == Head(g).arg
<1>0. /\ pc[t] = "perform" /\ pc[t] \in InSerial /\ pc[t] \in ApplyLabels /\ Head(g).op = "set_desired"
      /\ pc[t] \in ApplyLabels \ {"mint", "read"} /\ pc[t] \in {"lock"} \cup InSerial
  BY DEF PerformSetDesired, At, InSerial, ApplyLabels
<1>1. ThreadInv(t) /\ j \in JobIds /\ g \in Seq(Effects)
  BY <1>k, <1>0, ApplyFacts
<1>s. /\ Shapes /\ mem \in [JobIds -> Notes] /\ mem[j] \in Notes
      /\ rows \in [JobIds -> JobRows] /\ rows[j] \in JobRows
      /\ call \in [Clients -> ClientKinds \cup {"none", "overtaken"}]
  BY <1>1 DEF CoordinatorInv, Shapes
<1>2. serial[j] = t /\ g # << >> /\ Kind(t) \in {"pause", "resume"}
  <2>1. /\ serial[j] = t /\ g # << >> /\ Ordered(Kind(t), g, JobState(t))
    BY <1>k, <1>0, <1>1 DEF ThreadInv, Held, Plan
  <2> HIDE DEF g
  <2>2. Head(g) = g[1] /\ 1 \in 1..Len(g)
    BY <1>1, <2>1, TailFacts
  <2> QED BY <1>0, <2>1, <2>2 DEF Ordered
<1>4. /\ rows' = [rows EXCEPT ![j].desired = d] /\ mem' = [mem EXCEPT ![j].desired = d]
      /\ call' = (IF d = "run" THEN [c \in Clients |-> Overtaken(c, j)] ELSE call)
      /\ Continue(t, j, Tail(g))
      /\ UNCHANGED <<flag, reason, halted, phase, asked, job, out, guard>>
  BY <1>k DEF PerformSetDesired, NextEffect, set_desired_run_state, workerVars
<1> HIDE DEF g
<1>5. Tail(g) \in Seq(Effects)
  BY <1>1, <1>2, TailFacts
<1>6. Proceeds(t, j, Tail(g))
  BY <1>1, <1>4, <1>5, <1>s, ContinueFrame
<1> HIDE DEF d
<1>7. /\ rows'[j].state = rows[j].state /\ mem'[j].state = mem[j].state
      /\ \A x \in JobIds \ {j} : rows'[x] = rows[x] /\ mem'[x] = mem[x]
  <2> DEFINE r == [rows[j] EXCEPT !.desired = d]
             m == [mem[j] EXCEPT !.desired = d]
  <2>1. r.state = rows[j].state /\ m.state = mem[j].state
    BY <1>s DEF Notes, JobRows
  <2>2. rows' = [rows EXCEPT ![j] = r] /\ mem' = [mem EXCEPT ![j] = m]
    BY <1>4
  <2> HIDE DEF r, m
  <2> QED BY <1>1, <1>s, <2>1, <2>2
<1>8. \A c \in Clients : call'[c] = call[c] \/ (call[c] = "pause" /\ call'[c] = "overtaken")
  <2>1. \A c \in Clients : Overtaken(c, j) = call[c] \/ (call[c] = "pause" /\ Overtaken(c, j) = "overtaken")
    BY DEF Overtaken
  <2> QED BY <1>4, <1>s, <2>1
<1>9. /\ \A u \in Threads \ {t} : pc'[u] = pc[u] /\ frame'[u] = frame[u]
      /\ \/ pc'[t] \in ApplyLabels \ {"mint", "read", "lock"} /\ SameCall(t)
         \/ pc'[t] = frame[t].ok
  BY <1>6 DEF Proceeds, ApplyLabels
<1>10. t \in Workers => Answers(t)' /\ (Past(t) => Past(t)')
  BY <1>0, <1>4, <1>9, CallMoves
<1>11. ASSUME j \notin asked
       PROVE  Speaks(t)' /\ (t \in Workers => Works(t)') /\ Explained(j)'
  <2>1. \A i \in 1..Len(Tail(g)) : Harmless(Kind(t), Tail(g)[i]) /\ Tail(g)[i].op # "await_worker_release"
    BY <1>k, <1>0, <1>11, TailSafe DEF g
  <2>2. Kind(t) # "panicked"
    BY <1>2
  <2>4. Speaks(t)' /\ pc'[t] \notin {"raise", "reason"} /\ (t \in Workers => Works(t)')
    BY <1>k, <1>0, <1>4, <1>5, <1>6, <1>11, <2>1, <2>2, GoesOn
  <2>5. Explained(j)
    BY <1>1, <1>11 DEF InterruptInv, Unasked
  <2>6. flag[j] \/ halted[j] = "told" => Raised(j)
    BY DEF Raised
  <2>7. ~Clears(t)
    BY <1>0, <1>2 DEF Clears
  <2>8. Alone(t)
    BY <1>4, <1>8, <1>9, Roles DEF Alone
  <2>9. Explained(j)'
    BY <1>1, <1>4, <1>7, <1>10, <2>4, <2>5, <2>6, <2>7, <2>8, ExplainedKept
  <2> QED BY <2>4, <2>9
<1>12. j \notin asked => Unasked(j)
  BY <1>1 DEF InterruptInv
<1>13. flag \in [JobIds -> BOOLEAN]
  BY DEF InterruptInv, InterruptShapes
<1> QED BY <1>k, <1>0, <1>1, <1>4, <1>7, <1>8, <1>9, <1>10, <1>11, <1>12, <1>13, CallStep DEF Unasked

(* Every step inside apply_checked. *)
LEMMA TruthfulApplyStep ==
    ASSUME CoordinatorInv, InterruptInv, NobodyPauses, PanicsAreStored, NEW t \in Threads, ApplyStep(t)
    PROVE  InterruptInv'
  BY TruthfulReading, TruthfulEnter, TruthfulLight, TruthfulInterrupts, TruthfulWipe, TruthfulErrors,
     TruthfulCommit, TruthfulIntent DEF ApplyStep

(* A ticker or a client between its calls. *)
LEMMA TruthfulSide ==
    ASSUME CoordinatorInv, InterruptInv, NEW t \in Threads, t \notin Workers, Alone(t),
           UNCHANGED <<rows, mem, flag, reason, halted, phase>>, asked \subseteq asked',
           pc'[t] \in {"idle", "lock", "mint"} \cup TickLabels,
           pc'[t] \in {"lock", "mint"} => frame'[t].eff = << >> /\ frame'[t].cmd.reason = "none",
           t \in Clients /\ call'[t] = "cancel" => job'[t] \in asked'
    PROVE  InterruptInv'
<1>1. pc'[t] \notin {"raise", "reason", "wipe"} /\ (pc'[t] \in ApplyLabels => pc'[t] \in {"lock", "mint"})
  BY DEF TickLabels, ApplyLabels
<1>2. Speaks(t)'
  <2>1. pc'[t] \in ApplyLabels => frame'[t].eff = << >> /\ Len(frame'[t].eff) = 0 /\ frame'[t].cmd.reason = "none"
    BY <1>1
  <2> QED BY <1>1, <2>1 DEF Speaks
<1>3. ASSUME NEW j \in JobIds
      PROVE  Unasked(j)'
  <2>1. CASE j \in asked'
    BY <2>1 DEF Unasked
  <2>2. CASE j \notin asked'
    <3>1. Unasked(j) /\ Explained(j)
      BY <2>2 DEF InterruptInv, Unasked
    <3>2. flag[j] \/ halted[j] = "told" => Raised(j)
      BY DEF Raised
    <3>3. Explained(j)'
      BY <1>1, <3>1, <3>2, ExplainedKept
    <3> QED BY <2>2, <3>1, <3>3 DEF Unasked
  <2> QED BY <2>1, <2>2
<1>4. InterruptShapes'
  BY DEF InterruptInv, InterruptShapes
<1> QED BY <1>2, <1>3, <1>4, TruthStep

(* The frame a call starts with. *)
LEMMA FreshCall ==
    ASSUME CoordinatorInv, NEW t \in Threads
    PROVE  /\ \A hint \in [Readiness -> Labels], err \in Labels :
                 Observe(t, hint, err) => frame'[t].eff = << >> /\ frame'[t].cmd.reason = "none"
           /\ \A cmd \in Commands, ok \in Labels, err \in Labels :
                 Apply(t, cmd, ok, err) => frame'[t].eff = << >> /\ frame'[t].cmd = cmd
<1>1. frame \in [Threads -> Frames] /\ NoFrame \in Frames /\ NoFrame.eff = << >>
  BY FrameShapes DEF CoordinatorInv, Shapes
<1>0. NoFrame.cmd.reason = "none"
  BY DEF NoFrame, Command
<1>2. ASSUME NEW hint \in [Readiness -> Labels], NEW err \in Labels, Observe(t, hint, err)
      PROVE  frame'[t].eff = << >> /\ frame'[t].cmd.reason = "none"
  <2> DEFINE f == [NoFrame EXCEPT !.hint = hint, !.err = err]
  <2>1. f.eff = << >> /\ f.cmd = NoFrame.cmd
    BY <1>1 DEF Frames
  <2>2. frame' = [frame EXCEPT ![t] = f]
    BY <1>2 DEF Observe
  <2> HIDE DEF f
  <2> QED BY <1>0, <1>1, <2>1, <2>2
<1>3. ASSUME NEW cmd \in Commands, NEW ok \in Labels, NEW err \in Labels, Apply(t, cmd, ok, err)
      PROVE  frame'[t].eff = << >> /\ frame'[t].cmd = cmd
  <2> DEFINE f == [NoFrame EXCEPT !.cmd = cmd, !.ok = ok, !.err = err]
  <2>1. f.eff = << >> /\ f.cmd = cmd
    BY <1>1 DEF Frames
  <2>2. frame' = [frame EXCEPT ![t] = f]
    BY <1>3 DEF Apply
  <2> HIDE DEF f
  <2> QED BY <1>1, <2>1, <2>2
<1> QED BY <1>2, <1>3

(* Every step of tick outside apply_checked. *)
LEMMA TruthfulTicker ==
    ASSUME CoordinatorInv, InterruptInv, NEW k \in Tickers, TickerStep(k)
    PROVE  InterruptInv'
<1>s. /\ k \in Threads /\ k \notin Workers /\ k \notin Clients
      /\ pc \in [Threads -> Labels] /\ job \in [Threads -> JobIds \cup {NoJob}]
      /\ frame \in [Threads -> Frames]
  BY Roles DEF CoordinatorInv, Shapes
<1>1. UNCHANGED <<rows, mem, flag, reason, halted, phase, asked, out, guard, call>>
  BY DEF TickerStep, TickRead, TickLease, TickQueued, TickActive, TickSchedule, Jump, Steady,
         storeVars, memoryVars, workerVars, historyVars
<1>2. ASSUME NEW L \in {"idle"} \cup TickLabels, Goto(k, L), UNCHANGED frame,
             \A u \in Threads \ {k} : job'[u] = job[u]
      PROVE  InterruptInv'
  <2>1. pc'[k] = L /\ L \notin {"lock", "mint"} /\ \A u \in Threads \ {k} : pc'[u] = pc[u]
    BY <1>2, <1>s DEF Goto, TickLabels
  <2>2. Alone(k)
    BY <1>1, <1>2, <2>1 DEF Alone
  <2> QED BY <1>1, <1>s, <2>1, <2>2, TruthfulSide
<1>3. ASSUME NEW L \in {"idle"} \cup TickLabels, Jump(k, L)
      PROVE  InterruptInv'
  <2>1. Goto(k, L) /\ UNCHANGED <<frame, job>>
    BY <1>3 DEF Jump, Steady
  <2> QED BY <1>2, <2>1
<1>4. CASE TickRead(k)
  <2>1. Goto(k, "tick_lease") /\ UNCHANGED frame /\ \A u \in Threads \ {k} : job'[u] = job[u]
    BY <1>4, <1>s DEF TickRead
  <2> QED BY <1>2, <2>1 DEF TickLabels
<1>5. CASE TickLease(k)
  <2>1. Jump(k, "tick_queued") \/ Jump(k, "idle")
    BY <1>5 DEF TickLease
  <2> QED BY <1>3, <2>1 DEF TickLabels
<1>6. CASE TickQueued(k)
  <2>1. Jump(k, "tick_active") \/ Jump(k, "idle")
    BY <1>6 DEF TickQueued
  <2> QED BY <1>3, <2>1 DEF TickLabels
<1>7. CASE TickActive(k)
  <2>1. UNCHANGED job
    BY <1>7 DEF TickActive
  <2>2. ASSUME NEW h \in [Readiness -> Labels], Observe(k, h, "idle")
        PROVE  InterruptInv'
    <3>1. /\ pc'[k] = "mint" /\ \A u \in Threads \ {k} : pc'[u] = pc[u] /\ frame'[u] = frame[u]
          /\ frame'[k].eff = << >> /\ frame'[k].cmd.reason = "none"
      BY <1>s, <2>2, ObserveFrame, FreshCall DEF Labels
    <3>2. Alone(k)
      BY <1>1, <2>1, <3>1 DEF Alone
    <3> QED BY <1>1, <1>s, <3>1, <3>2, TruthfulSide
  <2>3. NoHint \in [Readiness -> Labels] /\ TickHint \in [Readiness -> Labels]
    BY FrameShapes DEF TickHint, Labels, TickLabels
  <2>4. \/ Observe(k, NoHint, "idle") \/ Observe(k, TickHint, "idle")
        \/ Goto(k, "idle") /\ UNCHANGED frame
        \/ Goto(k, "tick_schedule") /\ UNCHANGED frame
    BY <1>7 DEF TickActive
  <2> QED BY <1>2, <2>1, <2>2, <2>3, <2>4 DEF TickLabels
<1>8. CASE TickSchedule(k)
  <2>1. Goto(k, "idle") /\ UNCHANGED <<frame, job>>
    BY <1>8 DEF TickSchedule
  <2> QED BY <1>2, <2>1
<1> QED BY <1>4, <1>5, <1>6, <1>7, <1>8 DEF TickerStep

(* Every step of a client outside apply_checked: a cancel is asked for when it is issued. *)
LEMMA TruthfulClient ==
    ASSUME CoordinatorInv, InterruptInv, NEW c \in Clients, ClientStep(c)
    PROVE  InterruptInv'
<1>s. /\ c \in Threads /\ c \notin Workers /\ ThreadInv(c)
      /\ pc \in [Threads -> Labels] /\ job \in [Threads -> JobIds \cup {NoJob}]
      /\ call \in [Clients -> ClientKinds \cup {"none", "overtaken"}]
  BY Roles DEF CoordinatorInv, Shapes
<1>1. UNCHANGED <<rows, mem, flag, reason, halted, phase, out, guard>>
  BY DEF ClientStep, IssueCommand, FinalizeCancel, EndCommand, ApplyFrom, Steady,
         storeVars, memoryVars, workerVars
<1>2. CASE IssueCommand(c)
  <2>1. PICK k \in CommandKinds, j \in JobIds :
            /\ call' = [call EXCEPT ![c] = k] /\ job' = [job EXCEPT ![c] = j]
            /\ asked' = IF k = "cancel" THEN asked \cup {j} ELSE asked
            /\ Apply(c, Command(k), IF k = "cancel" THEN "finalize" ELSE "acked", "refused")
    BY <1>2 DEF IssueCommand
  <2>2. k \in ClientKinds /\ Command(k) \in Commands /\ Command(k).reason = "none"
        /\ {"finalize", "acked", "refused"} \subseteq Labels
    <3>1. k \in ClientKinds
      BY CoordinatorConstants DEF ClientKinds
    <3> QED BY <3>1, CommandShapes DEF Command, Labels, ClientLabels
  <2>3. /\ pc'[c] = "lock" /\ frame'[c].eff = << >> /\ frame'[c].cmd = Command(k)
        /\ \A u \in Threads \ {c} : pc'[u] = pc[u] /\ frame'[u] = frame[u]
    BY <1>s, <2>1, <2>2, ApplyFrame, FreshCall
  <2>4. /\ job'[c] = j /\ call'[c] = k /\ asked \subseteq asked' /\ (k = "cancel" => j \in asked')
        /\ \A u \in Threads \ {c} : job'[u] = job[u]
        /\ \A u \in Clients \ {c} : call'[u] = call[u]
    BY <1>s, <2>1
  <2>5. Alone(c)
    BY <1>1, <2>3, <2>4 DEF Alone
  <2> QED BY <1>1, <1>s, <2>2, <2>3, <2>4, <2>5, TruthfulSide
<1>3. CASE FinalizeCancel(c)
  <2>1. UNCHANGED <<asked, job, call>> /\ Apply(c, Command("finalize_cancel"), "acked", "refused")
    BY <1>3 DEF FinalizeCancel, ApplyFrom, Steady, historyVars
  <2>2. /\ Command("finalize_cancel") \in Commands /\ Command("finalize_cancel").reason = "none"
        /\ {"acked", "refused"} \subseteq Labels
    BY CommandShapes DEF ClientKinds, Command, Labels, ClientLabels
  <2>3. /\ pc'[c] = "lock" /\ frame'[c].eff = << >> /\ frame'[c].cmd = Command("finalize_cancel")
        /\ \A u \in Threads \ {c} : pc'[u] = pc[u] /\ frame'[u] = frame[u]
    BY <1>s, <2>1, <2>2, ApplyFrame, FreshCall
  <2>4. call[c] = "cancel" => job[c] \in asked
    BY DEF InterruptInv
  <2>5. Alone(c)
    BY <1>1, <2>1, <2>3 DEF Alone
  <2> QED BY <1>1, <1>s, <2>1, <2>2, <2>3, <2>4, <2>5, TruthfulSide
<1>4. CASE EndCommand(c)
  <2>1. UNCHANGED <<asked, job, frame>> /\ pc' = [pc EXCEPT ![c] = "idle"] /\ call' = [call EXCEPT ![c] = "none"]
    BY <1>4 DEF EndCommand, Goto
  <2>2. /\ pc'[c] = "idle" /\ call'[c] = "none" /\ \A u \in Threads \ {c} : pc'[u] = pc[u]
        /\ \A u \in Clients \ {c} : call'[u] = call[u]
    BY <1>s, <2>1
  <2>3. Alone(c)
    BY <1>1, <2>1, <2>2 DEF Alone
  <2> QED BY <1>1, <1>s, <2>1, <2>2, <2>3, TruthfulSide
<1> QED BY <1>2, <1>3, <1>4 DEF ClientStep

(* The device, the shutdown and a step that changes nothing. *)
LEMMA TruthfulEnvironment ==
    ASSUME CoordinatorInv, InterruptInv,
           \/ DeviceChange \/ BeginShutdown \/ StopQueue \/ UNCHANGED vars
           \/ \E j \in JobIds : TellShutdown(j) \/ RaiseShutdown(j)
    PROVE  InterruptInv'
<1>1. UNCHANGED <<rows, mem, pc, job, frame, out, guard, call, asked>>
  BY DEF DeviceChange, BeginShutdown, StopQueue, TellShutdown, RaiseShutdown, vars, storeVars,
         memoryVars, observeVars, workerVars, historyVars
<1>s. /\ InterruptShapes /\ reason \in [JobIds -> Reasons \cup {"none"}]
      /\ flag \in [JobIds -> BOOLEAN] /\ halted \in [JobIds -> {"no", "told", "done"}]
  BY DEF CoordinatorInv, Shapes, InterruptInv, InterruptShapes
<1>2. /\ phase # "running" => phase' # "running"
      /\ InterruptShapes'
      /\ \A j \in JobIds : /\ flag'[j] => flag[j] \/ (halted[j] = "told" /\ phase' # "running")
                           /\ reason'[j] = reason[j] \/ (reason'[j] = "shutdown" /\ phase' # "running")
                           /\ halted'[j] = "told" => halted[j] = "told" \/ reason'[j] # "none"
  <2>1. CASE DeviceChange \/ UNCHANGED vars
    <3>1. UNCHANGED <<flag, reason, halted, phase>>
      BY <2>1 DEF DeviceChange, vars, memoryVars
    <3> QED BY <1>s, <3>1 DEF InterruptShapes
  <2>2. CASE BeginShutdown \/ StopQueue
    <3>1. UNCHANGED <<flag, reason, halted>> /\ phase' # "running"
      BY <2>2 DEF BeginShutdown, StopQueue
    <3> QED BY <1>s, <3>1 DEF InterruptShapes
  <2>3. ASSUME NEW x \in JobIds, TellShutdown(x)
        PROVE  <1>2!:
    <3>1. /\ UNCHANGED <<flag, phase>> /\ phase # "running"
          /\ \/ reason' = [reason EXCEPT ![x] = "shutdown"] /\ halted' = [halted EXCEPT ![x] = "told"]
             \/ reason' = reason /\ halted' = [halted EXCEPT ![x] = "done"]
      BY <2>3 DEF TellShutdown
    <3>2. halted' \in [JobIds -> {"no", "told", "done"}]
      BY <1>s, <3>1
    <3> QED BY <1>s, <3>1, <3>2 DEF InterruptShapes
  <2>4. ASSUME NEW x \in JobIds, RaiseShutdown(x)
        PROVE  <1>2!:
    <3>1. /\ UNCHANGED <<reason, phase>> /\ halted[x] = "told" /\ flag' = [flag EXCEPT ![x] = TRUE]
          /\ halted' = [halted EXCEPT ![x] = "done"]
      BY <2>4 DEF RaiseShutdown
    <3>2. phase # "running"
      BY <1>s, <3>1 DEF InterruptShapes
    <3>3. halted' \in [JobIds -> {"no", "told", "done"}] /\ flag' \in [JobIds -> BOOLEAN]
      BY <1>s, <3>1
    <3> QED BY <1>s, <3>1, <3>2, <3>3 DEF InterruptShapes
  <2> QED BY <2>1, <2>2, <2>3, <2>4
<1>3. Alone(NoThread) /\ NoThread \notin Threads /\ NoThread \notin Workers /\ NoThread \notin Clients
  BY <1>1, CoordinatorConstants, Roles DEF Alone
<1>4. ASSUME NEW j \in JobIds
      PROVE  Unasked(j)'
  <2>1. CASE j \in asked
    BY <1>1, <2>1 DEF Unasked
  <2>2. CASE j \notin asked
    <3>1. Unasked(j) /\ Explained(j)
      BY <2>2 DEF InterruptInv, Unasked
    <3>2. flag[j] \/ halted[j] = "told" => Raised(j)
      BY DEF Raised
    <3>3. Explained(j)'
      BY <1>1, <1>2, <1>3, <3>1, <3>2, ExplainedKept
    <3> QED BY <1>1, <1>2, <2>2, <3>1, <3>3 DEF Unasked
  <2> QED BY <2>1, <2>2
<1> QED BY <1>1, <1>2, <1>3, <1>4, TruthStep

(* The process died and came back: no interrupt is left. *)
LEMMA TruthfulRestart ==
    ASSUME CoordinatorInv, InterruptInv, Restart
    PROVE  InterruptInv'
<1>1. /\ UNCHANGED <<rows, asked>> /\ phase' = "running"
      /\ flag' = [j \in JobIds |-> FALSE] /\ reason' = [j \in JobIds |-> "none"]
      /\ halted' = [j \in JobIds |-> "no"] /\ pc' = [t \in Threads |-> "idle"]
      /\ call' = [c \in Clients |-> "none"] /\ out' = [w \in Workers |-> "none"]
  BY DEF Restart, BecomeFresh, storeVars
<1>2. InterruptShapes'
  BY <1>1 DEF InterruptShapes
<1>3. \A t \in Threads : Speaks(t)'
  BY <1>1 DEF Speaks, ApplyLabels
<1>4. \A w \in Workers : Answers(w)' /\ Works(w)'
  BY <1>1, Roles DEF Answers, Works, ApplyLabels, AfterTransfer, InSerial
<1>5. ASSUME NEW j \in JobIds
      PROVE  Unasked(j)'
  <2>1. ~Raised(j)' /\ reason'[j] = "none"
    BY <1>1 DEF Raised
  <2>2. Explained(j)'
    BY <2>1 DEF Explained
  <2> QED BY <1>1, <2>1, <2>2 DEF InterruptInv, Unasked
<1> QED BY <1>1, <1>2, <1>3, <1>4, <1>5 DEF InterruptInv

(* Every job has just been enqueued. *)
LEMMA TruthfulInit ==
    ASSUME Init
    PROVE  InterruptInv
<1>1. /\ phase = "running" /\ asked = {}
      /\ flag = [j \in JobIds |-> FALSE] /\ reason = [j \in JobIds |-> "none"]
      /\ halted = [j \in JobIds |-> "no"] /\ pc = [t \in Threads |-> "idle"]
      /\ call = [c \in Clients |-> "none"] /\ out = [w \in Workers |-> "none"]
  BY DEF Init, FreshProcess
<1>2. InterruptShapes
  BY <1>1 DEF InterruptShapes
<1>3. \A t \in Threads : Speaks(t)
  BY <1>1 DEF Speaks, ApplyLabels
<1>4. \A w \in Workers : Answers(w) /\ Works(w)
  BY <1>1, Roles DEF Answers, Works, ApplyLabels, AfterTransfer, InSerial
<1>5. ASSUME NEW j \in JobIds
      PROVE  Unasked(j)
  <2>1. ~Raised(j) /\ reason[j] = "none"
    BY <1>1 DEF Raised
  <2>2. Explained(j)
    BY <2>1 DEF Explained
  <2>3. rows[j].state \in {"queued", "absent"}
    BY InitInv
  <2> QED BY <2>1, <2>2, <2>3 DEF Unasked
<1> QED BY <1>1, <1>2, <1>3, <1>4, <1>5 DEF InterruptInv

(* A request, or an outcome that is acknowledged: no thread moves, and no interrupt. *)
LEMMA TruthfulRequest ==
    ASSUME CoordinatorInv, RequestInv, NoLateInstall, InterruptInv,
           \/ \E r \in Requesters : RequesterStep(r)
           \/ \E j \in JobIds : Acknowledge(j)
    PROVE  InterruptInv'
<1>1. UNCHANGED <<pc, job, frame, out, guard, call, asked, flag, reason, halted, phase, serial>>
  BY DEF RequesterStep, Enqueue, Retry, Spawn, Look, Install, Offer, Acknowledge, RequestSteady, workerVars
<1>2. ASSUME NEW j \in JobIds
      PROVE  mem'[j].state = mem[j].state \/ mem[j].state = "absent"
  <2>1. CASE UNCHANGED mem
    BY <2>1
  <2>2. ASSUME NEW r \in Requesters, Install(r)
        PROVE  <1>2!2
    <3>1. /\ mem[request[r].job].state = "absent"
          /\ mem' = [mem EXCEPT ![request[r].job] = [state |-> request[r].state, desired |-> request[r].desired]]
      BY <2>2 DEF Install, NoLateInstall
    <3>2. mem \in [JobIds -> Notes]
      BY DEF CoordinatorInv, Shapes
    <3> QED BY <3>1, <3>2
  <2> QED BY <2>1, <2>2 DEF RequesterStep, Enqueue, Retry, Spawn, Look, Offer, Acknowledge
<1>3. ASSUME NEW j \in JobIds
      PROVE  rows'[j].state = rows[j].state \/ (rows[j].state = "absent" /\ rows'[j].state = "queued")
  <2>1. CASE rows' = rows
    BY <2>1
  <2>2. ASSUME NEW c \in JobIds, Creates(c)
        PROVE  <1>3!2
    <3>1. rows \in [JobIds -> JobRows]
      BY DEF CoordinatorInv, Shapes
    <3> QED BY <2>2, <3>1 DEF Creates, NewRow
  <2> QED BY <2>1, <2>2, RequestRows, AcknowledgeStep
<1>4. Alone(NoThread) /\ NoThread \notin Threads /\ NoThread \notin Workers /\ NoThread \notin Clients
  BY <1>1, CoordinatorConstants, Roles DEF Alone
<1>5. ASSUME NEW j \in JobIds
      PROVE  Unasked(j)'
  <2>1. CASE j \in asked
    BY <1>1, <2>1 DEF Unasked
  <2>2. CASE j \notin asked
    <3>1. Unasked(j) /\ Explained(j)
      BY <2>2 DEF InterruptInv, Unasked
    <3>2. flag[j] \/ halted[j] = "told" => Raised(j)
      BY DEF Raised
    <3>3. "absent" \notin Terminal /\ rows'[j].state \notin {"cancelling", "cancelled"}
      BY <1>3, <2>2, <3>1 DEF Unasked, Terminal, Failures
    <3>4. Explained(j)'
      BY <1>1, <1>3, <1>4, <3>1, <3>2, <3>3, ExplainedKept
    <3> QED BY <1>1, <2>2, <3>1, <3>3, <3>4 DEF Unasked
  <2> QED BY <2>1, <2>2
<1>6. "absent" \notin Terminal \cup {"transferring"}
  BY DEF Terminal, Failures
<1>7. InterruptShapes'
  BY <1>1 DEF InterruptInv, InterruptShapes
<1> QED BY <1>1, <1>2, <1>4, <1>5, <1>6, <1>7, TruthStep, SMTT(40)

(* Every step of the coordinator keeps the invariant of the interrupts. *)
LEMMA InterruptStepInv ==
    ASSUME CoordinatorInv, RequestInv, NoLateInstall, InterruptInv, NobodyPauses, [Next]_vars, [PanicsAreStored]_vars
    PROVE  InterruptInv'
<1>1. CASE UNCHANGED vars
  BY <1>1, TruthfulEnvironment
<1>2. CASE Next /\ PanicsAreStored
  <2>1. CASE \E t \in Threads : ApplyStep(t)
    BY <1>2, <2>1, TruthfulApplyStep
  <2>2. CASE \E w \in Workers : WorkerStep(w)
    BY <2>2, TruthfulWorkerStep
  <2>3. CASE \E k \in Tickers : TickerStep(k)
    BY <2>3, TruthfulTicker
  <2>4. CASE \E c \in Clients : ClientStep(c)
    BY <2>4, TruthfulClient
  <2>5. CASE Restart
    BY <2>5, TruthfulRestart
  <2>6. CASE DeviceChange \/ BeginShutdown \/ StopQueue \/ \E j \in JobIds : TellShutdown(j) \/ RaiseShutdown(j)
    BY <2>6, TruthfulEnvironment
  <2>7. CASE (\E r \in Requesters : RequesterStep(r)) \/ (\E j \in JobIds : Acknowledge(j))
    BY <2>7, TruthfulRequest
  <2> QED BY <1>2, <2>1, <2>2, <2>3, <2>4, <2>5, <2>6, <2>7 DEF Next
<1> QED BY <1>1, <1>2

(* Only a user's cancel cancels (interrupt_outcome, coordinator.rs): in every
   behaviour in which nobody pauses and every panic of a worker reaches the store,
   for any number of threads and jobs, through shutdowns and restarts, no job is
   cancelling or cancelled unless a cancel was issued for it.  Both conditions are
   needed: without either one a worker may find the flag raised and no reason. *)
THEOREM OnlyCancelsCancel ==
    Spec /\ []NoLateInstall /\ []NobodyPauses /\ [][PanicsAreStored]_vars => []NoUnrequestedCancel
<1>1. Init => InterruptInv
  BY TruthfulInit
<1>2. CoordinatorInv /\ RequestInv /\ NoLateInstall /\ NobodyPauses /\ InterruptInv /\ [Next]_vars /\ [PanicsAreStored]_vars => InterruptInv'
  BY InterruptStepInv
<1>3. InterruptInv => NoUnrequestedCancel
  BY DEF InterruptInv, Unasked, NoUnrequestedCancel
<1> QED BY <1>1, <1>2, <1>3, CoordinatorInvariant, PTL DEF Spec

=============================================================================
