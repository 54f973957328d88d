-------------------------- MODULE DerivationProofs --------------------------
(***************************************************************************)
(* The derivation of a source is proved for every number of pairs, users,  *)
(* commands and troubles: an acknowledged stop is quiet, and every         *)
(* checkpointed pair is on disk.                                           *)
(*                                                                         *)
(* Neither is inductive.  DerivationInv adds that the control of the       *)
(* process follows the lane (Supervised), that the lane works only on a    *)
(* row that is active or being cancelled (OnActiveRow), that a pause which *)
(* is yet to be settled keeps the lane out as long as nobody took it back  *)
(* (Settles), and for the files that the current pair is the next one,     *)
(* which is why a discard never removes a checkpointed pair (RowKept), and *)
(* that what the lane is about to checkpoint or to commit is there         *)
(* (LaneKept).                                                             *)
(***************************************************************************)
EXTENDS Derivation, TLAPS

(* Where the lane may be, within an operation and outside; the steps that  *)
(* run a process of the job or handle its output are Working.              *)
Working == Stages \cup {"encoded", "measured", "validated", "publish_pair"}
Operation == Working \cup {"probed", "checkpoint", "stopped_in_stage", "failed", "finish"}
Outside == {"idle", "run", "no_source", "loop", "source", "probe", "plan", "pair", "gate", "commit",
            "cancel", "stopped", "start_pair", "begin_pair", "commit_row"}
LaneState == [pc : Operation \cup Outside, why : Reasons \cup {"deadline", None},
              then : {"idle", "loop"}]
Command == [pc : {"idle", "dispatch", "await", "settle"}, why : {"pause", "cancel", None},
            overtaken : BOOLEAN]

Shapes ==
    /\ row \in Row \cup {None}
    /\ work \in {"none", "partial", "whole"} /\ final \subseteq Pairs /\ derived \subseteq Pairs
    /\ stop \in Reasons \cup {None} /\ active \in BOOLEAN /\ orphan \in BOOLEAN
    /\ child \in {"none", "running", "terminating", "killing"}
    /\ queue \in BOOLEAN /\ up \in BOOLEAN /\ closing \in BOOLEAN /\ busy \in BOOLEAN
    /\ quiet \in BOOLEAN /\ crossed \in BOOLEAN /\ failed \in BOOLEAN
    /\ lane \in LaneState /\ user \in [Users -> Command]

\* Before the first start nothing is under way.
Started ==
    row = None => /\ lane.pc = "idle" /\ ~queue /\ up /\ ~quiet
                  /\ \A u \in Users : user[u].pc = "idle"

\* The current pair is the next one, a checkpointed pair is on disk, and a
\* derivative is published whole.
RowKept ==
    row # None =>
        /\ row.cur # None => row.cur = row.cp
        /\ 0..(row.cp - 1) \subseteq final \cup derived
        /\ row.state = "derived_verified" => derived = Pairs

\* The lane works on a pair of the plan, what it is about to checkpoint is on
\* disk while the row still encodes, and so is what it is about to commit.
InPair == {"start_pair", "begin_pair", "encoding", "encoded", "quality", "measured",
           "validation", "validated", "publish_pair"}
LaneKept ==
    row # None =>
        /\ lane.pc \in InPair => row.cp < NPairs
        /\ lane.pc = "checkpoint" /\ row.state = "encoding" => row.cp \in final
        /\ lane.pc = "commit_row" => derived = Pairs

\* The control of the process follows the lane.
Supervised == (active <=> lane.pc \in Operation) /\ (child # "none" => lane.pc \in Stages)

\* The lane works on a row that is active, or is being cancelled, unless the row
\* was taken from it.
OnActiveRow ==
    lane.pc \in Working /\ ~crossed => row.state \in Active \cup {"cancelling"}

\* A pause that is yet to be settled and was not taken back keeps the lane out.
Settles ==
    \A u \in Users :
        user[u].pc = "settle" /\ user[u].why = "pause" /\ ~user[u].overtaken
        => row.desired = "paused" /\ lane.pc \notin Working

Stopped ==
    quiet /\ ~crossed /\ (row.desired = "paused" \/ row.state = "cancelling")
    => lane.pc \notin Working

DerivationInv ==
    Shapes /\ Started /\ RowKept /\ LaneKept /\ Supervised /\ OnActiveRow /\ Settles /\ Stopped

-----------------------------------------------------------------------------
(* What a decision may do to the row.                                      *)

(* The constants. *)
LEMMA Sentinels ==
    /\ NPairs \in Nat /\ NPairs > 0 /\ None \notin Nat /\ None \notin Row
    /\ None # "pause" /\ None # "cancel" /\ None # "source" /\ None # "shutdown" /\ None # "deadline"
  BY DerivationAssumption DEF Reasons

\* A decision d of row r keeps its progress: the pair it works on and the pairs it
\* has, and discards only the current pair.
Keeps(r, d) ==
    /\ d.row \in Row /\ d.row.cp = r.cp /\ d.row.cur = r.cur
    /\ d.discard \in BOOLEAN /\ (d.discard => r.cur # None)
    /\ d.ok \in BOOLEAN
    /\ d.row.state = "derived_verified" => r.state = "derived_verified"

(* process_stopped: the row becomes inactive or stays; a cancel is never    *)
(* stored as cancelled.                                                    *)
LEMMA StoppedDecision ==
    ASSUME NEW r \in Row, NEW why
    PROVE  LET d == process_stopped(r, why)
           IN  /\ Keeps(r, d) /\ d.row.desired = r.desired /\ d.stop = None
               /\ d.row = r \/ d.row.state \in {"retry_wait", "waiting_for_source"}
               /\ d.discard => d.row.state # "encoding"
               /\ d.ok => why \in {"pause", "source", "shutdown"}
               /\ d.ok /\ why = "pause" => r.desired = "paused"
               /\ ~d.ok => d.row = r
<1>1. /\ r.state \in States /\ r.desired \in {"run", "paused"} /\ r.cp \in 0..NPairs
      /\ r.cur \in Pairs \cup {None}
  BY DEF Row
<1>2. \A s \in States : /\ [r EXCEPT !.state = s] \in Row /\ [r EXCEPT !.state = s].state = s
                        /\ [r EXCEPT !.state = s].cp = r.cp /\ [r EXCEPT !.state = s].cur = r.cur
                        /\ [r EXCEPT !.state = s].desired = r.desired
  BY DEF Row
<1>3. {"retry_wait", "waiting_for_source"} \subseteq States /\ "cancelled" \in Terminal
      /\ "retry_wait" \notin Terminal /\ "waiting_for_source" \notin Terminal
  BY DEF States, Inactive, Terminal
<1> DEFINE d == process_stopped(r, why)
<1>4. CASE r.state = "cancelling" /\ why = "cancel"
  <2>1. d.row = r /\ d.ok = FALSE /\ d.stop = None /\ d.discard = (r.cur # None)
    BY <1>3, <1>4 DEF process_stopped, DiscardAndCommit, Commit, Storable, Rejected, Decision
  <2> HIDE DEF d
  <2>2. d = process_stopped(r, why)
    BY DEF d
  <2> QED BY <1>1, <1>4, <2>1, <2>2 DEF Keeps
<1>5. ASSUME NEW s \in {"retry_wait", "waiting_for_source"}, d = DiscardAndCommit(r, s),
             why \in {"pause", "source", "shutdown"}, why = "pause" => r.desired = "paused"
      PROVE  LET e == process_stopped(r, why)
             IN  /\ Keeps(r, e) /\ e.row.desired = r.desired /\ e.stop = None
                 /\ e.row = r \/ e.row.state \in {"retry_wait", "waiting_for_source"}
                 /\ e.discard => e.row.state # "encoding"
                 /\ e.ok => why \in {"pause", "source", "shutdown"}
                 /\ e.ok /\ why = "pause" => r.desired = "paused"
                 /\ ~e.ok => e.row = r
  <2>1. d.row = [r EXCEPT !.state = s] /\ d.ok = TRUE /\ d.stop = None /\ d.discard = (r.cur # None)
    BY <1>3, <1>5 DEF DiscardAndCommit, Commit, Storable, Rejected, Decision
  <2> HIDE DEF d
  <2>2. d = process_stopped(r, why)
    BY DEF d
  <2>3. /\ d.row \in Row /\ d.row.state = s /\ d.row.cp = r.cp /\ d.row.cur = r.cur
        /\ d.row.desired = r.desired
    BY <1>2, <1>3, <1>5, <2>1
  <2>4. d.row.state # "encoding" /\ d.row.state # "derived_verified"
    BY <1>5, <2>3
  <2>5. Keeps(r, d)
    BY <2>1, <2>3, <2>4 DEF Keeps
  <2> QED BY <1>5, <2>1, <2>2, <2>3, <2>4, <2>5
<1>6. CASE d = Rejected(r)
  <2>1. d.row = r /\ d.ok = FALSE /\ d.stop = None /\ d.discard = FALSE
    BY <1>6 DEF Rejected, Decision
  <2> HIDE DEF d
  <2>2. d = process_stopped(r, why)
    BY DEF d
  <2> QED BY <2>1, <2>2 DEF Keeps
<1>7. \/ r.state = "cancelling" /\ why = "cancel"
      \/ d = Rejected(r)
      \/ \E s \in {"retry_wait", "waiting_for_source"} :
            /\ d = DiscardAndCommit(r, s)
            /\ why \in {"pause", "source", "shutdown"} /\ (why = "pause" => r.desired = "paused")
  BY DEF process_stopped
<1> QED BY <1>4, <1>5, <1>6, <1>7

(* stage_failed: a failure is not stored, but the pair is discarded. *)
LEMMA FailedDecision ==
    ASSUME NEW r \in Row
    PROVE  LET d == stage_failed(r)
           IN  Keeps(r, d) /\ d.row = r
<1>1. r.cur \in Pairs \cup {None} /\ r.state \in States
  BY DEF Row
<1> DEFINE d == stage_failed(r)
<1>2. d.row = r /\ d.ok = FALSE /\ d.discard \in BOOLEAN /\ (d.discard => r.cur # None)
  BY DEF stage_failed, Rejected, Decision, DiscardAndCommit, Commit, Storable, Terminal
<1> HIDE DEF d
<1>3. d = stage_failed(r)
  BY DEF d
<1> QED BY <1>2, <1>3 DEF Keeps

(* SourceAvailable and SourceUnavailable: nothing is discarded. *)
LEMMA SourceDecisions ==
    ASSUME NEW r \in Row, NEW d, d \in {source_available(r), source_unavailable(r)}
    PROVE  /\ Keeps(r, d) /\ d.row.desired = r.desired /\ d.discard = FALSE /\ d.stop \in {"source", None}
           /\ d.row.state = "cancelling" => r.state = "cancelling"
<1>1. r.state \in States /\ r.desired \in {"run", "paused"} /\ r.cp \in 0..NPairs /\ r.cur \in Pairs \cup {None}
  BY DEF Row
<1>2. \A s \in States : /\ [r EXCEPT !.state = s] \in Row /\ [r EXCEPT !.state = s].state = s
                        /\ [r EXCEPT !.state = s].cp = r.cp /\ [r EXCEPT !.state = s].cur = r.cur
                        /\ [r EXCEPT !.state = s].desired = r.desired
  BY DEF Row
<1>3. {"probing", "waiting_for_source"} \subseteq States \ Terminal
  BY DEF States, Active, Inactive, Terminal
<1>4. /\ d.ok = TRUE /\ d.discard = FALSE /\ d.stop \in {"source", None}
      /\ d.row = r \/ \E s \in {"probing", "waiting_for_source"} : d.row = [r EXCEPT !.state = s]
  BY <1>3 DEF source_available, source_unavailable, Commit, Storable, Decision, NoOp
<1> QED BY <1>2, <1>3, <1>4 DEF Keeps

\* What a command of the user may do besides.
Asks(c, r, d) ==
    /\ d.discard => d.row.state # "encoding"
    /\ d.stop \in {"pause", "cancel", None} /\ d.dispatch \in BOOLEAN /\ d.noop \in BOOLEAN
    /\ d.row.state = "encoding" => r.state = "encoding"
    /\ r.state \in Active \cup {"cancelling"} => d.row.state \in Active \cup {"cancelling"}
    /\ d.row.desired = "run" /\ r.desired = "paused" => c = "resume" /\ d.ok /\ ~d.noop
    /\ d.stop = "pause" => d.row.desired = "paused"
    /\ c = "pause" /\ d.row # r /\ d.stop = None /\ r.state # "cancelling" =>
          r.state \notin Active \cup {"cancelling"}

(* What start decides on a row that is there. *)
LEMMA NoOpFields ==
    ASSUME NEW r, NEW b
    PROVE  LET d == [NoOp(r) EXCEPT !.dispatch = b]
           IN  d.row = r /\ d.discard = FALSE /\ d.stop = None /\ d.dispatch = b /\ d.noop = TRUE /\ d.ok = TRUE
<1>1. /\ DOMAIN NoOp(r) = {"ok", "row", "stop", "discard", "dispatch", "noop"}
      /\ NoOp(r).row = r /\ NoOp(r).discard = FALSE /\ NoOp(r).stop = None /\ NoOp(r).noop = TRUE /\ NoOp(r).ok = TRUE
  BY DEF NoOp, Decision
<1> DEFINE n == NoOp(r)
<1> HIDE DEF n
<1>2. [n EXCEPT !.dispatch = b] = [i \in DOMAIN n |-> IF i = "dispatch" THEN b ELSE n[i]]
  OBVIOUS
<1> QED BY <1>1, <1>2 DEF n

(* A decision that leaves the row alone. *)
LEMMA IdleDecision ==
    ASSUME NEW c, NEW r \in Row, NEW d, d.row = r, d.discard = FALSE, d.stop = None,
           d.dispatch \in BOOLEAN, d.noop \in BOOLEAN, d.ok \in BOOLEAN
    PROVE  Keeps(r, d) /\ Asks(c, r, d)
<1>1. r.desired \in {"run", "paused"}
  BY DEF Row
<1> QED BY <1>1, Sentinels DEF Keeps, Asks

(* pause and resume change what is desired, cancel and retry the state. *)
LEMMA AskDecision ==
    ASSUME NEW r \in Row, NEW c \in Commands
    PROVE  Keeps(r, Decide(c, r)) /\ Asks(c, r, Decide(c, r))
<1>1. r.state \in States /\ r.desired \in {"run", "paused"} /\ r.cp \in 0..NPairs /\ r.cur \in Pairs \cup {None}
  BY DEF Row
<1> DEFINE d == Decide(c, r)
<1>2. CASE d = Rejected(r) \/ d = NoOp(r) \/ d = [NoOp(r) EXCEPT !.dispatch = r.state \notin Terminal /\ r.desired = "run"]
  <2>1. /\ d.row = r /\ d.discard = FALSE /\ d.stop = None /\ d.dispatch \in BOOLEAN /\ d.noop \in BOOLEAN
        /\ d.ok \in BOOLEAN
    <3> DEFINE b == (r.state \notin Terminal /\ r.desired = "run")
    <3>1. b \in BOOLEAN
      OBVIOUS
    <3>2. CASE d = Rejected(r)
      BY <3>2 DEF Rejected, Decision
    <3>3. CASE d = NoOp(r)
      BY <3>3 DEF NoOp, Decision
    <3>4. CASE d = [NoOp(r) EXCEPT !.dispatch = b]
      <4> HIDE DEF b
      <4> DEFINE e == [NoOp(r) EXCEPT !.dispatch = b]
      <4>1. e.row = r /\ e.discard = FALSE /\ e.stop = None /\ e.dispatch = b /\ e.noop = TRUE /\ e.ok = TRUE
        BY NoOpFields
      <4>2. d = e
        BY <3>4
      <4> HIDE DEF d, e
      <4> QED BY <3>1, <4>1, <4>2
    <3> QED BY <1>2, <3>2, <3>3, <3>4
  <2> HIDE DEF d
  <2>2. Keeps(r, d) /\ Asks(c, r, d)
    BY <2>1, IdleDecision
  <2> QED BY <2>2 DEF d
<1>3. ASSUME c = "start"
      PROVE  d = [NoOp(r) EXCEPT !.dispatch = r.state \notin Terminal /\ r.desired = "run"]
  BY <1>3, Sentinels DEF Decide, start
<1>4. CASE c = "pause" /\ r.state \notin Terminal /\ r.desired # "paused"
  <2> DEFINE x == [r EXCEPT !.desired = "paused"]
  <2>1. x \in Row /\ x.state = r.state /\ x.cp = r.cp /\ x.cur = r.cur /\ x.desired = "paused"
    BY DEF Row
  <2>2. d = [Decision(TRUE, x) EXCEPT !.stop = IF r.state \in Active THEN "pause" ELSE None]
    BY <1>4 DEF Decide, pause
  <2> HIDE DEF x, d
  <2>3. /\ d.row = x /\ d.discard = FALSE /\ d.ok = TRUE /\ d.dispatch = FALSE /\ d.noop = FALSE
        /\ d.stop = IF r.state \in Active THEN "pause" ELSE None
    BY <2>2 DEF Decision
  <2>4. Keeps(r, d)
    BY <2>1, <2>3 DEF Keeps
  <2>5. Asks(c, r, d)
    BY <1>4, <2>1, <2>3, Sentinels DEF Asks
  <2> QED BY <2>4, <2>5 DEF d
<1>5. CASE c = "resume" /\ r.state \notin Terminal /\ r.desired # "run"
  <2> DEFINE x == [r EXCEPT !.desired = "run"]
  <2>1. x \in Row /\ x.state = r.state /\ x.cp = r.cp /\ x.cur = r.cur /\ x.desired = "run"
    BY DEF Row
  <2>2. d = [Decision(TRUE, x) EXCEPT !.dispatch = TRUE]
    BY <1>5 DEF Decide, resume
  <2> HIDE DEF x, d
  <2>3. /\ d.row = x /\ d.discard = FALSE /\ d.ok = TRUE /\ d.dispatch = TRUE /\ d.noop = FALSE
        /\ d.stop = None
    BY <2>2 DEF Decision
  <2>4. Keeps(r, d)
    BY <2>1, <2>3 DEF Keeps
  <2>5. Asks(c, r, d)
    BY <1>5, <2>1, <2>3, Sentinels DEF Asks
  <2> QED BY <2>4, <2>5 DEF d
<1>6. CASE c = "cancel" /\ r.state \notin Terminal /\ r.state # "cancelling"
  <2> DEFINE x == [r EXCEPT !.state = "cancelling"]
  <2>1. x \in Row /\ x.state = "cancelling" /\ x.cp = r.cp /\ x.cur = r.cur /\ x.desired = r.desired
    BY DEF Row, States
  <2>2. d = IF r.state \in Active THEN [Decision(TRUE, x) EXCEPT !.stop = "cancel"]
            ELSE DiscardAndCommit(x, "cancelled")
    BY <1>6 DEF Decide, cancel
  <2> HIDE DEF x, d
  <2>3. /\ d.row = x /\ d.discard \in BOOLEAN /\ (d.discard => x.cur # None) /\ d.ok \in BOOLEAN
        /\ d.dispatch = FALSE /\ d.noop = FALSE /\ d.stop \in {"cancel", None}
    BY <2>2 DEF Decision, DiscardAndCommit, Commit, Storable, Rejected, Terminal
  <2>4. Keeps(r, d)
    BY <2>1, <2>3 DEF Keeps
  <2>5. Asks(c, r, d)
    BY <1>6, <2>1, <2>3, Sentinels DEF Asks
  <2> QED BY <2>4, <2>5 DEF d
<1>7. CASE c = "retry" /\ r.state = "failed"
  <2> DEFINE x == [r EXCEPT !.state = "queued"]
  <2>1. x \in Row /\ x.state = "queued" /\ x.cp = r.cp /\ x.cur = r.cur /\ x.desired = r.desired
    BY DEF Row, States, Inactive
  <2>2. d = [Commit(r, "queued") EXCEPT !.dispatch = TRUE]
    BY <1>7 DEF Decide, retry
  <2>3. Commit(r, "queued") = Decision(TRUE, x)
    BY DEF Commit, Storable, Terminal
  <2> HIDE DEF x, d
  <2>4. /\ d.row = x /\ d.discard = FALSE /\ d.ok = TRUE /\ d.dispatch = TRUE /\ d.noop = FALSE
        /\ d.stop = None
    BY <2>2, <2>3 DEF Decision
  <2>5. Keeps(r, d)
    BY <2>1, <2>4 DEF Keeps
  <2>6. Asks(c, r, d)
    BY <1>7, <2>1, <2>4, Sentinels DEF Asks, Active
  <2> QED BY <2>5, <2>6 DEF d
<1>8. \/ c = "start"
      \/ d = Rejected(r) \/ d = NoOp(r)
      \/ c = "pause" /\ r.state \notin Terminal /\ r.desired # "paused"
      \/ c = "resume" /\ r.state \notin Terminal /\ r.desired # "run"
      \/ c = "cancel" /\ r.state \notin Terminal /\ r.state # "cancelling"
      \/ c = "retry" /\ r.state = "failed"
  <2>1. CASE c = "pause"
    BY <2>1 DEF Decide, pause
  <2>2. CASE c = "resume"
    BY <2>2 DEF Decide, resume
  <2>3. CASE c = "cancel"
    BY <2>3 DEF Decide, cancel
  <2>4. CASE c = "retry"
    BY <2>4 DEF Decide, retry
  <2> QED BY <2>1, <2>2, <2>3, <2>4 DEF Commands
<1> QED BY <1>2, <1>3, <1>4, <1>5, <1>6, <1>7, <1>8

(* The first start creates the row. *)
LEMMA FirstStart ==
    LET d == Decide("start", None)
    IN  /\ d.row \in Row /\ d.row.cp = 0 /\ d.row.cur = None /\ d.row.state = "queued" /\ d.row.desired = "run"
        /\ d.stop = None /\ d.discard = FALSE /\ d.dispatch = TRUE /\ d.noop = FALSE /\ d.ok = TRUE
<1> DEFINE x == [state |-> "queued", desired |-> "run", cp |-> 0, cur |-> None]
           d == Decide("start", None)
<1>1. x \in Row
  BY Sentinels DEF Row, States, Inactive
<1>2. d = [Decision(TRUE, x) EXCEPT !.dispatch = TRUE]
  BY DEF Decide, start
<1>3. x.state = "queued" /\ x.desired = "run" /\ x.cp = 0 /\ x.cur = None
  OBVIOUS
<1> HIDE DEF x, d
<1>4. /\ d.row = x /\ d.stop = None /\ d.discard = FALSE /\ d.dispatch = TRUE /\ d.noop = FALSE /\ d.ok = TRUE
  BY <1>2 DEF Decision
<1> QED BY <1>1, <1>3, <1>4 DEF d

-----------------------------------------------------------------------------
(* What the steps have in common.                                          *)

(* A row that is there. *)
LEMMA RowIsThere ==
    ASSUME DerivationInv, row # None
    PROVE  /\ row \in Row /\ row.state \in States /\ row.desired \in {"run", "paused"}
           /\ row.cp \in 0..NPairs /\ row.cur \in Pairs \cup {None}
  BY DEF DerivationInv, Shapes, Row

(* The lane in its next place. *)
LEMMA LaneGoes ==
    ASSUME Shapes, NEW p \in Operation \cup Outside,
           NEW w \in Reasons \cup {"deadline", None}, NEW t \in {"idle", "loop"}
    PROVE  /\ [lane EXCEPT !.pc = p] \in LaneState /\ [lane EXCEPT !.pc = p].pc = p
           /\ [lane EXCEPT !.pc = p, !.why = w] \in LaneState /\ [lane EXCEPT !.pc = p, !.why = w].pc = p
           /\ [lane EXCEPT !.pc = p, !.then = t] \in LaneState /\ [lane EXCEPT !.pc = p, !.then = t].pc = p
           /\ [lane EXCEPT !.pc = p, !.why = w, !.then = t] \in LaneState
           /\ [lane EXCEPT !.pc = p, !.why = w, !.then = t].pc = p
           /\ [lane EXCEPT !.why = w] \in LaneState /\ [lane EXCEPT !.why = w].pc = lane.pc
<1>1. lane \in LaneState
  BY DEF Shapes
<1>2. lane = [pc |-> lane.pc, why |-> lane.why, then |-> lane.then]
      /\ lane.pc \in Operation \cup Outside /\ lane.why \in Reasons \cup {"deadline", None}
      /\ lane.then \in {"idle", "loop"}
  BY <1>1 DEF LaneState
<1>3. /\ [lane EXCEPT !.pc = p] \in LaneState /\ [lane EXCEPT !.pc = p].pc = p
  BY <1>1, <1>2 DEF LaneState
<1>4. /\ [lane EXCEPT !.pc = p, !.why = w] \in LaneState /\ [lane EXCEPT !.pc = p, !.why = w].pc = p
  BY <1>1, <1>2 DEF LaneState
<1>5. /\ [lane EXCEPT !.pc = p, !.then = t] \in LaneState /\ [lane EXCEPT !.pc = p, !.then = t].pc = p
  BY <1>1, <1>2 DEF LaneState
<1>6. /\ [lane EXCEPT !.pc = p, !.why = w, !.then = t] \in LaneState
      /\ [lane EXCEPT !.pc = p, !.why = w, !.then = t].pc = p
  BY <1>1, <1>2 DEF LaneState
<1>7. /\ [lane EXCEPT !.why = w] \in LaneState /\ [lane EXCEPT !.why = w].pc = lane.pc
  BY <1>1, <1>2 DEF LaneState
<1> QED BY <1>3, <1>4, <1>5, <1>6, <1>7

\* The variables that no proof looks into have their types.
Rest ==
    /\ stop \in Reasons \cup {None} /\ orphan \in BOOLEAN
    /\ queue \in BOOLEAN /\ up \in BOOLEAN /\ closing \in BOOLEAN /\ busy \in BOOLEAN
    /\ quiet \in BOOLEAN /\ crossed \in BOOLEAN /\ failed \in BOOLEAN

\* The files and the process have their types.
Disk == work \in {"none", "partial", "whole"} /\ final \subseteq Pairs /\ derived \subseteq Pairs
Proc == active \in BOOLEAN /\ child \in {"none", "running", "terminating", "killing"}

(* The types, part by part. *)
LEMMA ShapeParts ==
    Shapes <=> /\ row \in Row \cup {None} /\ Rest /\ Disk /\ Proc
               /\ lane \in LaneState /\ user \in [Users -> Command]
  BY DEF Shapes, Rest, Disk, Proc

(* A step after which the lane does not work on a pair keeps the invariant *)
(* if it keeps the files and what is desired.                              *)
LEMMA LaneRests ==
    ASSUME DerivationInv, row # None,
           row' \in Row, row'.desired = row.desired, Rest', Disk', Proc', user' = user,
           lane' \in LaneState, lane'.pc \notin Working, RowKept', LaneKept', Supervised'
    PROVE  DerivationInv'
<1>1. row' # None
  BY Sentinels
<1>2. Shapes'
  BY ShapeParts DEF DerivationInv, Shapes, Rest, Disk, Proc
<1>3. Started'
  BY <1>1 DEF Started
<1>4. OnActiveRow'
  BY DEF OnActiveRow
<1>5. Settles'
  BY DEF DerivationInv, Settles
<1>6. Stopped'
  BY DEF Stopped
<1> QED BY <1>2, <1>3, <1>4, <1>5, <1>6 DEF DerivationInv

(* A step within the work on a pair leaves the row alone. *)
LEMMA LaneWorks ==
    ASSUME DerivationInv, row # None, row' = row, user' = user, quiet' = quiet, crossed' = crossed,
           Rest', Disk', Proc', lane' \in LaneState, lane.pc \in Working,
           RowKept', LaneKept', Supervised'
    PROVE  DerivationInv'
<1>1. row' # None
  OBVIOUS
<1>2. Shapes'
  BY RowIsThere DEF DerivationInv, Shapes, Rest, Disk, Proc
<1>3. Started'
  BY <1>1 DEF Started
<1>4. OnActiveRow'
  BY DEF DerivationInv, OnActiveRow
<1>5. Settles'
  BY DEF DerivationInv, Settles
<1>6. Stopped'
  BY DEF DerivationInv, Stopped
<1> QED BY <1>2, <1>3, <1>4, <1>5, <1>6 DEF DerivationInv

(* The files of a reduction: only the current pair may go. *)
LEMMA DiscardKeeps ==
    ASSUME DerivationInv, row # None, NEW d, Keeps(row, d), row' = d.row, Discard(d)
    PROVE  /\ row' \in Row /\ Disk' /\ RowKept' /\ derived' = derived
           /\ ~d.discard => final' = final
<1>1. /\ row \in Row /\ row.state \in States /\ row.desired \in {"run", "paused"}
      /\ row.cp \in 0..NPairs /\ row.cur \in Pairs \cup {None}
  BY RowIsThere
<1>2. /\ row' \in Row /\ row'.cp = row.cp /\ row'.cur = row.cur
      /\ row'.state = "derived_verified" => row.state = "derived_verified"
      /\ d.discard \in BOOLEAN /\ (d.discard => row.cur # None)
  BY DEF Keeps
<1>3. derived' = derived /\ work' \in {"none", work} /\ final' \in {final, final \ {row.cur}}
      /\ (~d.discard => final' = final)
  BY <1>2 DEF Discard
<1>4. row.cur # None => row.cur = row.cp
  BY DEF DerivationInv, RowKept
<1>5. d.discard => final' = final \ {row.cp}
  BY <1>2, <1>4 DEF Discard
<1>6. Disk'
  BY <1>3 DEF Disk, DerivationInv, Shapes
<1>7. 0..(row'.cp - 1) \subseteq final' \cup derived'
  <2>1. 0..(row.cp - 1) \subseteq final \cup derived /\ row.cp \notin 0..(row.cp - 1)
    BY <1>1, Sentinels DEF DerivationInv, RowKept
  <2>2. final' = final \/ final' = final \ {row.cp}
    BY <1>2, <1>3, <1>5
  <2> QED BY <1>2, <1>3, <2>1, <2>2
<1>8. row'.state = "derived_verified" => derived' = Pairs
  BY <1>2, <1>3 DEF DerivationInv, RowKept
<1>9. RowKept'
  BY <1>2, <1>4, <1>7, <1>8 DEF RowKept
<1> QED BY <1>2, <1>3, <1>6, <1>9

-----------------------------------------------------------------------------
(* The steps of the user's threads.                                        *)

(* The acknowledgement may be settled at once only outside an operation. *)
LEMMA AskStep ==
    ASSUME DerivationInv, NEW u \in Users, NEW c \in Commands, Ask(u, c)
    PROVE  DerivationInv'
<1> DEFINE d == Decide(c, row)
<1>1. /\ row' = d.row /\ Discard(d) /\ (row = None => c = "start")
      /\ stop' = IF c = "resume" THEN None ELSE IF d.stop # None THEN d.stop ELSE stop
      /\ user' = [v \in Users |->
              IF v = u
              THEN [pc |-> IF d.dispatch THEN "dispatch" ELSE AwaitReap(d), why |-> d.stop,
                    overtaken |-> FALSE]
              ELSE [user[v] EXCEPT !.overtaken =
                      @ \/ (user[v].pc # "idle" /\ c = "resume" /\ d.ok /\ ~d.noop)]]
      /\ quiet' = IF d.row = row THEN quiet
                  ELSE c = "pause" /\ d.stop = None /\ row.state # "cancelling"
      /\ UNCHANGED <<active, child, orphan, queue, up, closing, busy, lane, crossed, failed>>
  BY DEF Ask, app
<1>2. /\ Shapes /\ Started /\ RowKept /\ LaneKept /\ Supervised /\ OnActiveRow /\ Settles /\ Stopped
  BY DEF DerivationInv
<1>3. /\ row # None => Keeps(row, d) /\ Asks(c, row, d)
      /\ row = None => /\ d.row \in Row /\ d.row.cp = 0 /\ d.row.cur = None /\ d.row.state = "queued"
                       /\ d.row.desired = "run" /\ d.stop = None /\ d.discard = FALSE
                       /\ d.dispatch = TRUE /\ d.noop = FALSE /\ d.ok = TRUE
  <2>1. CASE row # None
    <3>1. row \in Row
      BY <2>1, RowIsThere
    <3> QED BY <2>1, <3>1, AskDecision
  <2>2. CASE row = None
    <3>1. d = Decide("start", None)
      BY <1>1, <2>2
    <3> HIDE DEF d
    <3> QED BY <2>2, <3>1, FirstStart
  <2> QED BY <2>1, <2>2
<1> HIDE DEF d
<1>4. /\ d.stop \in {"pause", "cancel", None} /\ d.dispatch \in BOOLEAN /\ d.ok \in BOOLEAN /\ d.noop \in BOOLEAN
  BY <1>3 DEF Keeps, Asks
<1>5. /\ row' \in Row /\ row' # None /\ Disk' /\ RowKept' /\ derived' = derived /\ (~d.discard => final' = final)
  <2>1. CASE row # None
    BY <1>1, <1>3, <2>1, DiscardKeeps, Sentinels
  <2>2. CASE row = None
    <3>1. row' \in Row /\ row'.cp = 0 /\ row'.cur = None /\ row'.state = "queued"
      BY <1>1, <1>3, <2>2
    <3>2. final' = final /\ derived' = derived /\ work' = work
      BY <1>1, <1>3, <2>2 DEF Discard
    <3>3. 0..(row'.cp - 1) = {}
      BY <3>1
    <3>4. RowKept'
      BY <3>1, <3>3 DEF RowKept
    <3>5. Disk'
      BY <1>2, <3>2 DEF Disk, Shapes
    <3> QED BY <3>1, <3>2, <3>4, <3>5, Sentinels
  <2> QED BY <2>1, <2>2
<1>6. user' \in [Users -> Command]
  <2>1. ASSUME NEW v \in Users PROVE user'[v] \in Command
    <3>1. user[v] \in Command
      BY <1>2 DEF Shapes
    <3>2. CASE v = u
      <4>1. user'[v] = [pc |-> IF d.dispatch THEN "dispatch" ELSE AwaitReap(d), why |-> d.stop,
                        overtaken |-> FALSE]
        BY <1>1, <3>2
      <4>2. AwaitReap(d) \in {"idle", "await", "settle"}
        BY DEF AwaitReap
      <4> QED BY <1>4, <4>1, <4>2 DEF Command
    <3>3. CASE v # u
      <4> DEFINE b == (user[v].overtaken \/ (user[v].pc # "idle" /\ c = "resume" /\ d.ok /\ ~d.noop))
      <4>1. user'[v] = [user[v] EXCEPT !.overtaken = b]
        BY <1>1, <3>3
      <4>2. b \in BOOLEAN
        OBVIOUS
      <4> HIDE DEF b
      <4> QED BY <3>1, <4>1, <4>2 DEF Command
    <3> QED BY <3>2, <3>3
  <2>2. DOMAIN user' = Users /\ user' = [v \in Users |-> user'[v]]
    BY <1>1
  <2> QED BY <2>1, <2>2
<1>7. quiet' \in BOOLEAN /\ stop' \in Reasons \cup {None}
  BY <1>1, <1>2, <1>4 DEF Shapes, Reasons
<1>8. Shapes'
  BY <1>1, <1>2, <1>5, <1>6, <1>7 DEF Shapes, Disk
<1>9. Started'
  BY <1>5 DEF Started
<1>10. LaneKept'
  <2>1. CASE row # None
    <3>1. row'.cp = row.cp /\ (row'.state = "encoding" => row.state = "encoding" /\ ~d.discard)
      BY <1>1, <1>3, <2>1 DEF Keeps, Asks
    <3> QED BY <1>1, <1>2, <1>5, <2>1, <3>1 DEF LaneKept
  <2>2. CASE row = None
    <3>1. lane'.pc = "idle"
      BY <1>1, <1>2, <2>2 DEF Started
    <3> QED BY <3>1 DEF LaneKept, InPair
  <2> QED BY <2>1, <2>2
<1>11. Supervised'
  BY <1>1, <1>2 DEF Supervised
<1>12. OnActiveRow'
  <2>1. CASE row # None
    <3>1. row.state \in Active \cup {"cancelling"} => row'.state \in Active \cup {"cancelling"}
      BY <1>1, <1>3, <2>1 DEF Asks
    <3> QED BY <1>1, <1>2, <3>1 DEF OnActiveRow
  <2>2. CASE row = None
    <3>1. lane'.pc = "idle"
      BY <1>1, <1>2, <2>2 DEF Started
    <3> QED BY <3>1 DEF OnActiveRow, Working, Stages
  <2> QED BY <2>1, <2>2
<1>13. Settles'
  <2> SUFFICES ASSUME NEW v \in Users, user'[v].pc = "settle", user'[v].why = "pause", ~user'[v].overtaken
               PROVE  row'.desired = "paused" /\ lane'.pc \notin Working
    BY DEF Settles
  <2>1. CASE v = u
    <3>1. user'[v] = [pc |-> IF d.dispatch THEN "dispatch" ELSE AwaitReap(d), why |-> d.stop,
                      overtaken |-> FALSE]
      BY <1>1, <2>1
    <3>2. d.stop = "pause" /\ AwaitReap(d) = "settle"
      BY <3>1
    <3>3. ~active
      BY <3>2 DEF AwaitReap
    <3>4. lane.pc \notin Working
      BY <1>2, <3>3 DEF Supervised, Operation
    <3>5. row # None
      BY <1>3, <3>2, Sentinels
    <3>6. row'.desired = "paused"
      BY <1>1, <1>3, <3>2, <3>5 DEF Asks
    <3> QED BY <1>1, <3>4, <3>6
  <2>2. CASE v # u
    <3> DEFINE b == (user[v].overtaken \/ (user[v].pc # "idle" /\ c = "resume" /\ d.ok /\ ~d.noop))
    <3>1. user'[v] = [user[v] EXCEPT !.overtaken = b] /\ user[v] \in Command
      BY <1>1, <1>2, <2>2 DEF Shapes
    <3>2. user'[v].pc = user[v].pc /\ user'[v].why = user[v].why /\ user'[v].overtaken = b
      <4> HIDE DEF b
      <4> QED BY <3>1 DEF Command
    <3>3. user[v].pc = "settle" /\ user[v].why = "pause" /\ ~user[v].overtaken /\ ~(c = "resume" /\ d.ok /\ ~d.noop)
      BY <3>2
    <3>4. row.desired = "paused" /\ lane.pc \notin Working /\ row # None
      BY <1>2, <3>3 DEF Settles, Started
    <3>5. row'.desired \in {"run", "paused"}
      BY <1>5 DEF Row
    <3>6. row'.desired = "paused"
      BY <1>1, <1>3, <3>3, <3>4, <3>5 DEF Asks
    <3> QED BY <1>1, <3>4, <3>6
  <2> QED BY <2>1, <2>2
<1>14. Stopped'
  <2>1. CASE d.row = row
    <3>1. row' = row /\ quiet' = quiet /\ crossed' = crossed /\ lane' = lane
      BY <1>1, <2>1
    <3> QED BY <1>2, <3>1 DEF Stopped
  <2>2. CASE d.row # row
    <3>1. CASE row = None
      <4>1. lane'.pc = "idle"
        BY <1>1, <1>2, <3>1 DEF Started
      <4> QED BY <4>1 DEF Stopped, Working, Stages
    <3>2. CASE row # None
      <4>1. quiet' => row.state \notin Active \cup {"cancelling"}
        BY <1>1, <1>3, <2>2, <3>2 DEF Asks
      <4> QED BY <1>1, <1>2, <4>1 DEF Stopped, OnActiveRow
    <3> QED BY <3>1, <3>2
  <2> QED BY <2>1, <2>2
<1> QED BY <1>5, <1>8, <1>9, <1>10, <1>11, <1>12, <1>13, <1>14 DEF DerivationInv

(* A thread that ends its command. *)
LEMMA CommandEnds ==
    ASSUME DerivationInv, NEW u \in Users, user' = [user EXCEPT ![u] = NoCommand]
    PROVE  /\ user' \in [Users -> Command] /\ user'[u].pc = "idle"
           /\ \A v \in Users : v # u => user'[v] = user[v]
<1>1. user \in [Users -> Command] /\ NoCommand \in Command /\ NoCommand.pc = "idle"
  BY DEF DerivationInv, Shapes, NoCommand, Command
<1> QED BY <1>1

(* A command that does not touch the row ends. *)
LEMMA EndFrame ==
    ASSUME DerivationInv, NEW u \in Users, row # None,
           user' = [user EXCEPT ![u] = NoCommand],
           UNCHANGED <<row, files, process, lane, crossed>>, Rest',
           quiet' = quiet \/ lane.pc \notin Working
    PROVE  DerivationInv'
<1>1. UNCHANGED <<row, work, final, derived, stop, active, child, orphan, lane, crossed>>
  BY DEF files, process
<1>2. /\ user' \in [Users -> Command] /\ user'[u].pc = "idle"
      /\ \A v \in Users : v # u => user'[v] = user[v]
  BY CommandEnds
<1>3. Shapes'
  BY <1>1, <1>2 DEF DerivationInv, Shapes, Rest
<1>4. Started' /\ RowKept' /\ LaneKept' /\ Supervised' /\ OnActiveRow'
  BY <1>1 DEF DerivationInv, Started, RowKept, LaneKept, Supervised, OnActiveRow
<1>5. Settles'
  BY <1>1, <1>2 DEF DerivationInv, Settles
<1>6. Stopped'
  <2>1. CASE quiet' = quiet
    BY <1>1, <2>1 DEF DerivationInv, Stopped
  <2>2. CASE lane.pc \notin Working
    BY <1>1, <2>2 DEF Stopped
  <2> QED BY <2>1, <2>2
<1> QED BY <1>3, <1>4, <1>5, <1>6 DEF DerivationInv

(* A stop that is settled after it was taken back crosses the operation. *)
LEMMA SettleStep ==
    ASSUME DerivationInv, NEW u \in Users, Settle(u)
    PROVE  DerivationInv'
<1> DEFINE d == process_stopped(row, user[u].why)
<1>1. /\ user[u].pc = "settle" /\ row' = d.row /\ Discard(d) /\ user' = [user EXCEPT ![u] = NoCommand]
      /\ quiet' = (quiet \/ (d.ok /\ ~user[u].overtaken))
      /\ crossed' = (crossed \/ (active /\ user[u].overtaken /\ d.ok))
      /\ UNCHANGED <<stop, active, child, orphan, queue, up, closing, busy, lane, failed>>
  BY DEF Settle, Answered, process, app
<1>2. /\ Shapes /\ Started /\ RowKept /\ LaneKept /\ Supervised /\ OnActiveRow /\ Settles /\ Stopped
  BY DEF DerivationInv
<1>3. row # None /\ row \in Row
  BY <1>1, <1>2, RowIsThere DEF Started
<1>4. /\ Keeps(row, d) /\ d.row.desired = row.desired
      /\ d.row = row \/ d.row.state \in {"retry_wait", "waiting_for_source"}
      /\ d.discard => d.row.state # "encoding"
      /\ d.ok => user[u].why \in {"pause", "source", "shutdown"}
      /\ ~d.ok => d.row = row
  BY <1>3, StoppedDecision
<1> HIDE DEF d
<1>5. d.ok \in BOOLEAN /\ d.row.cp = row.cp
  BY <1>4 DEF Keeps
<1>6. /\ row' \in Row /\ row' # None /\ Disk' /\ RowKept' /\ derived' = derived /\ (~d.discard => final' = final)
  BY <1>1, <1>3, <1>4, DiscardKeeps, Sentinels
<1>7. /\ user' \in [Users -> Command] /\ user'[u].pc = "idle"
      /\ \A v \in Users : v # u => user'[v] = user[v]
  BY <1>1, CommandEnds
<1>8. user[u].why \in {"pause", "cancel", None} /\ user[u].overtaken \in BOOLEAN
  BY <1>2 DEF Shapes, Command
<1>9. d.ok => user[u].why = "pause"
  BY <1>4, <1>8, Sentinels
<1>10. d.ok /\ ~user[u].overtaken => lane.pc \notin Working
  BY <1>1, <1>2, <1>9 DEF Settles
<1>11. lane.pc \in Working => active
  BY <1>2 DEF Supervised, Operation
<1>12. Shapes'
  <2>1. quiet' \in BOOLEAN /\ crossed' \in BOOLEAN
    BY <1>1
  <2> QED BY <1>1, <1>2, <1>6, <1>7, <2>1 DEF Shapes, Disk
<1>13. Started'
  BY <1>6 DEF Started
<1>14. LaneKept'
  <2>1. row'.state = "encoding" => row.state = "encoding" /\ ~d.discard
    BY <1>1, <1>4
  <2> QED BY <1>1, <1>2, <1>3, <1>5, <1>6, <2>1 DEF LaneKept
<1>15. Supervised'
  BY <1>1, <1>2 DEF Supervised
<1>16. OnActiveRow'
  <2>1. lane.pc \in Working /\ ~crossed' => d.row = row
    BY <1>1, <1>4, <1>5, <1>8, <1>10, <1>11
  <2> QED BY <1>1, <1>2, <1>5, <1>8, <2>1 DEF OnActiveRow
<1>17. Settles'
  BY <1>1, <1>2, <1>4, <1>7 DEF Settles
<1>18. Stopped'
  <2>1. row'.state = "cancelling" => row.state = "cancelling"
    BY <1>1, <1>4
  <2> QED BY <1>1, <1>2, <1>4, <1>5, <1>8, <1>10, <2>1 DEF Stopped
<1> QED BY <1>6, <1>12, <1>13, <1>14, <1>15, <1>16, <1>17, <1>18 DEF DerivationInv

(* The other steps of a command. *)
LEMMA UserSteps ==
    ASSUME DerivationInv, NEW u \in Users, Enqueue(u) \/ Idle(u) \/ IdleTimeout(u)
    PROVE  DerivationInv'
<1>1. row # None
  BY DEF DerivationInv, Started, Enqueue, Idle, IdleTimeout
<1>2. Rest /\ user[u].overtaken \in BOOLEAN
  BY ShapeParts DEF DerivationInv, Shapes, Rest, Command
<1>3. CASE Enqueue(u)
  <2>1. /\ user' = [user EXCEPT ![u] = NoCommand] /\ UNCHANGED <<row, files, process, lane, crossed>>
        /\ queue' = (queue \/ ~closing) /\ UNCHANGED <<stop, orphan, up, closing, busy, quiet, crossed, failed>>
    BY <1>3 DEF Enqueue, seen, process
  <2>2. Rest'
    BY <1>2, <2>1 DEF Rest
  <2> QED BY <1>1, <2>1, <2>2, EndFrame
<1>4. CASE Idle(u)
  <2>1. /\ ~active /\ user' = [user EXCEPT ![u] = NoCommand] /\ UNCHANGED <<row, files, process, lane, crossed>>
        /\ quiet' = (quiet \/ ~user[u].overtaken) /\ UNCHANGED <<stop, orphan, queue, up, closing, busy, failed>>
    BY <1>4 DEF Idle, Answered, app, process
  <2>2. Rest'
    BY <1>2, <2>1 DEF Rest
  <2>3. lane.pc \notin Working
    BY <2>1 DEF DerivationInv, Supervised, Operation
  <2> QED BY <1>1, <2>1, <2>2, <2>3, EndFrame
<1>5. CASE IdleTimeout(u)
  <2>1. /\ user' = [user EXCEPT ![u] = NoCommand] /\ UNCHANGED <<row, files, process, lane, crossed>>
        /\ UNCHANGED <<stop, orphan, queue, up, closing, busy, quiet, failed>>
    BY <1>5 DEF IdleTimeout, app, process, seen
  <2>2. Rest'
    BY <1>2, <2>1 DEF Rest
  <2> QED BY <1>1, <2>1, <2>2, EndFrame
<1> QED BY <1>3, <1>4, <1>5

-----------------------------------------------------------------------------
(* The steps of the lane.                                                  *)

\* Where the lane has nothing in its hands.
Free == (Operation \cup Outside) \ (Working \cup InPair \cup {"checkpoint", "commit_row"})

(* The lane goes on without touching the row or a finished pair. *)
LEMMA RestsFrame ==
    ASSUME DerivationInv, row # None, UNCHANGED <<row, final, derived, user>>, Disk', Rest', Proc',
           lane' \in LaneState, lane'.pc \in Free \cup {"start_pair", "begin_pair"},
           lane'.pc \in InPair => row.cp < NPairs, Supervised'
    PROVE  DerivationInv'
<1>1. RowKept'
  BY DEF DerivationInv, RowKept
<1>2. LaneKept'
  BY DEF LaneKept, Free
<1>3. lane'.pc \notin Working
  BY DEF Free, Working, Stages
<1> QED BY <1>1, <1>2, <1>3, LaneRests, RowIsThere

(* The work on a pair goes on. *)
LEMMA WorksFrame ==
    ASSUME DerivationInv, row # None, UNCHANGED <<row, final, derived, user, quiet, crossed>>,
           Disk', Rest', Proc', lane' \in LaneState, lane.pc \in Working,
           lane'.pc \notin {"checkpoint", "commit_row"}, lane'.pc \in InPair => lane.pc \in InPair,
           Supervised'
    PROVE  DerivationInv'
<1>1. RowKept'
  BY DEF DerivationInv, RowKept
<1>2. LaneKept'
  BY DEF DerivationInv, LaneKept
<1> QED BY <1>1, <1>2, LaneWorks

(* A reduction of the lane. *)
LEMMA ReductionFrame ==
    ASSUME DerivationInv, row # None, NEW d, Keeps(row, d), d.row.desired = row.desired,
           row' = d.row, Discard(d), user' = user, Rest', Proc',
           lane' \in LaneState, lane'.pc \in Free, Supervised'
    PROVE  DerivationInv'
<1>1. row' \in Row /\ Disk' /\ RowKept'
  BY DiscardKeeps
<1>2. LaneKept'
  BY DEF LaneKept, Free
<1>3. lane'.pc \notin Working
  BY DEF Free
<1> QED BY <1>1, <1>2, <1>3, LaneRests

(* What a step of the lane finds. *)
LEMMA LaneFinds ==
    ASSUME DerivationInv
    PROVE  /\ Shapes /\ Rest /\ Disk /\ Proc /\ Supervised
           /\ lane.pc # "idle" \/ queue \/ ~up => row # None
           /\ None \in Reasons \cup {"deadline", None} /\ stop \in Reasons \cup {"deadline", None}
  BY ShapeParts DEF DerivationInv, Started, Shapes

(* The lane takes the job, or a step of run_one ends it. *)
LEMMA RunSteps ==
    ASSUME DerivationInv, Take \/ RunOne \/ Loop
    PROVE  DerivationInv'
<1>1. /\ Shapes /\ Rest /\ Disk /\ Proc /\ Supervised /\ row # None
      /\ lane.pc \in {"idle", "run", "loop"} /\ ~active /\ child = "none"
  <2>1. lane.pc \in {"idle", "run", "loop"} /\ (lane.pc # "idle" \/ queue)
    BY DEF Take, RunOne, Loop, At
  <2>2. Shapes /\ Rest /\ Disk /\ Proc /\ Supervised /\ row # None
    BY <2>1, LaneFinds
  <2>3. lane.pc \notin Operation /\ lane.pc \notin Stages
    BY <2>1 DEF Operation, Working, Stages
  <2> QED BY <2>1, <2>2, <2>3 DEF Supervised, Proc
<1>2. ASSUME lane' \in LaneState, lane'.pc \in Free \ Operation, UNCHANGED <<active, child>>
      PROVE  Supervised' /\ Proc'
  BY <1>1, <1>2 DEF Supervised, Proc
<1>3. {"idle", "run", "no_source", "loop", "stopped", "source", "probe", "plan", "pair", "gate", "commit", "cancel"}
         \subseteq Free \ Operation
  BY DEF Free, Operation, Outside, Working, Stages, InPair
<1>4. ASSUME NEW p \in Free \ Operation, Goto(p) PROVE lane' \in LaneState /\ lane'.pc = p
  <2>1. p \in Operation \cup Outside
    BY DEF Free
  <2> QED BY <1>1, <1>4, <2>1, LaneGoes DEF Goto
<1>5. CASE Take
  <2>1. /\ Goto("run") /\ queue' = FALSE /\ UNCHANGED <<row, work, final, derived, stop, active, child, orphan>>
        /\ UNCHANGED <<up, closing, busy, user, quiet, crossed, failed>>
    BY <1>5 DEF Take, files, process, seen
  <2>2. lane' \in LaneState /\ lane'.pc = "run"
    BY <1>3, <1>4, <2>1
  <2>3. Rest' /\ Disk' /\ Proc' /\ Supervised'
    BY <1>1, <1>2, <1>3, <2>1, <2>2 DEF Rest, Disk
  <2>4. lane'.pc \in Free /\ lane'.pc \notin InPair
    BY <1>3, <2>2 DEF Free
  <2> QED BY <1>1, <2>1, <2>2, <2>3, <2>4, RestsFrame
<1>6. CASE RunOne
  <2>1. queue' = FALSE /\ UNCHANGED <<stop, active, child, orphan, up, closing, busy, user, quiet, crossed>>
    BY <1>6 DEF RunOne, process
  <2>2. CASE /\ Goto("idle") \/ Goto("no_source") \/ Goto("loop")
             /\ UNCHANGED <<row, files, failed>>
    <3>1. lane' \in LaneState /\ lane'.pc \in {"idle", "no_source", "loop"}
      BY <1>3, <1>4, <2>2
    <3>2. UNCHANGED <<row, work, final, derived, failed>>
      BY <2>2 DEF files
    <3>3. Rest' /\ Disk' /\ Proc' /\ Supervised'
      BY <1>1, <1>2, <1>3, <2>1, <3>1, <3>2 DEF Rest, Disk
    <3>4. lane'.pc \in Free /\ lane'.pc \notin InPair
      BY <1>3, <3>1 DEF Free
    <3> QED BY <1>1, <2>1, <3>1, <3>2, <3>3, <3>4, RestsFrame
  <2>3. CASE LET d == stage_failed(row)
             IN  Goto("idle") /\ row' = d.row /\ Discard(d) /\ failed' = TRUE
    <3> DEFINE d == stage_failed(row)
    <3>1. Goto("idle") /\ row' = d.row /\ Discard(d) /\ failed' = TRUE
      BY <2>3
    <3>2. row \in Row
      BY <1>1, RowIsThere
    <3>3. Keeps(row, d) /\ d.row.desired = row.desired
      BY <3>2, FailedDecision
    <3> HIDE DEF d
    <3>4. lane' \in LaneState /\ lane'.pc = "idle"
      BY <1>3, <1>4, <3>1
    <3>5. Rest' /\ Proc' /\ Supervised' /\ lane'.pc \in Free
      BY <1>1, <1>2, <1>3, <2>1, <3>1, <3>4 DEF Rest
    <3> QED BY <1>1, <2>1, <3>1, <3>3, <3>4, <3>5, ReductionFrame
  <2> QED BY <1>6, <2>2, <2>3 DEF RunOne
<1>7. CASE Loop
  <2>1. UNCHANGED <<row, work, final, derived, stop, active, child, orphan, queue, up, closing, busy, user,
                    quiet, crossed, failed>>
    BY <1>7 DEF Loop, files, process, app, seen
  <2>2. lane' \in LaneState /\ lane'.pc \in {"stopped", "idle", "source", "probe", "plan", "pair", "gate", "commit", "cancel"}
    <3>1. NextStage \in {"idle", "source", "probe", "plan", "pair", "gate", "commit", "cancel"}
      BY DEF NextStage
    <3>2. "shutdown" \in Reasons \cup {"deadline", None} /\ "stopped" \in Operation \cup Outside
      BY DEF Reasons, Outside
    <3>3. CASE lane' = [lane EXCEPT !.pc = "stopped", !.why = "shutdown", !.then = "idle"]
      BY <1>1, <3>2, <3>3, LaneGoes
    <3>4. ASSUME NEW p \in {"idle", "source", "probe", "plan", "pair", "gate", "commit", "cancel"},
                 lane' = [lane EXCEPT !.pc = p]
          PROVE  lane' \in LaneState /\ lane'.pc = p
      <4>1. p \in Operation \cup Outside
        BY DEF Outside
      <4> QED BY <1>1, <3>2, <3>4, <4>1, LaneGoes
    <3>5. \/ lane' = [lane EXCEPT !.pc = "stopped", !.why = "shutdown", !.then = "idle"]
          \/ \E p \in {"idle", "source", "probe", "plan", "pair", "gate", "commit", "cancel"} :
                lane' = [lane EXCEPT !.pc = p]
      <4>1. CASE row.desired = "paused"
        BY <1>7, <4>1 DEF Loop
      <4>2. CASE row.desired # "paused"
        <5> DEFINE p == NextStage
        <5>1. p \in {"idle", "source", "probe", "plan", "pair", "gate", "commit", "cancel"}
          BY <3>1
        <5>2. \/ lane' = [lane EXCEPT !.pc = "stopped", !.why = "shutdown", !.then = "idle"]
              \/ lane' = [lane EXCEPT !.pc = p]
          BY <1>7, <4>2 DEF Loop
        <5> HIDE DEF p
        <5> QED BY <5>1, <5>2
      <4> QED BY <4>1, <4>2
    <3> QED BY <3>3, <3>4, <3>5
  <2>3. Rest' /\ Disk' /\ Proc' /\ Supervised'
    BY <1>1, <1>2, <1>3, <2>1, <2>2 DEF Rest, Disk
  <2>4. lane'.pc \in Free /\ lane'.pc \notin InPair
    BY <1>3, <2>2 DEF Free
  <2> QED BY <1>1, <2>1, <2>2, <2>3, <2>4, RestsFrame
<1> QED BY <1>5, <1>6, <1>7

(* The reductions of a lane outside an operation. *)
LEMMA ReductionSteps ==
    ASSUME DerivationInv, NoSource \/ SourceAvailable \/ ReportStopped \/ FinalizeCancel
    PROVE  DerivationInv'
<1>1. /\ Shapes /\ Rest /\ Disk /\ Proc /\ Supervised /\ row # None /\ row \in Row
      /\ ~active /\ child = "none" /\ lane.then \in {"idle", "loop"}
  <2>1. lane.pc \in {"no_source", "source", "stopped", "cancel"}
    BY DEF NoSource, SourceAvailable, ReportStopped, FinalizeCancel, At
  <2>2. Shapes /\ Rest /\ Disk /\ Proc /\ Supervised /\ row # None
    BY <2>1, LaneFinds
  <2>3. lane.pc \notin Operation /\ lane.pc \notin Stages
    BY <2>1 DEF Operation, Working, Stages
  <2>4. row \in Row /\ lane.then \in {"idle", "loop"}
    BY <2>2, RowIsThere DEF Shapes, LaneState
  <2> QED BY <2>2, <2>3, <2>4 DEF Supervised, Proc
<1>2. {"idle", "loop", "stopped"} \subseteq Free \ Operation
  BY DEF Free, Operation, Outside, Working, Stages, InPair
<1>3. ASSUME lane' \in LaneState, lane'.pc \in {"idle", "loop", "stopped"}, UNCHANGED <<active, child>>
      PROVE  Supervised' /\ Proc' /\ lane'.pc \in Free
  BY <1>1, <1>2, <1>3 DEF Supervised, Proc
<1>4. ASSUME NEW p \in {"idle", "loop", "stopped"}, Goto(p) PROVE lane' \in LaneState /\ lane'.pc = p
  <2>1. p \in Operation \cup Outside
    BY <1>2 DEF Free
  <2> QED BY <1>1, <1>4, <2>1, LaneGoes DEF Goto
<1>5. CASE NoSource
  <2> DEFINE d == source_unavailable(row)
  <2>1. /\ row' = d.row /\ Discard(d) /\ stop' = (IF d.stop = None THEN stop ELSE d.stop)
        /\ lane' = [lane EXCEPT !.pc = IF d.stop = None THEN "idle" ELSE "stopped",
                                !.why = "source", !.then = "idle"]
        /\ UNCHANGED <<active, child, orphan, queue, up, closing, busy, user, quiet, crossed, failed>>
    BY <1>5 DEF NoSource, app, seen
  <2>2. /\ Keeps(row, d) /\ d.row.desired = row.desired /\ d.stop \in {"source", None}
    BY <1>1, SourceDecisions
  <2> HIDE DEF d
  <2>3. lane' \in LaneState /\ lane'.pc \in {"idle", "stopped"}
    <3> DEFINE p == IF d.stop = None THEN "idle" ELSE "stopped"
    <3>1. p \in {"idle", "stopped"} /\ lane' = [lane EXCEPT !.pc = p, !.why = "source", !.then = "idle"]
      BY <2>1
    <3> HIDE DEF p
    <3>2. p \in Operation \cup Outside /\ "source" \in Reasons \cup {"deadline", None}
      BY <3>1 DEF Outside, Reasons
    <3> QED BY <1>1, <3>1, <3>2, LaneGoes
  <2>4. Rest'
    BY <1>1, <2>1, <2>2 DEF Rest, Reasons
  <2> QED BY <1>1, <1>3, <2>1, <2>2, <2>3, <2>4, ReductionFrame
<1>6. CASE SourceAvailable
  <2> DEFINE d == source_available(row)
  <2>1. /\ row' = d.row /\ UNCHANGED <<work, final, derived>> /\ stop' = None /\ Goto("loop")
        /\ UNCHANGED <<active, child, orphan, queue, up, closing, busy, user, quiet, crossed, failed>>
    BY <1>6 DEF SourceAvailable, files, app, seen
  <2>2. Keeps(row, d) /\ d.row.desired = row.desired /\ d.discard = FALSE
    BY <1>1, SourceDecisions
  <2> HIDE DEF d
  <2>3. Discard(d)
    BY <2>1, <2>2 DEF Discard
  <2>4. Rest' /\ lane' \in LaneState /\ lane'.pc = "loop"
    BY <1>1, <1>4, <2>1 DEF Rest
  <2> QED BY <1>1, <1>3, <2>1, <2>2, <2>3, <2>4, ReductionFrame
<1>7. CASE ReportStopped
  <2> DEFINE d == process_stopped(row, lane.why)
  <2>1. /\ row' = d.row /\ Discard(d) /\ Goto(IF d.ok THEN lane.then ELSE "idle")
        /\ UNCHANGED <<stop, active, child, orphan, queue, up, closing, busy, user, quiet, crossed, failed>>
    BY <1>7 DEF ReportStopped, process, app, seen
  <2>2. Keeps(row, d) /\ d.row.desired = row.desired
    BY <1>1, StoppedDecision
  <2> HIDE DEF d
  <2>3. PICK p \in {"idle", "loop"} : Goto(p)
    <3>1. Goto(lane.then) \/ Goto("idle")
      BY <2>1 DEF Goto
    <3> QED BY <1>1, <3>1
  <2>4. Rest' /\ lane' \in LaneState /\ lane'.pc \in {"idle", "loop"}
    BY <1>1, <1>4, <2>1, <2>3 DEF Rest
  <2> QED BY <1>1, <1>3, <2>1, <2>2, <2>4, ReductionFrame
<1>8. CASE FinalizeCancel
  <2> DEFINE d == process_stopped(row, "cancel")
  <2>1. /\ row' = d.row /\ Discard(d) /\ Goto(IF d.ok THEN "loop" ELSE "idle")
        /\ UNCHANGED <<stop, active, child, orphan, queue, up, closing, busy, user, quiet, crossed, failed>>
    BY <1>8 DEF FinalizeCancel, process, app, seen
  <2>2. Keeps(row, d) /\ d.row.desired = row.desired
    BY <1>1, StoppedDecision
  <2> HIDE DEF d
  <2>3. PICK p \in {"idle", "loop"} : Goto(p)
    BY <2>1 DEF Goto
  <2>4. Rest' /\ lane' \in LaneState /\ lane'.pc \in {"idle", "loop"}
    BY <1>1, <1>4, <2>1, <2>3 DEF Rest
  <2> QED BY <1>1, <1>3, <2>1, <2>2, <2>4, ReductionFrame
<1> QED BY <1>5, <1>6, <1>7, <1>8

(* A stop or a failure ends an operation, and the control is given back. *)
LEMMA OperationEnds ==
    ASSUME DerivationInv, WorkerStopped \/ WorkerFailed \/ Finish
    PROVE  DerivationInv'
<1>1. /\ Shapes /\ Rest /\ Disk /\ Proc /\ Supervised /\ row # None /\ row \in Row
      /\ active /\ child = "none" /\ lane.then \in {"idle", "loop"}
  <2>1. lane.pc \in {"stopped_in_stage", "failed", "finish"}
    BY DEF WorkerStopped, WorkerFailed, Finish, At
  <2>2. Shapes /\ Rest /\ Disk /\ Proc /\ Supervised /\ row # None
    BY <2>1, LaneFinds
  <2>3. lane.pc \in Operation /\ lane.pc \notin Stages
    BY <2>1 DEF Operation, Working, Stages
  <2>4. row \in Row /\ lane.then \in {"idle", "loop"}
    BY <2>2, RowIsThere DEF Shapes, LaneState
  <2> QED BY <2>2, <2>3, <2>4 DEF Supervised, Proc
<1>2. "finish" \in Free /\ "finish" \in Operation /\ {"idle", "loop"} \subseteq Free \ Operation
  BY DEF Free, Operation, Outside, Working, Stages, InPair
<1>3. ASSUME NEW b \in BOOLEAN, lane' = [lane EXCEPT !.pc = "finish", !.then = IF b THEN "loop" ELSE "idle"]
      PROVE  lane' \in LaneState /\ lane'.pc = "finish"
  <2> DEFINE t == IF b THEN "loop" ELSE "idle"
  <2>1. t \in {"idle", "loop"} /\ lane' = [lane EXCEPT !.pc = "finish", !.then = t]
    BY <1>3
  <2> HIDE DEF t
  <2>2. "finish" \in Operation \cup Outside /\ None \in Reasons \cup {"deadline", None}
    BY <1>2
  <2> QED BY <1>1, <2>1, <2>2, LaneGoes
<1>4. ASSUME lane' \in LaneState, lane'.pc = "finish", UNCHANGED <<active, child>>
      PROVE  Supervised' /\ Proc' /\ lane'.pc \in Free
  BY <1>1, <1>2, <1>4 DEF Supervised, Proc
<1>5. CASE WorkerStopped
  <2> DEFINE d == process_stopped(row, lane.why)
  <2>1. /\ row' = d.row /\ Discard(d)
        /\ lane' = [lane EXCEPT !.pc = "finish", !.then = IF d.ok THEN "loop" ELSE "idle"]
        /\ UNCHANGED <<stop, active, child, orphan, queue, up, closing, busy, user, quiet, crossed, failed>>
    BY <1>5 DEF WorkerStopped, process, app, seen
  <2>2. Keeps(row, d) /\ d.row.desired = row.desired
    BY <1>1, StoppedDecision
  <2> HIDE DEF d
  <2>3. d.ok \in BOOLEAN
    BY <2>2 DEF Keeps
  <2>4. Rest' /\ lane' \in LaneState /\ lane'.pc = "finish"
    BY <1>1, <1>3, <2>1, <2>3 DEF Rest
  <2> QED BY <1>1, <1>4, <2>1, <2>2, <2>4, ReductionFrame
<1>6. CASE WorkerFailed
  <2> DEFINE d == stage_failed(row)
  <2>1. /\ row' = d.row /\ Discard(d) /\ failed' = TRUE
        /\ lane' = [lane EXCEPT !.pc = "finish", !.then = IF d.ok THEN "loop" ELSE "idle"]
        /\ UNCHANGED <<stop, active, child, orphan, queue, up, closing, busy, user, quiet, crossed>>
    BY <1>6 DEF WorkerFailed, process, app
  <2>2. Keeps(row, d) /\ d.row.desired = row.desired
    BY <1>1, FailedDecision
  <2> HIDE DEF d
  <2>3. d.ok \in BOOLEAN
    BY <2>2 DEF Keeps
  <2>4. Rest' /\ lane' \in LaneState /\ lane'.pc = "finish"
    BY <1>1, <1>3, <2>1, <2>3 DEF Rest
  <2> QED BY <1>1, <1>4, <2>1, <2>2, <2>4, ReductionFrame
<1>7. CASE Finish
  <2>1. /\ active' = FALSE /\ crossed' = FALSE /\ lane' = [lane EXCEPT !.pc = lane.then, !.why = None]
        /\ UNCHANGED <<row, work, final, derived, stop, child, orphan, queue, up, closing, busy, user, quiet, failed>>
    BY <1>7 DEF Finish, files, app
  <2>2. lane.then \in Operation \cup Outside /\ lane.then \in Free \ Operation
    BY <1>1, <1>2 DEF Free
  <2>3. lane' \in LaneState /\ lane'.pc = lane.then
    BY <1>1, <2>1, <2>2, LaneGoes
  <2>4. Rest' /\ Disk' /\ Proc' /\ Supervised'
    BY <1>1, <2>1, <2>2, <2>3 DEF Rest, Disk, Proc, Supervised
  <2>5. lane'.pc \in Free /\ lane'.pc \notin InPair
    BY <2>2, <2>3 DEF Free
  <2> QED BY <1>1, <2>1, <2>3, <2>4, <2>5, RestsFrame
<1> QED BY <1>5, <1>6, <1>7

(* An operation begins on a row that should run. *)
LEMMA BeginStep ==
    ASSUME DerivationInv, NEW s \in {"probing", "encoding"}, NEW stage \in {"probing", "encoding", "encoded"},
           lane.pc \in {"probe", "begin_pair"}, stage \in InPair => row.cp < NPairs, Begin(s, stage),
           UNCHANGED <<row, files, stop, child, orphan, app, user, seen>>
    PROVE  DerivationInv'
<1>1. UNCHANGED <<row, work, final, derived, stop, child, orphan, queue, up, closing, busy, user, quiet, crossed, failed>>
  BY DEF files, app, seen
<1>2. /\ Shapes /\ Rest /\ Disk /\ Proc /\ Supervised /\ row # None
      /\ row.desired \in {"run", "paused"} /\ ~active /\ child = "none"
      /\ stop \in Reasons \cup {"deadline", None}
  <2>1. Shapes /\ Rest /\ Disk /\ Proc /\ Supervised /\ row # None /\ stop \in Reasons \cup {"deadline", None}
    BY LaneFinds
  <2>2. lane.pc \notin Operation /\ lane.pc \notin Stages
    BY DEF Operation, Working, Stages
  <2> QED BY <2>1, <2>2, RowIsThere DEF Supervised, Proc
<1>3. CASE lane' = [lane EXCEPT !.pc = stage] /\ active' = TRUE /\ row.state = s /\ stop = None /\ row.desired # "paused"
  <2>1. stage \in Operation /\ stage \in Working /\ stage \in Operation \cup Outside
    BY DEF Operation, Working, Stages
  <2>2. lane' \in LaneState /\ lane'.pc = stage
    BY <1>2, <1>3, <2>1, LaneGoes
  <2>3. Shapes'
    BY <1>1, <1>2, <1>3, <2>2 DEF Shapes
  <2>4. Started' /\ RowKept'
    BY <1>1, <1>2 DEF Started, DerivationInv, RowKept
  <2>5. LaneKept'
    BY <1>1, <2>2 DEF LaneKept
  <2>6. Supervised'
    BY <1>1, <1>2, <1>3, <2>1, <2>2 DEF Supervised
  <2>7. row.desired = "run" /\ row.state \in Active /\ row.state # "cancelling"
    BY <1>2, <1>3 DEF Active
  <2>8. OnActiveRow' /\ Stopped'
    BY <1>1, <2>7 DEF OnActiveRow, Stopped
  <2>9. Settles'
    BY <1>1, <2>7 DEF DerivationInv, Settles
  <2> QED BY <2>3, <2>4, <2>5, <2>6, <2>8, <2>9 DEF DerivationInv
<1>4. ASSUME lane' \in LaneState, lane'.pc \in {"loop", "stopped"}, active' = active
      PROVE  DerivationInv'
  <2>1. lane'.pc \in Free /\ lane'.pc \notin Operation /\ lane'.pc \notin InPair
    BY <1>4 DEF Free, Operation, Outside, Working, Stages, InPair
  <2>2. Rest' /\ Disk' /\ Proc' /\ Supervised'
    BY <1>1, <1>2, <1>4, <2>1 DEF Rest, Disk, Proc, Supervised
  <2> QED BY <1>1, <1>2, <1>4, <2>1, <2>2, RestsFrame
<1>5. CASE Goto("loop") /\ UNCHANGED active
  <2>1. lane' \in LaneState /\ lane'.pc = "loop"
    BY <1>2, <1>5, LaneGoes DEF Goto, Outside
  <2> QED BY <1>4, <1>5, <2>1
<1>6. CASE lane' = [lane EXCEPT !.pc = "stopped", !.why = stop, !.then = "loop"] /\ UNCHANGED active
  <2>1. "stopped" \in Operation \cup Outside
    BY DEF Outside
  <2>2. lane' \in LaneState /\ lane'.pc = "stopped"
    BY <1>2, <1>6, <2>1, LaneGoes
  <2> QED BY <1>4, <1>6, <2>2
<1> QED BY <1>3, <1>5, <1>6 DEF Begin

-----------------------------------------------------------------------------
(* The supervision of a process.                                           *)

(* The process is started, watched, stopped and reaped within a stage. *)
LEMMA SupervisionSteps ==
    ASSUME DerivationInv,
           Supervision \/ ChildFails \/ DeadlinePasses \/ ChildStuck
    PROVE  DerivationInv'
<1>1. /\ lane.pc \in Stages /\ UNCHANGED <<row, final, derived, stop, active, queue, up, closing, busy, user,
                                             quiet, crossed, failed>>
      /\ work' \in {work, "whole"} /\ orphan' \in {orphan, TRUE}
  BY DEF Supervision, Spawn, ChildCompletes, StopSeen, GraceExpires, ChildReaped, ChildFails, DeadlinePasses,
         ChildStuck, InStage, files, app, seen
<1>2. /\ Shapes /\ Rest /\ Disk /\ Proc /\ Supervised /\ row # None /\ stop \in Reasons \cup {"deadline", None}
      /\ lane \in LaneState
  <2>1. lane.pc # "idle"
    BY <1>1 DEF Stages
  <2> QED BY <2>1, LaneFinds DEF Shapes
<1>3. lane.pc \in Working /\ lane.pc \in Operation /\ active
  BY <1>1, <1>2 DEF Working, Operation, Supervised
<1>4. Disk' /\ Rest'
  BY <1>1, <1>2 DEF Disk, Rest
<1>5. \* The process changes, the lane stays.
      ASSUME lane' \in LaneState, lane'.pc = lane.pc, child' \in {"none", "running", "terminating", "killing"}
      PROVE  DerivationInv'
  <2>1. Proc' /\ Supervised'
    BY <1>1, <1>2, <1>3, <1>5 DEF Proc, Supervised
  <2>2. lane'.pc \notin {"checkpoint", "commit_row"}
    BY <1>1, <1>5 DEF Stages
  <2> QED BY <1>1, <1>2, <1>3, <1>4, <1>5, <2>1, <2>2, WorksFrame
<1>6. \* The lane goes on to what follows the stage.
      ASSUME NEW p \in Operation, p \notin {"checkpoint"}, p \in InPair => lane.pc \in InPair,
             Goto(p), child' = "none"
      PROVE  DerivationInv'
  <2>1. lane' \in LaneState /\ lane'.pc = p
    BY <1>2, <1>6, LaneGoes DEF Goto
  <2>2. Proc' /\ Supervised'
    BY <1>1, <1>2, <1>3, <2>1 , <1>6 DEF Proc, Supervised
  <2>3. lane'.pc \notin {"checkpoint", "commit_row"}
    BY <1>6, <2>1 DEF Operation, Working, Stages
  <2> QED BY <1>1, <1>2, <1>3, <1>4, <1>6, <2>1, <2>2, <2>3, WorksFrame
<1>7. \A p \in {"failed", "stopped_in_stage"} : p \in Operation /\ p \notin InPair /\ p # "checkpoint"
  BY DEF Operation, InPair
<1>8. /\ Completed[lane.pc] \in Operation \ {"checkpoint"}
      /\ Completed[lane.pc] \in InPair => lane.pc \in InPair
  <2>1. Completed[lane.pc] \in {"probed", "encoded", "measured", "validated"}
        /\ (lane.pc = "probing" => Completed[lane.pc] = "probed")
    BY <1>1 DEF Completed, Stages
  <2> QED BY <1>1, <2>1 DEF Operation, Working, Stages, InPair
<1>9. ASSUME NEW w \in Reasons \cup {"deadline", None}, lane' = [lane EXCEPT !.why = w]
      PROVE  lane' \in LaneState /\ lane'.pc = lane.pc
  <2>1. lane.pc \in Operation \cup Outside
    BY <1>3
  <2> QED BY <1>2, <1>9, <2>1, LaneGoes
<1>10. CASE Spawn
  <2>1. CASE child' = "running" /\ UNCHANGED lane
    BY <1>2, <1>5, <2>1
  <2>2. CASE lane' = [lane EXCEPT !.pc = "failed"] /\ UNCHANGED child
    <3>1. child' = "none" /\ Goto("failed")
      BY <1>10, <2>2 DEF Spawn, Goto
    <3> QED BY <1>6, <1>7, <3>1
  <2> QED BY <1>10, <2>1, <2>2 DEF Spawn
<1>11. CASE ChildCompletes
  <2> DEFINE p == Completed[lane.pc]
  <2>1. child' = "none" /\ (Goto(p) \/ Goto("failed"))
    BY <1>11 DEF ChildCompletes, Goto
  <2>2. p \in Operation /\ p # "checkpoint" /\ (p \in InPair => lane.pc \in InPair)
    BY <1>8
  <2> HIDE DEF p
  <2> QED BY <1>6, <1>7, <2>1, <2>2
<1>12. CASE ChildFails
  BY <1>6, <1>7, <1>12 DEF ChildFails
<1>13. CASE StopSeen
  <2>1. child' = "terminating" /\ lane' = [lane EXCEPT !.why = stop]
    BY <1>13 DEF StopSeen
  <2> QED BY <1>2, <1>5, <1>9, <2>1
<1>14. CASE DeadlinePasses
  <2>1. child' = "terminating" /\ lane' = [lane EXCEPT !.why = "deadline"]
    BY <1>14 DEF DeadlinePasses
  <2> QED BY <1>5, <1>9, <2>1
<1>15. CASE GraceExpires
  BY <1>2, <1>5, <1>15 DEF GraceExpires
<1>16. CASE ChildReaped
  <2>1. child' = "none" /\ (Goto("failed") \/ Goto("stopped_in_stage"))
    BY <1>16 DEF ChildReaped, Goto
  <2> QED BY <1>6, <1>7, <2>1
<1>17. CASE ChildStuck
  BY <1>6, <1>7, <1>17 DEF ChildStuck
<1> QED BY <1>10, <1>11, <1>12, <1>13, <1>14, <1>15, <1>16, <1>17 DEF Supervision

-----------------------------------------------------------------------------
(* The stages.                                                             *)

(* The row that a report makes. *)
LEMMA ReportRow ==
    ASSUME NEW r \in Row, NEW s \in States
    PROVE  /\ [r EXCEPT !.state = s] \in Row /\ [r EXCEPT !.state = s].state = s
           /\ [r EXCEPT !.state = s].cp = r.cp /\ [r EXCEPT !.state = s].cur = r.cur
           /\ [r EXCEPT !.state = s].desired = r.desired
  BY DEF Row

(* A report that leaves the row where no file is claimed. *)
LEMMA ReportSteps ==
    ASSUME DerivationInv,
           ProbeCompleted \/ PlanCompleted \/ ValidationCompleted \/ CommitCompleted
    PROVE  DerivationInv'
<1>1. /\ lane.pc \in {"probed", "plan", "gate", "commit_row"}
      /\ UNCHANGED <<work, final, derived, stop, active, child, orphan, queue, up, closing, busy, user,
                     quiet, crossed, failed>>
  BY DEF ProbeCompleted, PlanCompleted, ValidationCompleted, CommitCompleted, Report, At, files, process, app, seen
<1>2. /\ Shapes /\ Rest /\ Disk /\ Proc /\ Supervised /\ row # None /\ row \in Row /\ lane \in LaneState
      /\ child = "none" /\ (active <=> lane.pc = "probed")
  <2>1. Shapes /\ Rest /\ Disk /\ Proc /\ Supervised /\ row # None /\ lane \in LaneState
    BY <1>1, LaneFinds DEF Shapes
  <2>2. lane.pc \notin Stages /\ (lane.pc \in Operation <=> lane.pc = "probed")
    BY <1>1 DEF Operation, Working, Stages
  <2> QED BY <2>1, <2>2, RowIsThere DEF Supervised, Proc
<1>3. Rest' /\ Disk' /\ Proc'
  BY <1>1, <1>2 DEF Rest, Disk, Proc
<1>4. \* What the report does.
      \E p \in {"finish", "loop", "idle"}, t \in {"idle", "loop"} :
          /\ lane' = [lane EXCEPT !.pc = p, !.then = t] \/ lane' = [lane EXCEPT !.pc = p]
          /\ p = "finish" <=> lane.pc = "probed"
  <2>1. ASSUME NEW pc, NEW s, NEW next, NEW then \in {"finish", "loop"}, Report(pc, s, next, then)
        PROVE  \E p \in {"finish", "loop", "idle"}, t \in {"idle", "loop"} :
                  /\ lane' = [lane EXCEPT !.pc = p, !.then = t]
                  /\ p = "finish" <=> then = "finish"
    <3> DEFINE p == IF then = "finish" THEN "finish" ELSE IF row.state = s THEN then ELSE "idle"
               t == IF row.state = s THEN "loop" ELSE "idle"
    <3>1. lane' = [lane EXCEPT !.pc = p, !.then = t]
      BY <2>1 DEF Report
    <3>2. p \in {"finish", "loop", "idle"} /\ t \in {"idle", "loop"} /\ (p = "finish" <=> then = "finish")
      OBVIOUS
    <3> HIDE DEF p, t
    <3> QED BY <3>1, <3>2
  <2>2. CASE ProbeCompleted
    <3>1. lane.pc = "probed" /\ Report("probed", "probing", [row EXCEPT !.state = "planning"], "finish")
      BY <2>2 DEF ProbeCompleted, Report, At
    <3> QED BY <2>1, <3>1
  <2>3. CASE PlanCompleted
    <3>1. lane.pc = "plan" /\ Report("plan", "planning", [row EXCEPT !.state = "encoding"], "loop")
      BY <2>3 DEF PlanCompleted, Report, At
    <3> QED BY <2>1, <3>1
  <2>4. CASE ValidationCompleted
    <3>1. lane.pc = "gate"
      BY <2>4 DEF ValidationCompleted, At
    <3>2. \/ Report("gate", "validating", [row EXCEPT !.state = "committing"], "loop")
          \/ lane' = [lane EXCEPT !.pc = "idle"]
      BY <2>4 DEF ValidationCompleted, Goto
    <3> QED BY <2>1, <3>1, <3>2
  <2>5. CASE CommitCompleted
    <3>1. lane.pc = "commit_row" /\ Report("commit_row", "committing", [row EXCEPT !.state = "derived_verified"], "loop")
      BY <2>5 DEF CommitCompleted, Report, At
    <3> QED BY <2>1, <3>1
  <2> QED BY <2>2, <2>3, <2>4, <2>5
<1>5. /\ lane' \in LaneState /\ lane'.pc \in {"finish", "loop", "idle"} /\ (lane'.pc = "finish" <=> lane.pc = "probed")
  <2>1. \A p \in {"finish", "loop", "idle"} : p \in Operation \cup Outside
    BY DEF Operation, Outside
  <2>2. None \in Reasons \cup {"deadline", None}
    OBVIOUS
  <2>3. PICK p \in {"finish", "loop", "idle"}, t \in {"idle", "loop"} :
          /\ lane' = [lane EXCEPT !.pc = p, !.then = t] \/ lane' = [lane EXCEPT !.pc = p]
          /\ p = "finish" <=> lane.pc = "probed"
    BY <1>4
  <2>4. /\ [lane EXCEPT !.pc = p] \in LaneState /\ [lane EXCEPT !.pc = p].pc = p
        /\ [lane EXCEPT !.pc = p, !.then = t] \in LaneState /\ [lane EXCEPT !.pc = p, !.then = t].pc = p
    BY <1>2, <2>1, <2>2, LaneGoes
  <2>5. lane' \in LaneState /\ lane'.pc = p
    BY <2>3, <2>4
  <2> QED BY <2>3, <2>5
<1>6. /\ Supervised' /\ lane'.pc \in Free
  <2>1. lane'.pc \in Free /\ (lane'.pc \in Operation <=> lane'.pc = "finish")
    BY <1>5 DEF Free, Operation, Outside, Working, Stages, InPair
  <2> QED BY <1>1, <1>2, <1>5, <2>1 DEF Supervised
<1>7. PICK s \in States :
          /\ row' = row \/ row' = [row EXCEPT !.state = s]
          /\ s = "derived_verified" => derived = Pairs
  <2>1. CASE ProbeCompleted
    <3>1. row' = row \/ row' = [row EXCEPT !.state = "planning"]
      BY <2>1 DEF ProbeCompleted, Report
    <3> QED BY <3>1 DEF States, Active
  <2>2. CASE PlanCompleted
    <3>1. row' = row \/ row' = [row EXCEPT !.state = "encoding"]
      BY <2>2 DEF PlanCompleted, Report
    <3> QED BY <3>1 DEF States, Active
  <2>3. CASE ValidationCompleted
    <3>1. row' = row \/ row' = [row EXCEPT !.state = "committing"]
      BY <2>3 DEF ValidationCompleted, Report
    <3> QED BY <3>1 DEF States, Active
  <2>4. CASE CommitCompleted
    <3>1. row' = row \/ row' = [row EXCEPT !.state = "derived_verified"]
      BY <2>4 DEF CommitCompleted, Report
    <3>2. derived = Pairs
      BY <1>2, <2>4 DEF DerivationInv, LaneKept, CommitCompleted, Report, At
    <3> QED BY <3>1, <3>2 DEF States, Terminal
  <2> QED BY <2>1, <2>2, <2>3, <2>4
<1>8. /\ row' \in Row /\ row'.cp = row.cp /\ row'.cur = row.cur /\ row'.desired = row.desired
      /\ row'.state = row.state \/ row'.state = s
  <2> DEFINE r == row
  <2>1. r \in Row /\ (row' = r \/ row' = [r EXCEPT !.state = s])
    BY <1>2, <1>7
  <2>2. r = row
    OBVIOUS
  <2> HIDE DEF r
  <2>3. CASE row' = r
    BY <2>1, <2>2, <2>3
  <2>4. CASE row' = [r EXCEPT !.state = s]
    <3>1. /\ [r EXCEPT !.state = s] \in Row /\ [r EXCEPT !.state = s].state = s
          /\ [r EXCEPT !.state = s].cp = r.cp /\ [r EXCEPT !.state = s].cur = r.cur
          /\ [r EXCEPT !.state = s].desired = r.desired
      BY <2>1, ReportRow
    <3> QED BY <2>2, <2>4, <3>1
  <2> QED BY <2>1, <2>3, <2>4
<1>9. RowKept'
  BY <1>1, <1>2, <1>7, <1>8 DEF DerivationInv, RowKept
<1>10. LaneKept' /\ lane'.pc \notin Working
  BY <1>6 DEF LaneKept, Free
<1> QED BY <1>1, <1>2, <1>3, <1>5, <1>6, <1>8, <1>9, <1>10, LaneRests

(* An operation begins, or the run ends before it. *)
LEMMA BeginSteps ==
    ASSUME DerivationInv, BeginProbe \/ BeginPair
    PROVE  DerivationInv'
<1>1. CASE BeginProbe
  <2>1. /\ lane.pc = "probe" /\ Begin("probing", "probing")
        /\ UNCHANGED <<row, files, stop, child, orphan, app, user, seen>>
    BY <1>1 DEF BeginProbe, At
  <2>2. "probing" \notin InPair
    BY DEF InPair
  <2> QED BY <2>1, <2>2, BeginStep
<1>2. CASE BeginPair
  <2> DEFINE stage == IF work = "whole" THEN "encoded" ELSE "encoding"
  <2>1. /\ lane.pc = "begin_pair" /\ Begin("encoding", stage)
        /\ UNCHANGED <<row, files, stop, child, orphan, app, user, seen>>
    BY <1>2 DEF BeginPair, At
  <2>2. stage \in {"probing", "encoding", "encoded"}
    OBVIOUS
  <2>3. row # None
    BY <2>1, LaneFinds
  <2>4. row.cp < NPairs
    BY <2>1, <2>3 DEF DerivationInv, LaneKept, InPair
  <2> HIDE DEF stage
  <2> QED BY <2>1, <2>2, <2>4, BeginStep
<1> QED BY <1>1, <1>2

(* The pair is prepared and made the current one. *)
LEMMA PairSetUp ==
    ASSUME DerivationInv, PreparePair \/ PairStarted
    PROVE  DerivationInv'
<1>1. /\ lane.pc \in {"pair", "start_pair"}
      /\ UNCHANGED <<stop, active, child, orphan, queue, up, closing, busy, user, quiet, crossed>>
  BY DEF PreparePair, PairStarted, At, process, app, seen
<1>2. /\ Shapes /\ Rest /\ Disk /\ Proc /\ Supervised /\ row # None /\ row \in Row
      /\ row.cp \in 0..NPairs /\ row.cur \in Pairs \cup {None} /\ ~active /\ child = "none"
  <2>1. Shapes /\ Rest /\ Disk /\ Proc /\ Supervised /\ row # None
    BY <1>1, LaneFinds
  <2>2. lane.pc \notin Operation /\ lane.pc \notin Stages
    BY <1>1 DEF Operation, Working, Stages
  <2> QED BY <2>1, <2>2, RowIsThere DEF Supervised, Proc
<1>3. ASSUME NEW p \in {"idle", "start_pair", "begin_pair"}, Goto(p)
      PROVE  /\ lane' \in LaneState /\ lane'.pc = p /\ Supervised' /\ Proc' /\ p \notin Working
  <2>1. p \in Outside /\ p \notin Operation /\ p \notin Working
    BY DEF Outside, Operation, Working, Stages
  <2>2. lane' \in LaneState /\ lane'.pc = p
    BY <1>2, <1>3, <2>1, LaneGoes DEF Goto
  <2> QED BY <1>1, <1>2, <2>1, <2>2 DEF Supervised, Proc
<1>4. "idle" \in Free
  BY DEF Free, Outside, Working, Stages, InPair
<1>5. CASE PreparePair
  <2>1. CASE row.cp = NPairs
    <3> DEFINE d == stage_failed(row)
    <3>1. Goto("idle") /\ row' = d.row /\ Discard(d) /\ failed' = TRUE
      BY <1>5, <2>1 DEF PreparePair
    <3>2. Keeps(row, d) /\ d.row.desired = row.desired
      BY <1>2, FailedDecision
    <3> HIDE DEF d
    <3>3. Rest'
      BY <1>1, <1>2, <3>1 DEF Rest
    <3> QED BY <1>1, <1>2, <1>3, <1>4, <3>1, <3>2, <3>3, ReductionFrame
  <2>2. CASE row.cp # NPairs
    <3>1. /\ work' = (IF row.cp \in final THEN "whole" ELSE "partial") /\ final' = final \ {row.cp}
          /\ Goto("start_pair") /\ UNCHANGED <<row, derived, failed>>
      BY <1>5, <2>2 DEF PreparePair
    <3>2. Disk' /\ Rest'
      BY <1>1, <1>2, <3>1 DEF Disk, Rest
    <3>3. row.cp < NPairs /\ row.cp \notin 0..(row.cp - 1)
      BY <1>2, <2>2, Sentinels
    <3>4. RowKept'
      BY <1>2, <3>1, <3>3 DEF DerivationInv, RowKept
    <3>5. LaneKept'
      BY <1>3, <3>1, <3>3 DEF LaneKept
    <3> QED BY <1>1, <1>2, <1>3, <3>1, <3>2, <3>4, <3>5, LaneRests
  <2> QED BY <2>1, <2>2
<1>6. CASE PairStarted
  <2>1. UNCHANGED <<work, final, derived, failed>> /\ lane.pc = "start_pair"
    BY <1>6 DEF PairStarted, files, seen, At
  <2>2. Disk' /\ Rest'
    BY <1>1, <1>2, <2>1 DEF Disk, Rest
  <2>3. row.cp < NPairs
    BY <1>2, <2>1 DEF DerivationInv, LaneKept, InPair
  <2>4. CASE Goto("idle") /\ UNCHANGED row
    <3>1. lane'.pc = "idle" /\ lane' \in LaneState /\ Supervised' /\ Proc' /\ lane'.pc \notin InPair
      BY <1>3, <2>4 DEF InPair
    <3> QED BY <1>1, <1>2, <1>4, <2>1, <2>2, <2>4, <3>1, RestsFrame
  <2>5. CASE row' = [row EXCEPT !.cur = row.cp] /\ Goto("begin_pair")
    <3>1. row.cp \in Pairs
      BY <1>2, <2>3, Sentinels DEF Pairs
    <3>2. /\ row' \in Row /\ row'.cp = row.cp /\ row'.cur = row.cp /\ row'.desired = row.desired
          /\ row'.state = row.state
      BY <1>2, <2>5, <3>1 DEF Row
    <3>3. RowKept'
      BY <1>2, <2>1, <3>2 DEF DerivationInv, RowKept
    <3>4. LaneKept'
      BY <1>3, <2>3, <2>5, <3>2 DEF LaneKept
    <3> QED BY <1>1, <1>2, <1>3, <2>2, <2>5, <3>2, <3>3, <3>4, LaneRests
  <2> QED BY <1>6, <2>4, <2>5 DEF PairStarted
<1> QED BY <1>5, <1>6

(* Between the stages of a pair, and its publication. *)
LEMMA PairWork ==
    ASSUME DerivationInv, AfterEncoding \/ AfterQuality \/ AfterValidation \/ PublishPair
    PROVE  DerivationInv'
<1>1. /\ lane.pc \in {"encoded", "measured", "validated", "publish_pair"}
      /\ UNCHANGED <<row, stop, active, child, orphan, queue, up, closing, busy, user, quiet, crossed, failed>>
  BY DEF AfterEncoding, AfterQuality, AfterValidation, PublishPair, At, process, app, seen
<1>2. /\ Shapes /\ Rest /\ Disk /\ Proc /\ Supervised /\ row # None /\ row \in Row
      /\ row.cp \in 0..NPairs /\ active /\ child = "none" /\ stop \in Reasons \cup {"deadline", None}
      /\ lane.pc \in Working /\ lane.pc \in InPair /\ row.cp < NPairs
  <2>1. Shapes /\ Rest /\ Disk /\ Proc /\ Supervised /\ row # None /\ stop \in Reasons \cup {"deadline", None}
    BY <1>1, LaneFinds
  <2>2. lane.pc \in Operation /\ lane.pc \notin Stages /\ lane.pc \in Working /\ lane.pc \in InPair
    BY <1>1 DEF Operation, Working, Stages, InPair
  <2>3. active /\ child = "none"
    BY <2>1, <2>2 DEF Supervised, Proc
  <2>4. row.cp < NPairs
    BY <2>1, <2>2 DEF DerivationInv, LaneKept
  <2> QED BY <2>1, <2>2, <2>3, <2>4, RowIsThere
<1>3. Rest' /\ Proc'
  BY <1>1, <1>2 DEF Rest, Proc
<1>4. ASSUME NEW p \in Operation, NEW w \in Reasons \cup {"deadline", None}, NEW t \in {"idle", "loop"},
             \/ lane' = [lane EXCEPT !.pc = p] \/ lane' = [lane EXCEPT !.pc = p, !.why = w]
             \/ lane' = [lane EXCEPT !.pc = p, !.then = t]
      PROVE  lane' \in LaneState /\ lane'.pc = p /\ Supervised'
  <2>1. /\ [lane EXCEPT !.pc = p] \in LaneState /\ [lane EXCEPT !.pc = p].pc = p
        /\ [lane EXCEPT !.pc = p, !.why = w] \in LaneState /\ [lane EXCEPT !.pc = p, !.why = w].pc = p
        /\ [lane EXCEPT !.pc = p, !.then = t] \in LaneState /\ [lane EXCEPT !.pc = p, !.then = t].pc = p
    BY <1>2, LaneGoes
  <2>2. lane' \in LaneState /\ lane'.pc = p
    BY <1>4, <2>1
  <2> QED BY <1>1, <1>2, <2>2 DEF Supervised
<1>5. /\ {"quality", "validation", "publish_pair", "checkpoint", "stopped_in_stage", "finish"} \subseteq Operation
      /\ "checkpoint" \notin Working /\ "checkpoint" \notin InPair
      /\ "stopped_in_stage" \in Free /\ "stopped_in_stage" \notin InPair
  BY DEF Operation, Working, Stages, InPair, Free
<1>6. row.cp \notin 0..(row.cp - 1) /\ row.cp \in Pairs
  BY <1>2, Sentinels DEF Pairs
<1>7. \* The files of finished pairs stay and the work goes on, or stops.
      ASSUME NEW p \in {"quality", "validation", "publish_pair", "stopped_in_stage", "finish"},
             lane' \in LaneState, lane'.pc = p, Supervised', UNCHANGED files
      PROVE  DerivationInv'
  <2>1. UNCHANGED <<work, final, derived>>
    BY <1>7 DEF files
  <2>2. Disk'
    BY <1>2, <2>1 DEF Disk
  <2>3. lane'.pc \notin {"checkpoint", "commit_row"}
    BY <1>7
  <2> QED BY <1>1, <1>2, <1>3, <1>7, <2>1, <2>2, <2>3, WorksFrame
<1>8. CASE AfterEncoding
  <2>1. lane' = [lane EXCEPT !.pc = "quality"] \/ lane' = [lane EXCEPT !.pc = "stopped_in_stage", !.why = stop]
    BY <1>8 DEF AfterEncoding
  <2>2. UNCHANGED files
    BY <1>8 DEF AfterEncoding
  <2>3. PICK p \in {"quality", "stopped_in_stage"} : lane' \in LaneState /\ lane'.pc = p /\ Supervised'
    BY <1>2, <1>4, <1>5, <2>1
  <2> QED BY <1>7, <2>2, <2>3
<1>9. CASE AfterQuality
  <2>1. lane' = [lane EXCEPT !.pc = "validation"] /\ UNCHANGED files
    BY <1>9 DEF AfterQuality, Goto
  <2>2. lane' \in LaneState /\ lane'.pc = "validation" /\ Supervised'
    BY <1>2, <1>4, <1>5, <2>1
  <2> QED BY <1>7, <2>1, <2>2
<1>10. CASE AfterValidation
  <2>1. CASE Goto("publish_pair") /\ UNCHANGED files
    <3>1. lane' \in LaneState /\ lane'.pc = "publish_pair" /\ Supervised'
      BY <1>2, <1>4, <1>5, <2>1 DEF Goto
    <3> QED BY <1>7, <2>1, <3>1
  <2>2. CASE /\ lane' = [lane EXCEPT !.pc = "stopped_in_stage", !.why = stop]
             /\ work' = "none" /\ final' = final \ {row.cp} /\ UNCHANGED derived
    <3>1. lane' \in LaneState /\ lane'.pc = "stopped_in_stage" /\ Supervised'
      BY <1>2, <1>4, <1>5, <2>2
    <3>2. Disk'
      BY <1>2, <2>2 DEF Disk
    <3>3. RowKept'
      BY <1>1, <1>2, <1>6, <2>2 DEF DerivationInv, RowKept
    <3>4. LaneKept' /\ lane'.pc \notin Working
      BY <1>5, <3>1 DEF LaneKept, Free
    <3> QED BY <1>1, <1>2, <1>3, <3>1, <3>2, <3>3, <3>4, LaneRests
  <2> QED BY <1>10, <2>1, <2>2 DEF AfterValidation
<1>11. CASE PublishPair
  <2>1. CASE work' = "none" /\ final' = final \cup {row.cp} /\ Goto("checkpoint") /\ UNCHANGED derived
    <3>1. lane' \in LaneState /\ lane'.pc = "checkpoint" /\ Supervised'
      BY <1>2, <1>4, <1>5, <2>1 DEF Goto
    <3>2. Disk'
      BY <1>2, <1>6, <2>1 DEF Disk
    <3>3. RowKept'
      BY <1>1, <1>2, <2>1 DEF DerivationInv, RowKept
    <3>4. LaneKept' /\ lane'.pc \notin Working
      BY <1>1, <1>5, <2>1, <3>1 DEF LaneKept
    <3> QED BY <1>1, <1>2, <1>3, <3>1, <3>2, <3>3, <3>4, LaneRests
  <2>2. CASE lane' = [lane EXCEPT !.pc = "finish", !.then = "idle"] /\ UNCHANGED files
    <3>1. lane' \in LaneState /\ lane'.pc = "finish" /\ Supervised'
      BY <1>2, <1>4, <1>5, <2>2
    <3> QED BY <1>7, <2>2, <3>1
  <2> QED BY <1>11, <2>1, <2>2 DEF PublishPair
<1> QED BY <1>8, <1>9, <1>10, <1>11

(* A published pair is checkpointed, the whole derivative committed. *)
LEMMA PublishSteps ==
    ASSUME DerivationInv, PairCheckpointed \/ CommitFiles
    PROVE  DerivationInv'
<1>1. /\ lane.pc \in {"checkpoint", "commit"}
      /\ UNCHANGED <<stop, active, child, orphan, queue, up, closing, busy, user, quiet, crossed, failed>>
  BY DEF PairCheckpointed, CommitFiles, Report, At, process, app, seen
<1>2. /\ Shapes /\ Rest /\ Disk /\ Proc /\ Supervised /\ row # None /\ row \in Row
      /\ row.cp \in 0..NPairs /\ child = "none" /\ (active <=> lane.pc = "checkpoint")
      /\ row.state \in States
  <2>1. Shapes /\ Rest /\ Disk /\ Proc /\ Supervised /\ row # None
    BY <1>1, LaneFinds
  <2>2. lane.pc \notin Stages /\ (lane.pc \in Operation <=> lane.pc = "checkpoint")
    BY <1>1 DEF Operation, Working, Stages
  <2> QED BY <2>1, <2>2, RowIsThere DEF Supervised, Proc
<1>3. Rest' /\ Proc'
  BY <1>1, <1>2 DEF Rest, Proc
<1>4. CASE PairCheckpointed
  <2>1. /\ lane.pc = "checkpoint" /\ UNCHANGED <<work, final, derived>>
        /\ row' = IF row.state = "encoding"
                  THEN [row EXCEPT !.cp = @ + 1, !.cur = None,
                                   !.state = IF row.cp + 1 = NPairs THEN "validating" ELSE @]
                  ELSE row
        /\ \E t \in {"idle", "loop"} : lane' = [lane EXCEPT !.pc = "finish", !.then = t]
    <3> DEFINE t == IF row.state = "encoding" THEN "loop" ELSE "idle"
    <3>1. /\ lane.pc = "checkpoint" /\ UNCHANGED <<work, final, derived>>
          /\ row' = IF row.state = "encoding"
                    THEN [row EXCEPT !.cp = @ + 1, !.cur = None,
                                     !.state = IF row.cp + 1 = NPairs THEN "validating" ELSE @]
                    ELSE row
          /\ lane' = [lane EXCEPT !.pc = "finish", !.then = t]
      BY <1>4 DEF PairCheckpointed, Report, At, files
    <3>2. t \in {"idle", "loop"}
      OBVIOUS
    <3> HIDE DEF t
    <3> QED BY <3>1, <3>2
  <2>2. /\ "finish" \in Operation \cup Outside /\ None \in Reasons \cup {"deadline", None}
        /\ "finish" \in Free /\ "finish" \in Operation
    BY DEF Operation, Working, Stages, Free, InPair
  <2>3. lane' \in LaneState /\ lane'.pc = "finish"
    <3>1. PICK t \in {"idle", "loop"} : lane' = [lane EXCEPT !.pc = "finish", !.then = t]
      BY <2>1
    <3>2. /\ [lane EXCEPT !.pc = "finish", !.then = t] \in LaneState
          /\ [lane EXCEPT !.pc = "finish", !.then = t].pc = "finish"
      BY <1>2, <2>2, LaneGoes
    <3> QED BY <3>1, <3>2
  <2>4. Supervised' /\ Disk' /\ lane'.pc \in Free
    BY <1>1, <1>2, <2>1, <2>2, <2>3 DEF Supervised, Disk
  <2>5. CASE row.state # "encoding"
    <3>1. row' = row
      BY <2>1, <2>5
    <3>2. lane'.pc \notin InPair
      BY <2>3 DEF InPair
    <3> QED BY <1>1, <1>2, <1>3, <2>1, <2>3, <2>4, <3>1, <3>2, RestsFrame
  <2>6. CASE row.state = "encoding"
    <3>1. row.cp \in final /\ row.cp \in Pairs
      BY <1>2, <2>1, <2>6 DEF DerivationInv, LaneKept, Disk
    <3>2. row.cp + 1 \in 0..NPairs /\ row.cp \in Nat
      BY <3>1, Sentinels DEF Pairs
    <3> DEFINE s == IF row.cp + 1 = NPairs THEN "validating" ELSE "encoding"
    <3>3. s \in States /\ s # "derived_verified"
      BY DEF States, Active
    <3>4. row' = [row EXCEPT !.cp = row.cp + 1, !.cur = None, !.state = s]
      BY <2>1, <2>6
    <3> HIDE DEF s
    <3>5. /\ row' \in Row /\ row'.cp = row.cp + 1 /\ row'.cur = None /\ row'.state = s
          /\ row'.desired = row.desired
      BY <1>2, <3>2, <3>3, <3>4 DEF Row
    <3>6. 0..(row'.cp - 1) \subseteq final' \cup derived'
      <4>1. \A i \in 0..(row'.cp - 1) : i \in 0..(row.cp - 1) \/ i = row.cp
        BY <3>2, <3>5
      <4>2. 0..(row.cp - 1) \subseteq final \cup derived
        BY <1>2 DEF DerivationInv, RowKept
      <4> QED BY <2>1, <3>1, <4>1, <4>2
    <3>7. RowKept'
      BY <3>3, <3>5, <3>6 DEF RowKept
    <3>8. LaneKept' /\ lane'.pc \notin Working
      BY <2>4 DEF LaneKept, Free
    <3> QED BY <1>1, <1>2, <1>3, <2>3, <2>4, <3>5, <3>7, <3>8, LaneRests
  <2> QED BY <2>5, <2>6
<1>5. CASE CommitFiles
  <2>1. lane.pc = "commit" /\ UNCHANGED row
    BY <1>5 DEF CommitFiles, At
  <2>2. ASSUME NEW p \in {"idle", "commit_row"}, Goto(p)
        PROVE  lane' \in LaneState /\ lane'.pc = p /\ Supervised'
    <3>1. p \in Outside /\ p \notin Operation
      BY DEF Outside, Operation, Working, Stages
    <3>2. lane' \in LaneState /\ lane'.pc = p
      BY <1>2, <2>2, <3>1, LaneGoes DEF Goto
    <3> QED BY <1>1, <1>2, <2>1, <3>1, <3>2 DEF Supervised
  <2>3. CASE derived' = Pairs /\ final' = {} /\ work' = "none" /\ Goto("commit_row")
    <3>1. Disk'
      BY <2>3 DEF Disk
    <3>2. 0..(row.cp - 1) \subseteq Pairs
      BY <1>2, Sentinels DEF Pairs
    <3>3. RowKept'
      BY <1>2, <2>1, <2>3, <3>2 DEF DerivationInv, RowKept
    <3>4. LaneKept' /\ lane'.pc \notin Working
      BY <2>2, <2>3 DEF LaneKept, InPair, Working, Stages
    <3> QED BY <1>1, <1>2, <1>3, <2>1, <2>2, <2>3, <3>1, <3>3, <3>4, LaneRests
  <2>4. CASE Goto("idle") /\ UNCHANGED files
    <3>1. UNCHANGED <<work, final, derived>>
      BY <2>4 DEF files
    <3>2. Disk' /\ lane' \in LaneState /\ lane'.pc = "idle" /\ Supervised'
      BY <1>2, <2>2, <2>4, <3>1 DEF Disk
    <3>3. lane'.pc \in Free /\ lane'.pc \notin InPair
      BY <3>2 DEF Free, Outside, Working, Stages, InPair
    <3> QED BY <1>1, <1>2, <1>3, <2>1, <3>1, <3>2, <3>3, RestsFrame
  <2> QED BY <1>5, <2>3, <2>4 DEF CommitFiles
<1> QED BY <1>4, <1>5

-----------------------------------------------------------------------------
(* The application and its surroundings.                                   *)

(* What happens around the lane and the commands. *)
LEMMA SurroundingSteps ==
    ASSUME DerivationInv, OrphanExits \/ SourceTaken \/ SourceReleased \/ Shutdown \/ Restart
    PROVE  DerivationInv'
<1>1. UNCHANGED <<row, work, final, derived, active, child, lane, user, quiet, crossed>>
  BY DEF OrphanExits, SourceTaken, SourceReleased, Shutdown, Restart, files, process, seen
<1>2. Shapes /\ Rest /\ Started
  BY LaneFinds DEF DerivationInv
<1>3. Rest'
  BY <1>2 DEF Rest, Reasons, OrphanExits, SourceTaken, SourceReleased, Shutdown, Restart, files, process, app, seen
<1>4. Shapes'
  BY <1>1, <1>2, <1>3 DEF Shapes, Rest
<1>5. row = None => ~queue' /\ up'
  BY <1>2 DEF Started, OrphanExits, SourceTaken, SourceReleased, Shutdown, Restart, app
<1>6. Started'
  BY <1>1, <1>2, <1>5 DEF Started
<1>7. RowKept' /\ LaneKept' /\ Supervised'
  BY <1>1 DEF DerivationInv, RowKept, LaneKept, Supervised
<1>8. OnActiveRow' /\ Settles' /\ Stopped'
  BY <1>1 DEF DerivationInv, OnActiveRow, Settles, Stopped
<1> QED BY <1>4, <1>6, <1>7, <1>8 DEF DerivationInv

(* The process ends: what it kept in memory is gone. *)
LEMMA ExitStep ==
    ASSUME DerivationInv, Exit
    PROVE  DerivationInv'
<1>1. /\ row # None /\ UNCHANGED <<row, work, final, derived, quiet, failed>>
      /\ up' = FALSE /\ stop' = None /\ active' = FALSE /\ child' = "none"
      /\ orphan' = (orphan \/ child # "none") /\ queue' = FALSE /\ closing' = FALSE /\ busy' = FALSE
      /\ lane' = [pc |-> "idle", why |-> None, then |-> "idle"]
      /\ user' = [u \in Users |-> NoCommand] /\ crossed' = FALSE
  BY DEF Exit, files
<1>2. lane' \in LaneState /\ lane'.pc = "idle"
  BY <1>1 DEF LaneState, Outside
<1>3. user' \in [Users -> Command] /\ \A u \in Users : user'[u].pc = "idle"
  BY <1>1 DEF NoCommand, Command
<1>4. Shapes'
  <2>1. orphan' \in BOOLEAN
    BY <1>1
  <2> QED BY <1>1, <1>2, <1>3, <2>1 DEF DerivationInv, Shapes
<1>5. Started' /\ RowKept'
  BY <1>1 DEF DerivationInv, Started, RowKept
<1>6. lane'.pc \notin Working /\ lane'.pc \notin Operation /\ lane'.pc \notin InPair
  BY <1>2 DEF Working, Operation, Stages, InPair
<1>7. LaneKept' /\ Supervised' /\ OnActiveRow' /\ Stopped'
  BY <1>1, <1>2, <1>6 DEF LaneKept, Supervised, OnActiveRow, Stopped
<1>8. Settles'
  BY <1>3 DEF Settles
<1> QED BY <1>4, <1>5, <1>7, <1>8 DEF DerivationInv

(* Nothing happens. *)
LEMMA DerivationStutters ==
    ASSUME DerivationInv, UNCHANGED vars
    PROVE  DerivationInv'
<1>1. UNCHANGED <<row, work, final, derived, stop, active, child, orphan, queue, up, closing, busy, lane, user,
                  quiet, crossed, failed>>
  BY DEF vars, files, process, app, seen
<1>2. Shapes' /\ Started'
  BY <1>1 DEF DerivationInv, Shapes, Started
<1>3. RowKept' /\ LaneKept' /\ Supervised'
  BY <1>1 DEF DerivationInv, RowKept, LaneKept, Supervised
<1>4. OnActiveRow' /\ Settles' /\ Stopped'
  BY <1>1 DEF DerivationInv, OnActiveRow, Settles, Stopped
<1> QED BY <1>2, <1>3, <1>4 DEF DerivationInv

(* Before the first start. *)
LEMMA DerivationBegins ==
    ASSUME DerivationInit
    PROVE  DerivationInv
<1>1. lane \in LaneState /\ lane.pc = "idle"
  BY DEF DerivationInit, LaneState, Outside
<1>2. user \in [Users -> Command] /\ \A u \in Users : user[u].pc = "idle"
  BY DEF DerivationInit, NoCommand, Command
<1>3. Shapes
  BY <1>1, <1>2 DEF DerivationInit, Shapes
<1>4. Started /\ RowKept /\ LaneKept
  BY <1>1, <1>2 DEF DerivationInit, Started, RowKept, LaneKept
<1>5. lane.pc \notin Working /\ lane.pc \notin Operation
  BY <1>1 DEF Working, Operation, Stages
<1>6. Supervised /\ OnActiveRow /\ Stopped
  BY <1>5 DEF DerivationInit, Supervised, OnActiveRow, Stopped
<1>7. Settles
  BY <1>2 DEF Settles
<1> QED BY <1>3, <1>4, <1>6, <1>7 DEF DerivationInv

(* Every step keeps the invariant. *)
LEMMA DerivationStep ==
    ASSUME DerivationInv, [DerivationNext]_vars
    PROVE  DerivationInv'
<1>1. CASE Lane
  <2>1. CASE Take \/ RunOne \/ Loop
    BY <2>1, RunSteps
  <2>2. CASE NoSource \/ SourceAvailable \/ ReportStopped \/ FinalizeCancel
    BY <2>2, ReductionSteps
  <2>3. CASE WorkerStopped \/ WorkerFailed \/ Finish
    BY <2>3, OperationEnds
  <2>4. CASE BeginProbe \/ BeginPair
    BY <2>4, BeginSteps
  <2>5. CASE ProbeCompleted \/ PlanCompleted \/ ValidationCompleted \/ CommitCompleted
    BY <2>5, ReportSteps
  <2>6. CASE PreparePair \/ PairStarted
    BY <2>6, PairSetUp
  <2>7. CASE AfterEncoding \/ AfterQuality \/ AfterValidation \/ PublishPair
    BY <2>7, PairWork
  <2>8. CASE PairCheckpointed \/ CommitFiles
    BY <2>8, PublishSteps
  <2> QED BY <1>1, <2>1, <2>2, <2>3, <2>4, <2>5, <2>6, <2>7, <2>8 DEF Lane
<1>2. CASE Supervision \/ ChildFails \/ DeadlinePasses \/ ChildStuck
  BY <1>2, SupervisionSteps
<1>3. ASSUME NEW u \in Users, UserStep(u) \/ IdleTimeout(u)
      PROVE  DerivationInv'
  BY <1>3, UserSteps, SettleStep DEF UserStep
<1>4. ASSUME NEW u \in Users, NEW c \in Commands, Ask(u, c)
      PROVE  DerivationInv'
  BY <1>4, AskStep
<1>5. CASE OrphanExits \/ SourceTaken \/ SourceReleased \/ Shutdown \/ Restart
  BY <1>5, SurroundingSteps
<1>6. CASE Exit
  BY <1>6, ExitStep
<1>7. CASE UNCHANGED vars
  BY <1>7, DerivationStutters
<1> QED BY <1>1, <1>2, <1>3, <1>4, <1>5, <1>6, <1>7 DEF DerivationNext

(* The inductive invariant holds throughout. *)
THEOREM DerivationInvariant == DerivationSpec => []DerivationInv
<1>1. DerivationInit => DerivationInv
  BY DerivationBegins
<1>2. DerivationInv /\ [DerivationNext]_vars => DerivationInv'
  BY DerivationStep
<1> QED BY <1>1, <1>2, PTL DEF DerivationSpec

(* DerivationTypeOK: the row, the files and the flags have their types. *)
THEOREM DerivationTypes == DerivationSpec => []DerivationTypeOK
<1>1. DerivationInv => DerivationTypeOK
  BY DEF DerivationInv, Shapes, DerivationTypeOK
<1> QED BY <1>1, DerivationInvariant, PTL

(* StoppedIsQuiet: after an accepted pause or cancel was answered Ok the    *)
(* supervisor runs no process of the job and no pair of it is handled,     *)
(* unless a settling that had been taken back crossed the operation        *)
(* (reduce_inner, begin).                                                  *)
THEOREM StopIsQuiet == DerivationSpec => []StoppedIsQuiet
<1>1. DerivationInv => StoppedIsQuiet
  <2> SUFFICES ASSUME DerivationInv, quiet, ~crossed, row.desired = "paused" \/ row.state = "cancelling"
               PROVE  /\ child = "none"
                      /\ lane.pc \notin Stages \cup {"encoded", "measured", "validated", "publish_pair"}
    BY DEF StoppedIsQuiet
  <2>1. lane.pc \notin Working
    BY DEF DerivationInv, Stopped
  <2>2. child = "none"
    BY <2>1 DEF DerivationInv, Supervised, Working
  <2> QED BY <2>1, <2>2 DEF Working
<1> QED BY <1>1, DerivationInvariant, PTL

(* CheckpointedIsOnDisk: every checkpointed pair is in the staging          *)
(* directory or published, and a verified derivation is published whole    *)
(* (discard_pair, publish_validated_pair, commit_derivative).              *)
THEOREM CheckpointsKept == DerivationSpec => []CheckpointedIsOnDisk
<1>1. DerivationInv => CheckpointedIsOnDisk
  BY DEF DerivationInv, RowKept, CheckpointedIsOnDisk
<1> QED BY <1>1, DerivationInvariant, PTL
=============================================================================
