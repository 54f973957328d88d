---------------------------- MODULE TransferStore ---------------------------
(***************************************************************************)
(* The durable download tables of persistence/transfer_store.rs: job rows, *)
(* the per-file evidence ledger, the completion outbox and the retry       *)
(* lineage.  Every public method is one SQLite transaction, so every       *)
(* method is one action; a method that refuses its arguments writes        *)
(* nothing and is the action's negated guard.  A crash between two         *)
(* transactions loses nothing and a crash inside one rolls it back, so a   *)
(* crash is a stuttering step here.                                        *)
(*                                                                         *)
(* The callers are left arbitrary: what is shown here the store guarantees *)
(* by itself, whatever the coordinator asks of it.                         *)
(***************************************************************************)
EXTENDS JobAggregate, FiniteSets

CONSTANTS JobIds,        \* job ids (UUIDs) that may ever be proposed
          Identities,    \* (device, session, revision) natural keys
          Digests,       \* request digests
          Files,         \* the files every request names
          Size,          \* the size of each file, in bytes
          Shas,          \* actual SHA-256 values a verification may find
          CommitStates,  \* the non-terminal states callers commit
          MaxVersion,    \* the largest state_version the column can hold
          MaxAttempt,    \* the largest retry attempt number the column can hold
          NoJob          \* "no such row"

ASSUME StoreConstants ==
    /\ NoJob \notin JobIds
    /\ "none" \notin Shas
    /\ "queued" \in CommitStates
    /\ CommitStates \subseteq NonTerminal
    /\ Size \in Nat
    /\ MaxVersion \in Nat \ {0}
    /\ MaxAttempt \in Nat \ {0}

VARIABLES rows,     \* transfer_jobs
          ledger,   \* transfer_file_ledger
          outbox,   \* transfer_completion_outbox
          lineage   \* transfer_job_lineage, by child

storeVars == <<rows, ledger, outbox, lineage>>

NoIdentity == "none"

NoRow == [state |-> "absent", version |-> 0, desired |-> "run", dismissed |-> FALSE,
          identity |-> NoIdentity, digest |-> NoIdentity]

Row == [state : CommitStates \cup Terminal, version : 1..MaxVersion,
        desired : RunIntents, dismissed : BOOLEAN,
        identity : Identities, digest : Digests]

LedgerStatuses == {"missing", "partial", "verified", "invalid"}

NoEvidence == [status |-> "missing", bytes |-> 0, sha |-> "none"]

Evidence == [status : LedgerStatuses, bytes : 0..Size,
             sha : Shas \cup {"none"}]

NoOutcome == [outcome |-> "none", version |-> 0, acked |-> FALSE]

Completion == [outcome : Terminal, version : 1..MaxVersion, acked : BOOLEAN]

NoLink == [parent |-> NoJob, attempt |-> 0]

Link == [parent : JobIds, attempt : 1..MaxAttempt]

Present(j) == rows[j].state # "absent"

IsTerminal(j) == rows[j].state \in Terminal

Children(p) == {c \in JobIds : lineage[c].parent = p}

(* The child with the highest attempt number. *)
LatestChild(p, c) ==
    c \in Children(p) /\ \A d \in Children(p) : lineage[d].attempt <= lineage[c].attempt

StoreInit ==
    /\ rows = [j \in JobIds |-> NoRow]
    /\ ledger = [j \in JobIds |-> [f \in Files |-> NoEvidence]]
    /\ outbox = [j \in JobIds |-> NoOutcome]
    /\ lineage = [j \in JobIds |-> NoLink]

-----------------------------------------------------------------------------
(* A fresh row, in `queued` at version 1 with the intent to run. *)
NewRow(id, d) == [state |-> "queued", version |-> 1, desired |-> "run",
                  dismissed |-> FALSE, identity |-> id, digest |-> d]

(* Guards the methods share, each after the plausible bug the properties are
   tested against. *)

(* read_latest_job_by_identity finds nothing, retries included. *)
IdentityIsFree(id) == \A k \in JobIds : rows[k].identity # id

LiveOrFinished(j) == Present(j)             \* bug: the terminal clause is lost

Live(j) == Present(j) /\ ~IsTerminal(j)

NextVersionFitsLate(v) == v <= MaxVersion   \* bug: off by one

(* checked_add and checked_i64: the next version still fits the column. *)
NextVersionFits(v) == v < MaxVersion

DeliveredOrNot(j) == TRUE                   \* bug: the outbox is not consulted

(* An outcome, if there is one, has been acknowledged. *)
Delivered(j) == outbox[j].outcome # "none" => outbox[j].acked

Childless(p) == TRUE                        \* bug: no ON DELETE RESTRICT

HasNoChildren(p) == Children(p) = {}

NoLiveChildEver(p) == TRUE                  \* bug: a second click finds nothing

NoLiveChild(p) == \A c \in JobIds : LatestChild(p, c) => IsTerminal(c)

AnyEvidence(stored, status, bytes, sha) ==  \* bug: verified evidence is downgraded
    bytes >= stored.bytes

(* Evidence only grows; a verified digest is write-once. *)
Extends(stored, status, bytes, sha) ==
    /\ stored.status = "verified" => status = "verified" /\ sha = stored.sha
    /\ bytes >= stored.bytes

insert_stale_outbox_row(outcome, version) ==  \* bug: the version before the commit
    [outcome |-> outcome, version |-> version - 1, acked |-> FALSE]

insert_outbox_row(outcome, version) ==
    [outcome |-> outcome, version |-> version, acked |-> FALSE]

Dismissable(j) == IsTerminal(j) /\ outbox[j].acked

-----------------------------------------------------------------------------
(* Idempotent hits, digest mismatches and job-id collisions write nothing. *)
create_job(j, id, d) ==
    /\ IdentityIsFree(id)
    /\ ~Present(j)
    /\ rows' = [rows EXCEPT ![j] = NewRow(id, d)]
    /\ ledger' = [ledger EXCEPT ![j] = [f \in Files |-> NoEvidence]]
    /\ UNCHANGED <<outbox, lineage>>

transition_job(j, expected, to) ==
    /\ to \notin Terminal
    /\ Live(j)
    /\ rows[j].version = expected
    /\ NextVersionFits(expected)
    /\ rows' = [rows EXCEPT ![j].state = to, ![j].version = expected + 1]
    /\ UNCHANGED <<ledger, outbox, lineage>>

(* The intent is not an execution transition: the version stays. *)
set_desired_run_state(j, d, expected) ==
    /\ Present(j)
    /\ rows[j].version = expected
    /\ rows' = [rows EXCEPT ![j].desired = d]
    /\ UNCHANGED <<ledger, outbox, lineage>>

update_file_ledger(j, f, status, bytes, sha) ==
    /\ Present(j)
    /\ bytes <= Size
    /\ (status = "verified") = (sha # "none")
    /\ Extends(ledger[j][f], status, bytes, sha)
    /\ ledger' = [ledger EXCEPT ![j][f] = [status |-> status, bytes |-> bytes, sha |-> sha]]
    /\ UNCHANGED <<rows, outbox, lineage>>

(* The terminal state and its outbox row are one write.  Replaying the same
   outcome writes nothing; another outcome is refused. *)
complete_job(j, outcome) ==
    /\ Live(j)
    /\ outbox[j] = NoOutcome
    /\ NextVersionFits(rows[j].version)
    /\ rows' = [rows EXCEPT ![j].state = outcome, ![j].version = rows[j].version + 1]
    /\ outbox' = [outbox EXCEPT ![j] = insert_outbox_row(outcome, rows[j].version + 1)]
    /\ UNCHANGED <<ledger, lineage>>

acknowledge_completion(j) ==
    /\ outbox[j].outcome # "none"
    /\ ~outbox[j].acked
    /\ outbox' = [outbox EXCEPT ![j].acked = TRUE]
    /\ UNCHANGED <<rows, ledger, lineage>>

(* A child copies its parent's identity, digest and evidence.  While the
   parent's latest child is live that child is returned instead. *)
spawn_retry_job(parent, child) ==
    /\ rows[parent].state = "failed_retryable"
    /\ ~rows[parent].dismissed
    /\ outbox[parent].acked
    /\ ~Present(child)
    /\ NoLiveChild(parent)
    /\ rows' = [rows EXCEPT ![child] = NewRow(rows[parent].identity, rows[parent].digest)]
    /\ ledger' = [ledger EXCEPT ![child] = ledger[parent]]
    /\ \/ /\ Children(parent) = {}
          /\ lineage' = [lineage EXCEPT ![child] = [parent |-> parent, attempt |-> 1]]
       \/ \E latest \in JobIds :
             /\ LatestChild(parent, latest)
             /\ lineage[latest].attempt < MaxAttempt
             /\ lineage' = [lineage EXCEPT ![child] =
                               [parent |-> parent, attempt |-> lineage[latest].attempt + 1]]
    /\ UNCHANGED outbox

(* A visibility tombstone: the row and its evidence stay. *)
dismiss_job(j) ==
    /\ Dismissable(j)
    /\ ~rows[j].dismissed
    /\ rows' = [rows EXCEPT ![j].dismissed = TRUE]
    /\ UNCHANGED <<ledger, outbox, lineage>>

(* ON DELETE CASCADE drops the row's evidence, outcome and its own lineage
   link; ON DELETE RESTRICT refuses to drop a retry parent. *)
delete_job(j) ==
    /\ Present(j)
    /\ Delivered(j)
    /\ HasNoChildren(j)
    /\ rows' = [rows EXCEPT ![j] = NoRow]
    /\ ledger' = [ledger EXCEPT ![j] = [f \in Files |-> NoEvidence]]
    /\ outbox' = [outbox EXCEPT ![j] = NoOutcome]
    /\ lineage' = [lineage EXCEPT ![j] = NoLink]

(* Renaming a row that lineage still points at fails the deferred foreign
   keys when the transaction commits. *)
retarget_job(old, new) ==
    /\ Present(old) /\ ~Present(new)
    /\ Delivered(old)
    /\ HasNoChildren(old) /\ lineage[old] = NoLink
    /\ NextVersionFits(rows[old].version)
    /\ rows' = [rows EXCEPT
           ![old] = NoRow,
           ![new] = [rows[old] EXCEPT !.state = "queued", !.dismissed = FALSE,
                                      !.version = rows[old].version + 1]]
    /\ ledger' = [ledger EXCEPT ![old] = [f \in Files |-> NoEvidence],
                                ![new] = ledger[old]]
    /\ outbox' = [outbox EXCEPT ![old] = NoOutcome]
    /\ UNCHANGED lineage

StoreNext ==
    \/ \E j \in JobIds, id \in Identities, d \in Digests : create_job(j, id, d)
    \/ \E j \in JobIds, v \in 1..MaxVersion, to \in CommitStates : transition_job(j, v, to)
    \/ \E j \in JobIds, v \in 1..MaxVersion, d \in RunIntents : set_desired_run_state(j, d, v)
    \/ \E j \in JobIds, f \in Files, s \in LedgerStatuses,
          b \in 0..Size, sha \in Shas \cup {"none"} : update_file_ledger(j, f, s, b, sha)
    \/ \E j \in JobIds, o \in Terminal : complete_job(j, o)
    \/ \E j \in JobIds : acknowledge_completion(j)
    \/ \E p, c \in JobIds : spawn_retry_job(p, c)
    \/ \E j \in JobIds : dismiss_job(j)
    \/ \E j \in JobIds : delete_job(j)
    \/ \E old, new \in JobIds : retarget_job(old, new)

StoreSpec == StoreInit /\ [][StoreNext]_storeVars

-----------------------------------------------------------------------------
(* Type invariant: every table holds well-formed rows, and the columns that
   hang off a job are empty when the job has no row. *)
StoreTypeOK ==
    /\ rows \in [JobIds -> Row \cup {NoRow}]
    /\ ledger \in [JobIds -> [Files -> Evidence]]
    /\ outbox \in [JobIds -> Completion \cup {NoOutcome}]
    /\ lineage \in [JobIds -> Link \cup {NoLink}]

(* complete_job writes the state and the outcome in one transaction, so "there
   is no window where the state says done and the outbox disagrees": a row is
   terminal exactly when it has an outbox row, for the same outcome at the
   same state version, and a deleted or renamed row leaves no outcome behind. *)
OutboxMatchesRow ==
    \A j \in JobIds :
        IF IsTerminal(j)
        THEN outbox[j].outcome = rows[j].state /\ outbox[j].version = rows[j].version
        ELSE outbox[j] = NoOutcome

(* dismiss_job hides only what has been delivered: a dismissed row is terminal
   and its outcome acknowledged. *)
DismissedIsDelivered ==
    \A j \in JobIds : rows[j].dismissed => IsTerminal(j) /\ outbox[j].acked

(* spawn_retry_job's lineage is sound whatever is deleted, dismissed or renamed
   afterwards: the parent still exists, failed retryably and was delivered, and
   the child asks for the same files of the same session. *)
LineageIsSound ==
    \A c \in JobIds : lineage[c] # NoLink =>
        LET p == lineage[c].parent
        IN  /\ p # c
            /\ Present(c)
            /\ rows[p].state = "failed_retryable" /\ outbox[p].acked
            /\ rows[c].identity = rows[p].identity
            /\ rows[c].digest = rows[p].digest

(* "a crash or a double-click cannot create sibling workers": of all the retries
   of one parent at most one is still live, and it is the latest attempt. *)
OneLiveChild ==
    \A c, d \in JobIds :
        /\ c # d
        /\ lineage[c] # NoLink /\ lineage[d] # NoLink
        /\ lineage[c].parent = lineage[d].parent
        => /\ lineage[c].attempt # lineage[d].attempt
           /\ lineage[c].attempt < lineage[d].attempt => IsTerminal(c)

(* create_job refuses another file plan for a known session revision, so every
   row of one identity, retries included, carries one request digest. *)
OneDigestPerIdentity ==
    \A j, k \in JobIds :
        Present(j) /\ Present(k) /\ rows[j].identity = rows[k].identity
        => rows[j].digest = rows[k].digest

(* "the exact loss the outbox exists to prevent": no step loses or rewrites an
   outcome that has not been acknowledged yet. *)
UndeliveredOutcomeSurvives ==
    [][\A j \in JobIds :
           outbox[j].outcome # "none" /\ ~outbox[j].acked
           => /\ outbox'[j].outcome = outbox[j].outcome
              /\ outbox'[j].version = outbox[j].version
              /\ rows'[j].state = rows[j].state]_storeVars

(* A terminal row never runs again under its own id: its state, version and
   identity stay until the row itself is removed. *)
TerminalIsFinal ==
    [][\A j \in JobIds :
           IsTerminal(j)
           => \/ rows'[j] = NoRow /\ outbox[j].acked
              \/ /\ rows'[j].state = rows[j].state
                 /\ rows'[j].version = rows[j].version
                 /\ rows'[j].identity = rows[j].identity]_storeVars

(* update_file_ledger: "Evidence is monotonic: bytes never move backwards, a
   verified row never downgrades and a verified digest is write-once", for as
   long as the job keeps its row, and a retry inherits all of it. *)
EvidenceIsMonotonic ==
    [][\A j \in JobIds, f \in Files :
           Present(j) /\ rows'[j].state # "absent"
           => /\ ledger'[j][f].bytes >= ledger[j][f].bytes
              /\ ledger[j][f].status = "verified"
                 => /\ ledger'[j][f].status = "verified"
                    /\ ledger'[j][f].sha = ledger[j][f].sha]_storeVars

=============================================================================
